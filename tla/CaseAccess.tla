----------------------------- MODULE CaseAccess ------------------------------
(***************************************************************************)
(* Who may open which case of a production tenant: the binding of          *)
(* residents to accounts, entitlements with their identity proofs, links   *)
(* that move a case to another account, the one-time choice between two    *)
(* cases, and assistance by staff.                                         *)
(*                                                                         *)
(* Each call of the database is one transaction.  Verification is two of   *)
(* them with a call of the County's verifier between: the look for a       *)
(* handoff that was committed before, and the handoff itself, so that      *)
(* requests for the same access overlap.  The verifier is external; what   *)
(* it confirmed may be lost with the request.                              *)
(*                                                                         *)
(* A proof and its entitlement are made in one transaction and nothing     *)
(* changes a proof afterwards, so that a row stands for both.  A row of an *)
(* entitlement is changed once, when it is revoked, which stands for its   *)
(* version.                                                                *)
(***************************************************************************)
EXTENDS Integers, Sequences, FiniteSets

CONSTANTS
  Accounts,     \* confirmed accounts
  Cases,        \* cases, each staged with a resident of its own
  Methods,      \* notice_code, invitation_code
  Proofs,       \* digests of the verifier's grants
  Links,        \* tokens of case_transfer_grants
  Reviewers,    \* staff
  ProofTicks,   \* longest life of a proof, 30 minutes in the code
  ChoiceTicks,  \* life of a choice, 10 minutes
  LinkTicks,    \* life of a link, 10 or 15 minutes
  AskTicks,     \* life of a request for assistance, 24 hours
  AccessTime,   \* bound on time
  MaxVerified,  \* bound on verifications in flight
  MaxAsks,      \* bound on requests for assistance
  Unset         \* SQL null

ASSUME AccessAssumption ==
  /\ ProofTicks \in Nat \ {0} /\ ChoiceTicks \in Nat \ {0} /\ LinkTicks \in Nat \ {0}
  /\ AskTicks \in Nat \ {0} /\ AccessTime \in Nat /\ MaxVerified \in Nat /\ MaxAsks \in Nat
  /\ Accounts \cap Cases = {}
  /\ Unset \notin Accounts \cup Cases \cup Links \cup Reviewers

VARIABLES
  moment,    \* now()
  boundTo,   \* residents.auth_user_id
  cases,     \* their resident, and whether they are the resident's active one
  entitled,  \* case_entitlements, by idempotency key
  claims,    \* production_case_claim_receipts: proofs that claimed a case
  links,     \* case_transfer_grants
  verified,  \* requests the verifier has confirmed
  handoffs,  \* bound_case_entitlement_handoffs, by request
  choices,   \* case_entitlement_selections
  asks       \* entitlement_assistance_requests

accessVars == <<moment, boundTo, cases, entitled, claims, links, verified, handoffs, choices, asks>>

Instants == 0 .. AccessTime + ProofTicks + ChoiceTicks + LinkTicks + AskTicks

\* The resident a case was staged with, or the row inserted for an account.
Residents == Cases \cup Accounts

\* The request of an account for a case, by a link or directly.
Visit == [account : Accounts, case : Cases, link : Links \cup {Unset}, method : Methods]

EntitlementKeys ==
  [kind : {"claim", "bound"}, account : Accounts, case : Cases,
   via : Methods \cup Links \cup {Unset}, proof : Proofs]
  \cup [kind : {"staff"}, account : Accounts, case : Cases, via : 1 .. MaxAsks, proof : {Unset}]

Entitlement ==
  [case : Cases, resident : Residents, account : Accounts, expires : Instants,
   state : {"active", "revoked"}]

NoLink == [state |-> "absent", case |-> Unset, source |-> Unset, by |-> Unset, expires |-> 0]

Link ==
  [state : {"open", "deleted", "used"}, case : Cases, source : Residents, by : Accounts,
   expires : Instants]

Verification == [visit : Visit, proof : Proofs, expires : Instants]

Handoff == [entitlement : EntitlementKeys, expires : Instants, choice : Nat]

Choice ==
  [account : Accounts, attached : Cases, existing : Cases, attachedId : EntitlementKeys,
   existingId : EntitlementKeys \cup {Unset}, resident : Residents, expires : Instants,
   chosen : Cases \cup {Unset}]

Assistance ==
  [account : Accounts, case : Cases, link : Links \cup {Unset}, resident : Residents,
   state : {"open", "owned", "approved", "denied", "expired"},
   reviewer : Reviewers \cup {Unset}, expires : Instants,
   entitlement : EntitlementKeys \cup {Unset}]

AccessTypeOK ==
  /\ moment \in 0 .. AccessTime
  /\ boundTo \in [Residents -> Accounts \cup {Unset}]
  /\ cases \in [Cases -> [resident : Residents, active : BOOLEAN]]
  /\ DOMAIN entitled \subseteq EntitlementKeys
  /\ \A k \in DOMAIN entitled : entitled[k] \in Entitlement
  /\ claims \subseteq Proofs
  /\ links \in [Links -> Link \cup {NoLink}]
  /\ verified \subseteq Verification
  /\ DOMAIN handoffs \subseteq Visit
  /\ \A q \in DOMAIN handoffs : handoffs[q] \in Handoff
  /\ choices \in Seq(Choice)
  /\ asks \in Seq(Assistance) /\ Len(asks) <= MaxAsks

AccessInit ==
  /\ moment = 0
  /\ boundTo = [r \in Residents |-> Unset]
  /\ cases = [c \in Cases |-> [resident |-> c, active |-> TRUE]]
  /\ entitled = <<>> /\ claims = {}
  /\ links = [l \in Links |-> NoLink]
  /\ verified = {} /\ handoffs = <<>> /\ choices = <<>> /\ asks = <<>>

-----------------------------------------------------------------------------
(* Residents, and what an entitlement is good for.                         *)

Owner(c) == boundTo[cases[c].resident]

\* An account has one resident in the tenant; a transfer inserts a missing one.
ResidentOf(a) == IF \E r \in Residents : boundTo[r] = a
                 THEN CHOOSE r \in Residents : boundTo[r] = a
                 ELSE a

MayBind(a, r) ==
  boundTo[r] = a \/ (boundTo[r] = Unset /\ \A s \in Residents : boundTo[s] # a)

\* The active entitlement with a current proof.
Usable(rows, k) == rows[k].state = "active" /\ rows[k].expires > moment

CanRead(a, c) ==
  \E k \in DOMAIN entitled : entitled[k].case = c /\ entitled[k].account = a /\ Usable(entitled, k)

\* civya_service_case_entitlement_cache_status, asked before every access.
Authorized(rows, table, k) ==
  /\ Usable(rows, k)
  /\ table[rows[k].case].active /\ table[rows[k].case].resident = rows[k].resident

HeldRow(a, c, r, expires) ==
  [case |-> c, resident |-> r, account |-> a, expires |-> expires, state |-> "active"]

\* The proof and the entitlement are inserted, or found again by their keys. The
\* index allows one active row of an account and a case, lapsed or not.
MayMint(rows, k, row) ==
  IF k \in DOMAIN rows
  THEN rows[k].expires > moment /\ row.expires <= rows[k].expires
  ELSE ~\E j \in DOMAIN rows : /\ rows[j].state = "active"
                               /\ rows[j].case = row.case /\ rows[j].account = row.account

\* A table with the row of k inserted.
With(table, k, row) == [j \in DOMAIN table \cup {k} |-> IF j = k THEN row ELSE table[j]]

Minted(rows, k, row) == IF k \in DOMAIN rows THEN rows ELSE With(rows, k, row)

-----------------------------------------------------------------------------
(* Moving a case: civya_bound_case_transfer.                               *)

\* Deletes the links of the account that were not used.
CreateLink(a, c, l) ==
  /\ CanRead(a, c) /\ links[l].state = "absent"
  /\ links' = [m \in Links |->
       IF m = l THEN [state |-> "open", case |-> c, source |-> cases[c].resident, by |-> a,
                      expires |-> moment + LinkTicks]
       ELSE IF links[m].state = "open" /\ links[m].by = a
            THEN [links[m] EXCEPT !.state = "deleted"]
            ELSE links[m]]
  /\ UNCHANGED <<moment, boundTo, cases, entitled, claims, verified, handoffs, choices, asks>>

\* Mutant: a link outlives the access of the account that made it.
MayFollowForEver(l, c) ==
  /\ links[l].state = "open" /\ links[l].expires > moment /\ links[l].case = c
  /\ cases[c].resident = links[l].source

MayFollow(l, c) ==
  /\ links[l].state = "open" /\ links[l].expires > moment /\ links[l].case = c
  /\ cases[c].resident = links[l].source /\ CanRead(links[l].by, c)

\* The case changes hands, unless the account has it already.
ChangesHands(l, a) == ResidentOf(a) # links[l].source

OtherActive(r, c) == {d \in Cases \ {c} : cases[d].resident = r /\ cases[d].active}

CasesAfter(l, a) ==
  IF ~ChangesHands(l, a) THEN cases
  ELSE [cases EXCEPT ![links[l].case] =
         [resident |-> ResidentOf(a),
          active |-> @.active /\ OtherActive(ResidentOf(a), links[l].case) = {}]]

\* Mutant: entitlements outlive the move of their case.
RowsAfterKept(l, a) == entitled

RowsAfter(l, a) ==
  [k \in DOMAIN entitled |->
     IF ChangesHands(l, a) /\ entitled[k].case = links[l].case
     THEN [entitled[k] EXCEPT !.state = "revoked"] ELSE entitled[k]]

AsksAfter(l, a) ==
  [n \in DOMAIN asks |->
     IF ChangesHands(l, a) /\ asks[n].case = links[l].case /\ asks[n].state \in {"open", "owned"}
     THEN [asks[n] EXCEPT !.resident = ResidentOf(a)] ELSE asks[n]]

Follow(l, a) ==
  /\ boundTo' = [boundTo EXCEPT ![ResidentOf(a)] = a]
  /\ cases' = CasesAfter(l, a)
  /\ links' = [links EXCEPT ![l].state = "used"]

-----------------------------------------------------------------------------
(* The choice between the case that was attached and the active one.       *)

Least(S) == CHOOSE x \in S : \A y \in S : x <= y

\* The entitlement that opens the existing case, where the account has one.
ExistingIds(rows, table, a, d) ==
  {k \in DOMAIN rows : /\ rows[k].case = d /\ rows[k].account = a
                       /\ rows[k].resident = table[d].resident /\ Usable(rows, k)}

MayOffer(rows, table, k, d) ==
  /\ ~table[rows[k].case].active /\ table[d].active
  /\ table[d].resident = table[rows[k].case].resident
  /\ rows[k].resident = table[d].resident /\ Usable(rows, k)

Offer(rows, table, k, d) ==
  LET ids == ExistingIds(rows, table, rows[k].account, d) IN
  [account |-> rows[k].account, attached |-> rows[k].case, existing |-> d, attachedId |-> k,
   existingId |-> IF ids = {} THEN Unset ELSE CHOOSE j \in ids : TRUE,
   resident |-> rows[k].resident, chosen |-> Unset,
   expires |-> Least({moment + ChoiceTicks, rows[k].expires} \cup {rows[j].expires : j \in ids})]

\* Mutant: the existing case stays active as well.
ActivatedBeside(n, c) == [cases EXCEPT ![c].active = TRUE]

Activated(n, c) ==
  [cases EXCEPT ![choices[n].existing].active = FALSE, ![c].active = TRUE]

\* civya_service_select_entitled_case. Repeating a committed choice changes nothing.
Choose(n, c) ==
  LET choice == choices[n]
      id == IF c = choice.attached THEN choice.attachedId ELSE choice.existingId
  IN
  /\ choice.chosen = Unset /\ choice.expires > moment
  /\ c \in {choice.attached, choice.existing}
  /\ cases[choice.attached] = [resident |-> choice.resident, active |-> FALSE]
  /\ cases[choice.existing] = [resident |-> choice.resident, active |-> TRUE]
  /\ id # Unset /\ Usable(entitled, id) /\ entitled[id].resident = choice.resident
  /\ cases' = Activated(n, c)
  /\ choices' = [choices EXCEPT ![n].chosen = c]
  /\ UNCHANGED <<moment, boundTo, entitled, claims, links, verified, handoffs, asks>>

-----------------------------------------------------------------------------
(* Verification and its handoff.                                           *)

\* No handoff was committed for the request, and the verifier confirms it.
Verify(q, p, life) ==
  /\ q \notin DOMAIN handoffs /\ Cardinality(verified) < MaxVerified
  /\ IF q.link = Unset THEN Owner(q.case) \in {q.account, Unset}
     ELSE links[q.link].state # "absent" /\ links[q.link].case = q.case
  /\ verified' = verified \cup {[visit |-> q, proof |-> p, expires |-> moment + life]}
  /\ UNCHANGED <<moment, boundTo, cases, entitled, claims, links, handoffs, choices, asks>>

LoseVerified(v) ==
  /\ v \in verified
  /\ verified' = verified \ {v}
  /\ UNCHANGED <<moment, boundTo, cases, entitled, claims, links, handoffs, choices, asks>>

NewHandoff(v) == v \in verified /\ v.expires > moment /\ v.visit \notin DOMAIN handoffs

\* The receipt: the entitlement, and the number of the choice if there is one.
Handed(q, k, expires, choice) ==
  With(handoffs, q, [entitlement |-> k, expires |-> expires, choice |-> choice])

\* The first claim of a case: civya_service_claim_verified_production_case.
FinalizeClaim(v) ==
  LET q == v.visit
      r == cases[q.case].resident
      k == [kind |-> "claim", account |-> q.account, case |-> q.case, via |-> q.method,
            proof |-> v.proof]
      row == HeldRow(q.account, q.case, r, v.expires)
  IN
  /\ NewHandoff(v) /\ q.link = Unset
  /\ boundTo[r] = Unset /\ MayBind(q.account, r) /\ v.proof \notin claims
  /\ MayMint(entitled, k, row)
  /\ boundTo' = [boundTo EXCEPT ![r] = q.account]
  /\ claims' = claims \cup {v.proof}
  /\ entitled' = Minted(entitled, k, row)
  /\ handoffs' = Handed(q, k, v.expires, 0)
  /\ verified' = verified \ {v}
  /\ UNCHANGED <<moment, cases, links, choices, asks>>

BoundKey(v) ==
  [kind |-> "bound", account |-> v.visit.account, case |-> v.visit.case,
   via |-> v.visit.link, proof |-> v.proof]

\* Another proof for a case the account has.
MayRenew(v) ==
  LET q == v.visit IN
  /\ q.link = Unset /\ q \notin DOMAIN handoffs /\ v.expires > moment
  /\ Owner(q.case) = q.account
  /\ MayMint(entitled, BoundKey(v), HeldRow(q.account, q.case, cases[q.case].resident, v.expires))

FinalizeDirect(v) ==
  LET q == v.visit
      k == BoundKey(v)
      rows == Minted(entitled, k, HeldRow(q.account, q.case, cases[q.case].resident, v.expires))
  IN
  /\ NewHandoff(v) /\ MayRenew(v)
  /\ entitled' = rows
  /\ handoffs' = Handed(q, k, rows[k].expires, 0)
  /\ verified' = verified \ {v}
  /\ UNCHANGED <<moment, boundTo, cases, claims, links, choices, asks>>

\* The move, its proof, and the choice it may lead to, all in one transaction.
FinalizeLink(v) ==
  LET q == v.visit
      who == q.account
      k == BoundKey(v)
      table == CasesAfter(q.link, who)
      row == HeldRow(who, q.case, table[q.case].resident, v.expires)
      rows == Minted(RowsAfter(q.link, who), k, row)
      others == IF ChangesHands(q.link, who) THEN OtherActive(ResidentOf(who), q.case) ELSE {}
  IN
  /\ NewHandoff(v) /\ q.link # Unset /\ MayFollow(q.link, q.case)
  /\ MayMint(RowsAfter(q.link, who), k, row)
  /\ Follow(q.link, who)
  /\ entitled' = rows /\ asks' = AsksAfter(q.link, who)
  /\ verified' = verified \ {v}
  /\ \/ /\ others = {}
        /\ handoffs' = Handed(q, k, rows[k].expires, 0) /\ UNCHANGED choices
     \/ \E d \in others :
          /\ MayOffer(rows, table, k, d)
          /\ choices' = Append(choices, Offer(rows, table, k, d))
          /\ handoffs' = Handed(q, k, rows[k].expires, Len(choices) + 1)
  /\ UNCHANGED <<moment, claims>>

\* A repeated request is answered from the receipt; a choice that lapsed unused is
\* offered again.
OfferAgain(q) ==
  /\ q \in DOMAIN handoffs /\ handoffs[q].choice # 0 /\ handoffs[q].expires > moment
  /\ LET old == choices[handoffs[q].choice]
         k == handoffs[q].entitlement
     IN /\ old.chosen = Unset /\ old.expires <= moment
        /\ MayOffer(entitled, cases, k, old.existing)
        /\ choices' = Append(choices, Offer(entitled, cases, k, old.existing))
  /\ handoffs' = [handoffs EXCEPT ![q].choice = Len(choices) + 1]
  /\ UNCHANGED <<moment, boundTo, cases, entitled, claims, links, verified, asks>>

\* By its account or an administrator, who name the version they have seen.
Revoke(k) ==
  /\ entitled[k].state = "active"
  /\ entitled' = [entitled EXCEPT ![k].state = "revoked"]
  /\ UNCHANGED <<moment, boundTo, cases, claims, links, verified, handoffs, choices, asks>>

-----------------------------------------------------------------------------
(* Assistance by staff.                                                    *)

Undecided(n) == asks[n].state \in {"open", "owned"}

Ask(a, c, l) ==
  /\ Len(asks) < MaxAsks
  /\ IF l = Unset THEN Owner(c) \in {a, Unset}
     ELSE /\ links[l].state = "open" /\ links[l].expires > moment
          /\ links[l].case = c /\ links[l].source = cases[c].resident
  /\ asks' = Append(asks,
       [account |-> a, case |-> c, link |-> l, resident |-> cases[c].resident, state |-> "open",
        reviewer |-> Unset, expires |-> moment + AskTicks, entitlement |-> Unset])
  /\ UNCHANGED <<moment, boundTo, cases, entitled, claims, links, verified, handoffs, choices>>

MayDecide(n, s) ==
  /\ asks[n].state = "open" \/ (asks[n].state = "owned" /\ asks[n].reviewer = s)
  /\ asks[n].expires > moment

Decided(table, n, s, state, k) ==
  [table EXCEPT ![n].state = state, ![n].reviewer = s, ![n].entitlement = k]

TakeOver(n, s) ==
  /\ asks[n].state = "open" /\ asks[n].expires > moment
  /\ asks' = Decided(asks, n, s, "owned", Unset)
  /\ UNCHANGED <<moment, boundTo, cases, entitled, claims, links, verified, handoffs, choices>>

Deny(n, s) ==
  /\ MayDecide(n, s)
  /\ asks' = Decided(asks, n, s, "denied", Unset)
  /\ UNCHANGED <<moment, boundTo, cases, entitled, claims, links, verified, handoffs, choices>>

ExpireAsk(n) ==
  /\ Undecided(n) /\ asks[n].expires <= moment
  /\ asks' = [asks EXCEPT ![n].state = "expired"]
  /\ UNCHANGED <<moment, boundTo, cases, entitled, claims, links, verified, handoffs, choices>>

\* The proof of the staff, under a key of the request. The new entitlement must open
\* its case at once, or all of it is rolled back.
Approve(n, s) ==
  LET ask == asks[n]
      who == ask.account
      linked == ask.link # Unset
      table == IF linked THEN CasesAfter(ask.link, who) ELSE cases
      before == IF linked THEN RowsAfter(ask.link, who) ELSE entitled
      k == [kind |-> "staff", account |-> who, case |-> ask.case, via |-> n, proof |-> Unset]
      row == HeldRow(who, ask.case, table[ask.case].resident,
                     Least({ask.expires, moment + ProofTicks}))
  IN
  /\ MayDecide(n, s)
  /\ IF linked
     THEN MayFollow(ask.link, ask.case) /\ Follow(ask.link, who)
     ELSE /\ MayBind(who, ask.resident) /\ ask.resident = cases[ask.case].resident
          /\ boundTo' = [boundTo EXCEPT ![ask.resident] = who]
          /\ UNCHANGED <<cases, links>>
  /\ MayMint(before, k, row)
  /\ entitled' = Minted(before, k, row)
  /\ Authorized(entitled', table, k)
  /\ asks' = Decided(IF linked THEN AsksAfter(ask.link, who) ELSE asks, n, s, "approved", k)
  /\ UNCHANGED <<moment, claims, verified, handoffs, choices>>

-----------------------------------------------------------------------------
TimeGoesOn ==
  /\ moment < AccessTime
  /\ moment' = moment + 1
  /\ UNCHANGED <<boundTo, cases, entitled, claims, links, verified, handoffs, choices, asks>>

AccessNext ==
  \/ TimeGoesOn
  \/ \E a \in Accounts, c \in Cases, l \in Links : CreateLink(a, c, l)
  \/ \E q \in Visit, p \in Proofs, life \in 1 .. ProofTicks : Verify(q, p, life)
  \/ \E v \in verified : LoseVerified(v) \/ FinalizeClaim(v) \/ FinalizeDirect(v) \/ FinalizeLink(v)
  \/ \E q \in DOMAIN handoffs : OfferAgain(q)
  \/ \E n \in DOMAIN choices, c \in Cases : Choose(n, c)
  \/ \E k \in DOMAIN entitled : Revoke(k)
  \/ \E a \in Accounts, c \in Cases, l \in Links \cup {Unset} : Ask(a, c, l)
  \/ \E n \in DOMAIN asks : ExpireAsk(n)
  \/ \E n \in DOMAIN asks, s \in Reviewers : TakeOver(n, s) \/ Deny(n, s) \/ Approve(n, s)

AccessSpec == AccessInit /\ [][AccessNext]_accessVars

-----------------------------------------------------------------------------
\* An entitlement that was not revoked is of the account its case belongs to, and a
\* case belongs to one account at a time: a move ends the access of the one it left.
OwnersOnly ==
  \A k \in DOMAIN entitled : entitled[k].state = "active" =>
    /\ entitled[k].resident = cases[entitled[k].case].resident
    /\ entitled[k].account = Owner(entitled[k].case)

\* A resident has one active case, whatever was moved and chosen.
OneActiveCase ==
  \A c, d \in Cases : cases[c].resident = cases[d].resident /\ cases[c].active /\ cases[d].active
    => c = d

\* What a receipt, a choice or an approval names is an entitlement of its account and
\* case, and a receipt with a choice names one of its own.
NamesItsOwn ==
  /\ \A q \in DOMAIN handoffs :
       /\ handoffs[q].entitlement \in DOMAIN entitled
       /\ entitled[handoffs[q].entitlement].account = q.account
       /\ entitled[handoffs[q].entitlement].case = q.case
       /\ handoffs[q].choice # 0 =>
            choices[handoffs[q].choice].attachedId = handoffs[q].entitlement
  /\ \A n \in DOMAIN choices :
       /\ entitled[choices[n].attachedId].case = choices[n].attached
       /\ choices[n].existingId # Unset =>
            /\ entitled[choices[n].existingId].account = choices[n].account
            /\ entitled[choices[n].existingId].case = choices[n].existing
  /\ \A n \in DOMAIN asks : asks[n].state = "approved" =>
       /\ asks[n].entitlement \in DOMAIN entitled
       /\ entitled[asks[n].entitlement].account = asks[n].account

AccessInvariant == AccessTypeOK /\ OwnersOnly /\ OneActiveCase /\ NamesItsOwn

\* A resident is never given to another account; a case moves only by a link that is
\* spent in the same step and that was made by an account with access at that moment; and
\* what was once answered, a receipt or a choice, is answered the same for ever.
OwnershipIsKept ==
  [][/\ \A r \in Residents : boundTo[r] # Unset => boundTo'[r] = boundTo[r]
     /\ \A c \in Cases : cases'[c].resident # cases[c].resident =>
          \E l \in Links : /\ links[l].state = "open" /\ links'[l].state = "used"
                           /\ links[l].case = c /\ CanRead(links[l].by, c)
     /\ \A q \in DOMAIN handoffs :
          q \in DOMAIN handoffs' /\ handoffs'[q].entitlement = handoffs[q].entitlement
     /\ \A n \in DOMAIN choices : choices[n].chosen # Unset => choices'[n] = choices[n]
    ]_accessVars

\* An account whose access to its own active case has lapsed can verify it again.
LapsedMayVerify ==
  \A a \in Accounts, c \in Cases :
    Owner(c) = a /\ cases[c].active /\ ~CanRead(a, c) =>
      \E m \in Methods, p \in Proofs :
        MayRenew([visit |-> [account |-> a, case |-> c, link |-> Unset, method |-> m],
                  proof |-> p, expires |-> moment + 1])
=============================================================================
