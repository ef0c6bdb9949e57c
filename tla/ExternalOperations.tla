------------------------ MODULE ExternalOperations -------------------------
(***************************************************************************)
(* private.external_operations: one row per effect that leaves the system  *)
(* (an SMS, a hosted payment session), unique per idempotency key.         *)
(*                                                                         *)
(* Two protocols share the table.  The fenced one (claim, finish with the  *)
(* claim's token) is for providers without idempotency; the legacy one     *)
(* (reserve, finish) for providers that enforce it.  A signed delivery     *)
(* receipt resolves either.  Callers are arbitrary: any of them may send   *)
(* any request at any time, with any token it may have seen.               *)
(***************************************************************************)
EXTENDS Integers

CONSTANTS
  Ops,          \* idempotency keys
  Owners,       \* claim owners
  Hashes,       \* request_sha256 values
  Tokens,       \* claim tokens, gen_random_uuid()
  ClaimTicks,   \* the lease of a claim
  Nil           \* SQL null

ASSUME OperationsAssumption ==
  /\ ClaimTicks \in Nat \ {0}
  /\ Nil \notin Owners \cup Tokens \cup Hashes

VARIABLES
  ops,     \* the rows
  granted  \* history: the claims that were answered with acquired = true

opVars == <<ops, granted>>

Proven == {"succeeded", "failed_terminal"}
OpStates == {"absent", "planned", "in_flight", "failed_unknown"} \cup Proven
ClaimLeases == 0 .. ClaimTicks

Operation ==
  [state : OpStates, sha : Hashes \cup {Nil}, owner : Owners \cup {Nil},
   token : Tokens \cup {Nil}, lease : ClaimLeases, claims : Nat]
Grant == [op : Ops, owner : Owners, token : Tokens]

NoOp == [state |-> "absent", sha |-> Nil, owner |-> Nil, token |-> Nil,
         lease |-> 0, claims |-> 0]

OpTypeOK ==
  /\ ops \in [Ops -> Operation]
  /\ granted \subseteq Grant

OpInit ==
  /\ ops = [o \in Ops |-> NoOp]
  /\ granted = {}

-----------------------------------------------------------------------------
\* The row with its claim given up, in state s.
Unclaimed(row, s) == [row EXCEPT !.state = s, !.owner = Nil, !.token = Nil, !.lease = 0]

\* civya_service_reserve_external_operation.
Reserve(o, sha) ==
  /\ ops[o].state = "absent"
  /\ ops' = [ops EXCEPT ![o] = [NoOp EXCEPT !.state = "planned", !.sha = sha]]
  /\ UNCHANGED granted

\* civya_service_claim_external_operation inserts the row if need be; a request
\* that differs from the recorded one is refused.
SameRequest(o, sha) == ops[o].state # "absent" => ops[o].sha = sha

ClaimIsLost(o) == ops[o].state = "in_flight" /\ (ops[o].token = Nil \/ ops[o].lease = 0)
ClaimIsBusy(o) == ops[o].state = "in_flight" /\ ~ClaimIsLost(o)

\* Mutant: a claim that ran out is handed on.
AcquireExpired(o, sha, w, t) ==
  /\ SameRequest(o, sha)
  /\ ops[o].state \in {"absent", "planned"} \/ ClaimIsLost(o)
  /\ t \notin {g.token : g \in granted}
  /\ ops' = [ops EXCEPT ![o] =
       [state |-> "in_flight", sha |-> sha, owner |-> w, token |-> t,
        lease |-> ClaimTicks, claims |-> @.claims + 1]]
  /\ granted' = granted \cup {[op |-> o, owner |-> w, token |-> t]}

\* A planned operation is handed out once, under a fresh token.
Acquire(o, sha, w, t) ==
  /\ SameRequest(o, sha)
  /\ ops[o].state \in {"absent", "planned"}
  /\ t \notin {g.token : g \in granted}
  /\ ops' = [ops EXCEPT ![o] =
       [state |-> "in_flight", sha |-> sha, owner |-> w, token |-> t,
        lease |-> ClaimTicks, claims |-> @.claims + 1]]
  /\ granted' = granted \cup {[op |-> o, owner |-> w, token |-> t]}

\* A claim that expired, or an in-flight operation nobody claimed, is not handed
\* on: its outcome is unknown from now on.
Abandon(o, sha) ==
  /\ SameRequest(o, sha)
  /\ ClaimIsLost(o)
  /\ ops' = [ops EXCEPT ![o] = Unclaimed(@, "failed_unknown")]
  /\ UNCHANGED granted

\* civya_service_finish_external_operation_claim: a caller that does not hold the
\* claim changes nothing, one whose lease ran out leaves the outcome unknown.
HoldsOperation(o, w, t) ==
  ops[o].state = "in_flight" /\ ops[o].owner = w /\ ops[o].token = t

FinishClaim(o, w, t, s) ==
  /\ HoldsOperation(o, w, t)
  /\ ops' = [ops EXCEPT ![o] = Unclaimed(@, IF ops[o].lease = 0 THEN "failed_unknown" ELSE s)]
  /\ UNCHANGED granted

\* civya_service_finish_external_operation refuses a row that was ever claimed.
FinishLegacy(o, s) ==
  /\ ops[o].state \notin Proven \cup {"absent"}
  /\ ops[o].claims = 0
  /\ ops' = [ops EXCEPT ![o].state = s]
  /\ UNCHANGED granted

\* Mutant: a receipt overrides a proven outcome.
ReceiptOverriding(o, s) ==
  /\ ops[o].state # "absent"
  /\ ops' = [ops EXCEPT ![o].state = s]
  /\ UNCHANGED granted

\* civya_service_apply_twilio_delivery_receipt, its update of this table: the
\* claim's columns stay as they are.
Receipt(o, s) ==
  /\ ops[o].state \in {"in_flight", "failed_unknown"}
  /\ ops' = [ops EXCEPT ![o].state = s]
  /\ UNCHANGED granted

\* Mutant: an expired lease goes on counting.
ClaimTickBelowZero ==
  /\ \E o \in Ops : ops[o].lease > 0
  /\ ops' = [o \in Ops |-> [ops[o] EXCEPT !.lease = @ - 1]]
  /\ UNCHANGED granted

ClaimTick ==
  /\ \E o \in Ops : ops[o].lease > 0
  /\ ops' = [o \in Ops |-> [ops[o] EXCEPT !.lease = IF @ = 0 THEN 0 ELSE @ - 1]]
  /\ UNCHANGED granted

OpNext ==
  \/ \E o \in Ops, sha \in Hashes :
       \/ Reserve(o, sha)
       \/ Abandon(o, sha)
       \/ \E w \in Owners, t \in Tokens : Acquire(o, sha, w, t)
  \/ \E o \in Ops, w \in Owners, t \in Tokens, s \in Proven \cup {"failed_unknown"} :
       FinishClaim(o, w, t, s)
  \/ \E o \in Ops, s \in Proven \cup {"in_flight", "failed_unknown"} : FinishLegacy(o, s)
  \/ \E o \in Ops, s \in Proven : Receipt(o, s)
  \/ ClaimTick

OpSpec == OpInit /\ [][OpNext]_opVars

-----------------------------------------------------------------------------
\* No operation is ever handed to a second caller, not even after the first one
\* vanished: "Expired non-idempotent claims become failed-unknown and are never
\* reassigned" (202607160026, comment on the claim function).
NeverReassigned ==
  \A g, h \in granted : g.op = h.op => g = h

\* A proven outcome is final, whichever protocol, late finish, second receipt or
\* expired claim comes after it.
ProvenIsFinal ==
  [][\A o \in Ops : ops[o].state \in Proven => ops'[o].state = ops[o].state]_opVars

\* An operation somebody was given is in flight exactly with that caller's
\* token, or settled; and what nobody claimed has no token to finish it with.
ClaimedByGrant ==
  \A o \in Ops :
    /\ ops[o].claims > 0 => ops[o].state \notin {"absent", "planned"}
    /\ ops[o].claims > 0 /\ ops[o].state = "in_flight" =>
         [op |-> o, owner |-> ops[o].owner, token |-> ops[o].token] \in granted
    /\ ops[o].claims = 0 => ops[o].token = Nil /\ ops[o].lease = 0
    /\ (\E g \in granted : g.op = o) => ops[o].claims > 0

\* The rows are well-formed, claims are backed by grants, and nothing is granted twice.
OperationsInvariant == OpTypeOK /\ ClaimedByGrant /\ NeverReassigned
=============================================================================
