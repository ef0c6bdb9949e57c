--------------------------- MODULE OutcomeKernel ---------------------------
(***************************************************************************)
(* The outcome kernel: snapshots of authoritative sources, the decisions   *)
(* that match their records to cases, the versions of one outcome's        *)
(* definition, and the reconciliation that verifies or reverses the        *)
(* outcome of a case. Every table but the projection is append-only, and   *)
(* a row refers to the one it supersedes. Rows are numbered in the order   *)
(* of their insertion; 0 is no row.                                        *)
(*                                                                         *)
(* A request that is repeated under its idempotency key is answered from   *)
(* the row and changes nothing, so keys are left out. A payload is the     *)
(* parcel it names and what its other fields say of the outcome. A draft   *)
(* of a definition decides nothing and an inconclusive run leaves no more  *)
(* than its row: both are left out.                                        *)
(***************************************************************************)
EXTENDS Integers, FiniteSets, Sequences

CONSTANTS
  Subjects,      \* cases
  Sources,       \* source systems
  Parcels,       \* parcel identifiers, of cases and in payloads
  Editions,      \* versions of the definition
  Terms,         \* what may be registered: a source, a window and whether it reverses
  Contents,      \* what payloads may say of the outcome
  LastTime,      \* effective times are 1 .. LastTime
  MaxSnapshots, MaxDecisions, MaxVerdicts,  \* bounds on inserted rows
  Missing        \* SQL null

ASSUME OutcomeAssumption ==
  /\ LastTime \in Nat \ {0}
  /\ {MaxSnapshots, MaxDecisions, MaxVerdicts} \subseteq Nat
  /\ Contents \subseteq {"positive", "reversal", "neither"}
  /\ Terms \subseteq [source : Sources, from : Nat, to : Nat, reversible : BOOLEAN]
  /\ \A t \in Terms : t.from < t.to
  /\ Missing \notin Parcels /\ Missing \notin Terms

VARIABLES
  parcel,     \* cases.parcel_id
  snapshots,  \* authoritative_source_records, each in a batch of its own
  editions,   \* outcome_definition_versions
  decisions,  \* case_source_match_decisions
  verdicts,   \* outcome_verification_events
  projected   \* case_outcome_projections: the controlling event

outcomeVars == <<parcel, snapshots, editions, decisions, verdicts, projected>>

Times == 1 .. LastTime
Decisions == {"accepted", "rejected", "ambiguous"}
Conclusive == {"verified", "reversed"}

Snapshot == [source : Sources, at : Times, parcel : Parcels \cup {Missing}, says : Contents,
             supersedes : 0 .. MaxSnapshots]
Decision == [subject : Subjects, record : 1 .. MaxSnapshots, decision : Decisions,
             supersedes : 0 .. MaxDecisions]
Verdict == [subject : Subjects, edition : Editions, record : 1 .. MaxSnapshots,
            kind : Conclusive, supersedes : 0 .. MaxVerdicts]

OutcomeTypeOK ==
  /\ parcel \in [Subjects -> Parcels \cup {Missing}]
  /\ snapshots \in Seq(Snapshot) /\ Len(snapshots) <= MaxSnapshots
  /\ editions \in [Editions -> Terms \cup {Missing}]
  /\ decisions \in Seq(Decision) /\ Len(decisions) <= MaxDecisions
  /\ verdicts \in Seq(Verdict) /\ Len(verdicts) <= MaxVerdicts
  /\ projected \in [Subjects -> 0 .. Len(verdicts)]

OutcomeInit ==
  /\ parcel \in [Subjects -> Parcels \cup {Missing}]
  /\ editions = [e \in Editions |-> Missing]
  /\ snapshots = <<>> /\ decisions = <<>> /\ verdicts = <<>>
  /\ projected = [c \in Subjects |-> 0]

-----------------------------------------------------------------------------
(* Sources and definitions.                                                *)

\* A row that nothing supersedes.
Current(rows, n) == n \in DOMAIN rows /\ \A m \in DOMAIN rows : rows[m].supersedes # n

\* civya_service_ingest_source_snapshot. A correction names a current record of
\* the same source, and its effective time is later (the trigger).
Ingest(snapshot) ==
  /\ Len(snapshots) < MaxSnapshots
  /\ snapshot.supersedes # 0 =>
       /\ Current(snapshots, snapshot.supersedes)
       /\ snapshots[snapshot.supersedes].source = snapshot.source
       /\ snapshots[snapshot.supersedes].at < snapshot.at
  /\ snapshots' = Append(snapshots, snapshot)
  /\ UNCHANGED <<parcel, editions, decisions, verdicts, projected>>

Registered == {e \in Editions : editions[e] # Missing}

Overlap(d, e) == d.from < e.to /\ e.from < d.to

\* civya_service_register_outcome_definition, with status synthetic_test.
Register(e, terms) ==
  /\ e \notin Registered
  /\ \A d \in Registered : ~Overlap(terms, editions[d])
  /\ editions' = [editions EXCEPT ![e] = terms]
  /\ UNCHANGED <<parcel, snapshots, decisions, verdicts, projected>>

-----------------------------------------------------------------------------
(* Matches of cases and records.                                           *)

SameParcel(c, r) == parcel[c] # Missing /\ parcel[c] = snapshots[r].parcel

CurrentDecisions(c, source) ==
  {n \in DOMAIN decisions :
     /\ Current(decisions, n)
     /\ decisions[n].subject = c /\ snapshots[decisions[n].record].source = source}

\* Mutant: a decision is superseded whether or not another superseded it before.
MaySupersedeAny(c, r, superseded) ==
  IF superseded = 0
  THEN CurrentDecisions(c, snapshots[r].source) = {}
  ELSE decisions[superseded].subject = c
       /\ snapshots[decisions[superseded].record].source = snapshots[r].source

\* A source has no current decision on the case, or the one that is superseded.
MaySupersede(c, r, superseded) ==
  IF superseded = 0
  THEN CurrentDecisions(c, snapshots[r].source) = {}
  ELSE superseded \in CurrentDecisions(c, snapshots[r].source)

\* civya_service_record_source_match, under the lock of the case.
RecordMatch(c, r, decision, superseded) ==
  /\ Len(decisions) < MaxDecisions
  /\ decision = "accepted" => SameParcel(c, r)
  /\ MaySupersede(c, r, superseded)
  /\ decisions' = Append(decisions, [subject |-> c, record |-> r, decision |-> decision,
                                     supersedes |-> superseded])
  /\ UNCHANGED <<parcel, snapshots, editions, verdicts, projected>>

\* The parcel of a case is not moved under a projection (the trigger on cases).
SetParcel(c, p) ==
  /\ projected[c] = 0
  /\ parcel' = [parcel EXCEPT ![c] = p]
  /\ UNCHANGED <<snapshots, editions, decisions, verdicts, projected>>

-----------------------------------------------------------------------------
(* Reconciliation.                                                         *)

\* The record is inside the definition: its source and its window.
Governs(e, r) ==
  /\ e \in Registered
  /\ editions[e].source = snapshots[r].source
  /\ snapshots[r].at \in editions[e].from .. editions[e].to - 1

\* The current decision on the record for the case, 0 if there is none.
DecisionOn(c, r) ==
  LET own == {n \in CurrentDecisions(c, snapshots[r].source) : decisions[n].record = r}
  IN IF own = {} THEN 0 ELSE CHOOSE n \in own : \A m \in own : m <= n

Accepts(n) == n # 0 /\ decisions[n].decision = "accepted"

AcceptedOf(c, source) == {n \in CurrentDecisions(c, source) : Accepts(n)}

\* The match is doubtful: undecided, no longer of this parcel, or one of several.
Doubtful(c, r) ==
  LET n == DecisionOn(c, r) IN
  \/ n # 0 /\ decisions[n].decision = "ambiguous"
  \/ Accepts(n) /\ ~SameParcel(c, r)
  \/ Accepts(n) /\ Cardinality(AcceptedOf(c, snapshots[r].source)) > 1

Projected(c) == verdicts[projected[c]]

\* Mutant: only a record of the same time can disagree with the projection.
DisagreesIfTied(c, r) ==
  /\ projected[c] # 0
  /\ LET held == snapshots[Projected(c).record]
         new == snapshots[r]
     IN new.at = held.at /\ r # Projected(c).record /\ new.says # held.says

\* The record is older than that of the projection, or of its time and says other things.
Disagrees(c, r) ==
  /\ projected[c] # 0
  /\ LET held == snapshots[Projected(c).record]
         new == snapshots[r]
     IN \/ new.at < held.at
        \/ /\ new.at = held.at /\ r # Projected(c).record
           /\ new.says # held.says \/ new.parcel # held.parcel

\* Missing evidence never reverses: only a later record that says so does.
Reverses(c, e, r) ==
  /\ projected[c] # 0 /\ Projected(c).kind = "verified"
  /\ editions[e].reversible /\ snapshots[r].says = "reversal"
  /\ snapshots[r].at > snapshots[Projected(c).record].at

Result(c, e, r) ==
  IF Doubtful(c, r) \/ Disagrees(c, r) THEN "ambiguous"
  ELSE IF ~Accepts(DecisionOn(c, r)) THEN "incomplete"
  ELSE IF snapshots[r].says = "positive" THEN "verified"
  ELSE IF Reverses(c, e, r) THEN "reversed" ELSE "incomplete"

AlreadyHeld(c, e, r, result) ==
  /\ projected[c] # 0
  /\ Projected(c).kind = result /\ Projected(c).record = r /\ Projected(c).edition = e

\* civya_service_reconcile_outcome, under the lock of the case. A conclusive result
\* that the projection does not hold yet supersedes its event.
Reconcile(c, e, r) ==
  /\ Governs(e, r)
  /\ LET result == Result(c, e, r)
         conclusive == result \in Conclusive /\ ~AlreadyHeld(c, e, r, result)
     IN
     /\ conclusive => Len(verdicts) < MaxVerdicts
     /\ IF conclusive
        THEN /\ verdicts' = Append(verdicts, [subject |-> c, edition |-> e, record |-> r,
                                              kind |-> result, supersedes |-> projected[c]])
             /\ projected' = [projected EXCEPT ![c] = Len(verdicts) + 1]
        ELSE UNCHANGED <<verdicts, projected>>
  /\ UNCHANGED <<parcel, snapshots, editions, decisions>>

OutcomeNext ==
  \/ \E snapshot \in Snapshot : Ingest(snapshot)
  \/ \E e \in Editions, terms \in Terms : Register(e, terms)
  \/ \E c \in Subjects, r \in DOMAIN snapshots :
       \/ \E d \in Decisions, n \in 0 .. Len(decisions) : RecordMatch(c, r, d, n)
       \/ \E e \in Editions : Reconcile(c, e, r)
  \/ \E c \in Subjects, p \in Parcels \cup {Missing} : SetParcel(c, p)

OutcomeSpec == OutcomeInit /\ [][OutcomeNext]_outcomeVars

-----------------------------------------------------------------------------
\* Matches serialize on the case: a case has at most one current decision per
\* source, so the check for conflicting accepted matches never has one to find.
OneCurrentDecision ==
  \A c \in Subjects, s \in Sources : Cardinality(CurrentDecisions(c, s)) <= 1

\* No record is under two versions of the definition at once.
OneEditionInForce ==
  \A d, e \in Registered, t \in Times :
    t \in editions[d].from .. editions[d].to - 1 /\ t \in editions[e].from .. editions[e].to - 1
      => d = e

\* The events of a case are one chain that ends in its projection. Along it the
\* evidence never gets older, and a reversal follows a verification by evidence
\* of an earlier time.
ChainIsSound ==
  \A c \in Subjects :
    LET own == {n \in DOMAIN verdicts : verdicts[n].subject = c}
        At(n) == snapshots[verdicts[n].record].at
    IN
    /\ \A n \in own : projected[c] >= n
    /\ \A n \in own : verdicts[n].supersedes \in own \cup {0}
    /\ \A m, n \in own : m < n => m <= verdicts[n].supersedes /\ At(m) <= At(n)
    /\ \A n \in own : verdicts[n].kind = "reversed" =>
         LET m == verdicts[n].supersedes
         IN m # 0 /\ verdicts[m].kind = "verified" /\ At(m) < At(n)

\* What a case shows comes from a record of its own parcel that was matched to it.
ProjectionIsOfTheCase ==
  \A c \in Subjects : projected[c] # 0 =>
    LET r == Projected(c).record IN
    /\ SameParcel(c, r)
    /\ \E n \in DOMAIN decisions : decisions[n].subject = c /\ decisions[n].record = r /\ Accepts(n)

OutcomeInvariant ==
  OutcomeTypeOK /\ OneCurrentDecision /\ OneEditionInForce /\ ProjectionIsOfTheCase

=============================================================================
