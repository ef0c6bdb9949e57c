------------------------ MODULE PaymentHandoffProofs ------------------------
(***************************************************************************)
(* What holds of a hosted payment for any number of requests, visits and   *)
(* deliveries, any evidence and any instants.                              *)
(*                                                                         *)
(* Nothing here is locked across an await.  What a request has read is     *)
(* still true when it writes, or the row version has moved on and the      *)
(* write is refused; the invariant says which of the two, for each.         *)
(***************************************************************************)
EXTENDS PaymentHandoff, TLAPS, FiniteSetTheorems, SequenceTheorems

\* A handoff that does not exist has nothing recorded.
HandoffOK == handoff.exists \/ (handoff = NoHandoff /\ log = <<>>)

\* The last conclusive entry of the log is what the state says.
StateOK ==
  \/ Conclusive = {} /\ handoff.state = "pending"
  \/ \E n \in Conclusive :
       handoff.state = log[n].verdict /\ \A m \in Conclusive : m <= n

\* The payment page is opened before anything was decided.
LaunchFirst ==
  \A m, n \in DOMAIN log :
    log[n].source = "browser" /\ log[n].id = "launch" /\ m < n => m \notin Conclusive

Offered == hosted /\ ops[Op].state = "succeeded"

BackedOK ==
  /\ handoff.exists => Offered
  /\ \A k \in Kinds : links[k].state # "none" => handoff.exists

\* What a create request has established when it is in its phase.
CreateOK(c) ==
  LET create == creating[c] IN
  /\ create.seen = "succeeded" => ops[Op].state = "succeeded"
  /\ create.phase = "settle" =>
       create.outcome # "none" /\ (create.outcome = "succeeded" => hosted)
  /\ create.phase \in {"handoff", "done"} \cup Kinds => Offered
  /\ create.phase \in {"done"} \cup Kinds => handoff.exists
  /\ create.phase \in {"launch", "done"} => links["return"].state # "none"
  /\ create.phase = "done" => links["launch"].state # "none"

\* A visit has consumed its link, which no other visit can do; the one that
\* launches was let through by a pending payment, and answered on record.
VisitOK(v) ==
  LET visit == visits[v] IN
  visit.phase # "idle" =>
    /\ visit.kind \in Kinds /\ links[visit.kind].state = "consumed"
    /\ \A u \in Visits : visits[u].phase # "idle" /\ visits[u].kind = visit.kind => u = v
    /\ visit.kind = "launch" =>
         /\ visit.phase = "loaded" => visit.state = "pending"
         /\ visit.phase = "answered" => Recorded("browser", "launch")

\* A delivery knows the state of the row while the row keeps its version; it
\* marks its event after its evidence was recorded.
DeliveryOK(d) ==
  LET delivery == deliveries[d] IN
  delivery.phase # "idle" =>
    /\ handoff.exists /\ delivery.evidence \in Evidence
    /\ delivery.version <= handoff.version
    /\ delivery.version = handoff.version => delivery.state = handoff.state
    /\ delivery.phase = "recorded" => Recorded("provider_webhook", delivery.evidence.id)

InboxOK == \A i \in Ids : events[i].state \in {"absent", "received", "processed"}

LogInv == HandoffOK /\ StateOK /\ LaunchFirst /\ EventsAppliedOnce /\ ProcessedIsRecorded

PaymentInv ==
  /\ PaymentTypeOK
  /\ LogInv
  /\ BackedOK
  /\ InboxOK
  /\ \A c \in Creates : CreateOK(c)
  /\ \A v \in Visits : VisitOK(v)
  /\ \A d \in Deliveries : DeliveryOK(d)

-----------------------------------------------------------------------------
(* The row versions and the log.                                           *)

LEMMA KindsAreFinite == IsFiniteSet(Kinds)
<1>1. IsFiniteSet({"launch"}) /\ IsFiniteSet({"return"})
  BY FS_Singleton
<1>2. Kinds = {"launch"} \cup {"return"}
  BY DEF Kinds
<1> QED BY <1>1, <1>2, FS_Union

LEMMA VersionsAreNaturals ==
  /\ Cardinality(Evidence) \in Nat /\ Cardinality(Kinds) \in Nat
  /\ 1 \in Versions
  /\ \A n \in Versions : n \in Nat /\ n >= 1
<1>2. Cardinality(Evidence) \in Nat /\ Cardinality(Kinds) \in Nat
  BY KindsAreFinite, FS_CardinalityType, PaymentAssumption
<1> QED BY <1>2 DEF Versions

LEMMA EntriesAreFinite ==
  /\ IsFiniteSet(Entries)
  /\ Cardinality(Entries) <= Cardinality(Evidence) + Cardinality(Kinds)
<1> DEFINE Opening == {BrowserEvent(kind) : kind \in Kinds}
           open == [kind \in Kinds |-> BrowserEvent(kind)]
<1>1. IsFiniteSet(Kinds)
  BY KindsAreFinite
<1>2. open \in Surjection(Kinds, Opening)
  BY DEF Surjection
<1>3. IsFiniteSet(Opening) /\ Cardinality(Opening) <= Cardinality(Kinds)
  <2> HIDE DEF Opening, open
  <2> QED BY <1>1, <1>2, FS_Surjection
<1>4. IsFiniteSet(Evidence)
  BY PaymentAssumption
<1>5. Entries = Evidence \cup Opening
  BY DEF Entries
<1> HIDE DEF Opening
<1>6. IsFiniteSet(Entries)
      /\ Cardinality(Entries) = Cardinality(Evidence) + Cardinality(Opening)
                                  - Cardinality(Evidence \cap Opening)
  BY <1>3, <1>4, <1>5, FS_Union
<1>7. IsFiniteSet(Evidence \cap Opening)
  BY <1>4, FS_Subset
<1>8. /\ Cardinality(Evidence \cap Opening) \in Nat /\ Cardinality(Evidence) \in Nat
      /\ Cardinality(Opening) \in Nat /\ Cardinality(Kinds) \in Nat
  BY <1>1, <1>3, <1>4, <1>7, FS_CardinalityType
<1> QED BY <1>3, <1>6, <1>8

\* A log without duplicates leaves a version for the row.
LEMMA LogFits ==
  ASSUME NEW s \in Seq(Entries),
         \A m, n \in DOMAIN s : s[m].source = s[n].source /\ s[m].id = s[n].id => m = n
  PROVE  1 + Len(s) \in Versions
<1>1. s \in [1 .. Len(s) -> Entries] /\ Len(s) \in Nat
  BY LenProperties
<1>2. s \in Injection(1 .. Len(s), Entries)
  BY <1>1 DEF Injection, IsInjective
<1>3. Cardinality(1 .. Len(s)) <= Cardinality(Entries)
  BY <1>2, EntriesAreFinite, FS_Injection
<1>4. Cardinality(1 .. Len(s)) = Len(s)
  <2>1. Len(s) \in Int /\ 1 \in Int
    BY <1>1
  <2>2. Cardinality(1 .. Len(s)) = IF 1 > Len(s) THEN 0 ELSE Len(s) - 1 + 1
    BY ONLY <2>1, FS_Interval
  <2> QED BY <1>1, <2>2
<1>5. Cardinality(Entries) \in Nat
  BY EntriesAreFinite, FS_CardinalityType
<1> QED BY <1>1, <1>3, <1>4, <1>5, EntriesAreFinite, VersionsAreNaturals DEF Versions

LEMMA Appended ==
  ASSUME NEW S, NEW s \in Seq(S), NEW x \in S
  PROVE  /\ Append(s, x) \in Seq(S)
         /\ Len(s) \in Nat
         /\ DOMAIN s = 1 .. Len(s)
         /\ Len(Append(s, x)) = 1 + Len(s)
         /\ DOMAIN Append(s, x) = 1 .. 1 + Len(s)
         /\ \A n \in 1 .. Len(s) : Append(s, x)[n] = s[n]
         /\ Append(s, x)[1 + Len(s)] = x
BY AppendProperties, LenProperties

LEMMA EntryFields ==
  ASSUME NEW x \in Entries
  PROVE  /\ x.verdict \in Verdicts
         /\ x \in Evidence => x.source # "browser"
         /\ x \notin Evidence => x.verdict = "pending"
BY PaymentAssumption DEF Entries, BrowserEvent, Verdicts

\* Nothing recorded is forgotten.
LEMMA RecordedStays ==
  ASSUME log \in Seq(Entries), NEW entry \in Entries, log' = Append(log, entry)
  PROVE  /\ \A source, id : Recorded(source, id) => Recorded(source, id)'
         /\ Recorded(entry.source, entry.id)'
BY Appended DEF Recorded

-----------------------------------------------------------------------------
(* What a step may do to what others rely on.                              *)

\* Nothing a request has established is taken back, and the state of the row
\* changes only with its version.
Grows ==
  /\ hosted => hosted'
  /\ ops[Op].state = "succeeded" => ops'[Op].state = "succeeded"
  /\ handoff.exists => handoff'.exists
  /\ \A k \in Kinds :
       /\ links[k].state # "none" => links'[k].state # "none"
       /\ links[k].state = "consumed" => links'[k].state = "consumed"
  /\ \A source, id : Recorded(source, id) => Recorded(source, id)'
  /\ \/ handoff'.version > handoff.version
     \/ handoff'.version = handoff.version /\ handoff'.state = handoff.state

LEMMA CreateStays ==
  ASSUME Grows, NEW c \in Creates, CreateOK(c), creating'[c] = creating[c]
  PROVE  CreateOK(c)'
<1>1. \A k \in Kinds : links[k].state # "none" => links'[k].state # "none"
  BY DEF Grows
<1>2. /\ links["launch"].state # "none" => links'["launch"].state # "none"
      /\ links["return"].state # "none" => links'["return"].state # "none"
  BY <1>1 DEF Kinds
<1>3. /\ Offered => Offered'
      /\ hosted => hosted'
      /\ handoff.exists => handoff'.exists
      /\ ops[Op].state = "succeeded" => ops'[Op].state = "succeeded"
  BY DEF Grows, Offered
<1> QED BY <1>2, <1>3 DEF CreateOK

LEMMA VisitsStay ==
  ASSUME Grows, UNCHANGED visits, \A v \in Visits : VisitOK(v)
  PROVE  \A v \in Visits : VisitOK(v)'
BY DEF Grows, VisitOK

LEMMA DeliveryStays ==
  ASSUME PaymentTypeOK, handoff' \in Handoff, Grows,
         NEW d \in Deliveries, DeliveryOK(d), deliveries'[d] = deliveries[d]
  PROVE  DeliveryOK(d)'
<1>1. handoff.version \in Nat /\ handoff'.version \in Nat
  BY VersionsAreNaturals DEF PaymentTypeOK, Handoff
<1>2. deliveries[d] \in Delivery
  BY DEF PaymentTypeOK
<1>3. deliveries[d].version \in Versions \cup {0}
  BY <1>2 DEF Delivery
<1>4. deliveries[d].version \in Nat
  BY <1>3, VersionsAreNaturals
<1> QED BY <1>1, <1>4 DEF Grows, DeliveryOK

LEMMA LogStays ==
  ASSUME LogInv, UNCHANGED <<handoff, log, events>>
  PROVE  LogInv'
BY DEF LogInv, HandoffOK, StateOK, Conclusive, LaunchFirst, EventsAppliedOnce,
       ProcessedIsRecorded, Recorded

LEMMA RecordsStay ==
  ASSUME UNCHANGED log
  PROVE  \A source, id : Recorded(source, id) => Recorded(source, id)'
BY DEF Recorded

\* An entry that is recorded keeps the log in order and moves the row on.
LEMMA RecordKeeps ==
  ASSUME PaymentTypeOK, LogInv, handoff.exists, UNCHANGED events,
         NEW entry \in Entries, NEW version, NEW browser \in BrowserStates,
         NEW state \in Verdicts,
         RecordEvent(entry, version, browser, state),
         state = IF entry.verdict = "pending" THEN handoff.state ELSE entry.verdict,
         entry.source = "browser" /\ entry.id = "launch" => handoff.state = "pending"
  PROVE  /\ handoff' \in Handoff /\ log' \in Seq(Entries) /\ LogInv'
         /\ handoff'.exists
         /\ \A source, id : Recorded(source, id) => Recorded(source, id)'
         /\ Recorded(entry.source, entry.id)'
         /\ \/ handoff'.version > handoff.version
            \/ handoff'.version = handoff.version /\ handoff'.state = handoff.state
<1>1. CASE Recorded(entry.source, entry.id)
  <2>1. UNCHANGED <<log, handoff>>
    BY <1>1 DEF RecordEvent
  <2>2. LogInv'
    BY <2>1, LogStays
  <2> QED BY <1>1, <2>1, <2>2, RecordsStay DEF PaymentTypeOK, Recorded
<1>2. CASE ~Recorded(entry.source, entry.id)
  <2>1. /\ log' = Append(log, entry)
        /\ handoff' = [handoff EXCEPT !.browser = browser, !.state = state, !.version = @ + 1]
    BY <1>2 DEF RecordEvent
  <2>2. /\ log \in Seq(Entries) /\ handoff \in Handoff
        /\ handoff.version \in Nat /\ handoff.version = 1 + Len(log)
    BY VersionsAreNaturals DEF PaymentTypeOK, Handoff, LogInv, EventsAppliedOnce
  <2>3. /\ log' \in Seq(Entries) /\ Len(log) \in Nat /\ Len(log') = 1 + Len(log)
        /\ DOMAIN log = 1 .. Len(log) /\ DOMAIN log' = 1 .. 1 + Len(log)
        /\ \A n \in 1 .. Len(log) : log'[n] = log[n]
        /\ log'[1 + Len(log)] = entry
    BY <2>1, <2>2, Appended
  <2>4. \A m, n \in DOMAIN log' :
           log'[m].source = log'[n].source /\ log'[m].id = log'[n].id => m = n
    BY <1>2, <2>3 DEF LogInv, EventsAppliedOnce, Recorded
  <2>5. 1 + Len(log') \in Versions
    BY <2>3, <2>4, LogFits
  <2>6. /\ handoff'.exists = handoff.exists /\ handoff'.state = state
        /\ handoff'.version = handoff.version + 1 /\ handoff' \in Handoff
    <3>1. handoff.version + 1 \in Versions
      BY <2>2, <2>3, <2>5
    <3> QED BY <2>1, <2>2, <3>1 DEF Handoff
  <2>7. EventsAppliedOnce'
    BY <2>2, <2>3, <2>4, <2>6 DEF EventsAppliedOnce
  <2>8. /\ \A source, id : Recorded(source, id) => Recorded(source, id)'
        /\ Recorded(entry.source, entry.id)'
    BY <2>1, <2>2, RecordedStays
  <2>9. ProcessedIsRecorded'
    BY <2>8 DEF LogInv, ProcessedIsRecorded
  <2>10. Conclusive' = Conclusive \cup {n \in {1 + Len(log)} : entry.verdict # "pending"}
    BY <2>3 DEF Conclusive
  <2>11. Conclusive \subseteq 1 .. Len(log)
    BY <2>3 DEF Conclusive
  <2>12. StateOK'
    <3>1. CASE entry.verdict = "pending"
      <4>1. Conclusive' = Conclusive /\ handoff'.state = handoff.state
        BY <2>6, <2>10, <3>1
      <4>2. \A n \in Conclusive : log'[n].verdict = log[n].verdict
        BY <2>3, <2>11
      <4> QED BY <4>1, <4>2 DEF LogInv, StateOK
    <3>2. CASE entry.verdict # "pending"
      <4>1. 1 + Len(log) \in Conclusive' /\ \A m \in Conclusive' : m <= 1 + Len(log)
        BY <2>3, <2>10, <2>11, <3>2
      <4>2. handoff'.state = log'[1 + Len(log)].verdict
        BY <2>3, <2>6, <3>2
      <4> QED BY <4>1, <4>2 DEF StateOK
    <3> QED BY <3>1, <3>2
  <2>13. LaunchFirst'
    <3> SUFFICES ASSUME NEW m \in 1 .. 1 + Len(log), NEW n \in 1 .. 1 + Len(log),
                        log'[n].source = "browser", log'[n].id = "launch", m < n
                 PROVE  m \notin Conclusive'
      BY <2>3 DEF LaunchFirst
    <3>1. m \in 1 .. Len(log) /\ (m \in Conclusive' => m \in Conclusive)
      BY <2>3, <2>10
    <3>2. CASE n \in 1 .. Len(log)
      BY <2>3, <3>1, <3>2 DEF LogInv, LaunchFirst
    <3>3. CASE n = 1 + Len(log)
      <4>1. handoff.state = "pending"
        BY <2>3, <3>3
      <4>2. Conclusive = {}
        BY <4>1 DEF LogInv, StateOK, Conclusive
      <4> QED BY <3>1, <4>2
    <3> QED BY <2>3, <3>2, <3>3
  <2>14. HandoffOK'
    BY <2>6 DEF HandoffOK
  <2>15. handoff'.version > handoff.version
    BY <2>2, <2>6
  <2> QED BY <2>3, <2>6, <2>7, <2>8, <2>9, <2>12, <2>13, <2>14, <2>15 DEF LogInv
<1> QED BY <1>1, <1>2

-----------------------------------------------------------------------------
(* The create requests.                                                    *)

LEMMA OpStateType ==
  ASSUME OpTypeOK, NEW s \in OpStates, ops[Op].state # "absent",
         ops' = [ops EXCEPT ![Op].state = s], UNCHANGED granted
  PROVE  OpTypeOK' /\ ops'[Op].state = s
<1>1. Op \in Ops
  BY PaymentAssumption DEF Op
<1>2. ops[Op] \in Operation
  BY <1>1 DEF OpTypeOK
<1>3. [ops[Op] EXCEPT !.state = s] \in Operation /\ [ops[Op] EXCEPT !.state = s].state = s
  BY <1>2 DEF Operation
<1>4. ops' = [ops EXCEPT ![Op] = [ops[Op] EXCEPT !.state = s]]
  BY <1>1 DEF OpTypeOK
<1> QED BY <1>1, <1>3, <1>4 DEF OpTypeOK

\* A finish puts the operation into its state, or finds it there; no finish
\* takes a success back.
LEMMA FinishKeeps ==
  ASSUME OpTypeOK, NEW s \in Proven \cup {"in_flight", "failed_unknown"}, FinishCreation(s)
  PROVE  /\ OpTypeOK' /\ ops'[Op].state = s
         /\ ops[Op].state = "succeeded" => ops'[Op].state = "succeeded"
<1>1. CASE FinishLegacy(Op, s)
  <2>1. OpTypeOK' /\ ops'[Op].state = s
    BY <1>1, OpStateType DEF FinishLegacy, OpStates
  <2> QED BY <1>1, <2>1 DEF FinishLegacy, Proven
<1>2. CASE s \in Proven /\ ops[Op].state = s /\ UNCHANGED <<ops, granted>>
  BY <1>2 DEF OpTypeOK
<1> QED BY <1>1, <1>2 DEF FinishCreation

\* A step of a create request leaves everybody else what they rely on.
LEMMA CreateStepKeeps ==
  ASSUME PaymentInv, NEW c \in Creates, NEW row \in Creation,
         UNCHANGED <<now, log, visits, deliveries, inboxVars>>,
         OpTypeOK', hosted' \in BOOLEAN, handoff' \in Handoff, links' \in [Kinds -> Link],
         creating' = [creating EXCEPT ![c] = row],
         Grows, LogInv', BackedOK', CreateOK(c)'
  PROVE  PaymentInv'
<1> USE DEF PaymentInv
<1>1. PaymentTypeOK'
  BY DEF PaymentTypeOK, inboxVars, Inbox!EventTypeOK
<1>2. InboxOK'
  BY DEF InboxOK, inboxVars
<1>3. \A x \in Creates : CreateOK(x)'
  <2> SUFFICES ASSUME NEW x \in Creates, x # c
               PROVE  CreateOK(x)'
    OBVIOUS
  <2>1. creating'[x] = creating[x]
    BY DEF PaymentTypeOK
  <2> QED BY <2>1, CreateStays
<1>4. \A v \in Visits : VisitOK(v)'
  BY VisitsStay
<1>5. \A d \in Deliveries : DeliveryOK(d)'
  BY DeliveryStays
<1> QED BY <1>1, <1>2, <1>3, <1>4, <1>5

\* A request that moves on, when only the operation or the provider changes.
LEMMA LedgerStepKeeps ==
  ASSUME PaymentInv, NEW c \in Creates, NEW row \in Creation,
         UNCHANGED <<now, handoff, log, links, visits, deliveries, inboxVars>>,
         OpTypeOK', hosted' \in BOOLEAN, hosted => hosted',
         ops[Op].state = "succeeded" => ops'[Op].state = "succeeded",
         creating' = [creating EXCEPT ![c] = row], CreateOK(c)'
  PROVE  PaymentInv'
<1> USE DEF PaymentInv
<1>1. Grows
  BY RecordsStay DEF Grows
<1>2. LogInv'
  BY LogStays DEF inboxVars
<1>3. BackedOK'
  BY DEF BackedOK, Offered
<1>4. handoff' \in Handoff /\ links' \in [Kinds -> Link]
  BY DEF PaymentTypeOK
<1> QED BY <1>1, <1>2, <1>3, <1>4, CreateStepKeeps

LEMMA RowOfCreate ==
  ASSUME PaymentInv, NEW c \in Creates
  PROVE  creating[c] \in Creation /\ CreateOK(c)
BY DEF PaymentInv, PaymentTypeOK

LEMMA PhaseChange ==
  ASSUME PaymentInv, NEW c \in Creates, NEW p \in CreatePhases, Phase(c, p)
  PROVE  /\ creating' = [creating EXCEPT ![c] = [creating[c] EXCEPT !.phase = p]]
         /\ [creating[c] EXCEPT !.phase = p] \in Creation
         /\ creating'[c].phase = p /\ creating'[c].seen = creating[c].seen
         /\ creating'[c].outcome = creating[c].outcome
<1>1. creating \in [Creates -> Creation]
  BY DEF PaymentInv, PaymentTypeOK
<1> QED BY <1>1 DEF Phase, Creation

LEMMA CreateReserveKeeps ==
  ASSUME PaymentInv, NEW c \in Creates, CreateReserve(c)
  PROVE  PaymentInv'
<1>1. Op \in Ops /\ now \in Hashes /\ now \in 0 .. MaxTime /\ OpTypeOK /\ hosted \in BOOLEAN
  BY PaymentAssumption DEF Op, PaymentInv, PaymentTypeOK
<1>2. creating \in [Creates -> Creation]
  BY DEF PaymentInv, PaymentTypeOK
<1>3. CASE Reserve(Op, now) /\ creating' = [creating EXCEPT ![c] =
             [NoCreate EXCEPT !.phase = "begin", !.at = now, !.seen = "planned"]]
  <2> DEFINE row == [NoCreate EXCEPT !.phase = "begin", !.at = now, !.seen = "planned"]
             op == [NoOp EXCEPT !.state = "planned", !.sha = now]
  <2>1. row \in Creation /\ row.phase = "begin" /\ row.seen = "planned"
    BY <1>1 DEF NoCreate, Creation, CreatePhases, OpStates
  <2>2. op \in Operation
    <3>1. 0 \in ClaimLeases /\ "planned" \in OpStates
      BY OperationsAssumption DEF ClaimLeases, OpStates
    <3> QED BY <1>1, <3>1 DEF NoOp, Operation
  <2>3. OpTypeOK' /\ ops[Op].state = "absent"
    BY <1>1, <1>3, <2>2 DEF Reserve, OpTypeOK
  <2>4. CreateOK(c)'
    BY <1>2, <1>3, <2>1 DEF CreateOK, Kinds
  <2> HIDE DEF row, op
  <2> QED BY <1>1, <1>3, <2>1, <2>3, <2>4, LedgerStepKeeps DEF CreateReserve, row
<1>4. CASE /\ ops[Op].state # "absent" /\ UNCHANGED <<ops, granted>>
           /\ creating' = [creating EXCEPT ![c] =
             [NoCreate EXCEPT !.at = now, !.seen = ops[Op].state,
                !.phase = IF ops[Op].sha # now THEN "refused"
                          ELSE CASE ops[Op].state = "failed_terminal" -> "failed"
                                 [] ops[Op].state = "succeeded" -> "call"
                                 [] OTHER -> "begin"]]
  <2> DEFINE phase == IF ops[Op].sha # now THEN "refused"
                      ELSE CASE ops[Op].state = "failed_terminal" -> "failed"
                             [] ops[Op].state = "succeeded" -> "call"
                             [] OTHER -> "begin"
             row == [NoCreate EXCEPT !.at = now, !.seen = ops[Op].state, !.phase = phase]
  <2>1. phase \in {"refused", "failed", "call", "begin"}
    OBVIOUS
  <2>2. ops[Op].state \in OpStates
    BY <1>1 DEF OpTypeOK, Operation
  <2>3. creating' = [creating EXCEPT ![c] = row]
    BY <1>4
  <2> HIDE DEF phase
  <2>4. row \in Creation /\ row.phase = phase /\ row.seen = ops[Op].state
    BY <1>1, <2>1, <2>2 DEF NoCreate, Creation, CreatePhases
  <2> HIDE DEF row
  <2>5. CreateOK(c)'
    BY <1>2, <1>4, <2>1, <2>3, <2>4 DEF CreateOK, Kinds
  <2>6. OpTypeOK'
    BY <1>1, <1>4 DEF OpTypeOK
  <2> QED BY <1>1, <1>4, <2>3, <2>4, <2>5, <2>6, LedgerStepKeeps DEF CreateReserve
<1> QED BY <1>3, <1>4 DEF CreateReserve

LEMMA CreateBeginKeeps ==
  ASSUME PaymentInv, NEW c \in Creates, CreateBegin(c)
  PROVE  PaymentInv'
<1>1. OpTypeOK /\ hosted \in BOOLEAN
  BY DEF PaymentInv, PaymentTypeOK
<1>2. {"call", "failed"} \subseteq CreatePhases
  BY DEF CreatePhases
<1>3. CASE FinishCreation("in_flight") /\ Phase(c, "call")
  <2>1. /\ OpTypeOK' /\ ops'[Op].state = "in_flight"
        /\ ops[Op].state = "succeeded" => ops'[Op].state = "succeeded"
    BY <1>1, <1>3, FinishKeeps
  <2>2. CreateOK(c)'
    BY <1>2, <1>3, <2>1, PhaseChange, RowOfCreate DEF CreateOK, Kinds
  <2> QED BY <1>1, <1>2, <1>3, <2>1, <2>2, PhaseChange, LedgerStepKeeps DEF CreateBegin
<1>4. CASE Phase(c, "failed") /\ UNCHANGED <<ops, granted>>
  <2>1. OpTypeOK'
    BY <1>1, <1>4 DEF OpTypeOK
  <2>2. CreateOK(c)'
    BY <1>2, <1>4, PhaseChange, RowOfCreate DEF CreateOK, Kinds
  <2> QED BY <1>1, <1>2, <1>4, <2>1, <2>2, PhaseChange, LedgerStepKeeps DEF CreateBegin
<1> QED BY <1>3, <1>4 DEF CreateBegin

LEMMA CreateCallKeeps ==
  ASSUME PaymentInv, NEW c \in Creates, CreateCall(c)
  PROVE  PaymentInv'
<1>1. PICK outcome \in Proven \cup {"failed_unknown"} :
        /\ creating' = [creating EXCEPT ![c].outcome = outcome, ![c].phase = "settle"]
        /\ hosted' \in IF outcome = "succeeded" THEN {TRUE} ELSE {hosted, TRUE}
  BY DEF CreateCall
<1>2. creating \in [Creates -> Creation] /\ creating[c] \in Creation /\ CreateOK(c)
      /\ hosted \in BOOLEAN /\ OpTypeOK
  BY RowOfCreate DEF PaymentInv, PaymentTypeOK
<1> DEFINE row == [creating[c] EXCEPT !.outcome = outcome, !.phase = "settle"]
<1>3. /\ row \in Creation /\ row.phase = "settle" /\ row.outcome = outcome
      /\ row.seen = creating[c].seen
  BY <1>2 DEF Creation, CreatePhases
<1>4. creating' = [creating EXCEPT ![c] = row] /\ creating'[c] = row
  BY <1>1, <1>2
<1>5. hosted' \in BOOLEAN /\ (hosted => hosted') /\ (outcome = "succeeded" => hosted')
  BY <1>1, <1>2
<1>6. UNCHANGED <<now, ops, granted, handoff, log, links, visits, deliveries, inboxVars>>
  BY DEF CreateCall
<1>7. outcome # "none"
  BY DEF Proven
<1> HIDE DEF row
<1>8. CreateOK(c)'
  BY <1>2, <1>3, <1>4, <1>5, <1>6, <1>7 DEF CreateOK, Kinds
<1>9. OpTypeOK'
  BY <1>2, <1>6 DEF OpTypeOK
<1> QED BY <1>3, <1>4, <1>5, <1>6, <1>8, <1>9, LedgerStepKeeps

LEMMA CreateSettleKeeps ==
  ASSUME PaymentInv, NEW c \in Creates, CreateSettle(c)
  PROVE  PaymentInv'
<1> DEFINE outcome == creating[c].outcome
           next == IF outcome = "succeeded" THEN "handoff" ELSE "failed"
<1>1. /\ creating[c].phase = "settle" /\ creating[c] \in Creation /\ CreateOK(c)
      /\ OpTypeOK /\ hosted \in BOOLEAN
      /\ UNCHANGED <<now, hosted, handoff, log, links, visits, deliveries, inboxVars>>
  BY RowOfCreate DEF CreateSettle, PaymentInv, PaymentTypeOK
<1>2. /\ outcome \in Proven \cup {"failed_unknown"}
      /\ outcome = "succeeded" => hosted
      /\ creating[c].seen = "succeeded" => ops[Op].state = "succeeded"
  BY <1>1 DEF CreateOK, Creation
<1>3. {"handoff", "failed"} \subseteq CreatePhases
  BY DEF CreatePhases
<1>4. \/ /\ creating[c].seen = "succeeded" /\ Phase(c, next) /\ UNCHANGED <<ops, granted>>
      \/ creating[c].seen # "succeeded" /\ FinishCreation(outcome) /\ Phase(c, next)
      \/ Phase(c, "failed") /\ UNCHANGED <<ops, granted>>
  BY DEF CreateSettle
<1>5. ASSUME NEW p \in {"handoff", "failed"}, Phase(c, p), OpTypeOK',
             ops[Op].state = "succeeded" => ops'[Op].state = "succeeded",
             p = "handoff" => hosted /\ ops'[Op].state = "succeeded"
      PROVE  PaymentInv'
  <2>1. CreateOK(c)'
    BY <1>1, <1>3, <1>5, PhaseChange DEF CreateOK, Offered, Kinds
  <2> QED BY <1>1, <1>3, <1>5, <2>1, PhaseChange, LedgerStepKeeps
<1>6. CASE creating[c].seen = "succeeded" /\ Phase(c, next) /\ UNCHANGED <<ops, granted>>
  <2>1. OpTypeOK' /\ ops'[Op].state = "succeeded"
    BY <1>1, <1>2, <1>6 DEF OpTypeOK
  <2> QED BY <1>2, <1>5, <1>6, <2>1
<1>7. CASE FinishCreation(outcome) /\ Phase(c, next)
  <2>1. /\ OpTypeOK' /\ ops'[Op].state = outcome
        /\ ops[Op].state = "succeeded" => ops'[Op].state = "succeeded"
    BY <1>1, <1>2, <1>7, FinishKeeps
  <2> QED BY <1>2, <1>5, <1>7, <2>1
<1>8. CASE Phase(c, "failed") /\ UNCHANGED <<ops, granted>>
  <2>1. OpTypeOK'
    BY <1>1, <1>8 DEF OpTypeOK
  <2> QED BY <1>5, <1>8, <2>1
<1> QED BY <1>4, <1>6, <1>7, <1>8

LEMMA CreateHandoffKeeps ==
  ASSUME PaymentInv, NEW c \in Creates, CreateHandoff(c)
  PROVE  PaymentInv'
<1>1. /\ creating[c] \in Creation /\ CreateOK(c) /\ PaymentTypeOK /\ LogInv /\ BackedOK
      /\ creating[c].phase = "handoff" /\ Phase(c, "return")
      /\ UNCHANGED <<now, ops, granted, hosted, log, links, visits, deliveries, inboxVars>>
  BY RowOfCreate DEF CreateHandoff, PaymentInv
<1>2. Offered
  BY <1>1 DEF CreateOK
<1>3. /\ handoff' \in Handoff /\ handoff'.exists
      /\ handoff'.version = handoff.version /\ handoff'.state = handoff.state
  <2>1. CASE handoff.exists
    BY <1>1, <2>1 DEF CreateHandoff, PaymentTypeOK
  <2>2. CASE ~handoff.exists
    <3>1. handoff' = [NoHandoff EXCEPT !.exists = TRUE, !.expires = creating[c].at + LinkTime]
          /\ handoff = NoHandoff
      BY <1>1, <2>2 DEF CreateHandoff, LogInv, HandoffOK
    <3>2. creating[c].at + LinkTime \in 0 .. MaxTime + LinkTime
      BY <1>1, PaymentAssumption DEF Creation
    <3>3. 1 \in Versions
      BY VersionsAreNaturals
    <3> QED BY <3>1, <3>2, <3>3 DEF NoHandoff, Handoff, BrowserStates, Verdicts
  <2> QED BY <2>1, <2>2
<1>4. "return" \in CreatePhases
  BY DEF CreatePhases, Kinds
<1>5. Grows
  BY <1>1, <1>3, RecordsStay DEF Grows
<1>6. LogInv'
  <2>1. HandoffOK'
    BY <1>3 DEF HandoffOK
  <2>2. StateOK'
    BY <1>1, <1>3 DEF LogInv, StateOK, Conclusive
  <2>3. LaunchFirst' /\ EventsAppliedOnce' /\ ProcessedIsRecorded'
    BY <1>1, <1>3 DEF LogInv, LaunchFirst, Conclusive, EventsAppliedOnce, ProcessedIsRecorded,
                      Recorded, inboxVars
  <2> QED BY <2>1, <2>2, <2>3 DEF LogInv
<1>7. BackedOK'
  BY <1>1, <1>2, <1>3 DEF BackedOK, Offered
<1>8. CreateOK(c)'
  BY <1>1, <1>2, <1>3, <1>4, PhaseChange DEF CreateOK, Offered, Kinds
<1>9. OpTypeOK' /\ hosted' \in BOOLEAN /\ links' \in [Kinds -> Link]
  BY <1>1 DEF PaymentTypeOK, OpTypeOK
<1> QED BY <1>1, <1>3, <1>4, <1>5, <1>6, <1>7, <1>8, <1>9, PhaseChange, CreateStepKeeps

LEMMA CreateLinkKeeps ==
  ASSUME PaymentInv, NEW c \in Creates, CreateLink(c)
  PROVE  PaymentInv'
<1> DEFINE kind == creating[c].phase
           next == IF kind = "return" THEN "launch" ELSE "done"
           fresh == [state |-> "live", at |-> creating[c].at]
<1>1. /\ creating[c] \in Creation /\ CreateOK(c) /\ PaymentTypeOK /\ LogInv /\ BackedOK
      /\ kind \in Kinds
      /\ UNCHANGED <<now, ops, granted, hosted, handoff, log, visits, deliveries, inboxVars>>
  BY RowOfCreate DEF CreateLink, PaymentInv
<1>2. Offered /\ handoff.exists /\ (kind = "launch" => links["return"].state # "none")
  BY <1>1 DEF CreateOK
<1>3. links \in [Kinds -> Link] /\ fresh \in Link
  BY <1>1 DEF PaymentTypeOK, Creation, Link
<1>4. {"launch", "done", "failed"} \subseteq CreatePhases
  BY DEF CreatePhases, Kinds
<1>5. ASSUME NEW p \in {"launch", "done", "failed"}, Phase(c, p),
             \/ UNCHANGED links
             \/ links[kind].state = "none" /\ links' = [links EXCEPT ![kind] = fresh],
             p = "failed" \/ (p = next /\ links'[kind].state # "none")
      PROVE  PaymentInv'
  <2>1. /\ links' \in [Kinds -> Link]
        /\ \A k \in Kinds : /\ links[k].state # "none" => links'[k].state # "none"
                            /\ links[k].state = "consumed" => links'[k].state = "consumed"
    BY <1>1, <1>3, <1>5
  <2>2. Grows
    BY <1>1, <2>1, RecordsStay DEF Grows
  <2>3. LogInv'
    BY <1>1, LogStays DEF inboxVars
  <2>4. BackedOK'
    BY <1>1, <1>2 DEF BackedOK, Offered
  <2>5. links["return"].state # "none" => links'["return"].state # "none"
    BY <2>1 DEF Kinds
  <2>6. CreateOK(c)'
    <3>1. /\ p \in {"launch", "done"} => links'["return"].state # "none"
          /\ p = "done" => links'["launch"].state # "none"
      BY <1>1, <1>2, <1>5, <2>5 DEF Kinds
    <3> QED BY <1>1, <1>2, <1>4, <1>5, <3>1, PhaseChange DEF CreateOK, Offered, Kinds
  <2>7. OpTypeOK' /\ hosted' \in BOOLEAN /\ handoff' \in Handoff
    BY <1>1 DEF PaymentTypeOK, OpTypeOK
  <2> QED BY <1>1, <1>4, <1>5, <2>1, <2>2, <2>3, <2>4, <2>6, <2>7, PhaseChange, CreateStepKeeps
<1> DEFINE issued == creating[c].at + LinkTime > now
                     /\ (links[kind].state = "none" \/ links[kind].at = creating[c].at)
<1>6. CASE issued
  <2>1. /\ links' = IF links[kind].state = "none" THEN [links EXCEPT ![kind] = fresh] ELSE links
        /\ Phase(c, next)
    BY <1>6 DEF CreateLink
  <2>2. links'[kind].state # "none"
    BY <1>1, <1>3, <2>1
  <2> QED BY <1>5, <2>1, <2>2
<1>7. CASE ~issued
  <2>1. UNCHANGED links /\ Phase(c, "failed")
    BY <1>7 DEF CreateLink
  <2> QED BY <1>5, <2>1
<1> QED BY <1>6, <1>7

LEMMA CreateDiesKeeps ==
  ASSUME PaymentInv, NEW c \in Creates, CreateDies(c)
  PROVE  PaymentInv'
<1>1. /\ creating \in [Creates -> Creation] /\ OpTypeOK /\ hosted \in BOOLEAN
      /\ creating' = [creating EXCEPT ![c] = NoCreate]
      /\ UNCHANGED <<now, ops, granted, hosted, handoff, log, links, visits, deliveries, inboxVars>>
  BY DEF CreateDies, PaymentInv, PaymentTypeOK
<1>2. NoCreate \in Creation
  BY PaymentAssumption DEF NoCreate, Creation, CreatePhases, OpStates
<1>3. CreateOK(c)'
  BY <1>1 DEF CreateOK, NoCreate, Kinds
<1>4. OpTypeOK'
  BY <1>1 DEF OpTypeOK
<1> QED BY <1>1, <1>2, <1>3, <1>4, LedgerStepKeeps

-----------------------------------------------------------------------------
(* The visits.                                                             *)

\* A step of a visit, a delivery or the clock leaves the requests alone.
LEMMA LaterStepKeeps ==
  ASSUME PaymentInv, UNCHANGED creationVars, now' \in 0 .. MaxTime,
         Inbox!EventTypeOK', handoff' \in Handoff, log' \in Seq(Entries),
         links' \in [Kinds -> Link], visits' \in [Visits -> Visit],
         deliveries' \in [Deliveries -> Delivery],
         Grows, LogInv', InboxOK', \A k \in Kinds : links'[k].state # "none" => handoff'.exists,
         handoff'.exists => handoff.exists,
         \A v \in Visits : VisitOK(v)', \A d \in Deliveries : DeliveryOK(d)'
  PROVE  PaymentInv'
<1>1. PaymentTypeOK'
  BY DEF PaymentInv, PaymentTypeOK, OpTypeOK, creationVars
<1>2. BackedOK'
  BY DEF PaymentInv, BackedOK, Offered, creationVars
<1>3. \A c \in Creates : CreateOK(c)'
  BY CreateStays DEF PaymentInv, creationVars
<1> QED BY <1>1, <1>2, <1>3 DEF PaymentInv

LEMMA InboxStays ==
  ASSUME PaymentInv, UNCHANGED inboxVars
  PROVE  Inbox!EventTypeOK' /\ InboxOK'
BY DEF PaymentInv, PaymentTypeOK, InboxOK, inboxVars, Inbox!EventTypeOK

LEMMA RowOfVisit ==
  ASSUME PaymentInv, NEW v \in Visits
  PROVE  /\ visits[v] \in Visit /\ VisitOK(v)
         /\ visits[v].phase # "idle" =>
              /\ visits[v].kind \in Kinds /\ handoff.exists
              /\ links[visits[v].kind].state = "consumed"
BY DEF PaymentInv, PaymentTypeOK, VisitOK, BackedOK

LEMMA VisitConsumeKeeps ==
  ASSUME PaymentInv, NEW v \in Visits, NEW kind \in Kinds, VisitConsume(v, kind)
  PROVE  PaymentInv'
<1> DEFINE row == [NoVisit EXCEPT !.phase = "consumed", !.kind = kind]
<1>1. /\ visits[v].phase = "idle" /\ links[kind].state = "live"
      /\ links' = [links EXCEPT ![kind].state = "consumed"]
      /\ visits' = [visits EXCEPT ![v] = row]
      /\ UNCHANGED <<now, creationVars, handoff, log, deliveries, inboxVars>>
  BY DEF VisitConsume
<1>2. PaymentTypeOK /\ LogInv /\ BackedOK /\ handoff.exists
  BY <1>1 DEF PaymentInv, BackedOK
<1>3. /\ links \in [Kinds -> Link] /\ visits \in [Visits -> Visit]
      /\ handoff \in Handoff /\ log \in Seq(Entries) /\ now \in 0 .. MaxTime
      /\ deliveries \in [Deliveries -> Delivery]
  BY <1>2 DEF PaymentTypeOK
<1>4. row \in Visit /\ row.phase = "consumed" /\ row.kind = kind
  BY DEF NoVisit, Visit, Verdicts
<1>5. /\ links' \in [Kinds -> Link] /\ links'[kind].state = "consumed"
      /\ \A k \in Kinds : k # kind => links'[k] = links[k]
  BY <1>1, <1>3 DEF Link
<1> HIDE DEF row
<1>6. visits' \in [Visits -> Visit] /\ visits'[v] = row
      /\ \A u \in Visits : u # v => visits'[u] = visits[u]
  BY <1>1, <1>3, <1>4
<1>7. Grows
  BY <1>1, <1>5, RecordsStay DEF Grows, creationVars
<1>8. \A u \in Visits : VisitOK(u) /\ (visits[u].phase # "idle" => visits[u].kind # kind)
  BY <1>1, RowOfVisit
<1>9. \A u \in Visits : VisitOK(u)'
  <2> SUFFICES ASSUME NEW u \in Visits
               PROVE  VisitOK(u)'
    OBVIOUS
  <2>1. CASE u = v
    BY <1>4, <1>5, <1>6, <1>8, <2>1 DEF VisitOK
  <2>2. CASE u # v
    BY <1>1, <1>4, <1>5, <1>6, <1>8, <2>2 DEF VisitOK, Recorded
  <2> QED BY <2>1, <2>2
<1>10. \A d \in Deliveries : DeliveryOK(d)'
  BY <1>1, <1>2, <1>3, <1>7, DeliveryStays DEF PaymentInv
<1>11. LogInv'
  BY <1>1, <1>2, LogStays DEF inboxVars
<1> QED BY <1>1, <1>2, <1>3, <1>5, <1>6, <1>7, <1>9, <1>10, <1>11, InboxStays, LaterStepKeeps

\* A visit that goes on keeps its link, and what the others know.
LEMMA VisitStepKeeps ==
  ASSUME PaymentInv, NEW v \in Visits, NEW row \in Visit, visits[v].phase # "idle",
         UNCHANGED <<now, creationVars, links, deliveries, inboxVars>>,
         visits' = [visits EXCEPT ![v] = row],
         row.phase # "idle", row.kind = visits[v].kind,
         row.kind = "launch" =>
           /\ row.phase = "loaded" => row.state = "pending"
           /\ row.phase = "answered" => Recorded("browser", "launch")',
         handoff' \in Handoff, log' \in Seq(Entries), LogInv', handoff'.exists,
         Grows
  PROVE  PaymentInv'
<1>1. /\ links \in [Kinds -> Link] /\ visits \in [Visits -> Visit] /\ now \in 0 .. MaxTime
      /\ deliveries \in [Deliveries -> Delivery] /\ PaymentTypeOK
  BY DEF PaymentInv, PaymentTypeOK
<1>2. visits' \in [Visits -> Visit] /\ visits'[v] = row
      /\ \A u \in Visits : u # v => visits'[u] = visits[u]
  BY <1>1
<1>3. \A u \in Visits : VisitOK(u)
  BY RowOfVisit
<1>4. \A u \in Visits : visits'[u].kind = visits[u].kind
                        /\ (visits'[u].phase = "idle" <=> visits[u].phase = "idle")
  BY <1>2
<1>5. \A u \in Visits : VisitOK(u)'
  <2> SUFFICES ASSUME NEW u \in Visits
               PROVE  VisitOK(u)'
    OBVIOUS
  <2>1. CASE u = v
    BY <1>2, <1>3, <1>4, <2>1 DEF VisitOK
  <2>2. CASE u # v
    <3>1. Recorded("browser", "launch") => Recorded("browser", "launch")'
      BY DEF Grows
    <3> QED BY <1>2, <1>3, <1>4, <2>2, <3>1 DEF VisitOK
  <2> QED BY <2>1, <2>2
<1>6. \A d \in Deliveries : DeliveryOK(d)'
  BY <1>1, DeliveryStays DEF PaymentInv
<1>7. handoff.exists
  BY RowOfVisit
<1> QED BY <1>1, <1>2, <1>5, <1>6, <1>7, InboxStays, LaterStepKeeps

LEMMA VisitLoadKeeps ==
  ASSUME PaymentInv, NEW v \in Visits, VisitLoad(v)
  PROVE  PaymentInv'
<1> DEFINE active == handoff.expires > now /\ handoff.state = "pending"
           phase == IF visits[v].kind = "launch" /\ ~active THEN "failed" ELSE "loaded"
           row == [visits[v] EXCEPT !.phase = phase, !.version = handoff.version,
                                    !.state = handoff.state]
<1>1. /\ visits[v].phase = "consumed"
      /\ visits' = [visits EXCEPT ![v] = row]
      /\ UNCHANGED <<now, creationVars, handoff, log, links, deliveries, inboxVars>>
  BY DEF VisitLoad
<1>2. visits[v] \in Visit /\ handoff.exists
  BY <1>1, RowOfVisit
<1>3. handoff \in Handoff /\ log \in Seq(Entries) /\ LogInv
  BY DEF PaymentInv, PaymentTypeOK
<1>4. phase \in {"failed", "loaded"}
      /\ (phase = "loaded" /\ visits[v].kind = "launch" => handoff.state = "pending")
  OBVIOUS
<1> HIDE DEF phase
<1>5. /\ row \in Visit /\ row.phase = phase /\ row.kind = visits[v].kind
      /\ row.state = handoff.state
  BY <1>2, <1>3, <1>4 DEF Visit, Handoff
<1> HIDE DEF row
<1>6. Grows
  BY <1>1, RecordsStay DEF Grows, creationVars
<1>7. LogInv'
  BY <1>1, <1>3, LogStays DEF inboxVars
<1> QED BY <1>1, <1>2, <1>3, <1>4, <1>5, <1>6, <1>7, VisitStepKeeps

LEMMA VisitRecordKeeps ==
  ASSUME PaymentInv, NEW v \in Visits, VisitRecord(v)
  PROVE  PaymentInv'
<1> DEFINE visit == visits[v]
           browser == IF visit.kind = "launch" THEN "opened" ELSE "returned"
           row(phase) == [visit EXCEPT !.phase = phase]
<1>1. /\ visit.phase = "loaded"
      /\ UNCHANGED <<now, creationVars, links, deliveries, inboxVars>>
  BY DEF VisitRecord
<1>2. /\ visit \in Visit /\ handoff.exists /\ visit.kind \in Kinds
      /\ visit.kind = "launch" => visit.state = "pending"
  BY <1>1, RowOfVisit DEF VisitOK
<1>3. /\ handoff \in Handoff /\ log \in Seq(Entries) /\ LogInv /\ PaymentTypeOK
      /\ visits \in [Visits -> Visit]
  BY DEF PaymentInv, PaymentTypeOK
<1>4. \A phase \in {"answered", "failed"} :
        /\ row(phase) \in Visit /\ row(phase).phase = phase /\ row(phase).kind = visit.kind
        /\ [visits EXCEPT ![v].phase = phase] = [visits EXCEPT ![v] = row(phase)]
  BY <1>2, <1>3 DEF Visit
<1> HIDE DEF row
<1>5. CASE /\ RecordEvent(BrowserEvent(visit.kind), visit.version, browser, visit.state)
           /\ visits' = [visits EXCEPT ![v].phase = "answered"]
  <2>1. PICK kind \in Kinds, entry \in Entries, state \in Verdicts :
          /\ kind = visit.kind /\ state = visit.state
          /\ entry = BrowserEvent(kind)
    BY <1>2 DEF Entries, Visit
  <2>2. entry.source = "browser" /\ entry.verdict = "pending" /\ entry.id = kind
    BY <2>1 DEF BrowserEvent
  <2>3. PICK opened \in BrowserStates : opened = browser
    BY DEF BrowserStates
  <2>4. PICK version : version = visit.version
    OBVIOUS
  <2>5. RecordEvent(entry, version, opened, state)
    BY <1>5, <2>1, <2>3, <2>4
  <2>6. state = handoff.state
    BY <2>2, <2>5 DEF RecordEvent, RecordRaises
  <2>7. UNCHANGED events
    BY <1>1 DEF inboxVars
  <2>8. kind = "launch" => handoff.state = "pending"
    BY <1>2, <2>1, <2>6
  <2>9. /\ handoff' \in Handoff /\ log' \in Seq(Entries) /\ LogInv'
        /\ handoff'.exists
        /\ \A source, id : Recorded(source, id) => Recorded(source, id)'
        /\ Recorded(entry.source, entry.id)'
        /\ \/ handoff'.version > handoff.version
           \/ handoff'.version = handoff.version /\ handoff'.state = handoff.state
    BY <1>2, <1>3, <2>2, <2>5, <2>6, <2>7, <2>8, RecordKeeps
  <2>10. Grows
    BY <1>1, <2>9 DEF Grows, creationVars
  <2>11. visit.kind = "launch" => Recorded("browser", "launch")'
    BY <2>1, <2>2, <2>9
  <2> QED BY <1>1, <1>4, <1>5, <2>9, <2>10, <2>11, VisitStepKeeps
<1>6. CASE visits' = [visits EXCEPT ![v].phase = "failed"] /\ UNCHANGED <<log, handoff>>
  <2>1. Grows
    BY <1>1, <1>6, RecordsStay DEF Grows, creationVars
  <2>2. LogInv'
    BY <1>1, <1>3, <1>6, LogStays DEF inboxVars
  <2> QED BY <1>1, <1>2, <1>3, <1>4, <1>6, <2>1, <2>2, VisitStepKeeps
<1> QED BY <1>5, <1>6 DEF VisitRecord

LEMMA TimePassesKeeps ==
  ASSUME PaymentInv, TimePasses
  PROVE  PaymentInv'
<1>1. UNCHANGED <<creationVars, handoff, log, links, visits, deliveries, inboxVars>>
      /\ now' = now + 1 /\ now < MaxTime
  BY DEF TimePasses
<1>2. PaymentTypeOK /\ LogInv /\ BackedOK /\ (\A v \in Visits : VisitOK(v))
      /\ (\A d \in Deliveries : DeliveryOK(d))
  BY DEF PaymentInv
<1>3. now' \in 0 .. MaxTime
  BY <1>1, <1>2, PaymentAssumption DEF PaymentTypeOK
<1>4. Grows
  BY <1>1, RecordsStay DEF Grows, creationVars
<1>5. LogInv'
  BY <1>1, <1>2, LogStays DEF inboxVars
<1>6. /\ handoff' \in Handoff /\ log' \in Seq(Entries) /\ links' \in [Kinds -> Link]
      /\ visits' \in [Visits -> Visit] /\ deliveries' \in [Deliveries -> Delivery]
  BY <1>1, <1>2 DEF PaymentTypeOK
<1>7. /\ \A k \in Kinds : links'[k].state # "none" => handoff'.exists
      /\ handoff'.exists => handoff.exists
  BY <1>1, <1>2 DEF BackedOK
<1>8. \A v \in Visits : VisitOK(v)'
  BY <1>1, <1>2, <1>4, VisitsStay
<1>9. \A d \in Deliveries : DeliveryOK(d)'
  BY <1>1, <1>2, <1>4, <1>6, DeliveryStays
<1> QED BY <1>1, <1>3, <1>4, <1>5, <1>6, <1>7, <1>8, <1>9, InboxStays, LaterStepKeeps

-----------------------------------------------------------------------------
(* The deliveries.                                                         *)

LEMMA NoDeliveryType == NoDelivery \in Delivery /\ NoDelivery.phase = "idle"
BY DEF NoDelivery, Delivery, Verdicts, BrowserStates

LEMMA RowOfDelivery ==
  ASSUME PaymentInv, NEW d \in Deliveries
  PROVE  /\ deliveries[d] \in Delivery /\ DeliveryOK(d)
         /\ deliveries[d].phase # "idle" =>
              /\ handoff.exists /\ deliveries[d].evidence \in Evidence
              /\ deliveries[d].evidence.id \in Ids
BY DEF PaymentInv, PaymentTypeOK, DeliveryOK, Ids

LEMMA DeliveryStepKeeps ==
  ASSUME PaymentInv, NEW d \in Deliveries, NEW row \in Delivery,
         UNCHANGED <<now, creationVars, links, visits>>,
         deliveries' = [deliveries EXCEPT ![d] = row],
         Inbox!EventTypeOK', InboxOK', handoff' \in Handoff, log' \in Seq(Entries), LogInv',
         handoff'.exists <=> handoff.exists, Grows,
         row.phase # "idle" =>
           /\ handoff'.exists /\ row.evidence \in Evidence
           /\ row.version <= handoff'.version
           /\ row.version = handoff'.version => row.state = handoff'.state
           /\ row.phase = "recorded" => Recorded("provider_webhook", row.evidence.id)'
  PROVE  PaymentInv'
<1>1. /\ links \in [Kinds -> Link] /\ visits \in [Visits -> Visit] /\ now \in 0 .. MaxTime
      /\ deliveries \in [Deliveries -> Delivery] /\ PaymentTypeOK /\ BackedOK
      /\ (\A v \in Visits : VisitOK(v)) /\ (\A x \in Deliveries : DeliveryOK(x))
  BY DEF PaymentInv, PaymentTypeOK
<1>2. deliveries' \in [Deliveries -> Delivery] /\ deliveries'[d] = row
      /\ \A x \in Deliveries : x # d => deliveries'[x] = deliveries[x]
  BY <1>1
<1>3. \A x \in Deliveries : DeliveryOK(x)'
  <2> SUFFICES ASSUME NEW x \in Deliveries
               PROVE  DeliveryOK(x)'
    OBVIOUS
  <2>1. CASE x = d
    BY <1>2, <2>1 DEF DeliveryOK
  <2>2. CASE x # d
    BY <1>1, <1>2, <2>2, DeliveryStays
  <2> QED BY <2>1, <2>2
<1>4. \A v \in Visits : VisitOK(v)'
  BY <1>1, VisitsStay
<1>5. \A k \in Kinds : links'[k].state # "none" => handoff'.exists
  BY <1>1 DEF BackedOK
<1> QED BY <1>1, <1>2, <1>3, <1>4, <1>5, LaterStepKeeps

\* A delivery that changes nothing but itself.
LEMMA DeliveryMoves ==
  ASSUME PaymentInv, NEW d \in Deliveries, NEW row \in Delivery,
         UNCHANGED <<now, creationVars, links, visits, handoff, log, inboxVars>>,
         deliveries' = [deliveries EXCEPT ![d] = row],
         row.phase # "idle" =>
           /\ handoff.exists /\ row.evidence \in Evidence
           /\ row.version <= handoff.version
           /\ row.version = handoff.version => row.state = handoff.state
           /\ row.phase # "recorded"
  PROVE  PaymentInv'
<1>1. LogInv' /\ handoff' \in Handoff /\ log' \in Seq(Entries)
  BY LogStays DEF PaymentInv, PaymentTypeOK, inboxVars
<1>2. Grows
  BY RecordsStay DEF Grows, creationVars
<1> QED BY <1>1, <1>2, InboxStays, DeliveryStepKeeps

LEMMA DeliveryFindKeeps ==
  ASSUME PaymentInv, NEW d \in Deliveries, NEW e \in Evidence, DeliveryFind(d, e)
  PROVE  PaymentInv'
<1> DEFINE phase == IF e.source = "provider_webhook" THEN "found" ELSE "resolved"
           row == [NoDelivery EXCEPT !.evidence = e, !.version = handoff.version,
                     !.state = handoff.state, !.browser = handoff.browser, !.phase = phase]
<1>1. /\ handoff.exists /\ deliveries' = [deliveries EXCEPT ![d] = row]
      /\ UNCHANGED <<now, creationVars, handoff, log, links, visits, inboxVars>>
  BY DEF DeliveryFind
<1>2. handoff \in Handoff /\ handoff.version \in Nat
  BY VersionsAreNaturals DEF PaymentInv, PaymentTypeOK, Handoff
<1>3. phase \in {"found", "resolved"}
  OBVIOUS
<1> HIDE DEF phase
<1>4. /\ row \in Delivery /\ row.phase = phase /\ row.evidence = e
      /\ row.version = handoff.version /\ row.state = handoff.state
  BY <1>2, <1>3 DEF NoDelivery, Delivery, Handoff
<1> HIDE DEF row
<1>5. row.version <= handoff.version /\ row.phase # "recorded"
  BY <1>2, <1>3, <1>4
<1> QED BY <1>1, <1>4, <1>5, DeliveryMoves

LEMMA DeliveryDiesKeeps ==
  ASSUME PaymentInv, NEW d \in Deliveries, DeliveryDies(d)
  PROVE  PaymentInv'
BY NoDeliveryType, DeliveryMoves DEF DeliveryDies, Stopped

\* The inbox takes the event of a delivery in, or has it.
LEMMA TakenInKeeps ==
  ASSUME PaymentInv, NEW i \in Ids,
         IF events[i].state = "absent" THEN Inbox!RecordReceived(i, "body")
         ELSE UNCHANGED inboxVars
  PROVE  /\ Inbox!EventTypeOK' /\ InboxOK'
         /\ events'[i].state \in {"received", "processed"}
         /\ \A j \in Ids : events'[j].state = "processed" => events[j].state = "processed"
<1>1. Inbox!EventTypeOK /\ InboxOK
  BY DEF PaymentInv, PaymentTypeOK
<1>2. CASE events[i].state = "absent"
  <2> DEFINE row == [Inbox!NewEvent("body", TRUE) EXCEPT !.state = "received"]
  <2>1. events' = [events EXCEPT ![i] = row] /\ UNCHANGED grants
    BY <1>2 DEF Inbox!RecordReceived
  <2>2. row \in Inbox!Event /\ row.state = "received" /\ row.token = Nil
    <3> DEFINE new == Inbox!NewEvent("body", TRUE)
    <3>1. new \in Inbox!Event /\ new.token = Nil
      <4>1. /\ 0 \in Inbox!EventLeases /\ 0 \in Inbox!EventDelays
            /\ 0 \in Inbox!EventAttemptCounts /\ "absent" \in Inbox!EventStates
        BY DEF Inbox!EventLeases, Inbox!EventDelays, Inbox!EventAttemptCounts, Inbox!EventStates
      <4> QED BY <4>1 DEF Inbox!NewEvent, Inbox!NoEvent, Inbox!Event
    <3>2. row = [new EXCEPT !.state = "received"]
      OBVIOUS
    <3> HIDE DEF new, row
    <3> QED BY <3>1, <3>2 DEF Inbox!Event, Inbox!EventStates
  <2> HIDE DEF row
  <2>3. events \in [Ids -> Inbox!Event]
    BY <1>1 DEF Inbox!EventTypeOK
  <2>4. events'[i] = row /\ \A j \in Ids : j # i => events'[j] = events[j]
    BY <2>1, <2>3
  <2>5. Inbox!EventTypeOK'
    BY <1>1, <2>1, <2>2, <2>3, <2>4 DEF Inbox!EventTypeOK
  <2>6. InboxOK'
    BY <1>1, <2>2, <2>4 DEF InboxOK
  <2> QED BY <2>2, <2>4, <2>5, <2>6
<1>3. CASE events[i].state # "absent"
  BY <1>1, <1>3, InboxStays DEF InboxOK, inboxVars
<1> QED BY <1>2, <1>3

LEMMA DeliveryInboxKeeps ==
  ASSUME PaymentInv, NEW d \in Deliveries, DeliveryInbox(d)
  PROVE  PaymentInv'
<1>1. PICK i \in Ids : i = deliveries[d].evidence.id
  BY RowOfDelivery DEF DeliveryInbox
<1>2. /\ deliveries[d].phase = "found"
      /\ IF events[i].state = "absent" THEN Inbox!RecordReceived(i, "body")
         ELSE UNCHANGED inboxVars
      /\ deliveries' = [deliveries EXCEPT ![d] =
           [@ EXCEPT !.phase = "resolved", !.seen = events'[i].state]]
      /\ UNCHANGED <<now, creationVars, handoff, log, links, visits>>
  BY <1>1 DEF DeliveryInbox
<1>3. /\ Inbox!EventTypeOK' /\ InboxOK'
      /\ events'[i].state \in {"received", "processed"}
      /\ \A j \in Ids : events'[j].state = "processed" => events[j].state = "processed"
  BY <1>2, TakenInKeeps
<1>4. deliveries[d] \in Delivery /\ DeliveryOK(d) /\ deliveries \in [Deliveries -> Delivery]
  BY RowOfDelivery DEF PaymentInv, PaymentTypeOK
<1>5. PICK seen, row :
        /\ seen \in {"received", "processed"} /\ seen = events'[i].state
        /\ row = [deliveries[d] EXCEPT !.phase = "resolved", !.seen = seen]
  BY <1>3
<1>6. /\ row \in Delivery /\ row.phase = "resolved" /\ row.evidence = deliveries[d].evidence
      /\ row.version = deliveries[d].version /\ row.state = deliveries[d].state
  BY <1>4, <1>5 DEF Delivery
<1>7. deliveries' = [deliveries EXCEPT ![d] = row]
  BY <1>2, <1>4, <1>5
<1>8. /\ handoff.exists /\ row.evidence \in Evidence /\ row.version <= handoff.version
      /\ row.version = handoff.version => row.state = handoff.state
  BY <1>2, <1>4, <1>6 DEF DeliveryOK
<1>9. Grows
  BY <1>2, RecordsStay DEF Grows, creationVars
<1>10. LogInv' /\ handoff' \in Handoff /\ log' \in Seq(Entries)
  <2>1. LogInv /\ handoff \in Handoff /\ log \in Seq(Entries)
    BY DEF PaymentInv, PaymentTypeOK
  <2>2. ProcessedIsRecorded'
    BY <1>2, <1>3, <2>1 DEF LogInv, ProcessedIsRecorded, Recorded, Ids
  <2>3. HandoffOK' /\ StateOK' /\ LaunchFirst' /\ EventsAppliedOnce'
    BY <1>2, <2>1 DEF LogInv, HandoffOK, StateOK, Conclusive, LaunchFirst, EventsAppliedOnce
  <2> QED BY <1>2, <2>1, <2>2, <2>3 DEF LogInv
<1> QED BY <1>2, <1>3, <1>6, <1>7, <1>8, <1>9, <1>10, DeliveryStepKeeps

LEMMA DeliveryRecordKeeps ==
  ASSUME PaymentInv, NEW d \in Deliveries, DeliveryRecord(d)
  PROVE  PaymentInv'
<1> DEFINE delivery == deliveries[d]
           verdict == IF delivery.evidence.verdict = "pending" THEN delivery.state
                      ELSE delivery.evidence.verdict
<1>1. /\ delivery.phase = "resolved"
      /\ UNCHANGED <<now, creationVars, links, visits, inboxVars>>
  BY DEF DeliveryRecord
<1>2. /\ delivery \in Delivery /\ handoff.exists /\ delivery.evidence \in Evidence
      /\ delivery.version = handoff.version => delivery.state = handoff.state
  BY <1>1, RowOfDelivery DEF DeliveryOK
<1>3. PICK e \in Evidence : e = delivery.evidence
  BY <1>2
<1>4. PICK next \in Verdicts : next = IF e.verdict = "pending" THEN delivery.state ELSE e.verdict
  BY <1>2, <1>3, PaymentAssumption DEF Delivery
<1>5. PICK version, browser :
        /\ version = delivery.version /\ browser = delivery.browser
        /\ browser \in BrowserStates
  BY <1>2 DEF Delivery
<1>6. /\ handoff \in Handoff /\ log \in Seq(Entries) /\ LogInv /\ PaymentTypeOK
      /\ deliveries \in [Deliveries -> Delivery]
  BY DEF PaymentInv, PaymentTypeOK
<1>7. CASE /\ RecordEvent(e, version, browser, next)
           /\ IF e.source = "provider_webhook" /\ delivery.seen # "processed"
              THEN deliveries' = [deliveries EXCEPT ![d].phase = "recorded"]
              ELSE Stopped(d)
  <2>1. e \in Entries /\ e.source # "browser"
    BY PaymentAssumption DEF Entries
  <2>2. next = IF e.verdict = "pending" THEN handoff.state ELSE e.verdict
    BY <1>2, <1>4, <1>5, <1>7 DEF RecordEvent, RecordRaises
  <2>3. UNCHANGED events
    BY <1>1 DEF inboxVars
  <2>4. /\ handoff' \in Handoff /\ log' \in Seq(Entries) /\ LogInv'
        /\ handoff'.exists
        /\ \A source, id : Recorded(source, id) => Recorded(source, id)'
        /\ Recorded(e.source, e.id)'
        /\ \/ handoff'.version > handoff.version
           \/ handoff'.version = handoff.version /\ handoff'.state = handoff.state
    BY <1>2, <1>5, <1>6, <1>7, <2>1, <2>2, <2>3, RecordKeeps
  <2>5. Grows
    BY <1>1, <2>4 DEF Grows, creationVars
  <2>6. CASE /\ e.source = "provider_webhook"
             /\ deliveries' = [deliveries EXCEPT ![d].phase = "recorded"]
    <3>1. PICK row : row = [delivery EXCEPT !.phase = "recorded"]
      OBVIOUS
    <3>2. /\ row \in Delivery /\ row.phase = "recorded" /\ row.evidence = e
          /\ row.version = delivery.version /\ row.state = delivery.state
      BY <1>2, <1>3, <3>1 DEF Delivery
    <3>3. deliveries' = [deliveries EXCEPT ![d] = row]
      BY <1>6, <2>6, <3>1
    <3>4. DeliveryOK(d)
      BY RowOfDelivery
    <3>5. /\ row.version <= handoff'.version
          /\ row.version = handoff'.version => row.state = handoff'.state
      <4>1. row.version \in Nat /\ handoff.version \in Nat /\ handoff'.version \in Nat
        <5>1. row.version \in Versions \cup {0} /\ handoff.version \in Versions
              /\ handoff'.version \in Versions
          BY <1>6, <2>4, <3>2 DEF Delivery, Handoff
        <5> QED BY <5>1, VersionsAreNaturals
      <4> QED BY <1>1, <2>4, <3>2, <3>4, <4>1 DEF DeliveryOK
    <3> QED BY <1>1, <1>2, <2>4, <2>5, <2>6, <3>2, <3>3, <3>5, InboxStays, DeliveryStepKeeps
  <2>7. CASE Stopped(d)
    BY <1>1, <1>2, <2>4, <2>5, <2>7, InboxStays, NoDeliveryType, DeliveryStepKeeps DEF Stopped
  <2> QED BY <1>7, <2>6, <2>7
<1>8. CASE Stopped(d) /\ UNCHANGED <<log, handoff>>
  BY <1>1, <1>8, NoDeliveryType, DeliveryMoves DEF Stopped
<1> QED BY <1>3, <1>4, <1>5, <1>7, <1>8 DEF DeliveryRecord

LEMMA DeliveryMarkKeeps ==
  ASSUME PaymentInv, NEW d \in Deliveries, DeliveryMark(d)
  PROVE  PaymentInv'
<1>1. PICK i \in Ids : i = deliveries[d].evidence.id
  BY RowOfDelivery DEF DeliveryMark
<1>2. /\ Inbox!Mark(i, "processed") \/ UNCHANGED inboxVars
      /\ deliveries' = [deliveries EXCEPT ![d] = NoDelivery]
      /\ UNCHANGED <<now, creationVars, handoff, log, links, visits>>
  BY <1>1 DEF DeliveryMark, Stopped
<1>3. Recorded("provider_webhook", i)
  BY <1>1, RowOfDelivery DEF DeliveryMark, DeliveryOK
<1>4. CASE UNCHANGED inboxVars
  BY <1>2, <1>4, NoDeliveryType, DeliveryMoves
<1>5. CASE Inbox!Mark(i, "processed")
  <2>1. /\ events[i].state = "received" /\ UNCHANGED grants
        /\ events' = [events EXCEPT ![i].state = "processed"]
    BY <1>5 DEF Inbox!Mark
  <2>2. Inbox!EventTypeOK /\ InboxOK /\ events \in [Ids -> Inbox!Event]
    BY DEF PaymentInv, PaymentTypeOK, Inbox!EventTypeOK
  <2>3. "processed" \in Inbox!EventStates
    BY DEF Inbox!EventStates, Inbox!Terminal
  <2>4. /\ events' \in [Ids -> Inbox!Event]
        /\ events'[i].state = "processed" /\ events'[i].token = events[i].token
        /\ \A j \in Ids : j # i => events'[j] = events[j]
    BY <2>1, <2>2, <2>3 DEF Inbox!Event
  <2>5. Inbox!EventTypeOK'
    BY <2>1, <2>2, <2>4 DEF Inbox!EventTypeOK
  <2>6. InboxOK'
    BY <2>2, <2>4 DEF InboxOK
  <2>7. LogInv /\ handoff \in Handoff /\ log \in Seq(Entries)
    BY DEF PaymentInv, PaymentTypeOK
  <2>8. LogInv' /\ handoff' \in Handoff /\ log' \in Seq(Entries)
    <3>1. ProcessedIsRecorded'
      BY <1>2, <1>3, <2>4, <2>7 DEF LogInv, ProcessedIsRecorded, Recorded, Ids
    <3>2. HandoffOK' /\ StateOK' /\ LaunchFirst' /\ EventsAppliedOnce'
      BY <1>2, <2>7 DEF LogInv, HandoffOK, StateOK, Conclusive, LaunchFirst, EventsAppliedOnce
    <3> QED BY <1>2, <2>7, <3>1, <3>2 DEF LogInv
  <2>9. Grows
    BY <1>2, RecordsStay DEF Grows, creationVars
  <2> QED BY <1>2, <2>5, <2>6, <2>8, <2>9, NoDeliveryType, DeliveryStepKeeps
<1> QED BY <1>2, <1>4, <1>5

-----------------------------------------------------------------------------
(* The payment.                                                            *)

LEMMA PaymentStarts == PaymentInit => PaymentInv
<1> SUFFICES ASSUME PaymentInit
             PROVE  PaymentInv
  OBVIOUS
<1> USE DEF PaymentInit
<1>1. OpTypeOK
  <2>1. 0 \in ClaimLeases /\ "absent" \in OpStates
    BY OperationsAssumption DEF ClaimLeases, OpStates
  <2>2. NoOp \in Operation
    BY <2>1 DEF NoOp, Operation
  <2> QED BY <2>2 DEF OpInit, OpTypeOK
<1>2. Inbox!EventTypeOK /\ InboxOK
  <2>1. /\ 0 \in Inbox!EventLeases /\ 0 \in Inbox!EventDelays
        /\ 0 \in Inbox!EventAttemptCounts /\ "absent" \in Inbox!EventStates
    BY DEF Inbox!EventLeases, Inbox!EventDelays, Inbox!EventAttemptCounts, Inbox!EventStates
  <2>2. /\ Inbox!NoEvent \in Inbox!Event /\ Inbox!NoEvent.state = "absent"
        /\ Inbox!NoEvent.token = Nil
    BY <2>1 DEF Inbox!NoEvent, Inbox!Event
  <2>3. events = [i \in Ids |-> Inbox!NoEvent] /\ grants = {}
    BY DEF Inbox!EventInit
  <2> HIDE DEF PaymentInit
  <2> QED BY <2>2, <2>3 DEF Inbox!EventTypeOK, InboxOK
<1>3. now \in 0 .. MaxTime /\ hosted \in BOOLEAN /\ log \in Seq(Entries)
  <2>1. <<>> \in Seq(Entries)
    OBVIOUS
  <2>2. now \in 0 .. MaxTime
    BY PaymentAssumption
  <2>3. hosted \in BOOLEAN /\ log = <<>>
    OBVIOUS
  <2> QED BY <2>1, <2>2, <2>3
<1>4. creating \in [Creates -> Creation] /\ \A c \in Creates : CreateOK(c)
  <2>1. NoCreate \in Creation
    BY PaymentAssumption DEF NoCreate, Creation, CreatePhases, OpStates
  <2> QED BY <2>1 DEF CreateOK, NoCreate, Kinds
<1>5. handoff \in Handoff
  <2>1. 1 \in Versions /\ 0 \in 0 .. MaxTime + LinkTime
    BY VersionsAreNaturals, PaymentAssumption
  <2> QED BY <2>1 DEF NoHandoff, Handoff, BrowserStates, Verdicts
<1>6. links \in [Kinds -> Link]
  BY PaymentAssumption DEF NoLink, Link
<1>7. visits \in [Visits -> Visit] /\ \A v \in Visits : VisitOK(v)
  BY DEF NoVisit, Visit, Verdicts, VisitOK
<1>8. deliveries \in [Deliveries -> Delivery] /\ \A d \in Deliveries : DeliveryOK(d)
  BY NoDeliveryType DEF DeliveryOK
<1>9. LogInv
  <2>1. DOMAIN log = {} /\ Len(log) = 0
    OBVIOUS
  <2>2. Conclusive = {} /\ handoff.state = "pending" /\ handoff.version = 1
    BY <2>1 DEF Conclusive, NoHandoff
  <2>3. ProcessedIsRecorded
    BY DEF ProcessedIsRecorded, Ids, Inbox!EventInit, Inbox!NoEvent
  <2> QED BY <2>1, <2>2, <2>3 DEF LogInv, HandoffOK, StateOK, LaunchFirst, EventsAppliedOnce
<1>10. BackedOK
  BY DEF BackedOK, NoHandoff, NoLink
<1> QED BY <1>1, <1>2, <1>3, <1>4, <1>5, <1>6, <1>7, <1>8, <1>9, <1>10
        DEF PaymentInv, PaymentTypeOK

LEMMA PaymentStutters == PaymentInv /\ UNCHANGED paymentVars => PaymentInv'
<1> SUFFICES ASSUME PaymentInv, UNCHANGED paymentVars
             PROVE  PaymentInv'
  OBVIOUS
<1>1. UNCHANGED <<now, creationVars, handoff, log, links, visits, deliveries, inboxVars>>
  BY DEF paymentVars, creationVars, inboxVars
<1>2. Grows
  BY <1>1, RecordsStay DEF Grows, creationVars
<1>3. LogInv'
  BY <1>1, LogStays DEF PaymentInv, inboxVars
<1>4. /\ now' \in 0 .. MaxTime /\ handoff' \in Handoff /\ log' \in Seq(Entries)
      /\ links' \in [Kinds -> Link] /\ visits' \in [Visits -> Visit]
      /\ deliveries' \in [Deliveries -> Delivery]
  BY <1>1 DEF PaymentInv, PaymentTypeOK
<1>5. \A k \in Kinds : links'[k].state # "none" => handoff'.exists
  BY <1>1 DEF PaymentInv, BackedOK
<1>6. \A v \in Visits : VisitOK(v)'
  BY <1>1, <1>2, VisitsStay DEF PaymentInv
<1>7. \A d \in Deliveries : DeliveryOK(d)'
  BY <1>1, <1>2, <1>4, DeliveryStays DEF PaymentInv
<1> QED BY <1>1, <1>2, <1>3, <1>4, <1>5, <1>6, <1>7, InboxStays, LaterStepKeeps

LEMMA PaymentStepKeeps == PaymentInv /\ [PaymentNext]_paymentVars => PaymentInv'
<1> SUFFICES ASSUME PaymentInv, [PaymentNext]_paymentVars
             PROVE  PaymentInv'
  OBVIOUS
<1>1. ASSUME NEW c \in Creates, Create(c) \/ CreateDies(c)
      PROVE  PaymentInv'
  BY <1>1, CreateReserveKeeps, CreateBeginKeeps, CreateCallKeeps, CreateSettleKeeps,
     CreateHandoffKeeps, CreateLinkKeeps, CreateDiesKeeps DEF Create
<1>2. ASSUME NEW v \in Visits,
             (\E kind \in Kinds : VisitConsume(v, kind)) \/ VisitLoad(v) \/ VisitRecord(v)
      PROVE  PaymentInv'
  BY <1>2, VisitConsumeKeeps, VisitLoadKeeps, VisitRecordKeeps
<1>3. ASSUME NEW d \in Deliveries,
             (\E e \in Evidence : DeliveryFind(d, e)) \/ Deliver(d) \/ DeliveryDies(d)
      PROVE  PaymentInv'
  BY <1>3, DeliveryFindKeeps, DeliveryInboxKeeps, DeliveryRecordKeeps, DeliveryMarkKeeps,
     DeliveryDiesKeeps DEF Deliver
<1> QED BY <1>1, <1>2, <1>3, TimePassesKeeps, PaymentStutters DEF PaymentNext

\* What every request has read is true when it writes, or it does not write.
THEOREM PaymentAlwaysOK == PaymentSpec => []PaymentInv
<1> QED BY PaymentStarts, PaymentStepKeeps, PTL DEF PaymentSpec

\* The official state of a payment is that of conclusive evidence on record, and of the
\* newest while evidence comes in the order of its revisions, for any number of
\* deliveries, visits and kills: no write of a state that was read before an await
\* undoes what was recorded in between.
THEOREM AuthorityIsEvidence == PaymentSpec => []AuthorityFollowsEvidence
<1>1. PaymentInv => AuthorityFollowsEvidence
  <2> SUFFICES ASSUME PaymentInv
               PROVE  AuthorityFollowsEvidence
    OBVIOUS
  <2>1. StateOK /\ log \in Seq(Entries)
    BY DEF PaymentInv, LogInv, PaymentTypeOK
  <2>2. CASE Conclusive = {}
    BY <2>1, <2>2 DEF AuthorityFollowsEvidence, StateOK, NewestDecides
  <2>3. CASE Conclusive # {}
    <3>1. PICK n \in Conclusive :
            handoff.state = log[n].verdict /\ \A m \in Conclusive : m <= n
      BY <2>1, <2>3 DEF StateOK
    <3>2. \A m \in Conclusive : m \in Nat /\ log[m] \in Entries
      BY <2>1, LenProperties DEF Conclusive
    <3>3. \A m \in Conclusive : log[m].revision \in Nat
      BY <3>2, PaymentAssumption DEF Entries, BrowserEvent
    <3>4. ASSUME InOrder, NEW m \in Conclusive
          PROVE  log[m].revision <= log[n].revision
      <4>1. m = n \/ m < n
        BY <3>1, <3>2
      <4> QED BY <3>3, <3>4, <4>1 DEF InOrder
    <3> QED BY <2>3, <3>1, <3>4 DEF AuthorityFollowsEvidence, NewestDecides
  <2> QED BY <2>2, <2>3
<1> QED BY <1>1, PaymentAlwaysOK, PTL

\* Each event is recorded once and moves the row on once, it is recorded before the
\* inbox says it was processed, and the one launch is recorded before any verdict.
THEOREM RecordsAreSound == PaymentSpec => []RecordsInvariant
<1>1. PaymentInv => RecordsInvariant
  <2> SUFFICES ASSUME PaymentInv
               PROVE  LaunchPrecedesVerdict
    BY DEF PaymentInv, LogInv, RecordsInvariant
  <2>1. LaunchFirst /\ \A v \in Visits : VisitOK(v)
    BY DEF PaymentInv, LogInv
  <2>2. ASSUME NEW u \in Visits, NEW v \in Visits,
               visits[u].kind = "launch" /\ visits[u].phase = "answered"
        PROVE  /\ Recorded("browser", "launch")
               /\ visits[v].kind = "launch" /\ visits[v].phase = "answered" => u = v
    BY <2>1, <2>2 DEF VisitOK
  <2> QED BY <2>1, <2>2 DEF LaunchPrecedesVerdict, LaunchFirst
<1> QED BY <1>1, PaymentAlwaysOK, PTL

\* A handoff and its links rest on a session that the provider has and on an
\* operation that succeeded, whichever requests for it raced, failed or died.
THEOREM HandoffsAreBacked == PaymentSpec => []HandoffIsBacked
<1>1. PaymentInv => HandoffIsBacked
  <2> SUFFICES ASSUME PaymentInv
               PROVE  HandoffIsBacked
    OBVIOUS
  <2>1. BackedOK /\ \A c \in Creates : CreateOK(c)
    BY DEF PaymentInv
  <2>2. ASSUME NEW c \in Creates, creating[c].phase = "done", NEW k \in Kinds
        PROVE  links[k].state # "none"
    BY <2>1, <2>2 DEF CreateOK, Kinds
  <2> QED BY <2>1, <2>2 DEF HandoffIsBacked, BackedOK, Offered
<1> QED BY <1>1, PaymentAlwaysOK, PTL

\* The payment uses the operations ledger only as its functions allow: the create
\* requests implement its specification, so what is proved of every caller
\* of the ledger holds of them.
THEOREM PaymentKeepsTheLedger == PaymentSpec => OpSpec
<1>1. PaymentInit => OpInit
  BY DEF PaymentInit
<1>2. PaymentInv /\ [PaymentNext]_paymentVars => [OpNext]_opVars
  <2> SUFFICES ASSUME PaymentInv, [PaymentNext]_paymentVars
               PROVE  OpNext \/ UNCHANGED opVars
    BY DEF opVars
  <2>1. Op \in Ops
    BY PaymentAssumption DEF Op
  <2>2. ASSUME NEW s \in Proven \cup {"in_flight", "failed_unknown"}, FinishCreation(s)
        PROVE  OpNext \/ UNCHANGED opVars
    BY <2>1, <2>2 DEF FinishCreation, OpNext, opVars
  <2>3. ASSUME NEW c \in Creates, Create(c) \/ CreateDies(c)
        PROVE  OpNext \/ UNCHANGED opVars
    <3>1. CASE CreateReserve(c)
      <4>1. now \in Hashes
        BY PaymentAssumption DEF PaymentInv, PaymentTypeOK
      <4> QED BY <2>1, <3>1, <4>1 DEF CreateReserve, OpNext, opVars
    <3>2. CASE CreateBegin(c)
      BY <2>2, <3>2 DEF CreateBegin, opVars
    <3>3. CASE CreateSettle(c)
      <4>1. creating[c].outcome \in Proven \cup {"failed_unknown"}
        BY <3>3, RowOfCreate DEF CreateSettle, CreateOK, Creation
      <4> QED BY <2>2, <3>3, <4>1 DEF CreateSettle, opVars
    <3>4. CASE CreateCall(c) \/ CreateHandoff(c) \/ CreateLink(c) \/ CreateDies(c)
      BY <3>4 DEF CreateCall, CreateHandoff, CreateLink, CreateDies, opVars
    <3> QED BY <2>3, <3>1, <3>2, <3>3, <3>4 DEF Create
  <2>4. CASE UNCHANGED <<ops, granted>>
    BY <2>4 DEF opVars
  <2>5. ASSUME NEW v \in Visits,
               (\E kind \in Kinds : VisitConsume(v, kind)) \/ VisitLoad(v) \/ VisitRecord(v)
        PROVE  UNCHANGED <<ops, granted>>
    BY <2>5 DEF VisitConsume, VisitLoad, VisitRecord, creationVars
  <2>6. ASSUME NEW d \in Deliveries,
               (\E e \in Evidence : DeliveryFind(d, e)) \/ Deliver(d) \/ DeliveryDies(d)
        PROVE  UNCHANGED <<ops, granted>>
    BY <2>6 DEF DeliveryFind, Deliver, DeliveryInbox, DeliveryRecord, DeliveryMark,
                DeliveryDies, creationVars
  <2>7. CASE TimePasses
    BY <2>4, <2>7 DEF TimePasses, creationVars
  <2>8. CASE UNCHANGED paymentVars
    BY <2>4, <2>8 DEF paymentVars
  <2> QED BY <2>3, <2>4, <2>5, <2>6, <2>7, <2>8 DEF PaymentNext
<1> QED BY <1>1, <1>2, PaymentAlwaysOK, PTL DEF PaymentSpec, OpSpec

\* The deliveries use the event inbox only as its functions allow, so that what is
\* proved of every caller of the inbox holds of them.
THEOREM PaymentKeepsTheInbox == PaymentSpec => Inbox!EventSpec
<1>1. PaymentInit => Inbox!EventInit
  BY DEF PaymentInit
<1>2. PaymentInv /\ [PaymentNext]_paymentVars => [Inbox!EventNext]_(Inbox!eventVars)
  <2> SUFFICES ASSUME PaymentInv, [PaymentNext]_paymentVars
               PROVE  Inbox!EventNext \/ UNCHANGED inboxVars
    BY DEF inboxVars, Inbox!eventVars
  <2>1. ASSUME NEW c \in Creates, Create(c) \/ CreateDies(c)
        PROVE  UNCHANGED inboxVars
    BY <2>1 DEF Create, CreateReserve, CreateBegin, CreateCall, CreateSettle, CreateHandoff,
                CreateLink, CreateDies
  <2>2. ASSUME NEW v \in Visits,
               (\E kind \in Kinds : VisitConsume(v, kind)) \/ VisitLoad(v) \/ VisitRecord(v)
        PROVE  UNCHANGED inboxVars
    BY <2>2 DEF VisitConsume, VisitLoad, VisitRecord
  <2>3. ASSUME NEW d \in Deliveries,
               (\E e \in Evidence : DeliveryFind(d, e)) \/ Deliver(d) \/ DeliveryDies(d)
        PROVE  Inbox!EventNext \/ UNCHANGED inboxVars
    <3>1. CASE DeliveryInbox(d)
      <4>1. deliveries[d].evidence.id \in Ids
        BY <3>1, RowOfDelivery DEF DeliveryInbox
      <4> QED BY <3>1, <4>1 DEF DeliveryInbox, Inbox!EventNext
    <3>2. CASE DeliveryMark(d)
      <4>1. deliveries[d].evidence.id \in Ids
        BY <3>2, RowOfDelivery DEF DeliveryMark
      <4> QED BY <3>2, <4>1 DEF DeliveryMark, Inbox!EventNext
    <3>3. CASE (\E e \in Evidence : DeliveryFind(d, e)) \/ DeliveryRecord(d) \/ DeliveryDies(d)
      BY <3>3 DEF DeliveryFind, DeliveryRecord, DeliveryDies
    <3> QED BY <2>3, <3>1, <3>2, <3>3 DEF Deliver
  <2>4. CASE TimePasses
    BY <2>4 DEF TimePasses
  <2>5. CASE UNCHANGED paymentVars
    BY <2>5 DEF paymentVars, inboxVars
  <2> QED BY <2>1, <2>2, <2>3, <2>4, <2>5 DEF PaymentNext
<1> QED BY <1>1, <1>2, PaymentAlwaysOK, PTL DEF PaymentSpec, Inbox!EventSpec
=============================================================================
