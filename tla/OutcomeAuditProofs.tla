------------------------- MODULE OutcomeAuditProofs ------------------------
(***************************************************************************)
(* The two components that keep evidence.  The outcome kernel, for any     *)
(* number of cases, sources, versions and rows: a case has one current     *)
(* decision per source, and the events of its outcome are one chain of     *)
(* evidence that never gets older.  The audit chain, for any number of     *)
(* events and archives: a production tenant's chain is complete and in     *)
(* order, and its verified archives cover it without a gap.                *)
(***************************************************************************)
EXTENDS OutcomeKernel, AuditChain, SubsequencesProofs

-----------------------------------------------------------------------------
(* The outcome kernel.                                                     *)

\* What an insert leaves of the rows.
LEMMA Inserted ==
  ASSUME NEW S, NEW list \in Seq(S), NEW new \in S, NEW after, after = Append(list, new)
  PROVE  /\ after \in Seq(S) /\ Len(list) \in Nat /\ Len(after) = Len(list) + 1
         /\ DOMAIN list = 1 .. Len(list) /\ DOMAIN after = 1 .. Len(list) + 1
         /\ \A n \in DOMAIN list : after[n] = list[n] /\ list[n] \in S
         /\ after[Len(list) + 1] = new
<1>1. Len(list) \in Nat /\ DOMAIN list = 1 .. Len(list) /\ \A n \in 1 .. Len(list) : list[n] \in S
  BY LenProperties, ElementOfSeq
<1>2. /\ after \in Seq(S) /\ Len(after) = Len(list) + 1
      /\ \A n \in 1 .. Len(list) : after[n] = list[n]
      /\ after[Len(list) + 1] = new
  BY AppendProperties
<1>3. DOMAIN after = 1 .. Len(list) + 1
  BY <1>2, LenProperties
<1> QED BY <1>1, <1>2, <1>3

-----------------------------------------------------------------------------
(* The inductive invariant: rows refer to earlier rows, and what the        *)
(* properties say, in the form that a step preserves.                       *)

RowsRefer ==
  /\ \A n \in DOMAIN decisions :
       /\ decisions[n].record \in DOMAIN snapshots
       /\ decisions[n].supersedes < n
  /\ \A n \in DOMAIN verdicts : verdicts[n].record \in DOMAIN snapshots

OneCurrent ==
  \A c \in Subjects, s \in Sources : \A m, n \in CurrentDecisions(c, s) : m = n

EditionsApart ==
  \A d, e \in Registered : d # e => ~Overlap(editions[d], editions[e])

Own(c) == {n \in DOMAIN verdicts : verdicts[n].subject = c}
At(n) == snapshots[verdicts[n].record].at

ChainOK(c) ==
  /\ projected[c] # 0 => projected[c] \in Own(c)
  /\ \A n \in Own(c) : n <= projected[c]
  /\ \A n \in Own(c) : verdicts[n].supersedes \in Own(c) \cup {0}
  /\ \A m, n \in Own(c) : m < n => m <= verdicts[n].supersedes /\ At(m) <= At(n)
  /\ \A n \in Own(c) : verdicts[n].kind = "reversed" =>
       \E m \in Own(c) :
         verdicts[n].supersedes = m /\ verdicts[m].kind = "verified" /\ At(m) < At(n)

OfTheCase(c) ==
  projected[c] # 0 =>
    /\ SameParcel(c, Projected(c).record)
    /\ \E n \in DOMAIN decisions :
         decisions[n].subject = c /\ decisions[n].record = Projected(c).record /\ Accepts(n)

KernelInv ==
  /\ OutcomeTypeOK /\ RowsRefer /\ OneCurrent /\ EditionsApart
  /\ \A c \in Subjects : ChainOK(c) /\ OfTheCase(c)

LEMMA RowForms ==
  ASSUME OutcomeTypeOK
  PROVE  /\ DOMAIN snapshots = 1 .. Len(snapshots) /\ Len(snapshots) \in Nat
         /\ DOMAIN decisions = 1 .. Len(decisions) /\ Len(decisions) \in Nat
         /\ DOMAIN verdicts = 1 .. Len(verdicts) /\ Len(verdicts) \in Nat
         /\ \A n \in DOMAIN snapshots : snapshots[n] \in Snapshot /\ snapshots[n].at \in Nat
         /\ \A n \in DOMAIN decisions : decisions[n] \in Decision
         /\ \A n \in DOMAIN verdicts : verdicts[n] \in Verdict
<1>1. snapshots \in Seq(Snapshot) /\ decisions \in Seq(Decision) /\ verdicts \in Seq(Verdict)
  BY DEF OutcomeTypeOK
<1>2. /\ DOMAIN snapshots = 1 .. Len(snapshots) /\ Len(snapshots) \in Nat
      /\ DOMAIN decisions = 1 .. Len(decisions) /\ Len(decisions) \in Nat
      /\ DOMAIN verdicts = 1 .. Len(verdicts) /\ Len(verdicts) \in Nat
  BY <1>1, LenProperties
<1>3. /\ \A n \in 1 .. Len(snapshots) : snapshots[n] \in Snapshot
      /\ \A n \in 1 .. Len(decisions) : decisions[n] \in Decision
      /\ \A n \in 1 .. Len(verdicts) : verdicts[n] \in Verdict
  BY <1>1, ElementOfSeq
<1>4. \A row \in Snapshot : row.at \in Nat
  BY OutcomeAssumption DEF Snapshot, Times
<1> QED BY <1>2, <1>3, <1>4

LEMMA KernelInvImplies == KernelInv => OutcomeInvariant /\ ChainIsSound
<1> SUFFICES ASSUME KernelInv PROVE OutcomeInvariant /\ ChainIsSound
  OBVIOUS
<1>0. OutcomeTypeOK
  BY DEF KernelInv
<1>1. OneCurrentDecision
  <2> SUFFICES ASSUME NEW c \in Subjects, NEW s \in Sources
               PROVE  Cardinality(CurrentDecisions(c, s)) <= 1
    BY DEF OneCurrentDecision
  <2>1. \A m, n \in CurrentDecisions(c, s) : m = n
    BY DEF KernelInv, OneCurrent
  <2>2. CASE CurrentDecisions(c, s) = {}
    BY <2>2, FS_EmptySet
  <2>3. CASE CurrentDecisions(c, s) # {}
    <3>1. PICK m : CurrentDecisions(c, s) = {m}
      BY <2>1, <2>3
    <3> QED BY <3>1, FS_Singleton
  <2> QED BY <2>2, <2>3
<1>2. OneEditionInForce
  <2> SUFFICES ASSUME NEW d \in Registered, NEW e \in Registered, NEW t \in Times,
                      t \in editions[d].from .. editions[d].to - 1,
                      t \in editions[e].from .. editions[e].to - 1
               PROVE  d = e
    BY DEF OneEditionInForce
  <2>1. editions[d] \in Terms /\ editions[e] \in Terms
    BY <1>0 DEF Registered, OutcomeTypeOK
  <2>2. /\ editions[d].from \in Nat /\ editions[d].to \in Nat
        /\ editions[e].from \in Nat /\ editions[e].to \in Nat
    BY <2>1, OutcomeAssumption
  <2>3. Overlap(editions[d], editions[e])
    BY <2>2 DEF Overlap
  <2> QED BY <2>3 DEF KernelInv, EditionsApart
<1>3. ProjectionIsOfTheCase
  BY DEF KernelInv, OfTheCase, ProjectionIsOfTheCase
<1>4. ChainIsSound
  <2>1. \A c \in Subjects : ChainOK(c)
    BY DEF KernelInv
  <2>2. \A c \in Subjects : projected[c] \in Int
    BY <1>0, RowForms DEF OutcomeTypeOK
  <2>3. \A c \in Subjects : \A n \in Own(c) : n \in Int /\ n # 0
    BY <1>0, RowForms DEF Own
  <2> QED BY <2>1, <2>2, <2>3 DEF ChainOK, ChainIsSound, Own, At
<1> QED BY <1>0, <1>1, <1>2, <1>3, <1>4 DEF OutcomeInvariant

LEMMA KernelInitially == OutcomeInit => KernelInv
<1> SUFFICES ASSUME OutcomeInit PROVE KernelInv
  OBVIOUS
<1>1. /\ snapshots \in Seq(Snapshot) /\ decisions \in Seq(Decision) /\ verdicts \in Seq(Verdict)
      /\ Len(snapshots) = 0 /\ Len(decisions) = 0 /\ Len(verdicts) = 0
  BY EmptySeq DEF OutcomeInit
<1>2. OutcomeTypeOK
  BY <1>1, OutcomeAssumption DEF OutcomeInit, OutcomeTypeOK
<1>3. DOMAIN snapshots = {} /\ DOMAIN decisions = {} /\ DOMAIN verdicts = {}
  BY <1>1, <1>2, RowForms
<1>4. \A c \in Subjects, s \in Sources : CurrentDecisions(c, s) = {}
  BY <1>3 DEF CurrentDecisions
<1>5. Registered = {} /\ \A c \in Subjects : projected[c] = 0 /\ Own(c) = {}
  BY <1>3 DEF OutcomeInit, Registered, Own
<1> QED
  BY <1>2, <1>3, <1>4, <1>5 DEF KernelInv, RowsRefer, OneCurrent, EditionsApart, ChainOK, OfTheCase

-----------------------------------------------------------------------------
(* What the parts of the invariant depend on.                               *)

\* Records are never changed, so a step that keeps the decisions keeps which of
\* them are current.
LEMMA CurrentLeftAlone ==
  ASSUME OutcomeTypeOK, RowsRefer, UNCHANGED decisions,
         \A r \in DOMAIN snapshots : snapshots'[r] = snapshots[r],
         NEW c, NEW s
  PROVE  CurrentDecisions(c, s)' = CurrentDecisions(c, s)
<1>1. \A n \in DOMAIN decisions :
        snapshots'[decisions[n].record].source = snapshots[decisions[n].record].source
  BY DEF RowsRefer
<1> QED BY <1>1 DEF CurrentDecisions, Current

LEMMA ChainLeftAlone ==
  ASSUME OutcomeTypeOK, RowsRefer, NEW c \in Subjects, ChainOK(c),
         UNCHANGED <<verdicts, projected>>,
         \A r \in DOMAIN snapshots : snapshots'[r] = snapshots[r]
  PROVE  ChainOK(c)'
<1>1. \A n \in DOMAIN verdicts : At(n)' = At(n)
  BY DEF RowsRefer, At
<1>2. Own(c)' = Own(c) /\ \A n \in Own(c) : n \in DOMAIN verdicts
  BY DEF Own
<1>3. /\ projected'[c] # 0 => projected'[c] \in Own(c)'
      /\ \A n \in Own(c)' : n <= projected'[c]
      /\ \A n \in Own(c)' : verdicts'[n].supersedes \in Own(c)' \cup {0}
  BY <1>2 DEF ChainOK
<1>4. \A m, n \in Own(c)' : m < n => m <= verdicts'[n].supersedes /\ At(m)' <= At(n)'
  BY <1>1, <1>2 DEF ChainOK
<1>5. \A n \in Own(c)' : verdicts'[n].kind = "reversed" =>
        \E m \in Own(c)' :
          verdicts'[n].supersedes = m /\ verdicts'[m].kind = "verified" /\ At(m)' < At(n)'
  BY <1>1, <1>2 DEF ChainOK
<1> QED BY <1>3, <1>4, <1>5 DEF ChainOK

\* A projection stays of its case while its parcel, its record and the decisions do.
LEMMA OfTheCaseLeftAlone ==
  ASSUME OutcomeTypeOK, RowsRefer, NEW c \in Subjects, ChainOK(c), OfTheCase(c),
         UNCHANGED verdicts, projected'[c] = projected[c],
         projected[c] # 0 => parcel'[c] = parcel[c],
         \A r \in DOMAIN snapshots : snapshots'[r] = snapshots[r],
         DOMAIN decisions \subseteq DOMAIN decisions',
         \A n \in DOMAIN decisions : decisions'[n] = decisions[n]
  PROVE  OfTheCase(c)'
<1> SUFFICES ASSUME projected[c] # 0 PROVE OfTheCase(c)'
  BY DEF OfTheCase
<1>1. Projected(c)' = Projected(c) /\ Projected(c).record \in DOMAIN snapshots
  BY DEF Projected, RowsRefer, ChainOK, Own
<1>2. SameParcel(c, Projected(c).record)'
  BY <1>1 DEF OfTheCase, SameParcel
<1>3. PICK n \in DOMAIN decisions :
        decisions[n].subject = c /\ decisions[n].record = Projected(c).record /\ Accepts(n)
  BY DEF OfTheCase
<1>4. n \in DOMAIN decisions' /\ decisions'[n] = decisions[n] /\ Accepts(n)'
  BY <1>3 DEF Accepts
<1> QED BY <1>1, <1>2, <1>3, <1>4 DEF OfTheCase

-----------------------------------------------------------------------------
(* The steps.                                                               *)

LEMMA IngestKeeps ==
  ASSUME KernelInv, NEW snapshot \in Snapshot, Ingest(snapshot)
  PROVE  KernelInv'
<1>0. OutcomeTypeOK /\ RowsRefer
  BY DEF KernelInv
<1>1. snapshots' = Append(snapshots, snapshot) /\ Len(snapshots) < MaxSnapshots
      /\ UNCHANGED <<parcel, editions, decisions, verdicts, projected>>
  BY DEF Ingest
<1>2. /\ snapshots' \in Seq(Snapshot) /\ Len(snapshots') = Len(snapshots) + 1
      /\ Len(snapshots) \in Nat
      /\ DOMAIN snapshots \subseteq DOMAIN snapshots'
      /\ \A r \in DOMAIN snapshots : snapshots'[r] = snapshots[r]
  <2>1. snapshots \in Seq(Snapshot)
    BY <1>0 DEF OutcomeTypeOK
  <2>2. /\ snapshots' \in Seq(Snapshot) /\ Len(snapshots) \in Nat
        /\ Len(snapshots') = Len(snapshots) + 1
        /\ DOMAIN snapshots = 1 .. Len(snapshots) /\ DOMAIN snapshots' = 1 .. Len(snapshots) + 1
        /\ \A n \in DOMAIN snapshots : snapshots'[n] = snapshots[n]
    BY <1>1, <2>1, Inserted
  <2> QED BY <2>2
<1>3. OutcomeTypeOK'
  <2>1. Len(snapshots') <= MaxSnapshots
    BY <1>1, <1>2, OutcomeAssumption
  <2> QED BY <1>0, <1>1, <1>2, <2>1 DEF OutcomeTypeOK
<1>4. RowsRefer'
  BY <1>0, <1>1, <1>2 DEF RowsRefer
<1>5. OneCurrent'
  BY <1>0, <1>1, <1>2, CurrentLeftAlone DEF KernelInv, OneCurrent
<1>6. EditionsApart'
  BY <1>1 DEF KernelInv, EditionsApart, Registered
<1>7. \A c \in Subjects : ChainOK(c)' /\ OfTheCase(c)'
  BY <1>0, <1>1, <1>2, ChainLeftAlone, OfTheCaseLeftAlone DEF KernelInv
<1> QED BY <1>3, <1>4, <1>5, <1>6, <1>7 DEF KernelInv

LEMMA RegisterKeeps ==
  ASSUME KernelInv, NEW e \in Editions, NEW terms \in Terms, Register(e, terms)
  PROVE  KernelInv'
<1>0. OutcomeTypeOK /\ RowsRefer
  BY DEF KernelInv
<1>1. /\ editions' = [editions EXCEPT ![e] = terms] /\ e \notin Registered
      /\ \A d \in Registered : ~Overlap(terms, editions[d])
      /\ UNCHANGED <<parcel, snapshots, decisions, verdicts, projected>>
  BY DEF Register
<1>2. OutcomeTypeOK'
  BY <1>0, <1>1 DEF OutcomeTypeOK
<1>3. RowsRefer'
  BY <1>0, <1>1 DEF RowsRefer
<1>4. OneCurrent'
  BY <1>0, <1>1, CurrentLeftAlone DEF KernelInv, OneCurrent
<1>5. /\ \A d \in Registered' : d = e \/ d \in Registered
      /\ editions'[e] = terms /\ \A d \in Registered : editions'[d] = editions[d]
  BY <1>0, <1>1 DEF OutcomeTypeOK, Registered
<1>6. \A x, y : Overlap(x, y) <=> Overlap(y, x)
  BY DEF Overlap
<1>7. EditionsApart'
  <2> SUFFICES ASSUME NEW d \in Registered', NEW f \in Registered', d # f
               PROVE  ~Overlap(editions'[d], editions'[f])
    BY DEF EditionsApart, Overlap
  <2>1. CASE d = e
    BY <1>1, <1>5, <2>1
  <2>2. CASE f = e
    BY <1>1, <1>5, <1>6, <2>2
  <2>3. CASE d \in Registered /\ f \in Registered
    BY <1>5, <2>3 DEF KernelInv, EditionsApart
  <2> QED BY <1>5, <2>1, <2>2, <2>3
<1>8. \A c \in Subjects : ChainOK(c)' /\ OfTheCase(c)'
  BY <1>0, <1>1, ChainLeftAlone, OfTheCaseLeftAlone DEF KernelInv
<1> QED BY <1>2, <1>3, <1>4, <1>7, <1>8 DEF KernelInv

LEMMA SetParcelKeeps ==
  ASSUME KernelInv, NEW c \in Subjects, NEW p \in Parcels \cup {Missing}, SetParcel(c, p)
  PROVE  KernelInv'
<1>0. OutcomeTypeOK /\ RowsRefer
  BY DEF KernelInv
<1>1. /\ projected[c] = 0 /\ parcel' = [parcel EXCEPT ![c] = p]
      /\ UNCHANGED <<snapshots, editions, decisions, verdicts, projected>>
  BY DEF SetParcel
<1>2. OutcomeTypeOK'
  BY <1>0, <1>1 DEF OutcomeTypeOK
<1>3. RowsRefer' /\ EditionsApart'
  BY <1>0, <1>1 DEF KernelInv, RowsRefer, EditionsApart, Registered
<1>4. OneCurrent'
  BY <1>0, <1>1, CurrentLeftAlone DEF KernelInv, OneCurrent
<1>5. \A d \in Subjects : projected[d] # 0 => parcel'[d] = parcel[d]
  BY <1>0, <1>1 DEF OutcomeTypeOK
<1>6. \A d \in Subjects : ChainOK(d)' /\ OfTheCase(d)'
  BY <1>0, <1>1, <1>5, ChainLeftAlone, OfTheCaseLeftAlone DEF KernelInv
<1> QED BY <1>2, <1>3, <1>4, <1>6 DEF KernelInv

\* A decision takes the place of the one it supersedes, and of no other.
LEMMA RecordMatchKeeps ==
  ASSUME KernelInv, NEW c \in Subjects, NEW r \in DOMAIN snapshots, NEW d \in Decisions,
         NEW old \in 0 .. Len(decisions), RecordMatch(c, r, d, old)
  PROVE  KernelInv'
<1> DEFINE row == [subject |-> c, record |-> r, decision |-> d, supersedes |-> old]
           k == Len(decisions) + 1
           source == snapshots[r].source
<1>0. OutcomeTypeOK /\ RowsRefer
  BY DEF KernelInv
<1>1. /\ decisions' = Append(decisions, row) /\ Len(decisions) < MaxDecisions
      /\ MaySupersede(c, r, old)
      /\ UNCHANGED <<parcel, snapshots, editions, verdicts, projected>>
  BY DEF RecordMatch
<1>2. row \in Decision /\ row.subject = c /\ row.record = r /\ row.supersedes = old
  <2>1. r \in 1 .. MaxSnapshots
    BY <1>0, RowForms, OutcomeAssumption DEF OutcomeTypeOK
  <2>2. old \in 0 .. MaxDecisions
    BY <1>0, RowForms, OutcomeAssumption DEF OutcomeTypeOK
  <2> QED BY <2>1, <2>2 DEF Decision
<1> HIDE DEF row
<1>3. /\ decisions' \in Seq(Decision) /\ Len(decisions) \in Nat /\ Len(decisions') = k
      /\ DOMAIN decisions = 1 .. Len(decisions) /\ DOMAIN decisions' = 1 .. k
      /\ \A n \in DOMAIN decisions : decisions'[n] = decisions[n]
      /\ decisions'[k] = row
  <2>1. decisions \in Seq(Decision)
    BY <1>0 DEF OutcomeTypeOK
  <2> QED BY <1>1, <1>2, <2>1, Inserted
<1>4. OutcomeTypeOK'
  <2>1. Len(decisions') <= MaxDecisions
    BY <1>1, <1>3, OutcomeAssumption
  <2> QED BY <1>0, <1>1, <1>3, <2>1 DEF OutcomeTypeOK
<1>5. RowsRefer'
  BY <1>0, <1>1, <1>2, <1>3 DEF RowsRefer
<1>6. source \in Sources
  BY <1>0, RowForms DEF Snapshot
<1>7. ASSUME NEW b \in Subjects, NEW s \in Sources, NEW n \in CurrentDecisions(b, s)'
      PROVE  \/ n = k /\ b = c /\ s = source
             \/ n \in CurrentDecisions(b, s) /\ n # old
  <2>1. n \in 1 .. k /\ Current(decisions', n) /\ decisions'[n].subject = b
        /\ snapshots[decisions'[n].record].source = s
    BY <1>1, <1>3 DEF CurrentDecisions
  <2>2. CASE n = k
    BY <1>2, <1>3, <2>1, <2>2
  <2>3. CASE n # k
    <3>1. n \in DOMAIN decisions /\ decisions'[n] = decisions[n]
      BY <1>3, <2>1, <2>3
    <3>2. \A m \in DOMAIN decisions : decisions[m].supersedes # n
      BY <1>3, <2>1 DEF Current
    <3>3. n # old
      BY <1>2, <1>3, <2>1 DEF Current
    <3> QED BY <2>1, <3>1, <3>2, <3>3 DEF CurrentDecisions, Current
  <2> QED BY <2>2, <2>3
<1>8. \A n \in CurrentDecisions(c, source) : n = old
  <2>1. CASE old = 0
    BY <1>1, <2>1 DEF MaySupersede
  <2>2. CASE old # 0
    BY <1>1, <1>6, <2>2 DEF MaySupersede, KernelInv, OneCurrent
  <2> QED BY <2>1, <2>2
<1>9. OneCurrent'
  <2> SUFFICES ASSUME NEW b \in Subjects, NEW s \in Sources,
                      NEW m \in CurrentDecisions(b, s)', NEW n \in CurrentDecisions(b, s)'
               PROVE  m = n
    BY DEF OneCurrent
  <2> QED BY <1>7, <1>8 DEF KernelInv, OneCurrent
<1>10. EditionsApart'
  BY <1>1 DEF KernelInv, EditionsApart, Registered
<1>11. \A b \in Subjects : ChainOK(b)' /\ OfTheCase(b)'
  <2>1. DOMAIN decisions \subseteq DOMAIN decisions'
    BY <1>3
  <2>2. /\ \A b \in Subjects : ChainOK(b) /\ OfTheCase(b)
        /\ \A x \in DOMAIN snapshots : snapshots'[x] = snapshots[x]
        /\ \A b \in Subjects : projected'[b] = projected[b] /\ parcel'[b] = parcel[b]
        /\ UNCHANGED <<verdicts, projected>>
    BY <1>1 DEF KernelInv
  <2>3. \A n \in DOMAIN decisions : decisions'[n] = decisions[n]
    BY <1>3
  <2> HIDE DEF k, source
  <2> QED BY <1>0, <2>1, <2>2, <2>3, ChainLeftAlone, OfTheCaseLeftAlone
<1> QED BY <1>4, <1>5, <1>9, <1>10, <1>11 DEF KernelInv

\* A conclusive result rests on an accepted match to the parcel of the case, and on
\* a record no older than that of the projection.
LEMMA ConclusiveForm ==
  ASSUME KernelInv, NEW c \in Subjects, NEW e \in Editions, NEW r \in DOMAIN snapshots,
         Result(c, e, r) \in Conclusive
  PROVE  /\ SameParcel(c, r)
         /\ \E n \in DOMAIN decisions :
              decisions[n].subject = c /\ decisions[n].record = r /\ Accepts(n)
         /\ projected[c] # 0 => snapshots[Projected(c).record].at <= snapshots[r].at
         /\ Result(c, e, r) = "reversed" => Reverses(c, e, r)
<1> DEFINE own == {n \in CurrentDecisions(c, snapshots[r].source) : decisions[n].record = r}
           k == DecisionOn(c, r)
<1>0. OutcomeTypeOK /\ RowsRefer
  BY DEF KernelInv
<1>1. ~Doubtful(c, r) /\ ~Disagrees(c, r) /\ Accepts(k)
      /\ (Result(c, e, r) = "reversed" => Reverses(c, e, r))
  BY DEF Result, Conclusive
<1>2. k # 0 /\ SameParcel(c, r)
  BY <1>1 DEF Accepts, Doubtful
<1>3. k \in own
  <2>1. snapshots[r].source \in Sources
    BY <1>0, RowForms DEF Snapshot
  <2>2. \A m, n \in own : m = n
    BY <2>1 DEF KernelInv, OneCurrent
  <2>3. own # {} /\ k = CHOOSE n \in own : \A m \in own : m <= n
    BY <1>2 DEF DecisionOn
  <2>4. \A n \in own : n \in Int
    BY <1>0, RowForms DEF CurrentDecisions
  <2> HIDE DEF own, k
  <2>5. \E n \in own : \A m \in own : m <= n
    BY <2>2, <2>3, <2>4
  <2> QED BY <2>3, <2>5
<1>4. k \in DOMAIN decisions /\ decisions[k].subject = c /\ decisions[k].record = r
  BY <1>3 DEF CurrentDecisions
<1>5. ASSUME projected[c] # 0
      PROVE  snapshots[Projected(c).record].at <= snapshots[r].at
  <2>1. Projected(c).record \in DOMAIN snapshots
    BY <1>0, <1>5 DEF KernelInv, ChainOK, Own, RowsRefer, Projected
  <2>2. snapshots[Projected(c).record].at \in Nat /\ snapshots[r].at \in Nat
    BY <1>0, <2>1, RowForms
  <2>3. ~(snapshots[r].at < snapshots[Projected(c).record].at)
    BY <1>1, <1>5 DEF Disagrees
  <2> QED BY <2>2, <2>3
<1> QED BY <1>1, <1>2, <1>4, <1>5

\* The event of a conclusive result is the new end of its case's chain, and touches
\* no other case's.
LEMMA ReconcileKeeps ==
  ASSUME KernelInv, NEW c \in Subjects, NEW e \in Editions, NEW r \in DOMAIN snapshots,
         Reconcile(c, e, r)
  PROVE  KernelInv'
<1> DEFINE result == Result(c, e, r)
           row == [subject |-> c, edition |-> e, record |-> r, kind |-> result,
                   supersedes |-> projected[c]]
<1>0. OutcomeTypeOK /\ RowsRefer /\ UNCHANGED <<parcel, snapshots, editions, decisions>>
  BY DEF KernelInv, Reconcile
<1>1. CASE UNCHANGED <<verdicts, projected>>
  <2>1. OutcomeTypeOK' /\ RowsRefer' /\ EditionsApart'
    BY <1>0, <1>1 DEF KernelInv, OutcomeTypeOK, RowsRefer, EditionsApart, Registered
  <2>2. OneCurrent'
    BY <1>0, CurrentLeftAlone DEF KernelInv, OneCurrent
  <2>3. \A b \in Subjects : ChainOK(b)' /\ OfTheCase(b)'
    BY <1>0, <1>1, ChainLeftAlone, OfTheCaseLeftAlone DEF KernelInv
  <2> QED BY <2>1, <2>2, <2>3 DEF KernelInv
<1>2. CASE ~UNCHANGED <<verdicts, projected>>
  <2>0. PICK k, held : k = Len(verdicts) + 1 /\ held = projected[c]
    OBVIOUS
  <2>1. /\ result \in Conclusive /\ Len(verdicts) < MaxVerdicts
        /\ verdicts' = Append(verdicts, row)
        /\ projected' = [projected EXCEPT ![c] = k]
    BY <1>2, <2>0 DEF Reconcile
  <2>2. /\ SameParcel(c, r)
        /\ \E n \in DOMAIN decisions :
             decisions[n].subject = c /\ decisions[n].record = r /\ Accepts(n)
        /\ held # 0 => snapshots[Projected(c).record].at <= snapshots[r].at
        /\ result = "reversed" => Reverses(c, e, r)
    BY <2>0, <2>1, ConclusiveForm
  <2>3. held \in 0 .. Len(verdicts) /\ Len(verdicts) \in Nat /\ r \in 1 .. MaxSnapshots
        /\ snapshots[r].at \in Nat
    BY <1>0, <2>0, RowForms, OutcomeAssumption DEF OutcomeTypeOK
  <2>4. /\ row \in Verdict /\ row.subject = c /\ row.record = r /\ row.kind = result
        /\ row.supersedes = held
    <3>1. held \in 0 .. MaxVerdicts
      BY <2>1, <2>3, OutcomeAssumption
    <3> QED BY <2>0, <2>1, <2>3, <3>1 DEF Verdict
  <2> HIDE DEF row, result
  <2>5. /\ verdicts' \in Seq(Verdict) /\ Len(verdicts') = k
        /\ DOMAIN verdicts = 1 .. Len(verdicts) /\ DOMAIN verdicts' = 1 .. k
        /\ \A n \in DOMAIN verdicts : verdicts'[n] = verdicts[n]
        /\ verdicts'[k] = row
    <3>1. verdicts \in Seq(Verdict)
      BY <1>0 DEF OutcomeTypeOK
    <3> QED BY <2>0, <2>1, <2>4, <3>1, Inserted
  <2>6. /\ projected'[c] = k
        /\ \A b \in Subjects \ {c} : projected'[b] = projected[b]
    BY <1>0, <2>1 DEF OutcomeTypeOK
  <2>7. OutcomeTypeOK'
    <3>1. Len(verdicts') <= MaxVerdicts
      BY <2>0, <2>1, <2>3, <2>5, OutcomeAssumption
    <3>2. projected' \in [Subjects -> 0 .. Len(verdicts')]
      <4>1. \A b \in Subjects : projected[b] \in 0 .. Len(verdicts')
        BY <1>0, <2>0, <2>3, <2>5 DEF OutcomeTypeOK
      <4>2. projected \in [Subjects -> 0 .. Len(verdicts')] /\ k \in 0 .. Len(verdicts')
        BY <1>0, <2>0, <2>3, <2>5, <4>1 DEF OutcomeTypeOK
      <4> QED BY <2>1, <4>2
    <3> QED BY <1>0, <2>5, <3>1, <3>2 DEF OutcomeTypeOK
  <2>8. RowsRefer' /\ EditionsApart'
    <3>1. \A n \in 1 .. k : n \in DOMAIN verdicts \/ n = k
      BY <2>0, <2>3, <2>5
    <3>2. \A n \in DOMAIN verdicts' : verdicts'[n].record \in DOMAIN snapshots'
      BY <1>0, <2>4, <2>5, <3>1 DEF RowsRefer
    <3> QED BY <1>0, <3>2 DEF KernelInv, RowsRefer, EditionsApart, Registered
  <2>9. OneCurrent'
    BY <1>0, CurrentLeftAlone DEF KernelInv, OneCurrent
  <2>10. /\ \A n \in DOMAIN verdicts : At(n)' = At(n) /\ At(n) \in Nat
         /\ At(k)' = snapshots[r].at
    <3>1. ASSUME NEW n \in DOMAIN verdicts
          PROVE  At(n)' = At(n) /\ At(n) \in Nat
      BY <1>0, <2>5, RowForms DEF RowsRefer, At
    <3>2. At(k)' = snapshots[r].at
      BY <1>0, <2>4, <2>5 DEF At
    <3> QED BY <3>1, <3>2
  <2>11. /\ Own(c)' = Own(c) \cup {k} /\ \A b \in Subjects \ {c} : Own(b)' = Own(b)
         /\ \A b \in Subjects : \A n \in Own(b) : n \in DOMAIN verdicts /\ n < k /\ n \in Nat
    <3>1. \A b \in Subjects : \A n \in Own(b) : n \in DOMAIN verdicts /\ n < k /\ n \in Nat
      BY <2>0, <2>3, <2>5 DEF Own
    <3>2. \A n \in 1 .. k : n \in DOMAIN verdicts \/ n = k
      BY <2>0, <2>3, <2>5
    <3>3. k \in DOMAIN verdicts' /\ k \notin DOMAIN verdicts
          /\ \A n \in DOMAIN verdicts : n \in DOMAIN verdicts'
      BY <2>0, <2>3, <2>5
    <3>4. \A b, n : n \in Own(b)' <=> (n \in Own(b) \/ (n = k /\ b = c))
      BY <2>4, <2>5, <3>2, <3>3 DEF Own
    <3> QED BY <3>1, <3>4
  <2>12. ASSUME NEW b \in Subjects \ {c}
         PROVE  ChainOK(b)'
    <3>1. ChainOK(b) /\ Own(b)' = Own(b) /\ projected'[b] = projected[b]
          /\ \A n \in Own(b) : verdicts'[n] = verdicts[n] /\ At(n)' = At(n)
      BY <2>5, <2>6, <2>10, <2>11 DEF KernelInv
    <3> QED BY <3>1 DEF ChainOK
  <2>13. ChainOK(c)'
    <3>1. ChainOK(c)
      BY DEF KernelInv
    <3>2. \A n \in Own(c) : verdicts'[n] = verdicts[n] /\ At(n)' = At(n) /\ At(n) \in Nat
      BY <2>5, <2>10, <2>11
    <3>3. /\ projected'[c] # 0 => projected'[c] \in Own(c)'
          /\ \A n \in Own(c)' : n <= projected'[c]
      BY <2>0, <2>3, <2>6, <2>11
    <3>4. held \in Own(c) \cup {0} /\ \A n \in Own(c) : n <= held
      BY <2>0, <3>1 DEF ChainOK
    <3>5. \A n \in Own(c)' : verdicts'[n].supersedes \in Own(c)' \cup {0}
      BY <2>4, <2>5, <2>11, <3>1, <3>2, <3>4 DEF ChainOK
    <3>6. \A m \in Own(c) : At(m) <= snapshots[r].at
      <4> SUFFICES ASSUME NEW m \in Own(c) PROVE At(m) <= snapshots[r].at
        OBVIOUS
      <4>1. m <= held /\ held \in Own(c)
        BY <2>5, <2>11, <3>4
      <4>2. At(held) <= snapshots[r].at /\ At(held) \in Nat
        BY <2>0, <2>2, <2>5, <2>11, <3>2, <3>4, <4>1 DEF Projected, At
      <4>3. At(m) <= At(held)
        BY <2>11, <3>1, <3>2, <4>1 DEF ChainOK
      <4> QED BY <2>3, <3>2, <4>2, <4>3
    <3>7. ASSUME NEW m \in Own(c)', NEW n \in Own(c)', m < n
          PROVE  m <= verdicts'[n].supersedes /\ At(m)' <= At(n)'
      <4>3. \A x \in Own(c)' : x # k => x \in Own(c)
        BY <2>11
      <4>4. m # k
        BY <2>0, <2>3, <2>11, <3>7
      <4>1. CASE n = k
        <5>1. m \in Own(c)
          BY <3>7, <4>3, <4>4
        <5> QED BY <2>4, <2>5, <2>10, <3>2, <3>4, <3>6, <4>1, <5>1
      <4>2. CASE n # k
        <5>1. m \in Own(c) /\ n \in Own(c)
          BY <3>7, <4>2, <4>3, <4>4
        <5> QED BY <3>1, <3>2, <3>7, <5>1 DEF ChainOK
      <4> QED BY <4>1, <4>2
    <3>8. ASSUME NEW n \in Own(c)', verdicts'[n].kind = "reversed"
          PROVE  \E m \in Own(c)' : /\ verdicts'[n].supersedes = m
                                    /\ verdicts'[m].kind = "verified" /\ At(m)' < At(n)'
      <4>1. CASE n = k
        <5>1. Reverses(c, e, r)
          BY <2>2, <2>4, <2>5, <3>8, <4>1
        <5>2. held # 0 /\ verdicts[held].kind = "verified" /\ At(held) < snapshots[r].at
          <6>1. /\ held # 0 /\ verdicts[held].kind = "verified"
                /\ snapshots[r].at > At(held)
            BY <2>0, <5>1 DEF Reverses, Projected, At
          <6>2. At(held) \in Nat
            BY <3>2, <3>4, <6>1
          <6> QED BY <2>3, <6>1, <6>2
        <5>3. held \in Own(c) /\ held \in Own(c)'
          BY <2>11, <3>4, <5>2
        <5>4. verdicts'[n].supersedes = held /\ verdicts'[held].kind = "verified"
              /\ At(held)' < At(n)'
          BY <2>4, <2>5, <2>10, <3>2, <4>1, <5>2, <5>3
        <5> QED BY <5>3, <5>4
      <4>2. CASE n # k
        <5>1. n \in Own(c) /\ verdicts[n].kind = "reversed"
          BY <2>11, <3>2, <3>8, <4>2
        <5>2. PICK m \in Own(c) :
                verdicts[n].supersedes = m /\ verdicts[m].kind = "verified" /\ At(m) < At(n)
          BY <3>1, <5>1 DEF ChainOK
        <5> QED BY <2>11, <3>2, <5>1, <5>2
      <4> QED BY <4>1, <4>2
    <3> QED BY <3>3, <3>5, <3>7, <3>8 DEF ChainOK
  <2>14. ASSUME NEW b \in Subjects
         PROVE  OfTheCase(b)'
    <3>1. CASE b = c
      <4>1. Projected(c)' = row
        BY <2>5, <2>6 DEF Projected
      <4>2. SameParcel(c, r)' /\ \E n \in DOMAIN decisions' :
              decisions'[n].subject = c /\ decisions'[n].record = r /\ Accepts(n)'
        BY <1>0, <2>2 DEF SameParcel, Accepts
      <4>3. Projected(c)'.record = r
        BY <2>4, <4>1
      <4>4. SameParcel(c, Projected(c).record)'
        BY <4>2, <4>3 DEF SameParcel
      <4> QED BY <3>1, <4>2, <4>3, <4>4 DEF OfTheCase
    <3>2. CASE b # c
      <4> SUFFICES ASSUME projected'[b] # 0 PROVE OfTheCase(b)'
        BY DEF OfTheCase
      <4>1. projected'[b] = projected[b] /\ ChainOK(b) /\ OfTheCase(b)
        BY <2>6, <3>2 DEF KernelInv
      <4>2. projected[b] \in DOMAIN verdicts
        BY <4>1 DEF ChainOK, Own
      <4>3. Projected(b)' = Projected(b)
        BY <2>5, <4>1, <4>2 DEF Projected
      <4>4. SameParcel(b, Projected(b).record)'
        BY <1>0, <4>1, <4>3 DEF OfTheCase, SameParcel
      <4>5. \E n \in DOMAIN decisions' :
              decisions'[n].subject = b /\ decisions'[n].record = Projected(b)'.record /\ Accepts(n)'
        BY <1>0, <4>1, <4>3 DEF OfTheCase, Accepts
      <4> QED BY <4>4, <4>5 DEF OfTheCase
    <3> QED BY <3>1, <3>2
  <2> QED BY <2>7, <2>8, <2>9, <2>12, <2>13, <2>14 DEF KernelInv
<1> QED BY <1>1, <1>2

LEMMA KernelInductive == KernelInv /\ [OutcomeNext]_outcomeVars => KernelInv'
<1> SUFFICES ASSUME KernelInv, [OutcomeNext]_outcomeVars PROVE KernelInv'
  OBVIOUS
<1>1. CASE UNCHANGED outcomeVars
  <2>1. UNCHANGED <<parcel, snapshots, editions, decisions, verdicts, projected>>
    BY <1>1 DEF outcomeVars
  <2>2. OutcomeTypeOK /\ RowsRefer
    BY DEF KernelInv
  <2>3. OutcomeTypeOK' /\ RowsRefer' /\ EditionsApart'
    BY <2>1 DEF KernelInv, OutcomeTypeOK, RowsRefer, EditionsApart, Registered
  <2>4. OneCurrent'
    BY <2>1, <2>2, CurrentLeftAlone DEF KernelInv, OneCurrent
  <2>5. \A b \in Subjects : ChainOK(b)' /\ OfTheCase(b)'
    BY <2>1, <2>2, ChainLeftAlone, OfTheCaseLeftAlone DEF KernelInv
  <2> QED BY <2>3, <2>4, <2>5 DEF KernelInv
<1> QED
  BY <1>1, IngestKeeps, RegisterKeeps, SetParcelKeeps, RecordMatchKeeps, ReconcileKeeps
     DEF OutcomeNext

LEMMA KernelInvAlways == OutcomeSpec => []KernelInv
BY KernelInitially, KernelInductive, PTL DEF OutcomeSpec

-----------------------------------------------------------------------------
\* A case has one current decision per source, no record is under two versions of
\* the definition, and what a case shows is of its own parcel, matched to it.
THEOREM KernelIsSound == OutcomeSpec => []OutcomeInvariant
BY KernelInvAlways, KernelInvImplies, PTL

\* The events of a case are one chain of evidence that never gets older, and each
\* reversal follows a verification by earlier evidence.
THEOREM ChainsAreSound == OutcomeSpec => []ChainIsSound
BY KernelInvAlways, KernelInvImplies, PTL

-----------------------------------------------------------------------------
(* The audit chain.  First, what the two CHOOSEs of the model return.       *)

LEMMA ChainOfForm ==
  ASSUME NEW ids \in SUBSET Int, IsFiniteSet(ids)
  PROVE  /\ ChainOf(ids) \in [1 .. Cardinality(ids) -> ids]
         /\ \A m, n \in 1 .. Cardinality(ids) : m < n => ChainOf(ids)[m] < ChainOf(ids)[n]
<1> DEFINE card == Cardinality(ids)
           sorted == [k \in 1 .. card |-> CHOOSE x \in ids : Rank(ids, x) = k]
<1>1. \A k \in 1 .. card : sorted[k] \in ids /\ Rank(ids, sorted[k]) = k
  BY RankIsBijective
<1>2. ASSUME NEW m \in 1 .. card, NEW n \in 1 .. card, m < n
      PROVE  sorted[m] < sorted[n]
  <2>1. /\ sorted[m] \in ids /\ sorted[n] \in ids
        /\ Rank(ids, sorted[m]) = m /\ Rank(ids, sorted[n]) = n
    BY <1>1
  <2> HIDE DEF sorted
  <2>2. sorted[m] \in Int /\ sorted[n] \in Int
    BY <2>1
  <2>3. sorted[m] # sorted[n]
    BY <1>2, <2>1, RankIsBijective
  <2>4. ~(sorted[n] < sorted[m])
    <3>1. SUFFICES ASSUME sorted[n] < sorted[m] PROVE FALSE
      OBVIOUS
    <3>2. n < m
      BY <2>1, <3>1, RankIsMonotone
    <3> QED BY <1>2, <3>2, RankIsBijective
  <2> QED BY <2>2, <2>3, <2>4
<1>3. sorted \in [1 .. card -> ids]
  BY <1>1
<1>4. DOMAIN sorted = 1 .. card
  OBVIOUS
<1>5. \E chain \in [1 .. card -> ids] :
        \A m, n \in DOMAIN chain : m < n => chain[m] < chain[n]
  <2> HIDE DEF sorted
  <2> QED BY <1>2, <1>3, <1>4
<1>6. /\ ChainOf(ids) \in [1 .. card -> ids]
      /\ \A m, n \in DOMAIN ChainOf(ids) : m < n => ChainOf(ids)[m] < ChainOf(ids)[n]
  <2> HIDE DEF sorted
  <2> QED BY <1>5 DEF ChainOf
<1>7. DOMAIN ChainOf(ids) = 1 .. card
  BY <1>6
<1> QED BY <1>6, <1>7

LEMMA GreatestForm ==
  ASSUME NEW set \in SUBSET Int, IsFiniteSet(set), set # {}
  PROVE  Greatest(set) \in set /\ \A m \in set : m <= Greatest(set)
<1>1. Cardinality(set) \in Nat /\ Cardinality(set) # 0
  BY FS_CardinalityType, FS_EmptySet
<1>2. PICK x \in set : Rank(set, x) = Cardinality(set)
  BY <1>1, RankIsBijective
<1>3. {y \in set : y <= x} = set
  <2>1. {y \in set : y <= x} \in SUBSET set
    OBVIOUS
  <2> QED BY <1>2, <2>1, FS_Subset DEF Rank
<1>4. \A y \in set : y <= x
  BY <1>3
<1> QED BY <1>4 DEF Greatest

-----------------------------------------------------------------------------
(* Chains.                                                                 *)

\* The chain of every event from the first to the n-th, in order.
InOrder(n) == [k \in 1 .. n |-> k]

LEMMA ChainForm ==
  ASSUME NEW chain
  PROVE  chain \in Chains <=> chain \in Seq(Ids) /\ Len(chain) \in 0 .. MaxEvents
<1>1. ASSUME NEW n \in 0 .. MaxEvents, chain \in [1 .. n -> Ids]
      PROVE  chain \in Seq(Ids) /\ Len(chain) = n
  BY <1>1, AuditAssumption, SeqDef
<1>2. ASSUME chain \in Seq(Ids), Len(chain) \in 0 .. MaxEvents
      PROVE  chain \in Chains
  <2>1. chain \in [1 .. Len(chain) -> Ids]
    BY <1>2, LenProperties
  <2> QED BY <1>2, <2>1 DEF Chains
<1> QED BY <1>1, <1>2 DEF Chains

LEMMA AppendedChain ==
  ASSUME NEW chain \in Chains, NEW w \in 0 .. MaxEvents, w < MaxEvents, Len(chain) <= w
  PROVE  /\ Append(chain, w + 1) \in Chains
         /\ Len(Append(chain, w + 1)) = Len(chain) + 1
         /\ Len(chain) \in Nat
         /\ Newest(Append(chain, w + 1)) = w + 1
<1>1. chain \in Seq(Ids) /\ Len(chain) \in 0 .. MaxEvents
  BY ChainForm
<1>2. w + 1 \in Ids
  BY AuditAssumption DEF Ids
<1>3. /\ Append(chain, w + 1) \in Seq(Ids)
      /\ Len(Append(chain, w + 1)) = Len(chain) + 1
      /\ Append(chain, w + 1)[Len(chain) + 1] = w + 1
  BY <1>1, <1>2, AppendProperties
<1>4. Len(chain) + 1 \in 0 .. MaxEvents
  BY <1>1, AuditAssumption
<1>5. Append(chain, w + 1) \in Chains
  <2> DEFINE next == Append(chain, w + 1)
  <2>1. next \in Seq(Ids) /\ Len(next) \in 0 .. MaxEvents
    BY <1>3, <1>4
  <2> HIDE DEF next
  <2>2. next \in Chains
    BY <2>1, ChainForm
  <2> QED BY <2>2 DEF next
<1>6. Newest(Append(chain, w + 1)) = w + 1
  BY <1>3 DEF Newest
<1>7. Len(chain) \in Nat
  BY <1>1
<1> QED BY <1>3, <1>5, <1>6, <1>7

LEMMA InOrderForm ==
  ASSUME NEW n \in Nat
  PROVE  /\ InOrder(n) \in Seq(Nat) /\ Len(InOrder(n)) = n
         /\ Append(InOrder(n), n + 1) = InOrder(n + 1)
         /\ \A m \in 0 .. n : SubSeq(InOrder(n), 1, m) = InOrder(m)
<1>1. \A m \in Nat : InOrder(m) \in Seq(Nat) /\ Len(InOrder(m)) = m
  BY SeqDef DEF InOrder
<1>2. Append(InOrder(n), n + 1) = InOrder(n + 1)
  <2>1. /\ Append(InOrder(n), n + 1) \in Seq(Nat)
        /\ Len(Append(InOrder(n), n + 1)) = n + 1
        /\ \A i \in 1 .. n : Append(InOrder(n), n + 1)[i] = InOrder(n)[i]
        /\ Append(InOrder(n), n + 1)[n + 1] = n + 1
    <3> DEFINE seq == InOrder(n)
    <3>1. seq \in Seq(Nat) /\ Len(seq) = n /\ n + 1 \in Nat
      BY <1>1
    <3> HIDE DEF seq
    <3>2. /\ Append(seq, n + 1) \in Seq(Nat)
          /\ Len(Append(seq, n + 1)) = Len(seq) + 1
          /\ \A i \in 1 .. Len(seq) : Append(seq, n + 1)[i] = seq[i]
          /\ Append(seq, n + 1)[Len(seq) + 1] = n + 1
      BY <3>1, AppendProperties
    <3>3. /\ Append(seq, n + 1) \in Seq(Nat) /\ Len(Append(seq, n + 1)) = n + 1
          /\ \A i \in 1 .. n : Append(seq, n + 1)[i] = seq[i]
          /\ Append(seq, n + 1)[n + 1] = n + 1
      BY <3>1, <3>2
    <3> QED BY <3>3 DEF seq
  <2>2. \A i \in 1 .. n + 1 : Append(InOrder(n), n + 1)[i] = InOrder(n + 1)[i]
    BY <2>1 DEF InOrder
  <2>3. InOrder(n + 1) \in Seq(Nat) /\ Len(InOrder(n + 1)) = n + 1
    BY <1>1
  <2> QED BY <2>1, <2>2, <2>3, SeqEqual
<1>3. ASSUME NEW m \in 0 .. n
      PROVE  SubSeq(InOrder(n), 1, m) = InOrder(m)
  <2>1. \A i \in 1 .. m : InOrder(n)[i] \in Nat /\ InOrder(n)[i] = InOrder(m)[i]
    BY DEF InOrder
  <2>2. /\ SubSeq(InOrder(n), 1, m) \in Seq(Nat)
        /\ Len(SubSeq(InOrder(n), 1, m)) = m
        /\ \A i \in 1 .. m : SubSeq(InOrder(n), 1, m)[i] = InOrder(n)[i]
    <3>1. /\ SubSeq(InOrder(n), 1, m) \in Seq(Nat)
          /\ Len(SubSeq(InOrder(n), 1, m)) = IF 1 <= m THEN m - 1 + 1 ELSE 0
          /\ \A i \in 1 .. m - 1 + 1 : SubSeq(InOrder(n), 1, m)[i] = InOrder(n)[1 + i - 1]
      BY <2>1, SubSeqProperties
    <3> QED BY <3>1
  <2>3. InOrder(m) \in Seq(Nat) /\ Len(InOrder(m)) = m
    BY <1>1
  <2> QED BY <2>1, <2>2, <2>3, SeqEqual
<1> QED BY <1>1, <1>2, <1>3

-----------------------------------------------------------------------------
(* The inductive invariant of any tenant: the numbers of the events written *)
(* bound every chain that is kept, so that the next event still fits.       *)

StoreInv ==
  /\ AuditTypeOK
  /\ IsFiniteSet(rows)
  /\ \A row \in rows : Len(row) > 0 /\ Newest(row) \in 1 .. written
  /\ Len(head) <= written /\ Len(purging.chain) <= written

LEMMA NoChain == <<>> \in Chains /\ Len(<<>>) = 0
<1>1. <<>> \in Seq(Ids) /\ Len(<<>>) = 0
  BY EmptySeq
<1>2. 0 \in 0 .. MaxEvents
  BY AuditAssumption
<1>3. ASSUME NEW c, c \in Seq(Ids), Len(c) = 0
      PROVE  c \in Chains
  BY <1>2, <1>3, ChainForm
<1> QED BY <1>1, <1>3

LEMMA StoreInitially == AuditInit => StoreInv
<1> SUFFICES ASSUME AuditInit PROVE StoreInv
  OBVIOUS
<1>1. <<>> \in Chains /\ Len(<<>>) = 0
  BY NoChain
<1>2. NoPurge \in [gone : SUBSET Chains, chain : Chains, open : BOOLEAN]
      /\ NoPurge.chain = <<>>
  BY <1>1 DEF NoPurge
<1>3. archives \in Seq(Archive)
  BY EmptySeq DEF AuditInit
<1>4. 0 \in 0 .. MaxEvents
  BY AuditAssumption
<1> QED BY <1>1, <1>2, <1>3, <1>4, FS_EmptySet DEF AuditInit, StoreInv, AuditTypeOK

\* An event that is written goes on the head.
LEMMA StoreOnHead ==
  ASSUME StoreInv, written < MaxEvents, OnHead(Append(head, written + 1)),
         UNCHANGED <<environment, purging>>, archives' \in Seq(Archive)
  PROVE  StoreInv'
<1> DEFINE chain == Append(head, written + 1)
<1>1. head \in Chains /\ written \in 0 .. MaxEvents /\ Len(head) <= written
  BY DEF StoreInv, AuditTypeOK
<1>2. /\ chain \in Chains /\ Len(chain) = Len(head) + 1 /\ Len(head) \in Nat
      /\ Newest(chain) = written + 1
  BY <1>1, AppendedChain
<1>3. rows' = rows \cup {chain} /\ head' = chain /\ written' = written + 1
  BY DEF OnHead
<1> HIDE DEF chain
<1>4. written' \in 0 .. MaxEvents /\ written < written'
  BY <1>1, <1>3, AuditAssumption
<1>5. AuditTypeOK'
  BY <1>2, <1>3, <1>4 DEF StoreInv, AuditTypeOK
<1>6. IsFiniteSet(rows')
  BY <1>3, FS_AddElement DEF StoreInv
<1>7. \A row \in rows' : Len(row) > 0 /\ Newest(row) \in 1 .. written'
  BY <1>1, <1>2, <1>3, <1>4 DEF StoreInv
<1>8. Len(head') <= written'
  BY <1>1, <1>2, <1>3
<1>9. Len(purging'.chain) <= written'
  <2>1. Len(purging.chain) <= written /\ purging' = purging /\ purging.chain \in Chains
    BY DEF StoreInv, AuditTypeOK
  <2>2. Len(purging.chain) \in Int
    BY <2>1, ChainForm
  <2> QED BY <1>1, <1>3, <2>1, <2>2
<1> QED BY <1>5, <1>6, <1>7, <1>8, <1>9 DEF StoreInv

\* The end of what some checkpoints have verified.
VerifiedIn(list) == {i \in DOMAIN list : list[i].state = "verified"}
EndOf(list) == Greatest({0} \cup {list[i].through : i \in VerifiedIn(list)})

LEMMA EndForm ==
  ASSUME NEW list \in Seq(Archive)
  PROVE  /\ DOMAIN list = 1 .. Len(list) /\ Len(list) \in Nat
         /\ \A i \in DOMAIN list : list[i] \in Archive
         /\ EndOf(list) \in 0 .. MaxEvents
         /\ \A i \in VerifiedIn(list) : list[i].through <= EndOf(list)
         /\ EndOf(list) = 0 \/ \E i \in VerifiedIn(list) : list[i].through = EndOf(list)
<1> DEFINE ends == {0} \cup {list[i].through : i \in VerifiedIn(list)}
<1>1. /\ DOMAIN list = 1 .. Len(list) /\ Len(list) \in Nat
      /\ \A i \in DOMAIN list : list[i] \in Archive
  BY LenProperties, ElementOfSeq
<1>2. ends \in SUBSET (0 .. MaxEvents) /\ ends # {}
  <2>1. \A i \in VerifiedIn(list) : list[i].through \in 1 .. MaxEvents
    BY <1>1 DEF VerifiedIn, Archive, Ids
  <2> QED BY <2>1, AuditAssumption
<1>3. IsFiniteSet(ends)
  <2>1. IsFiniteSet(0 .. MaxEvents)
    BY AuditAssumption, FS_Interval
  <2> HIDE DEF ends
  <2> QED BY <1>2, <2>1, FS_Subset
<1>4. ends \in SUBSET Int
  BY <1>2
<1>5. EndOf(list) = Greatest(ends)
  BY DEF EndOf
<1>6. Greatest(ends) \in ends /\ \A m \in ends : m <= Greatest(ends)
  <2> HIDE DEF ends
  <2> QED BY <1>2, <1>3, <1>4, GreatestForm
<1> QED BY <1>1, <1>2, <1>5, <1>6

LEMMA VerifiedIs ==
  /\ Verified = VerifiedIn(archives) /\ VerifiedTo = EndOf(archives)
  /\ Verified' = VerifiedIn(archives') /\ VerifiedTo' = EndOf(archives')
BY DEF Verified, VerifiedTo, VerifiedIn, EndOf

\* A request adds one checkpoint, whose range starts behind what is verified.
LEMMA RequestedForm ==
  ASSUME StoreInv, NEW through \in Ids, RequestArchive(through)
  PROVE  \E row \in rows, a \in Archive :
           /\ Len(row) = through /\ archives' = Append(archives, a)
           /\ a.from = Start /\ a.through = through /\ a.hash = row /\ a.state = "queued"
           /\ a.count = Cardinality({r \in rows : Len(r) \in Start .. through})
<1>1. PICK row \in rows :
        /\ Len(row) = through
        /\ archives' = Append(archives,
             [from |-> Start, through |-> through, hash |-> row,
              count |-> Cardinality({r \in rows : Len(r) \in Start .. through}),
              state |-> "queued", object |-> NoObject])
  BY DEF RequestArchive
<1> DEFINE some == {r \in rows : Len(r) \in Start .. through}
           a == [from |-> Start, through |-> through, hash |-> row,
                 count |-> Cardinality(some), state |-> "queued", object |-> NoObject]
<1>2. some \in SUBSET rows
  OBVIOUS
<1>3. Cardinality(some) \in Nat
  <2> HIDE DEF some
  <2> QED BY <1>2, FS_Subset, FS_CardinalityType DEF StoreInv
<1>4. Start \in Ids
  <2>1. VerifiedTo \in 0 .. MaxEvents
    BY EndForm, VerifiedIs DEF StoreInv, AuditTypeOK
  <2>2. VerifiedTo + 1 <= through
    BY DEF RequestArchive, Start
  <2> QED BY <2>1, <2>2, AuditAssumption DEF Ids, Start
<1>5. row \in Chains
  BY <1>1 DEF StoreInv, AuditTypeOK
<1>6. a \in Archive
  <2> HIDE DEF some
  <2> QED BY <1>3, <1>4, <1>5 DEF Archive
<1>7. archives' = Append(archives, a)
  BY <1>1
<1> QED BY <1>1, <1>6, <1>7

\* What a cleanup leaves is chained by the numbers of its events.
LEMMA PurgeForm ==
  ASSUME StoreInv, NEW gone \in SUBSET rows
  PROVE  /\ ChainOf({Newest(r) : r \in rows \ gone}) \in Chains
         /\ Len(ChainOf({Newest(r) : r \in rows \ gone})) <= written
<1> DEFINE ids == {Newest(r) : r \in rows \ gone}
<1>1. written \in 0 .. MaxEvents
  BY DEF StoreInv, AuditTypeOK
<1>2. ids \in SUBSET (1 .. written)
  BY DEF StoreInv
<1> HIDE DEF ids
<1>3. IsFiniteSet(1 .. written) /\ Cardinality(1 .. written) = written
  BY <1>1, FS_Interval
<1>4. IsFiniteSet(ids) /\ Cardinality(ids) <= written /\ Cardinality(ids) \in Nat
  BY <1>2, <1>3, FS_Subset, FS_CardinalityType
<1>5. ids \in SUBSET Int /\ ids \subseteq Ids
  BY <1>1, <1>2, AuditAssumption DEF Ids
<1>6. ChainOf(ids) \in [1 .. Cardinality(ids) -> ids]
  BY <1>4, <1>5, ChainOfForm
<1>7. ChainOf(ids) \in [1 .. Cardinality(ids) -> Ids]
  BY <1>5, <1>6
<1>8. Cardinality(ids) \in 0 .. MaxEvents
  BY <1>1, <1>4, AuditAssumption
<1>9. ChainOf(ids) \in Chains
  BY <1>7, <1>8 DEF Chains
<1>10. Len(ChainOf(ids)) = Cardinality(ids)
  BY <1>4, <1>7, SeqDef
<1> QED BY <1>4, <1>9, <1>10 DEF ids

Completed(list, i, object) ==
  [list EXCEPT ![i].state = "verified", ![i].object = object]

LEMMA CompletedForm ==
  ASSUME NEW list \in Seq(Archive), NEW i \in DOMAIN list, NEW object \in Objects,
         NEW after, after = Completed(list, i, object)
  PROVE  /\ after \in Seq(Archive) /\ DOMAIN after = DOMAIN list
         /\ \A j \in DOMAIN list \ {i} : after[j] = list[j]
         /\ after[i].state = "verified"
         /\ after[i].from = list[i].from /\ after[i].through = list[i].through
         /\ after[i].hash = list[i].hash /\ after[i].count = list[i].count
<1>1. DOMAIN list = 1 .. Len(list) /\ list[i] \in Archive
  BY EndForm
<1> DEFINE a == [[list[i] EXCEPT !.state = "verified"] EXCEPT !.object = object]
<1>2. /\ a \in Archive /\ a.state = "verified" /\ a.from = list[i].from
      /\ a.through = list[i].through /\ a.hash = list[i].hash /\ a.count = list[i].count
  BY <1>1 DEF Archive
<1>3. after = [list EXCEPT ![i] = a]
  <2>1. after = [[list EXCEPT ![i] = [list[i] EXCEPT !.state = "verified"]]
                   EXCEPT ![i] = [@ EXCEPT !.object = object]]
    BY DEF Completed
  <2>2. after = [j \in DOMAIN list |-> IF j = i THEN a ELSE list[j]]
    BY <2>1
  <2>3. [list EXCEPT ![i] = a] = [j \in DOMAIN list |-> IF j = i THEN a ELSE list[j]]
    OBVIOUS
  <2> QED BY <2>2, <2>3
<1> HIDE DEF a
<1>4. /\ after \in Seq(Archive)
      /\ \A j \in 1 .. Len(list) : after[j] = IF j = i THEN a ELSE list[j]
  <2>1. i \in 1 .. Len(list) /\ a \in Archive
    BY <1>1, <1>2
  <2>2. /\ [list EXCEPT ![i] = a] \in Seq(Archive)
        /\ \A j \in 1 .. Len(list) : [list EXCEPT ![i] = a][j] = IF j = i THEN a ELSE list[j]
    BY <2>1, ExceptSeq
  <2> QED BY <1>3, <2>2
<1>5. DOMAIN after = DOMAIN list
  BY <1>3
<1> QED BY <1>1, <1>2, <1>4, <1>5

LEMMA StoreInductive == StoreInv /\ [AuditNext]_auditVars => StoreInv'
<1> SUFFICES ASSUME StoreInv, [AuditNext]_auditVars PROVE StoreInv'
  OBVIOUS
<1>0. archives \in Seq(Archive)
  BY DEF StoreInv, AuditTypeOK
<1>1. CASE Record
  BY <1>0, <1>1, StoreOnHead DEF Record
<1>2. ASSUME NEW through \in Ids, RequestArchive(through)
      PROVE  StoreInv'
  <2>1. PICK a \in Archive : archives' = Append(archives, a)
    BY <1>2, RequestedForm
  <2>2. archives' \in Seq(Archive)
    BY <1>0, <2>1, AppendProperties
  <2> QED BY <1>2, <2>2, StoreOnHead DEF RequestArchive
<1>3. ASSUME NEW i \in DOMAIN archives, NEW object \in Objects, CompleteArchive(i, object)
      PROVE  StoreInv'
  <2>1. archives' = Completed(archives, i, object)
    BY <1>3 DEF CompleteArchive, Completed
  <2>2. archives' \in Seq(Archive)
    BY <1>0, <2>1, CompletedForm
  <2> QED BY <1>3, <2>2, StoreOnHead DEF CompleteArchive
<1>4. ASSUME NEW gone \in SUBSET rows, PurgeReads(gone)
      PROVE  StoreInv'
  <2> DEFINE chain == ChainOf({Newest(r) : r \in rows \ gone})
  <2>1. chain \in Chains /\ Len(chain) <= written
    BY PurgeForm
  <2>2. purging' = [gone |-> gone, open |-> TRUE, chain |-> chain]
    BY <1>4 DEF PurgeReads
  <2> HIDE DEF chain
  <2>3. gone \in SUBSET Chains
    BY DEF StoreInv, AuditTypeOK
  <2>4. UNCHANGED <<environment, rows, head, written, archives>>
    BY <1>4 DEF PurgeReads
  <2> QED BY <2>1, <2>2, <2>3, <2>4 DEF StoreInv, AuditTypeOK
<1>5. CASE PurgeCommits
  <2>1. /\ rows' = rows \ purging.gone /\ head' = purging.chain /\ purging' = NoPurge
        /\ UNCHANGED <<environment, written, archives>>
    BY <1>5 DEF PurgeCommits
  <2>2. IsFiniteSet(rows') /\ rows' \subseteq rows
    BY <2>1, FS_Difference DEF StoreInv
  <2>3. /\ NoPurge \in [gone : SUBSET Chains, chain : Chains, open : BOOLEAN]
        /\ Len(NoPurge.chain) = 0
    BY NoChain DEF NoPurge
  <2>4. purging.chain \in Chains /\ Len(purging.chain) <= written /\ written \in 0 .. MaxEvents
    BY DEF StoreInv, AuditTypeOK
  <2>5. AuditTypeOK'
    BY <2>1, <2>2, <2>3, <2>4 DEF StoreInv, AuditTypeOK
  <2>6. Len(head') <= written' /\ Len(purging'.chain) <= written'
    BY <2>1, <2>3, <2>4
  <2>7. \A row \in rows' : Len(row) > 0 /\ Newest(row) \in 1 .. written'
    BY <2>1, <2>2 DEF StoreInv
  <2> QED BY <2>2, <2>5, <2>6, <2>7 DEF StoreInv
<1>6. CASE UNCHANGED auditVars
  BY <1>6 DEF auditVars, StoreInv, AuditTypeOK
<1> QED BY <1>1, <1>2, <1>3, <1>4, <1>5, <1>6 DEF AuditNext

-----------------------------------------------------------------------------
(* The inductive invariant of a production tenant.  That the verified       *)
(* archives have no gap does not follow from itself: a checkpoint may have  *)
(* been requested long before it is completed.  What each of them owes is   *)
(* kept from its request: its range starts at the latest behind what is     *)
(* verified now, and its hash is that of the chain, which only grows.       *)

ArchiveOK(a, start, w) ==
  /\ a.from <= a.through /\ a.through <= w /\ a.from <= start
  /\ a.hash = InOrder(a.through)
  /\ a.count = a.through - a.from + 1

Covered(list) ==
  \A n \in 1 .. EndOf(list) : \E i \in VerifiedIn(list) : n \in list[i].from .. list[i].through

ProductionInv ==
  environment = "production" =>
    /\ ~purging.open
    /\ head = InOrder(written) /\ rows = {InOrder(n) : n \in 1 .. written}
    /\ \A i \in DOMAIN archives : ArchiveOK(archives[i], EndOf(archives) + 1, written)
    /\ Covered(archives)

LEMMA CountInOrder ==
  ASSUME NEW w \in Nat, NEW from \in 1 .. w, NEW through \in from .. w,
         NEW set, set = {InOrder(n) : n \in 1 .. w}
  PROVE  Cardinality({r \in set : Len(r) \in from .. through}) = through - from + 1
<1> DEFINE range == from .. through
           some == {r \in set : Len(r) \in range}
           f == [n \in range |-> InOrder(n)]
<1>1. \A n \in 1 .. w : Len(InOrder(n)) = n
  BY InOrderForm
<1>2. \A n \in range : n \in 1 .. w
  OBVIOUS
<1>3. f \in [range -> some]
  BY <1>1, <1>2
<1>4. \A m, n \in range : f[m] = f[n] => m = n
  BY <1>1, <1>2
<1>5. \A r \in some : \E n \in range : f[n] = r
  BY <1>1
<1>6. IsFiniteSet(range) /\ Cardinality(range) = through - from + 1
  BY FS_Interval
<1> HIDE DEF range, some, f
<1>7. f \in Bijection(range, some)
  BY <1>3, <1>4, <1>5 DEF Bijection, Injection, Surjection, IsInjective
<1>8. Cardinality(some) = Cardinality(range)
  BY <1>6, <1>7, FS_Bijection DEF ExistsBijection
<1> QED BY <1>6, <1>8 DEF some, range

LEMMA ProductionInitially == AuditInit => ProductionInv
<1> SUFFICES ASSUME AuditInit PROVE ProductionInv
  OBVIOUS
<1>1. archives = <<>> /\ DOMAIN archives = {} /\ archives \in Seq(Archive)
  BY EmptySeq, LenProperties DEF AuditInit
<1>2. VerifiedIn(archives) = {} /\ EndOf(archives) = 0
  BY <1>1, EndForm DEF VerifiedIn
<1>3. Covered(archives)
  BY <1>2 DEF Covered
<1>4. ~purging.open
  BY DEF AuditInit, NoPurge
<1>5. head = InOrder(written)
  BY DEF AuditInit, InOrder
<1>6. rows = {InOrder(n) : n \in 1 .. written}
  BY DEF AuditInit
<1> QED BY <1>1, <1>3, <1>4, <1>5, <1>6 DEF ProductionInv

\* The next event of a production tenant goes on the end of the chain.
LEMMA NextInOrder ==
  ASSUME StoreInv, ProductionInv, environment = "production",
         OnHead(Append(head, written + 1))
  PROVE  /\ written' = written + 1 /\ written \in Nat
         /\ head' = InOrder(written') /\ rows' = {InOrder(n) : n \in 1 .. written'}
<1>1. written \in Nat /\ head = InOrder(written) /\ rows = {InOrder(n) : n \in 1 .. written}
  BY DEF ProductionInv, StoreInv, AuditTypeOK
<1>2. Append(head, written + 1) = InOrder(written + 1)
  BY <1>1, InOrderForm
<1>3. rows' = rows \cup {InOrder(written + 1)} /\ head' = InOrder(written + 1)
      /\ written' = written + 1
  BY <1>2 DEF OnHead
<1>4. \A n : n \in 1 .. written + 1 <=> n \in 1 .. written \/ n = written + 1
  BY <1>1
<1>5. {InOrder(n) : n \in 1 .. written + 1} =
        {InOrder(n) : n \in 1 .. written} \cup {InOrder(written + 1)}
  BY <1>4
<1> QED BY <1>1, <1>3, <1>5

LEMMA ArchiveGrows ==
  ASSUME NEW a \in Archive, NEW s \in Nat, NEW t \in Nat, s <= t,
         NEW v \in Nat, NEW w \in Nat, v <= w, ArchiveOK(a, s, v)
  PROVE  ArchiveOK(a, t, w)
<1>1. a.from \in Int /\ a.through \in Int
  BY DEF Archive, Ids
<1> QED BY <1>1 DEF ArchiveOK

\* A checkpoint that is requested is no gap, and verifies nothing yet.
LEMMA RequestKeeps ==
  ASSUME StoreInv, ProductionInv, environment = "production", NEW through \in Ids,
         RequestArchive(through)
  PROVE  /\ \A i \in DOMAIN archives' :
              ArchiveOK(archives'[i], EndOf(archives') + 1, written')
         /\ Covered(archives')
<1>0. archives \in Seq(Archive) /\ written' = written + 1 /\ written \in Nat
  BY NextInOrder DEF RequestArchive, StoreInv, AuditTypeOK
<1>1. PICK row \in rows, a \in Archive :
        /\ Len(row) = through /\ archives' = Append(archives, a)
        /\ a.from = Start /\ a.through = through /\ a.hash = row /\ a.state = "queued"
        /\ a.count = Cardinality({r \in rows : Len(r) \in Start .. through})
  BY RequestedForm
<1>2. /\ archives' \in Seq(Archive) /\ Len(archives') = Len(archives) + 1
      /\ \A i \in 1 .. Len(archives) : archives'[i] = archives[i]
      /\ archives'[Len(archives) + 1] = a
  BY <1>0, <1>1, AppendProperties
<1>3. /\ DOMAIN archives = 1 .. Len(archives) /\ DOMAIN archives' = 1 .. Len(archives) + 1
      /\ Len(archives) \in Nat
  BY <1>0, <1>2, EndForm
<1>4. VerifiedIn(archives') = VerifiedIn(archives)
  BY <1>1, <1>2, <1>3 DEF VerifiedIn
<1>5. \A i \in VerifiedIn(archives) : archives'[i] = archives[i]
  BY <1>2, <1>3 DEF VerifiedIn
<1>6. EndOf(archives') = EndOf(archives)
  BY <1>4, <1>5 DEF EndOf
<1>7. Covered(archives')
  BY <1>4, <1>5, <1>6 DEF Covered, ProductionInv
<1>8. EndOf(archives) \in Nat
  BY <1>0, EndForm
<1>9. ArchiveOK(a, EndOf(archives) + 1, written + 1)
  <2>1. Start = EndOf(archives) + 1 /\ Start <= through
    BY VerifiedIs DEF Start, RequestArchive
  <2>2. PICK n \in 1 .. written : row = InOrder(n)
    BY DEF ProductionInv
  <2>3. n = through /\ through \in 1 .. written
    <3>1. Len(InOrder(n)) = n
      BY <1>0, InOrderForm
    <3> QED BY <1>1, <2>2, <3>1
  <2>4. Start \in 1 .. written /\ through \in Start .. written
    BY <1>0, <1>8, <2>1, <2>3
  <2>5. a.count = through - Start + 1
    <3>1. rows = {InOrder(m) : m \in 1 .. written}
      BY DEF ProductionInv
    <3>2. Cardinality({r \in rows : Len(r) \in Start .. through}) = through - Start + 1
      BY <1>0, <2>4, <3>1, CountInOrder
    <3> QED BY <1>1, <3>2
  <2>6. a.from = EndOf(archives) + 1 /\ a.through = through /\ a.hash = InOrder(through)
    BY <1>1, <2>1, <2>2, <2>3
  <2>7. /\ a.from <= a.through /\ a.through <= written + 1 /\ a.from <= EndOf(archives) + 1
        /\ a.count = a.through - a.from + 1
    BY <1>0, <1>8, <2>1, <2>3, <2>5, <2>6
  <2> QED BY <2>6, <2>7 DEF ArchiveOK
<1>10. ASSUME NEW i \in DOMAIN archives'
       PROVE  ArchiveOK(archives'[i], EndOf(archives') + 1, written')
  <2>1. CASE i = Len(archives) + 1
    BY <1>0, <1>2, <1>6, <1>9, <2>1
  <2>2. CASE i # Len(archives) + 1
    <3>1. i \in DOMAIN archives /\ archives'[i] = archives[i]
      BY <1>2, <1>3, <2>2
    <3>2. archives[i] \in Archive /\ ArchiveOK(archives[i], EndOf(archives) + 1, written)
      BY <1>0, <3>1, EndForm DEF ProductionInv
    <3>3. EndOf(archives) + 1 <= EndOf(archives) + 1 /\ written <= written + 1
      BY <1>0, <1>8
    <3> QED BY <1>0, <1>6, <1>8, <3>1, <3>2, <3>3, ArchiveGrows
  <2> QED BY <2>1, <2>2
<1> QED BY <1>7, <1>10

\* A checkpoint that is completed extends what is verified from where it was.
LEMMA CompleteKeeps ==
  ASSUME StoreInv, ProductionInv, environment = "production",
         NEW c \in DOMAIN archives, NEW object \in Objects, CompleteArchive(c, object)
  PROVE  /\ \A i \in DOMAIN archives' :
              ArchiveOK(archives'[i], EndOf(archives') + 1, written')
         /\ Covered(archives')
<1>0. archives \in Seq(Archive) /\ written' = written + 1 /\ written \in Nat
  BY NextInOrder DEF CompleteArchive, StoreInv, AuditTypeOK
<1>1. /\ archives' \in Seq(Archive) /\ DOMAIN archives' = DOMAIN archives
      /\ \A i \in DOMAIN archives \ {c} : archives'[i] = archives[i]
      /\ archives'[c].state = "verified"
      /\ archives'[c].from = archives[c].from /\ archives'[c].through = archives[c].through
      /\ archives'[c].hash = archives[c].hash /\ archives'[c].count = archives[c].count
  <2>1. archives' = Completed(archives, c, object)
    BY DEF CompleteArchive, Completed
  <2> QED BY <1>0, <2>1, CompletedForm
<1>2. \A i \in DOMAIN archives :
        archives[i] \in Archive /\ archives'[i] \in Archive
        /\ archives'[i].from = archives[i].from /\ archives'[i].through = archives[i].through
  BY <1>0, <1>1, EndForm
<1>3. VerifiedIn(archives') = VerifiedIn(archives) \cup {c}
  BY <1>1 DEF VerifiedIn
<1>4. EndOf(archives) \in Nat /\ EndOf(archives') \in Nat
  BY <1>0, <1>1, EndForm
<1>5. \A i \in VerifiedIn(archives') : archives'[i].through <= EndOf(archives')
  BY <1>1, EndForm
<1>6. EndOf(archives) <= EndOf(archives')
  <2>1. CASE EndOf(archives) = 0
    BY <1>4, <2>1
  <2>2. CASE EndOf(archives) # 0
    <3>1. PICK i \in VerifiedIn(archives) : archives[i].through = EndOf(archives)
      BY <1>0, <2>2, EndForm
    <3>2. i \in DOMAIN archives /\ i \in VerifiedIn(archives')
      BY <1>3 DEF VerifiedIn
    <3> QED BY <1>2, <1>5, <3>1, <3>2
  <2> QED BY <2>1, <2>2
<1>7. EndOf(archives') = EndOf(archives) \/ EndOf(archives') = archives[c].through
  <2>1. CASE EndOf(archives') = 0
    BY <1>4, <1>6, <2>1
  <2>2. CASE EndOf(archives') # 0
    <3>1. PICK i \in VerifiedIn(archives') : archives'[i].through = EndOf(archives')
      BY <1>1, <2>2, EndForm
    <3>2. CASE i = c
      BY <1>1, <3>1, <3>2
    <3>3. CASE i \in VerifiedIn(archives)
      <4>1. archives[i].through <= EndOf(archives) /\ i \in DOMAIN archives
        BY <1>0, <3>3, EndForm DEF VerifiedIn
      <4> QED BY <1>2, <1>4, <1>6, <3>1, <4>1
    <3> QED BY <1>3, <3>2, <3>3
  <2> QED BY <2>1, <2>2
<1>8. ASSUME NEW i \in DOMAIN archives'
      PROVE  ArchiveOK(archives'[i], EndOf(archives') + 1, written')
  <2>1. ArchiveOK(archives[i], EndOf(archives) + 1, written) /\ archives[i] \in Archive
    BY <1>1, <1>2, <1>8 DEF ProductionInv
  <2>2. EndOf(archives) + 1 <= EndOf(archives') + 1 /\ written <= written + 1
    BY <1>0, <1>4, <1>6
  <2>3. ArchiveOK(archives[i], EndOf(archives') + 1, written + 1)
    BY <1>0, <1>4, <2>1, <2>2, ArchiveGrows
  <2>4. /\ archives'[i].from = archives[i].from /\ archives'[i].through = archives[i].through
        /\ archives'[i].hash = archives[i].hash /\ archives'[i].count = archives[i].count
    BY <1>1, <1>8
  <2> QED BY <1>0, <2>3, <2>4 DEF ArchiveOK
<1>9. ASSUME NEW n \in 1 .. EndOf(archives')
      PROVE  \E i \in VerifiedIn(archives') : n \in archives'[i].from .. archives'[i].through
  <2>1. CASE n \in 1 .. EndOf(archives)
    <3>1. PICK i \in VerifiedIn(archives) : n \in archives[i].from .. archives[i].through
      BY <2>1 DEF ProductionInv, Covered
    <3>2. i \in DOMAIN archives
      BY DEF VerifiedIn
    <3> QED BY <1>2, <1>3, <3>1, <3>2
  <2>2. CASE n \notin 1 .. EndOf(archives)
    <3>1. n > EndOf(archives) /\ n <= archives[c].through
      BY <1>4, <1>7, <2>2
    <3>2. archives[c].from <= EndOf(archives) + 1
      BY DEF ProductionInv, ArchiveOK
    <3>3. archives[c].from \in Int /\ archives[c].through \in Int
      BY <1>2 DEF Archive, Ids
    <3>4. n \in archives[c].from .. archives[c].through
      BY <1>4, <3>1, <3>2, <3>3
    <3> QED BY <1>1, <1>3, <3>4
  <2> QED BY <2>1, <2>2
<1> QED BY <1>8, <1>9 DEF Covered

LEMMA ProductionInductive ==
  StoreInv /\ ProductionInv /\ [AuditNext]_auditVars => ProductionInv'
<1> SUFFICES ASSUME StoreInv, ProductionInv, [AuditNext]_auditVars PROVE ProductionInv'
  OBVIOUS
<1>0. environment' = environment
  BY DEF AuditNext, auditVars, Record, RequestArchive, CompleteArchive, PurgeReads, PurgeCommits
<1> SUFFICES ASSUME environment = "production"
             PROVE  /\ ~purging'.open /\ head' = InOrder(written')
                    /\ rows' = {InOrder(n) : n \in 1 .. written'}
                    /\ \A i \in DOMAIN archives' :
                         ArchiveOK(archives'[i], EndOf(archives') + 1, written')
                    /\ Covered(archives')
  BY <1>0 DEF ProductionInv
<1>1. /\ ~purging.open /\ head = InOrder(written) /\ rows = {InOrder(n) : n \in 1 .. written}
      /\ \A i \in DOMAIN archives : ArchiveOK(archives[i], EndOf(archives) + 1, written)
      /\ Covered(archives)
  BY DEF ProductionInv
<1>2. CASE Record
  <2>1. UNCHANGED <<purging, archives>> /\ written' = written + 1 /\ written \in Nat
        /\ head' = InOrder(written') /\ rows' = {InOrder(n) : n \in 1 .. written'}
    BY <1>2, NextInOrder DEF Record
  <2>2. archives \in Seq(Archive) /\ EndOf(archives) \in Nat
    BY EndForm DEF StoreInv, AuditTypeOK
  <2>3. ASSUME NEW i \in DOMAIN archives
        PROVE  ArchiveOK(archives[i], EndOf(archives) + 1, written + 1)
    <3>1. archives[i] \in Archive /\ ArchiveOK(archives[i], EndOf(archives) + 1, written)
      BY <1>1, <2>2, EndForm
    <3>2. EndOf(archives) + 1 <= EndOf(archives) + 1 /\ written <= written + 1
      BY <2>1, <2>2
    <3> QED BY <2>1, <2>2, <3>1, <3>2, ArchiveGrows
  <2> QED BY <1>1, <2>1, <2>3
<1>3. ASSUME NEW through \in Ids, RequestArchive(through)
      PROVE  /\ ~purging'.open /\ head' = InOrder(written')
             /\ rows' = {InOrder(n) : n \in 1 .. written'}
             /\ \A i \in DOMAIN archives' :
                  ArchiveOK(archives'[i], EndOf(archives') + 1, written')
             /\ Covered(archives')
  <2>1. UNCHANGED purging /\ head' = InOrder(written')
        /\ rows' = {InOrder(n) : n \in 1 .. written'}
    BY <1>3, NextInOrder DEF RequestArchive
  <2> QED BY <1>1, <1>3, <2>1, RequestKeeps
<1>4. ASSUME NEW i \in DOMAIN archives, NEW object \in Objects, CompleteArchive(i, object)
      PROVE  /\ ~purging'.open /\ head' = InOrder(written')
             /\ rows' = {InOrder(n) : n \in 1 .. written'}
             /\ \A j \in DOMAIN archives' :
                  ArchiveOK(archives'[j], EndOf(archives') + 1, written')
             /\ Covered(archives')
  <2>1. UNCHANGED purging /\ head' = InOrder(written')
        /\ rows' = {InOrder(n) : n \in 1 .. written'}
    BY <1>4, NextInOrder DEF CompleteArchive
  <2> QED BY <1>1, <1>4, <2>1, CompleteKeeps
<1>5. CASE UNCHANGED auditVars
  BY <1>1, <1>5 DEF auditVars
<1>6. ~PurgeCommits /\ \A gone \in SUBSET rows : ~PurgeReads(gone)
  BY <1>1 DEF PurgeCommits, PurgeReads
<1> QED BY <1>2, <1>3, <1>4, <1>5, <1>6 DEF AuditNext

LEMMA InvariantsImply == StoreInv /\ ProductionInv => AuditInvariant
<1> SUFFICES ASSUME StoreInv, ProductionInv PROVE AuditInvariant
  OBVIOUS
<1>0. written \in Nat /\ archives \in Seq(Archive)
  BY DEF StoreInv, AuditTypeOK
<1>1. ASSUME environment = "production"
      PROVE  Verifies /\ head = [n \in 1 .. written |-> n]
  <2>1. head = InOrder(written) /\ Len(head) = written
        /\ rows = {InOrder(n) : n \in 1 .. written}
    BY <1>0, <1>1, InOrderForm DEF ProductionInv
  <2>2. \A n \in 1 .. written : SubSeq(head, 1, n) = InOrder(n)
    <3>1. \A m \in 0 .. written : SubSeq(InOrder(written), 1, m) = InOrder(m)
      BY <1>0, InOrderForm
    <3> QED BY <1>0, <2>1, <3>1
  <2>3. Verifies
    BY <2>1, <2>2 DEF Verifies
  <2> QED BY <2>1, <2>3 DEF InOrder
<1>2. ASSUME environment = "production", NEW i \in DOMAIN archives
      PROVE  /\ archives[i].hash = SubSeq(head, 1, archives[i].through)
             /\ archives[i].count = archives[i].through - archives[i].from + 1
  <2>1. ArchiveOK(archives[i], EndOf(archives) + 1, written) /\ head = InOrder(written)
    BY <1>2 DEF ProductionInv
  <2>2. archives[i] \in Archive
    BY <1>0, EndForm
  <2>3. archives[i].through \in 0 .. written
    BY <1>0, <2>1, <2>2 DEF ArchiveOK, Archive, Ids
  <2>4. SubSeq(head, 1, archives[i].through) = InOrder(archives[i].through)
    BY <1>0, <2>1, <2>3, InOrderForm
  <2> QED BY <2>1, <2>4 DEF ArchiveOK
<1>3. ASSUME environment = "production"
      PROVE  \A n \in 1 .. VerifiedTo :
               \E i \in Verified : n \in archives[i].from .. archives[i].through
  BY <1>3, VerifiedIs DEF ProductionInv, Covered
<1> QED
  BY <1>1, <1>2, <1>3 DEF AuditInvariant, StoreInv, ProductionKeepsAll, ArchivesHaveNoGap

LEMMA InvariantsAlways == AuditSpec => [](StoreInv /\ ProductionInv)
<1>1. AuditInit => StoreInv /\ ProductionInv
  BY StoreInitially, ProductionInitially
<1>2. StoreInv /\ ProductionInv /\ [AuditNext]_auditVars => StoreInv' /\ ProductionInv'
  BY StoreInductive, ProductionInductive
<1> QED BY <1>1, <1>2, PTL DEF AuditSpec

-----------------------------------------------------------------------------
\* Every event of a production tenant is in its chain, in order, and its verified
\* archives have no gap, whatever was requested and completed in what order; of
\* a sandbox, whose events may be purged, the rows and the head keep their form.
THEOREM AuditIsSound == AuditSpec => []AuditInvariant
BY InvariantsAlways, InvariantsImply, PTL
=============================================================================
