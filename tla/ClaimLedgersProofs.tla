------------------------- MODULE ClaimLedgersProofs -------------------------
(***************************************************************************)
(* What holds of the two ledgers of claims under a lease, external         *)
(* operations and phone turns, and of the reminders whose sends the first  *)
(* one fences, for any number of rows, callers, tokens and attempts.       *)
(***************************************************************************)
EXTENDS ReminderDelivery, PhoneTurns, TLAPS

-----------------------------------------------------------------------------
(* External operations: a claim is backed by its grant, an operation is    *)
(* never given to another request, and a proven outcome is final.          *)

LEMMA Members ==
  /\ 0 \in ClaimLeases /\ ClaimTicks \in ClaimLeases
  /\ Proven \subseteq OpStates
  /\ {"absent", "planned", "in_flight", "failed_unknown"} \subseteq OpStates
BY OperationsAssumption DEF ClaimLeases, OpStates

LEMMA UnclaimedType ==
  ASSUME NEW row \in Operation, NEW s \in OpStates
  PROVE  /\ Unclaimed(row, s) \in Operation
         /\ Unclaimed(row, s).state = s
         /\ Unclaimed(row, s).token = Nil
         /\ Unclaimed(row, s).lease = 0
         /\ Unclaimed(row, s).claims = row.claims
BY Members DEF Unclaimed, Operation

LEMMA StateType ==
  ASSUME NEW row \in Operation, NEW s \in OpStates
  PROVE  /\ [row EXCEPT !.state = s] \in Operation
         /\ [row EXCEPT !.state = s].state = s
         /\ [row EXCEPT !.state = s].owner = row.owner
         /\ [row EXCEPT !.state = s].token = row.token
         /\ [row EXCEPT !.state = s].lease = row.lease
         /\ [row EXCEPT !.state = s].claims = row.claims
BY DEF Operation

LEMMA TickType ==
  ASSUME NEW row \in Operation
  PROVE  LET after == [row EXCEPT !.lease = IF @ = 0 THEN 0 ELSE @ - 1] IN
         /\ after \in Operation
         /\ after.state = row.state /\ after.owner = row.owner
         /\ after.token = row.token /\ after.claims = row.claims
         /\ row.lease = 0 => after.lease = 0
<1>1. row.lease \in ClaimLeases
  BY DEF Operation
<1>2. (IF row.lease = 0 THEN 0 ELSE row.lease - 1) \in ClaimLeases
  BY <1>1, OperationsAssumption DEF ClaimLeases
<1> QED BY <1>2 DEF Operation

LEMMA AcquiredType ==
  ASSUME OpTypeOK, NEW o \in Ops, NEW sha \in Hashes, NEW w \in Owners, NEW t \in Tokens
  PROVE  /\ [state |-> "in_flight", sha |-> sha, owner |-> w, token |-> t,
             lease |-> ClaimTicks, claims |-> ops[o].claims + 1] \in Operation
         /\ ops[o].claims \in Nat /\ ops[o].claims + 1 > 0
         /\ [op |-> o, owner |-> w, token |-> t] \in Grant
<1>1. ops[o].claims \in Nat
  BY DEF OpTypeOK, Operation
<1> QED BY <1>1, Members DEF Operation, Grant

LEMMA NoOpType == NoOp \in Operation
BY Members DEF NoOp, Operation

LEMMA OpTypeInductive == OpTypeOK /\ [OpNext]_opVars => OpTypeOK'
<1> SUFFICES ASSUME OpTypeOK, [OpNext]_opVars PROVE OpTypeOK'
  OBVIOUS
<1>1. ASSUME NEW o \in Ops, NEW sha \in Hashes, Reserve(o, sha)
      PROVE  OpTypeOK'
  <2>1. [NoOp EXCEPT !.state = "planned", !.sha = sha] \in Operation
    BY NoOpType, Members DEF Operation
  <2> QED BY <1>1, <2>1 DEF Reserve, OpTypeOK
<1>2. ASSUME NEW o \in Ops, NEW sha \in Hashes, Abandon(o, sha)
      PROVE  OpTypeOK'
  BY <1>2, UnclaimedType, Members DEF Abandon, OpTypeOK
<1>3. ASSUME NEW o \in Ops, NEW sha \in Hashes, NEW w \in Owners, NEW t \in Tokens,
             Acquire(o, sha, w, t)
      PROVE  OpTypeOK'
  BY <1>3, AcquiredType DEF Acquire, OpTypeOK
<1>4. ASSUME NEW o \in Ops, NEW w \in Owners, NEW t \in Tokens,
             NEW s \in Proven \cup {"failed_unknown"}, FinishClaim(o, w, t, s)
      PROVE  OpTypeOK'
  BY <1>4, UnclaimedType, Members DEF FinishClaim, OpTypeOK
<1>5. ASSUME NEW o \in Ops, NEW s \in Proven \cup {"in_flight", "failed_unknown"},
             FinishLegacy(o, s)
      PROVE  OpTypeOK'
  BY <1>5, StateType, Members DEF FinishLegacy, OpTypeOK
<1>6. ASSUME NEW o \in Ops, NEW s \in Proven, Receipt(o, s)
      PROVE  OpTypeOK'
  BY <1>6, StateType, Members DEF Receipt, OpTypeOK
<1>7. CASE ClaimTick
  BY <1>7, TickType DEF ClaimTick, OpTypeOK
<1>8. CASE UNCHANGED opVars
  BY <1>8 DEF opVars, OpTypeOK
<1> QED BY <1>1, <1>2, <1>3, <1>4, <1>5, <1>6, <1>7, <1>8 DEF OpNext

\* Every row stays well formed under both protocols.
THEOREM OpTypeCorrect == OpSpec => []OpTypeOK
<1>1. OpInit => OpTypeOK
  BY NoOpType DEF OpInit, OpTypeOK
<1> QED BY <1>1, OpTypeInductive, PTL DEF OpSpec

-----------------------------------------------------------------------------
\* What a row owes to the grants of its operation.
Backed(row, o) ==
  /\ row.claims > 0 => row.state \notin {"absent", "planned"}
  /\ row.claims > 0 /\ row.state = "in_flight" =>
       [op |-> o, owner |-> row.owner, token |-> row.token] \in granted
  /\ row.claims = 0 => row.token = Nil /\ row.lease = 0
  /\ (\E g \in granted : g.op = o) => row.claims > 0

LEMMA ClaimedByGrantInductive ==
  OpTypeOK /\ ClaimedByGrant /\ [OpNext]_opVars => ClaimedByGrant'
<1> SUFFICES ASSUME OpTypeOK, ClaimedByGrant, [OpNext]_opVars PROVE ClaimedByGrant'
  OBVIOUS
<1>0. \A o \in Ops : ops[o] \in Operation /\ Backed(ops[o], o)
  BY DEF OpTypeOK, ClaimedByGrant, Backed
<1>1. ASSUME UNCHANGED granted, NEW o \in Ops, NEW row, Backed(row, o),
             ops' = [ops EXCEPT ![o] = row]
      PROVE  ClaimedByGrant'
  BY <1>0, <1>1 DEF ClaimedByGrant, Backed, OpTypeOK
<1>2. ASSUME NEW o \in Ops, NEW sha \in Hashes, Reserve(o, sha)
      PROVE  ClaimedByGrant'
  <2>1. LET row == [NoOp EXCEPT !.state = "planned", !.sha = sha] IN
        row.claims = 0 /\ row.token = Nil /\ row.lease = 0
    BY DEF NoOp
  <2>2. ~\E g \in granted : g.op = o
    BY <1>0, <1>2 DEF Reserve, Backed
  <2>3. Backed([NoOp EXCEPT !.state = "planned", !.sha = sha], o)
    BY <2>1, <2>2 DEF Backed
  <2> QED BY <1>1, <1>2, <2>3 DEF Reserve
<1>3. ASSUME NEW o \in Ops, NEW s \in Proven \cup {"failed_unknown"}
      PROVE  Backed(Unclaimed(ops[o], s), o)
  <2>1. s \in OpStates /\ s \notin {"absent", "planned", "in_flight"}
    BY Members DEF Proven
  <2> QED BY <1>0, <2>1, UnclaimedType DEF Backed
<1>4. ASSUME NEW o \in Ops, NEW sha \in Hashes, Abandon(o, sha)
      PROVE  ClaimedByGrant'
  BY <1>1, <1>3, <1>4 DEF Abandon
<1>5. ASSUME NEW o \in Ops, NEW w \in Owners, NEW t \in Tokens,
             NEW s \in Proven \cup {"failed_unknown"}, FinishClaim(o, w, t, s)
      PROVE  ClaimedByGrant'
  BY <1>1, <1>3, <1>5 DEF FinishClaim
<1>6. ASSUME NEW o \in Ops, NEW s \in Proven \cup {"in_flight", "failed_unknown"},
             FinishLegacy(o, s)
      PROVE  ClaimedByGrant'
  <2>1. s \in OpStates /\ ops[o].claims = 0
    BY <1>6, Members DEF FinishLegacy
  <2>2. Backed([ops[o] EXCEPT !.state = s], o)
    BY <1>0, <2>1, StateType DEF Backed
  <2> QED BY <1>1, <1>6, <2>2 DEF FinishLegacy
<1>7. ASSUME NEW o \in Ops, NEW s \in Proven, Receipt(o, s)
      PROVE  ClaimedByGrant'
  <2>1. s \in OpStates /\ s \notin {"absent", "planned", "in_flight"}
    BY Members DEF Proven
  <2>2. Backed([ops[o] EXCEPT !.state = s], o)
    BY <1>0, <2>1, StateType DEF Backed
  <2> QED BY <1>1, <1>7, <2>2 DEF Receipt
<1>8. ASSUME NEW o \in Ops, NEW sha \in Hashes, NEW w \in Owners, NEW t \in Tokens,
             Acquire(o, sha, w, t)
      PROVE  ClaimedByGrant'
  <2> DEFINE row == [state |-> "in_flight", sha |-> sha, owner |-> w, token |-> t,
                     lease |-> ClaimTicks, claims |-> ops[o].claims + 1]
             grant == [op |-> o, owner |-> w, token |-> t]
  <2>1. ops' = [ops EXCEPT ![o] = row] /\ granted' = granted \cup {grant}
    BY <1>8 DEF Acquire
  <2>2. /\ row.state = "in_flight" /\ row.claims > 0 /\ row.claims # 0
        /\ [op |-> o, owner |-> row.owner, token |-> row.token] = grant
        /\ grant.op = o
    <3>1. ops[o].claims \in Nat
      BY AcquiredType
    <3> QED BY <3>1
  <2>3. \A p \in Ops : ops'[p] = IF p = o THEN row ELSE ops[p]
    BY <2>1 DEF OpTypeOK
  <2> HIDE DEF row, grant
  <2> QED BY <1>0, <2>1, <2>2, <2>3 DEF ClaimedByGrant, Backed
<1>9. CASE ClaimTick
  <2>1. ASSUME NEW o \in Ops
        PROVE  /\ ops'[o].state = ops[o].state /\ ops'[o].owner = ops[o].owner
               /\ ops'[o].token = ops[o].token /\ ops'[o].claims = ops[o].claims
               /\ ops[o].lease = 0 => ops'[o].lease = 0
    <3>1. ops[o] \in Operation
      BY <1>0
    <3>2. ops'[o] = [ops[o] EXCEPT !.lease = IF @ = 0 THEN 0 ELSE @ - 1]
      BY <1>9 DEF ClaimTick
    <3> QED BY <3>1, <3>2, TickType
  <2>2. granted' = granted
    BY <1>9 DEF ClaimTick
  <2> QED BY <2>1, <2>2 DEF ClaimedByGrant
<1>10. CASE UNCHANGED opVars
  BY <1>10 DEF opVars, ClaimedByGrant
<1> QED BY <1>2, <1>4, <1>5, <1>6, <1>7, <1>8, <1>9, <1>10 DEF OpNext

\* A row in flight under a claim carries the token of its grant.
THEOREM GrantsBackClaims == OpSpec => []ClaimedByGrant
<1>1. OpInit => ClaimedByGrant
  <2> SUFFICES ASSUME OpInit, NEW o \in Ops
               PROVE  Backed(ops[o], o)
    BY DEF ClaimedByGrant, Backed
  <2>1. ops[o].claims = 0 /\ ops[o].token = Nil /\ ops[o].lease = 0 /\ granted = {}
    BY DEF OpInit, NoOp
  <2> QED BY <2>1 DEF Backed
<1>2. OpTypeOK /\ ClaimedByGrant /\ [OpNext]_opVars => ClaimedByGrant'
  BY ClaimedByGrantInductive
<1> QED BY <1>1, <1>2, OpTypeCorrect, PTL DEF OpSpec

LEMMA NeverReassignedInductive ==
  OpTypeOK /\ ClaimedByGrant /\ NeverReassigned /\ [OpNext]_opVars => NeverReassigned'
<1> SUFFICES ASSUME OpTypeOK, ClaimedByGrant, NeverReassigned, [OpNext]_opVars
             PROVE  NeverReassigned'
  OBVIOUS
<1>1. ASSUME NEW o \in Ops, NEW sha \in Hashes, NEW w \in Owners, NEW t \in Tokens,
             Acquire(o, sha, w, t)
      PROVE  NeverReassigned'
  <2>1. ~\E g \in granted : g.op = o
    BY <1>1, AcquiredType DEF Acquire, ClaimedByGrant
  <2> QED BY <1>1, <2>1 DEF Acquire, NeverReassigned
<1>2. CASE UNCHANGED granted
  BY <1>2 DEF NeverReassigned
<1> QED
  BY <1>1, <1>2 DEF OpNext, opVars, Reserve, Abandon, FinishClaim, FinishLegacy, Receipt, ClaimTick

\* At most one caller ever receives an operation, so at most one calls the
\* provider for it.
THEOREM OperationsAreNeverReassigned == OpSpec => []NeverReassigned
<1>1. OpInit => NeverReassigned
  BY DEF OpInit, NeverReassigned
<1> QED
  BY <1>1, NeverReassignedInductive, OpTypeCorrect, GrantsBackClaims, PTL DEF OpSpec

\* A proven outcome is never overwritten.
THEOREM ProvenOutcomesAreFinal == OpSpec => ProvenIsFinal
<1> DEFINE Kept == \A o \in Ops : ops[o].state \in Proven => ops'[o].state = ops[o].state
<1>1. OpTypeOK /\ [OpNext]_opVars => Kept
  <2> SUFFICES ASSUME OpTypeOK, [OpNext]_opVars, NEW o \in Ops, ops[o].state \in Proven
               PROVE  ops'[o].state = ops[o].state
    OBVIOUS
  <2>1. ops[o].state \notin {"absent", "planned", "in_flight", "failed_unknown"}
    BY DEF Proven
  <2>2. CASE ClaimTick
    BY <2>2, TickType DEF ClaimTick, OpTypeOK
  <2>3. CASE UNCHANGED opVars
    BY <2>3 DEF opVars
  <2>4. ASSUME NEW p \in Ops, ops[p].state \notin Proven, NEW row, ops' = [ops EXCEPT ![p] = row]
        PROVE  ops'[o].state = ops[o].state
    BY <2>4 DEF OpTypeOK
  <2>5. ASSUME NEW p \in Ops, NEW sha \in Hashes, Reserve(p, sha) \/ Abandon(p, sha)
        PROVE  ops'[o].state = ops[o].state
    BY <2>1, <2>4, <2>5 DEF Reserve, Abandon, ClaimIsLost, Proven
  <2>6. ASSUME NEW p \in Ops, NEW sha \in Hashes, NEW w \in Owners, NEW t \in Tokens,
               Acquire(p, sha, w, t)
        PROVE  ops'[o].state = ops[o].state
    BY <2>1, <2>4, <2>6 DEF Acquire, Proven
  <2>7. ASSUME NEW p \in Ops, NEW w \in Owners, NEW t \in Tokens,
               NEW s \in Proven \cup {"failed_unknown"}, FinishClaim(p, w, t, s)
        PROVE  ops'[o].state = ops[o].state
    BY <2>1, <2>4, <2>7 DEF FinishClaim, HoldsOperation, Proven
  <2>8. ASSUME NEW p \in Ops, NEW s \in OpStates, FinishLegacy(p, s) \/ Receipt(p, s)
        PROVE  ops'[o].state = ops[o].state
    BY <2>1, <2>4, <2>8 DEF FinishLegacy, Receipt, Proven, OpTypeOK
  <2>9. Proven \cup {"in_flight", "failed_unknown"} \subseteq OpStates
    BY Members
  <2> QED BY <2>2, <2>3, <2>5, <2>6, <2>7, <2>8, <2>9 DEF OpNext
<1> QED BY <1>1, OpTypeCorrect, PTL DEF OpSpec, ProvenIsFinal

\* An operation is granted once, and a claim on its row is that grant.
THEOREM OperationsAreSound == OpSpec => []OperationsInvariant
BY OpTypeCorrect, GrantsBackClaims, OperationsAreNeverReassigned, PTL DEF OperationsInvariant

-----------------------------------------------------------------------------
(* Phone turns: a turn has one answer.                                     *)

\* The grant under which a row was claimed last, with token t.
LastGrant(u, row, t) == [turn |-> u, token |-> t, attempt |-> row.attempts]

\* A row in hand and its answer belong to the last grant of the turn.
RowBacked(u, row, grants) ==
  /\ row.state = "processing" => LastGrant(u, row, row.token) \in grants
  /\ row.state = "completed" => LastGrant(u, row, row.answer) \in grants

\* What was answered is what the row keeps.
RowAnswers(u, row, given) ==
  \A a \in given : a.turn = u => row.state = "completed" /\ row.answer = a.answer

Hand == [phase : {"free", "resolving", "failing"}, turn : Turns \cup {Absent},
         token : TurnTokens \cup {Absent}]

\* A request in hand names the turn and the token of its claim.
Named(hand) == hand.phase # "free" => hand.turn \in Turns /\ hand.token \in TurnTokens

TurnInv ==
  /\ TurnTypeOK
  /\ \A h \in Handlers : Named(handlers[h])
  /\ \A u \in Turns : RowBacked(u, turns[u], claimed) /\ RowAnswers(u, turns[u], answered)

-----------------------------------------------------------------------------
\* The type of a row, with the check constraint of the table.
GoodRow(row) ==
  /\ row \in TurnRow
  /\ row.state = "processing" <=> row.token # Absent
  /\ row.state = "completed" <=> row.answer # Absent

\* A step that rewrites one row keeps the invariant if the row is good, backed by
\* the grants there are then, and the answers to the turn are its own.
LEMMA OneRow ==
  ASSUME TurnInv, NEW u \in Turns, NEW row,
         GoodRow(row), RowBacked(u, row, claimed'), RowAnswers(u, row, answered'),
         turns' = [turns EXCEPT ![u] = row],
         answered' \subseteq [turn : Turns, answer : TurnTokens],
         \A a \in answered' : a \in answered \/ a.turn = u,
         claimed \subseteq claimed',
         claimed' \subseteq [turn : Turns, token : TurnTokens, attempt : 1 .. TurnAttempts],
         handlers' \in [Handlers -> Hand], \A h \in Handlers : Named(handlers'[h])
  PROVE  TurnInv'
<1>1. turns \in [Turns -> TurnRow]
  BY DEF TurnInv, TurnTypeOK
<1>2. \A v \in Turns : turns'[v] = IF v = u THEN row ELSE turns[v]
  BY <1>1
<1>3. turns' \in [Turns -> TurnRow]
  BY <1>1 DEF GoodRow
<1>4. \A v \in Turns : GoodRow(turns'[v])
  BY <1>2 DEF TurnInv, TurnTypeOK, GoodRow
<1>5. TurnTypeOK'
  BY <1>1, <1>3, <1>4 DEF TurnTypeOK, GoodRow, Hand
<1>6. ASSUME NEW v \in Turns
      PROVE  RowBacked(v, turns'[v], claimed') /\ RowAnswers(v, turns'[v], answered')
  <2>1. CASE v = u
    BY <2>1, <1>2
  <2>2. CASE v # u
    BY <2>2, <1>2 DEF TurnInv, RowBacked, RowAnswers, LastGrant
  <2> QED BY <2>1, <2>2
<1> QED BY <1>5, <1>6 DEF TurnInv

\* A step that changes neither rows nor answers keeps the invariant.
LEMMA NoRow ==
  ASSUME TurnInv, UNCHANGED <<turns, claimed>>,
         \A a \in answered' : a \in answered
           \/ (turns[a.turn].state = "completed" /\ turns[a.turn].answer = a.answer),
         answered' \subseteq [turn : Turns, answer : TurnTokens],
         handlers' \in [Handlers -> Hand], \A h \in Handlers : Named(handlers'[h])
  PROVE  TurnInv'
BY DEF TurnInv, TurnTypeOK, RowBacked, RowAnswers, Hand

LEMMA InitInv == TurnInit => TurnInv
BY TurnAssumption DEF TurnInit, TurnInv, TurnTypeOK, TurnRow, NoTurn, FreeHandler, RowBacked,
                       RowAnswers, Named

\* A claim: the turn had no answer, so nobody was given one.
LEMMA GrantedKeeps ==
  ASSUME TurnInv, NEW h \in Handlers, NEW u \in Turns, NEW row, NEW t \in TurnTokens,
         row \in TurnRow, row.answer = Absent, row.attempts < TurnAttempts,
         turns[u].state # "completed", Granted(h, u, row, t)
  PROVE  TurnInv'
<1> DEFINE new == [row EXCEPT !.state = "processing", !.token = t, !.lease = TurnTicks,
                              !.attempts = @ + 1]
<1>1. /\ row.attempts \in 0 .. TurnAttempts /\ row.attempts + 1 \in 1 .. TurnAttempts
      /\ row.attempts + 1 \in 0 .. TurnAttempts /\ TurnTicks \in 0 .. TurnTicks
  BY TurnAssumption DEF TurnRow
<1>2. GoodRow(new)
  BY <1>1, TurnAssumption DEF GoodRow, TurnRow
<1>3. RowBacked(u, new, claimed')
  BY DEF Granted, RowBacked, LastGrant, TurnRow
<1>4. RowAnswers(u, new, answered')
  BY DEF Granted, RowAnswers, TurnInv
<1>5. turns' = [turns EXCEPT ![u] = new]
  BY DEF Granted
<1>6. claimed' \subseteq [turn : Turns, token : TurnTokens, attempt : 1 .. TurnAttempts]
  BY <1>1 DEF Granted, TurnInv, TurnTypeOK
<1>7. handlers' \in [Handlers -> Hand] /\ \A k \in Handlers : Named(handlers'[k])
  BY DEF Granted, TurnInv, TurnTypeOK, Hand, Named
<1>8. claimed \subseteq claimed' /\ answered' = answered
  BY DEF Granted
<1>9. answered' \subseteq [turn : Turns, answer : TurnTokens]
  BY <1>8 DEF TurnInv, TurnTypeOK
<1> QED BY <1>2, <1>3, <1>4, <1>5, <1>6, <1>7, <1>8, <1>9, OneRow

\* A request that is let go, or fails, leaves the others as they are.
LEMMA LetGo ==
  ASSUME TurnInv, NEW h \in Handlers,
         \/ handlers' = [handlers EXCEPT ![h] = FreeHandler]
         \/ handlers' = [handlers EXCEPT ![h].phase = "failing"] /\ handlers[h].phase = "resolving"
  PROVE  handlers' \in [Handlers -> Hand] /\ \A k \in Handlers : Named(handlers'[k])
BY DEF TurnInv, TurnTypeOK, Hand, Named, FreeHandler

LEMMA NoLease == 0 \in 0 .. TurnTicks
BY TurnAssumption

\* A row that is failed: it had no answer.
LEMMA FailedKeeps ==
  ASSUME TurnInv, NEW u \in Turns, turns[u].state \in {"processing", "failed"},
         turns' = [turns EXCEPT ![u] = FailedRow(u)], UNCHANGED <<answered, claimed>>,
         handlers' \in [Handlers -> Hand], \A h \in Handlers : Named(handlers'[h])
  PROVE  TurnInv'
<1>1. turns[u] \in TurnRow /\ turns[u].answer = Absent
  BY DEF TurnInv, TurnTypeOK
<1>2. GoodRow(FailedRow(u))
  <2>1. FailedRow(u) \in TurnRow
    BY <1>1, NoLease DEF TurnRow, FailedRow
  <2>2. /\ FailedRow(u).state = "failed" /\ FailedRow(u).token = Absent
        /\ FailedRow(u).answer = Absent
    BY <1>1 DEF TurnRow, FailedRow
  <2> QED BY <2>1, <2>2 DEF GoodRow
<1>3. RowBacked(u, FailedRow(u), claimed')
  BY <1>1 DEF RowBacked, TurnRow, FailedRow
<1>4. RowAnswers(u, FailedRow(u), answered')
  BY DEF RowAnswers, TurnInv
<1>5. /\ claimed' \subseteq [turn : Turns, token : TurnTokens, attempt : 1 .. TurnAttempts]
      /\ answered' \subseteq [turn : Turns, answer : TurnTokens]
      /\ claimed' = claimed /\ answered' = answered
  BY DEF TurnInv, TurnTypeOK
<1> QED BY <1>2, <1>3, <1>4, <1>5, OneRow

\* The holder of the live claim completes the row: its answer is the first.
LEMMA FinishKeeps ==
  ASSUME TurnInv, NEW h \in Handlers, FinishTurn(h)
  PROVE  TurnInv'
<1> DEFINE u == handlers[h].turn
           t == handlers[h].token
           held == HoldsTurn(u, t) /\ turns[u].lease > 0
           new == [turns[u] EXCEPT !.state = "completed", !.answer = t,
                                   !.token = Absent, !.lease = 0]
<1>1. handlers' \in [Handlers -> Hand] /\ \A k \in Handlers : Named(handlers'[k])
  BY LetGo DEF FinishTurn
<1>2. u \in Turns /\ t \in TurnTokens
  BY DEF FinishTurn, TurnInv, Named
<1>3. CASE ~held
  <2>1. UNCHANGED <<turns, claimed, answered>>
    BY <1>3 DEF FinishTurn
  <2> QED BY <1>1, <2>1, NoRow DEF TurnInv, TurnTypeOK
<1>4. CASE held
  <2>1. /\ turns[u] \in TurnRow /\ turns[u].state = "processing" /\ turns[u].token = t
        /\ t # Absent
    BY <1>2, <1>4, TurnAssumption DEF HoldsTurn, TurnInv, TurnTypeOK
  <2>2. turns' = [turns EXCEPT ![u] = new] /\ claimed' = claimed
    BY <1>4 DEF FinishTurn
  <2>3. answered' \subseteq answered \cup {[turn |-> u, answer |-> t]}
    BY <1>4 DEF FinishTurn
  <2>4. GoodRow(new)
    <3>1. new \in TurnRow
      BY <1>2, <2>1, NoLease DEF TurnRow
    <3>2. new.state = "completed" /\ new.token = Absent /\ new.answer = t
      BY <2>1 DEF TurnRow
    <3> QED BY <2>1, <3>1, <3>2 DEF GoodRow
  <2>5. LastGrant(u, turns[u], t) \in claimed
    BY <1>2, <2>1 DEF RowBacked, TurnInv
  <2>6. new.state = "completed" /\ new.answer = t /\ new.attempts = turns[u].attempts
    BY <2>1 DEF TurnRow
  <2>7. RowBacked(u, new, claimed')
    BY <2>2, <2>5, <2>6 DEF RowBacked, LastGrant
  <2>8. \A a \in answered : a.turn # u
    BY <1>2, <2>1 DEF RowAnswers, TurnInv
  <2>9. RowAnswers(u, new, answered')
    BY <2>3, <2>6, <2>8 DEF RowAnswers
  <2>10. /\ claimed' \subseteq [turn : Turns, token : TurnTokens, attempt : 1 .. TurnAttempts]
         /\ answered' \subseteq [turn : Turns, answer : TurnTokens]
         /\ \A a \in answered' : a \in answered \/ a.turn = u
    BY <1>2, <2>2, <2>3 DEF TurnInv, TurnTypeOK
  <2> HIDE DEF new, u, t, held
  <2> QED BY <1>1, <1>2, <2>2, <2>4, <2>7, <2>9, <2>10, OneRow
<1> QED BY <1>3, <1>4

LEMMA FailKeeps ==
  ASSUME TurnInv, NEW h \in Handlers, FailTurn(h)
  PROVE  TurnInv'
<1> DEFINE u == handlers[h].turn
<1>1. handlers' \in [Handlers -> Hand] /\ \A k \in Handlers : Named(handlers'[k])
  BY LetGo DEF FailTurn
<1>2. u \in Turns
  BY DEF FailTurn, TurnInv, Named
<1>3. CASE HoldsTurn(u, handlers[h].token)
  <2>1. turns' = [turns EXCEPT ![u] = FailedRow(u)] /\ UNCHANGED <<answered, claimed>>
    BY <1>3 DEF FailTurn
  <2>2. turns[u].state \in {"processing", "failed"}
    BY <1>3 DEF HoldsTurn
  <2> HIDE DEF u
  <2> QED BY <1>1, <1>2, <2>1, <2>2, FailedKeeps
<1>4. CASE ~HoldsTurn(u, handlers[h].token)
  <2>1. UNCHANGED <<turns, claimed, answered>>
    BY <1>4 DEF FailTurn
  <2> QED BY <1>1, <2>1, NoRow DEF TurnInv, TurnTypeOK
<1> QED BY <1>3, <1>4

\* Time touches leases only.
LEMMA TickKeeps == TurnInv /\ TurnTick => TurnInv'
<1> SUFFICES ASSUME TurnInv, TurnTick PROVE TurnInv'
  OBVIOUS
<1> DEFINE aged(row) == [row EXCEPT !.lease = IF @ = 0 THEN 0 ELSE @ - 1]
<1>1. \A u \in Turns : turns[u] \in TurnRow /\ turns'[u] = aged(turns[u])
  BY DEF TurnInv, TurnTypeOK, TurnTick
<1>2. \A row \in TurnRow :
        /\ aged(row) \in TurnRow /\ aged(row).state = row.state /\ aged(row).token = row.token
        /\ aged(row).answer = row.answer /\ aged(row).attempts = row.attempts
  BY TurnAssumption DEF TurnRow
<1> HIDE DEF aged
<1>3. turns' \in [Turns -> TurnRow]
  <2>1. turns' = [u \in Turns |-> turns'[u]]
    BY DEF TurnTick
  <2> QED BY <1>1, <1>2, <2>1
<1>4. \A u \in Turns :
        /\ turns'[u].state = turns[u].state /\ turns'[u].token = turns[u].token
        /\ turns'[u].answer = turns[u].answer /\ turns'[u].attempts = turns[u].attempts
  BY <1>1, <1>2
<1>5. UNCHANGED <<handlers, answered, claimed>>
  BY DEF TurnTick
<1>6. TurnTypeOK'
  BY <1>3, <1>4, <1>5 DEF TurnInv, TurnTypeOK
<1>7. \A u \in Turns : RowBacked(u, turns'[u], claimed') /\ RowAnswers(u, turns'[u], answered')
  BY <1>4, <1>5 DEF TurnInv, RowBacked, RowAnswers, LastGrant
<1> QED BY <1>5, <1>6, <1>7 DEF TurnInv

LEMMA NextKeeps == TurnInv /\ [TurnNext]_turnVars => TurnInv'
<1> SUFFICES ASSUME TurnInv, [TurnNext]_turnVars PROVE TurnInv'
  OBVIOUS
<1>1. ASSUME NEW h \in Handlers, NEW u \in Turns, NEW b \in Bodies, NEW t \in TurnTokens,
             TurnNew(h, u, b, t)
      PROVE  TurnInv'
  <2>1. /\ [NoTurn EXCEPT !.body = b] \in TurnRow /\ [NoTurn EXCEPT !.body = b].answer = Absent
        /\ [NoTurn EXCEPT !.body = b].attempts < TurnAttempts
    BY TurnAssumption DEF NoTurn, TurnRow
  <2>2. turns[u].state # "completed" /\ Granted(h, u, [NoTurn EXCEPT !.body = b], t)
    BY <1>1 DEF TurnNew
  <2> QED BY <2>1, <2>2, GrantedKeeps
<1>2. ASSUME NEW h \in Handlers, NEW u \in Turns, NEW b \in Bodies, NEW t \in TurnTokens,
             TurnReclaim(h, u, b, t)
      PROVE  TurnInv'
  <2>1. turns[u] \in TurnRow /\ turns[u].state # "completed" /\ turns[u].answer = Absent
    BY <1>2 DEF TurnReclaim, Open, TurnInv, TurnTypeOK
  <2>2. turns[u].attempts < TurnAttempts /\ Granted(h, u, turns[u], t)
    BY <1>2 DEF TurnReclaim
  <2> QED BY <2>1, <2>2, GrantedKeeps
<1>3. ASSUME NEW u \in Turns, NEW b \in Bodies, TurnExhausted(u, b)
      PROVE  TurnInv'
  <2>1. turns[u].state \in {"processing", "failed"}
    BY <1>3 DEF TurnExhausted, Open
  <2>2. handlers' \in [Handlers -> Hand] /\ \A h \in Handlers : Named(handlers'[h])
    BY <1>3 DEF TurnExhausted, TurnInv, TurnTypeOK, Hand
  <2> QED BY <1>3, <2>1, <2>2, FailedKeeps DEF TurnExhausted
<1>4. ASSUME NEW u \in Turns, NEW b \in Bodies, TurnReplay(u, b)
      PROVE  TurnInv'
  <2>1. turns[u].answer \in TurnTokens
    BY <1>4 DEF TurnReplay, TurnInv, TurnTypeOK, TurnRow
  <2>2. answered' \subseteq [turn : Turns, answer : TurnTokens]
    BY <1>4, <2>1 DEF TurnReplay, TurnInv, TurnTypeOK
  <2>3. handlers' \in [Handlers -> Hand] /\ \A h \in Handlers : Named(handlers'[h])
    BY <1>4 DEF TurnReplay, TurnInv, TurnTypeOK, Hand
  <2>4. \A a \in answered' : a \in answered
           \/ (turns[a.turn].state = "completed" /\ turns[a.turn].answer = a.answer)
    BY <1>4 DEF TurnReplay
  <2> QED BY <1>4, <2>2, <2>3, <2>4, NoRow DEF TurnReplay
<1>5. ASSUME NEW h \in Handlers, Throws(h) \/ TurnDies(h)
      PROVE  TurnInv'
  <2>1. handlers' \in [Handlers -> Hand] /\ \A k \in Handlers : Named(handlers'[k])
    BY <1>5, LetGo DEF Throws, TurnDies
  <2>2. UNCHANGED <<turns, claimed, answered>>
    BY <1>5 DEF Throws, TurnDies
  <2> QED BY <2>1, <2>2, NoRow DEF TurnInv, TurnTypeOK
<1>6. CASE UNCHANGED turnVars
  BY <1>6 DEF turnVars, TurnInv, TurnTypeOK
<1> QED
  BY <1>1, <1>2, <1>3, <1>4, <1>5, <1>6, FinishKeeps, FailKeeps, TickKeeps DEF TurnNext

-----------------------------------------------------------------------------
\* Every answer given to a turn with status 200 is the one its row keeps and belongs
\* to its last claim, whatever requests run at once, fail, outlive their lease or die
\* (claim, finish and fail of migration 202607170001 under the turn route).
THEOREM TurnsHaveOneAnswer == TurnSpec => []TurnsInvariant
<1>1. TurnInv => TurnsInvariant
  BY DEF TurnInv, TurnsInvariant, OneAnswer, RowBacked, RowAnswers, LastGrant, TurnTypeOK
<1> QED BY <1>1, InitInv, NextKeeps, PTL DEF TurnSpec

-----------------------------------------------------------------------------
(* Reminders.  The ledger hands an operation out once; what an execution   *)
(* may still do with its grant, and what the rows owe to it, is the rest.  *)

\* An execution that was given the operation and may still finish it.
HasClaim(w) ==
  exec[w].phase \in {"send", "finish"} \/ (exec[w].phase = "mark" /\ exec[w].caught)

InHand(w, r) == exec[w].rem = r /\ exec[w].phase \in {"claim", "send", "finish", "mark"}

\* What an execution knows of the operation: its claim is the grant it was given; until
\* it returns from the carrier nothing was sent and nobody knows better; and what it
\* finishes with tells whether the message went out.
ExecOK(w) ==
  LET e == exec[w] IN
  /\ e.phase # "idle" => e.rem \in Jobs
  /\ e.phase \in {"finish", "mark"} => e.outcome \in Outcomes
  /\ HasClaim(w) => [op |-> e.rem, owner |-> Owner, token |-> e.token] \in granted
  /\ e.phase = "send" => ops[e.rem].state \in {"in_flight", "failed_unknown"} /\ sent[e.rem] = 0
  /\ HasClaim(w) /\ e.phase # "send" /\ e.outcome = "succeeded" => sent[e.rem] = 1
  /\ HasClaim(w) /\ e.phase # "send" /\ e.outcome = "failed_terminal" => sent[e.rem] = 0
  /\ e.phase = "mark" => ops[e.rem].state \in Outcomes

ClaimsUnique ==
  \A w, v \in Workers : HasClaim(w) /\ HasClaim(v) /\ exec[w].rem = exec[v].rem => w = v

\* RowsAgree, DeliveredIffReceipt and OutcomeIsBacked, of one reminder.
Told(r) ==
  LET row == reminders[r] IN
  /\ row.delivery = IF row.status = "scheduled" THEN "planned" ELSE row.status
  /\ row.status = "delivered" <=> "delivered" \in receipts[r]
  /\ row.status = "accepted" => ops[r].state = "succeeded" /\ sent[r] = 1
  /\ row.status = "failed" => ops[r].state = "failed_terminal" \/ "failed" \in receipts[r]
  /\ row.status = "failed_unknown" =>
       \/ ops[r].state = "failed_unknown" /\ receipts[r] = {}
       \/ ops[r].state = "succeeded" /\ receipts[r] = {"other"}

\* A message went out under a grant; what the operation says of it is true, unless a
\* receipt said that it failed, which the row then shows.
SentOK(r) ==
  /\ sent[r] \in {0, 1}
  /\ sent[r] = 1 => \E g \in granted : g.op = r
  /\ ops[r].state = "succeeded" => sent[r] = 1
  /\ ops[r].state = "failed_terminal" /\ sent[r] = 1 =>
       reminders[r].status \in {"failed", "delivered"}
  /\ receipts[r] # {} => ops[r].state \in Proven

\* A withdrawn reminder is in no execution's hands and will not be prepared again.
WithdrawnOK(r) ==
  /\ sent[r] = 0
  /\ \A w \in Workers : ~InHand(w, r)
  /\ ~eligible \/ stopped \/ reminders[r].status = "cancelled"

\* The outbox makes the job once, and only a job that is held has a holder.
JobOK(r) ==
  /\ reminders[r].status = "none" => reminders[r].outbox = "none"
  /\ reminders[r].outbox # "enqueued" => job[r].phase = "absent"
  /\ job[r].phase # "held" => job[r].holder = None

\* Before a reminder is prepared no execution can send it.
Unprepared(r) == reminders[r].status \in {"none", "scheduled"}
PreparedFirst ==
  \A r \in Jobs : Unprepared(r) => sent[r] = 0 /\ \A w \in Workers : ~InHand(w, r)

ReminderInv ==
  /\ ReminderTypeOK /\ ClaimedByGrant /\ NeverReassigned /\ ClaimsUnique
  /\ \A w \in Workers : ExecOK(w)
  /\ \A r \in Jobs : Told(r) /\ SentOK(r) /\ JobOK(r)
  /\ \A r \in withdrawn : WithdrawnOK(r)

-----------------------------------------------------------------------------
(* Facts about one reminder and one execution.                             *)

LEMMA ReminderMembers ==
  ASSUME ReminderConstants
  PROVE  /\ Owner \in Owners /\ Sha \in Hashes /\ Owner # Nil
         /\ Nil \notin Tokens
BY OperationsAssumption DEF ReminderConstants, Owner, Sha

LEMMA ReminderRows ==
  ASSUME ReminderConstants, ReminderInv, NEW r \in Jobs
  PROVE  /\ ops[r] \in Operation /\ reminders[r] \in Reminder
         /\ Told(r) /\ SentOK(r) /\ JobOK(r)
BY DEF ReminderConstants, ReminderInv, ReminderTypeOK, OpTypeOK

LEMMA ExecutionRow ==
  ASSUME ReminderInv, NEW w \in Workers
  PROVE  /\ exec[w] \in Execution /\ ExecOK(w)
         /\ exec[w].phase # "idle" => exec[w].rem \in Jobs
BY DEF ReminderInv, ReminderTypeOK, ExecOK

LEMMA AsleepRow ==
  /\ Asleep \in Execution /\ Asleep.phase = "idle"
BY DEF Asleep, Execution

\* An operation that was granted is in flight under that grant, or settled.
LEMMA GrantedState ==
  ASSUME ReminderConstants, ReminderInv, NEW g \in granted
  PROVE  /\ ops[g.op].state \in {"in_flight"} \cup Outcomes
         /\ ops[g.op].state = "in_flight" => HoldsOperation(g.op, g.owner, g.token)
<1>1. g \in Grant /\ granted \subseteq Grant /\ ops[g.op] \in Operation /\ g.op \in Ops
  BY DEF ReminderInv, ReminderTypeOK, OpTypeOK, Grant
<1>2. ops[g.op].claims > 0
  BY <1>1 DEF ReminderInv, ClaimedByGrant
<1>3. ops[g.op].state \in {"in_flight"} \cup Outcomes
  BY <1>1, <1>2 DEF ReminderInv, ClaimedByGrant, Operation, OpStates, Outcomes
<1>4. ASSUME ops[g.op].state = "in_flight"
      PROVE  HoldsOperation(g.op, g.owner, g.token)
  <2>1. PICK h \in granted : h = [op |-> g.op, owner |-> ops[g.op].owner,
                                  token |-> ops[g.op].token]
    BY <1>1, <1>2, <1>4 DEF ReminderInv, ClaimedByGrant
  <2>2. h = g
    BY <2>1 DEF ReminderInv, NeverReassigned
  <2> QED BY <1>4, <2>1, <2>2 DEF HoldsOperation
<1> QED BY <1>3, <1>4

LEMMA ClaimHolds ==
  ASSUME ReminderConstants, ReminderInv, NEW w \in Workers, HasClaim(w)
  PROVE  /\ exec[w].rem \in Jobs
         /\ ops[exec[w].rem].state \in {"in_flight"} \cup Outcomes
         /\ ops[exec[w].rem].state = "in_flight" =>
              HoldsOperation(exec[w].rem, Owner, exec[w].token)
<1>1. exec[w].rem \in Jobs
  BY ExecutionRow DEF HasClaim
<1>2. PICK g \in granted : g = [op |-> exec[w].rem, owner |-> Owner, token |-> exec[w].token]
  BY ExecutionRow DEF ExecOK
<1> QED BY <1>1, <1>2, GrantedState

\* What was granted to nobody has sent nothing and is nobody's.
LEMMA UngrantedIsFree ==
  ASSUME ReminderConstants, ReminderInv, NEW r \in Jobs,
         ops[r].state \in {"absent", "planned"}
  PROVE  /\ \A g \in granted : g.op # r
         /\ sent[r] = 0 /\ receipts[r] = {}
         /\ \A w \in Workers : exec[w].rem = r => ~HasClaim(w) /\ exec[w].phase # "mark"
<1>1. \A g \in granted : g.op # r
  BY GrantedState DEF Outcomes, Proven
<1>2. sent[r] = 0
  BY <1>1, ReminderRows DEF SentOK
<1>3. receipts[r] = {}
  BY ReminderRows DEF SentOK, Proven
<1>4. ASSUME NEW w \in Workers, exec[w].rem = r
      PROVE  ~HasClaim(w) /\ exec[w].phase # "mark"
  BY <1>4, ClaimHolds, ExecutionRow DEF ExecOK, Outcomes, Proven
<1> QED BY <1>1, <1>2, <1>3, <1>4

LEMMA LedgerMoves ==
  ASSUME ReminderInv, [OpNext]_opVars
  PROVE  OpTypeOK' /\ ClaimedByGrant' /\ NeverReassigned'
<1>1. OpTypeOK /\ ClaimedByGrant /\ NeverReassigned
  BY DEF ReminderInv, ReminderTypeOK
<1> QED BY <1>1, OpTypeInductive, ClaimedByGrantInductive, NeverReassignedInductive

LEMMA LedgerStays ==
  ASSUME ReminderInv, UNCHANGED <<ops, granted>>
  PROVE  OpTypeOK' /\ ClaimedByGrant' /\ NeverReassigned'
BY LedgerMoves DEF opVars

-----------------------------------------------------------------------------
(* Steps of an execution.                                                  *)

LEMMA HandlerMoves ==
  ASSUME ReminderInv, NEW w \in Workers, NEW row \in Execution,
         exec' = [exec EXCEPT ![w] = row],
         ReminderTypeOK', ClaimedByGrant', NeverReassigned', granted \subseteq granted',
         ExecOK(w)',
         \A v \in Workers \ {w} :
           /\ HasClaim(v) /\ HasClaim(w)' => exec[v].rem # row.rem
           /\ HasClaim(v) => sent'[exec[v].rem] = sent[exec[v].rem]
           /\ exec[v].phase = "send" =>
                ops'[exec[v].rem].state \in {"in_flight", "failed_unknown"}
           /\ exec[v].phase = "mark" => ops'[exec[v].rem].state \in Outcomes,
         \A r \in Jobs : Told(r)' /\ SentOK(r)' /\ JobOK(r)',
         UNCHANGED <<withdrawn, eligible, stopped>>,
         \A r \in withdrawn :
           /\ sent'[r] = 0
           /\ InHand(w, r)' => InHand(w, r)
           /\ reminders[r].status = "cancelled" => reminders'[r].status = "cancelled"
  PROVE  ReminderInv'
<1>1. exec'[w] = row /\ \A v \in Workers : v # w => exec'[v] = exec[v]
  BY DEF ReminderInv, ReminderTypeOK
<1>2. ASSUME NEW v \in Workers
      PROVE  ExecOK(v)'
  <2>1. CASE v # w
    <3>1. exec'[v] = exec[v] /\ (HasClaim(v)' <=> HasClaim(v))
      BY <1>1, <2>1 DEF HasClaim
    <3>2. exec[v].phase = "send" => HasClaim(v)
      BY DEF HasClaim
    <3> QED BY <2>1, <3>1, <3>2, ExecutionRow DEF ExecOK
  <2> QED BY <2>1
<1>3. ClaimsUnique'
  <2> SUFFICES ASSUME NEW u \in Workers, NEW v \in Workers, HasClaim(u)', HasClaim(v)',
                      exec'[u].rem = exec'[v].rem
               PROVE  u = v
    BY DEF ClaimsUnique
  <2>1. CASE u = w \/ v = w
    BY <1>1, <2>1 DEF HasClaim
  <2>2. CASE u # w /\ v # w
    BY <1>1, <2>2 DEF HasClaim, ReminderInv, ClaimsUnique
  <2> QED BY <2>1, <2>2
<1>4. ASSUME NEW r \in withdrawn'
      PROVE  WithdrawnOK(r)'
  <2>1. WithdrawnOK(r)
    BY DEF ReminderInv
  <2>2. ASSUME NEW v \in Workers
        PROVE  ~InHand(v, r)'
    BY <1>1, <2>1 DEF WithdrawnOK, InHand
  <2> QED BY <2>1, <2>2 DEF WithdrawnOK
<1> QED BY <1>2, <1>3, <1>4 DEF ReminderInv

\* A step that leaves the rows, the ledger and the carrier alone.
LEMMA HandlerGoes ==
  ASSUME ReminderConstants, ReminderInv, NEW w \in Workers, NEW row \in Execution,
         exec' = [exec EXCEPT ![w] = row],
         UNCHANGED <<ops, granted, sent, reminderVars>>,
         job' \in [Jobs -> [phase : {"absent", "waiting", "held", "settled"},
                            holder : Workers \cup {None}, attempt : 0 .. MaxAttempts]],
         \A r \in Jobs : JobOK(r)',
         ExecOK(w)',
         HasClaim(w)' => HasClaim(w) /\ row.rem = exec[w].rem,
         \A r \in withdrawn : InHand(w, r)' => InHand(w, r)
  PROVE  ReminderInv'
<1>1. ReminderTypeOK' /\ ClaimedByGrant' /\ NeverReassigned'
  BY LedgerStays DEF ReminderInv, ReminderTypeOK, reminderVars
<1>2. \A r \in Jobs : Told(r)' /\ SentOK(r)' /\ JobOK(r)'
  BY ReminderRows DEF Told, SentOK, reminderVars
<1>3. ASSUME NEW v \in Workers \ {w}
      PROVE  /\ HasClaim(v) /\ HasClaim(w)' => exec[v].rem # row.rem
             /\ HasClaim(v) => sent'[exec[v].rem] = sent[exec[v].rem]
             /\ exec[v].phase = "send" =>
                  ops'[exec[v].rem].state \in {"in_flight", "failed_unknown"}
             /\ exec[v].phase = "mark" => ops'[exec[v].rem].state \in Outcomes
  <2>1. HasClaim(v) /\ HasClaim(w)' => exec[v].rem # row.rem
    BY DEF ReminderInv, ClaimsUnique
  <2> QED BY <2>1, ExecutionRow DEF ExecOK, reminderVars
<1>4. ASSUME NEW r \in withdrawn
      PROVE  /\ sent'[r] = 0
             /\ reminders[r].status = "cancelled" => reminders'[r].status = "cancelled"
  BY DEF ReminderInv, WithdrawnOK, reminderVars
<1>5. UNCHANGED <<withdrawn, eligible, stopped>>
  BY DEF reminderVars
<1> QED BY <1>1, <1>2, <1>3, <1>4, <1>5, HandlerMoves

\* The same, by one step of an execution that goes on with its reminder.
LEMMA HandlerSteps ==
  ASSUME ReminderConstants, ReminderInv, NEW w \in Workers, NEW row \in Execution,
         exec' = [exec EXCEPT ![w] = row],
         UNCHANGED <<job, ops, granted, sent, reminderVars>>,
         ExecOK(w)',
         HasClaim(w)' => HasClaim(w),
         row.rem = exec[w].rem,
         row.phase \in {"claim", "send", "finish", "mark"} =>
           exec[w].phase \in {"claim", "send", "finish", "mark"}
  PROVE  ReminderInv'
<1>1. job \in [Jobs -> [phase : {"absent", "waiting", "held", "settled"},
                        holder : Workers \cup {None}, attempt : 0 .. MaxAttempts]]
  BY DEF ReminderInv, ReminderTypeOK
<1>2. \A r \in Jobs : JobOK(r)'
  BY ReminderRows DEF JobOK, reminderVars
<1>3. exec'[w] = row
  BY DEF ReminderInv, ReminderTypeOK
<1>4. \A r \in withdrawn : InHand(w, r)' => InHand(w, r)
  BY <1>3 DEF InHand
<1> QED BY <1>1, <1>2, <1>4, HandlerGoes

\* The execution lets its reminder go.
LEMMA StepsAside ==
  ASSUME ReminderConstants, ReminderInv, NEW w \in Workers, NEW phase \in {"done", "retry"},
         exec[w].phase # "idle", Step(w, phase),
         UNCHANGED <<job, ops, granted, sent, reminderVars>>
  PROVE  ReminderInv'
<1>1. PICK row : row = [exec[w] EXCEPT !.phase = phase]
  OBVIOUS
<1>2. exec[w] \in Execution /\ exec[w].rem \in Jobs
  BY ExecutionRow
<1>3. row \in Execution /\ row.phase = phase /\ row.rem = exec[w].rem
  BY <1>1, <1>2 DEF Execution
<1>4. exec' = [exec EXCEPT ![w] = row] /\ exec'[w] = row
  BY <1>1 DEF Step, ReminderInv, ReminderTypeOK
<1>5. ExecOK(w)' /\ ~HasClaim(w)'
  BY <1>2, <1>3, <1>4 DEF ExecOK, HasClaim
<1> QED BY <1>3, <1>4, <1>5, HandlerSteps

LEMMA PlainStepsKeep ==
  ASSUME ReminderConstants, ReminderInv, NEW w \in Workers,
         PrepareTerminal(w) \/ PrepareDeferred(w) \/ ClaimBusy(w) \/ PrepareOrClaimThrows(w)
  PROVE  ReminderInv'
<1>1. UNCHANGED <<job, ops, granted, sent, reminderVars>> /\ exec[w].phase # "idle"
  BY DEF PrepareTerminal, PrepareDeferred, ClaimBusy, PrepareOrClaimThrows
<1>2. Step(w, "done") \/ Step(w, "retry")
  BY DEF PrepareTerminal, PrepareDeferred, ClaimBusy, PrepareOrClaimThrows
<1> QED BY <1>1, <1>2, StepsAside

\* The row of an execution that goes on with an outcome.
LEMMA SettlingRow ==
  ASSUME ReminderInv, NEW w \in Workers, NEW phase \in {"finish", "mark"},
         NEW outcome \in Outcomes, NEW caught \in BOOLEAN, exec[w].phase # "idle",
         Settling(w, phase, outcome, caught)
  PROVE  \E row \in Execution :
           /\ exec' = [exec EXCEPT ![w] = row] /\ exec'[w] = row
           /\ row.phase = phase /\ row.outcome = outcome /\ row.caught = caught
           /\ row.rem = exec[w].rem /\ row.token = exec[w].token
           /\ HasClaim(w)' <=> phase = "finish" \/ caught
<1>1. PICK row : row = [exec[w] EXCEPT !.phase = phase, !.outcome = outcome, !.caught = caught]
  OBVIOUS
<1>2. exec[w] \in Execution
  BY ExecutionRow
<1>3. /\ row \in Execution /\ row.phase = phase /\ row.outcome = outcome
      /\ row.caught = caught /\ row.rem = exec[w].rem /\ row.token = exec[w].token
  BY <1>1, <1>2 DEF Execution
<1>4. exec' = [exec EXCEPT ![w] = row] /\ exec'[w] = row
  BY <1>1 DEF Settling, ReminderInv, ReminderTypeOK
<1> QED BY <1>3, <1>4 DEF HasClaim

\* An execution that settles without a change of rows: what it goes on with must be true.
LEMMA SettlesQuietly ==
  ASSUME ReminderConstants, ReminderInv, NEW w \in Workers, NEW phase \in {"finish", "mark"},
         NEW outcome \in Outcomes, NEW caught \in BOOLEAN,
         exec[w].phase \in {"claim", "send", "finish", "mark"},
         Settling(w, phase, outcome, caught),
         UNCHANGED <<job, ops, granted, sent, reminderVars>>,
         phase = "finish" \/ caught => HasClaim(w),
         phase = "mark" => ops[exec[w].rem].state \in Outcomes,
         outcome = "succeeded" /\ (phase = "finish" \/ caught) => sent[exec[w].rem] = 1,
         outcome = "failed_terminal" /\ (phase = "finish" \/ caught) => sent[exec[w].rem] = 0
  PROVE  ReminderInv'
<1>1. PICK row \in Execution :
        /\ exec' = [exec EXCEPT ![w] = row] /\ exec'[w] = row
        /\ row.phase = phase /\ row.outcome = outcome /\ row.caught = caught
        /\ row.rem = exec[w].rem /\ row.token = exec[w].token
        /\ HasClaim(w)' <=> phase = "finish" \/ caught
  BY SettlingRow
<1>2. exec[w].rem \in Jobs /\ ExecOK(w)
  BY ExecutionRow
<1>3. ExecOK(w)'
  BY <1>1, <1>2 DEF ExecOK
<1> QED BY <1>1, <1>3, HandlerSteps

LEMMA StartKeeps ==
  ASSUME ReminderConstants, ReminderInv, NEW w \in Workers, NEW r \in Jobs, StartHandler(w, r)
  PROVE  ReminderInv'
<1>1. PICK row : row = [Asleep EXCEPT !.phase = "prepare", !.rem = r]
  OBVIOUS
<1>2. row \in Execution /\ row.phase = "prepare" /\ row.rem = r
  BY <1>1 DEF Asleep, Execution
<1>3. exec' = [exec EXCEPT ![w] = row] /\ exec'[w] = row
  BY <1>1 DEF StartHandler, ReminderInv, ReminderTypeOK
<1>4. /\ job \in [Jobs -> [phase : {"absent", "waiting", "held", "settled"},
                           holder : Workers \cup {None}, attempt : 0 .. MaxAttempts]]
      /\ job[r].phase = "waiting" /\ job' = [job EXCEPT ![r] = Held(w, job[r].attempt + 1)]
      /\ Held(w, job[r].attempt + 1) \in Successors(r)
      /\ UNCHANGED <<ops, granted, sent, reminderVars>>
  BY DEF StartHandler, ReminderInv, ReminderTypeOK
<1>5. job[r].attempt < MaxAttempts
  <2>1. Held(w, job[r].attempt + 1) # Over(job[r].attempt)
    BY DEF Held, Over
  <2> QED BY <1>4, <2>1 DEF Successors
<1>6. job' \in [Jobs -> [phase : {"absent", "waiting", "held", "settled"},
                         holder : Workers \cup {None}, attempt : 0 .. MaxAttempts]]
  <2>1. job[r].attempt + 1 \in 0 .. MaxAttempts
    BY <1>4, <1>5 DEF ReminderConstants
  <2> QED BY <1>4, <2>1 DEF Held
<1>7. \A q \in Jobs : JobOK(q)'
  BY <1>4, ReminderRows DEF JobOK, Held, reminderVars
<1>8. ExecOK(w)' /\ ~HasClaim(w)' /\ \A q \in withdrawn : ~InHand(w, q)'
  BY <1>2, <1>3 DEF ExecOK, HasClaim, InHand
<1> QED BY <1>2, <1>3, <1>4, <1>6, <1>7, <1>8, HandlerGoes

\* An execution that is gone has no claim and nothing in hand.
LEMMA FallsAsleep ==
  ASSUME ReminderInv, NEW w \in Workers, exec' = [exec EXCEPT ![w] = Asleep]
  PROVE  /\ Asleep \in Execution
         /\ ExecOK(w)' /\ ~HasClaim(w)' /\ \A r \in withdrawn : ~InHand(w, r)'
<1>1. exec'[w] = Asleep
  BY DEF ReminderInv, ReminderTypeOK
<1> QED BY <1>1, AsleepRow DEF ExecOK, HasClaim, InHand

LEMMA CrashKeeps ==
  ASSUME ReminderConstants, ReminderInv, NEW w \in Workers, Crash(w)
  PROVE  ReminderInv'
<1>1. /\ exec' = [exec EXCEPT ![w] = Asleep]
      /\ UNCHANGED <<job, ops, granted, sent, reminderVars>>
  BY DEF Crash
<1>2. job' \in [Jobs -> [phase : {"absent", "waiting", "held", "settled"},
                         holder : Workers \cup {None}, attempt : 0 .. MaxAttempts]]
  BY <1>1 DEF ReminderInv, ReminderTypeOK
<1>3. \A r \in Jobs : JobOK(r)'
  BY <1>1, ReminderRows DEF JobOK, reminderVars
<1>4. PICK row \in Execution : row = Asleep
  BY AsleepRow
<1> QED BY <1>1, <1>2, <1>3, <1>4, FallsAsleep, HandlerGoes

LEMMA ReturnKeeps ==
  ASSUME ReminderConstants, ReminderInv, NEW w \in Workers, Return(w)
  PROVE  ReminderInv'
<1>1. /\ exec' = [exec EXCEPT ![w] = Asleep]
      /\ UNCHANGED <<ops, granted, sent, reminderVars>>
      /\ job \in [Jobs -> [phase : {"absent", "waiting", "held", "settled"},
                           holder : Workers \cup {None}, attempt : 0 .. MaxAttempts]]
  BY DEF Return, ReminderInv, ReminderTypeOK
<1>2. PICK r \in Jobs : r = exec[w].rem
  BY ExecutionRow DEF Return
<1>3. CASE job[r].holder # w
  <2>1. UNCHANGED job
    BY <1>2, <1>3 DEF Return, Rem
  <2>2. \A q \in Jobs : JobOK(q)'
    BY <1>1, <2>1, ReminderRows DEF JobOK, reminderVars
  <2>3. PICK row \in Execution : row = Asleep
    BY AsleepRow
  <2> QED BY <1>1, <2>1, <2>2, <2>3, FallsAsleep, HandlerGoes
<1>4. CASE job[r].holder = w
  <2>1. PICK next \in {Waiting(job[r].attempt), Over(job[r].attempt)} :
          job' = [job EXCEPT ![r] = next]
    BY <1>2, <1>4 DEF Return, Rem
  <2>2. /\ next \in [phase : {"absent", "waiting", "held", "settled"},
                     holder : Workers \cup {None}, attempt : 0 .. MaxAttempts]
        /\ next.holder = None
    BY <1>1 DEF Waiting, Over
  <2>3. job[r].phase # "absent"
    BY <1>4, ReminderRows DEF JobOK, ReminderConstants
  <2>4. \A q \in Jobs : JobOK(q)'
    BY <1>1, <2>1, <2>2, <2>3, ReminderRows DEF JobOK, reminderVars
  <2>5. PICK row \in Execution : row = Asleep
    BY AsleepRow
  <2>6. job' \in [Jobs -> [phase : {"absent", "waiting", "held", "settled"},
                           holder : Workers \cup {None}, attempt : 0 .. MaxAttempts]]
    BY <1>1, <2>1, <2>2
  <2> QED BY <1>1, <2>4, <2>5, <2>6, FallsAsleep, HandlerGoes
<1> QED BY <1>3, <1>4

\* The queue alone moves: a lease runs out, a job is taken back or given up.
LEMMA QueueKeeps ==
  ASSUME ReminderConstants, ReminderInv, NEW r \in Jobs,
         LapseJob(r) \/ Interrupt(r) \/ DeadLetter(r)
  PROVE  ReminderInv'
<1>1. /\ job \in [Jobs -> [phase : {"absent", "waiting", "held", "settled"},
                           holder : Workers \cup {None}, attempt : 0 .. MaxAttempts]]
      /\ job[r].phase # "absent"
      /\ UNCHANGED <<ops, granted, exec, sent, reminderVars>>
  BY DEF LapseJob, Interrupt, DeadLetter, ReminderInv, ReminderTypeOK
<1>2. PICK next \in {Waiting(job[r].attempt), Over(job[r].attempt)} :
        job' = [job EXCEPT ![r] = next]
  BY DEF LapseJob, Interrupt, DeadLetter
<1>3. /\ next \in [phase : {"absent", "waiting", "held", "settled"},
                   holder : Workers \cup {None}, attempt : 0 .. MaxAttempts]
      /\ next.holder = None
  BY <1>1 DEF Waiting, Over
<1>4. /\ job' \in [Jobs -> [phase : {"absent", "waiting", "held", "settled"},
                            holder : Workers \cup {None}, attempt : 0 .. MaxAttempts]]
      /\ \A q \in Jobs : JobOK(q)'
  BY <1>1, <1>2, <1>3, ReminderRows DEF JobOK, reminderVars
<1>5. ReminderTypeOK' /\ ClaimedByGrant' /\ NeverReassigned'
  BY <1>1, <1>4, LedgerStays DEF ReminderInv, ReminderTypeOK, reminderVars
<1>6. ClaimsUnique'
  BY <1>1 DEF ReminderInv, ClaimsUnique, HasClaim
<1>7. \A w \in Workers : ExecOK(w)'
  BY <1>1, ExecutionRow DEF ExecOK, HasClaim
<1>8. \A q \in Jobs : Told(q)' /\ SentOK(q)'
  BY <1>1, ReminderRows DEF Told, SentOK, reminderVars
<1>9. \A q \in withdrawn' : WithdrawnOK(q)'
  BY <1>1 DEF ReminderInv, WithdrawnOK, InHand, reminderVars
<1> QED BY <1>4, <1>5, <1>6, <1>7, <1>8, <1>9 DEF ReminderInv

-----------------------------------------------------------------------------
(* Steps that move rows which no outcome has reached.                      *)

\* A row stays as it is, or moves from where nothing is known of an outcome to where
\* nothing is claimed of one.
LEMMA RowMoves ==
  ASSUME ReminderConstants, ReminderInv, NEW r \in Jobs,
         UNCHANGED <<ops, granted, sent, receipts>>,
         \/ /\ reminders'[r].status = reminders[r].status
            /\ reminders'[r].delivery = reminders[r].delivery
         \/ /\ reminders[r].status \in {"none"} \cup Pending
            /\ \/ reminders'[r].status = "scheduled" /\ reminders'[r].delivery = "planned"
               \/ /\ reminders'[r].status \in {"queued", "cancelled", "suppressed"}
                  /\ reminders'[r].delivery = reminders'[r].status
  PROVE  Told(r)' /\ SentOK(r)'
BY ReminderRows DEF Told, SentOK, Pending

LEMMA RowsMove ==
  ASSUME ReminderInv, UNCHANGED <<ops, granted, exec, sent>>, ReminderTypeOK',
         \A r \in Jobs : Told(r)' /\ SentOK(r)' /\ JobOK(r)',
         \A r \in withdrawn' : WithdrawnOK(r)'
  PROVE  ReminderInv'
<1>1. ClaimedByGrant' /\ NeverReassigned'
  BY LedgerStays
<1>2. ClaimsUnique'
  BY DEF ReminderInv, ClaimsUnique, HasClaim
<1>3. \A w \in Workers : ExecOK(w)'
  BY ExecutionRow DEF ExecOK, HasClaim
<1> QED BY <1>1, <1>2, <1>3 DEF ReminderInv

LEMMA OutOfHandRows ==
  ASSUME ReminderInv, NEW S \in SUBSET Jobs, NEW r \in OutOfHand(S)
  PROVE  r \in S /\ sent[r] = 0 /\ \A w \in Workers : ~InHand(w, r)
BY DEF OutOfHand, InHand

LEMMA ScheduleKeeps ==
  ASSUME ReminderConstants, ReminderInv, NEW r \in Jobs, Schedule(r)
  PROVE  ReminderInv'
<1>1. /\ reminders[r].status = "none" /\ reminders \in [Jobs -> Reminder]
      /\ UNCHANGED <<job, ops, granted, exec, sent, receipts, eligible, stopped, withdrawn>>
  BY DEF Schedule, ReminderInv, ReminderTypeOK
<1>2. PICK row : row = [reminders[r] EXCEPT !.status = "scheduled", !.delivery = "planned",
                                            !.outbox = "pending"]
  OBVIOUS
<1>3. /\ row \in Reminder /\ row.status = "scheduled" /\ row.delivery = "planned"
      /\ row.outbox = "pending"
  BY <1>1, <1>2 DEF Reminder, Pending
<1>4. /\ reminders' = [reminders EXCEPT ![r] = row] /\ reminders'[r] = row
      /\ \A q \in Jobs : q # r => reminders'[q] = reminders[q]
  BY <1>1, <1>2 DEF Schedule
<1>5. ReminderTypeOK'
  BY <1>1, <1>3, <1>4, LedgerStays DEF ReminderInv, ReminderTypeOK
<1>6. \A q \in Jobs : Told(q)' /\ SentOK(q)'
  BY <1>1, <1>3, <1>4, RowMoves
<1>7. \A q \in Jobs : JobOK(q)'
  BY <1>1, <1>3, <1>4, ReminderRows DEF JobOK
<1>8. \A q \in withdrawn' : WithdrawnOK(q)'
  BY <1>1, <1>4 DEF ReminderInv, ReminderTypeOK, WithdrawnOK, InHand
<1> QED BY <1>1, <1>5, <1>6, <1>7, <1>8, RowsMove

LEMMA DispatchKeeps ==
  ASSUME ReminderConstants, ReminderInv, NEW r \in Jobs, Dispatch(r)
  PROVE  ReminderInv'
<1>1. /\ reminders[r].outbox = "pending" /\ reminders \in [Jobs -> Reminder]
      /\ UNCHANGED <<ops, granted, exec, sent, receipts, eligible, stopped, withdrawn>>
      /\ job' = [job EXCEPT ![r] = Waiting(0)]
      /\ job \in [Jobs -> [phase : {"absent", "waiting", "held", "settled"},
                           holder : Workers \cup {None}, attempt : 0 .. MaxAttempts]]
  BY DEF Dispatch, ReminderInv, ReminderTypeOK
<1>2. PICK row : row = [reminders[r] EXCEPT !.outbox = "enqueued"]
  OBVIOUS
<1>3. /\ row \in Reminder /\ row.status = reminders[r].status
      /\ row.delivery = reminders[r].delivery /\ row.outbox = "enqueued"
  BY <1>1, <1>2 DEF Reminder
<1>4. /\ reminders' = [reminders EXCEPT ![r] = row] /\ reminders'[r] = row
      /\ \A q \in Jobs : q # r => reminders'[q] = reminders[q]
  BY <1>1, <1>2 DEF Dispatch
<1>5. /\ job' \in [Jobs -> [phase : {"absent", "waiting", "held", "settled"},
                            holder : Workers \cup {None}, attempt : 0 .. MaxAttempts]]
      /\ job'[r].holder = None /\ \A q \in Jobs : q # r => job'[q] = job[q]
  <2>1. 0 \in 0 .. MaxAttempts
    BY DEF ReminderConstants
  <2> QED BY <1>1, <2>1 DEF Waiting
<1>6. ReminderTypeOK'
  BY <1>1, <1>3, <1>4, <1>5, LedgerStays DEF ReminderInv, ReminderTypeOK
<1>7. \A q \in Jobs : Told(q)' /\ SentOK(q)'
  BY <1>1, <1>3, <1>4, RowMoves
<1>8. \A q \in Jobs : JobOK(q)'
  BY <1>1, <1>3, <1>4, <1>5, ReminderRows DEF JobOK
<1>9. \A q \in withdrawn' : WithdrawnOK(q)'
  BY <1>1, <1>3, <1>4 DEF ReminderInv, ReminderTypeOK, WithdrawnOK, InHand
<1> QED BY <1>1, <1>6, <1>7, <1>8, <1>9, RowsMove

\* Nothing has an outcome before the reminder has one.
LEMMA StoodDownRow ==
  ASSUME ReminderConstants, ReminderInv, NEW r \in Jobs, NEW status,
         reminders[r].status \in Pending
  PROVE  StoodDown(r, status) = [reminders[r] EXCEPT !.status = status, !.delivery = status]
<1>1. reminders[r].delivery \in {"planned", "queued"}
  BY ReminderRows DEF Told, Pending
<1> QED BY <1>1 DEF StoodDown

LEMMA CancelKeeps ==
  ASSUME ReminderConstants, ReminderInv, NEW r \in Jobs, Cancel(r)
  PROVE  ReminderInv'
<1>1. /\ reminders[r].status \in Pending /\ reminders \in [Jobs -> Reminder]
      /\ UNCHANGED <<job, ops, granted, exec, sent, receipts, eligible, stopped>>
      /\ withdrawn' = withdrawn \cup OutOfHand({r}) /\ withdrawn \subseteq Jobs
  BY DEF Cancel, ReminderInv, ReminderTypeOK
<1>2. PICK row : row = [StoodDown(r, "cancelled") EXCEPT
                          !.outbox = IF @ = "pending" THEN "failed" ELSE @]
  OBVIOUS
<1>3. StoodDown(r, "cancelled") = [reminders[r] EXCEPT !.status = "cancelled",
                                                       !.delivery = "cancelled"]
  BY <1>1, StoodDownRow
<1>4. /\ row \in Reminder /\ row.status = "cancelled" /\ row.delivery = "cancelled"
      /\ row.outbox \in {"failed", reminders[r].outbox}
      /\ row.outbox = "enqueued" <=> reminders[r].outbox = "enqueued"
  <2>1. reminders[r] \in Reminder
    BY <1>1
  <2>2. PICK before \in Reminder : before = StoodDown(r, "cancelled")
    BY <1>3, <2>1 DEF Reminder, Final
  <2>3. /\ before.status = "cancelled" /\ before.delivery = "cancelled"
        /\ before.outbox = reminders[r].outbox
    BY <1>3, <2>1, <2>2 DEF Reminder
  <2>4. PICK box \in {"failed", reminders[r].outbox} :
          box = IF before.outbox = "pending" THEN "failed" ELSE before.outbox
    BY <2>3
  <2>5. row = [before EXCEPT !.outbox = box]
    BY <1>2, <2>2, <2>4
  <2>6. box = "enqueued" <=> reminders[r].outbox = "enqueued"
    BY <2>3, <2>4
  <2> QED BY <2>1, <2>2, <2>3, <2>4, <2>5, <2>6 DEF Reminder
<1>5. /\ reminders' = [reminders EXCEPT ![r] = row] /\ reminders'[r] = row
      /\ \A q \in Jobs : q # r => reminders'[q] = reminders[q]
  <2>1. reminders' = [reminders EXCEPT ![r] = row]
    BY <1>2 DEF Cancel
  <2> QED BY <1>1, <2>1
<1>6. withdrawn' \subseteq Jobs
  BY <1>1, OutOfHandRows
<1>7. ReminderTypeOK'
  BY <1>1, <1>4, <1>5, <1>6, LedgerStays DEF ReminderInv, ReminderTypeOK
<1>8. \A q \in Jobs : Told(q)' /\ SentOK(q)'
  BY <1>1, <1>4, <1>5, RowMoves
<1>9. \A q \in Jobs : JobOK(q)'
  BY <1>1, <1>4, <1>5, ReminderRows DEF JobOK
<1>10. ASSUME NEW q \in withdrawn'
       PROVE  WithdrawnOK(q)'
  <2>1. CASE q \in withdrawn
    BY <1>1, <1>4, <1>5, <2>1 DEF ReminderInv, WithdrawnOK, InHand
  <2>2. CASE q \in OutOfHand({r})
    BY <1>1, <1>4, <1>5, <2>2, OutOfHandRows DEF WithdrawnOK, InHand
  <2> QED BY <1>1, <2>1, <2>2
<1> QED BY <1>1, <1>7, <1>8, <1>9, <1>10, RowsMove

LEMMA OptOutKeeps ==
  ASSUME ReminderConstants, ReminderInv, OptOut
  PROVE  ReminderInv'
<1>1. /\ reminders \in [Jobs -> Reminder] /\ stopped' = TRUE
      /\ UNCHANGED <<job, ops, granted, exec, sent, receipts, eligible>>
      /\ withdrawn' = withdrawn \cup OutOfHand(Jobs) /\ withdrawn \subseteq Jobs
  BY DEF OptOut, ReminderInv, ReminderTypeOK
<1>2. ASSUME NEW r \in Jobs
      PROVE  /\ reminders'[r] \in Reminder /\ reminders'[r].outbox = reminders[r].outbox
             /\ \/ /\ reminders'[r].status = reminders[r].status
                   /\ reminders'[r].delivery = reminders[r].delivery
                \/ /\ reminders[r].status \in Pending
                   /\ reminders'[r].status = "suppressed"
                   /\ reminders'[r].delivery = "suppressed"
  <2>1. reminders'[r] = IF reminders[r].contact
                        THEN [reminders[r] EXCEPT
                                !.status = IF @ \in Pending THEN "suppressed" ELSE @,
                                !.delivery = IF @ \in {"planned", "queued"} THEN "suppressed"
                                                                            ELSE @]
                        ELSE reminders[r]
    BY DEF OptOut
  <2>2. reminders[r] \in Reminder /\ Told(r)
    BY ReminderRows
  <2>3. reminders[r].status \in Pending <=> reminders[r].delivery \in {"planned", "queued"}
    BY <2>2 DEF Told, Pending, Reminder, Final
  <2>4. CASE ~reminders[r].contact
    BY <2>1, <2>2, <2>4
  <2>5. CASE reminders[r].contact /\ reminders[r].status \in Pending
    <3>1. reminders'[r] = [reminders[r] EXCEPT !.status = "suppressed",
                                               !.delivery = "suppressed"]
      BY <2>1, <2>3, <2>5
    <3> QED BY <2>2, <2>5, <3>1 DEF Reminder, Final
  <2>6. CASE reminders[r].contact /\ reminders[r].status \notin Pending
    <3>1. reminders'[r] = [reminders[r] EXCEPT !.status = reminders[r].status,
                                               !.delivery = reminders[r].delivery]
      BY <2>1, <2>3, <2>6
    <3> QED BY <2>2, <3>1 DEF Reminder
  <2> QED BY <2>4, <2>5, <2>6
<1>3. reminders' \in [Jobs -> Reminder]
  BY <1>2 DEF OptOut
<1>4. withdrawn' \subseteq Jobs
  BY <1>1, OutOfHandRows
<1>5. ReminderTypeOK'
  BY <1>1, <1>3, <1>4, LedgerStays DEF ReminderInv, ReminderTypeOK
<1>6. \A r \in Jobs : Told(r)' /\ SentOK(r)'
  BY <1>1, <1>2, RowMoves
<1>7. \A r \in Jobs : JobOK(r)'
  BY <1>1, <1>2, ReminderRows DEF JobOK, Pending
<1>8. ASSUME NEW r \in withdrawn'
      PROVE  WithdrawnOK(r)'
  BY <1>1, OutOfHandRows DEF ReminderInv, WithdrawnOK, InHand
<1> QED BY <1>1, <1>5, <1>6, <1>7, <1>8, RowsMove

LEMMA RevokeKeeps ==
  ASSUME ReminderConstants, ReminderInv, Revoke
  PROVE  ReminderInv'
<1>1. /\ eligible' = FALSE /\ withdrawn \subseteq Jobs
      /\ UNCHANGED <<job, ops, granted, reminders, exec, sent, receipts, stopped>>
      /\ withdrawn' = withdrawn \cup OutOfHand(Jobs)
  BY DEF Revoke, ReminderInv, ReminderTypeOK
<1>2. withdrawn' \subseteq Jobs
  BY <1>1, OutOfHandRows
<1>3. ReminderTypeOK'
  BY <1>1, <1>2, LedgerStays DEF ReminderInv, ReminderTypeOK
<1>4. \A r \in Jobs : Told(r)' /\ SentOK(r)' /\ JobOK(r)'
  BY <1>1, RowMoves, ReminderRows DEF JobOK
<1>5. ASSUME NEW r \in withdrawn'
      PROVE  WithdrawnOK(r)'
  BY <1>1, OutOfHandRows DEF ReminderInv, WithdrawnOK, InHand
<1> QED BY <1>1, <1>3, <1>4, <1>5, RowsMove

-----------------------------------------------------------------------------
(* The handler's steps.                                                    *)

\* The execution goes on, with its row as it was.
LEMMA SteppingRow ==
  ASSUME ReminderInv, NEW w \in Workers,
         NEW phase \in {"claim", "done", "retry"}, exec[w].phase # "idle", Step(w, phase)
  PROVE  \E row \in Execution :
           /\ exec' = [exec EXCEPT ![w] = row] /\ exec'[w] = row
           /\ row.phase = phase /\ row.rem = exec[w].rem
           /\ row.rem \in Jobs /\ ~HasClaim(w)' /\ ExecOK(w)'
<1>1. PICK row : row = [exec[w] EXCEPT !.phase = phase]
  OBVIOUS
<1>2. exec[w] \in Execution /\ exec[w].rem \in Jobs
  BY ExecutionRow
<1>3. row \in Execution /\ row.phase = phase /\ row.rem = exec[w].rem
  BY <1>1, <1>2 DEF Execution
<1>4. exec' = [exec EXCEPT ![w] = row] /\ exec'[w] = row
  BY <1>1 DEF Step, ReminderInv, ReminderTypeOK
<1>5. ~HasClaim(w)' /\ ExecOK(w)'
  BY <1>2, <1>3, <1>4 DEF HasClaim, ExecOK
<1> QED BY <1>2, <1>3, <1>4, <1>5

\* prepare_reminder_delivery moves a reminder that was waiting for it.
LEMMA PreparesRow ==
  ASSUME ReminderConstants, ReminderInv, NEW w \in Workers, NEW r \in Jobs, r = exec[w].rem,
         exec[w].phase = "prepare", NEW phase \in {"claim", "done"}, Step(w, phase),
         NEW row \in Reminder, reminders' = [reminders EXCEPT ![r] = row],
         reminders[r].status \in Pending, row.status \in {"queued", "suppressed"},
         row.delivery = row.status, row.outbox = reminders[r].outbox,
         UNCHANGED <<job, ops, granted, sent, receipts, eligible, stopped, withdrawn>>,
         phase = "claim" => r \notin withdrawn
  PROVE  ReminderInv'
<1>1. PICK e \in Execution :
        /\ exec' = [exec EXCEPT ![w] = e] /\ exec'[w] = e /\ e.phase = phase /\ e.rem = r
        /\ ~HasClaim(w)' /\ ExecOK(w)'
  BY SteppingRow
<1>2. /\ reminders'[r] = row /\ \A q \in Jobs : q # r => reminders'[q] = reminders[q]
      /\ withdrawn \subseteq Jobs
  BY DEF ReminderInv, ReminderTypeOK
<1>3. ReminderTypeOK' /\ ClaimedByGrant' /\ NeverReassigned'
  BY <1>1, LedgerStays DEF ReminderInv, ReminderTypeOK
<1>4. \A q \in Jobs : Told(q)' /\ SentOK(q)'
  BY <1>2, RowMoves
<1>5. \A q \in Jobs : JobOK(q)'
  BY <1>2, ReminderRows DEF JobOK
<1>6. ASSUME NEW v \in Workers \ {w}
      PROVE  /\ HasClaim(v) => sent'[exec[v].rem] = sent[exec[v].rem]
             /\ exec[v].phase = "send" =>
                  ops'[exec[v].rem].state \in {"in_flight", "failed_unknown"}
             /\ exec[v].phase = "mark" => ops'[exec[v].rem].state \in Outcomes
  BY ExecutionRow DEF ExecOK
<1>7. ASSUME NEW q \in withdrawn
      PROVE  /\ sent'[q] = 0
             /\ InHand(w, q)' => InHand(w, q)
             /\ reminders[q].status = "cancelled" => reminders'[q].status = "cancelled"
  <2>1. sent'[q] = 0
    BY DEF ReminderInv, WithdrawnOK
  <2>2. ~InHand(w, q)'
    BY <1>1 DEF InHand
  <2>3. reminders[q].status = "cancelled" => reminders'[q].status = "cancelled"
    BY <1>2 DEF Pending
  <2> QED BY <2>1, <2>2, <2>3
<1> QED BY <1>1, <1>3, <1>4, <1>5, <1>6, <1>7, HandlerMoves

LEMMA PrepareSuppressedKeeps ==
  ASSUME ReminderConstants, ReminderInv, NEW w \in Workers, PrepareSuppressed(w)
  PROVE  ReminderInv'
<1>1. PICK r \in Jobs : r = exec[w].rem
  BY ExecutionRow DEF PrepareSuppressed
<1>2. /\ reminders[r].status \in Pending /\ Step(w, "done") /\ exec[w].phase = "prepare"
      /\ reminders' = [reminders EXCEPT ![r] = StoodDown(r, "suppressed")]
      /\ UNCHANGED <<job, ops, granted, sent, receipts, eligible, stopped, withdrawn>>
  BY <1>1 DEF PrepareSuppressed, Rem
<1>3. PICK row : row = StoodDown(r, "suppressed")
  OBVIOUS
<1>4. row = [reminders[r] EXCEPT !.status = "suppressed", !.delivery = "suppressed"]
  BY <1>2, <1>3, StoodDownRow
<1>5. /\ row \in Reminder /\ row.status = "suppressed" /\ row.delivery = "suppressed"
      /\ row.outbox = reminders[r].outbox
  BY <1>4, ReminderRows DEF Reminder, Final
<1> QED BY <1>1, <1>2, <1>3, <1>5, PreparesRow

LEMMA PrepareReadyKeeps ==
  ASSUME ReminderConstants, ReminderInv, NEW w \in Workers, PrepareReady(w)
  PROVE  ReminderInv'
<1>1. PICK r \in Jobs : r = exec[w].rem
  BY ExecutionRow DEF PrepareReady
<1>2. PICK row : row = [With(r, "queued") EXCEPT !.contact = TRUE]
  OBVIOUS
<1>3. /\ reminders[r].status \in Pending /\ Step(w, "claim") /\ exec[w].phase = "prepare"
      /\ reminders' = [reminders EXCEPT ![r] = row] /\ eligible /\ ~stopped
      /\ UNCHANGED <<job, ops, granted, sent, receipts, eligible, stopped, withdrawn>>
  BY <1>1, <1>2 DEF PrepareReady, Rem
<1>4. row = [reminders[r] EXCEPT !.status = "queued", !.delivery = "queued", !.contact = TRUE]
  BY <1>2, ReminderRows DEF With, Reminder
<1>5. /\ row \in Reminder /\ row.status = "queued" /\ row.delivery = "queued"
      /\ row.outbox = reminders[r].outbox
  BY <1>4, ReminderRows DEF Reminder, Pending
<1>6. r \notin withdrawn
  BY <1>3 DEF ReminderInv, WithdrawnOK, Pending
<1> QED BY <1>1, <1>3, <1>5, <1>6, PreparesRow

\* The operation is handed out to the execution that asks first.
LEMMA ClaimAcquiredKeeps ==
  ASSUME ReminderConstants, ReminderInv, NEW w \in Workers, ClaimAcquired(w)
  PROVE  ReminderInv'
<1>1. PICK r \in Jobs : r = exec[w].rem
  BY ExecutionRow DEF ClaimAcquired
<1>2. PICK t \in Tokens :
        /\ Acquire(r, Sha, Owner, t)
        /\ exec' = [exec EXCEPT ![w] = [@ EXCEPT !.phase = "send", !.token = t]]
  BY <1>1 DEF ClaimAcquired, Rem
<1>3. /\ exec[w].phase = "claim" /\ UNCHANGED <<job, sent, reminderVars>>
      /\ ops \in [Ops -> Operation] /\ Jobs \subseteq Ops /\ withdrawn \subseteq Jobs
  BY DEF ClaimAcquired, ReminderInv, ReminderTypeOK, OpTypeOK, ReminderConstants
<1>4. /\ ops[r].state \in {"absent", "planned"} /\ ops'[r].state = "in_flight"
      /\ \A o \in Jobs : o # r => ops'[o] = ops[o]
      /\ granted' = granted \cup {[op |-> r, owner |-> Owner, token |-> t]}
  BY <1>2, <1>3 DEF Acquire
<1>5. [OpNext]_opVars
  BY <1>2, ReminderMembers DEF OpNext, ReminderConstants
<1>6. PICK e : e = [exec[w] EXCEPT !.phase = "send", !.token = t]
  OBVIOUS
<1>7. e \in Execution /\ e.phase = "send" /\ e.token = t /\ e.rem = r
  BY <1>1, <1>6, ExecutionRow DEF Execution
<1>8. exec' = [exec EXCEPT ![w] = e] /\ exec'[w] = e
  BY <1>2, <1>6 DEF ReminderInv, ReminderTypeOK
<1>9. ReminderTypeOK' /\ ClaimedByGrant' /\ NeverReassigned'
  BY <1>3, <1>5, <1>7, <1>8, LedgerMoves DEF ReminderInv, ReminderTypeOK, reminderVars
<1>10. /\ sent[r] = 0 /\ receipts[r] = {}
       /\ \A v \in Workers : exec[v].rem = r => ~HasClaim(v) /\ exec[v].phase # "mark"
  BY <1>4, UngrantedIsFree
<1>11. ExecOK(w)'
  BY <1>1, <1>3, <1>4, <1>7, <1>8, <1>10 DEF ExecOK, HasClaim
<1>12. ASSUME NEW q \in Jobs
       PROVE  Told(q)' /\ SentOK(q)' /\ JobOK(q)'
  <2>1. CASE q = r
    BY <1>3, <1>4, <1>10, <2>1, ReminderRows DEF Told, SentOK, JobOK, Proven, reminderVars
  <2>2. CASE q # r
    BY <1>3, <1>4, <2>2, ReminderRows DEF Told, SentOK, JobOK, reminderVars
  <2> QED BY <2>1, <2>2
<1>13. ASSUME NEW v \in Workers \ {w}
       PROVE  /\ HasClaim(v) => exec[v].rem # r /\ sent'[exec[v].rem] = sent[exec[v].rem]
              /\ exec[v].phase = "send" =>
                   ops'[exec[v].rem].state \in {"in_flight", "failed_unknown"}
              /\ exec[v].phase = "mark" => ops'[exec[v].rem].state \in Outcomes
  BY <1>3, <1>4, <1>10, ExecutionRow DEF ExecOK, HasClaim
<1>14. ASSUME NEW q \in withdrawn
       PROVE  /\ sent'[q] = 0
              /\ InHand(w, q)' => InHand(w, q)
              /\ reminders[q].status = "cancelled" => reminders'[q].status = "cancelled"
  BY <1>1, <1>3, <1>7, <1>8 DEF ReminderInv, WithdrawnOK, InHand, reminderVars
<1>15. granted \subseteq granted' /\ UNCHANGED <<withdrawn, eligible, stopped>>
  BY <1>3, <1>4 DEF reminderVars
<1> QED BY <1>7, <1>8, <1>9, <1>11, <1>12, <1>13, <1>14, <1>15, HandlerMoves

\* The operation of an execution is settled, as unknown or by the one that has it.
LEMMA OperationSettles ==
  ASSUME ReminderConstants, ReminderInv, NEW w \in Workers, NEW r \in Jobs, r = exec[w].rem,
         exec[w].phase \in {"claim", "finish"}, NEW e \in Execution,
         exec' = [exec EXCEPT ![w] = e], e.rem = r,
         NEW state \in Outcomes, ops[r].state = "in_flight",
         ops' = [ops EXCEPT ![r] = Unclaimed(@, state)],
         UNCHANGED <<granted, job, sent, reminderVars>>, [OpNext]_opVars,
         state = "failed_unknown" \/ HasClaim(w),
         state = "succeeded" => sent[r] = 1,
         state = "failed_terminal" => sent[r] = 0,
         HasClaim(w)' => HasClaim(w), ops'[r].state = state => ExecOK(w)'
  PROVE  ReminderInv'
<1>1. /\ ops \in [Ops -> Operation] /\ ops'[r].state = state
      /\ \A o \in Jobs : o # r => ops'[o] = ops[o]
  BY DEF Unclaimed, ReminderInv, ReminderTypeOK, OpTypeOK, ReminderConstants, Operation
<1>2. ReminderTypeOK' /\ ClaimedByGrant' /\ NeverReassigned'
  BY LedgerMoves DEF ReminderInv, ReminderTypeOK, reminderVars
<1>3. ASSUME NEW q \in Jobs
      PROVE  Told(q)' /\ SentOK(q)' /\ JobOK(q)'
  <2>1. CASE q = r
    <3>1. reminders[r].status \notin {"accepted", "failed", "failed_unknown"} /\ receipts[r] = {}
      BY ReminderRows DEF Told, SentOK, Proven
    <3> QED BY <1>1, <2>1, <3>1, ReminderRows DEF Told, SentOK, JobOK, reminderVars
  <2>2. CASE q # r
    BY <1>1, <2>2, ReminderRows DEF Told, SentOK, JobOK, reminderVars
  <2> QED BY <2>1, <2>2
<1>4. ASSUME NEW v \in Workers \ {w}
      PROVE  /\ HasClaim(v) /\ HasClaim(w)' => exec[v].rem # e.rem
             /\ HasClaim(v) => sent'[exec[v].rem] = sent[exec[v].rem]
             /\ exec[v].phase = "send" =>
                  ops'[exec[v].rem].state \in {"in_flight", "failed_unknown"}
             /\ exec[v].phase = "mark" => ops'[exec[v].rem].state \in Outcomes
  <2>1. HasClaim(v) /\ HasClaim(w) => exec[v].rem # r
    BY DEF ReminderInv, ClaimsUnique
  <2>2. HasClaim(v) => sent'[exec[v].rem] = sent[exec[v].rem]
    OBVIOUS
  <2>3. exec[v].phase = "send" => ops'[exec[v].rem].state \in {"in_flight", "failed_unknown"}
    BY <1>1, <2>1, ExecutionRow DEF ExecOK, HasClaim
  <2>4. exec[v].phase = "mark" => ops'[exec[v].rem].state \in Outcomes
    BY <1>1, ExecutionRow DEF ExecOK
  <2> QED BY <2>1, <2>2, <2>3, <2>4
<1>5. exec'[w] = e
  BY DEF ReminderInv, ReminderTypeOK
<1>6. ASSUME NEW q \in withdrawn
      PROVE  /\ sent'[q] = 0
             /\ InHand(w, q)' => InHand(w, q)
             /\ reminders[q].status = "cancelled" => reminders'[q].status = "cancelled"
  BY <1>5 DEF ReminderInv, WithdrawnOK, InHand, reminderVars
<1>7. granted \subseteq granted' /\ UNCHANGED <<withdrawn, eligible, stopped>>
  BY DEF reminderVars
<1> QED BY <1>1, <1>2, <1>3, <1>4, <1>6, <1>7, HandlerMoves

\* The execution goes on with an operation that is unknown, outside the try.
LEMMA UnknownRow ==
  ASSUME ReminderInv, NEW w \in Workers, NEW phase \in {"finish", "mark"},
         exec[w].phase # "idle", Settling(w, phase, "failed_unknown", FALSE)
  PROVE  \E row \in Execution :
           /\ exec' = [exec EXCEPT ![w] = row] /\ exec'[w] = row
           /\ row.phase = phase /\ row.outcome = "failed_unknown"
           /\ row.rem = exec[w].rem /\ row.token = exec[w].token
           /\ phase = "mark" => ~HasClaim(w)'
<1>1. PICK row : row = [exec[w] EXCEPT !.phase = phase, !.outcome = "failed_unknown",
                                       !.caught = FALSE]
  OBVIOUS
<1>2. exec[w] \in Execution
  BY ExecutionRow
<1>3. /\ row \in Execution /\ row.phase = phase /\ row.outcome = "failed_unknown"
      /\ row.caught = FALSE /\ row.rem = exec[w].rem /\ row.token = exec[w].token
  BY <1>1, <1>2 DEF Execution, Outcomes
<1>4. exec' = [exec EXCEPT ![w] = row] /\ exec'[w] = row
  BY <1>1 DEF Settling, ReminderInv, ReminderTypeOK
<1> QED BY <1>3, <1>4 DEF HasClaim

LEMMA ClaimAbandonedKeeps ==
  ASSUME ReminderConstants, ReminderInv, NEW w \in Workers, ClaimAbandoned(w)
  PROVE  ReminderInv'
<1>1. PICK r \in Jobs : r = exec[w].rem
  BY ExecutionRow DEF ClaimAbandoned
<1>2. /\ exec[w].phase = "claim" /\ Abandon(r, Sha)
      /\ Settling(w, "mark", "failed_unknown", FALSE)
      /\ UNCHANGED <<job, sent, reminderVars>>
  BY <1>1 DEF ClaimAbandoned, Rem
<1>3. /\ ops[r].state = "in_flight" /\ UNCHANGED granted
      /\ ops' = [ops EXCEPT ![r] = Unclaimed(@, "failed_unknown")]
  BY <1>2 DEF Abandon, ClaimIsLost
<1>4. [OpNext]_opVars
  BY <1>2, ReminderMembers DEF OpNext, ReminderConstants
<1>5. "failed_unknown" \in Outcomes
  BY DEF Outcomes
<1>6. PICK e \in Execution :
        /\ exec' = [exec EXCEPT ![w] = e] /\ exec'[w] = e
        /\ e.phase = "mark" /\ e.outcome = "failed_unknown" /\ e.rem = r /\ ~HasClaim(w)'
  BY <1>1, <1>2, UnknownRow
<1>7. ops'[r].state = "failed_unknown" => ExecOK(w)'
  BY <1>5, <1>6 DEF ExecOK
<1> QED BY <1>1, <1>2, <1>3, <1>4, <1>5, <1>6, <1>7, OperationSettles

LEMMA ClaimSettledKeeps ==
  ASSUME ReminderConstants, ReminderInv, NEW w \in Workers, ClaimSettled(w)
  PROVE  ReminderInv'
BY SettlesQuietly DEF ClaimSettled, Rem

LEMMA SendRefusedKeeps ==
  ASSUME ReminderConstants, ReminderInv, NEW w \in Workers, SendRefused(w)
  PROVE  ReminderInv'
<1>1. PICK caught \in BOOLEAN : Settling(w, "finish", "failed_terminal", caught)
  BY DEF SendRefused
<1>2. /\ exec[w].phase = "send" /\ UNCHANGED <<job, ops, granted, sent, reminderVars>>
      /\ "failed_terminal" \in Outcomes
  BY DEF SendRefused, Outcomes, Proven
<1>3. HasClaim(w) /\ sent[exec[w].rem] = 0
  BY <1>2, ExecutionRow DEF HasClaim, ExecOK
<1> QED BY <1>1, <1>2, <1>3, SettlesQuietly

\* The carrier is asked once, by the execution that was given the operation.
LEMMA SendsMessage ==
  ASSUME ReminderConstants, ReminderInv, NEW w \in Workers, exec[w].phase = "send",
         NEW n \in {0, 1}, sent' = [sent EXCEPT ![Rem(w)] = @ + n],
         NEW outcome \in {"succeeded", "failed_unknown"}, NEW caught \in BOOLEAN,
         outcome = "succeeded" => n = 1,
         Settling(w, "finish", outcome, caught),
         UNCHANGED <<job, ops, granted, reminderVars>>
  PROVE  ReminderInv'
<1>1. PICK r \in Jobs : r = exec[w].rem
  BY ExecutionRow
<1>2. /\ ops[r].state \in {"in_flight", "failed_unknown"} /\ sent[r] = 0 /\ HasClaim(w)
      /\ [op |-> r, owner |-> Owner, token |-> exec[w].token] \in granted
  BY <1>1, ExecutionRow DEF ExecOK, HasClaim
<1>3. /\ sent \in [Jobs -> Nat] /\ sent' = [sent EXCEPT ![r] = @ + n]
      /\ withdrawn \subseteq Jobs
  <2>1. sent \in [Jobs -> Nat] /\ withdrawn \subseteq Jobs
    BY DEF ReminderInv, ReminderTypeOK
  <2>2. sent' = [sent EXCEPT ![r] = @ + n]
    BY <1>1, Zenon DEF Rem
  <2> QED BY <2>1, <2>2
<1>4. sent'[r] = n /\ sent' \in [Jobs -> Nat] /\ \A q \in Jobs : q # r => sent'[q] = sent[q]
  <2>1. sent[r] + n = n /\ n \in Nat
    BY <1>2
  <2>2. sent' = [sent EXCEPT ![r] = n]
    BY <1>3, <2>1
  <2>3. sent \in [Jobs -> Nat]
    BY <1>3
  <2> QED BY <2>1, <2>2, <2>3
<1>5. PICK e \in Execution :
        /\ exec' = [exec EXCEPT ![w] = e] /\ exec'[w] = e /\ e.phase = "finish"
        /\ e.outcome = outcome /\ e.rem = r /\ e.token = exec[w].token
  BY <1>1, SettlingRow DEF Outcomes, Proven
<1>6. ReminderTypeOK' /\ ClaimedByGrant' /\ NeverReassigned'
  BY <1>4, <1>5, LedgerStays DEF ReminderInv, ReminderTypeOK, reminderVars
<1>7. ExecOK(w)'
  BY <1>2, <1>4, <1>5 DEF ExecOK, HasClaim, Outcomes, Proven
<1>8. ASSUME NEW q \in Jobs
      PROVE  Told(q)' /\ SentOK(q)' /\ JobOK(q)'
  <2>1. Told(q)'
    BY <1>2, <1>4, ReminderRows DEF Told, reminderVars
  <2>2. SentOK(q)'
    BY <1>2, <1>4, ReminderRows DEF SentOK, reminderVars
  <2>3. JobOK(q)'
    BY ReminderRows DEF JobOK, reminderVars
  <2> QED BY <2>1, <2>2, <2>3
<1>9. ASSUME NEW v \in Workers \ {w}
      PROVE  /\ HasClaim(v) => exec[v].rem # r /\ sent'[exec[v].rem] = sent[exec[v].rem]
             /\ exec[v].phase = "send" =>
                  ops'[exec[v].rem].state \in {"in_flight", "failed_unknown"}
             /\ exec[v].phase = "mark" => ops'[exec[v].rem].state \in Outcomes
  <2>1. HasClaim(v) => exec[v].rem # r
    BY <1>1, <1>2 DEF ReminderInv, ClaimsUnique
  <2>2. HasClaim(v) => exec[v].rem \in Jobs
    BY ExecutionRow DEF HasClaim
  <2> QED BY <1>4, <2>1, <2>2, ExecutionRow DEF ExecOK
<1>10. ASSUME NEW q \in withdrawn
       PROVE  /\ sent'[q] = 0
              /\ InHand(w, q)' => InHand(w, q)
              /\ reminders[q].status = "cancelled" => reminders'[q].status = "cancelled"
  <2>1. WithdrawnOK(q) /\ q \in Jobs
    BY <1>3 DEF ReminderInv
  <2>2. q # r
    BY <1>1, <2>1 DEF WithdrawnOK, InHand
  <2> QED BY <1>4, <1>5, <2>1, <2>2 DEF WithdrawnOK, InHand, reminderVars
<1>11. UNCHANGED <<withdrawn, eligible, stopped>>
  BY DEF reminderVars
<1> QED BY <1>5, <1>6, <1>7, <1>8, <1>9, <1>10, <1>11, HandlerMoves

LEMMA SendKeeps ==
  ASSUME ReminderConstants, ReminderInv, NEW w \in Workers, SendAccepted(w) \/ SendUnknown(w)
  PROVE  ReminderInv'
<1>1. CASE SendAccepted(w)
  BY <1>1, SendsMessage DEF SendAccepted
<1>2. CASE SendUnknown(w)
  BY <1>2, SendsMessage DEF SendUnknown
<1> QED BY <1>1, <1>2

\* The finish of an execution that has the claim; e is what it does with the answer.
LEMMA FinishSettles ==
  ASSUME ReminderConstants, ReminderInv, NEW w \in Workers, NEW r \in Jobs, r = exec[w].rem,
         exec[w].phase = "finish", FinishClaim(r, Owner, exec[w].token, exec[w].outcome),
         NEW e \in Execution, exec' = [exec EXCEPT ![w] = e], e.rem = r,
         e.phase \in {"finish", "mark", "retry"},
         e.phase # "retry" =>
           e.token = exec[w].token /\ e.outcome \in {exec[w].outcome, "failed_unknown"},
         UNCHANGED <<job, sent, reminderVars>>
  PROVE  ReminderInv'
<1>1. /\ exec[w].outcome \in Outcomes /\ HasClaim(w)
      /\ [op |-> r, owner |-> Owner, token |-> exec[w].token] \in granted
      /\ exec[w].outcome = "succeeded" => sent[r] = 1
      /\ exec[w].outcome = "failed_terminal" => sent[r] = 0
  BY ExecutionRow DEF ExecOK, HasClaim
<1>2. PICK state \in Outcomes :
        /\ state \in {exec[w].outcome, "failed_unknown"}
        /\ ops' = [ops EXCEPT ![r] = Unclaimed(@, state)]
  BY <1>1 DEF FinishClaim, Outcomes
<1>3. ops[r].state = "in_flight" /\ UNCHANGED granted
  BY DEF FinishClaim, HoldsOperation
<1>4. exec[w].token \in Tokens
  BY <1>1 DEF ReminderInv, ReminderTypeOK, OpTypeOK, Grant
<1>5. [OpNext]_opVars
  BY <1>1, <1>4, ReminderMembers DEF OpNext, ReminderConstants, Outcomes
<1>6. exec'[w] = e
  BY DEF ReminderInv, ReminderTypeOK
<1>7. ASSUME ops'[r].state = state
      PROVE  ExecOK(w)'
  BY <1>1, <1>2, <1>3, <1>6, <1>7 DEF ExecOK, HasClaim, Outcomes
<1> QED BY <1>1, <1>2, <1>3, <1>5, <1>7, OperationSettles

LEMMA FinishOperationKeeps ==
  ASSUME ReminderConstants, ReminderInv, NEW w \in Workers, FinishOperation(w)
  PROVE  ReminderInv'
<1>1. PICK r \in Jobs : r = exec[w].rem
  BY ExecutionRow DEF FinishOperation
<1>2. /\ exec[w].phase = "finish" /\ UNCHANGED <<job, sent, reminderVars>>
      /\ exec[w].outcome \in Outcomes /\ exec[w].caught \in BOOLEAN
      /\ "failed_unknown" \in Outcomes /\ HasClaim(w)
  BY ExecutionRow DEF FinishOperation, ExecOK, Execution, Outcomes, HasClaim
<1>3. CASE FinishClaim(r, Owner, exec[w].token, exec[w].outcome)
  <2>1. PICK outcome \in {exec[w].outcome, "failed_unknown"}, caught \in BOOLEAN :
          Settling(w, "mark", outcome, caught)
    BY <1>1, <1>2, <1>3 DEF FinishOperation, Rem, FinishClaim
  <2>2. PICK e \in Execution :
          /\ exec' = [exec EXCEPT ![w] = e] /\ e.phase = "mark" /\ e.outcome = outcome
          /\ e.rem = r /\ e.token = exec[w].token
    BY <1>1, <1>2, <2>1, SettlingRow
  <2> QED BY <1>1, <1>2, <1>3, <2>1, <2>2, FinishSettles
<1>4. CASE /\ ~HoldsOperation(r, Owner, exec[w].token)
           /\ UNCHANGED <<ops, granted>>
           /\ Settling(w, "mark", ops[r].state, FALSE)
  <2>1. ops[r].state \in Outcomes
    BY <1>1, <1>2, <1>4, ClaimHolds
  <2> QED BY <1>1, <1>2, <1>4, <2>1, SettlesQuietly
<1> QED BY <1>1, <1>3, <1>4 DEF FinishOperation, Rem

\* What an exception does to an execution that has called.
LEMMA ThrownKeeps ==
  ASSUME ReminderConstants, ReminderInv, NEW w \in Workers,
         exec[w].phase \in {"finish", "mark"}, Thrown(w),
         UNCHANGED <<job, ops, granted, sent, reminderVars>>
  PROVE  ReminderInv'
<1>1. CASE exec[w].caught
  <2>1. Settling(w, "finish", "failed_unknown", FALSE) /\ HasClaim(w)
    BY <1>1 DEF Thrown, HasClaim
  <2> QED BY <2>1, SettlesQuietly DEF Outcomes
<1>2. CASE ~exec[w].caught
  BY <1>2, StepsAside DEF Thrown
<1> QED BY <1>1, <1>2

\* The row it leaves.
LEMMA ThrownRow ==
  ASSUME ReminderInv, NEW w \in Workers, exec[w].phase \in {"finish", "mark"}, Thrown(w)
  PROVE  \E e \in Execution :
           /\ exec' = [exec EXCEPT ![w] = e] /\ exec'[w] = e /\ e.rem = exec[w].rem
           /\ \/ /\ e.phase = "finish" /\ e.outcome = "failed_unknown"
                 /\ e.token = exec[w].token /\ HasClaim(w)
              \/ e.phase = "retry" /\ ~HasClaim(w)'
<1>1. CASE exec[w].caught
  <2>1. Settling(w, "finish", "failed_unknown", FALSE) /\ HasClaim(w)
    BY <1>1 DEF Thrown, HasClaim
  <2> QED BY <2>1, UnknownRow
<1>2. CASE ~exec[w].caught
  BY <1>2, SteppingRow DEF Thrown
<1> QED BY <1>1, <1>2

LEMMA FinishThrowsKeeps ==
  ASSUME ReminderConstants, ReminderInv, NEW w \in Workers, FinishThrows(w)
  PROVE  ReminderInv'
<1>1. PICK r \in Jobs : r = exec[w].rem
  BY ExecutionRow DEF FinishThrows
<1>2. /\ exec[w].phase = "finish" /\ Thrown(w)
      /\ UNCHANGED <<job, sent, reminderVars>>
  BY DEF FinishThrows
<1>3. CASE UNCHANGED <<ops, granted>>
  BY <1>2, <1>3, ThrownKeeps
<1>4. CASE FinishClaim(r, Owner, exec[w].token, exec[w].outcome)
  <2>1. PICK e \in Execution :
          /\ exec' = [exec EXCEPT ![w] = e] /\ e.rem = r
          /\ \/ /\ e.phase = "finish" /\ e.outcome = "failed_unknown"
                /\ e.token = exec[w].token
             \/ e.phase = "retry"
    BY <1>1, <1>2, ThrownRow
  <2> QED BY <1>1, <1>2, <1>4, <2>1, FinishSettles
<1> QED BY <1>1, <1>3, <1>4 DEF FinishThrows, Rem

\* What the operation proved is written to the rows, unless the reminder was delivered.
LEMMA MarkedRows ==
  ASSUME ReminderConstants, ReminderInv, NEW w \in Workers, NEW r \in Jobs, r = exec[w].rem,
         exec[w].phase = "mark", Proves(ops[r].state, exec[w].outcome),
         reminders' = Marked(r, exec[w].outcome),
         UNCHANGED <<job, ops, granted, sent, receipts>>
  PROVE  /\ reminders' \in [Jobs -> Reminder]
         /\ \A q \in Jobs : q # r => reminders'[q] = reminders[q]
         /\ \A q \in Jobs : Told(q)' /\ SentOK(q)' /\ JobOK(q)'
<1>1. CASE reminders[r].status = "delivered"
  <2>1. UNCHANGED reminders
    BY <1>1 DEF Marked
  <2>2. reminders \in [Jobs -> Reminder]
    BY DEF ReminderInv, ReminderTypeOK
  <2> QED BY <2>1, <2>2, ReminderRows DEF Told, SentOK, JobOK
<1>2. CASE reminders[r].status # "delivered"
  <2>1. exec[w].outcome \in Outcomes /\ ops[r].state \in Outcomes
    BY ExecutionRow DEF ExecOK
  <2>2. ops[r].state = exec[w].outcome
    BY <2>1 DEF Proves, Outcomes, Proven
  <2>3. PICK status \in {"accepted", "failed", "failed_unknown"} :
          /\ status = MarkAs[exec[w].outcome]
          /\ status = "accepted" => ops[r].state = "succeeded"
          /\ status = "failed" => ops[r].state = "failed_terminal"
          /\ status = "failed_unknown" => ops[r].state = "failed_unknown"
          /\ ops[r].state = "failed_terminal" => status = "failed"
    BY <2>1, <2>2 DEF MarkAs, Outcomes, Proven
  <2>4. PICK row : row = With(r, status)
    OBVIOUS
  <2>5. /\ row \in Reminder /\ row.status = status /\ row.delivery = status
        /\ row.outbox = reminders[r].outbox
    BY <2>4, ReminderRows DEF With, Reminder, Final
  <2>6. reminders \in [Jobs -> Reminder]
    BY DEF ReminderInv, ReminderTypeOK
  <2>7. reminders' = [reminders EXCEPT ![r] = row]
    BY <1>2, <2>3, <2>4 DEF Marked
  <2>8. /\ reminders' \in [Jobs -> Reminder] /\ reminders'[r] = row
        /\ \A q \in Jobs : q # r => reminders'[q] = reminders[q]
    BY <2>5, <2>6, <2>7
  <2>9. Told(r)'
    <3>1. "delivered" \notin receipts[r]
      BY <1>2, ReminderRows DEF Told
    <3>2. ops[r].state = "succeeded" => sent[r] = 1
      BY ReminderRows DEF SentOK
    <3>3. ops[r].state = "failed_unknown" => receipts[r] = {}
      BY ReminderRows DEF SentOK, Proven
    <3> QED BY <2>3, <2>5, <2>8, <3>1, <3>2, <3>3 DEF Told
  <2>10. SentOK(r)' /\ JobOK(r)'
    BY <2>3, <2>5, <2>8, ReminderRows DEF SentOK, JobOK
  <2>11. ASSUME NEW q \in Jobs, q # r
         PROVE  Told(q)' /\ SentOK(q)' /\ JobOK(q)'
    BY <2>8, <2>11, ReminderRows DEF Told, SentOK, JobOK
  <2> QED BY <2>8, <2>9, <2>10, <2>11
<1> QED BY <1>1, <1>2

\* The execution that marks goes on with e.
LEMMA MarksRows ==
  ASSUME ReminderConstants, ReminderInv, NEW w \in Workers, NEW r \in Jobs, r = exec[w].rem,
         exec[w].phase = "mark", Proves(ops[r].state, exec[w].outcome),
         reminders' = Marked(r, exec[w].outcome),
         UNCHANGED <<job, ops, granted, sent, receipts, eligible, stopped, withdrawn>>,
         NEW e \in Execution, exec' = [exec EXCEPT ![w] = e], e.rem = r,
         HasClaim(w)' => HasClaim(w), ExecOK(w)'
  PROVE  ReminderInv'
<1>1. /\ reminders' \in [Jobs -> Reminder]
      /\ \A q \in Jobs : q # r => reminders'[q] = reminders[q]
      /\ \A q \in Jobs : Told(q)' /\ SentOK(q)' /\ JobOK(q)'
  BY MarkedRows
<1>2. ReminderTypeOK' /\ ClaimedByGrant' /\ NeverReassigned'
  BY <1>1, LedgerStays DEF ReminderInv, ReminderTypeOK
<1>3. exec'[w] = e /\ withdrawn \subseteq Jobs
  BY DEF ReminderInv, ReminderTypeOK
<1>4. ASSUME NEW v \in Workers \ {w}
      PROVE  /\ HasClaim(v) /\ HasClaim(w)' => exec[v].rem # e.rem
             /\ HasClaim(v) => sent'[exec[v].rem] = sent[exec[v].rem]
             /\ exec[v].phase = "send" =>
                  ops'[exec[v].rem].state \in {"in_flight", "failed_unknown"}
             /\ exec[v].phase = "mark" => ops'[exec[v].rem].state \in Outcomes
  <2>1. HasClaim(v) /\ HasClaim(w)' => exec[v].rem # e.rem
    BY DEF ReminderInv, ClaimsUnique
  <2> QED BY <2>1, ExecutionRow DEF ExecOK
<1>5. ASSUME NEW q \in withdrawn
      PROVE  /\ sent'[q] = 0
             /\ InHand(w, q)' => InHand(w, q)
             /\ reminders[q].status = "cancelled" => reminders'[q].status = "cancelled"
  <2>1. WithdrawnOK(q) /\ q \in Jobs
    BY <1>3 DEF ReminderInv
  <2>2. q # r
    BY <2>1 DEF WithdrawnOK, InHand
  <2> QED BY <1>1, <1>3, <2>1, <2>2 DEF WithdrawnOK, InHand
<1> QED BY <1>1, <1>2, <1>4, <1>5, HandlerMoves

LEMMA MarkOutcomeKeeps ==
  ASSUME ReminderConstants, ReminderInv, NEW w \in Workers, MarkOutcome(w)
  PROVE  ReminderInv'
<1>1. PICK r \in Jobs : r = exec[w].rem
  BY ExecutionRow DEF MarkOutcome
<1>2. /\ exec[w].phase = "mark" /\ Proves(ops[r].state, exec[w].outcome) /\ Step(w, "done")
      /\ reminders' = Marked(r, exec[w].outcome)
      /\ UNCHANGED <<job, ops, granted, sent, receipts, eligible, stopped, withdrawn>>
  BY <1>1 DEF MarkOutcome, Rem
<1>3. PICK e \in Execution :
        exec' = [exec EXCEPT ![w] = e] /\ e.rem = r /\ ~HasClaim(w)' /\ ExecOK(w)'
  BY <1>1, <1>2, SteppingRow
<1> QED BY <1>1, <1>2, <1>3, MarksRows

LEMMA MarkThrowsKeeps ==
  ASSUME ReminderConstants, ReminderInv, NEW w \in Workers, MarkThrows(w)
  PROVE  ReminderInv'
<1>1. PICK r \in Jobs : r = exec[w].rem
  BY ExecutionRow DEF MarkThrows
<1>2. /\ exec[w].phase = "mark" /\ Thrown(w)
      /\ UNCHANGED <<job, ops, granted, sent, receipts, eligible, stopped, withdrawn>>
  BY DEF MarkThrows
<1>3. CASE UNCHANGED reminders
  BY <1>2, <1>3, ThrownKeeps DEF reminderVars
<1>4. CASE /\ Proves(ops[r].state, exec[w].outcome)
           /\ reminders' = Marked(r, exec[w].outcome)
  <2>1. PICK e \in Execution :
          /\ exec' = [exec EXCEPT ![w] = e] /\ exec'[w] = e /\ e.rem = r
          /\ \/ /\ e.phase = "finish" /\ e.outcome = "failed_unknown"
                /\ e.token = exec[w].token /\ HasClaim(w)
             \/ e.phase = "retry" /\ ~HasClaim(w)'
    BY <1>1, <1>2, ThrownRow
  <2>2. ExecOK(w)' /\ (HasClaim(w)' => HasClaim(w))
    BY <1>1, <1>2, <2>1, ExecutionRow DEF ExecOK, HasClaim, Outcomes
  <2> QED BY <1>1, <1>2, <1>4, <2>1, <2>2, MarksRows
<1> QED BY <1>1, <1>3, <1>4 DEF MarkThrows, Rem

LEMMA HandleKeeps ==
  ASSUME ReminderConstants, ReminderInv, NEW w \in Workers, Handle(w)
  PROVE  ReminderInv'
BY PlainStepsKeep, PrepareSuppressedKeeps, PrepareReadyKeeps, ClaimAcquiredKeeps,
   ClaimAbandonedKeeps, ClaimSettledKeeps, SendRefusedKeeps, SendKeeps,
   FinishOperationKeeps, FinishThrowsKeeps, MarkOutcomeKeeps, MarkThrowsKeeps, ReturnKeeps
   DEF Handle

-----------------------------------------------------------------------------
(* The carrier's receipts and the clock of the claims.                     *)

\* What is known of a message that went out: its operation was handed out.
LEMMA SentState ==
  ASSUME ReminderConstants, ReminderInv, NEW r \in Jobs, sent[r] > 0
  PROVE  /\ sent[r] = 1 /\ r \notin withdrawn
         /\ ops[r].state \in {"in_flight"} \cup Outcomes
         /\ \A w \in Workers : exec[w].rem = r => exec[w].phase # "send"
<1>1. sent[r] = 1
  BY ReminderRows DEF SentOK
<1>2. ops[r].state \in {"in_flight"} \cup Outcomes
  BY <1>1, GrantedState, ReminderRows DEF SentOK
<1>3. r \notin withdrawn
  BY <1>1 DEF ReminderInv, WithdrawnOK
<1>4. ASSUME NEW w \in Workers, exec[w].rem = r
      PROVE  exec[w].phase # "send"
  <2>1. exec[w].phase = "send" => sent[exec[w].rem] = 0
    BY ExecutionRow DEF ExecOK
  <2>2. exec[w].phase = "send" => sent[r] = 0
    BY <1>4, <2>1
  <2> QED BY <1>1, <2>2
<1> QED BY <1>1, <1>2, <1>3, <1>4

\* A receipt resolves the operation, or finds what it says of it.
LEMMA ReceiptMoves ==
  ASSUME ReminderConstants, ReminderInv, NEW r \in Jobs, NEW kind \in ReceiptKinds,
         ReceiveReceipt(r, kind)
  PROVE  /\ [OpNext]_opVars /\ UNCHANGED granted
         /\ ops'[r].state \in Proven
         /\ ops'[r].state = "failed_terminal" =>
              AfterReceipt(r, kind) \in {"failed", "delivered"}
         /\ AfterReceipt(r, kind) = "failed" =>
              ops'[r].state = "failed_terminal" \/ "failed" \in receipts'[r]
         /\ \A q \in Jobs : q # r => ops'[q] = ops[q]
<1> DEFINE next == AfterReceipt(r, kind)
<1>1. sent[r] > 0 /\ receipts' = [receipts EXCEPT ![r] = @ \cup {kind}]
  BY DEF ReceiveReceipt
<1>2. receipts'[r] = receipts[r] \cup {kind}
  BY <1>1 DEF ReminderInv, ReminderTypeOK
<1>3. ops \in [Ops -> Operation] /\ Jobs \subseteq Ops
  BY DEF ReminderInv, ReminderTypeOK, OpTypeOK, ReminderConstants
<1>4. CASE Receipt(r, IF next = "failed" THEN "failed_terminal" ELSE "succeeded")
  <2>1. PICK state \in Proven :
          /\ state = IF next = "failed" THEN "failed_terminal" ELSE "succeeded"
          /\ Receipt(r, state)
    BY <1>4 DEF Proven
  <2>2. [OpNext]_opVars /\ UNCHANGED granted
    BY <2>1 DEF OpNext, ReminderConstants, Receipt
  <2>3. ops'[r].state = state /\ \A q \in Jobs : q # r => ops'[q] = ops[q]
    BY <1>3, <2>1, ReminderRows DEF Receipt, Operation
  <2> QED BY <2>1, <2>2, <2>3 DEF Proven
<1>5. CASE ops[r].state \notin {"in_flight", "failed_unknown"} /\ UNCHANGED <<ops, granted>>
  <2>1. ops[r].state \in Proven /\ sent[r] = 1
    BY <1>1, <1>5, SentState DEF Outcomes
  <2>2. ops[r].state = "failed_terminal" => next \in {"failed", "delivered"}
    <3>1. ops[r].state = "failed_terminal" => reminders[r].delivery \in {"failed", "delivered"}
      BY <2>1, ReminderRows DEF SentOK, Told
    <3> QED BY <3>1 DEF AfterReceipt
  <2>3. next = "failed" => ops[r].state = "failed_terminal" \/ "failed" \in receipts'[r]
    <3>1. next = "failed" => kind = "failed" \/ reminders[r].delivery = "failed"
      BY DEF AfterReceipt
    <3>2. reminders[r].delivery = "failed" =>
            ops[r].state = "failed_terminal" \/ "failed" \in receipts[r]
      BY ReminderRows DEF Told
    <3> QED BY <1>2, <3>1, <3>2
  <2> QED BY <1>5, <2>1, <2>2, <2>3 DEF opVars
<1> QED BY <1>4, <1>5 DEF ReceiveReceipt

LEMMA ReceiptKeeps ==
  ASSUME ReminderConstants, ReminderInv, PreparedFirst, NEW r \in Jobs,
         NEW kind \in ReceiptKinds, ReceiveReceipt(r, kind)
  PROVE  ReminderInv'
<1>1. /\ sent[r] > 0 /\ receipts' = [receipts EXCEPT ![r] = @ \cup {kind}]
      /\ reminders' = [reminders EXCEPT ![r] = With(r, AfterReceipt(r, kind))]
      /\ UNCHANGED <<job, exec, sent, eligible, stopped, withdrawn>>
  BY DEF ReceiveReceipt
<1>2. PICK next : next = AfterReceipt(r, kind)
  OBVIOUS
<1>3. /\ [OpNext]_opVars /\ UNCHANGED granted
      /\ ops'[r].state \in Proven
      /\ ops'[r].state = "failed_terminal" => next \in {"failed", "delivered"}
      /\ next = "failed" => ops'[r].state = "failed_terminal" \/ "failed" \in receipts'[r]
      /\ \A q \in Jobs : q # r => ops'[q] = ops[q]
  BY <1>2, ReceiptMoves
<1>4. PICK row : row = With(r, next)
  OBVIOUS
<1>5. /\ row \in Reminder /\ row.status = next /\ row.delivery = next
      /\ row.outbox = reminders[r].outbox
  <2>1. /\ reminders[r] \in Reminder
        /\ reminders[r].status \notin {"none", "scheduled"}
        /\ reminders[r].delivery = reminders[r].status
    BY <1>1, ReminderRows DEF Told, PreparedFirst, Unprepared
  <2>2. next \in {"queued"} \cup Final
    <3>1. reminders[r].delivery \in {"queued"} \cup Final
      BY <2>1 DEF Reminder, Pending
    <3> QED BY <1>2, <3>1 DEF AfterReceipt, Final
  <2> QED BY <1>4, <2>1, <2>2 DEF With, Reminder, Pending
<1>6. /\ reminders \in [Jobs -> Reminder] /\ receipts \in [Jobs -> SUBSET ReceiptKinds]
      /\ withdrawn \subseteq Jobs
  BY DEF ReminderInv, ReminderTypeOK
<1>7. /\ reminders' \in [Jobs -> Reminder] /\ reminders'[r] = row
      /\ \A q \in Jobs : q # r => reminders'[q] = reminders[q]
  BY <1>1, <1>2, <1>4, <1>5, <1>6
<1>8. /\ receipts' \in [Jobs -> SUBSET ReceiptKinds] /\ receipts'[r] = receipts[r] \cup {kind}
      /\ \A q \in Jobs : q # r => receipts'[q] = receipts[q]
  BY <1>1, <1>6
<1>9. /\ sent[r] = 1 /\ r \notin withdrawn
      /\ \A w \in Workers : exec[w].rem = r => exec[w].phase # "send"
  BY <1>1, SentState
<1>10. ReminderTypeOK' /\ ClaimedByGrant' /\ NeverReassigned'
  BY <1>1, <1>3, <1>7, <1>8, LedgerMoves DEF ReminderInv, ReminderTypeOK
<1>11. Told(r)'
  <2>1. next = "delivered" <=> kind = "delivered" \/ reminders[r].delivery = "delivered"
    BY <1>2 DEF AfterReceipt
  <2>2. reminders[r].delivery = "delivered" <=> "delivered" \in receipts[r]
    BY <1>1, ReminderRows DEF Told, PreparedFirst, Unprepared
  <2>3. next = "accepted" => ops'[r].state = "succeeded"
    BY <1>3 DEF Proven
  <2>4. next = "failed_unknown" => ops'[r].state = "succeeded" /\ receipts'[r] = {"other"}
    <3>1. next = "failed_unknown" => kind = "other" /\ reminders[r].status = "failed_unknown"
      BY <1>1, <1>2, ReminderRows DEF AfterReceipt, Told, PreparedFirst, Unprepared
    <3>2. next = "failed_unknown" => ops'[r].state = "succeeded"
      BY <1>3 DEF Proven
    <3> QED BY <1>8, <3>1, <3>2, ReminderRows DEF Told
  <2>5. next # "scheduled"
    BY <1>1, <1>2, ReminderRows DEF AfterReceipt, Told, PreparedFirst, Unprepared
  <2> QED BY <1>1, <1>3, <1>5, <1>7, <1>8, <1>9, <2>1, <2>2, <2>3, <2>4, <2>5 DEF Told
<1>12. SentOK(r)' /\ JobOK(r)'
  <2>1. next # "none"
    BY <1>1, <1>2, ReminderRows DEF AfterReceipt, Told, PreparedFirst, Unprepared
  <2>2. SentOK(r)'
    BY <1>1, <1>3, <1>5, <1>7, <1>9, ReminderRows DEF SentOK
  <2> QED BY <1>1, <1>5, <1>7, <2>1, <2>2, ReminderRows DEF JobOK
<1>13. ASSUME NEW q \in Jobs, q # r
       PROVE  Told(q)' /\ SentOK(q)' /\ JobOK(q)'
  BY <1>1, <1>3, <1>7, <1>8, <1>13, ReminderRows DEF Told, SentOK, JobOK
<1>14. ASSUME NEW w \in Workers
       PROVE  ExecOK(w)'
  BY <1>1, <1>3, <1>9, ExecutionRow DEF ExecOK, HasClaim, Outcomes
<1>15. ClaimsUnique'
  BY <1>1 DEF ReminderInv, ClaimsUnique, HasClaim
<1>16. ASSUME NEW q \in withdrawn'
       PROVE  WithdrawnOK(q)'
  BY <1>1, <1>6, <1>7, <1>9 DEF ReminderInv, WithdrawnOK, InHand
<1> QED BY <1>10, <1>11, <1>12, <1>13, <1>14, <1>15, <1>16 DEF ReminderInv

LEMMA LeaseTickKeeps ==
  ASSUME ReminderConstants, ReminderInv, LeaseTick
  PROVE  ReminderInv'
<1>1. ClaimTick /\ UNCHANGED <<granted, job, exec, sent, reminderVars>>
  BY DEF LeaseTick, ClaimTick
<1>2. [OpNext]_opVars
  BY <1>1 DEF OpNext
<1>3. ASSUME NEW r \in Jobs
      PROVE  ops'[r].state = ops[r].state
  BY <1>1, TickType, ReminderRows DEF ClaimTick, ReminderConstants
<1>4. ReminderTypeOK' /\ ClaimedByGrant' /\ NeverReassigned'
  BY <1>1, <1>2, LedgerMoves DEF ReminderInv, ReminderTypeOK, reminderVars
<1>5. ClaimsUnique'
  BY <1>1 DEF ReminderInv, ClaimsUnique, HasClaim
<1>6. ASSUME NEW w \in Workers
      PROVE  ExecOK(w)'
  BY <1>1, <1>3, ExecutionRow DEF ExecOK, HasClaim
<1>7. ASSUME NEW r \in Jobs
      PROVE  Told(r)' /\ SentOK(r)' /\ JobOK(r)'
  BY <1>1, <1>3, ReminderRows DEF Told, SentOK, JobOK, reminderVars
<1>8. \A r \in withdrawn' : WithdrawnOK(r)'
  BY <1>1 DEF ReminderInv, WithdrawnOK, InHand, reminderVars
<1> QED BY <1>4, <1>5, <1>6, <1>7, <1>8 DEF ReminderInv

\* An execution takes nothing in hand, but goes on with what it has, or sends it.
LEMMA HandledPrepared ==
  ASSUME ReminderInv, PreparedFirst, NEW w \in Workers,
         NEW row, exec' = [exec EXCEPT ![w] = row],
         row.phase \in {"claim", "send", "finish", "mark"} =>
           /\ row.rem = exec[w].rem
           /\ exec[w].phase \in {"claim", "send", "finish", "mark"},
         \A r \in Jobs : Unprepared(r)' => Unprepared(r),
         \/ UNCHANGED sent
         \/ /\ exec[w].phase = "send"
            /\ \A r \in Jobs : r # exec[w].rem => sent'[r] = sent[r]
  PROVE  PreparedFirst'
<1>1. exec'[w] = row /\ \A v \in Workers : v # w => exec'[v] = exec[v]
  BY DEF ReminderInv, ReminderTypeOK
<1>2. ASSUME NEW r \in Jobs, Unprepared(r)'
      PROVE  sent'[r] = 0 /\ \A v \in Workers : ~InHand(v, r)'
  <2>1. Unprepared(r) /\ sent[r] = 0 /\ \A v \in Workers : ~InHand(v, r)
    BY <1>2 DEF PreparedFirst
  <2>2. sent'[r] = 0
    BY <2>1 DEF InHand
  <2>3. ASSUME NEW v \in Workers
        PROVE  ~InHand(v, r)'
    BY <1>1, <2>1 DEF InHand
  <2> QED BY <2>2, <2>3
<1> QED BY <1>2 DEF PreparedFirst

\* What the steps of an execution make of its row.
LEMMA StepRow ==
  ASSUME ReminderInv, NEW w \in Workers, NEW phase, Step(w, phase)
  PROVE  \E row : /\ exec' = [exec EXCEPT ![w] = row]
                  /\ row.phase = phase /\ row.rem = exec[w].rem
<1>1. exec[w] \in Execution /\ exec \in [Workers -> Execution]
  BY DEF ReminderInv, ReminderTypeOK
<1>2. PICK row : row = [exec[w] EXCEPT !.phase = phase]
  OBVIOUS
<1>3. row.phase = phase /\ row.rem = exec[w].rem
  BY <1>1, <1>2 DEF Execution
<1> QED BY <1>1, <1>2, <1>3 DEF Step

LEMMA SettledRow ==
  ASSUME ReminderInv, NEW w \in Workers, NEW phase, NEW outcome, NEW caught,
         Settling(w, phase, outcome, caught)
  PROVE  \E row : /\ exec' = [exec EXCEPT ![w] = row]
                  /\ row.phase = phase /\ row.rem = exec[w].rem
<1>1. exec[w] \in Execution /\ exec \in [Workers -> Execution]
  BY DEF ReminderInv, ReminderTypeOK
<1>2. PICK row : row = [exec[w] EXCEPT !.phase = phase, !.outcome = outcome, !.caught = caught]
  OBVIOUS
<1>3. row.phase = phase /\ row.rem = exec[w].rem
  BY <1>1, <1>2 DEF Execution
<1> QED BY <1>1, <1>2, <1>3 DEF Settling

LEMMA HandlePrepares ==
  ASSUME ReminderConstants, ReminderInv, PreparedFirst, NEW w \in Workers, Handle(w)
  PROVE  PreparedFirst'
<1>1. /\ reminders \in [Jobs -> Reminder] /\ sent \in [Jobs -> Nat]
      /\ exec \in [Workers -> Execution]
  BY DEF ReminderInv, ReminderTypeOK
<1>2. CASE PrepareTerminal(w) \/ PrepareDeferred(w) \/ ClaimBusy(w) \/ PrepareOrClaimThrows(w)
  <2>1. PICK row : /\ exec' = [exec EXCEPT ![w] = row] /\ row.phase \in {"done", "retry"}
    BY <1>2, StepRow, SettledRow DEF PrepareTerminal, PrepareDeferred, ClaimBusy, PrepareOrClaimThrows
  <2>2. UNCHANGED <<sent, reminders>>
    BY <1>2 DEF PrepareTerminal, PrepareDeferred, ClaimBusy, PrepareOrClaimThrows, reminderVars
  <2>3. \A r \in Jobs : Unprepared(r)' => Unprepared(r)
    BY <2>2 DEF Unprepared
  <2> QED BY <2>1, <2>2, <2>3, HandledPrepared
<1>3. CASE Return(w)
  <2>1. exec' = [exec EXCEPT ![w] = Asleep] /\ UNCHANGED <<sent, reminders>>
    BY <1>3 DEF Return, reminderVars
  <2>2. \A r \in Jobs : Unprepared(r)' => Unprepared(r)
    BY <2>1 DEF Unprepared
  <2>3. PICK row : row = Asleep /\ row.phase = "idle"
    BY AsleepRow
  <2> QED BY <2>1, <2>2, <2>3, HandledPrepared
<1>4. CASE PrepareSuppressed(w)
  <2>1. PICK row : /\ exec' = [exec EXCEPT ![w] = row] /\ row.phase = "done"
    BY <1>4, StepRow, SettledRow DEF PrepareSuppressed
  <2>2. PICK r \in Jobs : r = exec[w].rem
    BY <1>4, ExecutionRow DEF PrepareSuppressed
  <2>3. /\ reminders' = [reminders EXCEPT ![r] = StoodDown(r, "suppressed")]
        /\ UNCHANGED sent
    BY <1>4, <2>2 DEF PrepareSuppressed, Rem
  <2>4. StoodDown(r, "suppressed").status = "suppressed"
    BY <1>1 DEF StoodDown, Reminder
  <2>5. \A q \in Jobs : Unprepared(q)' => Unprepared(q)
    BY <1>1, <2>3, <2>4 DEF Unprepared
  <2> QED BY <2>1, <2>3, <2>5, HandledPrepared
<1>5. CASE PrepareReady(w)
  <2>1. PICK r \in Jobs : r = exec[w].rem
    BY <1>5, ExecutionRow DEF PrepareReady
  <2>2. /\ reminders' = [reminders EXCEPT ![r] = [With(r, "queued") EXCEPT !.contact = TRUE]]
        /\ UNCHANGED sent
    BY <1>5, <2>1 DEF PrepareReady, Rem
  <2>3. [With(r, "queued") EXCEPT !.contact = TRUE].status = "queued"
    BY <1>1 DEF With, Reminder
  <2>4. ~Unprepared(r)' /\ \A q \in Jobs : Unprepared(q)' => Unprepared(q)
    BY <1>1, <2>2, <2>3 DEF Unprepared
  <2>5. PICK row : exec' = [exec EXCEPT ![w] = row] /\ row.rem = r
    BY <1>5, <2>1, StepRow, SettledRow DEF PrepareReady
  <2>6. exec'[w] = row /\ \A v \in Workers : v # w => exec'[v] = exec[v]
    BY <1>1, <2>5
  <2>7. ASSUME NEW q \in Jobs, Unprepared(q)'
        PROVE  sent'[q] = 0 /\ \A v \in Workers : ~InHand(v, q)'
    <3>1. Unprepared(q) /\ q # r
      BY <2>4, <2>7
    <3> QED BY <2>2, <2>5, <2>6, <3>1 DEF PreparedFirst, InHand
  <2> QED BY <2>7 DEF PreparedFirst
<1>6. CASE \/ ClaimAcquired(w) \/ ClaimAbandoned(w) \/ ClaimSettled(w)
           \/ SendAccepted(w) \/ SendRefused(w) \/ SendUnknown(w)
           \/ FinishOperation(w) \/ FinishThrows(w)
  <2>1. UNCHANGED reminders
    BY <1>6 DEF ClaimAcquired, ClaimAbandoned, ClaimSettled, SendAccepted, SendRefused,
       SendUnknown, FinishOperation, FinishThrows, reminderVars
  <2>2. \A r \in Jobs : Unprepared(r)' => Unprepared(r)
    BY <2>1 DEF Unprepared
  <2>3. exec[w].phase \in {"claim", "send", "finish", "mark"}
    BY <1>6 DEF ClaimAcquired, ClaimAbandoned, ClaimSettled, SendAccepted, SendRefused,
       SendUnknown, FinishOperation, FinishThrows
  <2>4. \/ UNCHANGED sent
        \/ /\ exec[w].phase = "send"
           /\ \A r \in Jobs : r # exec[w].rem => sent'[r] = sent[r]
    BY <1>1, <1>6 DEF ClaimAcquired, ClaimAbandoned, ClaimSettled, SendAccepted, SendRefused,
       SendUnknown, FinishOperation, FinishThrows, Rem
  <2>5. PICK row : exec' = [exec EXCEPT ![w] = row] /\ row.rem = exec[w].rem
    <3>1. CASE ClaimAcquired(w)
      <4>1. PICK t \in Tokens :
              exec' = [exec EXCEPT ![w] = [exec[w] EXCEPT !.phase = "send", !.token = t]]
        BY <1>1, <3>1 DEF ClaimAcquired
      <4>2. [exec[w] EXCEPT !.phase = "send", !.token = t].rem = exec[w].rem
        BY <1>1 DEF Execution
      <4> QED BY <4>1, <4>2
    <3>2. CASE \/ ClaimAbandoned(w) \/ ClaimSettled(w) \/ SendAccepted(w)
               \/ SendRefused(w) \/ SendUnknown(w)
      BY <3>2, StepRow, SettledRow
         DEF ClaimAbandoned, ClaimSettled, SendAccepted, SendRefused, SendUnknown
    <3>3. CASE FinishOperation(w)
      BY <3>3, StepRow, SettledRow DEF FinishOperation
    <3>4. CASE FinishThrows(w)
      BY <3>4, StepRow, SettledRow DEF FinishThrows, Thrown
    <3> QED BY <1>6, <3>1, <3>2, <3>3, <3>4
  <2> QED BY <2>2, <2>3, <2>4, <2>5, HandledPrepared
<1>7. CASE MarkOutcome(w) \/ MarkThrows(w)
  <2>1. exec[w].phase = "mark" /\ UNCHANGED sent
    BY <1>7 DEF MarkOutcome, MarkThrows
  <2>2. PICK r \in Jobs : r = exec[w].rem
    BY <2>1, ExecutionRow
  <2>3. reminders' \in {reminders, Marked(r, exec[w].outcome)}
    BY <1>7, <2>2 DEF MarkOutcome, MarkThrows, Rem
  <2>4. With(r, MarkAs[exec[w].outcome]).status \in Final
    <3>1. exec[w].outcome \in Outcomes
      BY <2>1, ExecutionRow DEF ExecOK
    <3>2. MarkAs[exec[w].outcome] \in Final
      BY <3>1 DEF Outcomes, Proven, MarkAs, Final
    <3> QED BY <1>1, <3>2 DEF With, Reminder
  <2>5. \A q \in Jobs : Unprepared(q)' => Unprepared(q)
    BY <1>1, <2>3, <2>4 DEF Marked, Unprepared, Final
  <2>6. PICK row : exec' = [exec EXCEPT ![w] = row] /\ row.rem = exec[w].rem
    BY <1>7, StepRow, SettledRow DEF MarkOutcome, MarkThrows, Thrown
  <2> QED BY <2>1, <2>5, <2>6, HandledPrepared
<1> QED BY <1>2, <1>3, <1>4, <1>5, <1>6, <1>7 DEF Handle

LEMMA PreparedKeeps ==
  ASSUME ReminderConstants, ReminderInv, PreparedFirst, [ReminderNext]_rdVars
  PROVE  PreparedFirst'
<1>1. reminders \in [Jobs -> Reminder] /\ exec \in [Workers -> Execution]
  BY DEF ReminderInv, ReminderTypeOK
<1>2. ASSUME UNCHANGED <<sent, exec>>, \A r \in Jobs : Unprepared(r)' => Unprepared(r)
      PROVE  PreparedFirst'
  BY <1>2 DEF PreparedFirst, InHand
<1>3. ASSUME NEW r \in Jobs,
             Schedule(r) \/ Dispatch(r) \/ Cancel(r) \/ LapseJob(r) \/ Interrupt(r) \/ DeadLetter(r)
      PROVE  PreparedFirst'
  <2>1. UNCHANGED <<sent, exec>>
    BY <1>3 DEF Schedule, Dispatch, Cancel, LapseJob, Interrupt, DeadLetter
  <2>2. CASE Schedule(r) \/ Dispatch(r)
    <3>1. PICK row : /\ reminders' = [reminders EXCEPT ![r] = row]
                     /\ row.status = reminders[r].status \/ reminders[r].status = "none"
      BY <1>1, <2>2 DEF Schedule, Dispatch, Reminder
    <3>2. \A q \in Jobs : Unprepared(q)' => Unprepared(q)
      BY <1>1, <3>1 DEF Unprepared
    <3> QED BY <1>2, <2>1, <3>2
  <2>3. CASE Cancel(r)
    <3>1. PICK row : /\ reminders' = [reminders EXCEPT ![r] = row]
                     /\ row = [StoodDown(r, "cancelled") EXCEPT
                                 !.outbox = IF @ = "pending" THEN "failed" ELSE @]
      BY <2>3 DEF Cancel
    <3>2. row.status = "cancelled"
      BY <1>1, <3>1 DEF StoodDown, Reminder
    <3>3. \A q \in Jobs : Unprepared(q)' => Unprepared(q)
      BY <1>1, <3>1, <3>2 DEF Unprepared
    <3> QED BY <1>2, <2>1, <3>3
  <2>4. CASE LapseJob(r) \/ Interrupt(r) \/ DeadLetter(r)
    <3>1. UNCHANGED reminders
      BY <2>4 DEF LapseJob, Interrupt, DeadLetter, reminderVars
    <3>2. \A q \in Jobs : Unprepared(q)' => Unprepared(q)
      BY <3>1 DEF Unprepared
    <3> QED BY <1>2, <2>1, <3>2
  <2> QED BY <1>3, <2>2, <2>3, <2>4
<1>4. CASE OptOut \/ Revoke \/ LeaseTick \/ UNCHANGED rdVars
  <2>1. UNCHANGED <<sent, exec>>
    BY <1>4 DEF OptOut, Revoke, LeaseTick, rdVars
  <2>2. CASE OptOut
    <3>1. ASSUME NEW q \in Jobs, Unprepared(q)'
          PROVE  Unprepared(q)
      <4>1. CASE ~reminders[q].contact
        BY <2>2, <3>1, <4>1 DEF OptOut, Unprepared
      <4>2. CASE reminders[q].contact
        <5>1. PICK row : /\ reminders'[q] = row
                         /\ row = [reminders[q] EXCEPT
                              !.status = IF @ \in Pending THEN "suppressed" ELSE @,
                              !.delivery = IF @ \in {"planned", "queued"} THEN "suppressed" ELSE @]
          BY <2>2, <4>2 DEF OptOut
        <5>2. row.status \in {"suppressed", reminders[q].status}
          BY <1>1, <5>1 DEF Reminder
        <5> QED BY <3>1, <5>1, <5>2 DEF Unprepared
      <4> QED BY <4>1, <4>2
    <3> QED BY <1>2, <2>1, <3>1
  <2>3. CASE Revoke \/ LeaseTick \/ UNCHANGED rdVars
    <3>1. UNCHANGED reminders
      BY <2>3 DEF Revoke, LeaseTick, reminderVars, rdVars
    <3>2. \A q \in Jobs : Unprepared(q)' => Unprepared(q)
      BY <3>1 DEF Unprepared
    <3> QED BY <1>2, <2>1, <3>2
  <2> QED BY <1>4, <2>2, <2>3
<1>5. ASSUME NEW r \in Jobs, NEW kind \in ReceiptKinds, ReceiveReceipt(r, kind)
      PROVE  PreparedFirst'
  <2>1. /\ UNCHANGED <<sent, exec>> /\ sent[r] > 0
        /\ reminders' = [reminders EXCEPT ![r] = With(r, AfterReceipt(r, kind))]
    BY <1>5 DEF ReceiveReceipt
  <2>2. ~Unprepared(r)
    BY <2>1 DEF PreparedFirst
  <2>3. \A q \in Jobs : Unprepared(q)' => Unprepared(q)
    <3>1. AfterReceipt(r, kind) \notin {"none", "scheduled"}
      BY <2>2, ReminderRows DEF AfterReceipt, Told, Unprepared
    <3>2. With(r, AfterReceipt(r, kind)).status = AfterReceipt(r, kind)
      BY <1>1 DEF With, Reminder
    <3> QED BY <1>1, <2>1, <3>1, <3>2 DEF Unprepared
  <2> QED BY <1>2, <2>1, <2>3
<1>6. ASSUME NEW w \in Workers, (\E r \in Jobs : StartHandler(w, r)) \/ Crash(w)
      PROVE  PreparedFirst'
  <2>1. PICK row : exec' = [exec EXCEPT ![w] = row] /\ row.phase \in {"prepare", "idle"}
    <3>1. CASE Crash(w)
      BY <3>1, AsleepRow DEF Crash
    <3>2. ASSUME NEW r \in Jobs, StartHandler(w, r)
          PROVE  \E row : exec' = [exec EXCEPT ![w] = row] /\ row.phase = "prepare"
      <4>1. [Asleep EXCEPT !.phase = "prepare", !.rem = r].phase = "prepare"
        BY DEF Asleep
      <4> QED BY <3>2, <4>1 DEF StartHandler
    <3> QED BY <1>6, <3>1, <3>2
  <2>2. UNCHANGED <<sent, reminders>>
    BY <1>6 DEF StartHandler, Crash, reminderVars
  <2>3. \A r \in Jobs : Unprepared(r)' => Unprepared(r)
    BY <2>2 DEF Unprepared
  <2> QED BY <2>1, <2>2, <2>3, HandledPrepared
<1> QED BY <1>3, <1>4, <1>5, <1>6, HandlePrepares DEF ReminderNext

-----------------------------------------------------------------------------
(* Theorems.                                                               *)

LEMMA ReminderInitHolds ==
  ASSUME ReminderConstants, ReminderInit
  PROVE  ReminderInv /\ PreparedFirst
<1>1. /\ ops = [o \in Ops |-> NoOp] /\ granted = {} /\ NoOp \in Operation
      /\ exec = [w \in Workers |-> Asleep] /\ reminders = [r \in Jobs |-> NoReminder]
      /\ sent = [r \in Jobs |-> 0] /\ receipts = [r \in Jobs |-> {}]
      /\ job = [r \in Jobs |-> Unborn] /\ withdrawn = {}
      /\ eligible = TRUE /\ stopped = FALSE
  BY NoOpType DEF ReminderInit, OpInit, LifecycleInit, ReminderConstants
<1>2. Unborn \in [phase : {"absent", "waiting", "held", "settled"},
                  holder : Workers \cup {None}, attempt : 0 .. MaxAttempts]
  BY DEF Unborn, ReminderConstants
<1>3. NoReminder \in Reminder
  BY DEF NoReminder, Reminder
<1>4. ReminderTypeOK
  BY <1>1, <1>2, <1>3, AsleepRow DEF ReminderTypeOK, OpTypeOK, ReminderConstants
<1>5. ClaimedByGrant /\ NeverReassigned /\ ClaimsUnique
  <2>1. ClaimsUnique
    BY <1>1, AsleepRow DEF ClaimsUnique, HasClaim
  <2>2. ClaimedByGrant
    <3>1. \A o \in Ops : ops[o].claims = 0 /\ ops[o].token = Nil /\ ops[o].lease = 0
      <4>1. \A o \in Ops : ops[o] = NoOp
        BY <1>1
      <4>2. NoOp.claims = 0 /\ NoOp.token = Nil /\ NoOp.lease = 0
        BY DEF NoOp
      <4> QED BY <4>1, <4>2
    <3>2. \A o \in Ops : ~(ops[o].claims > 0)
      <4>1. ~(0 > 0)
        OBVIOUS
      <4> QED BY <3>1, <4>1, Zenon
    <3>3. ~\E g \in granted : TRUE
      BY <1>1
    <3> QED BY <3>1, <3>2, <3>3 DEF ClaimedByGrant
  <2>3. NeverReassigned
    BY <1>1 DEF NeverReassigned
  <2> QED BY <2>1, <2>2, <2>3
<1>6. \A w \in Workers : ExecOK(w)
  BY <1>1, AsleepRow DEF ExecOK, HasClaim
<1>7. \A r \in Jobs : Told(r) /\ SentOK(r) /\ JobOK(r)
  <2>1. \A r \in Jobs : ops[r] = NoOp
    BY <1>1 DEF ReminderConstants
  <2> QED BY <1>1, <2>1 DEF Told, SentOK, JobOK, NoReminder, NoOp, Unborn
<1>8. PreparedFirst
  BY <1>1, AsleepRow DEF PreparedFirst, InHand
<1> QED BY <1>1, <1>4, <1>5, <1>6, <1>7, <1>8 DEF ReminderInv

LEMMA ReminderStepKeeps ==
  ASSUME ReminderConstants, ReminderInv, PreparedFirst, [ReminderNext]_rdVars
  PROVE  ReminderInv' /\ PreparedFirst'
<1>0. PreparedFirst'
  BY PreparedKeeps
<1>1. ASSUME ReminderNext PROVE ReminderInv'
  BY <1>1, ScheduleKeeps, DispatchKeeps, CancelKeeps, OptOutKeeps, RevokeKeeps,
     ReceiptKeeps, QueueKeeps, StartKeeps, HandleKeeps, CrashKeeps, LeaseTickKeeps
     DEF ReminderNext
<1>2. ASSUME UNCHANGED rdVars PROVE ReminderInv'
  <2>1. UNCHANGED <<ops, granted>>
    BY <1>2 DEF rdVars
  <2>2. ReminderTypeOK' /\ \A r \in Jobs : Told(r)' /\ SentOK(r)' /\ JobOK(r)'
    BY <1>2, <2>1, LedgerStays, ReminderRows
       DEF rdVars, ReminderInv, ReminderTypeOK, Told, SentOK, JobOK
  <2>3. \A r \in withdrawn' : WithdrawnOK(r)'
    BY <1>2 DEF rdVars, ReminderInv, WithdrawnOK, InHand
  <2> QED BY <1>2, <2>1, <2>2, <2>3, RowsMove DEF rdVars
<1> QED BY <1>0, <1>1, <1>2

LEMMA ReminderInvariantHolds ==
  ASSUME ReminderConstants
  PROVE  ReminderSpec => []ReminderInv
<1>1. ReminderInit => ReminderInv /\ PreparedFirst
  BY ReminderInitHolds
<1>2. ReminderInv /\ PreparedFirst /\ [ReminderNext]_rdVars => ReminderInv' /\ PreparedFirst'
  BY ReminderStepKeeps
<1> QED BY <1>1, <1>2, PTL DEF ReminderSpec

\* The rows of a reminder and of its delivery agree, delivered means a receipt, and
\* every outcome they show is backed by the operation, the carrier or a receipt.
THEOREM RemindersTellTheTruth ==
  ASSUME ReminderConstants
  PROVE  ReminderSpec => []ReminderInvariant
<1>1. ReminderInv => ReminderInvariant
  BY DEF ReminderInv, ReminderInvariant, Told, RowsAgree, DeliveredIffReceipt, OutcomeIsBacked
<1> QED BY <1>1, ReminderInvariantHolds, PTL

\* However often a job is retried and whatever is orphaned, the carrier is asked for a
\* reminder once, and not after it was withdrawn while nobody had it in hand.
THEOREM RemindersAreSentOnceAndWanted ==
  ASSUME ReminderConstants
  PROVE  ReminderSpec => []OneWantedMessage
<1>1. ReminderInv => OneWantedMessage
  <2> SUFFICES ASSUME ReminderInv PROVE OneWantedMessage
    OBVIOUS
  <2>1. AtMostOneMessage
    BY DEF ReminderInv, SentOK, AtMostOneMessage
  <2>2. WithdrawnIsNeverSent
    BY DEF ReminderInv, WithdrawnOK, WithdrawnIsNeverSent
  <2> QED BY <2>1, <2>2 DEF OneWantedMessage
<1> QED BY <1>1, ReminderInvariantHolds, PTL

\* A handler's steps on its operation are steps of the ledger.
LEMMA ReminderStepsLedger ==
  ASSUME ReminderConstants, ReminderInv, [ReminderNext]_rdVars
  PROVE  [OpNext]_opVars
<1>1. CASE UNCHANGED <<ops, granted>>
  BY <1>1 DEF opVars
<1>2. ASSUME NEW r \in Jobs, NEW kind \in ReceiptKinds, ReceiveReceipt(r, kind)
      PROVE  [OpNext]_opVars
  BY <1>2, ReceiptMoves
<1>3. ASSUME NEW w \in Workers, ClaimAcquired(w) \/ ClaimAbandoned(w)
      PROVE  [OpNext]_opVars
  <2>1. exec[w].rem \in Ops
    BY <1>3, ExecutionRow DEF ClaimAcquired, ClaimAbandoned, ReminderConstants
  <2> QED BY <1>3, <2>1, ReminderMembers DEF ClaimAcquired, ClaimAbandoned, Rem, OpNext
<1>4. ASSUME NEW w \in Workers, FinishOperation(w) \/ FinishThrows(w)
      PROVE  [OpNext]_opVars
  <2>1. exec[w].phase = "finish"
    BY <1>4 DEF FinishOperation, FinishThrows
  <2>2. exec[w].rem \in Ops /\ exec[w].outcome \in Outcomes
    BY <2>1, ExecutionRow DEF ExecOK, ReminderConstants
  <2>3. exec[w].token \in Tokens
    <3>1. [op |-> exec[w].rem, owner |-> Owner, token |-> exec[w].token] \in granted
      BY <2>1, ExecutionRow DEF ExecOK, HasClaim
    <3> QED BY <3>1 DEF ReminderInv, ReminderTypeOK, OpTypeOK, Grant
  <2>4. \/ FinishClaim(exec[w].rem, Owner, exec[w].token, exec[w].outcome)
        \/ UNCHANGED <<ops, granted>>
    BY <1>4 DEF FinishOperation, FinishThrows, Rem
  <2> QED BY <2>2, <2>3, <2>4, ReminderMembers DEF OpNext, Outcomes, opVars
<1>5. CASE LeaseTick
  BY <1>5 DEF LeaseTick, OpNext
<1>6. ASSUME NEW w \in Workers,
             \/ PrepareTerminal(w) \/ PrepareSuppressed(w) \/ PrepareDeferred(w)
             \/ PrepareReady(w) \/ ClaimBusy(w) \/ ClaimSettled(w) \/ PrepareOrClaimThrows(w)
             \/ SendAccepted(w) \/ SendRefused(w) \/ SendUnknown(w)
             \/ MarkOutcome(w) \/ MarkThrows(w) \/ Return(w) \/ Crash(w)
      PROVE  UNCHANGED <<ops, granted>>
  BY <1>6 DEF PrepareTerminal, PrepareSuppressed, PrepareDeferred, PrepareReady, ClaimBusy,
              ClaimSettled, PrepareOrClaimThrows, SendAccepted, SendRefused, SendUnknown,
              MarkOutcome, MarkThrows, Return, Crash
<1>7. ASSUME NEW r \in Jobs,
             \/ Schedule(r) \/ Dispatch(r) \/ Cancel(r)
             \/ LapseJob(r) \/ Interrupt(r) \/ DeadLetter(r)
             \/ \E w \in Workers : StartHandler(w, r)
      PROVE  UNCHANGED <<ops, granted>>
  BY <1>7 DEF Schedule, Dispatch, Cancel, LapseJob, Interrupt, DeadLetter, StartHandler
<1>8. CASE OptOut \/ Revoke
  BY <1>1, <1>8 DEF OptOut, Revoke
<1> QED BY <1>1, <1>2, <1>3, <1>4, <1>5, <1>6, <1>7, <1>8 DEF ReminderNext, Handle, rdVars

\* The fenced send keeps every promise of the ledger of external operations: what is
\* proved of any callers holds of this one.
THEOREM RemindersUseTheLedger ==
  ASSUME ReminderConstants
  PROVE  ReminderSpec => OpSpec
<1>1. ReminderInit => OpInit
  BY DEF ReminderInit
<1>2. ReminderInv /\ [ReminderNext]_rdVars => [OpNext]_opVars
  BY ReminderStepsLedger
<1> QED BY <1>1, <1>2, ReminderInvariantHolds, PTL DEF ReminderSpec, OpSpec

\* A job moves as the queue promises.
LEMMA OneJobMoves ==
  ASSUME NEW r \in Jobs, NEW next, job' = [job EXCEPT ![r] = next], next \in Successors(r),
         job \in [Jobs -> [phase : {"absent", "waiting", "held", "settled"},
                           holder : Workers \cup {None}, attempt : 0 .. MaxAttempts]]
  PROVE  LifecycleNext
BY DEF LifecycleNext

LEMMA ReminderStepsJobs ==
  ASSUME ReminderConstants, ReminderInv, [ReminderNext]_rdVars
  PROVE  [LifecycleNext]_job
<1>0. job \in [Jobs -> [phase : {"absent", "waiting", "held", "settled"},
                        holder : Workers \cup {None}, attempt : 0 .. MaxAttempts]]
  BY DEF ReminderInv, ReminderTypeOK
<1>1. ASSUME NEW r \in Jobs, Dispatch(r)
      PROVE  LifecycleNext
  <2>1. job' = [job EXCEPT ![r] = Waiting(0)] /\ reminders[r].outbox = "pending"
    BY <1>1 DEF Dispatch
  <2>2. Waiting(0) \in Successors(r)
    BY <2>1, ReminderRows DEF JobOK, Successors
  <2> QED BY <1>0, <2>1, <2>2, OneJobMoves
<1>2. ASSUME NEW w \in Workers, NEW r \in Jobs, StartHandler(w, r)
      PROVE  LifecycleNext
  BY <1>0, <1>2, OneJobMoves DEF StartHandler
<1>3. ASSUME NEW r \in Jobs, LapseJob(r) \/ Interrupt(r)
      PROVE  LifecycleNext
  <2>1. job' = [job EXCEPT ![r] = Waiting(job[r].attempt)] /\ job[r].phase = "held"
    BY <1>3 DEF LapseJob, Interrupt
  <2>2. Waiting(job[r].attempt) \in Successors(r)
    BY <2>1 DEF Successors
  <2> QED BY <1>0, <2>1, <2>2, OneJobMoves
<1>4. ASSUME NEW r \in Jobs, DeadLetter(r)
      PROVE  LifecycleNext
  <2>1. job' = [job EXCEPT ![r] = Over(job[r].attempt)] /\ job[r].phase = "waiting"
    BY <1>4 DEF DeadLetter
  <2>2. Over(job[r].attempt) \in Successors(r)
    BY <2>1 DEF Successors
  <2> QED BY <1>0, <2>1, <2>2, OneJobMoves
<1>5. ASSUME NEW w \in Workers, Return(w)
      PROVE  [LifecycleNext]_job
  <2>1. PICK r \in Jobs : r = exec[w].rem
    BY <1>5, ExecutionRow DEF Return
  <2>2. CASE job[r].holder # w
    BY <1>5, <2>1, <2>2 DEF Return, Rem
  <2>3. CASE job[r].holder = w
    <3>1. PICK next \in {Waiting(job[r].attempt), Over(job[r].attempt)} :
            job' = [job EXCEPT ![r] = next]
      BY <1>5, <2>1, <2>3 DEF Return, Rem
    <3>2. job[r].phase = "held"
      BY <2>3, ReminderRows DEF JobOK, ReminderConstants
    <3>3. next \in Successors(r)
      BY <3>1, <3>2 DEF Successors
    <3> QED BY <1>0, <3>1, <3>3, OneJobMoves
  <2> QED BY <2>2, <2>3
<1>6. ASSUME NEW w \in Workers, Handle(w) \/ Crash(w), ~Return(w)
      PROVE  UNCHANGED job
  BY <1>6 DEF Handle, Crash, PrepareTerminal, PrepareSuppressed, PrepareDeferred, PrepareReady,
              ClaimAcquired, ClaimBusy, ClaimAbandoned, ClaimSettled, PrepareOrClaimThrows,
              SendAccepted, SendRefused, SendUnknown, FinishOperation, FinishThrows,
              MarkOutcome, MarkThrows
<1>7. CASE OptOut \/ Revoke \/ LeaseTick
  BY <1>7 DEF OptOut, Revoke, LeaseTick
<1>8. ASSUME NEW r \in Jobs, Schedule(r) \/ Cancel(r)
      PROVE  UNCHANGED job
  BY <1>8 DEF Schedule, Cancel
<1>9. ASSUME NEW r \in Jobs, NEW kind \in ReceiptKinds, ReceiveReceipt(r, kind)
       PROVE  UNCHANGED job
  BY <1>9 DEF ReceiveReceipt
<1> QED
  BY <1>1, <1>2, <1>3, <1>4, <1>5, <1>6, <1>7, <1>8, <1>9 DEF ReminderNext, rdVars

\* Whatever its handler does, a reminder's job is what the queue promises: waiting, held
\* by one execution at a time and at most so often, and settled once.
THEOREM ReminderJobsFollowTheQueue ==
  ASSUME ReminderConstants
  PROVE  ReminderSpec => LifecycleSpec
<1>1. ReminderInit => LifecycleInit
  BY DEF ReminderInit
<1>2. ReminderInv /\ [ReminderNext]_rdVars => [LifecycleNext]_job
  BY ReminderStepsJobs
<1> QED BY <1>1, <1>2, ReminderInvariantHolds, PTL DEF ReminderSpec, LifecycleSpec
=============================================================================
