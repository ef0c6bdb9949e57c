--------------------------- MODULE ServicesProofs ---------------------------
(***************************************************************************)
(* What holds of calls and workflows for any number of calls, requests,    *)
(* sockets, workflows, keys and provider events.                           *)
(*                                                                         *)
(* Governed workflows: the actions of a workflow explain its state,        *)
(* completion is proven, and what is completed stays completed.  Incoming  *)
(* calls: the maps of the gateway name nothing that is gone, and a webhook *)
(* that is acknowledged for good is one of a call that was served.         *)
(***************************************************************************)
EXTENDS CallAdmission, Workflow, FiniteSetTheorems, SequenceTheorems, TLAPS

-----------------------------------------------------------------------------
(* Workflows: the inductive invariant.                                     *)

\* A row without actions is as it was started, its actions explain the others; only a
\* row that was never moved can be in a terminal state and not be completed.
RowOK(i) ==
  /\ IsFiniteSet(ActionsOf(i))
  /\ instance[i].status = "absent" => instance[i].version = 0 /\ ActionsOf(i) = {}
  /\ instance[i].status # "absent" => instance[i].version >= 1 /\ Explained(i)
  /\ instance[i].version <= 1 => instance[i].state = Initial
  /\ Unfinished(i) /\ instance[i].state \in TerminalStates => instance[i].version = 1
  /\ instance[i].status = "completed" => \E k \in ActionsOf(i) : ProvenBy(i, k)

\* Events are received once; evidence is of received events, actions of recorded evidence.
EvidenceIsReceived ==
  /\ \A m, n \in DOMAIN received : received[m] = received[n] => m = n
  /\ \A n \in DOMAIN evidence : \E m \in DOMAIN received : received[m] = evidence[n].event
  /\ \A k \in Keys : actions[k] # Absent => actions[k].evidence \in {NoEvidence} \cup DOMAIN evidence

\* The actors that were checked when a request read its row are still those of the row
\* if nobody moved it since.
RequestOK(q) ==
  /\ instance[q.workflow].status # "absent"
  /\ q.expected <= instance[q.workflow].version
  /\ (actions[q.key] = Absent /\ instance[q.workflow].version = q.expected /\ ~q.reversing)
       => Permitted(instance[q.workflow].state, q.action, q.to, q.actor)

WorkflowInv ==
  /\ WorkflowTypeOK /\ EvidenceIsReceived
  /\ \A i \in Workflows : RowOK(i)
  /\ \A r \in Clients : advancing[r] # Absent => RequestOK(advancing[r])

-----------------------------------------------------------------------------
(* Evidence stays what it was, and as late as it was.                      *)

EvidenceKept ==
  \A n \in DOMAIN evidence :
    /\ n \in DOMAIN evidence' /\ evidence'[n] = evidence[n]
    /\ \A m \in DOMAIN evidence : IsLater(n, m) => IsLater(n, m)'

LEMMA EvidenceOnly ==
  ASSUME UNCHANGED <<received, evidence>>
  PROVE  EvidenceKept
BY DEF EvidenceKept, IsLater, ReceivedAt

LEMMA EvidenceGrows ==
  ASSUME EvidenceIsReceived, EvidenceIsReceived',
         \A n \in DOMAIN received : n \in DOMAIN received' /\ received'[n] = received[n],
         \A n \in DOMAIN evidence : n \in DOMAIN evidence' /\ evidence'[n] = evidence[n]
  PROVE  EvidenceKept
<1>1. ASSUME NEW n \in DOMAIN evidence
      PROVE  ReceivedAt(evidence[n].event)' = ReceivedAt(evidence[n].event)
  <2>1. PICK m \in DOMAIN received : received[m] = evidence[n].event
    BY DEF EvidenceIsReceived
  <2>2. ReceivedAt(evidence[n].event) = m
    BY <2>1 DEF EvidenceIsReceived, ReceivedAt
  <2>3. ReceivedAt(evidence[n].event)' = m
    BY <2>1 DEF EvidenceIsReceived, ReceivedAt
  <2> QED BY <2>2, <2>3
<1> QED BY <1>1 DEF EvidenceKept, IsLater

-----------------------------------------------------------------------------
(* A step that moves no row of i keeps what was true of i.                 *)

Kept(i) ==
  /\ instance'[i] = instance[i] /\ ActionsOf(i)' = ActionsOf(i)
  /\ \A k \in ActionsOf(i) : actions'[k] = actions[k]

LEMMA KeptRow ==
  ASSUME NEW i \in Workflows, RowOK(i), Kept(i), EvidenceKept
  PROVE  RowOK(i)'
<1>1. Explained(i) => Explained(i)'
  BY DEF Kept, Explained
<1>2. ASSUME NEW k \in ActionsOf(i), ProvenBy(i, k)
      PROVE  ProvenBy(i, k)'
  BY <1>2 DEF Kept, ProvenBy, EvidenceKept
<1> QED BY <1>1, <1>2 DEF RowOK, Kept, Unfinished

-----------------------------------------------------------------------------
(* The move of one row, by a request or with an exception.                 *)

\* The action that a move records.
ActionOf(q) ==
  [workflow |-> q.workflow, action |-> q.action, from |-> instance[q.workflow].state,
   to |-> q.to, actor |-> q.actor, sequence |-> instance[q.workflow].version + 1,
   evidence |-> q.evidence]

MoveOf(q, status) ==
  /\ actions[q.key] = Absent /\ instance[q.workflow].status # "absent"
  /\ Permitted(instance[q.workflow].state, q.action, q.to, q.actor)
  /\ CompletionProven(q.workflow, q.evidence, q.to)
  /\ status = "completed" <=> q.to \in TerminalStates
  /\ Moved(q, status)
  /\ UNCHANGED <<received, evidence>>

LEMMA MovedRecords ==
  ASSUME WorkflowInv, NEW q \in Request, NEW status \in {"active", "escalated", "completed"},
         MoveOf(q, status)
  PROVE  /\ actions' \in [Keys -> Action \cup {Absent}]
         /\ instance' \in [Workflows -> [state : States, version : Nat,
                            status : {"absent", "active", "escalated", "completed"}]]
         /\ instance'[q.workflow] = [state |-> q.to, status |-> status,
                                     version |-> instance[q.workflow].version + 1]
         /\ \A i \in Workflows \ {q.workflow} : instance'[i] = instance[i]
         /\ actions'[q.key] = ActionOf(q) /\ ActionOf(q) # Absent
         /\ \A k \in Keys \ {q.key} : actions'[k] = actions[k]
         /\ ActionsOf(q.workflow)' = ActionsOf(q.workflow) \cup {q.key}
         /\ q.key \in Keys \ ActionsOf(q.workflow)
         /\ \A i \in Workflows \ {q.workflow} : ActionsOf(i)' = ActionsOf(i)
         /\ \A i \in Workflows : \A k \in ActionsOf(i) : actions'[k] = actions[k]
<1>0. /\ q.workflow \in Workflows /\ q.key \in Keys /\ q.to \in States /\ q.action \in ActionNames
      /\ q.actor \in Actors /\ q.evidence \in Nat
  BY DEF Request
<1>1. /\ instance \in [Workflows -> [state : States, version : Nat,
                         status : {"absent", "active", "escalated", "completed"}]]
      /\ actions \in [Keys -> Action \cup {Absent}]
  BY DEF WorkflowInv, WorkflowTypeOK
<1>2. instance[q.workflow].state \in States /\ instance[q.workflow].version \in Nat
  BY <1>0, <1>1
<1>3. ActionOf(q) \in Action /\ ActionOf(q) # Absent
  <2>1. ActionOf(q) \in Action
    BY <1>0, <1>2 DEF ActionOf, Action
  <2> QED BY <2>1, AbsentAssumption
<1>4. actions' = [actions EXCEPT ![q.key] = ActionOf(q)]
  BY DEF MoveOf, Moved, ActionOf
<1>5. /\ actions' \in [Keys -> Action \cup {Absent}] /\ actions'[q.key] = ActionOf(q)
      /\ \A k \in Keys \ {q.key} : actions'[k] = actions[k]
  BY <1>0, <1>1, <1>3, <1>4
<1>6. instance' = [instance EXCEPT ![q.workflow] =
                     [state |-> q.to, status |-> status,
                      version |-> instance[q.workflow].version + 1]]
  BY DEF MoveOf, Moved
<1>7. [state |-> q.to, status |-> status, version |-> instance[q.workflow].version + 1]
        \in [state : States, version : Nat,
             status : {"absent", "active", "escalated", "completed"}]
  BY <1>0, <1>2
<1>8. /\ instance' \in [Workflows -> [state : States, version : Nat,
                          status : {"absent", "active", "escalated", "completed"}]]
      /\ instance'[q.workflow] = [state |-> q.to, status |-> status,
                                  version |-> instance[q.workflow].version + 1]
      /\ \A i \in Workflows \ {q.workflow} : instance'[i] = instance[i]
  BY <1>0, <1>1, <1>6, <1>7
<1>9. actions[q.key] = Absent
  BY DEF MoveOf
<1>10. ActionOf(q).workflow = q.workflow
  BY DEF ActionOf
<1>11. /\ ActionsOf(q.workflow)' = ActionsOf(q.workflow) \cup {q.key}
       /\ q.key \in Keys \ ActionsOf(q.workflow)
       /\ \A i \in Workflows \ {q.workflow} : ActionsOf(i)' = ActionsOf(i)
       /\ \A i \in Workflows : \A k \in ActionsOf(i) : actions'[k] = actions[k]
  BY <1>0, <1>3, <1>5, <1>9, <1>10 DEF ActionsOf
<1> QED BY <1>3, <1>5, <1>8, <1>11

\* The sequence numbers of the actions go up to the version of the row.
LEMMA SequenceOfActions ==
  ASSUME NEW i \in Workflows, WorkflowTypeOK, RowOK(i)
  PROVE  /\ instance[i].version \in Nat
         /\ \A k \in ActionsOf(i) : /\ actions[k] \in Action
                                    /\ actions[k].sequence \in 2 .. instance[i].version
<1>1. instance[i].version \in Nat
  BY DEF WorkflowTypeOK
<1>2. \A k \in ActionsOf(i) : actions[k] \in Action
  BY DEF WorkflowTypeOK, ActionsOf
<1>3. \A k \in ActionsOf(i) : actions[k].sequence \in 2 .. instance[i].version
  BY DEF RowOK, Explained
<1> QED BY <1>1, <1>2, <1>3

\* Evidence that moves a row out of a terminal state is later than that which brought it
\* there: the latest prior evidence is that of the row's last action.
LEMMA LaterThanBefore ==
  ASSUME NEW i \in Workflows, WorkflowTypeOK, EvidenceIsReceived, RowOK(i),
         NEW n, NEW to \in TerminalStates,
         instance[i].status # "absent", instance[i].state \in TerminalStates, CompletionProven(i, n, to)
  PROVE  \E l \in ActionsOf(i) :
           /\ actions[l].to = instance[i].state /\ actions[l].evidence \in DOMAIN evidence
           /\ IsLater(n, actions[l].evidence)
<1> DEFINE prior == PriorEvidence(i)
           latest == CHOOSE k \in prior :
                       \A l \in prior : actions[l].sequence <= actions[k].sequence
<1>1. prior # {} /\ IsLater(n, actions[latest].evidence)
  BY DEF CompletionProven
<1>2. prior \subseteq ActionsOf(i) /\ \A l \in prior : actions[l].to = instance[i].state
  BY DEF PriorEvidence, ActionsOf
<1>3. instance[i].status = "completed"
  <2>1. ASSUME Unfinished(i)
        PROVE  FALSE
    <3>1. instance[i].version = 1
      BY <2>1 DEF RowOK
    <3>2. \A k \in ActionsOf(i) : actions[k].sequence \in 2 .. 1
      BY <3>1, SequenceOfActions
    <3> QED BY <1>1, <1>2, <3>2
  <2>2. instance[i].status \in {"absent", "active", "escalated", "completed"}
    BY DEF WorkflowTypeOK
  <2> QED BY <2>1, <2>2 DEF Unfinished
<1>4. PICK k \in ActionsOf(i) : ProvenBy(i, k)
  BY <1>3 DEF RowOK
<1>5. /\ actions[k].sequence = instance[i].version /\ actions[k].evidence \in DOMAIN evidence
      /\ actions[k].to = instance[i].state
  BY <1>3, <1>4 DEF ProvenBy, RowOK, Explained
<1>6. evidence \in Seq(EvidenceRow) /\ DOMAIN evidence = 1 .. Len(evidence)
  BY DEF WorkflowTypeOK
<1>7. k \in prior
  BY <1>4, <1>5, <1>6 DEF PriorEvidence, ActionsOf, NoEvidence
<1>8. \A l \in prior : actions[l].sequence <= actions[k].sequence
  BY <1>2, <1>5, SequenceOfActions
<1>9. /\ latest \in prior
      /\ \A l \in prior : actions[l].sequence <= actions[latest].sequence
  BY <1>7, <1>8
<1>10. \A l \in prior : actions[l].evidence \in DOMAIN evidence
  BY DEF EvidenceIsReceived, PriorEvidence
<1> QED BY <1>1, <1>2, <1>9, <1>10

LEMMA MovedRow ==
  ASSUME WorkflowInv, NEW q \in Request, NEW status \in {"active", "escalated", "completed"},
         MoveOf(q, status)
  PROVE  RowOK(q.workflow)'
<1> DEFINE w == q.workflow
           version == instance[w].version
<1>1. /\ WorkflowTypeOK /\ EvidenceIsReceived /\ RowOK(w) /\ w \in Workflows /\ q.key \in Keys
      /\ instance[w].status # "absent" /\ version \in Nat /\ version >= 1 /\ Explained(w)
  <2>1. WorkflowTypeOK /\ EvidenceIsReceived /\ w \in Workflows /\ q.key \in Keys
    BY DEF WorkflowInv, Request
  <2>2. RowOK(w) /\ instance[w].status # "absent"
    BY <2>1 DEF WorkflowInv, MoveOf
  <2>3. version \in Nat
    BY <2>1, <2>2, SequenceOfActions
  <2> QED BY <2>1, <2>2, <2>3 DEF RowOK
<1>2. /\ instance'[w].state = q.to /\ instance'[w].status = status
      /\ instance'[w].version = version + 1
      /\ actions'[q.key] = ActionOf(q)
      /\ ActionsOf(w)' = ActionsOf(w) \cup {q.key} /\ q.key \notin ActionsOf(w)
      /\ \A k \in ActionsOf(w) : actions'[k] = actions[k]
  <2>1. /\ instance'[w] = [state |-> q.to, status |-> status, version |-> version + 1]
        /\ actions'[q.key] = ActionOf(q)
        /\ ActionsOf(w)' = ActionsOf(w) \cup {q.key} /\ q.key \in Keys \ ActionsOf(w)
        /\ \A i \in Workflows : \A k \in ActionsOf(i) : actions'[k] = actions[k]
    BY MovedRecords
  <2> QED BY <1>1, <2>1
<1>3. /\ ActionOf(q).from = instance[w].state /\ ActionOf(q).to = q.to
      /\ ActionOf(q).action = q.action /\ ActionOf(q).actor = q.actor
      /\ ActionOf(q).sequence = version + 1 /\ ActionOf(q).evidence = q.evidence
  BY DEF ActionOf
<1>4. \A k \in ActionsOf(w) : actions[k].sequence \in 2 .. version
  BY <1>1, SequenceOfActions
<1>5. IsFiniteSet(ActionsOf(w)') /\ Cardinality(ActionsOf(w)') = Cardinality(ActionsOf(w)) + 1
  BY <1>1, <1>2, FS_AddElement DEF RowOK
<1>6. instance'[w].version = Cardinality(ActionsOf(w)') + 1
  <2>1. version = Cardinality(ActionsOf(w)) + 1
    BY <1>1 DEF Explained
  <2> QED BY <1>2, <1>5, <2>1
<1>7. {actions'[k].sequence : k \in ActionsOf(w)'} = 2 .. version + 1
  <2>1. {actions[k].sequence : k \in ActionsOf(w)} = 2 .. version
    BY <1>1 DEF Explained
  <2>2. {actions'[k].sequence : k \in ActionsOf(w)'} = (2 .. version) \cup {version + 1}
    BY <1>2, <1>3, <2>1
  <2>3. (2 .. version) \cup {version + 1} = 2 .. version + 1
    BY <1>1
  <2> QED BY <2>2, <2>3
<1>8. Permitted(instance[w].state, q.action, q.to, q.actor)
  BY DEF MoveOf
<1>9. version = 1 => instance[w].state = Initial /\ ActionsOf(w) = {}
  <2>1. version = 1 => \A k \in ActionsOf(w) : actions[k].sequence \in 2 .. 1
    BY <1>4
  <2> QED BY <1>1, <2>1 DEF RowOK
<1>10. ASSUME NEW k \in ActionsOf(w)'
       PROVE  /\ Permitted(actions'[k].from, actions'[k].action, actions'[k].to, actions'[k].actor)
              /\ actions'[k].sequence = 2 => actions'[k].from = Initial
              /\ actions'[k].sequence = version + 1 => actions'[k].to = q.to
              /\ \A l \in ActionsOf(w)' :
                   actions'[l].sequence = actions'[k].sequence + 1 => actions'[l].from = actions'[k].to
  <2>1. CASE k = q.key
    <3>1. \A l \in ActionsOf(w)' : actions'[l].sequence # version + 2
      BY <1>1, <1>2, <1>3, <1>4
    <3>2. /\ actions'[k].sequence = version + 1 /\ actions'[k].from = instance[w].state
          /\ actions'[k].to = q.to /\ actions'[k].action = q.action /\ actions'[k].actor = q.actor
      BY <1>2, <1>3, <2>1
    <3> QED BY <1>1, <1>8, <1>9, <3>1, <3>2
  <2>2. CASE k \in ActionsOf(w)
    <3>1. /\ Permitted(actions[k].from, actions[k].action, actions[k].to, actions[k].actor)
          /\ actions[k].sequence = 2 => actions[k].from = Initial
          /\ actions[k].sequence = version => actions[k].to = instance[w].state
          /\ \A l \in ActionsOf(w) :
               actions[l].sequence = actions[k].sequence + 1 => actions[l].from = actions[k].to
      BY <1>1, <2>2 DEF Explained
    <3>2. actions'[k] = actions[k] /\ actions[k].sequence \in 2 .. version
      BY <1>2, <1>4, <2>2
    <3>3. \A l \in ActionsOf(w)' :
            actions'[l].sequence = actions[k].sequence + 1 => actions'[l].from = actions[k].to
      <4>1. actions'[q.key].sequence = actions[k].sequence + 1
              => actions'[q.key].from = actions[k].to
        BY <1>1, <1>2, <1>3, <3>1, <3>2
      <4> QED BY <1>2, <3>1, <4>1
    <3>4. actions'[k].sequence # version + 1
      BY <1>1, <3>2
    <3> QED BY <3>1, <3>2, <3>3, <3>4
  <2> QED BY <1>2, <2>1, <2>2
<1>11. Explained(w)'
  BY <1>2, <1>6, <1>7, <1>10 DEF Explained
<1>12. status = "completed" => ProvenBy(w, q.key)'
  <2>1. SUFFICES ASSUME q.to \in TerminalStates
                 PROVE  ProvenBy(w, q.key)'
    BY DEF MoveOf
  <2>2. /\ q.evidence \in DOMAIN evidence /\ Outcome[evidence[q.evidence].event] = q.to
        /\ evidence' = evidence /\ EvidenceKept /\ CompletionProven(w, q.evidence, q.to)
    BY <2>1, EvidenceOnly DEF MoveOf, CompletionProven
  <2>3. instance[w].state \in TerminalStates =>
          \E l \in ActionsOf(w) :
            /\ actions[l].to = instance[w].state /\ actions[l].evidence \in DOMAIN evidence
            /\ IsLater(q.evidence, actions[l].evidence)
    BY <1>1, <2>1, <2>2, LaterThanBefore
  <2>4. instance[w].state \in TerminalStates =>
          \E l \in ActionsOf(w)' :
            /\ actions'[l].to = instance[w].state /\ actions'[l].evidence \in DOMAIN evidence'
            /\ IsLater(q.evidence, actions[l].evidence)'
            /\ actions'[l] = actions[l]
    BY <1>2, <2>2, <2>3 DEF EvidenceKept
  <2> QED BY <1>2, <1>3, <2>2, <2>4 DEF ProvenBy
<1>13. ~(Unfinished(w)' /\ instance'[w].state \in TerminalStates)
  BY <1>2 DEF MoveOf, Unfinished
<1>14. instance'[w].version >= 2 /\ instance'[w].status # "absent"
  BY <1>1, <1>2
<1> QED BY <1>1, <1>2, <1>5, <1>11, <1>12, <1>13, <1>14 DEF RowOK

\* What a move keeps of the rest of the invariant.
LEMMA MoveKeeps ==
  ASSUME WorkflowInv, NEW q \in Request, NEW status \in {"active", "escalated", "completed"},
         MoveOf(q, status)
  PROVE  /\ EvidenceIsReceived'
         /\ \A i \in Workflows : RowOK(i)'
         /\ \A p \in Request : RequestOK(p) => RequestOK(p)'
<1>1. /\ q.workflow \in Workflows /\ q.key \in Keys /\ EvidenceIsReceived
      /\ evidence' = evidence /\ received' = received /\ EvidenceKept
  BY EvidenceOnly DEF Request, WorkflowInv, MoveOf
<1>2. EvidenceIsReceived'
  <2>1. q.evidence \in {NoEvidence} \cup DOMAIN evidence
    BY DEF MoveOf, CompletionProven
  <2>2. actions'[q.key].evidence = q.evidence
    <3>1. actions'[q.key] = ActionOf(q)
      BY MovedRecords
    <3> QED BY <3>1 DEF ActionOf
  <2>3. \A k \in Keys \ {q.key} : actions'[k] = actions[k]
    BY MovedRecords
  <2> QED BY <1>1, <2>1, <2>2, <2>3 DEF EvidenceIsReceived
<1>3. ASSUME NEW i \in Workflows
      PROVE  RowOK(i)'
  <2>1. CASE i = q.workflow
    BY <2>1, MovedRow
  <2>2. CASE i # q.workflow
    <3>1. Kept(i)
      <4>1. /\ \A j \in Workflows \ {q.workflow} : instance'[j] = instance[j]
            /\ \A j \in Workflows \ {q.workflow} : ActionsOf(j)' = ActionsOf(j)
            /\ \A j \in Workflows : \A k \in ActionsOf(j) : actions'[k] = actions[k]
        BY MovedRecords
      <4> QED BY <2>2, <4>1 DEF Kept
    <3>2. RowOK(i)
      BY DEF WorkflowInv
    <3> QED BY <1>1, <3>1, <3>2, KeptRow
  <2> QED BY <2>1, <2>2
<1>4. ASSUME NEW p \in Request, RequestOK(p)
      PROVE  RequestOK(p)'
  <2>1. /\ p.workflow \in Workflows /\ p.key \in Keys /\ p.expected \in Nat
        /\ instance[p.workflow].version \in Nat
    BY DEF Request, WorkflowInv, WorkflowTypeOK
  <2>2. CASE p.workflow = q.workflow
    <3>1. /\ instance'[p.workflow].version = instance[p.workflow].version + 1
          /\ instance'[p.workflow].status = status
      <4>1. instance'[q.workflow] = [state |-> q.to, status |-> status,
                                     version |-> instance[q.workflow].version + 1]
        BY MovedRecords
      <4> QED BY <2>2, <4>1
    <3> QED BY <1>4, <2>1, <3>1 DEF RequestOK
  <2>3. CASE p.workflow # q.workflow
    <3>1. /\ instance'[p.workflow] = instance[p.workflow]
          /\ actions'[p.key] = Absent => actions[p.key] = Absent
      <4>1. /\ \A i \in Workflows \ {q.workflow} : instance'[i] = instance[i]
            /\ \A k \in Keys \ {q.key} : actions'[k] = actions[k]
            /\ actions'[q.key] # Absent
        BY MovedRecords
      <4> QED BY <2>1, <2>3, <4>1
    <3> QED BY <1>4, <3>1 DEF RequestOK
  <2> QED BY <2>2, <2>3
<1> QED BY <1>2, <1>3, <1>4

-----------------------------------------------------------------------------
(* Every action keeps the invariant.                                       *)

LEMMA WorkflowInitInv == WorkflowInit => WorkflowInv
<1> SUFFICES ASSUME WorkflowInit
             PROVE  WorkflowInv
  OBVIOUS
<1> USE DEF WorkflowInit
<1>1. WorkflowTypeOK
  <2>1. <<>> \in Seq(Events) /\ <<>> \in Seq(EvidenceRow)
    BY EmptySeq
  <2> QED BY <2>1 DEF WorkflowTypeOK, States
<1>2. EvidenceIsReceived
  BY DEF EvidenceIsReceived
<1>3. ASSUME NEW i \in Workflows
      PROVE  RowOK(i)
  <2>1. ActionsOf(i) = {}
    BY DEF ActionsOf
  <2> QED BY <2>1, FS_EmptySet DEF RowOK, Unfinished
<1> QED BY <1>1, <1>2, <1>3 DEF WorkflowInv

LEMMA StartStep ==
  ASSUME WorkflowInv, NEW i \in Workflows, Start(i)
  PROVE  WorkflowInv'
<1>1. WorkflowTypeOK /\ EvidenceIsReceived /\ \A j \in Workflows : RowOK(j)
  BY DEF WorkflowInv
<1>2. /\ instance[i].status = "absent" /\ instance[i].version = 0 /\ ActionsOf(i) = {}
      /\ instance[i].state = Initial
  BY <1>1 DEF Start, RowOK
<1>3. /\ UNCHANGED <<actions, exceptions, received, evidence, advancing>>
      /\ instance'[i] = [instance[i] EXCEPT !.status = "active", !.version = 1]
      /\ \A j \in Workflows \ {i} : instance'[j] = instance[j]
      /\ instance' \in [Workflows -> [state : States, version : Nat,
                          status : {"absent", "active", "escalated", "completed"}]]
  <2> DEFINE row == [instance[i] EXCEPT !.status = "active", !.version = 1]
  <2>1. row \in [state : States, version : Nat,
                 status : {"absent", "active", "escalated", "completed"}]
    BY <1>1 DEF WorkflowTypeOK
  <2>2. /\ UNCHANGED <<actions, exceptions, received, evidence, advancing>>
        /\ instance' = [instance EXCEPT ![i] = row]
    BY DEF Start
  <2> HIDE DEF row
  <2>3. /\ instance'[i] = row /\ \A j \in Workflows \ {i} : instance'[j] = instance[j]
        /\ instance' \in [Workflows -> [state : States, version : Nat,
                            status : {"absent", "active", "escalated", "completed"}]]
    BY <1>1, <2>1, <2>2 DEF WorkflowTypeOK
  <2> QED BY <2>2, <2>3 DEF row
<1>4. /\ instance'[i].status = "active" /\ instance'[i].version = 1
      /\ instance'[i].state = Initial
  BY <1>1, <1>2, <1>3 DEF WorkflowTypeOK
<1>5. WorkflowTypeOK' /\ EvidenceIsReceived'
  BY <1>1, <1>3 DEF WorkflowTypeOK, EvidenceIsReceived
<1>6. \A j \in Workflows : ActionsOf(j)' = ActionsOf(j)
  BY <1>3 DEF ActionsOf
<1>7. RowOK(i)'
  <2>1. Explained(i)'
    <3>1. {actions'[k].sequence : k \in ActionsOf(i)'} = 2 .. 1
      BY <1>2, <1>6
    <3> QED BY <1>2, <1>4, <1>6, <3>1, FS_EmptySet DEF Explained
  <2> QED BY <1>2, <1>4, <1>6, <2>1, FS_EmptySet DEF RowOK
<1>8. ASSUME NEW j \in Workflows, j # i
      PROVE  RowOK(j)'
  <2>1. Kept(j) /\ EvidenceKept
    BY <1>3, <1>6, <1>8, EvidenceOnly DEF Kept
  <2> QED BY <1>1, <2>1, KeptRow
<1>9. ASSUME NEW r \in Clients, advancing'[r] # Absent
      PROVE  RequestOK(advancing[r])'
  <2>1. RequestOK(advancing[r]) /\ advancing[r].workflow \in Workflows
    BY <1>1, <1>3, <1>9 DEF WorkflowInv, WorkflowTypeOK, Request
  <2>2. instance'[advancing[r].workflow] = instance[advancing[r].workflow]
    BY <1>2, <1>3, <2>1 DEF RequestOK
  <2> QED BY <1>3, <2>1, <2>2 DEF RequestOK
<1> QED BY <1>5, <1>7, <1>8, <1>9 DEF WorkflowInv

LEMMA RowsKept ==
  ASSUME WorkflowInv, UNCHANGED <<instance, actions>>, EvidenceKept
  PROVE  /\ \A i \in Workflows : RowOK(i)'
         /\ \A p \in Request : RequestOK(p) => RequestOK(p)'
<1>1. ASSUME NEW i \in Workflows
      PROVE  RowOK(i)'
  <2>1. RowOK(i) /\ Kept(i)
    BY DEF WorkflowInv, Kept, ActionsOf
  <2> QED BY <2>1, KeptRow
<1>2. ASSUME NEW p \in Request, RequestOK(p)
      PROVE  RequestOK(p)'
  BY <1>2 DEF RequestOK
<1> QED BY <1>1, <1>2

\* The requests in hand that a step does not touch.
LEMMA RequestsKept ==
  ASSUME WorkflowInv, \A p \in Request : RequestOK(p) => RequestOK(p)',
         NEW r \in Clients, advancing[r] # Absent, advancing'[r] = advancing[r]
  PROVE  RequestOK(advancing[r])'
<1>1. advancing[r] \in Request /\ RequestOK(advancing[r])
  BY DEF WorkflowInv, WorkflowTypeOK
<1>2. PICK p \in Request : p = advancing[r]
  BY <1>1
<1>3. RequestOK(p)'
  BY <1>1, <1>2
<1>4. advancing'[r] = p
  BY <1>2
<1> QED BY <1>3, <1>4 DEF RequestOK

LEMMA ReceiveProofStep ==
  ASSUME WorkflowInv, NEW e \in Events, ReceiveProof(e)
  PROVE  WorkflowInv'
<1>1. /\ WorkflowTypeOK /\ EvidenceIsReceived
      /\ UNCHANGED <<instance, actions, exceptions, evidence, advancing>>
      /\ received \in Seq(Events) /\ received' = Append(received, e)
      /\ \A n \in DOMAIN received : received[n] # e
  BY DEF WorkflowInv, WorkflowTypeOK, ReceiveProof
<1>2. /\ received' \in Seq(Events) /\ Len(received) \in Nat
      /\ DOMAIN received = 1 .. Len(received) /\ DOMAIN received' = 1 .. Len(received) + 1
      /\ \A n \in 1 .. Len(received) : received'[n] = received[n]
      /\ received'[Len(received) + 1] = e
  <2>1. /\ Append(received, e) \in Seq(Events) /\ Len(Append(received, e)) = Len(received) + 1
        /\ \A n \in 1 .. Len(received) : Append(received, e)[n] = received[n]
        /\ Append(received, e)[Len(received) + 1] = e
    BY <1>1, AppendProperties
  <2> QED BY <1>1, <2>1, LenProperties
<1>3. WorkflowTypeOK'
  BY <1>1, <1>2 DEF WorkflowTypeOK
<1>4. EvidenceIsReceived'
  <2>1. \A m, n \in DOMAIN received' : received'[m] = received'[n] => m = n
    BY <1>1, <1>2 DEF EvidenceIsReceived
  <2>2. DOMAIN received \subseteq DOMAIN received'
    BY <1>2
  <2> QED BY <1>1, <1>2, <2>1, <2>2 DEF EvidenceIsReceived
<1>5. EvidenceKept
  <2>1. \A n \in DOMAIN received : n \in DOMAIN received' /\ received'[n] = received[n]
    BY <1>2
  <2> QED BY <1>1, <1>4, <2>1, EvidenceGrows
<1>6. \A r \in Clients : advancing'[r] = advancing[r]
  BY <1>1
<1> QED BY <1>1, <1>3, <1>4, <1>5, <1>6, RowsKept, RequestsKept DEF WorkflowInv

LEMMA RecordEvidenceStep ==
  ASSUME WorkflowInv, NEW i \in Workflows, NEW e \in Events, NEW t \in 1 .. MaxObserved,
         RecordEvidence(i, e, t)
  PROVE  WorkflowInv'
<1> DEFINE row == [workflow |-> i, event |-> e, observed |-> t]
<1>1. /\ WorkflowTypeOK /\ EvidenceIsReceived
      /\ UNCHANGED <<instance, actions, exceptions, received, advancing>>
      /\ evidence \in Seq(EvidenceRow) /\ evidence' = Append(evidence, row)
      /\ \E n \in DOMAIN received : received[n] = e
  BY DEF WorkflowInv, WorkflowTypeOK, RecordEvidence
<1>2. row \in EvidenceRow /\ row.event = e
  BY DEF EvidenceRow
<1> HIDE DEF row
<1>3. /\ evidence' \in Seq(EvidenceRow) /\ Len(evidence) \in Nat
      /\ DOMAIN evidence = 1 .. Len(evidence) /\ DOMAIN evidence' = 1 .. Len(evidence) + 1
      /\ \A n \in 1 .. Len(evidence) : evidence'[n] = evidence[n]
      /\ evidence'[Len(evidence) + 1] = row
  <2>1. /\ Append(evidence, row) \in Seq(EvidenceRow)
        /\ Len(Append(evidence, row)) = Len(evidence) + 1
        /\ \A n \in 1 .. Len(evidence) : Append(evidence, row)[n] = evidence[n]
        /\ Append(evidence, row)[Len(evidence) + 1] = row
    BY <1>1, <1>2, AppendProperties
  <2> QED BY <1>1, <2>1, LenProperties
<1>4. WorkflowTypeOK'
  BY <1>1, <1>3 DEF WorkflowTypeOK
<1>5. DOMAIN evidence \subseteq DOMAIN evidence'
  BY <1>3
<1>6. EvidenceIsReceived'
  <2>1. \A n \in DOMAIN evidence' : \E m \in DOMAIN received : received[m] = evidence'[n].event
    BY <1>1, <1>2, <1>3 DEF EvidenceIsReceived
  <2> QED BY <1>1, <1>5, <2>1 DEF EvidenceIsReceived
<1>7. EvidenceKept
  <2>1. \A n \in DOMAIN evidence : n \in DOMAIN evidence' /\ evidence'[n] = evidence[n]
    BY <1>3
  <2> QED BY <1>1, <1>6, <2>1, EvidenceGrows
<1>8. \A r \in Clients : advancing'[r] = advancing[r]
  BY <1>1
<1> QED BY <1>1, <1>4, <1>6, <1>7, <1>8, RowsKept, RequestsKept DEF WorkflowInv

LEMMA AdvanceStep ==
  ASSUME WorkflowInv, NEW r \in Clients, NEW i \in Workflows, NEW k \in Keys, NEW e \in Edges,
         NEW actor \in e.actors, NEW n \in 0 .. Len(evidence),
         NEW v \in 1 .. instance[i].version,
         Advance(r, i, k, e.action, e.to, actor, n, v)
  PROVE  WorkflowInv'
<1>1. /\ WorkflowTypeOK /\ EvidenceIsReceived
      /\ UNCHANGED <<instance, actions, exceptions, received, evidence>>
      /\ MayAdvance(i, k, e.action, e.to, actor, n)
  BY DEF WorkflowInv, Advance
<1>2. PICK q : q = [workflow |-> i, action |-> e.action, to |-> e.to, actor |-> actor,
                    expected |-> v, key |-> k, evidence |-> n, edge |-> EdgeState(i, k),
                    reversing |-> Reverses(i, k, e.to)]
  OBVIOUS
<1>3. /\ q.workflow = i /\ q.action = e.action /\ q.to = e.to /\ q.actor = actor
      /\ q.expected = v /\ q.key = k
  BY <1>2
<1>4. q \in Request
  <2>1. EdgeState(i, k) \in States
    BY <1>1 DEF WorkflowTypeOK, EdgeState, Action
  <2>2. actor \in Actors /\ e.action \in ActionNames /\ e.to \in States
    BY WorkflowAssumption DEF ActionNames, States
  <2>3. v \in Nat /\ n \in Nat /\ Reverses(i, k, e.to) \in BOOLEAN
    <3>1. instance[i].version \in Nat /\ Len(evidence) \in Nat
      BY <1>1, LenProperties DEF WorkflowTypeOK
    <3> QED BY <3>1 DEF Reverses
  <2> QED BY <1>2, <2>1, <2>2, <2>3 DEF Request
<1>5. advancing' = [advancing EXCEPT ![r] = q]
  BY <1>2 DEF Advance
<1>6. /\ advancing' \in [Clients -> Request \cup {Absent}] /\ advancing'[r] = q
      /\ \A s \in Clients \ {r} : advancing'[s] = advancing[s]
  BY <1>1, <1>4, <1>5 DEF WorkflowTypeOK
<1>7. WorkflowTypeOK' /\ EvidenceIsReceived'
  BY <1>1, <1>6 DEF WorkflowTypeOK, EvidenceIsReceived
<1>8. EvidenceKept
  BY <1>1, EvidenceOnly
<1>9. RequestOK(q)
  <2>1. v <= instance[i].version
    OBVIOUS
  <2> QED BY <1>1, <1>3, <2>1 DEF RequestOK, MayAdvance, EdgeState
<1>10. RequestOK(q)'
  BY <1>1, <1>4, <1>8, <1>9, RowsKept
<1>11. ASSUME NEW s \in Clients, advancing'[s] # Absent
       PROVE  RequestOK(advancing[s])'
  <2>1. CASE s = r
    BY <1>6, <1>10, <2>1 DEF RequestOK
  <2>2. CASE s # r
    BY <1>1, <1>6, <1>8, <1>11, <2>2, RowsKept, RequestsKept
  <2> QED BY <2>1, <2>2
<1> QED BY <1>1, <1>7, <1>8, <1>11, RowsKept DEF WorkflowInv

LEMMA RefuseStep ==
  ASSUME WorkflowInv, NEW r \in Clients, Refuse(r)
  PROVE  WorkflowInv'
<1>1. /\ UNCHANGED <<instance, actions, exceptions, received, evidence>>
      /\ advancing' = [advancing EXCEPT ![r] = Absent] /\ WorkflowTypeOK /\ EvidenceIsReceived
  BY DEF Refuse, WorkflowInv
<1>2. WorkflowTypeOK' /\ EvidenceIsReceived'
  BY <1>1 DEF WorkflowTypeOK, EvidenceIsReceived
<1>3. EvidenceKept
  BY <1>1, EvidenceOnly
<1>4. ASSUME NEW s \in Clients, advancing'[s] # Absent
      PROVE  advancing[s] # Absent /\ advancing'[s] = advancing[s]
  BY <1>1, <1>4 DEF WorkflowTypeOK
<1> QED BY <1>1, <1>2, <1>3, <1>4, RowsKept, RequestsKept DEF WorkflowInv

\* The rows of exceptions that a request or a raise leaves are of their type.
LEMMA ExceptionsTyped ==
  ASSUME exceptions \in [Dedupes -> Exception \cup {Absent}],
         \/ \E q \in Request : LeavesException(q)
         \/ \E d \in Dedupes, i \in Workflows : Raised(d, i)
  PROVE  exceptions' \in [Dedupes -> Exception \cup {Absent}]
<1>1. ASSUME NEW q \in Request, LeavesException(q)
      PROVE  exceptions' \in [Dedupes -> Exception \cup {Absent}]
  <2>1. ASSUME NEW d \in Dedupes, exceptions[d] # Absent
        PROVE  [exceptions[d] EXCEPT !.status = "resolved"] \in Exception
    BY <2>1 DEF Exception
  <2>2. \A d \in Dedupes : IsException(d, q.workflow, {"open"}) => exceptions[d] # Absent
    BY DEF IsException
  <2> QED BY <1>1, <2>1, <2>2 DEF LeavesException
<1>2. ASSUME NEW d \in Dedupes, NEW i \in Workflows, Raised(d, i)
      PROVE  exceptions' \in [Dedupes -> Exception \cup {Absent}]
  <2>1. [workflow |-> i, status |-> "open"] \in Exception
    BY DEF Exception
  <2> QED BY <1>2, <2>1 DEF Raised
<1> QED BY <1>1, <1>2

LEMMA CommitStep ==
  ASSUME WorkflowInv, NEW r \in Clients, Commit(r)
  PROVE  WorkflowInv'
<1>1. /\ WorkflowTypeOK /\ EvidenceIsReceived /\ advancing[r] \in Request
      /\ RequestOK(advancing[r])
      /\ UNCHANGED <<received, evidence>>
      /\ advancing' = [advancing EXCEPT ![r] = Absent] /\ LeavesException(advancing[r])
  BY DEF Commit, WorkflowInv, WorkflowTypeOK
<1>2. PICK q \in Request : q = advancing[r]
  BY <1>1
<1>3. /\ exceptions' \in [Dedupes -> Exception \cup {Absent}]
      /\ advancing' \in [Clients -> Request \cup {Absent}]
      /\ received' \in Seq(Events) /\ evidence' \in Seq(EvidenceRow)
  <2>1. LeavesException(q) /\ exceptions \in [Dedupes -> Exception \cup {Absent}]
    BY <1>1, <1>2 DEF WorkflowTypeOK
  <2>2. exceptions' \in [Dedupes -> Exception \cup {Absent}]
    BY <2>1, ExceptionsTyped
  <2> QED BY <1>1, <2>2 DEF WorkflowTypeOK
<1>4. ASSUME NEW s \in Clients, advancing'[s] # Absent
      PROVE  advancing[s] # Absent /\ advancing'[s] = advancing[s]
  BY <1>1, <1>4 DEF WorkflowTypeOK
<1>5. CASE MayMove(q) /\ Moved(q, StatusAt(q.to))
  <2> DEFINE status == StatusAt(q.to)
  <2>1. status \in {"active", "escalated", "completed"} /\ (status = "completed" <=> q.to \in TerminalStates)
    BY DEF StatusAt
  <2>2. /\ actions[q.key] = Absent /\ instance[q.workflow].version = q.expected
        /\ CompletionProven(q.workflow, q.evidence, q.to)
    BY <1>5 DEF MayMove
  <2>3. Permitted(instance[q.workflow].state, q.action, q.to, q.actor)
    BY <1>1, <1>2, <1>5, <2>2 DEF MayMove, RequestOK
  <2>4. MoveOf(q, status)
    BY <1>1, <1>2, <1>5, <2>1, <2>2, <2>3 DEF MoveOf, RequestOK
  <2> HIDE DEF status
  <2>5. /\ actions' \in [Keys -> Action \cup {Absent}]
        /\ instance' \in [Workflows -> [state : States, version : Nat,
                           status : {"absent", "active", "escalated", "completed"}]]
    BY <2>1, <2>4, MovedRecords
  <2>6. WorkflowTypeOK'
    BY <1>3, <2>5 DEF WorkflowTypeOK
  <2>7. /\ EvidenceIsReceived' /\ \A i \in Workflows : RowOK(i)'
        /\ \A p \in Request : RequestOK(p) => RequestOK(p)'
    BY <2>1, <2>4, MoveKeeps
  <2> QED BY <1>4, <2>6, <2>7, RequestsKept DEF WorkflowInv
<1>6. CASE UNCHANGED <<instance, actions>>
  <2>1. WorkflowTypeOK' /\ EvidenceIsReceived'
    BY <1>1, <1>3, <1>6 DEF WorkflowTypeOK, EvidenceIsReceived
  <2>2. EvidenceKept
    BY <1>1, EvidenceOnly
  <2> QED BY <1>4, <1>6, <2>1, <2>2, RowsKept, RequestsKept DEF WorkflowInv
<1> QED BY <1>2, <1>5, <1>6 DEF Commit

LEMMA RaiseRepeatedStep ==
  ASSUME WorkflowInv, NEW i \in Workflows, NEW k \in Keys, NEW d \in Dedupes,
         NEW action, NEW actor,
         RaiseRepeated(i, k, d, action, actor), UNCHANGED <<received, evidence, advancing>>
  PROVE  WorkflowInv'
<1>1. /\ WorkflowTypeOK /\ EvidenceIsReceived /\ RowOK(i) /\ Unfinished(i)
      /\ instance' = [instance EXCEPT ![i].status = "escalated"]
      /\ Raised(d, i) /\ UNCHANGED <<actions, received, evidence, advancing>>
  BY DEF RaiseRepeated, WorkflowInv
<1>2. /\ instance' \in [Workflows -> [state : States, version : Nat,
                          status : {"absent", "active", "escalated", "completed"}]]
      /\ \A j \in Workflows \ {i} : instance'[j] = instance[j]
      /\ instance'[i].status = "escalated" /\ instance'[i].state = instance[i].state
      /\ instance'[i].version = instance[i].version
  BY <1>1 DEF WorkflowTypeOK
<1>3. exceptions' \in [Dedupes -> Exception \cup {Absent}]
  BY <1>1, ExceptionsTyped DEF WorkflowTypeOK
<1>4. WorkflowTypeOK' /\ EvidenceIsReceived'
  BY <1>1, <1>2, <1>3 DEF WorkflowTypeOK, EvidenceIsReceived
<1>5. \A j \in Workflows : ActionsOf(j)' = ActionsOf(j)
  BY <1>1 DEF ActionsOf
<1>6. RowOK(i)'
  <2>1. Explained(i)'
    <3>1. Explained(i)
      BY <1>1 DEF RowOK, Unfinished
    <3> QED BY <1>1, <1>2, <1>5, <3>1 DEF Explained
  <2> QED BY <1>1, <1>2, <1>5, <2>1 DEF RowOK, Unfinished
<1>7. ASSUME NEW j \in Workflows, j # i
      PROVE  RowOK(j)'
  <2>1. Kept(j) /\ EvidenceKept /\ RowOK(j)
    BY <1>1, <1>2, <1>5, <1>7, EvidenceOnly DEF Kept, WorkflowInv
  <2> QED BY <2>1, KeptRow
<1>8. ASSUME NEW p \in Request, RequestOK(p)
      PROVE  RequestOK(p)'
  <2>1. p.workflow \in Workflows
    BY DEF Request
  <2>2. /\ instance'[p.workflow].version = instance[p.workflow].version
        /\ instance'[p.workflow].state = instance[p.workflow].state
        /\ instance[p.workflow].status # "absent" => instance'[p.workflow].status # "absent"
    BY <1>2, <2>1
  <2> QED BY <1>1, <1>8, <2>2 DEF RequestOK
<1>9. \A r \in Clients : advancing'[r] = advancing[r]
  BY <1>1
<1> QED BY <1>4, <1>6, <1>7, <1>8, <1>9, RequestsKept DEF WorkflowInv

LEMMA RaiseMovingStep ==
  ASSUME WorkflowInv, NEW i \in Workflows, NEW k \in Keys, NEW d \in Dedupes, NEW e \in Edges,
         NEW actor \in e.actors, NEW v \in 1 .. instance[i].version, e.to = "staff_exception",
         RaiseMoving(i, k, d, e.action, actor, v), UNCHANGED <<received, evidence, advancing>>
  PROVE  WorkflowInv'
<1>1. /\ WorkflowTypeOK /\ instance[i].version \in Nat /\ instance[i].state \in States
      /\ UNCHANGED <<received, evidence, advancing>>
  BY DEF WorkflowInv, WorkflowTypeOK
<1>2. PICK q : q = [workflow |-> i, action |-> e.action, to |-> "staff_exception",
                    actor |-> actor, expected |-> v, key |-> k, evidence |-> NoEvidence,
                    edge |-> instance[i].state, reversing |-> FALSE]
  OBVIOUS
<1>3. /\ q.workflow = i /\ q.action = e.action /\ q.to = "staff_exception" /\ q.actor = actor
      /\ q.key = k /\ q.evidence = NoEvidence /\ ~q.reversing
  BY <1>2
<1>4. q \in Request
  <2>1. actor \in Actors /\ e.action \in ActionNames /\ "staff_exception" \in States
    BY WorkflowAssumption DEF ActionNames, States
  <2> QED BY <1>1, <1>2, <2>1 DEF Request, NoEvidence
<1>5. /\ MayAdvance(i, k, e.action, "staff_exception", actor, NoEvidence)
      /\ MayMove(q) /\ Moved(q, "escalated") /\ Raised(d, i)
  BY <1>2 DEF RaiseMoving
<1>6. /\ actions[k] = Absent /\ instance[i].status # "absent"
      /\ CompletionProven(i, NoEvidence, "staff_exception")
      /\ Permitted(instance[i].state, e.action, "staff_exception", actor)
  BY <1>3, <1>5 DEF MayAdvance, MayMove, EdgeState
<1>7. "staff_exception" \notin TerminalStates
  <2>1. DOMAIN evidence = 1 .. Len(evidence)
    BY <1>1, LenProperties DEF WorkflowTypeOK
  <2> QED BY <1>6, <2>1 DEF CompletionProven, NoEvidence
<1>8. MoveOf(q, "escalated")
  BY <1>1, <1>3, <1>5, <1>6, <1>7 DEF MoveOf
<1>9. WorkflowTypeOK'
  <2>1. /\ actions' \in [Keys -> Action \cup {Absent}]
        /\ instance' \in [Workflows -> [state : States, version : Nat,
                           status : {"absent", "active", "escalated", "completed"}]]
    BY <1>4, <1>8, MovedRecords
  <2>2. exceptions' \in [Dedupes -> Exception \cup {Absent}]
    BY <1>1, <1>5, ExceptionsTyped DEF WorkflowTypeOK
  <2> QED BY <1>1, <2>1, <2>2 DEF WorkflowTypeOK
<1>10. /\ EvidenceIsReceived' /\ \A j \in Workflows : RowOK(j)'
       /\ \A p \in Request : RequestOK(p) => RequestOK(p)'
  BY <1>4, <1>8, MoveKeeps
<1>11. \A r \in Clients : advancing'[r] = advancing[r]
  BY <1>1
<1> QED BY <1>9, <1>10, <1>11, RequestsKept DEF WorkflowInv

LEMMA WorkflowStep == WorkflowInv /\ [WorkflowNext]_workflowVars => WorkflowInv'
<1> SUFFICES ASSUME WorkflowInv, [WorkflowNext]_workflowVars
             PROVE  WorkflowInv'
  OBVIOUS
<1>1. CASE \E i \in Workflows : Start(i)
  BY <1>1, StartStep
<1>2. CASE \E e \in Events : ReceiveProof(e)
  BY <1>2, ReceiveProofStep
<1>3. CASE \E i \in Workflows, e \in Events, t \in 1 .. MaxObserved : RecordEvidence(i, e, t)
  BY <1>3, RecordEvidenceStep
<1>4. CASE \E r \in Clients, i \in Workflows, k \in Keys, e \in Edges :
             \E actor \in e.actors, n \in 0 .. Len(evidence), v \in 1 .. instance[i].version :
               Advance(r, i, k, e.action, e.to, actor, n, v)
  BY <1>4, AdvanceStep
<1>5. CASE \E r \in Clients : Commit(r) \/ Refuse(r)
  BY <1>5, CommitStep, RefuseStep
<1>6. ASSUME NEW i \in Workflows, NEW k \in Keys, NEW d \in Dedupes, NEW e \in Edges,
             NEW actor \in e.actors, NEW v \in 1 .. instance[i].version,
             e.to = "staff_exception", Raise(i, k, d, e.action, actor, v)
      PROVE  WorkflowInv'
  <2>1. CASE RaiseMoving(i, k, d, e.action, actor, v)
    BY <1>6, <2>1, RaiseMovingStep DEF Raise
  <2>2. CASE RaiseRepeated(i, k, d, e.action, actor)
    BY <1>6, <2>2, RaiseRepeatedStep DEF Raise
  <2> QED BY <1>6, <2>1, <2>2 DEF Raise
<1>7. CASE UNCHANGED workflowVars
  <2>1. /\ UNCHANGED <<instance, actions, received, evidence, advancing, exceptions>>
        /\ EvidenceKept /\ WorkflowTypeOK /\ EvidenceIsReceived
    BY <1>7, EvidenceOnly DEF workflowVars, WorkflowInv
  <2>2. WorkflowTypeOK' /\ EvidenceIsReceived'
    BY <2>1 DEF WorkflowTypeOK, EvidenceIsReceived
  <2>3. \A r \in Clients : advancing'[r] = advancing[r]
    BY <2>1
  <2> QED BY <2>1, <2>2, <2>3, RowsKept, RequestsKept DEF WorkflowInv
<1> QED BY <1>1, <1>2, <1>3, <1>4, <1>5, <1>6, <1>7 DEF WorkflowNext

-----------------------------------------------------------------------------
(* Theorems.                                                               *)

THEOREM WorkflowAlwaysOK == WorkflowSpec => []WorkflowInv
BY WorkflowInitInv, WorkflowStep, PTL DEF WorkflowSpec

\* Whatever requests, raises and provider events come in, and in whatever order, the
\* actions on record lead from the initial state of a workflow to its current one along
\* edges their actors may take, though a request's actor is checked before the row is
\* locked; and a completed workflow is backed by evidence of its outcome.
THEOREM WorkflowIsSound == WorkflowSpec => []WorkflowInvariant
<1>1. WorkflowInv => WorkflowInvariant
  BY DEF WorkflowInv, WorkflowInvariant, ChronologyExplains, CompletionIsProven, RowOK
<1> QED BY <1>1, WorkflowAlwaysOK, PTL

\* No step takes a completed workflow anywhere but from active to reversed, and then it
\* is completed still.
THEOREM CompletionIsFinal == WorkflowSpec => CompletedIsFinal
<1> DEFINE Final(i) ==
      instance[i].status = "completed" =>
        \/ instance'[i] = instance[i]
        \/ /\ instance[i].state = "active" /\ instance'[i].state = "reversed"
           /\ instance'[i].status = "completed"
<1>1. ASSUME WorkflowInv, NEW q \in Request, MayMove(q),
             NEW status \in {"active", "escalated", "completed"}, Moved(q, status),
             q.reversing => status = StatusAt(q.to), NEW i \in Workflows
      PROVE  Final(i)
  <2>1. q.workflow \in Workflows /\ WorkflowTypeOK
    BY <1>1 DEF Request, WorkflowInv
  <2>2. instance' = [instance EXCEPT ![q.workflow] =
                       [state |-> q.to, version |-> @.version + 1, status |-> status]]
    BY <1>1 DEF Moved
  <2>3. CASE q.workflow = i
    <3>1. instance'[i].state = q.to /\ instance'[i].status = status
      BY <2>1, <2>2, <2>3 DEF WorkflowTypeOK
    <3>2. CASE q.reversing
      BY <1>1, <2>3, <3>1, <3>2 DEF MayMove, StatusAt
    <3>3. CASE ~q.reversing
      BY <1>1, <2>3, <3>3 DEF MayMove, Unfinished
    <3> QED BY <3>2, <3>3
  <2>4. CASE q.workflow # i
    BY <2>1, <2>2, <2>4 DEF WorkflowTypeOK
  <2> QED BY <2>3, <2>4
<1>2. ASSUME WorkflowInv, NEW r \in Clients, Commit(r), NEW i \in Workflows
      PROVE  Final(i)
  <2>1. advancing[r] \in Request
    BY <1>2 DEF Commit, WorkflowInv, WorkflowTypeOK
  <2>2. StatusAt(advancing[r].to) \in {"active", "escalated", "completed"}
    BY DEF StatusAt
  <2>3. CASE MayMove(advancing[r]) /\ Moved(advancing[r], StatusAt(advancing[r].to))
    BY <1>1, <1>2, <2>1, <2>2, <2>3
  <2>4. CASE UNCHANGED <<instance, actions>>
    BY <2>4
  <2> QED BY <1>2, <2>3, <2>4 DEF Commit
<1>3. ASSUME WorkflowInv, NEW j \in Workflows, Start(j), NEW i \in Workflows
      PROVE  Final(i)
  BY <1>3 DEF Start, WorkflowInv, WorkflowTypeOK
<1>4. ASSUME WorkflowInv, NEW j \in Workflows, NEW k \in Keys, NEW d \in Dedupes,
             NEW e \in Edges, NEW actor \in e.actors, NEW v \in 1 .. instance[j].version,
             Raise(j, k, d, e.action, actor, v), NEW i \in Workflows
      PROVE  Final(i)
  <2>1. WorkflowTypeOK
    BY <1>4 DEF WorkflowInv
  <2>2. Unfinished(j) /\ \A m \in Workflows \ {j} : instance'[m] = instance[m]
    <3>1. CASE RaiseMoving(j, k, d, e.action, actor, v)
      BY <2>1, <3>1 DEF RaiseMoving, MayMove, Moved, WorkflowTypeOK
    <3>2. CASE RaiseRepeated(j, k, d, e.action, actor)
      BY <2>1, <3>2 DEF RaiseRepeated, WorkflowTypeOK
    <3> QED BY <1>4, <3>1, <3>2 DEF Raise
  <2> QED BY <2>2 DEF Unfinished
<1>5. WorkflowInv /\ [WorkflowNext]_workflowVars => [\A i \in Workflows : Final(i)]_workflowVars
  <2> SUFFICES ASSUME WorkflowInv, WorkflowNext, NEW i \in Workflows
               PROVE  Final(i)
    OBVIOUS
  <2> HIDE DEF Final
  <2>1. ASSUME UNCHANGED instance
        PROVE  Final(i)
    BY <2>1 DEF Final
  <2>2. CASE \E j \in Workflows : Start(j)
    BY <1>3, <2>2
  <2>3. CASE \E e \in Events : ReceiveProof(e)
    BY <2>1, <2>3 DEF ReceiveProof
  <2>4. CASE \E j \in Workflows, e \in Events, t \in 1 .. MaxObserved : RecordEvidence(j, e, t)
    BY <2>1, <2>4 DEF RecordEvidence
  <2>5. CASE \E r \in Clients, j \in Workflows, k \in Keys, e \in Edges :
               \E actor \in e.actors, n \in 0 .. Len(evidence), v \in 1 .. instance[j].version :
                 Advance(r, j, k, e.action, e.to, actor, n, v)
    BY <2>1, <2>5 DEF Advance
  <2>6. CASE \E r \in Clients : Commit(r) \/ Refuse(r)
    BY <1>2, <2>1, <2>6 DEF Refuse
  <2>7. CASE \E j \in Workflows, k \in Keys, d \in Dedupes, e \in Edges :
               \E actor \in e.actors, v \in 1 .. instance[j].version :
                 e.to = "staff_exception" /\ Raise(j, k, d, e.action, actor, v)
    BY <1>4, <2>7
  <2> QED BY <2>2, <2>3, <2>4, <2>5, <2>6, <2>7 DEF WorkflowNext
<1> QED BY <1>5, WorkflowAlwaysOK, PTL DEF WorkflowSpec, CompletedIsFinal

-----------------------------------------------------------------------------
(* Calls: the inductive invariant.                                         *)

USE DEF histories

\* A request knows its call.  The socket it awaits is a socket of that call that
\* was not attached yet, and until the process stops it is not closing either.
RequestKnows(r) ==
  LET request == requests[r] IN
  /\ request.phase # "idle" => request.call \in Calls
  /\ request.phase = "attaching" =>
       /\ request.socket \in Sockets
       /\ sockets[request.socket].call = request.call
       /\ ~sockets[request.socket].attached
       /\ sockets[request.socket].ready \in {"connecting", "open", "closing"}
       /\ process = "up" => sockets[request.socket].ready # "closing"
  /\ request.phase = "finishing" /\ process = "up" => Answered(request.call)

\* A socket in use is a socket of a call.  While the process runs, one that opens or
\* is open serves its call already, or a request awaits it.
SocketServes(s) ==
  LET socket == sockets[s] IN
  /\ socket.ready # "none" => socket.call \in Calls
  /\ socket.connecting => socket.ready \in {"open", "closing", "closed"}
  /\ socket.timer => socket.ready \in {"connecting", "open", "closing"}
  /\ process = "up" /\ socket.ready \in {"connecting", "open"} =>
       socket.call \in served \/ \E r \in Requests : Awaits(r, s)
  /\ socket.ready = "open" => socket.call \in opened

\* A request holds the claim of its event, which it has alone, unless the lease
\* ended under it.
ClaimsExclude ==
  /\ \A r \in Requests :
       requests[r].phase # "idle" /\ requests[r].call \notin overtaken => HoldsClaim(r)
  /\ \A r, q \in Requests :
       requests[r].phase # "idle" /\ requests[q].phase # "idle"
         /\ requests[r].call = requests[q].call /\ requests[r].call \notin overtaken => r = q

AdmissionInv ==
  /\ AdmissionTypeOK
  /\ NothingLeaks
  /\ ClaimsExclude
  /\ \A r \in Requests : RequestKnows(r)
  /\ \A s \in Sockets : SocketServes(s)

-----------------------------------------------------------------------------
(* Rows.                                                                   *)

LEMMA RowOfRequest ==
  ASSUME AdmissionInv, NEW r \in Requests
  PROVE  /\ requests[r] \in RequestRow /\ RequestKnows(r)
         /\ requests[r].phase # "idle" => requests[r].call \in Calls
BY DEF AdmissionInv, AdmissionTypeOK, RequestKnows

LEMMA RowOfSocket ==
  ASSUME AdmissionInv, NEW s \in Sockets
  PROVE  /\ sockets[s] \in SocketRow /\ SocketServes(s)
         /\ sockets[s].ready # "none" => sockets[s].call \in Calls
BY DEF AdmissionInv, AdmissionTypeOK, SocketServes

LEMMA LeavingRows ==
  ASSUME AdmissionInv, NEW r \in Requests
  PROVE  /\ Failing(r) \in RequestRow /\ Failing(r).phase = "failing"
         /\ Failing(r).call = requests[r].call /\ Failing(r).claim = requests[r].claim
         /\ Finishing(r) \in RequestRow /\ Finishing(r).phase = "finishing"
         /\ Finishing(r).call = requests[r].call /\ Finishing(r).claim = requests[r].claim
<1>1. requests[r] \in RequestRow
  BY RowOfRequest
<1> QED BY <1>1 DEF Failing, Finishing, RequestRow, Statuses

LEMMA IdleRow == Idle \in RequestRow /\ Idle.phase = "idle" /\ Idle.call = Undefined /\ Idle.claim = 0
BY AdmissionAssumption DEF Idle, RequestRow, Statuses

LEMMA NoSocketRow ==
  /\ NoSocket \in SocketRow /\ NoSocket.ready = "none" /\ NoSocket.call = Undefined
  /\ NoSocket.timer = FALSE /\ NoSocket.connecting = FALSE
BY DEF NoSocket, SocketRow, Statuses

\* Claims stay as they are while every request keeps its claim.
LEMMA ClaimsStay ==
  ASSUME ClaimsExclude, UNCHANGED <<event, overtaken>>,
         \A r \in Requests :
           /\ requests'[r].phase # "idle" => requests[r].phase # "idle"
           /\ requests'[r].call = requests[r].call /\ requests'[r].claim = requests[r].claim
  PROVE  ClaimsExclude'
BY DEF ClaimsExclude, HoldsClaim

-----------------------------------------------------------------------------
(* Steps of a request that neither begins nor ends, nor awaits a socket.   *)

LEMMA RequestMoves ==
  ASSUME AdmissionInv, NEW r \in Requests, NEW row \in RequestRow,
         requests[r].phase \notin {"idle", "attaching"},
         requests' = [requests EXCEPT ![r] = row],
         row.phase \notin {"idle", "attaching"},
         row.call = requests[r].call, row.claim = requests[r].claim,
         UNCHANGED <<event, sockets, active, process, histories>>,
         session' \in [Calls -> Statuses],
         provider' \in [Calls -> {"ringing", "accepted", "rejected", "ended"}],
         \A c \in Calls : provider[c] = "rejected" => provider'[c] = "rejected",
         pending' \subseteq Calls,
         \A c \in pending' :
           \/ c = row.call /\ row.phase = "accepting"
           \/ c \in pending /\ (c # row.call \/ requests[r].phase # "accepting"),
         row.phase = "finishing" /\ process = "up" => Answered(row.call)'
  PROVE  AdmissionInv'
<1>1. /\ requests \in [Requests -> RequestRow] /\ requests' \in [Requests -> RequestRow]
      /\ requests'[r] = row /\ \A q \in Requests : q # r => requests'[q] = requests[q]
  BY DEF AdmissionInv, AdmissionTypeOK
<1>2. AdmissionTypeOK'
  BY <1>1 DEF AdmissionInv, AdmissionTypeOK
<1>3. NothingLeaks'
  <2>1. ASSUME NEW c \in pending'
        PROVE  \E q \in Requests : requests'[q].call = c
                 /\ requests'[q].phase \in {"accepting", "attaching"}
    <3>1. CASE c = row.call /\ row.phase = "accepting"
      BY <1>1, <3>1
    <3>2. CASE c \in pending /\ (c # row.call \/ requests[r].phase # "accepting")
      <4>1. PICK q \in Requests : requests[q].call = c
                   /\ requests[q].phase \in {"accepting", "attaching"}
        BY <3>2 DEF AdmissionInv, NothingLeaks
      <4>2. q # r
        BY <3>2, <4>1
      <4> QED BY <1>1, <4>1, <4>2
    <3> QED BY <2>1, <3>1, <3>2
  <2> QED BY <2>1 DEF AdmissionInv, NothingLeaks
<1>4. ClaimsExclude'
  BY <1>1, ClaimsStay DEF AdmissionInv
<1>5. ASSUME NEW q \in Requests
      PROVE  RequestKnows(q)'
  <2>1. RequestKnows(q)
    BY RowOfRequest
  <2>2. CASE q = r
    BY <1>1, <2>2, RowOfRequest DEF RequestKnows
  <2>3. CASE q # r
    BY <1>1, <2>1, <2>3 DEF RequestKnows, Answered
  <2> QED BY <2>2, <2>3
<1>6. ASSUME NEW s \in Sockets
      PROVE  SocketServes(s)'
  <2>1. SocketServes(s)
    BY RowOfSocket
  <2>2. ASSUME NEW q \in Requests, Awaits(q, s)
        PROVE  Awaits(q, s)'
    BY <1>1, <2>2 DEF Awaits
  <2> QED BY <2>1, <2>2 DEF SocketServes
<1> QED BY <1>2, <1>3, <1>4, <1>5, <1>6 DEF AdmissionInv

LEMMA ThrowKeeps ==
  ASSUME AdmissionInv, NEW r \in Requests, Throw(r),
         requests[r].phase \notin {"idle", "attaching"},
         UNCHANGED <<event, session, sockets, active, process, histories>>,
         provider' \in [Calls -> {"ringing", "accepted", "rejected", "ended"}],
         \A c \in Calls : provider[c] = "rejected" => provider'[c] = "rejected"
  PROVE  AdmissionInv'
<1>1. /\ pending \subseteq Calls /\ session \in [Calls -> Statuses]
  BY DEF AdmissionInv, AdmissionTypeOK
<1>2. requests' = [requests EXCEPT ![r] = Failing(r)] /\ pending' = pending \ {requests[r].call}
  BY DEF Throw
<1>3. PICK row \in RequestRow : row = Failing(r)
  BY LeavingRows
<1>4. row.phase = "failing" /\ row.call = requests[r].call /\ row.claim = requests[r].claim
  BY <1>3, LeavingRows
<1>5. pending' \subseteq Calls /\ \A c \in pending' : c \in pending /\ c # row.call
  BY <1>1, <1>2, <1>4
<1>6. /\ requests' = [requests EXCEPT ![r] = row] /\ session' \in [Calls -> Statuses]
      /\ row.phase \notin {"idle", "attaching", "accepting", "finishing"}
  BY <1>1, <1>2, <1>3, <1>4
<1> QED BY <1>4, <1>5, <1>6, RequestMoves

LEMMA RejectKeeps ==
  ASSUME AdmissionInv, NEW r \in Requests, Reject(r)
  PROVE  AdmissionInv'
<1> DEFINE c == requests[r].call
<1>1. /\ requests[r].phase = "rejecting" /\ c \in Calls
      /\ UNCHANGED <<event, session, sockets, active, process, histories>>
      /\ provider \in [Calls -> {"ringing", "accepted", "rejected", "ended"}]
      /\ session \in [Calls -> Statuses] /\ pending \subseteq Calls
  BY RowOfRequest DEF Reject, AdmissionInv, AdmissionTypeOK
<1>2. CASE /\ provider' = [provider EXCEPT ![c] = "rejected"]
           /\ requests' = [requests EXCEPT ![r] = Finishing(r)] /\ UNCHANGED pending
  <2>1. PICK row \in RequestRow : row = Finishing(r)
    BY LeavingRows
  <2>2. row.phase = "finishing" /\ row.call = c /\ row.claim = requests[r].claim
    BY <2>1, LeavingRows
  <2>3. /\ provider' \in [Calls -> {"ringing", "accepted", "rejected", "ended"}]
        /\ \A d \in Calls : provider[d] = "rejected" => provider'[d] = "rejected"
        /\ provider'[c] = "rejected"
    BY <1>1, <1>2
  <2>4. Answered(row.call)'
    BY <2>2, <2>3 DEF Answered
  <2> QED BY <1>1, <1>2, <2>1, <2>2, <2>3, <2>4, RequestMoves
<1>3. CASE /\ provider' \in {provider} \cup
                When(provider[c] = "ringing", [provider EXCEPT ![c] = "rejected"])
           /\ Throw(r)
  <2>1. /\ provider' \in [Calls -> {"ringing", "accepted", "rejected", "ended"}]
        /\ \A d \in Calls : provider[d] = "rejected" => provider'[d] = "rejected"
    BY <1>1, <1>3 DEF When
  <2> QED BY <1>1, <1>3, <2>1, ThrowKeeps
<1> QED BY <1>2, <1>3 DEF Reject

LEMMA AcceptFailsKeeps ==
  ASSUME AdmissionInv, NEW r \in Requests, AcceptFails(r)
  PROVE  AdmissionInv'
<1> DEFINE c == requests[r].call
<1>1. /\ requests[r].phase = "accepting" /\ Throw(r)
      /\ UNCHANGED <<event, session, sockets, active, process, histories>>
      /\ provider \in [Calls -> {"ringing", "accepted", "rejected", "ended"}]
      /\ provider' \in {provider} \cup
           When(provider[c] = "ringing", [provider EXCEPT ![c] = "accepted"])
  BY DEF AcceptFails, AdmissionInv, AdmissionTypeOK
<1>2. /\ provider' \in [Calls -> {"ringing", "accepted", "rejected", "ended"}]
      /\ \A d \in Calls : provider[d] = "rejected" => provider'[d] = "rejected"
  BY <1>1 DEF When
<1> QED BY <1>1, <1>2, ThrowKeeps

LEMMA SimpleThrowsKeep ==
  ASSUME AdmissionInv, NEW r \in Requests, CreateSessionFails(r) \/ FinishFails(r)
  PROVE  AdmissionInv'
<1>1. /\ Throw(r) /\ requests[r].phase \notin {"idle", "attaching"}
      /\ UNCHANGED <<event, session, provider, sockets, active, process, histories>>
  BY DEF CreateSessionFails, FinishFails
<1>2. provider \in [Calls -> {"ringing", "accepted", "rejected", "ended"}]
  BY DEF AdmissionInv, AdmissionTypeOK
<1> QED BY <1>1, <1>2, ThrowKeeps

-----------------------------------------------------------------------------
(* Attaching.                                                              *)

\* An open socket of the call serves it, or another request awaits it, under which
\* the lease of the claim must have ended.
LEMMA OpenIsAnswered ==
  ASSUME AdmissionInv, NEW r \in Requests,
         requests[r].phase \notin {"idle", "attaching"}, IsOpen(requests[r].call),
         process = "up"
  PROVE  Answered(requests[r].call)
<1> DEFINE c == requests[r].call
<1>1. c \in Calls
  BY RowOfRequest
<1>2. PICK s \in Sockets : s = active[c]
  BY <1>1 DEF IsOpen, AdmissionInv, AdmissionTypeOK
<1>3. sockets[s].call = c /\ sockets[s].ready = "open"
  BY <1>1, <1>2 DEF IsOpen, AdmissionInv, NothingLeaks
<1>4. CASE \E q \in Requests : Awaits(q, s)
  <2>1. PICK q \in Requests : Awaits(q, s)
    BY <1>4
  <2>2. requests[q].phase = "attaching" /\ requests[q].call = c
    BY <1>3, <2>1, RowOfRequest DEF Awaits, RequestKnows
  <2>3. q # r
    BY <2>2
  <2>4. c \in overtaken
    BY <2>2, <2>3 DEF AdmissionInv, ClaimsExclude
  <2>5. c \in opened
    BY <1>3, RowOfSocket DEF SocketServes
  <2> QED BY <2>4, <2>5 DEF Answered
<1>5. CASE ~\E q \in Requests : Awaits(q, s)
  <2>1. c \in served
    BY <1>3, <1>5, RowOfSocket DEF SocketServes
  <2> QED BY <2>1 DEF Answered
<1> QED BY <1>4, <1>5

LEMMA AttachKeeps ==
  ASSUME AdmissionInv, NEW r \in Requests, NEW known \in Statuses, NEW probe \in BOOLEAN,
         requests[r].phase \in {"creating", "accepting"}, Attach(r, known, probe),
         UNCHANGED <<event, process, histories>>,
         session' \in [Calls -> Statuses],
         provider' \in [Calls -> {"ringing", "accepted", "rejected", "ended"}],
         \A c \in Calls : provider[c] = "rejected" => provider'[c] = "rejected"
  PROVE  AdmissionInv'
<1>0. PICK c \in Calls : c = requests[r].call
  BY RowOfRequest
<1>1. /\ requests \in [Requests -> RequestRow] /\ sockets \in [Sockets -> SocketRow]
      /\ active \in [Calls -> Sockets \cup {Undefined}] /\ pending \subseteq Calls
      /\ requests[r] \in RequestRow /\ NothingLeaks
  BY DEF AdmissionInv, AdmissionTypeOK
<1>2. CASE IsOpen(c)
  <2>1. /\ requests' = [requests EXCEPT ![r] = Finishing(r)] /\ pending' = pending \ {c}
        /\ UNCHANGED <<sockets, active>>
    BY <1>0, <1>2 DEF Attach
  <2>2. PICK row \in RequestRow : row = Finishing(r)
    BY LeavingRows
  <2>3. row.phase = "finishing" /\ row.call = c /\ row.claim = requests[r].claim
    BY <1>0, <2>2, LeavingRows
  <2>4. process = "up" => Answered(row.call)'
    BY <1>0, <1>2, <2>3, OpenIsAnswered DEF Answered
  <2>5. pending' \subseteq Calls /\ \A d \in pending' : d \in pending /\ d # row.call
    BY <1>1, <2>1, <2>3
  <2>6. /\ requests' = [requests EXCEPT ![r] = row]
        /\ row.phase \notin {"idle", "attaching", "accepting"} /\ row.call = requests[r].call
        /\ requests[r].phase \notin {"idle", "attaching"}
        /\ UNCHANGED <<event, sockets, active, process, histories>>
    BY <1>0, <2>1, <2>2, <2>3
  <2>7. \A d \in pending' : \/ d = row.call /\ row.phase = "accepting"
                            \/ d \in pending /\ (d # row.call \/ requests[r].phase # "accepting")
    BY <2>5
  <2> QED BY <2>3, <2>4, <2>5, <2>6, <2>7, RequestMoves
<1>3. CASE ~IsOpen(c)
  <2>1. PICK s \in Sockets :
          /\ sockets[s] = NoSocket
          /\ sockets' = [sockets EXCEPT ![s] =
               [NoSocket EXCEPT !.call = c, !.ready = "connecting", !.timer = TRUE,
                                !.known = known]]
          /\ active' = [active EXCEPT ![c] = s]
          /\ requests' = [requests EXCEPT ![r] =
               [@ EXCEPT !.phase = "attaching", !.socket = s, !.known = known,
                         !.probe = probe]]
          /\ pending' = pending \cup {c}
    BY <1>0, <1>3 DEF Attach
  <2>2. PICK row : row = [NoSocket EXCEPT !.call = c, !.ready = "connecting", !.timer = TRUE,
                                          !.known = known]
    OBVIOUS
  <2>3. /\ row \in SocketRow /\ row.ready = "connecting" /\ row.call = c
        /\ row.attached = FALSE /\ row.connecting = FALSE
    BY <2>2 DEF NoSocket, SocketRow, Statuses
  <2>4. PICK request : request = [requests[r] EXCEPT !.phase = "attaching", !.socket = s,
                                                     !.known = known, !.probe = probe]
    OBVIOUS
  <2>5. /\ request \in RequestRow /\ request.phase = "attaching" /\ request.socket = s
        /\ request.call = c /\ request.claim = requests[r].claim
    BY <1>0, <1>1, <2>4 DEF RequestRow
  <2>6. /\ requests' = [requests EXCEPT ![r] = request]
        /\ sockets' = [sockets EXCEPT ![s] = row]
    BY <1>1, <2>1, <2>2, <2>4
  <2>7. /\ requests' \in [Requests -> RequestRow] /\ requests'[r] = request
        /\ \A q \in Requests : q # r => requests'[q] = requests[q]
        /\ sockets' \in [Sockets -> SocketRow] /\ sockets'[s] = row
        /\ \A x \in Sockets : x # s => sockets'[x] = sockets[x]
        /\ active' \in [Calls -> Sockets \cup {Undefined}] /\ active'[c] = s
        /\ \A d \in Calls : d # c => active'[d] = active[d]
        /\ pending' \subseteq Calls
    BY <1>1, <2>1, <2>3, <2>5, <2>6
  <2>8. sockets[s].ready = "none"
    BY <2>1, NoSocketRow
  <2>9. AdmissionTypeOK'
    BY <2>7 DEF AdmissionInv, AdmissionTypeOK
  <2>10. NothingLeaks'
    <3>1. ASSUME NEW d \in pending'
          PROVE  \E q \in Requests : requests'[q].call = d
                   /\ requests'[q].phase \in {"accepting", "attaching"}
      <4>1. CASE d = c
        BY <2>5, <2>7, <4>1
      <4>2. CASE d # c
        <5>1. PICK q \in Requests : requests[q].call = d
                     /\ requests[q].phase \in {"accepting", "attaching"}
          BY <1>1, <2>1, <3>1, <4>2 DEF NothingLeaks
        <5> QED BY <1>0, <2>7, <4>2, <5>1
      <4> QED BY <4>1, <4>2
    <3>2. ASSUME NEW d \in Calls, active'[d] # Undefined
          PROVE  /\ sockets'[active'[d]].call = d
                 /\ sockets'[active'[d]].ready \in {"connecting", "open", "closing"}
      <4>1. CASE d = c
        BY <2>3, <2>7, <4>1
      <4>2. CASE d # c
        <5>1. /\ active[d] \in Sockets /\ sockets[active[d]].call = d
              /\ sockets[active[d]].ready \in {"connecting", "open", "closing"}
          BY <1>1, <2>7, <3>2, <4>2 DEF NothingLeaks
        <5> QED BY <2>7, <2>8, <4>2, <5>1
      <4> QED BY <4>1, <4>2
    <3> QED BY <3>1, <3>2 DEF NothingLeaks
  <2>11. ClaimsExclude'
    BY <1>0, <2>5, <2>7, ClaimsStay DEF AdmissionInv
  <2>12. ASSUME NEW q \in Requests
         PROVE  RequestKnows(q)'
    <3>1. CASE q = r
      BY <2>3, <2>5, <2>7, <3>1 DEF RequestKnows
    <3>2. CASE q # r
      BY <2>7, <2>8, <3>2, RowOfRequest DEF RequestKnows, Answered
    <3> QED BY <3>1, <3>2
  <2>13. ASSUME NEW x \in Sockets
         PROVE  SocketServes(x)'
    <3>1. CASE x = s
      <4>1. Awaits(r, x)'
        BY <2>5, <2>7, <3>1 DEF Awaits
      <4> QED BY <2>3, <2>7, <3>1, <4>1 DEF SocketServes
    <3>2. CASE x # s
      <4>1. ASSUME NEW q \in Requests, Awaits(q, x)
            PROVE  Awaits(q, x)'
        BY <2>7, <4>1 DEF Awaits
      <4> QED BY <2>7, <3>2, <4>1, RowOfSocket DEF SocketServes
    <3> QED BY <3>1, <3>2
  <2> QED BY <2>9, <2>10, <2>11, <2>12, <2>13 DEF AdmissionInv
<1> QED BY <1>2, <1>3

LEMMA CreateSessionKeeps ==
  ASSUME AdmissionInv, NEW r \in Requests, CreateSession(r)
  PROVE  AdmissionInv'
<1>0. PICK c \in Calls : c = requests[r].call
  BY RowOfRequest DEF CreateSession
<1>1. /\ requests[r].phase = "creating" /\ requests[r] \in RequestRow
      /\ session' = [session EXCEPT ![c] = IF @ = "absent" THEN "received" ELSE @]
      /\ UNCHANGED <<event, provider, process, histories>>
      /\ provider \in [Calls -> {"ringing", "accepted", "rejected", "ended"}]
      /\ pending \subseteq Calls
  BY <1>0 DEF CreateSession, AdmissionInv, AdmissionTypeOK
<1>2. session' \in [Calls -> Statuses] /\ session'[c] \in Statuses
  BY <1>1 DEF AdmissionInv, AdmissionTypeOK, Statuses
<1>3. PICK known \in Statuses : known = session'[c]
  BY <1>2
<1>4. CASE requests[r].claim > 1
  <2>1. Attach(r, known, TRUE)
    BY <1>0, <1>3, <1>4 DEF CreateSession
  <2>2. /\ \A d \in Calls : provider[d] = "rejected" => provider'[d] = "rejected"
        /\ provider' \in [Calls -> {"ringing", "accepted", "rejected", "ended"}]
        /\ UNCHANGED <<event, process, histories>>
    BY <1>1
  <2> QED BY <1>1, <1>2, <2>1, <2>2, AttachKeeps
<1>5. CASE ~(requests[r].claim > 1)
  <2>1. /\ requests' = [requests EXCEPT ![r].phase = "accepting", ![r].known = known]
        /\ pending' = pending \cup {c} /\ UNCHANGED <<sockets, active>>
    BY <1>0, <1>3, <1>5 DEF CreateSession
  <2>2. PICK row : row = [requests[r] EXCEPT !.phase = "accepting", !.known = known]
    OBVIOUS
  <2>3. /\ row \in RequestRow /\ row.phase = "accepting" /\ row.call = c
        /\ row.claim = requests[r].claim
    BY <1>0, <1>1, <2>2 DEF RequestRow
  <2>4. requests' = [requests EXCEPT ![r] = row]
    BY <2>1, <2>2 DEF AdmissionInv, AdmissionTypeOK
  <2>5. pending' \subseteq Calls /\ \A d \in pending' : d \in pending \/ d = c
    BY <1>1, <2>1
  <2>6. /\ row.phase \notin {"idle", "attaching", "finishing"} /\ row.call = requests[r].call
        /\ requests[r].phase \notin {"idle", "attaching", "accepting"}
        /\ \A d \in Calls : provider[d] = "rejected" => provider'[d] = "rejected"
        /\ provider' \in [Calls -> {"ringing", "accepted", "rejected", "ended"}]
        /\ UNCHANGED <<event, sockets, active, process, histories>>
    BY <1>0, <1>1, <2>1, <2>3
  <2>7. \A d \in pending' : (d = row.call /\ row.phase = "accepting") \/ d \in pending
    BY <2>3, <2>5
  <2> QED BY <1>2, <2>3, <2>4, <2>5, <2>6, <2>7, RequestMoves
<1> QED BY <1>4, <1>5

LEMMA AcceptKeeps ==
  ASSUME AdmissionInv, NEW r \in Requests, Accept(r)
  PROVE  AdmissionInv'
<1>0. PICK c \in Calls : c = requests[r].call
  BY RowOfRequest DEF Accept
<1>1. /\ requests[r].phase = "accepting" /\ provider[c] # "rejected"
      /\ provider' = [provider EXCEPT ![c] = "accepted"]
      /\ UNCHANGED <<event, session, process, histories>>
      /\ Attach(r, requests[r].known, FALSE)
      /\ provider \in [Calls -> {"ringing", "accepted", "rejected", "ended"}]
      /\ session \in [Calls -> Statuses]
  BY <1>0 DEF Accept, AdmissionInv, AdmissionTypeOK
<1>2. /\ provider' \in [Calls -> {"ringing", "accepted", "rejected", "ended"}]
      /\ \A d \in Calls : provider[d] = "rejected" => provider'[d] = "rejected"
  BY <1>1
<1>3. PICK known \in Statuses : known = requests[r].known
  BY RowOfRequest DEF RequestRow
<1> QED BY <1>1, <1>2, <1>3, AttachKeeps


-----------------------------------------------------------------------------
(* Steps of a socket.                                                      *)

\* A request that no longer awaits its socket accepts, finishes or fails, and its call
\* stays pending only in the first case.
LEMMA RequestsLeave ==
  ASSUME AdmissionInv, NEW s \in Sockets, Resolved(s) \/ AttachRejected(s)
  PROVE  /\ requests' \in [Requests -> RequestRow]
         /\ \A q \in Requests : ~Awaits(q, s) => requests'[q] = requests[q]
         /\ \A q \in Requests : Awaits(q, s) =>
              /\ requests'[q].phase \in {"finishing", "accepting", "failing"}
              /\ requests'[q].phase = "finishing" => Resolved(s)
              /\ requests'[q].call = requests[q].call
              /\ requests'[q].claim = requests[q].claim
         /\ pending' \subseteq Calls
         /\ \A c \in pending' : \E q \in Requests :
              requests'[q].call = c /\ requests'[q].phase \in {"accepting", "attaching"}
<1>1. /\ requests \in [Requests -> RequestRow] /\ pending \subseteq Calls /\ NothingLeaks
      /\ \A q \in Requests : requests[q] \in RequestRow
  BY DEF AdmissionInv, AdmissionTypeOK
<1>2. CASE Resolved(s)
  <2>1. ASSUME NEW q \in Requests
        PROVE  /\ requests'[q] = IF Awaits(q, s) THEN Finishing(q) ELSE requests[q]
               /\ requests'[q] \in RequestRow
    BY <1>1, <1>2, LeavingRows DEF Resolved
  <2>2. requests' \in [Requests -> RequestRow]
    BY <1>2, <2>1 DEF Resolved
  <2>3. ASSUME NEW c \in pending'
        PROVE  \E q \in Requests :
                 requests'[q].call = c /\ requests'[q].phase \in {"accepting", "attaching"}
    <3>1. /\ c \in pending /\ c \in Calls
          /\ ~\E q \in Requests : Awaits(q, s) /\ requests[q].call = c
      BY <1>1, <1>2 DEF Resolved
    <3>2. PICK q \in Requests : requests[q].call = c
                 /\ requests[q].phase \in {"accepting", "attaching"}
      BY <1>1, <3>1 DEF NothingLeaks
    <3> QED BY <2>1, <3>1, <3>2
  <2>4. pending' \subseteq Calls
    BY <1>1, <1>2 DEF Resolved
  <2>5. ASSUME NEW q \in Requests, Awaits(q, s)
        PROVE  /\ requests'[q].phase = "finishing"
               /\ requests'[q].call = requests[q].call
               /\ requests'[q].claim = requests[q].claim
    BY <2>1, <2>5, LeavingRows
  <2>6. ASSUME NEW q \in Requests, ~Awaits(q, s)
        PROVE  requests'[q] = requests[q]
    BY <2>1, <2>6
  <2> QED BY <1>2, <2>2, <2>3, <2>4, <2>5, <2>6
<1>3. CASE AttachRejected(s)
  <2>1. ASSUME NEW q \in Requests
        PROVE  requests'[q] =
                 IF ~Awaits(q, s) THEN requests[q]
                 ELSE IF requests[q].probe
                      THEN [requests[q] EXCEPT !.phase = "accepting", !.socket = Undefined,
                                               !.probe = FALSE]
                      ELSE Failing(q)
    BY <1>3 DEF AttachRejected
  <2>2. ASSUME NEW q \in Requests, Awaits(q, s), requests[q].probe
        PROVE  /\ requests'[q] \in RequestRow /\ requests'[q].phase = "accepting"
               /\ requests'[q].call = requests[q].call
               /\ requests'[q].claim = requests[q].claim
    <3>1. requests'[q] = [requests[q] EXCEPT !.phase = "accepting", !.socket = Undefined,
                                             !.probe = FALSE]
      BY <2>1, <2>2
    <3>2. requests[q] \in RequestRow
      BY <1>1
    <3> QED BY <3>1, <3>2 DEF RequestRow
  <2>3. ASSUME NEW q \in Requests, Awaits(q, s), ~requests[q].probe
        PROVE  /\ requests'[q] \in RequestRow /\ requests'[q].phase = "failing"
               /\ requests'[q].call = requests[q].call
               /\ requests'[q].claim = requests[q].claim
    BY <2>1, <2>3, LeavingRows
  <2>4. ASSUME NEW q \in Requests, ~Awaits(q, s)
        PROVE  requests'[q] = requests[q] /\ requests'[q] \in RequestRow
    BY <1>1, <2>1, <2>4
  <2>5. requests' \in [Requests -> RequestRow]
    BY <1>3, <2>2, <2>3, <2>4 DEF AttachRejected
  <2>6. ASSUME NEW c \in pending'
        PROVE  \E q \in Requests :
                 requests'[q].call = c /\ requests'[q].phase \in {"accepting", "attaching"}
    <3>1. /\ c \in pending /\ c \in Calls
          /\ ~\E q \in Requests : Awaits(q, s) /\ ~requests[q].probe /\ requests[q].call = c
      BY <1>1, <1>3 DEF AttachRejected
    <3>2. PICK q \in Requests : requests[q].call = c
                 /\ requests[q].phase \in {"accepting", "attaching"}
      BY <1>1, <3>1 DEF NothingLeaks
    <3>3. CASE Awaits(q, s)
      BY <2>2, <3>1, <3>2, <3>3
    <3>4. CASE ~Awaits(q, s)
      BY <2>4, <3>2, <3>4
    <3> QED BY <3>3, <3>4
  <2>7. pending' \subseteq Calls
    BY <1>1, <1>3 DEF AttachRejected
  <2>8. ASSUME NEW q \in Requests, Awaits(q, s)
        PROVE  /\ requests'[q].phase \in {"accepting", "failing"}
               /\ requests'[q].call = requests[q].call
               /\ requests'[q].claim = requests[q].claim
    BY <2>2, <2>3, <2>8
  <2> QED BY <2>4, <2>5, <2>6, <2>7, <2>8
<1> QED BY <1>2, <1>3

\* What a step of the socket s leaves of the maps.
Removed(s) == active' = [active EXCEPT ![sockets[s].call] = Undefined]

LEMMA SocketMoves ==
  ASSUME AdmissionInv, NEW s \in Sockets, NEW row \in SocketRow,
         sockets[s].ready # "none",
         sockets' = [sockets EXCEPT ![s] = row],
         row.ready # "none" => row.call = sockets[s].call,
         row.connecting => row.ready \in {"open", "closing", "closed"},
         row.timer => row.ready \in {"connecting", "open", "closing"},
         \/ UNCHANGED active /\ (row.ready = sockets[s].ready \/
              row.ready \in {"connecting", "open", "closing"} \/ sockets[s].ready = "closed")
         \/ Removed(s),
         \/ /\ UNCHANGED <<requests, pending>>
            /\ row.ready = sockets[s].ready \/ row.ready = "open" \/
                 \A q \in Requests : ~Awaits(q, s)
            /\ row.attached => (sockets[s].attached \/ \A q \in Requests : ~Awaits(q, s))
            /\ process = "up" /\ row.ready \in {"connecting", "open"} =>
                 sockets[s].ready \in {"connecting", "open"}
         \/ /\ Resolved(s) \/ AttachRejected(s)
            /\ process = "up" /\ row.ready \in {"connecting", "open"} =>
                 sockets[s].call \in served'
            /\ Resolved(s) /\ process = "up" =>
                 \A q \in Requests : Awaits(q, s) => sockets[s].call \in served',
         UNCHANGED <<event, provider, process>>,
         session' \in [Calls -> Statuses],
         row.ready = "open" => sockets[s].call \in opened',
         served \subseteq served', served' \subseteq Calls,
         opened \subseteq opened', opened' \subseteq Calls, UNCHANGED overtaken
  PROVE  AdmissionInv'
<1>0. PICK c \in Calls : c = sockets[s].call
  BY RowOfSocket
<1>1. /\ requests \in [Requests -> RequestRow] /\ sockets \in [Sockets -> SocketRow]
      /\ active \in [Calls -> Sockets \cup {Undefined}] /\ pending \subseteq Calls /\ NothingLeaks
      /\ sockets' \in [Sockets -> SocketRow] /\ sockets'[s] = row
      /\ \A x \in Sockets : x # s => sockets'[x] = sockets[x]
  BY DEF AdmissionInv, AdmissionTypeOK
<1>2. /\ requests' \in [Requests -> RequestRow] /\ pending' \subseteq Calls
      /\ \A q \in Requests : ~Awaits(q, s) => requests'[q] = requests[q]
      /\ \A q \in Requests :
           requests'[q].call = requests[q].call /\ requests'[q].claim = requests[q].claim
      /\ \A d \in pending' : \E q \in Requests :
           requests'[q].call = d /\ requests'[q].phase \in {"accepting", "attaching"}
  BY <1>1, RequestsLeave DEF NothingLeaks
<1>3. /\ active' \in [Calls -> Sockets \cup {Undefined}]
      /\ \A d \in Calls : d # c => active'[d] = active[d]
      /\ active'[c] = active[c] \/ active'[c] = Undefined
  BY <1>0, <1>1 DEF Removed
<1>4. AdmissionTypeOK'
  BY <1>1, <1>2, <1>3 DEF AdmissionInv, AdmissionTypeOK
<1>5. NothingLeaks'
  <2>1. ASSUME NEW d \in Calls, active'[d] # Undefined
        PROVE  /\ sockets'[active'[d]].call = d
               /\ sockets'[active'[d]].ready \in {"connecting", "open", "closing"}
    <3>1. /\ active'[d] = active[d] /\ active[d] \in Sockets /\ sockets[active[d]].call = d
          /\ sockets[active[d]].ready \in {"connecting", "open", "closing"}
      BY <1>1, <1>3, <2>1 DEF NothingLeaks
    <3>2. CASE active[d] = s
      <4>1. d = c
        BY <1>0, <3>1, <3>2
      <4>2. ~Removed(s)
        BY <1>0, <1>1, <2>1, <4>1 DEF Removed
      <4>3. row.ready \in {"connecting", "open", "closing"}
        BY <3>1, <3>2, <4>2
      <4> QED BY <1>0, <1>1, <3>1, <3>2, <4>1, <4>3
    <3>3. CASE active[d] # s
      BY <1>1, <3>1, <3>3
    <3> QED BY <3>2, <3>3
  <2> QED BY <1>2, <2>1 DEF NothingLeaks
<1>6. ClaimsExclude'
  <2>1. ASSUME NEW q \in Requests, requests'[q].phase # "idle"
        PROVE  requests[q].phase # "idle"
    BY <1>2, <2>1 DEF Awaits
  <2> QED BY <1>2, <2>1, ClaimsStay DEF AdmissionInv
<1>7. ASSUME NEW q \in Requests
      PROVE  RequestKnows(q)'
  <2>1. RequestKnows(q) /\ (requests[q].phase # "idle" => requests[q].call \in Calls)
    BY RowOfRequest
  <2>2. CASE ~Awaits(q, s)
    <3>1. requests'[q] = requests[q]
      BY <1>2, <2>2
    <3>2. requests[q].phase = "attaching" =>
            requests[q].socket \in Sockets /\ sockets'[requests[q].socket] = sockets[requests[q].socket]
      BY <1>1, <2>1, <2>2 DEF Awaits, RequestKnows
    <3> QED BY <2>1, <3>1, <3>2 DEF RequestKnows, Answered
  <2>3. CASE Awaits(q, s)
    <3>1. /\ requests[q].phase = "attaching" /\ requests[q].socket = s
          /\ requests[q].call = c /\ ~sockets[s].attached
          /\ sockets[s].ready \in {"connecting", "open", "closing"}
          /\ process = "up" => sockets[s].ready # "closing"
      BY <1>0, <2>1, <2>3 DEF Awaits, RequestKnows
    <3>2. CASE UNCHANGED <<requests, pending>>
      <4>1. requests'[q] = requests[q]
        BY <3>2
      <4>2. CASE Resolved(s) \/ AttachRejected(s)
        BY <2>3, <3>1, <4>1, <4>2, RequestsLeave
      <4>3. CASE ~(Resolved(s) \/ AttachRejected(s))
        <5>1. ~row.attached /\ (row.ready = sockets[s].ready \/ row.ready = "open")
          BY <2>3, <3>1, <4>3
        <5> QED BY <1>0, <1>1, <3>1, <4>1, <5>1 DEF RequestKnows
      <4> QED BY <4>2, <4>3
    <3>3. CASE Resolved(s) \/ AttachRejected(s)
      <4>1. /\ requests'[q].phase \in {"finishing", "accepting", "failing"}
            /\ requests'[q].phase = "finishing" => Resolved(s)
            /\ requests'[q].call = c
        BY <2>3, <3>1, <3>3, RequestsLeave
      <4>2. Resolved(s) /\ process = "up" => c \in served'
        <5>1. CASE UNCHANGED <<requests, pending>> /\ Resolved(s)
          BY <2>3, <3>1, <5>1, RequestsLeave
        <5> QED BY <1>0, <2>3, <5>1
      <4> QED BY <4>1, <4>2 DEF RequestKnows, Answered
    <3> QED BY <3>2, <3>3
  <2> QED BY <2>2, <2>3
<1>8. ASSUME NEW x \in Sockets
      PROVE  SocketServes(x)'
  <2>1. SocketServes(x)
    BY RowOfSocket
  <2>2. CASE x = s
    <3>1. CASE process = "up" /\ row.ready \in {"connecting", "open"}
      <4>1. CASE c \in served'
        BY <1>0, <1>1, <2>2, <3>1, <4>1 DEF SocketServes
      <4>2. CASE c \notin served'
        <5>1. UNCHANGED requests /\ sockets[s].ready \in {"connecting", "open"}
          BY <1>0, <3>1, <4>2
        <5>2. PICK q \in Requests : Awaits(q, s)
          BY <1>0, <2>1, <2>2, <3>1, <4>2, <5>1 DEF SocketServes
        <5>3. Awaits(q, s)'
          BY <5>1, <5>2 DEF Awaits
        <5> QED BY <1>0, <1>1, <2>2, <5>3 DEF SocketServes
      <4> QED BY <4>1, <4>2
    <3>2. CASE ~(process = "up" /\ row.ready \in {"connecting", "open"})
      BY <1>0, <1>1, <2>2, <3>2 DEF SocketServes
    <3> QED BY <3>1, <3>2
  <2>3. CASE x # s
    <3>1. ASSUME NEW q \in Requests, Awaits(q, x)
          PROVE  Awaits(q, x)'
      BY <1>2, <2>3, <3>1 DEF Awaits
    <3> QED BY <1>1, <2>1, <2>3, <3>1 DEF SocketServes
  <2> QED BY <2>2, <2>3
<1> QED BY <1>4, <1>5, <1>6, <1>7, <1>8 DEF AdmissionInv


\* The promise of monitor is not both resolved and rejected.
LEMMA ResolvedOrRejected ==
  ASSUME AdmissionInv, NEW s \in Sockets, Resolved(s), AttachRejected(s),
         NEW q \in Requests, Awaits(q, s)
  PROVE  FALSE
<1>1. requests'[q].phase = "finishing"
  BY LeavingRows DEF Resolved
<1>2. requests'[q] = IF requests[q].probe
                     THEN [requests[q] EXCEPT !.phase = "accepting", !.socket = Undefined,
                                              !.probe = FALSE]
                     ELSE Failing(q)
  BY DEF AttachRejected
<1>3. requests[q] \in RequestRow
  BY RowOfRequest
<1>4. CASE requests[q].probe
  <2>1. requests'[q] = [requests[q] EXCEPT !.phase = "accepting", !.socket = Undefined,
                                           !.probe = FALSE]
    BY <1>2, <1>4
  <2> QED BY <1>1, <1>3, <2>1 DEF RequestRow
<1>5. CASE ~requests[q].probe
  BY <1>1, <1>2, <1>5, LeavingRows
<1> QED BY <1>4, <1>5

LEMMA SocketOpensKeeps ==
  ASSUME AdmissionInv, NEW s \in Sockets, SocketOpens(s)
  PROVE  AdmissionInv'
<1> DEFINE c == sockets[s].call
<1>1. /\ sockets[s].ready = "connecting" /\ sockets[s] \in SocketRow /\ c \in Calls
      /\ SocketServes(s)
      /\ sockets \in [Sockets -> SocketRow] /\ served \subseteq Calls /\ opened \subseteq Calls
      /\ session \in [Calls -> Statuses]
      /\ UNCHANGED <<event, session, provider, active, process, overtaken>>
      /\ opened' = opened \cup {c}
  BY RowOfSocket DEF SocketOpens, AdmissionInv, AdmissionTypeOK
<1>4. opened \subseteq opened' /\ opened' \subseteq Calls /\ c \in opened'
  BY <1>1
<1>2. CASE sockets[s].known = "received"
  <2>1. PICK row : row = [sockets[s] EXCEPT !.ready = "open", !.connecting = TRUE]
    OBVIOUS
  <2>2. /\ row \in SocketRow /\ row.ready = "open" /\ row.call = c
        /\ row.attached = sockets[s].attached
    BY <1>1, <2>1 DEF SocketRow
  <2>3. /\ sockets' = [sockets EXCEPT ![s] = row]
        /\ UNCHANGED <<requests, pending, served>>
    BY <1>1, <1>2, <2>1 DEF SocketOpens
  <2> QED BY <1>1, <1>4, <2>2, <2>3, SocketMoves
<1>3. CASE sockets[s].known # "received"
  <2>1. PICK row : row = [sockets[s] EXCEPT !.ready = "open", !.attached = TRUE,
                                            !.timer = FALSE]
    OBVIOUS
  <2>2. /\ row \in SocketRow /\ row.ready = "open" /\ row.call = c
        /\ row.timer = FALSE
    BY <1>1, <2>1 DEF SocketRow
  <2>3. /\ sockets' = [sockets EXCEPT ![s] = row]
        /\ Resolved(s) /\ served' = served \cup {c}
    BY <1>1, <1>3, <2>1 DEF SocketOpens
  <2>4. served \subseteq served' /\ served' \subseteq Calls /\ c \in served'
    BY <1>1, <2>3
  <2> QED BY <1>1, <1>4, <2>2, <2>3, <2>4, SocketMoves
<1> QED BY <1>2, <1>3

LEMMA ConnectKeeps ==
  ASSUME AdmissionInv, NEW s \in Sockets, ConnectSession(s)
  PROVE  AdmissionInv'
<1> DEFINE c == sockets[s].call
<1>1. /\ sockets[s].connecting /\ sockets[s] \in SocketRow /\ SocketServes(s)
      /\ sockets \in [Sockets -> SocketRow] /\ served \subseteq Calls /\ opened \subseteq Calls
      /\ session \in [Calls -> Statuses]
      /\ UNCHANGED <<event, provider, active, process, opened, overtaken>> /\ Resolved(s)
      /\ session' = [session EXCEPT ![c] = "connected"]
      /\ served' = IF sockets[s].ready = "open" THEN served \cup {c} ELSE served
  BY RowOfSocket DEF ConnectSession, AdmissionInv, AdmissionTypeOK
<1>2. sockets[s].ready \in {"open", "closing", "closed"} /\ c \in Calls
  BY <1>1, RowOfSocket DEF SocketServes
<1>3. PICK row : row = [sockets[s] EXCEPT !.connecting = FALSE, !.attached = TRUE,
                                          !.known = "connected", !.timer = FALSE]
  OBVIOUS
<1>4. /\ row \in SocketRow /\ row.ready = sockets[s].ready /\ row.call = c
      /\ row.connecting = FALSE /\ row.timer = FALSE
  BY <1>1, <1>3 DEF SocketRow, Statuses
<1>5. sockets' = [sockets EXCEPT ![s] = row]
  BY <1>1, <1>3 DEF ConnectSession
<1>6. /\ served \subseteq served' /\ served' \subseteq Calls
      /\ sockets[s].ready = "open" => c \in served'
      /\ session' \in [Calls -> Statuses]
  BY <1>1, <1>2 DEF Statuses
<1>7. ASSUME process = "up", NEW q \in Requests, Awaits(q, s)
      PROVE  c \in served'
  BY <1>2, <1>6, <1>7, RowOfRequest DEF Awaits, RequestKnows
<1>8. row.ready = "open" => c \in opened'
  BY <1>1, <1>4 DEF SocketServes
<1> QED BY <1>1, <1>2, <1>4, <1>5, <1>6, <1>7, <1>8, SocketMoves

LEMMA ConnectFailsKeeps ==
  ASSUME AdmissionInv, NEW s \in Sockets, ConnectSessionFails(s)
  PROVE  AdmissionInv'
<1> DEFINE c == sockets[s].call
<1>1. /\ sockets[s].connecting /\ sockets[s] \in SocketRow /\ SocketServes(s)
      /\ sockets \in [Sockets -> SocketRow] /\ served \subseteq Calls /\ opened \subseteq Calls
      /\ session \in [Calls -> Statuses]
      /\ UNCHANGED <<event, provider, active, process, histories>> /\ AttachRejected(s)
      /\ session' \in {session} \cup
           When(session[c] = sockets[s].known, [session EXCEPT ![c] = "connected"])
  BY RowOfSocket DEF ConnectSessionFails, AdmissionInv, AdmissionTypeOK
<1>2. sockets[s].ready \in {"open", "closing", "closed"} /\ c \in Calls
  BY <1>1, RowOfSocket DEF SocketServes
<1>3. PICK row : row = [sockets[s] EXCEPT !.connecting = FALSE,
                                          !.ready = IF @ = "open" THEN "closing" ELSE @]
  OBVIOUS
<1>4. /\ row \in SocketRow /\ row.ready \in {"closing", "closed"} /\ row.call = c
      /\ row.connecting = FALSE /\ row.timer = sockets[s].timer
      /\ sockets[s].ready # "closed" => row.ready = "closing"
      /\ sockets[s].ready = "closed" => row.ready = "closed"
  BY <1>1, <1>2, <1>3 DEF SocketRow
<1>5. sockets' = [sockets EXCEPT ![s] = row]
  BY <1>1, <1>3 DEF ConnectSessionFails
<1>6. session' \in [Calls -> Statuses]
  BY <1>1 DEF Statuses, When
<1>7. ~Resolved(s) \/ \A q \in Requests : ~Awaits(q, s)
  <2>1. ASSUME Resolved(s), NEW q \in Requests, Awaits(q, s)
        PROVE  FALSE
    BY <1>1, <2>1, ResolvedOrRejected
  <2> QED BY <2>1
<1>8. row.timer => row.ready \in {"connecting", "open", "closing"}
  BY <1>1, <1>4 DEF SocketServes
<1> QED BY <1>1, <1>2, <1>4, <1>5, <1>6, <1>7, <1>8, SocketMoves

LEMMA AttachFailsKeeps ==
  ASSUME AdmissionInv, NEW s \in Sockets, AttachFails(s)
  PROVE  AdmissionInv'
<1>1. /\ sockets[s].timer /\ sockets[s] \in SocketRow /\ SocketServes(s)
      /\ sockets \in [Sockets -> SocketRow] /\ served \subseteq Calls /\ opened \subseteq Calls
      /\ session \in [Calls -> Statuses]
      /\ UNCHANGED <<event, session, provider, process, histories>> /\ AttachRejected(s)
      /\ Removed(s)
  BY RowOfSocket DEF AttachFails, Removed, AdmissionInv, AdmissionTypeOK
<1>2. PICK row : row = [sockets[s] EXCEPT !.ready = "closing", !.timer = FALSE]
  OBVIOUS
<1>3. /\ row \in SocketRow /\ row.ready = "closing" /\ row.call = sockets[s].call
      /\ row.timer = FALSE
  BY <1>1, <1>2 DEF SocketRow
<1>4. sockets' = [sockets EXCEPT ![s] = row]
  BY <1>1, <1>2 DEF AttachFails
<1>5. sockets[s].ready # "none"
  BY <1>1 DEF SocketServes
<1>6. ~Resolved(s) \/ \A q \in Requests : ~Awaits(q, s)
  <2>1. ASSUME Resolved(s), NEW q \in Requests, Awaits(q, s)
        PROVE  FALSE
    BY <1>1, <2>1, ResolvedOrRejected
  <2> QED BY <2>1
<1> QED BY <1>1, <1>3, <1>4, <1>5, <1>6, SocketMoves

LEMMA SocketClosesKeeps ==
  ASSUME AdmissionInv, NEW s \in Sockets, SocketCloses(s)
  PROVE  AdmissionInv'
<1>1. /\ sockets[s].ready \in {"connecting", "open", "closing"}
      /\ sockets[s] \in SocketRow /\ SocketServes(s)
      /\ sockets \in [Sockets -> SocketRow] /\ served \subseteq Calls /\ opened \subseteq Calls
      /\ session \in [Calls -> Statuses]
      /\ UNCHANGED <<event, session, provider, process, histories>> /\ Removed(s)
  BY RowOfSocket DEF SocketCloses, Removed, AdmissionInv, AdmissionTypeOK
<1>2. LastStatus(s) \in Statuses
  BY DEF LastStatus, Statuses
<1>3. PICK row : row = [sockets[s] EXCEPT !.ready = "closed", !.timer = FALSE,
                                          !.from = sockets[s].known, !.last = LastStatus(s)]
  OBVIOUS
<1>4. /\ row \in SocketRow /\ row.ready = "closed" /\ row.call = sockets[s].call
      /\ row.timer = FALSE /\ row.attached = sockets[s].attached
  BY <1>1, <1>2, <1>3 DEF SocketRow
<1>5. sockets' = [sockets EXCEPT ![s] = row]
  BY <1>1, <1>3 DEF SocketCloses
<1>6. CASE sockets[s].attached
  <2>1. \A q \in Requests : ~Awaits(q, s)
    BY <1>6, RowOfRequest DEF Awaits, RequestKnows
  <2>2. UNCHANGED <<requests, pending>>
    BY <1>6 DEF SocketCloses
  <2> QED BY <1>1, <1>4, <1>5, <2>1, <2>2, SocketMoves
<1>7. CASE ~sockets[s].attached
  <2>1. AttachRejected(s)
    BY <1>7 DEF SocketCloses
  <2>2. ~Resolved(s) \/ \A q \in Requests : ~Awaits(q, s)
    <3>1. ASSUME Resolved(s), NEW q \in Requests, Awaits(q, s)
          PROVE  FALSE
      BY <2>1, <3>1, ResolvedOrRejected
    <3> QED BY <3>1
  <2> QED BY <1>1, <1>4, <1>5, <2>1, <2>2, SocketMoves
<1> QED BY <1>6, <1>7

\* No request awaits a closed socket.
LEMMA FinishLifecycleKeeps ==
  ASSUME AdmissionInv, NEW s \in Sockets, FinishLifecycle(s) \/ Discard(s)
  PROVE  AdmissionInv'
<1>1. /\ sockets[s].ready = "closed" /\ sockets[s] \in SocketRow /\ SocketServes(s)
      /\ sockets \in [Sockets -> SocketRow] /\ served \subseteq Calls /\ opened \subseteq Calls
      /\ session \in [Calls -> Statuses]
      /\ UNCHANGED <<event, provider, requests, active, pending, process, histories>>
  BY RowOfSocket DEF FinishLifecycle, Discard, AdmissionInv, AdmissionTypeOK
<1>2. \A q \in Requests : ~Awaits(q, s)
  BY <1>1, RowOfRequest DEF Awaits, RequestKnows
<1>3. CASE FinishLifecycle(s)
  <2>1. PICK row : row = [sockets[s] EXCEPT !.last = "absent"]
    OBVIOUS
  <2>2. /\ row \in SocketRow /\ row.ready = "closed" /\ row.call = sockets[s].call
        /\ row.timer = sockets[s].timer
    BY <1>1, <2>1 DEF SocketRow, Statuses
  <2>3. sockets' = [sockets EXCEPT ![s] = row]
    BY <1>1, <1>3, <2>1 DEF FinishLifecycle
  <2>4. session' \in [Calls -> Statuses]
    <3>1. session' \in {session} \cup
            When(session[sockets[s].call] = sockets[s].from,
                 [session EXCEPT ![sockets[s].call] = sockets[s].last])
      BY <1>3 DEF FinishLifecycle
    <3>2. sockets[s].last \in Statuses
      BY <1>1 DEF SocketRow
    <3> QED BY <1>1, <3>1, <3>2 DEF When
  <2>5. ~row.timer
    BY <1>1, <2>2 DEF SocketServes
  <2> QED BY <1>1, <1>2, <2>2, <2>3, <2>4, <2>5, SocketMoves
<1>4. CASE Discard(s)
  <2>1. PICK row \in SocketRow : row = NoSocket
    BY NoSocketRow
  <2>2. row.ready = "none" /\ row.timer = FALSE /\ row.connecting = FALSE
    BY <2>1, NoSocketRow
  <2>3. sockets' = [sockets EXCEPT ![s] = row] /\ session' \in [Calls -> Statuses]
    BY <1>1, <1>4, <2>1 DEF Discard
  <2> QED BY <1>1, <1>2, <2>2, <2>3, SocketMoves
<1> QED BY <1>3, <1>4


-----------------------------------------------------------------------------
(* Steps that begin or end a request.                                      *)

LEMMA RequestTurns ==
  ASSUME AdmissionInv, NEW r \in Requests, NEW row \in RequestRow,
         requests' = [requests EXCEPT ![r] = row],
         requests[r].phase \notin {"accepting", "attaching"},
         row.phase \notin {"attaching", "finishing"},
         row.phase # "idle" => row.call \in Calls,
         UNCHANGED <<session, provider, sockets, active, pending, process, histories>>,
         event' \in [Calls -> EventRow], ClaimsExclude'
  PROVE  AdmissionInv'
<1>1. /\ requests \in [Requests -> RequestRow] /\ requests' \in [Requests -> RequestRow]
      /\ requests'[r] = row /\ \A q \in Requests : q # r => requests'[q] = requests[q]
  BY DEF AdmissionInv, AdmissionTypeOK
<1>2. AdmissionTypeOK'
  BY <1>1 DEF AdmissionInv, AdmissionTypeOK
<1>3. NothingLeaks'
  <2>1. ASSUME NEW c \in pending'
        PROVE  \E q \in Requests : requests'[q].call = c
                 /\ requests'[q].phase \in {"accepting", "attaching"}
    <3>1. PICK q \in Requests : requests[q].call = c
                 /\ requests[q].phase \in {"accepting", "attaching"}
      BY DEF AdmissionInv, NothingLeaks
    <3> QED BY <1>1, <3>1
  <2> QED BY <2>1 DEF AdmissionInv, NothingLeaks
<1>4. ASSUME NEW q \in Requests
      PROVE  RequestKnows(q)'
  <2>1. CASE q = r
    BY <1>1, <2>1 DEF RequestKnows
  <2>2. CASE q # r
    BY <1>1, <2>2, RowOfRequest DEF RequestKnows, Answered
  <2> QED BY <2>1, <2>2
<1>5. ASSUME NEW s \in Sockets
      PROVE  SocketServes(s)'
  <2>1. ASSUME NEW q \in Requests, Awaits(q, s)
        PROVE  Awaits(q, s)'
    BY <1>1, <2>1 DEF Awaits
  <2> QED BY <2>1, RowOfSocket DEF SocketServes
<1> QED BY <1>2, <1>3, <1>4, <1>5 DEF AdmissionInv

\* The event of a call that can be claimed is the event of no request, unless the lease
\* ended under one.
LEMMA ClaimableIsFree ==
  ASSUME AdmissionInv, NEW c \in Calls, Reclaimable(c), c \notin overtaken, NEW q \in Requests,
         requests[q].phase # "idle"
  PROVE  requests[q].call # c
BY DEF AdmissionInv, ClaimsExclude, HoldsClaim, Reclaimable

LEMMA ReceiveKeeps ==
  ASSUME AdmissionInv, NEW r \in Requests, NEW c \in Calls, Receive(r, c)
  PROVE  AdmissionInv'
<1>1. /\ requests[r] = Idle /\ Reclaimable(c) /\ event[c].claims < MaxClaims
      /\ event \in [Calls -> EventRow] /\ requests \in [Requests -> RequestRow]
      /\ event' = [event EXCEPT ![c] =
           [state |-> "processing", claims |-> @.claims + 1, lapsed |-> FALSE]]
      /\ UNCHANGED <<session, provider, sockets, active, pending, process, histories>>
  BY DEF Receive, AdmissionInv, AdmissionTypeOK
<1>2. event[c] \in EventRow /\ event[c].claims + 1 \in 0 .. MaxClaims
  BY <1>1, AdmissionAssumption DEF EventRow
<1>3. /\ event'[c] = [state |-> "processing", claims |-> event[c].claims + 1, lapsed |-> FALSE]
      /\ \A d \in Calls : d # c => event'[d] = event[d]
  BY <1>1
<1>4. event' \in [Calls -> EventRow]
  BY <1>1, <1>2 DEF EventRow
<1>5. PICK phase \in {"rejecting", "creating"} :
        requests' = [requests EXCEPT ![r] =
          [Idle EXCEPT !.phase = phase, !.call = c, !.claim = event'[c].claims]]
  <2>1. \E phase \in {"rejecting"} \cup (IF Counted < MaxConcurrent THEN {"creating"} ELSE {}) :
          requests' = [requests EXCEPT ![r] =
            [Idle EXCEPT !.phase = phase, !.call = c, !.claim = event'[c].claims]]
    BY DEF Receive
  <2>2. {"rejecting"} \cup (IF Counted < MaxConcurrent THEN {"creating"} ELSE {})
          \subseteq {"rejecting", "creating"}
    OBVIOUS
  <2> QED BY <2>1, <2>2
<1>6. PICK row : row = [Idle EXCEPT !.phase = phase, !.call = c, !.claim = event'[c].claims]
  OBVIOUS
<1>7. /\ row \in RequestRow /\ row.phase \in {"rejecting", "creating"} /\ row.call = c
      /\ row.claim = event'[c].claims
  <2>1. PICK claim \in 0 .. MaxClaims : claim = event'[c].claims
    BY <1>2, <1>3
  <2>2. row = [phase |-> phase, call |-> c, claim |-> claim, socket |-> Undefined,
               probe |-> FALSE, known |-> "absent"]
    BY <1>6, <2>1 DEF Idle
  <2>3. phase \in {"rejecting", "creating"}
    BY <1>5
  <2> QED BY <2>1, <2>2, <2>3 DEF RequestRow, Statuses
<1>8. /\ requests' = [requests EXCEPT ![r] = row] /\ requests'[r] = row
      /\ \A q \in Requests : q # r => requests'[q] = requests[q]
  BY <1>1, <1>5, <1>6
<1>9. ClaimsExclude'
  <2>1. ASSUME NEW q \in Requests, q # r, requests'[q].phase # "idle",
               requests'[q].call \notin overtaken
        PROVE  /\ requests'[q].call # c /\ requests'[q].call \in Calls /\ HoldsClaim(q)'
               /\ requests[q].phase # "idle" /\ requests'[q] = requests[q]
    <3>1. requests'[q] = requests[q] /\ requests[q].phase # "idle"
      BY <1>8, <2>1
    <3>2. requests[q].call \in Calls /\ requests[q].call # c
      BY <1>1, <2>1, <3>1, ClaimableIsFree, RowOfRequest
    <3>3. HoldsClaim(q)
      BY <2>1, <3>1 DEF AdmissionInv, ClaimsExclude
    <3> QED BY <1>3, <3>1, <3>2, <3>3 DEF HoldsClaim
  <2>2. HoldsClaim(r)'
    BY <1>3, <1>7, <1>8 DEF HoldsClaim
  <2>3. ASSUME NEW p \in Requests, NEW q \in Requests, requests'[p].phase # "idle",
               requests'[q].phase # "idle", requests'[p].call = requests'[q].call,
               requests'[p].call \notin overtaken
        PROVE  p = q
    <3>1. CASE p = r \/ q = r
      BY <1>7, <1>8, <2>1, <2>3, <3>1
    <3>2. CASE p # r /\ q # r
      BY <2>1, <2>3, <3>2 DEF AdmissionInv, ClaimsExclude
    <3> QED BY <3>1, <3>2
  <2>4. UNCHANGED overtaken
    BY <1>1
  <2>5. ASSUME NEW q \in Requests, requests'[q].phase # "idle", requests'[q].call \notin overtaken
        PROVE  HoldsClaim(q)'
    BY <2>1, <2>2, <2>5
  <2> QED BY <2>3, <2>4, <2>5 DEF ClaimsExclude
<1>10. requests[r].phase = "idle"
  BY <1>1, IdleRow
<1> QED BY <1>1, <1>4, <1>7, <1>8, <1>9, <1>10, RequestTurns

\* A request that ends gives its claim up; the others hold those of other calls.
LEMMA ClaimsEnd ==
  ASSUME AdmissionInv, NEW r \in Requests, requests[r].phase # "idle",
         requests' = [requests EXCEPT ![r] = Idle], UNCHANGED overtaken,
         \A d \in Calls : d # requests[r].call => event'[d] = event[d]
  PROVE  ClaimsExclude'
<1>1. /\ requests \in [Requests -> RequestRow] /\ requests'[r].phase = "idle"
      /\ \A q \in Requests : q # r => requests'[q] = requests[q]
  BY IdleRow DEF AdmissionInv, AdmissionTypeOK
<1>2. ASSUME NEW q \in Requests, requests'[q].phase # "idle", requests'[q].call \notin overtaken
      PROVE  HoldsClaim(q)'
  <2>1. q # r /\ requests'[q] = requests[q]
    BY <1>1, <1>2
  <2>2. HoldsClaim(q) /\ requests[q].call # requests[r].call
    BY <1>2, <2>1 DEF AdmissionInv, ClaimsExclude
  <2>3. requests[q].call \in Calls
    BY <1>2, <2>1, RowOfRequest
  <2> QED BY <2>1, <2>2, <2>3 DEF HoldsClaim
<1>3. ASSUME NEW p \in Requests, NEW q \in Requests, requests'[p].phase # "idle",
             requests'[q].phase # "idle", requests'[p].call = requests'[q].call,
             requests'[p].call \notin overtaken
      PROVE  p = q
  <2>1. requests'[p] = requests[p] /\ requests'[q] = requests[q]
    BY <1>1, <1>3
  <2> QED BY <1>3, <2>1 DEF AdmissionInv, ClaimsExclude
<1> QED BY <1>2, <1>3 DEF ClaimsExclude

LEMMA FinishKeeps ==
  ASSUME AdmissionInv, NEW r \in Requests, Finish(r)
  PROVE  AdmissionInv'
<1>1. /\ requests[r].phase = "finishing" /\ requests[r].call \in Calls
      /\ UNCHANGED <<session, provider, sockets, active, process, histories>>
      /\ event \in [Calls -> EventRow]
      /\ provider \in [Calls -> {"ringing", "accepted", "rejected", "ended"}]
  BY RowOfRequest DEF Finish, AdmissionInv, AdmissionTypeOK
<1>2. CASE HoldsClaim(r)
  <2>1. /\ event' = [event EXCEPT ![requests[r].call].state = "processed"]
        /\ requests' = [requests EXCEPT ![r] = Idle] /\ UNCHANGED pending
    BY <1>2 DEF Finish
  <2>2. /\ event' \in [Calls -> EventRow]
        /\ \A d \in Calls : d # requests[r].call => event'[d] = event[d]
    BY <1>1, <2>1 DEF EventRow
  <2>3. ClaimsExclude'
    BY <1>1, <2>1, <2>2, ClaimsEnd
  <2>4. PICK row \in RequestRow : row = Idle /\ row.phase = "idle"
    BY IdleRow
  <2> QED BY <1>1, <2>1, <2>2, <2>3, <2>4, RequestTurns
<1>3. CASE ~HoldsClaim(r)
  <2>1. UNCHANGED event /\ Throw(r)
    BY <1>3 DEF Finish
  <2> QED BY <1>1, <2>1, ThrowKeeps
<1> QED BY <1>2, <1>3

LEMMA FinishRetryKeeps ==
  ASSUME AdmissionInv, NEW r \in Requests, FinishAsRetry(r)
  PROVE  AdmissionInv'
<1>0. PICK c \in Calls : c = requests[r].call
  BY RowOfRequest DEF FinishAsRetry
<1>1. /\ requests[r].phase = "failing"
      /\ UNCHANGED <<session, provider, sockets, active, pending, process, histories>>
      /\ requests' = [requests EXCEPT ![r] = Idle]
      /\ event \in [Calls -> EventRow]
      /\ event' \in {event} \cup
           When(HoldsClaim(r),
                [event EXCEPT ![c].state = IF event[c].claims < MaxClaims THEN "retry"
                                                                        ELSE "failed"])
  BY <1>0 DEF FinishAsRetry, AdmissionInv, AdmissionTypeOK
<1>2. event' = event \/ event' = [event EXCEPT ![c].state =
                                    IF event[c].claims < MaxClaims THEN "retry" ELSE "failed"]
  BY <1>1 DEF When
<1>3. /\ event' \in [Calls -> EventRow]
      /\ \A d \in Calls : d # c => event'[d] = event[d]
  BY <1>1, <1>2 DEF EventRow
<1>4. ClaimsExclude'
  BY <1>0, <1>1, <1>3, ClaimsEnd
<1>5. PICK row \in RequestRow : row = Idle /\ row.phase = "idle"
  BY IdleRow
<1> QED BY <1>1, <1>3, <1>4, <1>5, RequestTurns

-----------------------------------------------------------------------------
(* The provider, the clock and the process.                                *)

LEMMA CallMoves ==
  ASSUME AdmissionInv,
         UNCHANGED <<session, requests, sockets, active, pending, process, served, opened>>,
         overtaken \subseteq overtaken', overtaken' \subseteq Calls,
         event' \in [Calls -> EventRow],
         provider' \in [Calls -> {"ringing", "accepted", "rejected", "ended"}],
         \A c \in Calls : provider[c] = "rejected" => provider'[c] = "rejected",
         ClaimsExclude'
  PROVE  AdmissionInv'
<1>1. AdmissionTypeOK' /\ NothingLeaks'
  BY DEF AdmissionInv, AdmissionTypeOK, NothingLeaks
<1>2. ASSUME NEW r \in Requests
      PROVE  RequestKnows(r)'
  BY RowOfRequest DEF RequestKnows, Answered
<1>3. ASSUME NEW s \in Sockets
      PROVE  SocketServes(s)'
  BY RowOfSocket DEF SocketServes, Awaits
<1> QED BY <1>1, <1>2, <1>3 DEF AdmissionInv

LEMMA CallStepsKeep ==
  ASSUME AdmissionInv, NEW c \in Calls, Exhaust(c) \/ CallEnds(c) \/ Lapse(c)
  PROVE  AdmissionInv'
<1>1. /\ event \in [Calls -> EventRow] /\ overtaken \subseteq Calls
      /\ provider \in [Calls -> {"ringing", "accepted", "rejected", "ended"}]
      /\ UNCHANGED <<session, requests, sockets, active, pending, process, served, opened>>
  BY DEF AdmissionInv, AdmissionTypeOK, Exhaust, CallEnds, Lapse
<1>2. CASE CallEnds(c)
  <2>1. UNCHANGED <<event, overtaken>> /\ provider' = [provider EXCEPT ![c] = "ended"]
        /\ provider[c] \in {"ringing", "accepted"}
    BY <1>2 DEF CallEnds
  <2>2. ClaimsExclude'
    BY <1>1, <2>1, ClaimsStay DEF AdmissionInv
  <2> QED BY <1>1, <2>1, <2>2, CallMoves
<1>3. CASE Exhaust(c) \/ Lapse(c)
  <2>1. /\ UNCHANGED provider /\ event' \in [Calls -> EventRow]
        /\ \A d \in Calls : d # c => event'[d] = event[d]
        /\ overtaken \subseteq overtaken' /\ overtaken' \subseteq Calls
        /\ \A r \in Requests : requests[r].phase # "idle" /\ requests[r].call = c => c \in overtaken'
    <3>1. CASE Exhaust(c)
      <4>1. UNCHANGED <<provider, overtaken>> /\ event' = [event EXCEPT ![c] =
              [@ EXCEPT !.state = "failed", !.lapsed = FALSE]]
        BY <1>1, <3>1 DEF Exhaust
      <4>2. [event[c] EXCEPT !.state = "failed", !.lapsed = FALSE] \in EventRow
        BY <1>1 DEF EventRow
      <4>3. ASSUME NEW r \in Requests, requests[r].phase # "idle", requests[r].call = c
            PROVE  c \in overtaken
        BY <3>1, <4>3, ClaimableIsFree DEF Exhaust
      <4> QED BY <1>1, <4>1, <4>2, <4>3
    <3>2. CASE Lapse(c)
      BY <1>1, <3>2 DEF Lapse, EventRow
    <3> QED BY <1>3, <3>1, <3>2
  <2>2. ASSUME NEW r \in Requests, requests[r].phase # "idle", requests[r].call \notin overtaken'
        PROVE  requests[r].call \in Calls /\ requests[r].call # c /\ HoldsClaim(r)
    BY <2>1, <2>2, RowOfRequest DEF AdmissionInv, ClaimsExclude
  <2>3. ClaimsExclude'
    BY <1>1, <2>1, <2>2 DEF AdmissionInv, ClaimsExclude, HoldsClaim
  <2> QED BY <1>1, <2>1, <2>3, CallMoves
<1> QED BY <1>2, <1>3

LEMMA StopKeeps ==
  ASSUME AdmissionInv, StopProcess
  PROVE  AdmissionInv'
<1> DEFINE mapped == {active[c] : c \in Calls} \ {Undefined}
<1>1. /\ requests \in [Requests -> RequestRow] /\ sockets \in [Sockets -> SocketRow]
      /\ active \in [Calls -> Sockets \cup {Undefined}] /\ NothingLeaks
      /\ provider \in [Calls -> {"ringing", "accepted", "rejected", "ended"}]
      /\ process' = "stopping" /\ UNCHANGED <<event, session, requests, histories>>
      /\ active' = [c \in Calls |-> Undefined] /\ pending' = {}
  BY DEF StopProcess, AdmissionInv, AdmissionTypeOK
<1>2. \A s \in Sockets :
        sockets'[s] = IF s \in mapped THEN [sockets[s] EXCEPT !.ready = "closing",
                                                              !.restart = TRUE]
                                      ELSE sockets[s]
  BY DEF StopProcess
<1>3. provider' \in [Calls -> {"ringing", "accepted", "rejected", "ended"}]
  BY <1>1 DEF StopProcess
<1>4. ASSUME NEW s \in Sockets
      PROVE  /\ sockets'[s] \in SocketRow /\ sockets'[s].call = sockets[s].call
             /\ sockets'[s].attached = sockets[s].attached
             /\ sockets'[s].connecting = sockets[s].connecting
             /\ sockets'[s].timer = sockets[s].timer
             /\ \/ sockets'[s].ready = sockets[s].ready
                \/ sockets'[s].ready = "closing" /\ sockets[s].ready # "none"
  <2>1. sockets[s] \in SocketRow
    BY <1>1
  <2>2. CASE s \in mapped
    <3>1. sockets'[s] = [sockets[s] EXCEPT !.ready = "closing", !.restart = TRUE]
      BY <1>2, <2>2
    <3>2. sockets[s].ready # "none"
      BY <1>1, <2>2 DEF NothingLeaks
    <3> QED BY <2>1, <3>1, <3>2 DEF SocketRow
  <2>3. CASE s \notin mapped
    BY <1>2, <2>1, <2>3
  <2> QED BY <2>2, <2>3
<1>5. sockets' \in [Sockets -> SocketRow]
  BY <1>4 DEF StopProcess
<1>6. AdmissionTypeOK' /\ NothingLeaks'
  BY <1>1, <1>3, <1>5 DEF AdmissionInv, AdmissionTypeOK, NothingLeaks
<1>7. ClaimsExclude'
  BY <1>1, ClaimsStay DEF AdmissionInv
<1>8. ASSUME NEW r \in Requests
      PROVE  RequestKnows(r)'
  BY <1>1, <1>4, RowOfRequest DEF RequestKnows
<1>9. ASSUME NEW s \in Sockets
      PROVE  SocketServes(s)'
  BY <1>1, <1>4, RowOfSocket DEF SocketServes
<1> QED BY <1>6, <1>7, <1>8, <1>9 DEF AdmissionInv

\* After a start, and at the beginning, there are neither requests nor sockets.
LEMMA EmptyProcess ==
  ASSUME requests = [r \in Requests |-> Idle], sockets = [s \in Sockets |-> NoSocket],
         active = [c \in Calls |-> Undefined], pending = {}, process = "up",
         event \in [Calls -> EventRow], session \in [Calls -> Statuses],
         provider \in [Calls -> {"ringing", "accepted", "rejected", "ended"}],
         served = {}, opened = {}, overtaken = {}
  PROVE  AdmissionInv
<1>1. AdmissionTypeOK
  BY IdleRow, NoSocketRow DEF AdmissionTypeOK
<1>2. NothingLeaks
  BY DEF NothingLeaks
<1>3. \A r \in Requests : requests[r].phase = "idle"
  BY IdleRow
<1>4. \A s \in Sockets : /\ sockets[s].ready = "none" /\ sockets[s].timer = FALSE
                         /\ sockets[s].connecting = FALSE
  BY NoSocketRow
<1> QED BY <1>1, <1>2, <1>3, <1>4
        DEF AdmissionInv, ClaimsExclude, RequestKnows, SocketServes

LEMMA AdmissionInitHolds ==
  ASSUME AdmissionInit
  PROVE  AdmissionInv
<1>1. /\ event \in [Calls -> EventRow] /\ session \in [Calls -> Statuses]
      /\ provider \in [Calls -> {"ringing", "accepted", "rejected", "ended"}]
  BY AdmissionAssumption DEF AdmissionInit, EventRow, Statuses
<1> QED BY <1>1, EmptyProcess DEF AdmissionInit

LEMMA RestartKeeps ==
  ASSUME AdmissionInv, Restart
  PROVE  AdmissionInv'
<1>1. /\ event' \in [Calls -> EventRow] /\ session' \in [Calls -> Statuses]
      /\ provider' \in [Calls -> {"ringing", "accepted", "rejected", "ended"}]
      /\ served' = {} /\ opened' = {} /\ overtaken' = {}
  BY DEF Restart, AdmissionInv, AdmissionTypeOK
<1>2. AdmissionTypeOK'
  BY <1>1, IdleRow, NoSocketRow DEF Restart, AdmissionTypeOK
<1>3. NothingLeaks'
  BY DEF Restart, NothingLeaks
<1>4. \A r \in Requests : requests'[r].phase = "idle"
  BY IdleRow DEF Restart
<1>5. \A s \in Sockets : /\ sockets'[s].ready = "none" /\ sockets'[s].timer = FALSE
                         /\ sockets'[s].connecting = FALSE
  BY NoSocketRow DEF Restart
<1> QED BY <1>2, <1>3, <1>4, <1>5
        DEF AdmissionInv, ClaimsExclude, RequestKnows, SocketServes

LEMMA AdmissionNextKeeps ==
  ASSUME AdmissionInv, [AdmissionNext]_admissionVars
  PROVE  AdmissionInv'
<1>1. CASE UNCHANGED admissionVars
  <2>1. ClaimsExclude'
    BY <1>1, ClaimsStay DEF AdmissionInv, admissionVars
  <2> QED BY <1>1, <2>1, CallMoves DEF admissionVars, AdmissionInv, AdmissionTypeOK
<1>2. ASSUME NEW r \in Requests, NEW c \in Calls, Receive(r, c)
      PROVE  AdmissionInv'
  BY <1>2, ReceiveKeeps
<1>3. ASSUME NEW r \in Requests, RequestStep(r)
      PROVE  AdmissionInv'
  BY <1>3, RejectKeeps, CreateSessionKeeps, SimpleThrowsKeep, AcceptKeeps, AcceptFailsKeeps,
     FinishKeeps, FinishRetryKeeps DEF RequestStep
<1>4. ASSUME NEW s \in Sockets, SocketStep(s)
      PROVE  AdmissionInv'
  BY <1>4, SocketOpensKeeps, ConnectKeeps, ConnectFailsKeeps, AttachFailsKeeps,
     SocketClosesKeeps, FinishLifecycleKeeps DEF SocketStep
<1>5. ASSUME NEW c \in Calls, Exhaust(c) \/ CallEnds(c) \/ Lapse(c)
      PROVE  AdmissionInv'
  BY <1>5, CallStepsKeep
<1>6. CASE StopProcess \/ Restart
  BY <1>6, StopKeeps, RestartKeeps
<1> QED BY <1>1, <1>2, <1>3, <1>4, <1>5, <1>6 DEF AdmissionNext

LEMMA AdmissionAlwaysInv == AdmissionSpec => []AdmissionInv
<1>1. AdmissionInit => AdmissionInv
  BY AdmissionInitHolds
<1>2. AdmissionInv /\ [AdmissionNext]_admissionVars => AdmissionInv'
  BY AdmissionNextKeeps
<1> QED BY <1>1, <1>2, PTL DEF AdmissionSpec

\* The rows of the gateway stay within their states, and its maps name nothing that is
\* gone: however claims lapse, and in whatever order requests and sockets end, a call is
\* pending only for a request that accepts or attaches it, and active only with a socket
\* of its own.
THEOREM AdmissionIsSound == AdmissionSpec => []AdmissionInvariant
<1>1. AdmissionInv => AdmissionInvariant
  BY DEF AdmissionInv, AdmissionInvariant
<1> QED BY <1>1, AdmissionAlwaysInv, PTL

\* An event is processed by the request that holds its claim.
LEMMA ProcessedByFinish ==
  ASSUME AdmissionInv, [AdmissionNext]_admissionVars, NEW c \in Calls,
         event[c].state # "processed", event'[c].state = "processed"
  PROVE  \E r \in Requests : Finish(r) /\ HoldsClaim(r) /\ requests[r].call = c
<1>1. event \in [Calls -> EventRow]
  BY DEF AdmissionInv, AdmissionTypeOK
<1>2. ~UNCHANGED event
  OBVIOUS
<1>3. ASSUME NEW r \in Requests, NEW d \in Calls, Receive(r, d)
      PROVE  FALSE
  <2>1. event' = [event EXCEPT ![d] =
          [state |-> "processing", claims |-> @.claims + 1, lapsed |-> FALSE]]
    BY <1>3 DEF Receive
  <2> QED BY <1>1, <2>1
<1>4. ASSUME NEW r \in Requests, RequestStep(r)
      PROVE  Finish(r) /\ HoldsClaim(r) /\ requests[r].call = c
  <2>1. Finish(r) \/ FinishAsRetry(r)
    BY <1>2, <1>4 DEF RequestStep, Reject, CreateSession, CreateSessionFails, Accept,
       AcceptFails, FinishFails
  <2>2. CASE Finish(r)
    <3>1. HoldsClaim(r)
      BY <1>2, <2>2 DEF Finish
    <3>2. event' = [event EXCEPT ![requests[r].call].state = "processed"]
      BY <2>2, <3>1 DEF Finish
    <3> QED BY <1>1, <2>2, <3>1, <3>2 DEF EventRow
  <2>3. CASE FinishAsRetry(r)
    <3>1. PICK d \in Calls : d = requests[r].call
      BY <2>3, RowOfRequest DEF FinishAsRetry
    <3>2. event' = [event EXCEPT ![d].state =
                      IF event[d].claims < MaxClaims THEN "retry" ELSE "failed"]
      BY <1>2, <2>3, <3>1 DEF FinishAsRetry, When
    <3> QED BY <1>1, <3>2 DEF EventRow
  <2> QED BY <2>1, <2>2, <2>3
<1>5. ASSUME NEW s \in Sockets, SocketStep(s)
      PROVE  FALSE
  BY <1>2, <1>5 DEF SocketStep, SocketOpens, ConnectSession, ConnectSessionFails, AttachFails, SocketCloses,
     FinishLifecycle, Discard
<1>6. ASSUME NEW d \in Calls, Exhaust(d) \/ CallEnds(d) \/ Lapse(d)
      PROVE  FALSE
  BY <1>1, <1>6 DEF Exhaust, CallEnds, Lapse, EventRow
<1>7. ~(StopProcess \/ Restart)
  BY <1>2 DEF StopProcess, Restart
<1>8. ~UNCHANGED admissionVars
  BY <1>2 DEF admissionVars
<1> QED BY <1>3, <1>4, <1>5, <1>6, <1>7, <1>8 DEF AdmissionNext

\* A running gateway acknowledges the webhook of a call for good only when the call was
\* rejected or a socket was attached to it by the same process; where the lease of the
\* claim ended under a request, when a socket of it had opened.
THEOREM SettledCallsAreServed == AdmissionSpec => SettledIsServed
<1>1. ASSUME AdmissionInv, [AdmissionNext]_admissionVars, NEW c \in Calls,
             event[c].state # "processed", event'[c].state = "processed", process = "up"
      PROVE  Answered(c)
  <2>1. event \in [Calls -> EventRow]
    BY <1>1 DEF AdmissionInv, AdmissionTypeOK
  <2>2. PICK r \in Requests : Finish(r) /\ HoldsClaim(r) /\ requests[r].call = c
    BY <1>1, <2>1, ProcessedByFinish
  <2>3. requests[r].phase = "finishing"
    BY <2>2 DEF Finish
  <2> QED BY <1>1, <2>2, <2>3, RowOfRequest DEF RequestKnows
<1>2. AdmissionInv /\ [AdmissionNext]_admissionVars
        => [\A c \in Calls :
              event[c].state # "processed" /\ event'[c].state = "processed" /\ process = "up" =>
                Answered(c)]_admissionVars
  <2> SUFFICES ASSUME AdmissionInv, [AdmissionNext]_admissionVars, NEW c \in Calls,
                      event[c].state # "processed", event'[c].state = "processed",
                      process = "up"
               PROVE  Answered(c)
    OBVIOUS
  <2> QED BY <1>1
<1> QED BY <1>2, AdmissionAlwaysInv, PTL DEF AdmissionSpec, SettledIsServed

=============================================================================
