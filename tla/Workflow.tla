------------------------------ MODULE Workflow -------------------------------
(***************************************************************************)
(* The governed workflows of a case: instances that move along the edges of *)
(* an approved definition, the ledger of their actions under idempotency    *)
(* keys, the completion evidence taken from signed provider events, and the *)
(* exceptions staff own.  A request advances in two steps, because          *)
(* civya_service_advance_governed_workflow reads the row before             *)
(* civya_service_transition_workflow locks it; every other function locks   *)
(* first and is one step.  A request that is refused, or whose connection   *)
(* is lost, is rolled back.                                                 *)
(***************************************************************************)
EXTENDS Integers, Sequences, FiniteSets

CONSTANTS
  Workflows,       \* instances, named by the idempotency key of their start
  Keys,            \* idempotency keys of actions
  Dedupes,         \* dedupe keys of exceptions
  Raises,          \* the pairs of a key and a dedupe key that raises carry
  Clients,         \* requests in hand
  Initial,         \* initial_state of the definition
  Edges,           \* its transitions
  TerminalStates,  \* terminal_states of the completion definition
  Events,          \* signed provider events
  Outcome,         \* the terminal state each proves
  MaxObserved,     \* instants of observation
  Absent           \* no row

States == {Initial} \cup {e.from : e \in Edges} \cup {e.to : e \in Edges}
Actors == {"resident", "staff", "system", "provider"}
ActionNames == {e.action : e \in Edges}

ASSUME WorkflowAssumption ==
  /\ Edges \subseteq [from : STRING, action : STRING, to : STRING, actors : SUBSET Actors]
  /\ TerminalStates \subseteq States /\ Raises \subseteq Keys \X Dedupes
  /\ Outcome \in [Events -> TerminalStates]
  /\ MaxObserved \in Nat

Action ==
  [workflow : Workflows, action : ActionNames, from : States, to : States, actor : Actors,
   sequence : Nat, evidence : Nat]

Exception == [workflow : Workflows, status : {"open", "resolved"}]

EvidenceRow == [workflow : Workflows, event : Events, observed : 1 .. MaxObserved]

Request ==
  [workflow : Workflows, action : ActionNames, to : States, actor : Actors,
   expected : Nat, key : Keys, evidence : Nat, edge : States, reversing : BOOLEAN]

ASSUME AbsentAssumption ==
  Absent \notin Action /\ Absent \notin Exception /\ Absent \notin Request

VARIABLES
  instance,     \* workflow_instances
  actions,      \* workflow_actions, by idempotency key
  exceptions,   \* operational_exceptions, by dedupe key
  received,     \* provider events in the order they came in
  evidence,     \* workflow_completion_evidence in the order it was created
  advancing     \* requests between the read and the lock

workflowVars == <<instance, actions, exceptions, received, evidence, advancing>>

NoEvidence == 0

WorkflowTypeOK ==
  /\ instance \in [Workflows -> [state : States, version : Nat,
                                 status : {"absent", "active", "escalated", "completed"}]]
  /\ actions \in [Keys -> Action \cup {Absent}]
  /\ exceptions \in [Dedupes -> Exception \cup {Absent}]
  /\ received \in Seq(Events) /\ evidence \in Seq(EvidenceRow)
  /\ advancing \in [Clients -> Request \cup {Absent}]

WorkflowInit ==
  /\ instance = [i \in Workflows |-> [state |-> Initial, status |-> "absent", version |-> 0]]
  /\ actions = [k \in Keys |-> Absent]
  /\ exceptions = [d \in Dedupes |-> Absent]
  /\ received = <<>> /\ evidence = <<>>
  /\ advancing = [r \in Clients |-> Absent]

-----------------------------------------------------------------------------
Unfinished(i) == instance[i].status \in {"active", "escalated"}

\* An edge for these names, and one that its actor may take.
Possible(from, action, to) ==
  \E e \in Edges : e.from = from /\ e.action = action /\ e.to = to

Permitted(from, action, to, actor) ==
  \E e \in Edges : e.from = from /\ e.action = action /\ e.to = to /\ actor \in e.actors

\* A case has one open instance of a workflow.  A repeated start changes nothing.
Start(i) ==
  /\ instance[i].status = "absent"
  /\ ~\E j \in Workflows : Unfinished(j)
  /\ instance' = [instance EXCEPT ![i].status = "active", ![i].version = 1]
  /\ UNCHANGED <<actions, exceptions, received, evidence, advancing>>

-----------------------------------------------------------------------------
(* Evidence.                                                               *)

ReceiveProof(e) ==
  /\ \A n \in DOMAIN received : received[n] # e
  /\ received' = Append(received, e)
  /\ UNCHANGED <<instance, actions, exceptions, evidence, advancing>>

\* The registry takes one piece of evidence for an event.
RecordEvidence(i, e, observed) ==
  /\ instance[i].status # "absent"
  /\ \E n \in DOMAIN received : received[n] = e
  /\ \A n \in DOMAIN evidence : evidence[n].event # e
  /\ evidence' = Append(evidence, [workflow |-> i, event |-> e, observed |-> observed])
  /\ UNCHANGED <<instance, actions, exceptions, received, advancing>>

ReceivedAt(e) == CHOOSE n \in DOMAIN received : received[n] = e

\* The evidence that brought the workflow to its terminal state.
PriorEvidence(i) ==
  {k \in Keys : /\ actions[k] # Absent /\ actions[k].workflow = i
                /\ actions[k].to = instance[i].state /\ actions[k].evidence # NoEvidence}

IsLater(n, m) ==
  /\ n > m /\ evidence[n].observed > evidence[m].observed
  /\ ReceivedAt(evidence[n].event) > ReceivedAt(evidence[m].event)

\* Mutant: evidence of the outcome is enough, however old it is.
ProvenByAny(i, n, to) ==
  IF to \notin TerminalStates THEN n = NoEvidence
  ELSE n \in DOMAIN evidence /\ evidence[n].workflow = i /\ Outcome[evidence[n].event] = to

\* What the guard on workflow_actions asks of the evidence of an action.
CompletionProven(i, n, to) ==
  IF to \notin TerminalStates THEN n = NoEvidence
  ELSE /\ n \in DOMAIN evidence
       /\ evidence[n].workflow = i /\ Outcome[evidence[n].event] = to
       /\ instance[i].state \in TerminalStates =>
            /\ PriorEvidence(i) # {}
            /\ LET latest == CHOOSE k \in PriorEvidence(i) :
                     \A l \in PriorEvidence(i) : actions[l].sequence <= actions[k].sequence
               IN IsLater(n, actions[latest].evidence)

-----------------------------------------------------------------------------
(* civya_service_advance_governed_workflow.                                *)

\* A repetition must be of the same input.
SameInput(k, i, action, to, actor, n) ==
  /\ actions[k].workflow = i /\ actions[k].action = action /\ actions[k].to = to
  /\ actions[k].actor = actor /\ actions[k].evidence = n

\* The state whose edge is looked up.
EdgeState(i, k) == IF actions[k] = Absent THEN instance[i].state ELSE actions[k].from

MayAdvance(i, k, action, to, actor, n) ==
  /\ instance[i].status # "absent"
  /\ actions[k] # Absent => SameInput(k, i, action, to, actor, n)
  /\ Permitted(EdgeState(i, k), action, to, actor)

Reverses(i, k, to) ==
  /\ actions[k] = Absent /\ to = "reversed"
  /\ instance[i].status = "completed" /\ instance[i].state = "active"

\* Clients send a version they have read.
Advance(r, i, k, action, to, actor, n, expected) ==
  /\ advancing[r] = Absent
  /\ MayAdvance(i, k, action, to, actor, n)
  /\ expected \in 1 .. instance[i].version
  /\ advancing' = [advancing EXCEPT ![r] =
       [workflow |-> i, action |-> action, to |-> to, actor |-> actor, expected |-> expected,
        key |-> k, evidence |-> n, edge |-> EdgeState(i, k), reversing |-> Reverses(i, k, to)]]
  /\ UNCHANGED <<instance, actions, exceptions, received, evidence>>

\* What the row and the ledger hold after a request moved the workflow.
Moved(q, status) ==
  /\ actions' = [actions EXCEPT ![q.key] =
       [workflow |-> q.workflow, action |-> q.action, from |-> instance[q.workflow].state,
        to |-> q.to, actor |-> q.actor, sequence |-> instance[q.workflow].version + 1,
        evidence |-> q.evidence]]
  /\ instance' = [instance EXCEPT ![q.workflow] =
       [state |-> q.to, version |-> @.version + 1, status |-> status]]

StatusAt(to) == IF to \in TerminalStates THEN "completed" ELSE "active"

\* Mutant: the row that was read is not compared with the one that is locked.
MayMoveAsRead(q) ==
  /\ actions[q.key] = Absent
  /\ Permitted(q.edge, q.action, q.to, q.actor)
  /\ CompletionProven(q.workflow, q.evidence, q.to)

\* civya_service_transition_workflow and civya_reverse_completed_workflow on a new
\* key.  The first does not look at the actors of the edge.
MayMove(q) ==
  LET i == q.workflow IN
  /\ actions[q.key] = Absent
  /\ instance[i].version = q.expected
  /\ IF q.reversing
     THEN /\ instance[i].status = "completed" /\ instance[i].state = "active"
          /\ q.to = "reversed" /\ q.to \in TerminalStates
          /\ Permitted("active", q.action, q.to, q.actor)
     ELSE Unfinished(i) /\ Possible(instance[i].state, q.action, q.to)
  /\ CompletionProven(i, q.evidence, q.to)

\* The same on a key that was used: transition compares less.
Replays(q) ==
  /\ actions[q.key] # Absent
  /\ IF q.reversing
     THEN SameInput(q.key, q.workflow, q.action, q.to, q.actor, q.evidence)
     ELSE /\ actions[q.key].workflow = q.workflow /\ actions[q.key].action = q.action
          /\ actions[q.key].to = q.to

IsException(d, i, statuses) ==
  exceptions[d] # Absent /\ exceptions[d].workflow = i /\ exceptions[d].status \in statuses

\* Staff who leave staff_exception resolve what is open; there must be a record.
LeavesException(q) ==
  IF q.edge = "staff_exception" /\ q.actor = "staff"
  THEN /\ \E d \in Dedupes : IsException(d, q.workflow, {"open", "resolved"})
       /\ exceptions' = [d \in Dedupes |->
            IF IsException(d, q.workflow, {"open"})
            THEN [exceptions[d] EXCEPT !.status = "resolved"] ELSE exceptions[d]]
  ELSE UNCHANGED exceptions

Commit(r) ==
  /\ advancing[r] # Absent
  /\ \/ MayMove(advancing[r]) /\ Moved(advancing[r], StatusAt(advancing[r].to))
     \/ Replays(advancing[r]) /\ UNCHANGED <<instance, actions>>
  /\ LeavesException(advancing[r])
  /\ advancing' = [advancing EXCEPT ![r] = Absent]
  /\ UNCHANGED <<received, evidence>>

Refuse(r) ==
  /\ advancing[r] # Absent
  /\ advancing' = [advancing EXCEPT ![r] = Absent]
  /\ UNCHANGED <<instance, actions, exceptions, received, evidence>>

-----------------------------------------------------------------------------
(* civya_service_raise_workflow_exception, under the lock of the row.      *)

Raised(d, i) ==
  IF exceptions[d] = Absent
  THEN exceptions' = [exceptions EXCEPT ![d] = [workflow |-> i, status |-> "open"]]
  ELSE exceptions[d].workflow = i /\ UNCHANGED exceptions

\* The action is new: the workflow moves to staff_exception.
RaiseMoving(i, k, d, action, actor, expected) ==
  LET q == [workflow |-> i, action |-> action, to |-> "staff_exception", actor |-> actor,
            expected |-> expected, key |-> k, evidence |-> NoEvidence,
            edge |-> instance[i].state, reversing |-> FALSE]
  IN /\ MayAdvance(i, k, action, q.to, actor, NoEvidence)
     /\ MayMove(q) /\ Moved(q, "escalated")
     /\ Raised(d, i)

\* The action is a repetition: only an exception that is not there yet escalates.
RaiseRepeated(i, k, d, action, actor) ==
  /\ actions[k] # Absent
  /\ MayAdvance(i, k, action, "staff_exception", actor, NoEvidence)
  /\ exceptions[d] = Absent /\ Unfinished(i)
  /\ instance' = [instance EXCEPT ![i].status = "escalated"]
  /\ Raised(d, i) /\ UNCHANGED actions

Raise(i, k, d, action, actor, expected) ==
  /\ <<k, d>> \in Raises /\ actor # "resident"
  /\ expected \in 1 .. instance[i].version
  /\ \/ RaiseMoving(i, k, d, action, actor, expected)
     \/ RaiseRepeated(i, k, d, action, actor)
  /\ UNCHANGED <<received, evidence, advancing>>

WorkflowNext ==
  \/ \E i \in Workflows : Start(i)
  \/ \E e \in Events : ReceiveProof(e)
  \/ \E i \in Workflows, e \in Events, t \in 1 .. MaxObserved : RecordEvidence(i, e, t)
  \/ \E r \in Clients, i \in Workflows, k \in Keys, e \in Edges :
       \E actor \in e.actors, n \in 0 .. Len(evidence), v \in 1 .. instance[i].version :
         Advance(r, i, k, e.action, e.to, actor, n, v)
  \/ \E r \in Clients : Commit(r) \/ Refuse(r)
  \/ \E i \in Workflows, k \in Keys, d \in Dedupes, e \in Edges :
       \E actor \in e.actors, v \in 1 .. instance[i].version :
         e.to = "staff_exception" /\ Raise(i, k, d, e.action, actor, v)

WorkflowSpec == WorkflowInit /\ [][WorkflowNext]_workflowVars

-----------------------------------------------------------------------------
(* Properties.                                                             *)

ActionsOf(i) == {k \in Keys : actions[k] # Absent /\ actions[k].workflow = i}

Explained(i) ==
  /\ instance[i].version = Cardinality(ActionsOf(i)) + 1
  /\ {actions[k].sequence : k \in ActionsOf(i)} = 2 .. instance[i].version
  /\ \A k \in ActionsOf(i) :
       /\ Permitted(actions[k].from, actions[k].action, actions[k].to, actions[k].actor)
       /\ actions[k].sequence = 2 => actions[k].from = Initial
       /\ actions[k].sequence = instance[i].version => actions[k].to = instance[i].state
       /\ \A l \in ActionsOf(i) :
            actions[l].sequence = actions[k].sequence + 1 => actions[l].from = actions[k].to

\* The actions of a workflow, in the order of their sequence numbers, lead from the
\* initial state to the current one along edges their actors may take, however reads
\* and locks interleave: the actors are checked on the row that was read, the move is
\* made on the row that was locked.
ChronologyExplains ==
  \A i \in Workflows : instance[i].status # "absent" => Explained(i)

\* The action that brought a workflow to its state, and evidence of the outcome of that
\* state; where it came from another terminal state, evidence later than that one's.
ProvenBy(i, k) ==
  /\ actions[k].sequence = instance[i].version /\ actions[k].evidence \in DOMAIN evidence
  /\ Outcome[evidence[actions[k].evidence].event] = instance[i].state
  /\ actions[k].from \in TerminalStates =>
       \E l \in ActionsOf(i) :
         /\ actions[l].to = actions[k].from /\ actions[l].evidence \in DOMAIN evidence
         /\ IsLater(actions[k].evidence, actions[l].evidence)

\* A completed workflow is backed by evidence with the outcome of its state; where it
\* went from one terminal state to another, by evidence observed, recorded and received
\* after that of the first.
CompletionIsProven ==
  \A i \in Workflows : instance[i].status = "completed" =>
    \E k \in ActionsOf(i) : ProvenBy(i, k)

WorkflowInvariant == WorkflowTypeOK /\ ChronologyExplains /\ CompletionIsProven

\* A completed workflow is not reopened: it can only go from active to reversed.
CompletedIsFinal ==
  [][\A i \in Workflows : instance[i].status = "completed" =>
       \/ instance'[i] = instance[i]
       \/ /\ instance[i].state = "active" /\ instance'[i].state = "reversed"
          /\ instance'[i].status = "completed"]_workflowVars

\* A workflow that is escalated to staff has an open exception in their queue.  Raising
\* one does both in one transaction; but civya_service_advance_governed_workflow resolves
\* the open exceptions again when the staff action that resolved an earlier one is
\* repeated.
EscalatedIsOwned ==
  \A i \in Workflows : instance[i].status = "escalated" =>
    \E d \in Dedupes : IsException(d, i, {"open"})
=============================================================================
