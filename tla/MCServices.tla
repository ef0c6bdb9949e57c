----------------------------- MODULE MCServices -----------------------------
(***************************************************************************)
(* What a resident and the providers do beside each other: a behaviour     *)
(* moves one part.  A payment is handed to a hosted session: a posting,    *)
(* its later reversal and an inconclusive status by webhook and            *)
(* reconciliation, after one request for it; or several requests at        *)
(* several instants.  The resident speaks with the web page, in production *)
(* mode with two turns; a direct mode, where the provider answers and      *)
(* calls tools by itself, has DirectTurns.  The workflow is the end of the *)
(* payment plan, where the completion and the reversal wait for evidence   *)
(* and failures go to staff.  Operations leave the system (two of them,    *)
(* under both protocols, from two callers).  A reminder has two executions *)
(* of its handler.                                                         *)
(***************************************************************************)
EXTENDS PaymentHandoff, VoiceClient, Workflow, ReminderDelivery, TLC

CONSTANTS a, b, p1, p2, p3, t1, t2, t3, t4, DirectTurns

ASSUME ReminderConstants

VARIABLE service   \* the one that moves

\* A payment and a reminder have rows of one ledger, opVars.
payVars ==
  <<now, creating, hosted, handoff, log, links, visits, deliveries, events, grants>>
smsVars == <<job, reminders, exec, sent, receipts, eligible, stopped, withdrawn>>
servicesVars == <<voiceVars, workflowVars, payVars, smsVars, opVars, service>>

ServicesInit ==
  /\ PaymentInit /\ VoiceInit /\ WorkflowInit /\ ReminderInit
  /\ service \in {"evidence", "requests", "voice", "workflow", "operations", "reminder"}
  /\ service # "voice" => mode = "authoritative"

\* One request, which nothing kills, and all that follows it; or the requests and
\* at most one visit.
EvidenceStep ==
  /\ PaymentNext /\ UNCHANGED now
  /\ creating' # creating =>
       /\ deliveries = [d \in Deliveries |-> NoDelivery] /\ handoff.version <= 1
       /\ creating'["first"] # NoCreate /\ creating'["second"] = NoCreate
RequestsStep ==
  /\ PaymentNext /\ UNCHANGED deliveries
  /\ Cardinality({v \in Visits : visits'[v] # NoVisit}) <= 1

Accounted(v) == v.paused \/ v.resuming \/ v.resumed

\* One turn where an account is asked for; in a direct mode no reconnect either.
VoiceStep ==
  /\ VoiceNext
  /\ Direct => Cardinality(voice'.used) <= DirectTurns
  /\ Accounted(voice') => Cardinality(voice'.used) <= 1
  /\ Accounted(voice') /\ Direct => tries' = 0 /\ ~voice'.timer

\* Tokens are alike: they are taken in this order.  Two digests differ as well as three.
TakenInOrder == {g.token : g \in granted} \in {{}, {t1}, {t1, t2}, {t1, t2, t3}, Tokens}

OperationsStep == OpNext /\ TakenInOrder' /\ \A o \in Ops : ops'[o].sha # 2

\* Two kinds of receipts at most; STOP or a revocation, but not both.
ReminderStep ==
  /\ ReminderNext /\ TakenInOrder'
  /\ Cardinality(receipts'["remind"]) <= 2 /\ (stopped' => eligible')

\* A step of one service, where the others stand still.
ServicesNext ==
  /\ UNCHANGED service
  /\ \/ /\ service = "voice" /\ VoiceStep
        /\ UNCHANGED <<workflowVars, payVars, smsVars, opVars>>
     \/ /\ service = "workflow" /\ WorkflowNext
        /\ UNCHANGED <<voiceVars, payVars, smsVars, opVars>>
     \/ /\ \/ service = "evidence" /\ EvidenceStep
           \/ service = "requests" /\ RequestsStep
        /\ UNCHANGED <<voiceVars, workflowVars, smsVars>>
     \/ /\ service = "operations" /\ OperationsStep
        /\ UNCHANGED <<voiceVars, workflowVars, payVars, smsVars>>
     \/ /\ service = "reminder" /\ ReminderStep
        /\ UNCHANGED <<voiceVars, workflowVars, payVars>>

ServicesSpec == ServicesInit /\ [][ServicesNext]_servicesVars

MCEvidence ==
  {[id |-> "posted", source |-> "provider_webhook", verdict |-> "confirmed", revision |-> 1],
   [id |-> "reversed", source |-> "provider_webhook", verdict |-> "failed", revision |-> 2],
   [id |-> "polled", source |-> "reconciliation", verdict |-> "pending", revision |-> 1]}

Edge(from, action, to, actor) == [from |-> from, action |-> action, to |-> to, actors |-> {actor}]

PaymentPlan ==
  {Edge("confirming", "provider.failed", "staff_exception", "provider"),
   Edge("staff_exception", "exception.resume_reconciliation", "confirming", "staff"),
   Edge("confirming", "plan.confirm", "active", "system"),
   Edge("active", "plan.reverse", "reversed", "system")}

PlanOutcome == [e \in {"confirmation", "reversal"} |->
                  IF e = "reversal" THEN "reversed" ELSE "active"]
MCRaises == {p1, p2} \X Dedupes   \* two keys at most are those of raises

MCSymmetry == Permutations({a, b}) \cup Permutations({p1, p2})
=============================================================================
