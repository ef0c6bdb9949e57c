---------------------------- MODULE MCProcesses -----------------------------
(***************************************************************************)
(* What must eventually happen, for five parts that share nothing: a       *)
(* behaviour moves the workers on a store of one job, the requests for one *)
(* event of a provider, a handoff and the evidence for it, one reminder    *)
(* and two executions of its handler, none of which dies (a crash strands  *)
(* its execution, the run reminder_crash), or a call with audio items of   *)
(* the caller and small limits, so that each of them is reached.  The      *)
(* fairness of each part is that of its module.                            *)
(***************************************************************************)
EXTENDS WorkerRuntime, WebhookIntake, CallConversation, TLC

CONSTANTS w1, w2, t1, t2, t3, a, b, c1, v1, Nil

VARIABLES
  process,   \* the part that moves
  now, ops, granted, creating, hosted, handoff, log, links, visits, deliveries,
  inbox, inboxGrants,
  job, sends, sendGrants, reminders, running, sent, receipts, eligible, stopped, withdrawn

Posted == [id |-> "posted", source |-> "provider_webhook", verdict |-> "confirmed", revision |-> 1]
Reversed == [id |-> "reversed", source |-> "provider_webhook", verdict |-> "failed", revision |-> 2]

Payment == INSTANCE PaymentHandoff WITH
  events <- inbox, grants <- inboxGrants,
  Ops <- {"create"}, Owners <- {}, Tokens <- {}, Hashes <- {0}, ClaimTicks <- 1,
  MaxTime <- 0, LinkTime <- 2, Kills <- {"create"},
  Creates <- {c1}, Visits <- {v1}, Deliveries <- {a, b}, Evidence <- {Posted, Reversed}

Reminder == INSTANCE ReminderDelivery WITH
  ops <- sends, granted <- sendGrants, exec <- running,
  Jobs <- {"r1"}, Ops <- {"r1"}, Workers <- {w1, w2}, Owners <- {"owner"},
  Hashes <- {"request"}, Tokens <- {t1, t2}, ClaimTicks <- 1, MaxAttempts <- 2,
  Faults <- {"interrupt"}

reminderVars ==
  <<job, sends, sendGrants, reminders, running, sent, receipts, eligible, stopped, withdrawn>>
paymentVars ==
  <<now, ops, granted, creating, hosted, handoff, log, links, visits, deliveries,
    inbox, inboxGrants>>
processVars == <<allVars, intakeVars, paymentVars, reminderVars, callVars, process>>

ProcessesInit ==
  /\ RuntimeInit /\ IntakeInit /\ Payment!PaymentInit /\ Reminder!ReminderInit /\ CallInit
  /\ process \in {"worker", "intake", "payment", "reminder", "call"}
  /\ process # "call" => call = NewCall("renderer")

Worker(A) == process = "worker" /\ A
Intake(A) == process = "intake" /\ A
Paying(A) == process = "payment" /\ A
Reminding(A) == process = "reminder" /\ A
Calling(A) == process = "call" /\ A

\* Bound of the reminder: one receipt, and STOP or a revocation but not both.
OneChange == Cardinality(receipts["r1"]) <= 1 /\ (stopped => eligible)

\* Bound of the call: a failure is reported again, or there is a second item.
OneLeft == repeats > 0 => items[MaxItems] = "quiet"

\* A step of one part, where the others stand still.
ProcessesNext ==
  /\ UNCHANGED process
  /\ \/ /\ Worker(RuntimeNext)
        /\ UNCHANGED <<intakeVars, paymentVars, reminderVars, callVars>>
     \/ /\ Intake(IntakeNext)
        /\ UNCHANGED <<allVars, paymentVars, reminderVars, callVars>>
     \/ /\ Paying(Payment!PaymentNext)
        /\ UNCHANGED <<allVars, intakeVars, reminderVars, callVars>>
     \/ /\ Reminding(Reminder!ReminderNext /\ OneChange')
        /\ UNCHANGED <<allVars, intakeVars, paymentVars, callVars>>
     \/ /\ Calling(CallNext /\ OneLeft')
        /\ UNCHANGED <<allVars, intakeVars, paymentVars, reminderVars>>

WorkerFairness ==
  /\ WF_allVars(Worker(Pass))
  /\ \A w \in Workers :
       /\ WF_allVars(Worker(\E e \in exec[w] : TimeOut(w, e)))
       /\ WF_allVars(Worker(\E r \in net, flag \in BOOLEAN :
                           r.worker = w /\ (Deliver(r, flag) \/ GiveUp(r, flag))))
       /\ WF_allVars(Worker(Poll(w, {}, TRUE)))
       /\ \A j \in Jobs :
            WF_allVars(Worker(\E batch \in Batches : j \in batch /\ Poll(w, batch, TRUE)))

ProviderFairness ==
  /\ \A e \in Events :
       /\ WF_intakeVars(Intake(\E r \in Requests : Receive(r, e)))
       /\ WF_intakeVars(Intake(ReceiveExhausted(e)))
       /\ WF_intakeVars(Intake(ReceiveDuplicate(e)))
  /\ \A r \in Requests :
       WF_intakeVars(Intake(Apply(r) \/ ApplyFails(r) \/ Finish(r) \/ FinishFailing(r)))
  /\ WF_intakeVars(Intake(IntakeTick))

EvidenceFairness ==
  /\ \A d \in {a, b} : WF_paymentVars(Paying(Payment!Deliver(d)))
  /\ \A e \in {Posted, Reversed} :
       SF_paymentVars(Paying(inbox[e.id].state # "processed"
                             /\ \E d \in {a, b} : Payment!DeliveryFind(d, e)))

ReminderFairness ==
  /\ \A x \in {w1, w2} :
       /\ WF_reminderVars(Reminding(Reminder!Handle(x)))
       /\ WF_reminderVars(Reminding(Reminder!StartHandler(x, "r1")))
  /\ WF_reminderVars(Reminding(Reminder!Dispatch("r1")))
  /\ WF_reminderVars(Reminding(Reminder!LapseJob("r1")))
  /\ WF_reminderVars(Reminding(Reminder!DeadLetter("r1")))
  /\ WF_reminderVars(Reminding(Reminder!LeaseTick))

ConversationFairness ==
  /\ WF_callVars(Calling(ReceiveEvent))
  /\ WF_callVars(Calling(TurnStarts)) /\ WF_callVars(Calling(TurnAnswered))
  /\ WF_callVars(Calling(\E turn \in lookups, outcome \in LookupOutcomes :
                      LookupReturns(turn, outcome)))
  /\ WF_callVars(Calling(\E succeeded \in BOOLEAN : EffectReturns(succeeded)))
  /\ WF_callVars(Calling(\E completed \in BOOLEAN : Generated(completed, "none")))
  /\ WF_callVars(Calling(AudioDrains))

ProcessesSpec ==
  /\ ProcessesInit /\ [][ProcessesNext]_processVars
  /\ WorkerFairness /\ ProviderFairness /\ EvidenceFairness /\ ReminderFairness
  /\ ConversationFairness

\* What each part has begun and must bring to its end: the job, the event, the
\* evidence that was taken in, the reminder that is scheduled or being sent.  A
\* receipt that tells neither acceptance, failure nor delivery settles the operation
\* and not the rows, and nothing may mark them any more: it counts as an end here.
Begun ==
  CASE process = "worker" ->
         \E j \in Jobs : jobs[j].state \in {"queued", "leased", "retry_wait"}
    [] process = "intake" -> \E e \in Events : events[e].state # "absent"
    [] process = "payment" -> \E e \in {Posted, Reversed} : inbox[e.id].state = "received"
    [] process = "reminder" ->
         sends["r1"].state = "in_flight" \/ reminders["r1"].status = "scheduled"
    [] process = "call" -> FALSE

Ended ==
  CASE process = "worker" -> \A j \in Jobs : jobs[j].state \in Settled
    [] process = "intake" -> \A e \in Events : events[e].state \in Terminal
    [] process = "payment" -> \A e \in {Posted, Reversed} : inbox[e.id].state # "received"
    [] process = "reminder" ->
         reminders["r1"].status \in Reminder!Final \/ "other" \in receipts["r1"]
    [] process = "call" -> TRUE

\* Whatever crashes, hangs or gets lost, every job and every event the provider keeps
\* sending settles; all evidence is processed although the handlers that race for the
\* row version make each other fail; a reminder comes to an outcome.
WhatBeginsEnds == Begun ~> Ended

\* A hanging handler does not keep its worker (either: they are alike) from polling
\* again, although poll() awaits the whole batch; a processed event is acknowledged.
NobodyIsHeldUp ==
  (CASE process = "worker" -> exec[w1] # {}
     [] process = "intake" -> \E e \in Events : events[e].state = "processed"
     [] OTHER -> FALSE)
  ~> (CASE process = "worker" -> exec[w1] = {}
        [] OTHER -> \A e \in Events : events[e].state = "processed" => e \in acked)

MCTypeOf == [k \in Keys |-> "deliver"]
MCCapabilities == [w \in Workers |-> {"deliver"}]
=============================================================================
