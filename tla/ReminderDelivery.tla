-------------------------- MODULE ReminderDelivery --------------------------
(***************************************************************************)
(* An SMS reminder from its scheduling to the carrier's last receipt: the  *)
(* rows public.reminders and public.communication_deliveries, the outbox   *)
(* event that becomes a job, the handler of that job                       *)
(* (createReminderDeliveryHandler), the external operation that fences the *)
(* send, and the signed receipts.                                          *)
(*                                                                         *)
(* A reminder names its delivery, its outbox event, its job and its        *)
(* operation: Jobs is part of Ops.  The job follows JobLifecycle; its      *)
(* holder is one execution of the handler, so one that lost its job (by a  *)
(* timeout, a lost lease, a shutdown) runs on, as the code's does.  Every  *)
(* step of an execution is one RPC or the call of the carrier.  All        *)
(* reminders go to one contact of one resident, and all executions have    *)
(* one claim owner: nothing may depend on owners being different.          *)
(***************************************************************************)
EXTENDS ExternalOperations, JobLifecycle, FiniteSets

CONSTANT Faults   \* which of "crash", "interrupt", "throw", "defer" happen

\* An operation for each job, and somebody to do it.
ReminderConstants ==
  /\ Jobs \subseteq Ops /\ MaxAttempts \in Nat /\ None \notin Workers
  /\ Owners # {} /\ Hashes # {}

VARIABLES
  reminders,  \* status of the reminder and its delivery, outbox event, contact
  exec,       \* executions of the handler
  sent,       \* how many messages the carrier took for a reminder
  receipts,   \* receipts applied to a delivery (communication_delivery_events)
  eligible,   \* entitlement, consent, template and phone number are in order
  stopped,    \* private.communication_suppressions holds the contact
  withdrawn   \* history: reminders withdrawn while no execution had them in hand

reminderVars == <<reminders, receipts, eligible, stopped, withdrawn>>
rdVars == <<job, ops, granted, reminders, exec, sent, receipts, eligible, stopped, withdrawn>>

Owner == CHOOSE w \in Owners : TRUE
Sha == CHOOSE h \in Hashes : TRUE

Pending == {"scheduled", "queued"}
Final == {"accepted", "delivered", "failed", "failed_unknown", "cancelled", "suppressed"}
ReceiptKinds == {"accepted", "delivered", "failed", "other"}   \* "other": canceled, read, ...
Outcomes == Proven \cup {"failed_unknown"}
MarkAs == [succeeded |-> "accepted", failed_terminal |-> "failed",
           failed_unknown |-> "failed_unknown"]

NoReminder == [status |-> "none", delivery |-> "none", contact |-> FALSE, outbox |-> "none"]
Reminder ==
  [status : {"none"} \cup Pending \cup Final,
   delivery : {"none", "planned", "queued"} \cup Final,
   contact : BOOLEAN,      \* contact_reference_digest is set
   outbox : {"none", "pending", "enqueued", "failed"}]

Asleep == [phase |-> "idle", rem |-> Nil, token |-> Nil, outcome |-> "none", caught |-> FALSE]
Execution ==
  [phase : {"idle", "prepare", "claim", "send", "finish", "mark", "done", "retry"},
   rem : Jobs \cup {Nil},
   token : Tokens \cup {Nil},
   outcome : {"none"} \cup Outcomes,  \* to finish the operation or mark the rows with
   caught : BOOLEAN]                  \* inside the try whose catch finishes as unknown

ReminderTypeOK ==
  /\ OpTypeOK
  /\ job \in [Jobs -> [phase : {"absent", "waiting", "held", "settled"},
                       holder : Workers \cup {None}, attempt : 0 .. MaxAttempts]]
  /\ reminders \in [Jobs -> Reminder]
  /\ exec \in [Workers -> Execution]
  /\ sent \in [Jobs -> Nat]
  /\ receipts \in [Jobs -> SUBSET ReceiptKinds]
  /\ eligible \in BOOLEAN /\ stopped \in BOOLEAN
  /\ withdrawn \subseteq Jobs

ReminderInit ==
  /\ OpInit /\ LifecycleInit
  /\ reminders = [r \in Jobs |-> NoReminder]
  /\ exec = [w \in Workers |-> Asleep]
  /\ sent = [r \in Jobs |-> 0]
  /\ receipts = [r \in Jobs |-> {}]
  /\ eligible = TRUE /\ stopped = FALSE
  /\ withdrawn = {}

-----------------------------------------------------------------------------
(* The resident and the carrier.                                           *)

\* Statuses of a reminder row and its delivery row move together.
With(r, status) == [reminders[r] EXCEPT !.status = status, !.delivery = status]

Schedule(r) ==
  /\ reminders[r].status = "none" /\ eligible
  /\ reminders' = [reminders EXCEPT ![r] =
       [@ EXCEPT !.status = "scheduled", !.delivery = "planned", !.outbox = "pending"]]
  /\ UNCHANGED <<job, ops, granted, exec, sent, receipts, eligible, stopped, withdrawn>>

\* dispatch_outbox: the event becomes the job, in one transaction.
Dispatch(r) ==
  /\ reminders[r].outbox = "pending"
  /\ reminders' = [reminders EXCEPT ![r].outbox = "enqueued"]
  /\ job' = [job EXCEPT ![r] = Waiting(0)]
  /\ UNCHANGED <<ops, granted, exec, sent, receipts, eligible, stopped, withdrawn>>

\* Those of a set of reminders that no execution has prepared and not returned.
OutOfHand(S) ==
  {r \in S : sent[r] = 0 /\ \A w \in Workers :
     exec[w].rem = r => exec[w].phase \notin {"claim", "send", "finish", "mark"}}

\* A reminder that is not to be sent, and its delivery unless that has an outcome.
StoodDown(r, status) ==
  [reminders[r] EXCEPT !.status = status,
                       !.delivery = IF @ \in {"planned", "queued"} THEN status ELSE @]

\* Mutant: the delivery row is left behind.
CancelReminderOnly(r) ==
  /\ reminders[r].status \in Pending /\ eligible
  /\ reminders' = [reminders EXCEPT ![r] =
       [@ EXCEPT !.status = "cancelled", !.outbox = IF @ = "pending" THEN "failed" ELSE @]]
  /\ withdrawn' = withdrawn \cup OutOfHand({r})
  /\ UNCHANGED <<job, ops, granted, exec, sent, receipts, eligible, stopped>>

\* cancel_entitled_reminder, when it answers cancelled.
Cancel(r) ==
  /\ reminders[r].status \in Pending /\ eligible
  /\ reminders' = [reminders EXCEPT ![r] =
       [StoodDown(r, "cancelled") EXCEPT !.outbox = IF @ = "pending" THEN "failed" ELSE @]]
  /\ withdrawn' = withdrawn \cup OutOfHand({r})
  /\ UNCHANGED <<job, ops, granted, exec, sent, receipts, eligible, stopped>>

\* suppress_twilio_contact (STOP): the contact is known by the deliveries that
\* were prepared for it; without one, nothing is recorded.
OptOut ==
  /\ \E r \in Jobs : reminders[r].contact
  /\ stopped' = TRUE
  /\ reminders' = [r \in Jobs |->
       IF reminders[r].contact
       THEN [reminders[r] EXCEPT
               !.status = IF @ \in Pending THEN "suppressed" ELSE @,
               !.delivery = IF @ \in {"planned", "queued"} THEN "suppressed" ELSE @]
       ELSE reminders[r]]
  /\ withdrawn' = withdrawn \cup OutOfHand(Jobs)
  /\ UNCHANGED <<job, ops, granted, exec, sent, receipts, eligible>>

\* Entitlement, proof or consent ends, or the template is withdrawn.
Revoke ==
  /\ eligible /\ eligible' = FALSE
  /\ withdrawn' = withdrawn \cup OutOfHand(Jobs)
  /\ UNCHANGED <<job, ops, granted, reminders, exec, sent, receipts, stopped>>

\* apply_twilio_delivery_receipt, for an event id not seen before: "delivered"
\* beats "failed", which beats "accepted"; any other status keeps what is known.
AfterReceipt(r, kind) ==
  LET known == reminders[r].delivery
      reported == {kind, known}
  IN IF kind = "other" THEN known
     ELSE IF "delivered" \in reported THEN "delivered"
     ELSE IF "failed" \in reported THEN "failed" ELSE "accepted"

\* An operation without an outcome is settled by every receipt.  A kind stands for
\* several statuses, each an event of its own, so it may come again.
ReceiveReceipt(r, kind) ==
  LET next == AfterReceipt(r, kind) IN
  /\ sent[r] > 0
  /\ receipts' = [receipts EXCEPT ![r] = @ \cup {kind}]
  /\ reminders' = [reminders EXCEPT ![r] = With(r, next)]
  /\ \/ Receipt(r, IF next = "failed" THEN "failed_terminal" ELSE "succeeded")
     \/ ops[r].state \notin {"in_flight", "failed_unknown"} /\ UNCHANGED <<ops, granted>>
  /\ UNCHANGED <<job, exec, sent, eligible, stopped, withdrawn>>

-----------------------------------------------------------------------------
(* The job around the handler.                                             *)

Rem(w) == exec[w].rem

\* Mutant: attempts are not bounded.
StartUnbounded(w, r) ==
  /\ exec[w].phase = "idle"
  /\ job[r].phase = "waiting"
  /\ job' = [job EXCEPT ![r] = Held(w, @.attempt + 1)]
  /\ exec' = [exec EXCEPT ![w] = [Asleep EXCEPT !.phase = "prepare", !.rem = r]]
  /\ UNCHANGED <<ops, granted, sent, reminderVars>>

StartHandler(w, r) ==
  /\ exec[w].phase = "idle"
  /\ job[r].phase = "waiting"
  /\ Held(w, job[r].attempt + 1) \in Successors(r)
  /\ job' = [job EXCEPT ![r] = Held(w, @.attempt + 1)]
  /\ exec' = [exec EXCEPT ![w] = [Asleep EXCEPT !.phase = "prepare", !.rem = r]]
  /\ UNCHANGED <<ops, granted, sent, reminderVars>>

\* The job is completed, or failed as retryable, unless the execution lost it.
Return(w) ==
  LET r == Rem(w) IN
  /\ exec[w].phase \in {"done", "retry"}
  /\ exec' = [exec EXCEPT ![w] = Asleep]
  /\ job' = IF job[r].holder # w THEN job
            ELSE [job EXCEPT ![r] =
                    IF exec[w].phase = "retry" /\ @.attempt < MaxAttempts
                    THEN Waiting(@.attempt) ELSE Over(@.attempt)]
  /\ UNCHANGED <<ops, granted, sent, reminderVars>>

Executes(w, r) == exec[w].phase # "idle" /\ exec[w].rem = r

\* The lease of a dead worker runs out; or a live one is interrupted (timeout,
\* failed heartbeat, shutdown) and its job taken back while it runs on.
LapseJob(r) ==
  /\ job[r].phase = "held" /\ ~Executes(job[r].holder, r)
  /\ job' = [job EXCEPT ![r] = Waiting(@.attempt)]
  /\ UNCHANGED <<ops, granted, exec, sent, reminderVars>>

Interrupt(r) ==
  /\ "interrupt" \in Faults
  /\ job[r].phase = "held" /\ Executes(job[r].holder, r)
  /\ job' = [job EXCEPT ![r] = Waiting(@.attempt)]
  /\ UNCHANGED <<ops, granted, exec, sent, reminderVars>>

\* The sweep of a job without attempts left.
DeadLetter(r) ==
  /\ job[r].phase = "waiting" /\ job[r].attempt = MaxAttempts
  /\ job' = [job EXCEPT ![r] = Over(@.attempt)]
  /\ UNCHANGED <<ops, granted, exec, sent, reminderVars>>

Crash(w) ==
  /\ "crash" \in Faults
  /\ exec[w].phase # "idle"
  /\ exec' = [exec EXCEPT ![w] = Asleep]
  /\ UNCHANGED <<job, ops, granted, sent, reminderVars>>

-----------------------------------------------------------------------------
(* The handler.                                                            *)

Step(w, phase) == exec' = [exec EXCEPT ![w].phase = phase]
Settling(w, phase, outcome, caught) ==
  exec' = [exec EXCEPT ![w] = [@ EXCEPT !.phase = phase, !.outcome = outcome, !.caught = caught]]

\* prepare_reminder_delivery.
PrepareTerminal(w) ==
  /\ exec[w].phase = "prepare" /\ reminders[Rem(w)].status \in Final
  /\ Step(w, "done")
  /\ UNCHANGED <<job, ops, granted, sent, reminderVars>>

\* Mutant: nothing is recorded of a suppression.
PrepareSuppressedSilently(w) ==
  /\ exec[w].phase = "prepare" /\ reminders[Rem(w)].status \in Pending
  /\ ~eligible \/ stopped
  /\ Step(w, "done")
  /\ UNCHANGED <<job, ops, granted, sent, reminderVars>>

PrepareSuppressed(w) ==
  LET r == Rem(w) IN
  /\ exec[w].phase = "prepare" /\ reminders[r].status \in Pending
  /\ ~eligible \/ stopped
  /\ reminders' = [reminders EXCEPT ![r] = StoodDown(r, "suppressed")]
  /\ Step(w, "done")
  /\ UNCHANGED <<job, ops, granted, sent, receipts, eligible, stopped, withdrawn>>

PrepareDeferred(w) ==
  /\ "defer" \in Faults
  /\ exec[w].phase = "prepare" /\ reminders[Rem(w)].status \in Pending
  /\ eligible /\ ~stopped
  /\ Step(w, "retry")
  /\ UNCHANGED <<job, ops, granted, sent, reminderVars>>

\* Mutant: a final status is not looked at.
PrepareReadyFinal(w) ==
  LET r == Rem(w) IN
  /\ exec[w].phase = "prepare" /\ eligible /\ ~stopped
  /\ reminders' = [reminders EXCEPT ![r] = [With(r, "queued") EXCEPT !.contact = TRUE]]
  /\ Step(w, "claim")
  /\ UNCHANGED <<job, ops, granted, sent, receipts, eligible, stopped, withdrawn>>

PrepareReady(w) ==
  LET r == Rem(w) IN
  /\ exec[w].phase = "prepare" /\ reminders[r].status \in Pending
  /\ eligible /\ ~stopped
  /\ reminders' = [reminders EXCEPT ![r] = [With(r, "queued") EXCEPT !.contact = TRUE]]
  /\ Step(w, "claim")
  /\ UNCHANGED <<job, ops, granted, sent, receipts, eligible, stopped, withdrawn>>

\* claim_external_operation and the branches on its answer.
ClaimAcquired(w) ==
  /\ exec[w].phase = "claim"
  /\ \E t \in Tokens :
       /\ Acquire(Rem(w), Sha, Owner, t)
       /\ exec' = [exec EXCEPT ![w] = [@ EXCEPT !.phase = "send", !.token = t]]
  /\ UNCHANGED <<job, sent, reminderVars>>

ClaimBusy(w) ==
  /\ exec[w].phase = "claim" /\ ClaimIsBusy(Rem(w))
  /\ Step(w, "done")
  /\ UNCHANGED <<job, ops, granted, sent, reminderVars>>

ClaimAbandoned(w) ==
  /\ exec[w].phase = "claim"
  /\ Abandon(Rem(w), Sha)
  /\ Settling(w, "mark", "failed_unknown", FALSE)
  /\ UNCHANGED <<job, sent, reminderVars>>

ClaimSettled(w) ==
  /\ exec[w].phase = "claim" /\ ops[Rem(w)].state \in Outcomes
  /\ Settling(w, "mark", ops[Rem(w)].state, FALSE)
  /\ UNCHANGED <<job, ops, granted, sent, reminderVars>>

\* provider.send.  The message goes out and the answer says so; it is refused,
\* by an answer or before the call; or no answer tells whether it went out.
SendAccepted(w) ==
  /\ exec[w].phase = "send"
  /\ sent' = [sent EXCEPT ![Rem(w)] = @ + 1]
  /\ Settling(w, "finish", "succeeded", TRUE)
  /\ UNCHANGED <<job, ops, granted, reminderVars>>

SendRefused(w) ==
  /\ exec[w].phase = "send"
  /\ \E caught \in BOOLEAN : Settling(w, "finish", "failed_terminal", caught)
  /\ UNCHANGED <<job, ops, granted, sent, reminderVars>>

SendUnknown(w) ==
  /\ exec[w].phase = "send" /\ "throw" \in Faults
  /\ \E n \in {0, 1} : sent' = [sent EXCEPT ![Rem(w)] = @ + n]
  /\ Settling(w, "finish", "failed_unknown", FALSE)
  /\ UNCHANGED <<job, ops, granted, reminderVars>>

\* An RPC that throws leads to the catch, which finishes as unknown, or else out
\* of the handler: an unclassified error, which is retried.
Thrown(w) ==
  IF exec[w].caught THEN Settling(w, "finish", "failed_unknown", FALSE) ELSE Step(w, "retry")

PrepareOrClaimThrows(w) ==
  /\ "throw" \in Faults /\ exec[w].phase \in {"prepare", "claim"}
  /\ Step(w, "retry")
  /\ UNCHANGED <<job, ops, granted, sent, reminderVars>>

\* Mutant: a claim that ran out before its finish is not followed up.
FinishOperationDropped(w) ==
  LET r == Rem(w)
      outcome == exec[w].outcome
  IN /\ exec[w].phase = "finish"
     /\ \/ /\ FinishClaim(r, Owner, exec[w].token, outcome)
           /\ IF ops[r].lease > 0 THEN Settling(w, "mark", outcome, exec[w].caught)
                                  ELSE Step(w, "done")
        \/ /\ ~HoldsOperation(r, Owner, exec[w].token)
           /\ UNCHANGED <<ops, granted>>
           /\ Settling(w, "mark", ops[r].state, FALSE)
     /\ UNCHANGED <<job, sent, reminderVars>>

\* finish_external_operation_claim.  An execution that did not finish it marks
\* the rows by the state it finds (handleLostClaim), outside the try.
FinishOperation(w) ==
  LET r == Rem(w)
      outcome == exec[w].outcome
  IN /\ exec[w].phase = "finish"
     /\ \/ /\ FinishClaim(r, Owner, exec[w].token, outcome)
           /\ IF ops[r].lease > 0 THEN Settling(w, "mark", outcome, exec[w].caught)
                                  ELSE Settling(w, "mark", "failed_unknown", FALSE)
        \/ /\ ~HoldsOperation(r, Owner, exec[w].token)
           /\ UNCHANGED <<ops, granted>>
           /\ Settling(w, "mark", ops[r].state, FALSE)
     /\ UNCHANGED <<job, sent, reminderVars>>

FinishThrows(w) ==
  LET r == Rem(w) IN
  /\ "throw" \in Faults /\ exec[w].phase = "finish"
  /\ \/ UNCHANGED <<ops, granted>>
     \/ FinishClaim(r, Owner, exec[w].token, exec[w].outcome)
  /\ Thrown(w)
  /\ UNCHANGED <<job, sent, reminderVars>>

\* Mutant: any outcome is taken.
ProvesAny(state, outcome) == state \in Outcomes

\* mark_reminder_delivery_outcome: the operation's state must prove the outcome,
\* and a delivered reminder stays delivered.
Proves(state, outcome) ==
  IF outcome = "failed_unknown" THEN state \in {"in_flight", "failed_unknown"}
                                ELSE state = outcome

\* Mutant: a delivered reminder is not protected.
MarkedDelivered(r, outcome) ==
  [reminders EXCEPT ![r] = With(r, MarkAs[outcome])]

Marked(r, outcome) ==
  IF reminders[r].status = "delivered" THEN reminders
  ELSE [reminders EXCEPT ![r] = With(r, MarkAs[outcome])]

MarkOutcome(w) ==
  LET r == Rem(w) IN
  /\ exec[w].phase = "mark" /\ Proves(ops[r].state, exec[w].outcome)
  /\ reminders' = Marked(r, exec[w].outcome)
  /\ Step(w, "done")
  /\ UNCHANGED <<job, ops, granted, sent, receipts, eligible, stopped, withdrawn>>

MarkThrows(w) ==
  LET r == Rem(w)
      proven == Proves(ops[r].state, exec[w].outcome)
  IN /\ exec[w].phase = "mark"
     /\ ~proven \/ "throw" \in Faults
     /\ \/ UNCHANGED reminders
        \/ proven /\ reminders' = Marked(r, exec[w].outcome)
     /\ Thrown(w)
     /\ UNCHANGED <<job, ops, granted, sent, receipts, eligible, stopped, withdrawn>>

Handle(w) ==
  \/ PrepareTerminal(w) \/ PrepareSuppressed(w) \/ PrepareDeferred(w) \/ PrepareReady(w)
  \/ ClaimAcquired(w) \/ ClaimBusy(w) \/ ClaimAbandoned(w) \/ ClaimSettled(w)
  \/ PrepareOrClaimThrows(w)
  \/ SendAccepted(w) \/ SendRefused(w) \/ SendUnknown(w)
  \/ FinishOperation(w) \/ FinishThrows(w)
  \/ MarkOutcome(w) \/ MarkThrows(w)
  \/ Return(w)

LeaseTick == ClaimTick /\ UNCHANGED <<job, exec, sent, reminderVars>>

ReminderNext ==
  \/ \E r \in Jobs : Schedule(r) \/ Dispatch(r) \/ Cancel(r)
  \/ OptOut \/ Revoke
  \/ \E r \in Jobs, kind \in ReceiptKinds : ReceiveReceipt(r, kind)
  \/ \E r \in Jobs : LapseJob(r) \/ Interrupt(r) \/ DeadLetter(r)
  \/ \E w \in Workers, r \in Jobs : StartHandler(w, r)
  \/ \E w \in Workers : Handle(w) \/ Crash(w)
  \/ LeaseTick

ReminderSpec == ReminderInit /\ [][ReminderNext]_rdVars

\* Running executions go on, waiting jobs are taken, leases run out, and the
\* outbox is dispatched (by a job that something outside the repository enqueues).
ReminderFairness ==
  /\ \A w \in Workers :
       WF_rdVars(Handle(w)) /\ WF_rdVars(\E r \in Jobs : StartHandler(w, r))
  /\ \A r \in Jobs :
       WF_rdVars(Dispatch(r)) /\ WF_rdVars(LapseJob(r)) /\ WF_rdVars(DeadLetter(r))
  /\ WF_rdVars(LeaseTick)

FairReminderSpec == ReminderSpec /\ ReminderFairness

-----------------------------------------------------------------------------
\* However often the job is retried, its lease lost or its execution orphaned,
\* the carrier is asked for the message at most once.
AtMostOneMessage == \A r \in Jobs : sent[r] <= 1

\* The reminder row and its delivery row, updated by six functions with guards
\* of their own, never disagree.
RowsAgree ==
  \A r \in Jobs :
    reminders[r].delivery =
      IF reminders[r].status = "scheduled" THEN "planned" ELSE reminders[r].status

\* "Only a valid signed webhook can advance provider acceptance to delivered
\* evidence" (supabase/README.md), and no late outcome takes it back.
DeliveredIffReceipt ==
  \A r \in Jobs : reminders[r].status = "delivered" <=> "delivered" \in receipts[r]

\* An outcome shown to the resident is backed: accepted by a message that is
\* out, failed by a refusal or a receipt, unknown by an operation that nobody settled
\* but for a receipt that tells neither acceptance, failure nor delivery.
OutcomeIsBacked ==
  \A r \in Jobs :
    LET status == reminders[r].status IN
    /\ status = "accepted" => ops[r].state = "succeeded" /\ sent[r] = 1
    /\ status = "failed" => ops[r].state = "failed_terminal" \/ "failed" \in receipts[r]
    /\ status = "failed_unknown" =>
         \/ ops[r].state = "failed_unknown" /\ receipts[r] = {}
         \/ ops[r].state = "succeeded" /\ receipts[r] = {"other"}

\* "Replayed and out-of-order receipts are idempotent" (supabase/README.md): a
\* failure that the carrier reported, and no delivery, is what the rows show, also
\* when its receipt overtakes the worker's own record of the send.
FailureIsKept ==
  \A r \in Jobs : "failed" \in receipts[r] /\ "delivered" \notin receipts[r]
                  => reminders[r].status = "failed"

\* The rows are well-formed, agree, and tell what happened.
ReminderInvariant == ReminderTypeOK /\ RowsAgree /\ DeliveredIffReceipt /\ OutcomeIsBacked

\* A reminder that is cancelled, opted out of or no longer entitled while no
\* execution has it in hand is never sent, though its job, its outbox event and
\* older executions live on.
WithdrawnIsNeverSent == \A r \in withdrawn : sent[r] = 0

\* One message at most, and none that is not wanted any more.
OneWantedMessage == AtMostOneMessage /\ WithdrawnIsNeverSent

\* A reminder whose send was begun comes to an outcome: what a crash leaves
\* ambiguous is marked failed_unknown (supabase/README.md).
BegunSendResolves ==
  \A r \in Jobs : ops[r].state = "in_flight" ~> reminders[r].status \in Final

\* A reminder that was scheduled comes to an outcome.
ScheduledResolves ==
  \A r \in Jobs : reminders[r].status = "scheduled" ~> reminders[r].status \in Final
=============================================================================
