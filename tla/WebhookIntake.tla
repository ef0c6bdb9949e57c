---------------------------- MODULE WebhookIntake ---------------------------
(***************************************************************************)
(* The webhook handlers that claim provider events: the carrier's message  *)
(* receipts (app/api/webhooks/twilio/route.ts) and the realtime model's    *)
(* incoming calls (services/call-control/openai-sip.ts).  A provider sends *)
(* the same event again until it is acknowledged; each request is handled  *)
(* by a process that claims the event, applies it in a number of           *)
(* idempotent steps (the receipt, then the opt-out) and finishes its       *)
(* claim.  Any step may fail, and the process may be killed between any    *)
(* two of them.                                                            *)
(***************************************************************************)
EXTENDS ProviderEvents

CONSTANTS
  Requests,     \* requests in progress
  Steps         \* effects of an event, applied in order

ASSUME StepsAssumption == Steps \in Nat \ {0}
ASSUME PayloadsAssumption == Payloads # {}

VARIABLES
  handling,  \* what the handler of each request is doing
  applied,   \* per event, how many of its steps have taken effect
  acked      \* events the provider got a 200 for

intakeVars == <<events, grants, handling, applied, acked>>

Idle == [phase |-> "idle", event |-> Null, token |-> Null, step |-> 0]
Handling ==
  [phase : {"idle", "applying", "failing"}, event : Events \cup {Null},
   token : EventTokens \cup {Null}, step : 0 .. Steps]

IntakeTypeOK ==
  /\ EventTypeOK
  /\ handling \in [Requests -> Handling]
  /\ applied \in [Events -> 0 .. Steps]
  /\ acked \subseteq Events

IntakeInit ==
  /\ EventInit
  /\ handling = [r \in Requests |-> Idle]
  /\ applied = [e \in Events |-> 0]
  /\ acked = {}

-----------------------------------------------------------------------------
TheBody == CHOOSE p \in Payloads : TRUE   \* a provider repeats what it sent

\* A request whose claim is granted is applied.  Any other is answered at once:
\* 200 for a processed duplicate, else 503, which the provider repeats.
Receive(r, e) ==
  /\ handling[r].phase = "idle"
  /\ \E t \in EventTokens :
       /\ ClaimNew(e, TheBody, t) \/ Reclaim(e, TheBody, TRUE, t)
       /\ handling' = [handling EXCEPT ![r] =
            [phase |-> "applying", event |-> e, token |-> t, step |-> 0]]
  /\ UNCHANGED <<applied, acked>>

ReceiveExhausted(e) ==
  /\ ClaimExhausted(e, TheBody, TRUE)
  /\ UNCHANGED <<handling, applied, acked>>

\* Mutants: a duplicate is acknowledged whatever the outcome was, or never.
ReceiveDuplicateFailed(e) ==
  /\ events[e].state \in Terminal
  /\ acked' = acked \cup {e}
  /\ UNCHANGED <<events, grants, handling, applied>>
ReceiveDuplicateRefused(e) ==
  /\ events[e].state = "processed"
  /\ UNCHANGED intakeVars

ReceiveDuplicate(e) ==
  /\ events[e].state = "processed"
  /\ acked' = acked \cup {e}
  /\ UNCHANGED <<events, grants, handling, applied>>

\* One effect: a service call that succeeds, or throws.
Apply(r) ==
  LET e == handling[r].event
      step == handling[r].step + 1
  IN /\ handling[r].phase = "applying" /\ handling[r].step < Steps
     /\ handling' = [handling EXCEPT ![r].step = step]
     /\ applied' = [applied EXCEPT ![e] = IF @ < step THEN step ELSE @]
     /\ UNCHANGED <<events, grants, acked>>

ApplyFails(r) ==
  /\ handling[r].phase = "applying" /\ handling[r].step < Steps
  /\ handling' = [handling EXCEPT ![r].phase = "failing"]
  /\ UNCHANGED <<events, grants, applied, acked>>

\* The event is finished as processed and acknowledged if the claim was still
\* held; the acknowledgement may be lost.  A lost claim is a 503.
Finish(r) ==
  LET e == handling[r].event
      t == handling[r].token
  IN /\ handling[r].phase = "applying" /\ handling[r].step = Steps
     /\ handling' = [handling EXCEPT ![r] = Idle]
     /\ \/ FinishProcessed(e, t) /\ acked' \in {acked, acked \cup {e}}
        \/ ~HoldsEvent(e, t) /\ UNCHANGED <<events, grants, acked>>
     /\ UNCHANGED applied

\* A failed step gives the event back for a later delivery.
FinishFailing(r) ==
  LET e == handling[r].event
      t == handling[r].token
  IN /\ handling[r].phase = "failing"
     /\ handling' = [handling EXCEPT ![r] = Idle]
     /\ \/ FinishRetry(e, t, EventDelay)
        \/ ~HoldsEvent(e, t) /\ UNCHANGED <<events, grants>>
     /\ UNCHANGED <<applied, acked>>

\* The process is killed, or the finish itself throws.
Die(r) ==
  /\ handling[r].phase # "idle"
  /\ handling' = [handling EXCEPT ![r] = Idle]
  /\ UNCHANGED <<events, grants, applied, acked>>

IntakeTick == EventTick /\ UNCHANGED <<handling, applied, acked>>

IntakeNext ==
  \/ \E r \in Requests, e \in Events : Receive(r, e)
  \/ \E e \in Events : ReceiveExhausted(e) \/ ReceiveDuplicate(e)
  \/ \E r \in Requests : Apply(r) \/ ApplyFails(r) \/ Finish(r) \/ FinishFailing(r) \/ Die(r)
  \/ IntakeTick

IntakeSpec == IntakeInit /\ [][IntakeNext]_intakeVars

\* The provider repeats an event it got no 200 for, a handler that is not killed
\* goes on, and time passes.  A step need not ever succeed.
IntakeFairness ==
  /\ \A e \in Events :
       /\ WF_intakeVars(\E r \in Requests : Receive(r, e))
       /\ WF_intakeVars(ReceiveExhausted(e))
       /\ WF_intakeVars(ReceiveDuplicate(e))
  /\ \A r \in Requests :
       WF_intakeVars(Apply(r) \/ ApplyFails(r) \/ Finish(r) \/ FinishFailing(r))
  /\ WF_intakeVars(IntakeTick)

FairIntakeSpec == IntakeSpec /\ IntakeFairness

-----------------------------------------------------------------------------
\* "A duplicate is acknowledged only after the event is terminally processed"
\* (202607160017, header): an acknowledged event has been processed, with every
\* one of its effects applied, whichever handlers died on the way.
AckIsEarned ==
  \A e \in acked : events[e].state = "processed" /\ applied[e] = Steps

\* "... without allowing concurrent execution": as long as a handler's lease
\* runs, no other handler holds a claim of the same event that runs too.
LeasedHandlersExclude ==
  \A r, s \in Requests :
    LET live(q) == handling[q].phase # "idle" /\ HoldsEvent(handling[q].event, handling[q].token)
    IN live(r) /\ live(s) /\ handling[r].event = handling[s].event => r = s

\* The state is well-formed, acknowledgements are earned, and leased handlers exclude
\* each other.
IntakeInvariant == IntakeTypeOK /\ AckIsEarned /\ LeasedHandlersExclude

\* An event the provider keeps sending is processed, or given up after its
\* attempts: dying handlers and failing steps cannot keep it open for ever.
EveryEventSettles ==
  \A e \in Events : events[e].state # "absent" ~> events[e].state \in Terminal

\* A processed event is acknowledged in the end.
ProcessedIsAcknowledged ==
  \A e \in Events : events[e].state = "processed" ~> e \in acked
=============================================================================
