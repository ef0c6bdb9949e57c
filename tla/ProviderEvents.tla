--------------------------- MODULE ProviderEvents ---------------------------
(***************************************************************************)
(* private.provider_events: what providers (the telephony carrier, the     *)
(* realtime model, the payment page) report by webhook, one row per event  *)
(* id.  Webhook handlers claim an event under a leased token, apply it, and *)
(* finish the claim with that token; the payment webhook records and marks *)
(* its events without a claim.  Any caller may send any request at any     *)
(* time, with any token it was ever given.                                 *)
(*                                                                         *)
(* The random processing owner of a request and the random token of its    *)
(* claim are drawn together and compared together: the token stands for    *)
(* both.  Leases and retry delays count down to 0.                         *)
(***************************************************************************)
EXTENDS Integers

CONSTANTS
  Events,       \* external event ids
  Payloads,     \* digests of payload and event type
  EventTokens,  \* processing tokens, gen_random_uuid()
  EventAttempts,  \* max_processing_attempts
  EventTicks,   \* the lease of a claim
  EventDelay,     \* the longest retry delay
  Null          \* SQL null

ASSUME EventAssumption ==
  /\ EventAttempts \in Nat \ {0}
  /\ EventTicks \in Nat \ {0}
  /\ EventDelay \in Nat
  /\ Null \notin EventTokens \cup Payloads

VARIABLES
  events,  \* the rows
  grants   \* history: the claims that were answered with claimed = true

eventVars == <<events, grants>>

Terminal == {"processed", "rejected", "failed"}
EventStates == {"absent", "received", "processing"} \cup Terminal
EventLeases == 0 .. EventTicks
EventDelays == 0 .. EventDelay
EventAttemptCounts == 0 .. EventAttempts

Event == [state : EventStates, payload : Payloads \cup {Null}, verified : BOOLEAN,
          token : EventTokens \cup {Null}, lease : EventLeases, wait : EventDelays,
          attempts : EventAttemptCounts]

NoEvent == [state |-> "absent", payload |-> Null, verified |-> FALSE,
            token |-> Null, lease |-> 0, wait |-> 0, attempts |-> 0]

\* The check constraint provider_events_processing_lease_check is part of the
\* type: a token exactly while the event is being processed.
EventTypeOK ==
  /\ events \in [Events -> Event]
  /\ grants \subseteq [event : Events, token : EventTokens, attempt : EventAttemptCounts]
  /\ \A e \in Events : events[e].state = "processing" <=> events[e].token # Null

EventInit ==
  /\ events = [e \in Events |-> NoEvent]
  /\ grants = {}

-----------------------------------------------------------------------------
Fresh(t) == t \notin {g.token : g \in grants}

\* Mutant: a reclaim does not rotate the token.
ClaimedUnrotated(row, t) ==
  [row EXCEPT !.state = "processing", !.token = IF @ = Null THEN t ELSE @,
              !.lease = EventTicks, !.attempts = @ + 1]

\* The row as a claim under token t leaves it.
Claimed(row, t) ==
  [row EXCEPT !.state = "processing", !.token = t, !.lease = EventTicks,
              !.attempts = @ + 1]

\* The row as a finish or an exhausted claim leaves it.
Finished(row, s, wait) ==
  [row EXCEPT !.state = s, !.token = Null, !.lease = 0, !.wait = wait]

NewEvent(payload, verified) ==
  [NoEvent EXCEPT !.payload = payload, !.verified = verified]

SameEvent(e, payload, verified) ==
  events[e].payload = payload /\ events[e].verified = verified

\* The first claim of an unknown event records it; an event whose signature did
\* not verify is recorded as rejected and handed to nobody.
ClaimNew(e, payload, t) ==
  /\ events[e].state = "absent"
  /\ Fresh(t)
  /\ events' = [events EXCEPT ![e] = Claimed(NewEvent(payload, TRUE), t)]
  /\ grants' = grants \cup {[event |-> e, token |-> t, attempt |-> 1]}

RecordRejected(e, payload) ==
  /\ events[e].state = "absent"
  /\ events' = [events EXCEPT ![e] = [NewEvent(payload, FALSE) EXCEPT !.state = "rejected"]]
  /\ UNCHANGED grants

\* Mutant: a running lease is taken for a lapsed one.
LapsedWhileLeased(e) == events[e].state = "processing"

\* A claim of a known event is answered "busy" while a lease runs or a retry is
\* not due, and "duplicate" once the event is terminal.
Lapsed(e) == events[e].state = "processing" /\ events[e].lease = 0
Due(e) == events[e].state = "received" /\ events[e].wait = 0
\* Mutant: one attempt too many.
ExhaustedLate(e) == events[e].attempts > EventAttempts

Exhausted(e) == events[e].attempts >= EventAttempts

Reclaim(e, payload, verified, t) ==
  /\ SameEvent(e, payload, verified)
  /\ Lapsed(e) \/ Due(e)
  /\ ~Exhausted(e)
  /\ Fresh(t)
  /\ events' = [events EXCEPT ![e] = Claimed(@, t)]
  /\ grants' = grants \cup
       {[event |-> e, token |-> t, attempt |-> events[e].attempts + 1]}

\* Mutant: an exhausted event is refused and left as it is.
ClaimExhaustedRefused(e, payload, verified) ==
  /\ SameEvent(e, payload, verified)
  /\ (Lapsed(e) \/ Due(e)) /\ Exhausted(e)
  /\ UNCHANGED eventVars

ClaimExhausted(e, payload, verified) ==
  /\ SameEvent(e, payload, verified)
  /\ Lapsed(e) \/ Due(e)
  /\ Exhausted(e)
  /\ events' = [events EXCEPT ![e] = Finished(@, "failed", events[e].wait)]
  /\ UNCHANGED grants

\* Mutant: the token is not compared.
HoldsEventAnyToken(e, t) == events[e].state = "processing" /\ events[e].lease > 0

\* civya_service_finish_provider_event_claim answers TRUE for the live claim of
\* token t, and changes nothing for anybody else.
HoldsEvent(e, t) ==
  events[e].state = "processing" /\ events[e].token = t /\ events[e].lease > 0

FinishProcessed(e, t) ==
  /\ HoldsEvent(e, t)
  /\ events' = [events EXCEPT ![e] = Finished(@, "processed", events[e].wait)]
  /\ UNCHANGED grants

FinishRetry(e, t, delay) ==
  /\ HoldsEvent(e, t)
  /\ events' = [events EXCEPT ![e] =
       IF Exhausted(e) THEN Finished(@, "failed", events[e].wait)
                       ELSE Finished(@, "received", delay)]
  /\ UNCHANGED grants

FinishFailed(e, t) ==
  /\ HoldsEvent(e, t)
  /\ events' = [events EXCEPT ![e] = Finished(@, "failed", events[e].wait)]
  /\ UNCHANGED grants

\* civya_service_record_provider_event and civya_service_mark_provider_event.
RecordReceived(e, payload) ==
  /\ events[e].state = "absent"
  /\ events' = [events EXCEPT ![e] = [NewEvent(payload, TRUE) EXCEPT !.state = "received"]]
  /\ UNCHANGED grants

\* Mutant: an event that has its outcome is marked again.
MarkAgain(e, s) ==
  /\ events[e].state \notin {"absent", "processing"}
  /\ events' = [events EXCEPT ![e].state = s]
  /\ UNCHANGED grants

Mark(e, s) ==
  /\ events[e].state = "received"
  /\ events' = [events EXCEPT ![e].state = s]
  /\ UNCHANGED grants

\* now() moves on.
ElapsedEvent(row) ==
  [row EXCEPT !.lease = IF @ = 0 THEN 0 ELSE @ - 1, !.wait = IF @ = 0 THEN 0 ELSE @ - 1]

EventTick ==
  /\ \E e \in Events : events[e].lease > 0 \/ events[e].wait > 0
  /\ events' = [e \in Events |-> ElapsedEvent(events[e])]
  /\ UNCHANGED grants

EventNext ==
  \/ \E e \in Events, p \in Payloads, t \in EventTokens :
       \/ ClaimNew(e, p, t)
       \/ \E v \in BOOLEAN : Reclaim(e, p, v, t)
  \/ \E e \in Events, p \in Payloads :
       \/ RecordRejected(e, p)
       \/ RecordReceived(e, p)
       \/ \E v \in BOOLEAN : ClaimExhausted(e, p, v)
  \/ \E e \in Events, t \in EventTokens :
       \/ FinishProcessed(e, t)
       \/ FinishFailed(e, t)
       \/ \E d \in EventDelays : FinishRetry(e, t, d)
  \/ \E e \in Events, s \in {"processed", "failed"} : Mark(e, s)
  \/ EventTick

EventSpec == EventInit /\ [][EventNext]_eventVars

-----------------------------------------------------------------------------
\* A claim is never granted while an earlier one is alive, so two handlers never
\* both hold a live claim of one event (claim_provider_event, the busy answer).
OneLiveClaim ==
  [][\A e \in Events :
       {g \in grants' : g.event = e} # {g \in grants : g.event = e}
         => events[e].state # "processing" \/ events[e].lease = 0]_eventVars

\* The token of a row is the one granted last: every earlier holder has been
\* fenced off by the rotation, however late its finish arrives.
TokenIsLatestGrant ==
  \A e \in Events : \A g \in grants :
    g.event = e =>
      /\ g.attempt <= events[e].attempts
      /\ events[e].token = g.token => g.attempt = events[e].attempts

\* An event keeps its outcome, whoever retries, reclaims or marks it later, and
\* an event whose signature did not verify is never handed out.
OutcomeIsFinal ==
  [][\A e \in Events :
       events[e].state \in Terminal => events'[e].state = events[e].state]_eventVars

\* Neither a claim nor an outcome is ever taken from an event.
EventsAreKept == OneLiveClaim /\ OutcomeIsFinal

UnverifiedNeverGranted ==
  \A g \in grants : events[g.event].verified

\* The rows are well-formed, the token fences all but the latest claim, and every
\* claim is of a verified event.
EventsInvariant == EventTypeOK /\ TokenIsLatestGrant /\ UnverifiedNeverGranted
=============================================================================
