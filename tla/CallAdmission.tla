--------------------------- MODULE CallAdmission ----------------------------
(***************************************************************************)
(* OpenAISipController from the webhook of an incoming call to the end of  *)
(* its socket: the claim of the event, admission, the call session, accept *)
(* and attach, the events of the sockets, and the stop of the process.     *)
(* JavaScript runs from one await to the next: an action is such a         *)
(* stretch, together with the effect of the call it waited for.            *)
(*                                                                         *)
(* The provider is external: it repeats a webhook that was not answered    *)
(* with 200, accepts a call once, and ends calls and sockets at any time.  *)
(* The inbox grants the event of a call to one claim at a time until its   *)
(* lease of 30 s lapses (ProviderEvents), which nothing renews while a     *)
(* request attaches, accepts and attaches again; the number of the claim   *)
(* is its token.  A status of a session never returns, so that comparing   *)
(* the status with the one known is comparing row versions.                *)
(***************************************************************************)
EXTENDS Integers, FiniteSets

CONSTANTS
  Calls,          \* calls, each with its event and session
  Requests,       \* webhook requests in hand
  Sockets,        \* sockets in use at once
  MaxConcurrent,  \* CIVYA_PSTN_MAX_CONCURRENT_CALLS
  MaxClaims,      \* claims of an event, 8 in the code
  Undefined       \* undefined

ASSUME AdmissionAssumption ==
  /\ MaxConcurrent \in Nat \ {0} /\ MaxClaims \in Nat \ {0}
  /\ Undefined \notin Calls \cup Sockets

VARIABLES
  event,      \* the row of the inbox, for each call
  session,    \* status of the row of call_sessions
  provider,   \* the call at the provider
  requests,   \* handleWebhook, for each request
  sockets,    \* the sockets and what their closures hold
  active,     \* activeCalls
  pending,    \* pendingCalls
  process,    \* "up", or "stopping" after SIGTERM
  served,     \* history of the process: calls a socket was attached to,
  opened,     \* calls a socket of which opened,
  overtaken   \* and calls whose claim lapsed while a request had them in hand

histories == <<served, opened, overtaken>>
admissionVars ==
  <<event, session, provider, requests, sockets, active, pending, process, histories>>

\* The effect of a call that may be lost before or after it took place.
When(condition, effect) == IF condition THEN {effect} ELSE {}

Statuses == {"absent", "received", "connected", "completed", "failed"}

Idle == [phase |-> "idle", call |-> Undefined, claim |-> 0, socket |-> Undefined, probe |-> FALSE,
         known |-> "absent"]
NoSocket == [call |-> Undefined, ready |-> "none", attached |-> FALSE, known |-> "absent",
             connecting |-> FALSE, timer |-> FALSE, restart |-> FALSE,
             from |-> "absent", last |-> "absent"]

\* The row of an event, the locals of handleWebhook and those of monitor.
EventRow == [state : {"absent", "processing", "retry", "processed", "failed"},
             claims : 0 .. MaxClaims, lapsed : BOOLEAN]
RequestRow == [phase : {"idle", "rejecting", "creating", "accepting", "attaching",
                        "finishing", "failing"},
               call : Calls \cup {Undefined}, claim : 0 .. MaxClaims,
               socket : Sockets \cup {Undefined}, probe : BOOLEAN, known : Statuses]
SocketRow == [call : Calls \cup {Undefined},
              ready : {"none", "connecting", "open", "closing", "closed"},
              attached : BOOLEAN, known : Statuses, connecting : BOOLEAN, timer : BOOLEAN,
              restart : BOOLEAN, from : Statuses, last : Statuses]

AdmissionTypeOK ==
  /\ event \in [Calls -> EventRow]
  /\ session \in [Calls -> Statuses]
  /\ provider \in [Calls -> {"ringing", "accepted", "rejected", "ended"}]
  /\ requests \in [Requests -> RequestRow]
  /\ sockets \in [Sockets -> SocketRow]
  /\ active \in [Calls -> Sockets \cup {Undefined}]
  /\ pending \subseteq Calls /\ process \in {"up", "stopping"}
  /\ served \subseteq Calls /\ opened \subseteq Calls /\ overtaken \subseteq Calls

AdmissionInit ==
  /\ event = [c \in Calls |-> [state |-> "absent", claims |-> 0, lapsed |-> FALSE]]
  /\ session = [c \in Calls |-> "absent"]
  /\ provider = [c \in Calls |-> "ringing"]
  /\ requests = [r \in Requests |-> Idle]
  /\ sockets = [s \in Sockets |-> NoSocket]
  /\ active = [c \in Calls |-> Undefined]
  /\ pending = {} /\ process = "up"
  /\ served = {} /\ opened = {} /\ overtaken = {}

-----------------------------------------------------------------------------
(* The webhook of a call, up to its first await after the claim.           *)

Reclaimable(c) ==
  event[c].state \in {"absent", "retry"} \/ (event[c].state = "processing" /\ event[c].lapsed)

\* What the comparison with maximumConcurrent counts.
Counted == Cardinality({c \in Calls : active[c] # Undefined}) + Cardinality(pending)

\* Destination, caller identity and the rate of a public caller are checked
\* before and after the capacity: a call that does not pass is refused too.
Receive(r, c) ==
  /\ requests[r] = Idle /\ process = "up"
  /\ Reclaimable(c) /\ event[c].claims < MaxClaims
  /\ event' = [event EXCEPT ![c] =
       [state |-> "processing", claims |-> @.claims + 1, lapsed |-> FALSE]]
  /\ \E phase \in {"rejecting"} \cup (IF Counted < MaxConcurrent THEN {"creating"} ELSE {}) :
       requests' = [requests EXCEPT ![r] =
         [Idle EXCEPT !.phase = phase, !.call = c, !.claim = event'[c].claims]]
  /\ UNCHANGED <<session, provider, sockets, active, pending, process, histories>>

\* The claim after the last one fails the event.
Exhaust(c) ==
  /\ process = "up" /\ Reclaimable(c) /\ event[c].claims = MaxClaims
  /\ event' = [event EXCEPT ![c].state = "failed", ![c].lapsed = FALSE]
  /\ UNCHANGED <<session, provider, requests, sockets, active, pending, process, histories>>

\* The catch block: what awaits it is the finish with "retry".
Failing(r) == [requests[r] EXCEPT !.phase = "failing", !.socket = Undefined, !.probe = FALSE,
                                  !.known = "absent"]
Finishing(r) == [requests[r] EXCEPT !.phase = "finishing", !.socket = Undefined, !.probe = FALSE,
                                  !.known = "absent"]

\* Mutant: the call stays pending.
ThrowKeeping(r) == requests' = [requests EXCEPT ![r] = Failing(r)] /\ UNCHANGED pending

Throw(r) ==
  /\ requests' = [requests EXCEPT ![r] = Failing(r)]
  /\ pending' = pending \ {requests[r].call}

\* A call that ended meanwhile is no longer there to be rejected; the answer of
\* the provider may be lost.
Reject(r) ==
  LET c == requests[r].call IN
  /\ requests[r].phase = "rejecting"
  /\ \/ /\ provider[c] = "ringing"
        /\ provider' = [provider EXCEPT ![c] = "rejected"]
        /\ requests' = [requests EXCEPT ![r] = Finishing(r)] /\ UNCHANGED pending
     \/ /\ provider' \in {provider} \cup
             When(provider[c] = "ringing", [provider EXCEPT ![c] = "rejected"])
        /\ Throw(r)
  /\ UNCHANGED <<event, session, sockets, active, process, histories>>

-----------------------------------------------------------------------------
(* Accept and attach.                                                      *)

\* Mutant: any socket of the call is taken for an open one.
IsOpenOrOpening(c) == active[c] # Undefined

IsOpen(c) == active[c] # Undefined /\ sockets[active[c]].ready = "open"

\* monitor: an open socket is taken for attached, otherwise a new one is made,
\* whatever the entry of the call was.  known is the status in the metadata.
Attach(r, known, probe) ==
  LET c == requests[r].call IN
  IF IsOpen(c)
  THEN /\ requests' = [requests EXCEPT ![r] = Finishing(r)]
       /\ pending' = pending \ {c}
       /\ UNCHANGED <<sockets, active>>
  ELSE \E s \in Sockets :
       /\ sockets[s] = NoSocket
       /\ sockets' = [sockets EXCEPT ![s] =
            [NoSocket EXCEPT !.call = c, !.ready = "connecting", !.timer = TRUE,
                        !.known = known]]
       /\ active' = [active EXCEPT ![c] = s]
       /\ requests' = [requests EXCEPT ![r] =
            [@ EXCEPT !.phase = "attaching", !.socket = s, !.known = known,
                       !.probe = probe]]
       /\ pending' = pending \cup {c}

\* createCallSession, which returns the row there is; then a repeated claim tries
\* to attach first, a first one to accept.
CreateSession(r) ==
  LET c == requests[r].call IN
  /\ requests[r].phase = "creating"
  /\ session' = [session EXCEPT ![c] = IF @ = "absent" THEN "received" ELSE @]
  /\ IF requests[r].claim > 1
     THEN Attach(r, session'[c], TRUE)
     ELSE /\ requests' = [requests EXCEPT ![r].phase = "accepting", ![r].known = session'[c]]
          /\ pending' = pending \cup {c}
          /\ UNCHANGED <<sockets, active>>
  /\ UNCHANGED <<event, provider, process, histories>>

CreateSessionFails(r) ==
  /\ requests[r].phase = "creating"
  /\ Throw(r)
  /\ UNCHANGED <<event, session, provider, sockets, active, process, histories>>

\* acceptOrResume: a call that was accepted before answers 409 and is attached
\* as well.
Accept(r) ==
  LET c == requests[r].call IN
  /\ requests[r].phase = "accepting" /\ provider[c] \in {"ringing", "accepted"}
  /\ provider' = [provider EXCEPT ![c] = "accepted"]
  /\ UNCHANGED session
  /\ Attach(r, requests[r].known, FALSE)
  /\ UNCHANGED <<event, process, histories>>

\* The provider refuses, or its answer is lost.
AcceptFails(r) ==
  LET c == requests[r].call IN
  /\ requests[r].phase = "accepting"
  /\ provider' \in {provider} \cup
       When(provider[c] = "ringing", [provider EXCEPT ![c] = "accepted"])
  /\ Throw(r)
  /\ UNCHANGED <<event, session, sockets, active, process, histories>>

-----------------------------------------------------------------------------
(* The events of a socket.  A request awaits at most one.                  *)

Awaits(r, s) == requests[r].phase = "attaching" /\ requests[r].socket = s

\* The promise of monitor is resolved, or rejected: a probe then accepts the call.
Resolved(s) ==
  /\ requests' = [r \in Requests |-> IF Awaits(r, s) THEN Finishing(r) ELSE requests[r]]
  /\ pending' = pending \ {c \in Calls : \E r \in Requests : Awaits(r, s) /\ requests[r].call = c}

AttachRejected(s) ==
  /\ requests' = [r \in Requests |->
       IF ~Awaits(r, s) THEN requests[r]
       ELSE IF requests[r].probe
            THEN [requests[r] EXCEPT !.phase = "accepting", !.socket = Undefined, !.probe = FALSE]
            ELSE Failing(r)]
  /\ pending' = pending \ {c \in Calls :
       \E r \in Requests : Awaits(r, s) /\ ~requests[r].probe /\ requests[r].call = c}

\* open: a session that is only received is connected first.
SocketOpens(s) ==
  LET c == sockets[s].call IN
  /\ sockets[s].ready = "connecting" /\ provider[c] = "accepted"
  /\ IF sockets[s].known = "received"
     THEN /\ sockets' = [sockets EXCEPT ![s].ready = "open", ![s].connecting = TRUE]
          /\ UNCHANGED <<requests, pending, served>>
     ELSE /\ sockets' = [sockets EXCEPT ![s].ready = "open", ![s].attached = TRUE,
                                        ![s].timer = FALSE]
          /\ Resolved(s) /\ served' = served \cup {c}
  /\ opened' = opened \cup {c}
  /\ UNCHANGED <<event, session, provider, active, process, overtaken>>

\* controlCall to connected is answered; the socket may be gone by then.
ConnectSession(s) ==
  LET c == sockets[s].call IN
  /\ sockets[s].connecting /\ session[c] = sockets[s].known
  /\ session' = [session EXCEPT ![c] = "connected"]
  /\ sockets' = [sockets EXCEPT ![s].connecting = FALSE, ![s].attached = TRUE,
                                ![s].known = "connected", ![s].timer = FALSE]
  /\ Resolved(s)
  /\ served' = IF sockets[s].ready = "open" THEN served \cup {c} ELSE served
  /\ UNCHANGED <<event, provider, active, process, opened, overtaken>>

\* It fails, or its answer is lost: the socket is closed.
ConnectSessionFails(s) ==
  LET c == sockets[s].call IN
  /\ sockets[s].connecting
  /\ session' \in {session} \cup
       When(session[c] = sockets[s].known, [session EXCEPT ![c] = "connected"])
  /\ sockets' = [sockets EXCEPT ![s].connecting = FALSE,
                                ![s].ready = IF @ = "open" THEN "closing" ELSE @]
  /\ AttachRejected(s)
  /\ UNCHANGED <<event, provider, active, process, histories>>

\* attachTimeout, or error before the socket is attached.  The entry of the call
\* is deleted whichever socket it names.
AttachFails(s) ==
  /\ sockets[s].timer
  /\ sockets' = [sockets EXCEPT ![s].ready = "closing", ![s].timer = FALSE]
  /\ active' = [active EXCEPT ![sockets[s].call] = Undefined]
  /\ AttachRejected(s)
  /\ UNCHANGED <<event, session, provider, process, histories>>

\* The status finishCallLifecycle asks for, from the one known then; none for a
\* session that is known to have ended.
LastStatus(s) ==
  CASE sockets[s].known = "received" -> "failed"
    [] sockets[s].known = "connected" ->
         IF sockets[s].attached /\ ~sockets[s].restart THEN "completed" ELSE "failed"
    [] OTHER -> "absent"

\* close, for any reason; the transition to connected may still be on its way.
SocketCloses(s) ==
  /\ sockets[s].ready \in {"connecting", "open", "closing"}
  /\ sockets' = [sockets EXCEPT ![s].ready = "closed", ![s].timer = FALSE,
                                ![s].from = sockets[s].known, ![s].last = LastStatus(s)]
  /\ active' = [active EXCEPT ![sockets[s].call] = Undefined]
  /\ IF sockets[s].attached THEN UNCHANGED <<requests, pending>> ELSE AttachRejected(s)
  /\ UNCHANGED <<event, session, provider, process, histories>>

\* controlCall of finishCallLifecycle, whose failure is ignored.
FinishLifecycle(s) ==
  LET c == sockets[s].call IN
  /\ sockets[s].ready = "closed" /\ sockets[s].last # "absent"
  /\ session' \in {session} \cup
       When(session[c] = sockets[s].from, [session EXCEPT ![c] = sockets[s].last])
  /\ sockets' = [sockets EXCEPT ![s].last = "absent"]
  /\ UNCHANGED <<event, provider, requests, active, pending, process, histories>>

\* Nothing refers to the closed socket any more.
Discard(s) ==
  /\ sockets[s].ready = "closed" /\ sockets[s].last = "absent" /\ ~sockets[s].connecting
  /\ sockets' = [sockets EXCEPT ![s] = NoSocket]
  /\ UNCHANGED <<event, session, provider, requests, active, pending, process, histories>>

-----------------------------------------------------------------------------
(* The end of a request.                                                   *)

HoldsClaim(r) ==
  LET e == event[requests[r].call]
  IN e.state = "processing" /\ e.claims = requests[r].claim /\ ~e.lapsed

\* 200; a claim that was lost throws.
Finish(r) ==
  /\ requests[r].phase = "finishing"
  /\ IF HoldsClaim(r)
     THEN /\ event' = [event EXCEPT ![requests[r].call].state = "processed"]
          /\ requests' = [requests EXCEPT ![r] = Idle] /\ UNCHANGED pending
     ELSE UNCHANGED event /\ Throw(r)
  /\ UNCHANGED <<session, provider, sockets, active, process, histories>>

\* The call of the finish fails.
FinishFails(r) ==
  /\ requests[r].phase = "finishing"
  /\ Throw(r)
  /\ UNCHANGED <<event, session, provider, sockets, active, process, histories>>

\* 503; the finish with "retry" may fail, which is ignored.
FinishAsRetry(r) ==
  LET c == requests[r].call IN
  /\ requests[r].phase = "failing"
  /\ event' \in {event} \cup
       When(HoldsClaim(r),
            [event EXCEPT ![c].state = IF event[c].claims < MaxClaims THEN "retry" ELSE "failed"])
  /\ requests' = [requests EXCEPT ![r] = Idle]
  /\ UNCHANGED <<session, provider, sockets, active, pending, process, histories>>

-----------------------------------------------------------------------------
(* The provider, the clock and the process.                                *)

CallEnds(c) ==
  /\ provider[c] \in {"ringing", "accepted"}
  /\ provider' = [provider EXCEPT ![c] = "ended"]
  /\ UNCHANGED <<event, session, requests, sockets, active, pending, process, histories>>

\* The lease ends, also while a request has the call in hand.
Lapse(c) ==
  /\ event[c].state = "processing" /\ ~event[c].lapsed
  /\ event' = [event EXCEPT ![c].lapsed = TRUE]
  /\ overtaken' = IF \E r \in Requests : requests[r].call = c THEN overtaken \cup {c}
                                                               ELSE overtaken
  /\ UNCHANGED <<session, provider, requests, sockets, active, pending, process, served, opened>>

\* close, on SIGTERM: the calls of the map are hung up.  Requests in hand go on.
StopProcess ==
  /\ process = "up"
  /\ process' = "stopping"
  /\ LET mapped == {active[c] : c \in Calls} \ {Undefined} IN
     /\ sockets' = [s \in Sockets |->
          IF s \in mapped THEN [sockets[s] EXCEPT !.ready = "closing", !.restart = TRUE]
                          ELSE sockets[s]]
     /\ \E hung \in SUBSET {c \in Calls : active[c] # Undefined /\ provider[c] = "accepted"} :
          provider' = [c \in Calls |-> IF c \in hung THEN "ended" ELSE provider[c]]
  /\ active' = [c \in Calls |-> Undefined] /\ pending' = {}
  /\ UNCHANGED <<event, session, requests, histories>>

\* The process exits, or crashes, and starts again with empty maps.
Restart ==
  /\ requests' = [r \in Requests |-> Idle]
  /\ sockets' = [s \in Sockets |-> NoSocket]
  /\ active' = [c \in Calls |-> Undefined] /\ pending' = {}
  /\ process' = "up"
  /\ served' = {} /\ opened' = {} /\ overtaken' = {}
  /\ UNCHANGED <<event, session, provider>>

RequestStep(r) ==
  \/ Reject(r) \/ CreateSession(r) \/ CreateSessionFails(r) \/ Accept(r) \/ AcceptFails(r)
  \/ Finish(r) \/ FinishFails(r) \/ FinishAsRetry(r)

SocketStep(s) ==
  \/ SocketOpens(s) \/ ConnectSession(s) \/ ConnectSessionFails(s) \/ AttachFails(s)
  \/ SocketCloses(s) \/ FinishLifecycle(s) \/ Discard(s)

AdmissionNext ==
  \/ \E r \in Requests, c \in Calls : Receive(r, c)
  \/ \E r \in Requests : RequestStep(r)
  \/ \E s \in Sockets : SocketStep(s)
  \/ \E c \in Calls : Exhaust(c) \/ CallEnds(c) \/ Lapse(c)
  \/ StopProcess \/ Restart

AdmissionSpec == AdmissionInit /\ [][AdmissionNext]_admissionVars

-----------------------------------------------------------------------------
(* Properties.                                                             *)

\* Of the maps nothing stays behind: a call is pending only while a request accepts
\* or attaches it, and is active only with a socket of its own that has not closed.
\* A pending call that no request ends would use up the capacity for good.
NothingLeaks ==
  /\ \A c \in pending : \E r \in Requests : requests[r].call = c
       /\ requests[r].phase \in {"accepting", "attaching"}
  /\ \A c \in Calls : active[c] # Undefined =>
       sockets[active[c]].call = c /\ sockets[active[c]].ready \in {"connecting", "open", "closing"}

AdmissionInvariant == AdmissionTypeOK /\ NothingLeaks

\* The call was rejected, or a socket was attached to it.  When the lease of its
\* claim lapsed under a request, a socket of it had at least opened: the second
\* request takes that one for attached, though the first may still lose it.
Answered(c) ==
  \/ provider[c] = "rejected" \/ c \in served
  \/ c \in overtaken /\ c \in opened

\* While the process runs, the webhook of a call is acknowledged for good only when the
\* call was answered, by the same process: a call whose event is processed is never
\* offered again, so that otherwise nobody would answer it.
SettledIsServed ==
  [][\A c \in Calls :
       event[c].state # "processed" /\ event'[c].state = "processed" /\ process = "up" =>
         Answered(c)]_admissionVars

\* The gateway takes the turns of no more calls at once than
\* CIVYA_PSTN_MAX_CONCURRENT_CALLS.  handleWebhook compares before an await and counts
\* after it, and so it can exceed the limit.
CapacityKept ==
  Cardinality({sockets[s].call :
    s \in {x \in Sockets : sockets[x].ready = "open" /\ sockets[x].attached}}) <= MaxConcurrent
=============================================================================
