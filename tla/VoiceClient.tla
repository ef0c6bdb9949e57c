----------------------------- MODULE VoiceClient -----------------------------
(***************************************************************************)
(* The realtime client of the web page (lib/realtime/client.ts): one voice *)
(* session from its only connect to its end.  Everything the client object *)
(* holds, and the line it talks over, is the record `voice`; what a        *)
(* callback, a timer or the continuation of an await does before it yields *)
(* is one operator from such a record to the next.                         *)
(*                                                                         *)
(* The provider is external: it takes commands and delivers events in      *)
(* order, generates one response at a time, stops it when the caller       *)
(* speaks, and in a direct mode answers what it hears by itself.           *)
(***************************************************************************)
EXTENDS SequencesExt, Subsequences

CONSTANTS
  Turns,         \* what the resident says or types
  Modes,         \* response modes of the session, subset of {"authoritative", "direct"}
  MaxReconnects, \* reconnects (MAX_RECONNECT_ATTEMPTS)
  MaxResponses,  \* bound on the responses the provider makes
  MaxEvents,     \* bound on the events in flight
  NoTurn

ASSUME VoiceAssumption ==
  /\ NoTurn \notin Turns /\ Modes \subseteq {"authoritative", "direct"}
  /\ MaxReconnects \in Nat /\ MaxResponses \in Nat /\ MaxEvents \in Nat

VARIABLES
  mode,    \* responseMode, frozen for the session
  voice,   \* the client and its line
  said,    \* requests whose response the client saw ended
  tries    \* reconnects that were carried out

voiceVars == <<mode, voice, said, tries>>

Direct == mode = "direct"

\* A ResponseRequest; `end` is endAfterPlayback.  Which one it is stands for
\* its localId and its text.
ResponseRequest(kind, t, end) == [kind |-> kind, turn |-> t, end |-> end]
ResponseRequests ==
  [kind : {"opening", "resume", "answer", "typed", "automatic", "repeat", "tool"},
   turn : Turns \cup {NoTurn}, end : BOOLEAN]
NoRequest == ResponseRequest("none", NoTurn, FALSE)
Automatic(t) == ResponseRequest("automatic", t, FALSE)

\* What afterResponseId names: nothing, a response, or the one being created.
NoScope == 0
Creating == MaxResponses + 1

NewTurn ==
  [known |-> FALSE, timer |-> FALSE, posting |-> FALSE, transcript |-> FALSE,
   response |-> FALSE, timedOut |-> FALSE, late |-> FALSE]

SilentLine ==
  [commands |-> <<>>, events |-> <<>>, busy |-> 0, making |-> NoRequest,
   playing |-> FALSE, unheard |-> {}]

VoiceInit ==
  /\ mode \in Modes
  /\ voice =
       [connect |-> "idle", reconnect |-> "no", stream |-> "none", mic |-> FALSE,
        enabled |-> TRUE, manual |-> TRUE, ending |-> FALSE, paused |-> FALSE,
        resuming |-> FALSE, resumed |-> FALSE, attempts |-> 0, timer |-> FALSE,
        channel |-> "none", creating |-> NoRequest, active |-> 0,
        request |-> NoRequest, queue |-> <<>>, settled |-> {}, over |-> FALSE,
        endTimer |-> FALSE, recent |-> FALSE, turns |-> [t \in Turns |-> NewTurn],
        tools |-> {}, used |-> {}, pending |-> <<>>, made |-> 0, line |-> SilentLine]
  /\ said = {}
  /\ tries = 0
-----------------------------------------------------------------------------
(* Ending and losing the connection.                                       *)

\* connect comes to its catch, which stops the stream it had asked for.
\* Mutant: the catch leaves the stream as it is.
CaughtHolding(v) == [v EXCEPT !.connect = "ended"]
Caught(v) == [v EXCEPT !.connect = "ended", !.stream = IF @ = "live" THEN "stopped" ELSE @]

\* Aborting its controller ends a connect that awaits a response or its channel
\* in the same turn of the event loop.  One that reads a body, or waits for the
\* permission with everything else there, does not listen to it any more.
Aborted(v) == IF v.connect \in {"fetching", "opening"} THEN Caught(v) ELSE v

\* What teardownTransport puts back: a response of the provider's own is repeated
\* as a request, without tools.
\* Mutant: a response of the provider's own is not repeated.
AgainOwn(r) ==
  IF r = NoRequest \/ r.kind = "automatic" THEN <<>>
  ELSE <<[request |-> r, after |-> NoScope]>>
Again(r) ==
  IF r = NoRequest THEN <<>>
  ELSE <<[request |-> [r EXCEPT !.kind = IF @ = "automatic" THEN "repeat" ELSE @],
          after |-> NoScope]>>

\* Mutant: a response that was asked for and not yet begun is not put back.
InterruptedBegun(v) == Again(v.request)
Interrupted(v) == Again(v.creating) \o Again(v.request)

Teardown(v, preserve) ==
  [v EXCEPT !.queue = (IF preserve THEN Interrupted(v) ELSE <<>>) \o @,
     !.channel = "none", !.creating = NoRequest, !.active = 0, !.request = NoRequest,
     !.line = SilentLine]

\* disconnectInternal(true, true).  Handlers of tools are not aborted, nor is a
\* reconnect that reads a body.
Disconnect(v) ==
  LET closed == Teardown(Aborted(v), FALSE) IN
  [closed EXCEPT !.manual = TRUE, !.reconnect = IF @ = "reading" THEN @ ELSE "no",
     !.timer = FALSE, !.endTimer = FALSE,
     !.turns = [t \in Turns |-> NewTurn], !.pending = <<>>,
     !.queue = <<>>, !.over = FALSE, !.settled = {},
     !.stream = IF v.mic /\ @ = "live" THEN "stopped" ELSE @, !.mic = FALSE]

FinishGracefulEnd(v) == IF v.ending THEN v ELSE Disconnect([v EXCEPT !.ending = TRUE])

ScheduleReconnect(v) ==
  IF v.manual \/ v.ending \/ v.paused \/ v.reconnect # "no" \/ v.timer THEN v
  ELSE IF v.attempts >= MaxReconnects THEN Disconnect(v)
  ELSE [v EXCEPT !.attempts = @ + 1, !.timer = TRUE]
-----------------------------------------------------------------------------
(* The response queue.                                                     *)

Queued(v) == {v.queue[i].request : i \in DOMAIN v.queue}

DispatchResponse(v, r) ==
  IF v.channel # "open"
  THEN ScheduleReconnect([v EXCEPT !.queue = <<[request |-> r, after |-> NoScope]>> \o @])
  ELSE [v EXCEPT !.creating = r, !.line.commands = Append(@, r)]

Enqueue(v, r, after) ==
  IF v.active = 0 /\ v.creating = NoRequest THEN DispatchResponse(v, r)
  ELSE LET scope == IF after # NoScope THEN after ELSE IF v.active # 0 THEN v.active ELSE Creating
       IN [v EXCEPT !.queue = Append(@, [request |-> r, after |-> scope])]

Drain(v, done) ==
  LET ready == {i \in DOMAIN v.queue : v.queue[i].after \in v.settled \cup {NoScope, done}}
      first == CHOOSE i \in ready : \A j \in ready : i <= j
      scope == v.queue[first].after
      rest == [i \in DOMAIN v.queue |->
                 IF v.queue[i].after = scope THEN [v.queue[i] EXCEPT !.after = NoScope] ELSE v.queue[i]]
  IN IF v.active # 0 \/ v.creating # NoRequest \/ v.channel # "open" \/ ready = {} THEN v
     ELSE DispatchResponse([v EXCEPT !.queue = RemoveAt(rest, first)], v.queue[first].request)

Pause(v) == [v EXCEPT !.paused = TRUE, !.enabled = FALSE]

\* onDataChannelOpen; the bootstrap may say that an account is required.
Opened(v, opening, account) ==
  LET o == IF account THEN Pause([v EXCEPT !.channel = "open"]) ELSE [v EXCEPT !.channel = "open"]
  IN Drain(IF opening THEN Enqueue(o, ResponseRequest("opening", NoTurn, FALSE), NoScope) ELSE o,
           NoScope)
-----------------------------------------------------------------------------
(* Turns.                                                                  *)

Others(turns, t) == Subsequence(turns, {n \in DOMAIN turns : turns[n] # t})
RemoveTurn(v, t) == [v EXCEPT !.turns[t] = NewTurn, !.pending = Others(@, t)]

\* removeDirectTurnIfSettled; one whose transcript is late is kept aside for it.
RemoveIfSettled(v, t) ==
  IF ~(v.turns[t].transcript /\ v.turns[t].response) THEN v
  ELSE IF v.turns[t].timedOut
       THEN [RemoveTurn(v, t) EXCEPT !.turns[t].late = TRUE]
       ELSE RemoveTurn(v, t)

CreateTurn(v, t) ==
  IF v.turns[t].known THEN v
  ELSE [v EXCEPT !.turns[t] = [NewTurn EXCEPT !.known = TRUE]]

\* submitAuthoritativeTurn, up to its POST.
Submit(v, t) == [v EXCEPT !.turns[t].posting = TRUE, !.turns[t].timer = FALSE]
-----------------------------------------------------------------------------
(* Events of the line (handleEvent).                                       *)

Event(type, rid, request, turn, status) ==
  [type |-> type, rid |-> rid, request |-> request, turn |-> turn, status |-> status]

OnSpeechStopped(v, e) ==
  LET c == CreateTurn(v, e.turn) IN
  [c EXCEPT !.turns[e.turn].timer = TRUE,
            !.pending = IF Direct THEN Append(@, e.turn) ELSE @]

\* The words of a turn, noise, or no transcript at all.
OnTranscript(v, e) ==
  LET t == e.turn
      late == v.turns[t].late
      c == IF late \/ v.turns[t].known \/ e.status = "failed" THEN v
           ELSE [CreateTurn(v, t) EXCEPT !.turns[t].response = Direct]
      settled == [c EXCEPT !.turns[t].timer = FALSE, !.turns[t].transcript = TRUE]
  IN IF ~Direct THEN IF e.status = "words" THEN Submit(c, t) ELSE RemoveTurn(c, t)
     ELSE IF late THEN IF e.status = "failed" THEN v ELSE RemoveTurn(v, t)
     ELSE IF ~c.turns[t].known THEN v
     ELSE RemoveIfSettled(settled, t)

\* shiftPendingAutomaticTurnId
Known(v) == Subsequence(v.pending, {n \in DOMAIN v.pending : v.turns[v.pending[n]].known})

\* The queue without the request that the provider begins after all.
\* Mutant: it stays queued.
LeftQueued(v, r) == v.queue
Left(v, r) ==
  IF r = NoRequest \/ v.creating = r THEN v.queue
  ELSE RemoveFirstMatch(v.queue, LAMBDA q : q.request = r)

OnCreated(v, e, chance) ==
  LET external == e.request = NoRequest \/ e.request \notin Queued(v) \cup {v.creating}
      request == IF ~external THEN e.request
                 ELSE Automatic(IF Known(v) = <<>> THEN NoTurn ELSE Head(Known(v)))
      spared == e.request # NoRequest /\ v.timer /\ chance
      behind == IF v.creating \in {NoRequest, request} THEN <<>>
                ELSE <<[request |-> v.creating, after |-> e.rid]>>
      queue == behind \o Left(v, e.request)
  IN [v EXCEPT !.creating = NoRequest, !.active = e.rid, !.request = request, !.recent = FALSE,
        !.pending = IF ~external THEN @ ELSE IF Known(v) = <<>> THEN <<>> ELSE Tail(Known(v)),
        !.timer = @ /\ ~spared, !.attempts = IF spared THEN @ - 1 ELSE @,
        !.queue = [i \in DOMAIN queue |->
                     IF queue[i].after = Creating THEN [queue[i] EXCEPT !.after = e.rid] ELSE queue[i]]]

\* The status of a done event is "calling" when a tool is to answer.
OnDone(v, e, chance) ==
  LET r == v.request
      s == [v EXCEPT !.settled = @ \cup {e.rid}]
      t == IF r.turn = NoTurn \/ e.status = "calling" \/ ~v.turns[r.turn].known THEN s
           ELSE IF Direct THEN RemoveIfSettled([s EXCEPT !.turns[r.turn].response = TRUE], r.turn)
           ELSE RemoveTurn(s, r.turn)
      free == [t EXCEPT !.active = 0, !.request = NoRequest]
  IN IF r.end /\ e.status = "completed"
     THEN IF v.recent /\ chance THEN FinishGracefulEnd(t)
          ELSE [free EXCEPT !.over = TRUE, !.endTimer = TRUE]
     ELSE Drain(free, e.rid)

OnOutputStopped(v) ==
  IF v.over THEN FinishGracefulEnd(v) ELSE [v EXCEPT !.recent = TRUE]

\* executeTool up to its first await; wait_for_user has none.
OnCall(v, e) ==
  LET t == v.request.turn IN
  IF e.status = "work" THEN [v EXCEPT !.tools = @ \cup {[rid |-> e.rid, turn |-> t]}]
  ELSE Drain(IF t = NoTurn \/ ~v.turns[t].known THEN v
             ELSE RemoveIfSettled([v EXCEPT !.turns[t].response = TRUE], t), e.rid)

\* What the clock and the peer say is left to chance: whether output stopped
\* less than 300 ms ago, and whether the peer is connected after all.
HandleEvent(v, e, chance) ==
  CASE e.type = "speech_stopped" -> OnSpeechStopped(v, e)
    [] e.type = "transcript" -> OnTranscript(v, e)
    [] e.type = "created" -> OnCreated(v, e, chance)
    [] e.type = "call" -> OnCall(v, e)
    [] e.type = "done" -> OnDone(v, e, chance)
    [] e.type = "output_stopped" -> OnOutputStopped(v)
-----------------------------------------------------------------------------
(* The session: connect, reconnect and the ways they end.                  *)

Becomes(v) == voice' = v /\ UNCHANGED <<mode, said, tries>>

\* An account is asked for, at most once until it is there.
Account == IF voice.resumed THEN {FALSE} ELSE BOOLEAN

\* The page makes a client for every session and connects it once.
Connect ==
  /\ voice.connect = "idle"
  /\ Becomes([voice EXCEPT !.connect = "fetching", !.stream = "asked", !.manual = FALSE])

\* The permission is answered at any time, also when nobody waits for it any more.
MicrophoneAnswer ==
  /\ voice.stream = "asked"
  /\ \E granted \in BOOLEAN :
       Becomes([voice EXCEPT !.stream =
                  IF granted /\ voice.connect \in {"fetching", "reading"} THEN "live" ELSE "stopped"])

\* The bootstrap is fetched, then the secret: fetchWithTimeout stops listening to
\* the abort of its caller when the headers of the response are there ...
ConnectReads ==
  /\ voice.connect = "fetching"
  /\ Becomes([voice EXCEPT !.connect = "reading"])

\* ... and does not notice an abort from before it began: such a request is as
\* deaf to it as a body that is read.
ConnectAsks ==
  /\ voice.connect = "reading" /\ ~voice.manual
  /\ Becomes([voice EXCEPT !.connect = "fetching"])

\* Both are there, and the microphone; unless the session was ended in the
\* meantime the peer is set up.
ConnectFetched ==
  /\ voice.connect = "reading" /\ voice.stream = "live"
  /\ Becomes(IF voice.manual THEN Caught(voice)
             ELSE [voice EXCEPT !.connect = "opening", !.mic = TRUE, !.enabled = TRUE,
                                !.channel = "connecting"])

ConnectOpens ==
  /\ voice.connect = "opening" /\ voice.channel = "connecting"
  /\ \E account \in Account :
       Becomes(Opened([voice EXCEPT !.connect = "ended"], TRUE, account))

\* failToTextMode: any of the awaited calls fails or is out of time.
ConnectFails ==
  /\ voice.connect \in {"fetching", "reading", "opening"}
  /\ Becomes(Disconnect(Caught(voice)))

ReconnectTimer ==
  /\ voice.timer
  /\ LET v == [voice EXCEPT !.timer = FALSE]
         torn == Teardown(Aborted(v), TRUE)
     IN IF v.manual \/ v.ending \/ v.paused THEN Becomes(v)
        ELSE /\ voice' = IF voice.mic /\ voice.stream = "live"
                         THEN [torn EXCEPT !.reconnect = "fetching"]
                         ELSE ScheduleReconnect(torn)
             /\ tries' = tries + 1
             /\ UNCHANGED <<mode, said>>

ReconnectReads ==
  /\ voice.reconnect = "fetching"
  /\ Becomes([voice EXCEPT !.reconnect = "reading"])

ReconnectAsks ==
  /\ voice.reconnect = "reading" /\ ~voice.manual
  /\ Becomes([voice EXCEPT !.reconnect = "fetching"])

\* establishPeer sets the peer, its channel and the audio element before it looks
\* for an abort, and leaves them there when it finds one.
ReconnectFetched ==
  /\ voice.reconnect = "reading"
  /\ Becomes(IF voice.manual THEN [voice EXCEPT !.reconnect = "no", !.channel = "stranded"]
             ELSE [voice EXCEPT !.reconnect = "opening", !.channel = "connecting"])

\* The channel may open although the reconnect has given it up.
ReconnectOpens ==
  /\ voice.channel = "connecting" /\ voice.connect # "opening"
  /\ \E account \in Account :
       Becomes([Opened(voice, FALSE, account) EXCEPT !.reconnect = "no"])

ReconnectFails ==
  /\ voice.reconnect # "no"
  /\ Becomes(ScheduleReconnect([voice EXCEPT !.reconnect = "no"]))

\* The network: the data channel closes, the peer drops and may recover.
ChannelCloses ==
  /\ voice.channel \in {"connecting", "open"}
  /\ Becomes(ScheduleReconnect([voice EXCEPT !.channel = "closed"]))

PeerDrops ==
  /\ voice.channel \in {"connecting", "open"}
  /\ Becomes(ScheduleReconnect(voice))

\* disconnect(): the resident presses Stop, and the page lets go of the client.
Stop ==
  /\ ~voice.manual
  /\ Becomes(Disconnect(voice))

ResumeAfterAuth ==
  /\ ~voice.manual /\ voice.paused /\ ~voice.resuming /\ ~voice.resumed
  /\ Becomes([voice EXCEPT !.paused = FALSE, !.resuming = TRUE])

Resumed ==
  /\ voice.resuming
  /\ \E ok \in BOOLEAN :
       LET v == [voice EXCEPT !.resuming = FALSE, !.resumed = TRUE, !.enabled = TRUE]
       IN Becomes(IF ok THEN Enqueue(v, ResponseRequest("resume", NoTurn, FALSE), NoScope) ELSE v)
-----------------------------------------------------------------------------
(* Timers, turns and tools.                                                *)

ResponseCreateTimer ==
  /\ voice.creating # NoRequest
  /\ Becomes(ScheduleReconnect(
       [voice EXCEPT !.creating = NoRequest,
                     !.queue = <<[request |-> voice.creating, after |-> NoScope]>> \o @]))

GracefulEndTimer ==
  /\ voice.endTimer
  /\ Becomes(FinishGracefulEnd([voice EXCEPT !.endTimer = FALSE]))

TranscriptTimer(t) ==
  /\ voice.turns[t].timer
  /\ Becomes(IF Direct
             THEN RemoveIfSettled([voice EXCEPT !.turns[t].timer = FALSE,
                                     !.turns[t].transcript = TRUE, !.turns[t].timedOut = TRUE], t)
             ELSE RemoveTurn(voice, t))

LateTranscriptTimer(t) ==
  /\ voice.turns[t].late
  /\ Becomes([voice EXCEPT !.turns[t].late = FALSE])

\* The page types into the client while its voice is live.
SendText(t) ==
  /\ voice.channel = "open" /\ t \notin voice.used /\ voice.enabled
  /\ LET v == [CreateTurn(voice, t) EXCEPT !.used = @ \cup {t}] IN
     Becomes(IF Direct
             THEN Enqueue([v EXCEPT !.turns[t].transcript = TRUE],
                          ResponseRequest("typed", t, FALSE), NoScope)
             ELSE Submit(v, t))

\* The turn's answer: something to say, perhaps that an account is needed or
\* that the conversation ends; an end without words; or an error.
TurnResult(t) ==
  /\ voice.turns[t].posting
  /\ LET v == [voice EXCEPT !.turns[t].posting = FALSE] IN
     \/ \E end \in BOOLEAN, account \in Account :
          Becomes(Enqueue(IF account THEN Pause(v) ELSE v, ResponseRequest("answer", t, end), NoScope))
     \/ Becomes(FinishGracefulEnd(RemoveTurn(v, t)))
     \/ Becomes(RemoveTurn(v, t))

ToolReturns(x) ==
  /\ x \in voice.tools
  /\ \E end \in BOOLEAN, account \in Account :
       LET v == [voice EXCEPT !.tools = @ \ {x}] IN
       Becomes(Enqueue(IF account THEN Pause(v) ELSE v, ResponseRequest("tool", x.turn, end), x.rid))
-----------------------------------------------------------------------------
(* The provider and the resident.                                          *)

Line == voice.line
Emit(line, e) == [line EXCEPT !.events = Append(@, e)]
Moves(line) == Becomes([voice EXCEPT !.line = line])

Hears == voice.channel = "open" /\ Len(Line.events) < MaxEvents

\* The line once the provider has begun a response, to a command or by itself.
Begun(line, request, reported) ==
  Emit([line EXCEPT !.busy = voice.made + 1, !.making = request, !.playing = TRUE],
       Event("created", voice.made + 1, reported, NoTurn, "ok"))
Begins(v, line, request, reported) ==
  Becomes([v EXCEPT !.made = @ + 1, !.line = Begun(line, request, reported)])

\* A response.create is refused while a response is being generated.
TakeCommand ==
  /\ Hears /\ Line.commands # <<>>
  /\ LET line == [Line EXCEPT !.commands = Tail(@)] IN
     \/ /\ Line.busy = 0 /\ voice.made < MaxResponses
        /\ Begins(voice, line, Head(Line.commands), Head(Line.commands))
     \/ Moves(line)

\* A command arrives sooner than the response before it is generated.
FinishResponse ==
  /\ Hears /\ Line.busy # 0 /\ Line.commands = <<>>
  /\ \E status \in {"completed", "cancelled"} :
       Moves(Emit([Line EXCEPT !.busy = 0, !.making = NoRequest],
                  Event("done", Line.busy, NoRequest, NoTurn, status)))

\* Answers of its own and to typed text may call a tool instead.
CallTool ==
  /\ Direct /\ Hears /\ Line.busy # 0 /\ Line.making.kind \in {"automatic", "typed"}
  /\ \E tool \in {"wait", "work"} :
       Moves(Emit(Emit([Line EXCEPT !.busy = 0, !.making = NoRequest],
                       Event("call", Line.busy, NoRequest, NoTurn, tool)),
                  Event("done", Line.busy, NoRequest, NoTurn, "calling")))

\* The audio runs out, perhaps before that of the response being generated came.
OutputStops ==
  /\ Hears /\ Line.playing
  /\ \E more \in IF Line.busy = 0 THEN {FALSE} ELSE BOOLEAN :
       Moves(Emit([Line EXCEPT !.playing = more],
                  Event("output_stopped", 0, NoRequest, NoTurn, "ok")))

\* The resident speaks while the microphone is on, and cuts off what is said.
Speak(t) ==
  /\ Hears /\ voice.enabled /\ voice.stream = "live" /\ t \notin voice.used
  /\ LET v == [voice EXCEPT !.used = @ \cup {t}]
         cut == IF Line.busy = 0 THEN Line
                ELSE Emit([Line EXCEPT !.busy = 0, !.making = NoRequest],
                          Event("done", Line.busy, NoRequest, NoTurn, "cancelled"))
         line == Emit([cut EXCEPT !.playing = FALSE, !.unheard = @ \cup {t}],
                      Event("speech_stopped", 0, NoRequest, t, "ok"))
     IN \/ ~Direct /\ Becomes([v EXCEPT !.line = line])
        \/ /\ Direct /\ voice.made < MaxResponses
           /\ Begins(v, line, Automatic(t), NoRequest)

Transcribe(t) ==
  /\ Hears /\ t \in Line.unheard
  /\ \E status \in {"words", "noise", "failed"} :
       Moves(Emit([Line EXCEPT !.unheard = @ \ {t}], Event("transcript", 0, NoRequest, t, status)))

ReceiveEvent ==
  /\ voice.channel = "open" /\ Line.events # <<>>
  /\ LET e == Head(Line.events) IN
     /\ \E chance \in BOOLEAN :
          voice' = HandleEvent([voice EXCEPT !.line.events = Tail(@)], e, chance)
     /\ said' = IF e.type = "done" THEN said \cup {voice.request} ELSE said
  /\ UNCHANGED <<mode, tries>>

VoiceNext ==
  \/ Connect \/ MicrophoneAnswer
  \/ ConnectReads \/ ConnectAsks \/ ConnectFetched \/ ConnectOpens \/ ConnectFails
  \/ ReconnectTimer \/ ReconnectReads \/ ReconnectAsks
  \/ ReconnectFetched \/ ReconnectOpens \/ ReconnectFails
  \/ ChannelCloses \/ PeerDrops \/ Stop
  \/ ResumeAfterAuth \/ Resumed
  \/ ResponseCreateTimer \/ GracefulEndTimer
  \/ \E t \in Turns : TranscriptTimer(t) \/ LateTranscriptTimer(t) \/ SendText(t) \/ TurnResult(t)
                        \/ Speak(t) \/ Transcribe(t)
  \/ \E x \in voice.tools : ToolReturns(x)
  \/ TakeCommand \/ FinishResponse \/ CallTool \/ OutputStops \/ ReceiveEvent

VoiceSpec == VoiceInit /\ [][VoiceNext]_voiceVars
-----------------------------------------------------------------------------
VoiceTypeOK ==
  /\ mode \in Modes
  /\ voice.connect \in {"idle", "fetching", "reading", "opening", "ended"}
  /\ voice.reconnect \in {"no", "fetching", "reading", "opening"}
  /\ voice.stream \in {"none", "asked", "live", "stopped"}
  /\ voice.channel \in {"none", "connecting", "open", "closed", "stranded"}
  /\ {voice.creating, voice.request} \subseteq ResponseRequests \cup {NoRequest}
  /\ voice.active \in 0..MaxResponses
  /\ \A i \in DOMAIN voice.queue :
       voice.queue[i].request \in ResponseRequests /\ voice.queue[i].after \in 0..Creating
  /\ voice.attempts \in 0..MaxReconnects

\* However a session ends, and whatever is still pending then, no timer, turn,
\* response or open channel stays behind.  The microphone, also one that is
\* granted only afterwards, is kept by nothing but a connect that still reads a
\* body, and a peer by nothing but the reconnect that did.
EndingReleases ==
  voice.manual =>
    /\ voice.stream = "live" => voice.connect = "reading"
    /\ voice.connect \notin {"fetching", "opening"}
    /\ voice.reconnect \in {"no", "reading"}
    /\ voice.channel \in {"none", "stranded"}
    /\ voice.channel = "stranded" => voice.reconnect = "no"
    /\ ~voice.timer /\ ~voice.endTimer /\ voice.creating = NoRequest /\ voice.active = 0
    /\ \A t \in Turns : voice.turns[t] = NewTurn

\* What disconnect says of itself (client.ts:310): "Stop immediately when the
\* reviewer explicitly presses Stop."
StopIsImmediate == voice.manual => voice.stream # "live" /\ voice.channel = "none"

VoiceInvariant == VoiceTypeOK /\ EndingReleases /\ tries <= MaxReconnects

\* Approved speech on its way to the resident.
OnTheWay(v) ==
  {r \in Queued(v) \cup {v.creating, v.request} : r.kind \in {"opening", "resume", "answer"}}

\* A response is asked for in one place at a time and never again once it ended,
\* though it is repeated after a lost connection and an answer that is late.
SaidOnce ==
  \A r \in OnTheWay(voice) :
    /\ r \notin said
    /\ Cardinality({i \in DOMAIN voice.queue : voice.queue[i].request = r})
         + (IF voice.creating = r THEN 1 ELSE 0) + (IF voice.request = r THEN 1 ELSE 0) = 1

\* What was approved stays on its way until its response ends or the session does.
NothingIsDropped ==
  [][\A r \in OnTheWay(voice) : r \in OnTheWay(voice') \cup said' \/ voice'.manual]_voiceVars

\* A turn of the production mode is not forgotten: it waits for its transcript
\* under a timer, for its answer, or for the response that carries its answer.
TurnsGoOn ==
  \A t \in Turns : ~Direct /\ voice.turns[t].known =>
    \/ voice.turns[t].timer \/ voice.turns[t].posting
    \/ \E r \in OnTheWay(voice) : r.turn = t

\* The provider tells of a response that it began by itself.
BeganByItself(e) == e.type = "created" /\ e.request = NoRequest

\* Something will give the turn its response: a request that is queued or under
\* way, a tool that works for it, or, while no connection was lost, a response of
\* the provider's own that is on the line for the turns in the order of `pending`.
Responding(t) ==
  \/ \E r \in Queued(voice) \cup {voice.creating, voice.request} : r.turn = t
  \/ \E x \in voice.tools : x.turn = t
  \/ \E n \in DOMAIN voice.pending :
       /\ voice.pending[n] = t
       /\ tries > 0 \/ n <= Cardinality({i \in DOMAIN Line.events : BeganByItself(Line.events[i])})

\* In a direct mode a turn is settled by its transcript and its response, and is
\* kept no longer: the transcript comes or its timer does, and the response of a
\* turn is not forgotten before it came.
DirectTurnsSettle ==
  \A t \in Turns : Direct /\ voice.turns[t].known =>
    LET turn == voice.turns[t] IN
    /\ turn.transcript \/ turn.timer
    /\ turn.response \/ Responding(t)
    /\ ~(turn.transcript /\ turn.response)

\* Of what the resident is owed, nothing is said twice or forgotten.
SpeechIsKept == SaidOnce /\ TurnsGoOn

\* What is queued behind a response waits for one that is there or has settled.
WaitsEnd ==
  \A i \in DOMAIN voice.queue :
    voice.queue[i].after \in voice.settled \cup {NoScope, Creating, voice.active}

=============================================================================
