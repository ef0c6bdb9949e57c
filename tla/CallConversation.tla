-------------------------- MODULE CallConversation --------------------------
(***************************************************************************)
(* One attached call of OpenAISipController (openai-sip.ts): the realtime  *)
(* events of its socket, the response queue with its in-flight latch, the  *)
(* chain of transcripts, official lookups, and the effects (link, human    *)
(* transfer, hang-up) that follow an approved announcement.                *)
(*                                                                         *)
(* The state of ActiveCall is the record call; a handler is an operator    *)
(* from one such record to the next, because a handler runs to its end     *)
(* before another starts.  What a handler awaits is a step of its own:     *)
(* a queued turn, a phone-turn request, a lookup, an effect.               *)
(*                                                                         *)
(* The realtime provider is external: it generates one response at a time, *)
(* plays the audio, cancels both when the caller speaks                    *)
(* (interrupt_response), transcribes items in any order and sometimes      *)
(* reports a failure twice; its events arrive in order.                    *)
(***************************************************************************)
EXTENDS Subsequences

CONSTANTS
  MaxItems,       \* bound: audio items of the caller
  MaxRepeats,     \* bound: failure events reported once more
  MaxWire,        \* bound: events on their way
  MaxTurns,       \* CIVYA_PSTN_MAX_TURNS
  MaxRecoveries,  \* MAX_NATIVE_AUDIO_RECOVERIES_PER_CALL
  MaxPrompts      \* prompts to repeat after recoveries that gave nothing, 2 in the code

ASSUME ConversationAssumption ==
  /\ MaxItems \in Nat \ {0} /\ MaxRepeats \in Nat /\ MaxWire \in Nat \ {0}
  /\ MaxTurns \in Nat \ {0} /\ MaxRecoveries \in Nat /\ MaxPrompts \in Nat

VARIABLES
  call,       \* ActiveCall
  lookups,    \* turns for which handleOfficialLookup awaits its phone turn
  generating, \* the response the provider generates
  audio,      \* responses whose audio is being played
  wire,       \* events from the provider to the controller
  items,      \* what became of the caller's audio items
  repeats,    \* failure events reported once more
  played,     \* history: announcements of an effect that were played to their end
  collided    \* history: a response was asked for during another

providerVars == <<generating, audio, items, repeats>>
callVars == <<call, lookups, generating, audio, wire, items, repeats, played, collided>>

Items == 1 .. MaxItems
Sequences == 0 .. MaxItems + MaxRepeats   \* of accepted inputs
Generations == 0 .. MaxItems              \* of interruptions
Effects == {"none", "request", "end_call"} \* "request": send_secure_link, transfer_human

NoTask == [kind |-> "none", effect |-> "none", item |-> 0, seq |-> 0, gen |-> 0, stage |-> "none"]
\* The item of an announcement only identifies it.
Approved(effect, item) == [NoTask EXCEPT !.kind = "approved", !.effect = effect, !.item = item]
Direct(turn) ==
  [NoTask EXCEPT !.kind = "direct", !.item = turn.item, !.seq = turn.seq, !.gen = turn.gen,
                 !.stage = "answer"]
Recovery(item, seq, gen) ==
  [NoTask EXCEPT !.kind = "recovery", !.item = item, !.seq = seq, !.gen = gen]

Task ==
  [kind : {"none", "approved", "direct", "recovery"}, effect : Effects, item : 0 .. MaxItems,
   seq : Sequences, gen : Generations,
   stage : {"none", "answer", "lookup_pending", "lookup_answer"}]
Turn == [item : Items, seq : Sequences, gen : Generations, asking : BOOLEAN]
EventTypes ==
  {"speech_started", "transcribed", "transcript_failed", "response_done", "audio_stopped"}
WireEvent ==
  [type : EventTypes, item : 0 .. MaxItems, completed : BOOLEAN,
   tool : {"none", "echo", "high", "low", "lookup", "invalid"}]
Call ==
  [mode : {"phone_fast", "renderer"}, open : BOOLEAN,
   queue : Seq(Task), inFlight : BOOLEAN, active : Task,
   created : Task,             \* the response.create sent by the last handler
   chain : Seq(Turn), seq : Sequences, gen : Generations,
   heard : [Items -> Generations],   \* speechGenerationByItemId, 0 if not there
   retryPending : BOOLEAN, unintelligible : 0 .. MaxRecoveries,
   recoveries : 0 .. MaxRecoveries, pending : Task, applying : Task,
   turnCount : 0 .. MaxTurns + MaxItems + MaxRepeats]

ConversationTypeOK ==
  /\ call \in Call
  /\ lookups \subseteq Task
  /\ generating \in Task
  /\ audio \subseteq Task /\ played \subseteq Task
  /\ wire \in Seq(WireEvent) /\ Len(wire) <= MaxWire
  /\ items \in [Items -> {"quiet", "said", "transcribed", "failed"}]
  /\ repeats \in 0 .. MaxRepeats
  /\ collided \in BOOLEAN

\* monitor(): the call is attached, with or without the welcome.
NewCall(mode) ==
  [mode |-> mode, open |-> TRUE, queue |-> <<>>, inFlight |-> FALSE, active |-> NoTask,
   created |-> NoTask, chain |-> <<>>, seq |-> 0, gen |-> 0, heard |-> [i \in Items |-> 0],
   retryPending |-> FALSE, unintelligible |-> 0, recoveries |-> 0,
   pending |-> NoTask, applying |-> NoTask, turnCount |-> 0]

-----------------------------------------------------------------------------
(* The queue.                                                              *)

IsCurrent(c, t) == t.seq = c.seq /\ t.gen = c.gen
IsApproved(t) == t.kind = "approved"
IsLasting(t) == t.kind # "recovery"

\* flush: a recovery that is no longer current is skipped; enqueueing keeps one
\* recovery in the queue at most, so one skip is enough.
Flush(c) ==
  LET skip == c.queue # <<>> /\ Head(c.queue).kind = "recovery" /\ ~IsCurrent(c, Head(c.queue))
      queue == IF skip THEN Tail(c.queue) ELSE c.queue
  IN IF c.inFlight \/ ~c.open THEN c
     ELSE IF queue = <<>> THEN [c EXCEPT !.queue = queue]
     ELSE [c EXCEPT !.queue = Tail(queue), !.inFlight = TRUE,
                    !.active = Head(queue), !.created = Head(queue)]

EnqueueTask(c, t) == Flush([c EXCEPT !.queue = Append(@, t)])

EnqueueRecovery(c, t) ==
  Flush([c EXCEPT !.queue = Append(Filter(@, IsLasting), t)])

\* Mutant: questions stay in the queue.
ApprovedOnlyKeeping(queue) == queue
ApprovedOnly(queue) == Filter(queue, IsApproved)

\* The latch is released and the queue goes on.
Unlatched(c) == [c EXCEPT !.active = NoTask, !.inFlight = FALSE]
Release(c) == Flush(Unlatched(c))

-----------------------------------------------------------------------------
(* handleRealtimeEvent.                                                    *)

\* Mutants: every interruption releases the latch, or that of a lookup only.
FreedAlways(c) == TRUE
FreedByLookup(c) == c.active.stage = "lookup_pending"

\* Nothing of the provider's is left to wait for: no audio that could stop, no
\* response that could be done.
Freed(c) == c.pending # NoTask \/ c.active.stage = "lookup_pending"

SpeechStarted(c, i) ==
  LET gen == c.gen + 1
      dropped == \E n \in DOMAIN c.queue : c.queue[n].kind = "recovery"
  IN [c EXCEPT !.gen = gen, !.heard[i] = gen,
               !.queue = ApprovedOnly(@),
               !.retryPending = @ /\ ~dropped,
               !.pending = NoTask,
               !.active = IF @.stage = "lookup_pending" THEN NoTask ELSE @,
               !.inFlight = @ /\ ~Freed(c)]

\* An item that was not heard to start counts as of the current generation.
GenOf(c, i) == IF c.heard[i] # 0 THEN c.heard[i] ELSE c.gen
Forget(c, i) == [c EXCEPT !.heard[i] = 0]

Transcribed(c, i) ==
  LET d == Forget(c, i) IN
  IF GenOf(c, i) # c.gen THEN d
  ELSE [d EXCEPT !.retryPending = FALSE, !.unintelligible = 0, !.seq = @ + 1,
                 !.queue = ApprovedOnly(@),
                 !.chain = Append(@, [item |-> i, seq |-> c.seq + 1, gen |-> c.gen,
                                      asking |-> FALSE])]

TranscriptionFailed(c, i) ==
  LET d == [Forget(c, i) EXCEPT !.seq = @ + 1] IN
  IF GenOf(c, i) # c.gen THEN Forget(c, i)
  ELSE IF c.mode = "phone_fast"
       THEN IF c.recoveries = MaxRecoveries THEN d
            ELSE EnqueueRecovery([d EXCEPT !.recoveries = @ + 1], Recovery(i, d.seq, d.gen))
       ELSE IF c.retryPending THEN d
            ELSE EnqueueTask([d EXCEPT !.retryPending = TRUE], Approved("none", i))

\* finishNativeAudioRecovery.  "none": no usable function call.
FinishRecovery(c, result) ==
  LET turn == c.active
      d == [Unlatched(c) EXCEPT !.retryPending = FALSE]
      missed == [d EXCEPT !.unintelligible = @ + 1]
  IN IF ~IsCurrent(c, turn) \/ result = "echo" THEN Flush(d)
     ELSE IF result = "high"
     THEN [d EXCEPT !.unintelligible = 0,
                    !.chain = Append(@, [item |-> turn.item, seq |-> turn.seq, gen |-> turn.gen,
                                         asking |-> FALSE])]
     ELSE IF missed.unintelligible <= MaxPrompts THEN EnqueueTask(missed, Approved("none", 0))
     ELSE Flush(missed)

\* Mutant: also an incomplete announcement has its effect.
AnnouncedRegardless(completed, t) == t.effect # "none"
Announced(completed, t) == completed /\ t.effect # "none"

\* response.done; tool is the function call it carries, or the recovery result.
\* An invalid call is answered at once with a response without tools.
ResponseDone(c, completed, tool) ==
  LET active == c.active IN
  IF active = NoTask THEN c
  ELSE IF active.kind = "recovery" THEN FinishRecovery(c, IF completed THEN tool ELSE "none")
  ELSE IF completed /\ active.stage = "answer" /\ tool = "lookup" THEN
    [c EXCEPT !.active.stage = "lookup_pending"]
  ELSE IF completed /\ active.stage = "answer" /\ tool = "invalid" THEN
    [c EXCEPT !.active.stage = "lookup_answer",
              !.created = [active EXCEPT !.stage = "lookup_answer"]]
  ELSE IF Announced(completed, active) THEN [c EXCEPT !.active = NoTask, !.pending = active]
  ELSE Release(c)

\* output_audio_buffer.stopped
AudioStopped(c) == [c EXCEPT !.applying = IF c.pending # NoTask THEN c.pending ELSE @,
                             !.pending = NoTask]

-----------------------------------------------------------------------------
(* The steps of the controller.                                            *)

\* What the last handler sent reaches the provider.
Handled(c) ==
  /\ call' = c
  /\ IF c.created = NoTask \/ ~c.open
     THEN UNCHANGED <<generating, collided>>
     ELSE /\ generating' = c.created
          /\ collided' = (collided \/ generating # NoTask)

FreshCall == [call EXCEPT !.created = NoTask]

ReceiveEvent ==
  LET event == Head(wire) IN
  /\ wire # <<>> /\ call.open
  /\ wire' = Tail(wire)
  /\ Handled(CASE event.type = "speech_started"   -> SpeechStarted(FreshCall, event.item)
               [] event.type = "transcribed"      -> Transcribed(FreshCall, event.item)
               [] event.type = "transcript_failed" -> TranscriptionFailed(FreshCall, event.item)
               [] event.type = "response_done"    ->
                       ResponseDone(FreshCall, event.completed, event.tool)
               [] event.type = "audio_stopped"    -> AudioStopped(FreshCall))
  /\ lookups' = IF event.type = "response_done" /\ call'.active.stage = "lookup_pending"
                THEN lookups \cup {call'.active} ELSE lookups
  /\ UNCHANGED <<audio, items, repeats, played>>

\* processTranscript for the head of the chain: superseded, one turn too many,
\* empty, a control phrase, a direct answer, or a request for a phone turn.
TurnStarts ==
  LET turn == Head(call.chain)
      d == [FreshCall EXCEPT !.chain = Tail(@)]
      e == [d EXCEPT !.turnCount = @ + 1]
  IN /\ call.chain # <<>> /\ ~turn.asking
     /\ IF ~IsCurrent(call, turn) THEN Handled(d)
        ELSE IF e.turnCount > MaxTurns
             THEN Handled(EnqueueTask(e, Approved("end_call", turn.item)))
        ELSE \/ Handled(e)
             \/ \E effect \in Effects \ {"none"} :
                   Handled(EnqueueTask(e, Approved(effect, turn.item)))
             \/ call.mode = "phone_fast" /\ Handled(EnqueueTask(e, Direct(turn)))
             \/ call.mode = "renderer"
                /\ Handled([FreshCall EXCEPT !.turnCount = @ + 1, !.chain[1].asking = TRUE])
     /\ UNCHANGED <<lookups, audio, wire, items, repeats, played>>

\* The phone turn, or the local route when it fails.
TurnAnswered ==
  LET turn == Head(call.chain)
      d == [FreshCall EXCEPT !.chain = Tail(@)]
  IN /\ call.chain # <<>> /\ turn.asking
     /\ Handled(IF IsCurrent(call, turn) THEN EnqueueTask(d, Approved("none", turn.item)) ELSE d)
     /\ UNCHANGED <<lookups, audio, wire, items, repeats, played>>

\* Mutant: a superseded lookup keeps the latch.
LookupSupersededHolding(c) == c
\* releaseDirectResponse
LookupSuperseded(c) == Release(c)

\* handleOfficialLookup after its await.  Only the turn that is still active may
\* go on; a failed lookup does not look whether it was superseded.
LookupReturns(turn, outcome) ==
  LET owns == call.active.kind = "direct" /\ call.active.seq = turn.seq
      spoken == [turn EXCEPT !.stage = "lookup_answer"]
  IN /\ turn \in lookups
     /\ lookups' = lookups \ {turn}
     /\ Handled(CASE ~owns -> FreshCall
                  [] owns /\ outcome # "failed" /\ ~IsCurrent(call, turn) ->
                       LookupSuperseded(FreshCall)
                  [] owns /\ outcome = "answered" /\ IsCurrent(call, turn) ->
                       EnqueueTask(Unlatched(FreshCall), Approved("none", turn.item))
                  [] OTHER -> [FreshCall EXCEPT !.active = spoken, !.created = spoken])
     /\ UNCHANGED <<audio, wire, items, repeats, played>>

\* The socket closes: the record is dropped, and what still awaits something finds
\* no open socket.
SocketClosed ==
  /\ call' = [NewCall(call.mode) EXCEPT !.open = FALSE]
  /\ lookups' = {} /\ generating' = NoTask /\ audio' = {} /\ wire' = <<>>
  /\ UNCHANGED <<items, repeats, played, collided>>

\* applyEffectAfterSpeech, and the release of the latch after it.
EffectReturns(succeeded) ==
  LET effect == call.applying
      d == [FreshCall EXCEPT !.applying = NoTask, !.inFlight = FALSE]
  IN /\ effect # NoTask
     /\ \/ /\ effect.effect = "end_call"
           /\ SocketClosed
        \/ /\ effect.effect # "end_call"
           /\ Handled(IF succeeded THEN Flush(d) ELSE EnqueueTask(d, Approved("none", 0)))
           /\ UNCHANGED <<lookups, audio, wire, items, repeats, played>>

\* The caller hangs up, or the maximum duration is over.
Close == call.open /\ SocketClosed

-----------------------------------------------------------------------------
(* The provider.                                                           *)
RealtimeEvent(type) == [type |-> type, item |-> 0, completed |-> FALSE, tool |-> "none"]
Emit(events) == wire' = wire \o events /\ Len(wire) + Len(events) <= MaxWire

Quiet(i) == items[i] = "quiet" /\ \A j \in 1 .. i - 1 : items[j] # "quiet"

\* The caller speaks: what is generated and played is cancelled; a recovery, which
\* is outside the conversation, may go on.
CallerSpeaks(i) ==
  /\ call.open /\ Quiet(i)
  /\ items' = [items EXCEPT ![i] = "said"]
  /\ audio' = {}
  /\ \E cancel \in BOOLEAN :
       /\ cancel => generating # NoTask
       /\ generating.kind \in {"approved", "direct"} => cancel
       /\ generating' = IF cancel THEN NoTask ELSE generating
       /\ Emit(<<[RealtimeEvent("speech_started") EXCEPT !.item = i]>>
                 \o IF cancel THEN <<RealtimeEvent("response_done")>> ELSE <<>>)
  /\ UNCHANGED <<call, lookups, repeats, played, collided>>

\* The idle timeout commits an item without speech.
IdleItem(i) ==
  /\ call.open /\ Quiet(i)
  /\ items' = [items EXCEPT ![i] = "said"]
  /\ UNCHANGED <<call, lookups, generating, audio, wire, repeats, played, collided>>

Transcribe(i, failed) ==
  /\ call.open
  /\ \/ items[i] = "said" /\ UNCHANGED repeats
     \/ items[i] = "failed" /\ failed /\ repeats < MaxRepeats /\ repeats' = repeats + 1
  /\ items' = [items EXCEPT ![i] = IF failed THEN "failed" ELSE "transcribed"]
  /\ LET type == IF failed THEN "transcript_failed" ELSE "transcribed"
     IN Emit(<<[RealtimeEvent(type) EXCEPT !.item = i]>>)
  /\ UNCHANGED <<call, lookups, generating, audio, played, collided>>

Tools(t) == IF t.kind = "recovery" THEN {"none", "echo", "high", "low"}
            ELSE IF t.stage = "answer" THEN {"none", "lookup", "invalid"} ELSE {"none"}

\* The response is complete, or ends incomplete: what was played of an incomplete
\* one is not the announcement of its effect.
Generated(completed, tool) ==
  /\ call.open /\ generating # NoTask
  /\ tool \in Tools(generating)
  /\ Emit(<<[RealtimeEvent("response_done") EXCEPT !.completed = completed, !.tool = tool]>>)
  /\ audio' = IF generating.kind = "recovery" THEN audio
              ELSE audio \cup {IF completed THEN generating ELSE [generating EXCEPT !.effect = "none"]}
  /\ generating' = NoTask
  /\ UNCHANGED <<call, lookups, items, repeats, played, collided>>

AudioDrains ==
  /\ call.open /\ audio # {}
  /\ Emit(<<RealtimeEvent("audio_stopped")>>)
  /\ played' = played \cup {t \in audio : t.effect # "none"}
  /\ audio' = {}
  /\ UNCHANGED <<call, lookups, generating, items, repeats, collided>>

-----------------------------------------------------------------------------
CallInit ==
  /\ \E mode \in {"phone_fast", "renderer"}, welcome \in BOOLEAN :
       call = IF welcome THEN EnqueueTask(NewCall(mode), Approved("none", 0)) ELSE NewCall(mode)
  /\ lookups = {}
  /\ generating = call.created
  /\ audio = {} /\ wire = <<>>
  /\ items = [i \in Items |-> "quiet"]
  /\ repeats = 0 /\ played = {} /\ collided = FALSE

LookupOutcomes == {"answered", "unsupported", "failed"}

Controller ==
  \/ ReceiveEvent
  \/ TurnStarts \/ TurnAnswered
  \/ \E turn \in lookups, outcome \in LookupOutcomes : LookupReturns(turn, outcome)
  \/ \E succeeded \in BOOLEAN : EffectReturns(succeeded)
Provider ==
  \/ \E i \in Items : CallerSpeaks(i) \/ IdleItem(i)
  \/ \E i \in Items, failed \in BOOLEAN : Transcribe(i, failed)
  \/ \E completed \in BOOLEAN, tool \in {"none", "echo", "high", "low", "lookup", "invalid"} :
       Generated(completed, tool)
  \/ AudioDrains

CallNext == Controller \/ Provider \/ Close

CallSpec == CallInit /\ [][CallNext]_callVars

\* The provider ends responses, plays audio and delivers its events; awaited
\* requests return (each has a timeout).  Nothing is assumed of the caller.
CallFairness ==
  /\ WF_callVars(ReceiveEvent) /\ WF_callVars(TurnStarts) /\ WF_callVars(TurnAnswered)
  /\ WF_callVars(\E turn \in lookups, outcome \in LookupOutcomes : LookupReturns(turn, outcome))
  /\ WF_callVars(\E succeeded \in BOOLEAN : EffectReturns(succeeded))
  /\ WF_callVars(\E completed \in BOOLEAN : Generated(completed, "none"))
  /\ WF_callVars(AudioDrains)

FairCallSpec == CallSpec /\ CallFairness

-----------------------------------------------------------------------------
Coming(type) == \E n \in DOMAIN wire : wire[n].type = type

\* The provider refuses a response while it generates another, and nothing would
\* release the latch: however speech, lookups and effects release it early, no
\* response is asked for before the last one ended (handleRealtimeEvent, flush).
ResponsesNeverCollide == ~collided

\* While the latch holds the queue back, something that will release it is under
\* way: the active response or its end, the lookup of the active turn, the
\* announcement of the pending effect still playing or cut short, or an effect.
\* While nothing is, no question waits (flush).
LatchIsExplained ==
  call.open =>
    IF call.inFlight
    THEN \/ call.active # NoTask /\ (generating = call.active \/ Coming("response_done"))
         \/ call.active.stage = "lookup_pending" /\ call.active \in lookups
         \/ call.pending # NoTask /\ (call.pending \in audio \/ Coming("audio_stopped")
                                      \/ Coming("speech_started"))
         \/ call.applying # NoTask
    ELSE \A n \in DOMAIN call.queue : IsApproved(call.queue[n])

\* The state is well-formed, responses never collide, and a latch that holds the queue
\* back will be released.
ConversationInvariant == ConversationTypeOK /\ ResponsesNeverCollide /\ LatchIsExplained

\* "Effects run only after OpenAI reports the approved announcement completed"
\* (docs/plans/2026-07-17-pstn-shared-protocol.md:276): a link, transfer or hang-up
\* follows its own announcement, complete and played to the end.
EffectsFollowSpeech == call.applying # NoTask => call.applying \in played

\* A question is answered only while it is the last the caller asked: whoever
\* speaks again before the answer was asked for does not hear it.
AnswersMatchLatestSpeech == call.created.stage = "answer" => call.created.gen = call.gen

\* The latch is released again and again: "later real speech never inherits an
\* indefinite latch" (openai-sip.ts:989).
LatchIsReleased == call.inFlight ~> ~call.inFlight
=============================================================================
