--------------------------- MODULE ResidentsProofs ---------------------------
(***************************************************************************)
(* What holds of a resident's two ways in.  The voice session in the       *)
(* browser, for any number of turns, responses, events and reconnects:     *)
(* speech that waits is for no ended session, nothing that was to be said  *)
(* is dropped, and it is said apart and once.  The access to cases, for    *)
(* any number of accounts, cases, proofs, links and requests: an           *)
(* entitlement that stands is of the account its case belongs to, and a    *)
(* resident and a case belong to one.                                      *)
(***************************************************************************)
EXTENDS VoiceClient, CaseAccess, SubsequencesProofs, WellFoundedInduction

-----------------------------------------------------------------------------
(* A voice session, for any number of turns, responses, events and         *)
(* reconnects.  First its types.                                           *)

Ids == 0 .. MaxResponses
Spoken == ResponseRequests \cup {NoRequest}
Queueing == [request : ResponseRequests, after : 0 .. Creating]
TurnState ==
  [known : BOOLEAN, timer : BOOLEAN, posting : BOOLEAN, transcript : BOOLEAN,
   response : BOOLEAN, timedOut : BOOLEAN, late : BOOLEAN]
LineEvent ==
  [type : {"speech_stopped", "transcript", "created", "call", "done", "output_stopped"},
   rid : Ids, request : Spoken, turn : Turns \cup {NoTurn},
   status : {"ok", "completed", "cancelled", "calling", "wait", "work", "words", "noise", "failed"}]
LineState ==
  [commands : Seq(ResponseRequests), events : Seq(LineEvent), busy : Ids, making : Spoken,
   playing : BOOLEAN, unheard : SUBSET Turns]
Voice ==
  [connect : {"idle", "fetching", "reading", "opening", "ended"},
   reconnect : {"no", "fetching", "reading", "opening"},
   stream : {"none", "asked", "live", "stopped"}, mic : BOOLEAN,
   enabled : BOOLEAN, manual : BOOLEAN, ending : BOOLEAN, paused : BOOLEAN,
   resuming : BOOLEAN, resumed : BOOLEAN, attempts : 0 .. MaxReconnects, timer : BOOLEAN,
   channel : {"none", "connecting", "open", "closed", "stranded"},
   creating : Spoken, active : Ids, request : Spoken, queue : Seq(Queueing),
   settled : SUBSET Ids, over : BOOLEAN, endTimer : BOOLEAN, recent : BOOLEAN,
   turns : [Turns -> TurnState], tools : SUBSET [rid : Ids, turn : Turns \cup {NoTurn}],
   used : SUBSET Turns, pending : Seq(Turns), made : Ids, line : LineState]

\* The same sets by name, for the steps that only say that a client with some fields set
\* is a client.
Flags == BOOLEAN
Connects == {"idle", "fetching", "reading", "opening", "ended"}
Reconnects == {"no", "fetching", "reading", "opening"}
Streams == {"none", "asked", "live", "stopped"}
Channels == {"none", "connecting", "open", "closed", "stranded"}
Attempts == 0 .. MaxReconnects
Queues == Seq(Queueing)
Scopes == SUBSET Ids
TurnTable == [Turns -> TurnState]
Jobs == SUBSET [rid : Ids, turn : Turns \cup {NoTurn}]
Talk == SUBSET Turns
Waiting == Seq(Turns)
Boxed ==
  [connect : Connects, reconnect : Reconnects, stream : Streams, mic : Flags,
   enabled : Flags, manual : Flags, ending : Flags, paused : Flags,
   resuming : Flags, resumed : Flags, attempts : Attempts, timer : Flags,
   channel : Channels, creating : Spoken, active : Ids, request : Spoken, queue : Queues,
   settled : Scopes, over : Flags, endTimer : Flags, recent : Flags,
   turns : TurnTable, tools : Jobs, used : Talk, pending : Waiting, made : Ids, line : LineState]

-----------------------------------------------------------------------------
(* The inductive invariant, of the client v, in mode m, with what was said *)
(* and the number of reconnects.                                           *)

\* The flags that the parts read, as predicates.
IsManual(v) == v.manual
IsEnding(v) == v.ending
HasTimer(v) == v.timer
HasMic(v) == v.mic
WasResumed(v) == v.resumed
IsResuming(v) == v.resuming
EndsTimed(v) == v.endTimer
IsPosting(v, t) == v.turns[t].posting
IsKnown(v, t) == v.turns[t].known
IsTimed(v, t) == v.turns[t].timer
IsHeard(v, t) == v.turns[t].transcript

Released(v) ==
  IsManual(v) =>
    /\ v.stream = "live" => v.connect = "reading"
    /\ v.connect # "fetching" /\ v.connect # "opening"
    /\ v.channel \in {"none", "stranded"} /\ v.reconnect \in {"no", "reading"}
    /\ v.channel = "stranded" => v.reconnect = "no"
    /\ ~HasTimer(v) /\ ~EndsTimed(v) /\ v.creating = NoRequest /\ v.active = 0
    /\ \A t \in Turns : v.turns[t] = NewTurn
MicrophoneHeld(v) == v.stream = "live" /\ ~HasMic(v) => v.connect \in {"fetching", "reading"}
Started(v) ==
  /\ v.connect = "idle" => IsManual(v)
  /\ IsEnding(v) => IsManual(v) /\ v.connect # "idle"

\* Every reconnect, and one that is due, is one of the attempts.
Counted(v, n) ==
  /\ n \in Nat /\ n <= v.attempts
  /\ HasTimer(v) => n + 1 <= v.attempts

\* Approved speech is in one place.
Owed(r) == r.kind \in {"opening", "resume", "answer"}
Distinct(q) ==
  \A i, j \in DOMAIN q : Owed(q[i].request) /\ q[i].request = q[j].request => i = j
Apart(v) ==
  /\ Distinct(v.queue)
  /\ Owed(v.creating) => v.creating \notin Queued(v) /\ v.creating # v.request
  /\ Owed(v.request) => v.request \notin Queued(v)
Unsaid(v, s) == \A r \in OnTheWay(v) : r \notin s

\* What may still be asked for was not yet.
Uttered(v, s) == OnTheWay(v) \cup s
Answered(v, s, t) == \E r \in Uttered(v, s) : r.kind = "answer" /\ r.turn = t
Hearing(w, t) == {n \in DOMAIN w : w[n].type = "transcript" /\ w[n].turn = t}
NotYet(v, s, t) == ~IsPosting(v, t) /\ ~Answered(v, s, t)
Fresh(v, s) ==
  /\ v.connect # "ended" => \A r \in Uttered(v, s) : r.kind # "opening"
  /\ ~WasResumed(v) => \A r \in Uttered(v, s) : r.kind # "resume"
  /\ IsResuming(v) => ~WasResumed(v)
TurnFresh(v, s, t) ==
  /\ t \notin v.used => t \notin v.line.unheard /\ Hearing(v.line.events, t) = {} /\ NotYet(v, s, t)
  /\ t \in v.line.unheard => Hearing(v.line.events, t) = {} /\ NotYet(v, s, t)
  /\ \A m, n \in Hearing(v.line.events, t) : m = n
  /\ Hearing(v.line.events, t) # {} => NotYet(v, s, t)
  /\ IsPosting(v, t) => ~Answered(v, s, t)

\* The line begins a response when none is active: what is active after each of
\* the events in flight.
Follows(at, w) ==
  \A n \in DOMAIN w :
    /\ w[n].type = "created" => at[n - 1] = 0 /\ at[n] = w[n].rid /\ w[n].rid # 0
    /\ w[n].type = "done" => at[n] = 0
    /\ w[n].type \notin {"created", "done"} => at[n] = at[n - 1]
InTurn(w, active, busy) ==
  \E at \in [0 .. Len(w) -> Ids] : at[0] = active /\ at[Len(w)] = busy /\ Follows(at, w)
LineOK(v, m) ==
  /\ InTurn(v.line.events, v.active, v.line.busy)
  /\ v.active = 0 => v.request = NoRequest
  /\ \A n \in DOMAIN v.line.events :
       v.line.events[n].type \in {"speech_stopped", "transcript"} => v.line.events[n].turn \in Turns
  /\ m # "direct" => \A n \in DOMAIN v.line.events :
       v.line.events[n].type # "call" /\ v.line.events[n].status # "calling"

\* A turn goes on.  Of a direct mode this says only that its transcript came or
\* that its timer runs.
GoesOn(v, m, t) ==
  /\ IsKnown(v, t) =>
       \/ IsTimed(v, t) \/ IsPosting(v, t)
       \/ m = "direct" /\ IsHeard(v, t)
       \/ m # "direct" /\ \E r \in OnTheWay(v) : r.turn = t
  /\ IsPosting(v, t) => m # "direct"

Sound(v, m, s, n) ==
  /\ v \in Voice
  /\ Released(v) /\ MicrophoneHeld(v) /\ Started(v) /\ Counted(v, n)
  /\ Apart(v) /\ Unsaid(v, s) /\ Fresh(v, s) /\ LineOK(v, m)
  /\ \A t \in Turns : TurnFresh(v, s, t) /\ GoesOn(v, m, t)

VoiceIInv == mode \in Modes /\ Sound(voice, mode, said, tries)

-----------------------------------------------------------------------------
(* Members of the types, and queues.                                       *)

LEMMA VoiceFacts ==
  /\ 0 \in Ids /\ Ids \subseteq Nat /\ Ids \subseteq 0 .. Creating
  /\ NoScope \in 0 .. Creating /\ Creating \in 0 .. Creating /\ NoScope = 0
  /\ NoRequest \in Spoken /\ NoRequest \notin ResponseRequests /\ ~Owed(NoRequest)
  /\ NoRequest.turn = NoTurn
  /\ ResponseRequests \subseteq Spoken /\ NewTurn \in TurnState /\ SilentLine \in LineState
  /\ NoTurn \notin Turns
<1>1. Creating = MaxResponses + 1 /\ MaxResponses \in Nat /\ Creating \in Nat
  BY VoiceAssumption DEF Creating
<1>2. NoRequest.kind = "none" /\ NoRequest.turn = NoTurn
  BY DEF NoRequest, ResponseRequest
<1>3. NoRequest \notin ResponseRequests /\ ~Owed(NoRequest)
  BY <1>2 DEF ResponseRequests, Owed
<1>4. NewTurn \in TurnState
  BY DEF NewTurn, TurnState
<1>5. <<>> \in Seq(ResponseRequests) /\ <<>> \in Seq(LineEvent)
  OBVIOUS
<1>6. 0 \in Ids /\ Ids \subseteq Nat /\ Ids \subseteq 0 .. Creating
  BY <1>1 DEF Ids
<1>7. SilentLine \in LineState
  BY <1>5, <1>6 DEF SilentLine, LineState, Spoken
<1> QED BY <1>1, <1>2, <1>3, <1>4, <1>6, <1>7, VoiceAssumption DEF Spoken, NoScope

LEMMA Boxes == Voice = Boxed
BY DEF Voice, Boxed, Flags, Connects, Reconnects, Streams, Channels, Attempts, Queues, Scopes,
       TurnTable, Jobs, Talk, Waiting

LEMMA BoxFacts ==
  /\ TRUE \in Flags /\ FALSE \in Flags
  /\ "fetching" \in Connects /\ "reading" \in Connects
  /\ "opening" \in Connects /\ "ended" \in Connects
  /\ "no" \in Reconnects /\ "opening" \in Reconnects /\ "asked" \in Streams
  /\ "none" \in Channels /\ "connecting" \in Channels /\ "closed" \in Channels
  /\ "stranded" \in Channels
  /\ 0 \in Ids /\ NoRequest \in Spoken /\ SilentLine \in LineState
  /\ <<>> \in Queues /\ {} \in Scopes /\ <<>> \in Waiting
  /\ [t \in Turns |-> NewTurn] \in TurnTable
<1>1. [t \in Turns |-> NewTurn] \in TurnTable
  BY VoiceFacts DEF TurnTable
<1>2. <<>> \in Queues /\ {} \in Scopes /\ <<>> \in Waiting
  BY DEF Queues, Scopes, Waiting
<1> QED BY <1>1, <1>2, VoiceFacts DEF Flags, Connects, Reconnects, Streams, Channels

LEMMA RequestFacts ==
  ASSUME NEW t \in Turns \cup {NoTurn}, NEW end \in BOOLEAN,
         NEW k \in {"opening", "resume", "answer", "typed", "automatic", "repeat", "tool"}
  PROVE  ResponseRequest(k, t, end) \in ResponseRequests /\ ResponseRequest(k, t, end).kind = k /\ ResponseRequest(k, t, end).turn = t
BY DEF ResponseRequest, ResponseRequests

LEMMA RequestFields ==
  ASSUME NEW r \in ResponseRequests
  PROVE  /\ r.kind \in {"opening", "resume", "answer", "typed", "automatic", "repeat", "tool"}
         /\ r.turn \in Turns \cup {NoTurn} /\ r.end \in BOOLEAN /\ r # NoRequest /\ r \in Spoken
BY VoiceFacts DEF ResponseRequests

\* What a queue asks for.
Asked(q) == {q[i].request : i \in DOMAIN q}

LEMMA AskedAppend ==
  ASSUME NEW q \in Seq(Queueing), NEW x \in Queueing, NEW p, p = Append(q, x)
  PROVE  /\ p \in Seq(Queueing) /\ Asked(p) = Asked(q) \cup {x.request}
         /\ Distinct(q) /\ (Owed(x.request) => x.request \notin Asked(q)) => Distinct(p)
<1>1. /\ p \in Seq(Queueing) /\ DOMAIN p = 1 .. Len(q) + 1 /\ DOMAIN q = 1 .. Len(q)
      /\ Len(q) \in Nat /\ p[Len(q) + 1] = x /\ \A n \in DOMAIN q : p[n] = q[n]
  BY Appended
<1>2. \A n \in DOMAIN p : n \in DOMAIN q \/ n = Len(q) + 1
  BY <1>1
<1>3. DOMAIN q \subseteq DOMAIN p /\ Len(q) + 1 \in DOMAIN p
  BY <1>1
<1>4. Asked(p) = Asked(q) \cup {x.request}
  BY <1>1, <1>2, <1>3 DEF Asked
<1>5. ASSUME Distinct(q), Owed(x.request) => x.request \notin Asked(q)
      PROVE  Distinct(p)
  <2> SUFFICES ASSUME NEW i \in DOMAIN p, NEW j \in DOMAIN p, Owed(p[i].request),
                      p[i].request = p[j].request
               PROVE  i = j
    BY DEF Distinct
  <2>1. CASE i \in DOMAIN q /\ j \in DOMAIN q
    BY <1>1, <1>5, <2>1 DEF Distinct
  <2>2. CASE i \in DOMAIN q /\ j \notin DOMAIN q
    BY <1>1, <1>2, <1>5, <2>2 DEF Asked
  <2>3. CASE i \notin DOMAIN q /\ j \in DOMAIN q
    BY <1>1, <1>2, <1>5, <2>3 DEF Asked
  <2>4. CASE i \notin DOMAIN q /\ j \notin DOMAIN q
    BY <1>2, <2>4
  <2> QED BY <2>1, <2>2, <2>3, <2>4
<1> QED BY <1>1, <1>4, <1>5

LEMMA AskedPrepend ==
  ASSUME NEW q \in Seq(Queueing), NEW x \in Queueing, NEW p, p = <<x>> \o q
  PROVE  /\ p \in Seq(Queueing) /\ Asked(p) = Asked(q) \cup {x.request}
         /\ Distinct(q) /\ (Owed(x.request) => x.request \notin Asked(q)) => Distinct(p)
<1>1. /\ p \in Seq(Queueing) /\ DOMAIN p = 1 .. Len(q) + 1 /\ DOMAIN q = 1 .. Len(q)
      /\ Len(q) \in Nat /\ p[1] = x /\ \A n \in DOMAIN q : p[n + 1] = q[n]
  BY Prepended
<1>2. \A n \in DOMAIN p : n = 1 \/ (n - 1 \in DOMAIN q /\ p[n] = q[n - 1])
  <2> SUFFICES ASSUME NEW n \in DOMAIN p, n # 1
               PROVE  n - 1 \in DOMAIN q /\ p[n] = q[n - 1]
    OBVIOUS
  <2>1. n - 1 \in DOMAIN q /\ n - 1 + 1 = n
    BY <1>1
  <2> QED BY <1>1, <2>1
<1>3. 1 \in DOMAIN p /\ \A n \in DOMAIN q : n + 1 \in DOMAIN p
  BY <1>1
<1>4. Asked(p) = Asked(q) \cup {x.request}
  <2>1. Asked(p) \subseteq Asked(q) \cup {x.request}
    BY <1>1, <1>2 DEF Asked
  <2>2. Asked(q) \subseteq Asked(p)
    BY <1>1, <1>3 DEF Asked
  <2>3. x.request \in Asked(p)
    BY <1>1, <1>3, Zenon DEF Asked
  <2> QED BY <2>1, <2>2, <2>3
<1>5. ASSUME Distinct(q), Owed(x.request) => x.request \notin Asked(q)
      PROVE  Distinct(p)
  <2> SUFFICES ASSUME NEW i \in DOMAIN p, NEW j \in DOMAIN p, Owed(p[i].request),
                      p[i].request = p[j].request
               PROVE  i = j
    BY DEF Distinct
  <2>1. CASE i # 1 /\ j # 1
    <3>1. i - 1 = j - 1
      BY <1>2, <1>5, <2>1 DEF Distinct
    <3> QED BY <1>1, <3>1
  <2>2. CASE i # 1 /\ j = 1
    BY <1>1, <1>2, <1>5, <2>2 DEF Asked
  <2>3. CASE i = 1 /\ j # 1
    BY <1>1, <1>2, <1>5, <2>3 DEF Asked
  <2> QED BY <2>1, <2>2, <2>3
<1> QED BY <1>1, <1>4, <1>5

\* Other marks on the same requests.
LEMMA AskedRelabelled ==
  ASSUME NEW q \in Seq(Queueing), NEW p, DOMAIN p = DOMAIN q, p = [i \in DOMAIN q |-> p[i]],
         \A i \in DOMAIN q : p[i] \in Queueing /\ p[i].request = q[i].request
  PROVE  p \in Seq(Queueing) /\ Asked(p) = Asked(q) /\ (Distinct(q) => Distinct(p))
<1>1. DOMAIN q = 1 .. Len(q) /\ Len(q) \in Nat
  BY LenProperties
<1>2. p \in Seq(Queueing)
  BY <1>1
<1> QED BY <1>2 DEF Asked, Distinct

LEMMA RemoveAtForm ==
  ASSUME NEW S, NEW q \in Seq(S), NEW i \in DOMAIN q, NEW p, p = RemoveAt(q, i)
  PROVE  p \in Seq(S) /\ Selects(p, q, DOMAIN q \ {i})
<1>1. i \in Nat /\ 1 <= i /\ i <= Len(q) /\ Len(q) \in Nat /\ DOMAIN q = 1 .. Len(q)
  BY LenProperties
<1> DEFINE low == SubSeq(q, 1, i - 1)
           high == SubSeq(q, i + 1, Len(q))
           at == [k \in DOMAIN p |-> IF k < i THEN k ELSE k + 1]
<1>2. \A k \in DOMAIN q : q[k] \in S
  BY ElementOfSeq, <1>1
<1>3. low \in Seq(S) /\ Len(low) = i - 1 /\ \A k \in 1 .. i - 1 : low[k] = q[k]
  <2>1. 1 \in 1 .. Len(q) + 1 /\ i - 1 \in 1 - 1 .. Len(q)
    BY <1>1
  <2>2. /\ low \in Seq(S) /\ Len(low) = IF 1 <= i - 1 THEN i - 1 - 1 + 1 ELSE 0
        /\ \A k \in 1 .. i - 1 - 1 + 1 : low[k] = q[1 + k - 1]
    BY <1>1, <2>1, SubSeqProperties
  <2>3. i - 1 - 1 + 1 = i - 1 /\ (~(1 <= i - 1) => i - 1 = 0) /\ \A k \in 1 .. i - 1 : 1 + k - 1 = k
    BY <1>1
  <2> QED BY <2>2, <2>3
<1>4. /\ high \in Seq(S) /\ Len(high) = Len(q) - i
      /\ \A k \in 1 .. Len(q) - i : high[k] = q[k + i]
  <2>1. i + 1 \in 1 .. Len(q) + 1 /\ Len(q) \in i + 1 - 1 .. Len(q)
    BY <1>1
  <2>2. /\ high \in Seq(S) /\ Len(high) = IF i + 1 <= Len(q) THEN Len(q) - (i + 1) + 1 ELSE 0
        /\ \A k \in 1 .. Len(q) - (i + 1) + 1 : high[k] = q[i + 1 + k - 1]
    BY <1>1, <2>1, SubSeqProperties
  <2>3. /\ Len(q) - (i + 1) + 1 = Len(q) - i /\ (~(i + 1 <= Len(q)) => Len(q) - i = 0)
        /\ \A k \in 1 .. Len(q) - i : i + 1 + k - 1 = k + i
    BY <1>1
  <2> QED BY <2>2, <2>3, Zenon
<1>5. p = low \o high
  BY DEF RemoveAt
<1> HIDE DEF low, high
<1>6. /\ p \in Seq(S) /\ Len(p) = Len(q) - 1
      /\ \A k \in 1 .. Len(q) - 1 : p[k] = IF k <= i - 1 THEN low[k] ELSE high[k - (i - 1)]
  <2>1. /\ p \in Seq(S) /\ Len(p) = Len(low) + Len(high)
        /\ \A k \in 1 .. Len(low) + Len(high) :
             p[k] = IF k <= Len(low) THEN low[k] ELSE high[k - Len(low)]
    <3>1. /\ low \o high \in Seq(S) /\ Len(low \o high) = Len(low) + Len(high)
          /\ \A k \in 1 .. Len(low) + Len(high) :
               (low \o high)[k] = IF k <= Len(low) THEN low[k] ELSE high[k - Len(low)]
      BY <1>3, <1>4, ConcatProperties, Zenon
    <3> QED BY <1>5, <3>1
  <2>2. Len(low) + Len(high) = Len(q) - 1
    BY <1>1, <1>3, <1>4
  <2> QED BY <1>3, <2>1, <2>2, Zenon
<1>7. DOMAIN p = 1 .. Len(q) - 1
  BY <1>6, LenProperties
<1>8. \A k \in DOMAIN p : p[k] = q[at[k]] /\ at[k] \in DOMAIN q \ {i}
  <2> SUFFICES ASSUME NEW k \in DOMAIN p
               PROVE  p[k] = q[at[k]] /\ at[k] \in DOMAIN q \ {i}
    OBVIOUS
  <2>1. k \in Nat /\ 1 <= k /\ k <= Len(q) - 1
    BY <1>1, <1>7
  <2>2. CASE k < i
    <3>1. k <= i - 1 /\ k \in 1 .. i - 1 /\ k \in DOMAIN q \ {i}
      BY <1>1, <2>1, <2>2
    <3> QED BY <1>3, <1>6, <1>7, <2>2, <3>1
  <2>3. CASE ~(k < i)
    <3>1. /\ ~(k <= i - 1) /\ k - (i - 1) \in 1 .. Len(q) - i /\ k - (i - 1) + i = k + 1
          /\ k + 1 \in DOMAIN q \ {i}
      BY <1>1, <2>1, <2>3
    <3> QED BY <1>4, <1>6, <1>7, <2>3, <3>1, Zenon
  <2> QED BY <2>2, <2>3
<1>9. \A j, k \in DOMAIN p : j < k => at[j] < at[k]
  BY <1>1, <1>7
<1>10. \A n \in DOMAIN q \ {i} : \E k \in DOMAIN p : at[k] = n
  <2> SUFFICES ASSUME NEW n \in DOMAIN q \ {i}
               PROVE  \E k \in DOMAIN p : at[k] = n
    OBVIOUS
  <2>1. CASE n < i
    <3>1. n \in DOMAIN p
      BY <1>1, <1>7, <2>1
    <3> QED BY <2>1, <3>1
  <2>2. CASE ~(n < i)
    <3>1. n - 1 \in DOMAIN p /\ ~(n - 1 < i) /\ n - 1 + 1 = n
      BY <1>1, <1>7, <2>2
    <3> QED BY <3>1
  <2> QED BY <2>1, <2>2
<1>11. at \in [DOMAIN p -> DOMAIN q \ {i}]
  BY <1>8
<1> HIDE DEF at
<1>12. Selects(p, q, DOMAIN q \ {i})
  BY <1>8, <1>9, <1>10, <1>11 DEF Selects
<1> QED BY <1>6, <1>12

\* A queue that loses one of its requests.
LEMMA AskedWithout ==
  ASSUME NEW q \in Seq(Queueing), NEW i \in DOMAIN q, NEW p, p = RemoveAt(q, i), Distinct(q)
  PROVE  /\ p \in Seq(Queueing) /\ Distinct(p)
         /\ \A r : Owed(r) => (r \in Asked(p) <=> r \in Asked(q) /\ r # q[i].request)
<1>1. p \in Seq(Queueing) /\ Selects(p, q, DOMAIN q \ {i})
  BY RemoveAtForm
<1>2. PICK at \in [DOMAIN p -> DOMAIN q \ {i}] :
        /\ \A k \in DOMAIN p : p[k] = q[at[k]]
        /\ \A j, k \in DOMAIN p : j < k => at[j] < at[k]
        /\ \A n \in DOMAIN q \ {i} : \E k \in DOMAIN p : at[k] = n
  BY <1>1 DEF Selects
<1>3. Distinct(p)
  <2> SUFFICES ASSUME NEW j \in DOMAIN p, NEW k \in DOMAIN p, Owed(p[j].request),
                      p[j].request = p[k].request
               PROVE  j = k
    BY DEF Distinct
  <2>1. at[j] = at[k] /\ at[j] \in DOMAIN q /\ at[k] \in DOMAIN q
    BY <1>2 DEF Distinct
  <2>2. j \in Nat /\ k \in Nat /\ at[j] \in Nat /\ at[k] \in Nat
    BY <1>1, <2>1, LenProperties
  <2> QED BY <1>2, <2>1, <2>2
<1>4. ASSUME NEW r, Owed(r)
      PROVE  r \in Asked(p) <=> r \in Asked(q) /\ r # q[i].request
  <2>1. ASSUME r \in Asked(p) PROVE r \in Asked(q) /\ r # q[i].request
    <3>1. PICK k \in DOMAIN p : r = p[k].request
      BY <2>1 DEF Asked
    <3>2. at[k] \in DOMAIN q /\ at[k] # i /\ r = q[at[k]].request
      BY <1>2, <3>1
    <3> QED BY <1>4, <3>2 DEF Asked, Distinct
  <2>2. ASSUME r \in Asked(q), r # q[i].request PROVE r \in Asked(p)
    <3>1. PICK n \in DOMAIN q : r = q[n].request
      BY <2>2 DEF Asked
    <3>2. PICK k \in DOMAIN p : at[k] = n
      BY <1>2, <2>2, <3>1
    <3> QED BY <1>2, <3>1, <3>2 DEF Asked
  <2> QED BY <2>1, <2>2
<1> QED BY <1>1, <1>3, <1>4

-----------------------------------------------------------------------------
(* The end of a session, which may come at almost any time.                *)

LEMMA NothingOnTheWay ==
  ASSUME NEW v, v.queue = <<>>, v.creating = NoRequest, v.request = NoRequest
  PROVE  OnTheWay(v) = {} /\ Apart(v)
<1>1. Queued(v) = {}
  BY DEF Queued
<1>2. OnTheWay(v) = {}
  BY <1>1, VoiceFacts DEF OnTheWay, Owed
<1>3. Apart(v)
  BY VoiceFacts DEF Apart, Distinct
<1> QED BY <1>2, <1>3

LEMMA SilentInTurn ==
  ASSUME NEW v, v.line = SilentLine, v.active = 0, v.request = NoRequest, NEW m
  PROVE  LineOK(v, m) /\ v.line.unheard = {} /\ \A t \in Turns : Hearing(v.line.events, t) = {}
<1>1. v.line.events = <<>> /\ v.line.busy = 0 /\ v.line.unheard = {}
  BY DEF SilentLine
<1>2. InTurn(<<>>, 0, 0)
  <2> DEFINE at == [n \in 0 .. Len(<<>>) |-> 0]
  <2>1. at \in [0 .. Len(<<>>) -> Ids] /\ at[0] = 0 /\ at[Len(<<>>)] = 0
    BY VoiceFacts
  <2>2. Follows(at, <<>>)
    BY DEF Follows
  <2> HIDE DEF at
  <2> QED BY <2>1, <2>2 DEF InTurn
<1> QED BY <1>1, <1>2 DEF LineOK, Hearing

\* What must hold for the session to be ended.
Endable(v, s, n) ==
  /\ v \in Voice /\ v.connect # "idle"
  /\ MicrophoneHeld(v) /\ Counted(v, n)
  /\ v.connect # "ended" => \A r \in s : r.kind # "opening"
  /\ ~WasResumed(v) => \A r \in s : r.kind # "resume"
  /\ IsResuming(v) => ~WasResumed(v)
  /\ \A t \in Turns : t \notin v.used => \A r \in s : ~(r.kind = "answer" /\ r.turn = t)

LEMMA SoundIsEndable ==
  ASSUME NEW v, NEW m, NEW s, NEW n, Sound(v, m, s, n), v.connect # "idle"
  PROVE  Endable(v, s, n)
<1>1. ASSUME NEW t \in Turns, t \notin v.used, NEW r \in s
      PROVE  ~(r.kind = "answer" /\ r.turn = t)
  BY <1>1 DEF Sound, TurnFresh, NotYet, Answered, Uttered
<1> QED BY <1>1 DEF Sound, Endable, Fresh, Uttered

LEMMA CaughtFields ==
  ASSUME NEW v \in Voice, NEW f, f = Caught(v)
  PROVE  /\ f \in Voice /\ f.connect = "ended"
         /\ f.stream = (IF v.stream = "live" THEN "stopped" ELSE v.stream)
         /\ f = [v EXCEPT !.connect = f.connect, !.stream = f.stream]
<1> DEFINE stream == IF v.stream = "live" THEN "stopped" ELSE v.stream
<1>1. f = [v EXCEPT !.connect = "ended", !.stream = stream]
  BY DEF Caught
<1>2. f.connect = "ended" /\ f.stream = stream
  BY <1>1 DEF Voice
<1>3. stream \in {"none", "asked", "live", "stopped"}
  BY DEF Voice
<1> HIDE DEF stream
<1>4. f \in Voice
  <2>1. v \in Boxed /\ stream \in Streams
    BY <1>3, Boxes DEF Streams
  <2>2. [v EXCEPT !.connect = "ended", !.stream = stream] \in Boxed
    BY <2>1, BoxFacts, Zenon DEF Boxed
  <2> QED BY <1>1, <2>2, Boxes
<1> QED BY <1>1, <1>2, <1>4 DEF stream

LEMMA AbortedFields ==
  ASSUME NEW v \in Voice, NEW f, f = Aborted(v)
  PROVE  /\ f \in Voice
         /\ f.connect = (IF v.connect \in {"fetching", "opening"} THEN "ended" ELSE v.connect)
         /\ f.stream = (IF v.connect \in {"fetching", "opening"} /\ v.stream = "live"
                        THEN "stopped" ELSE v.stream)
         /\ f = [v EXCEPT !.connect = f.connect, !.stream = f.stream]
<1>1. CASE v.connect \in {"fetching", "opening"}
  <2>1. f = Caught(v)
    BY <1>1 DEF Aborted
  <2> QED BY <1>1, <2>1, CaughtFields
<1>2. CASE v.connect \notin {"fetching", "opening"}
  <2>1. f = v
    BY <1>2 DEF Aborted
  <2>2. v = [v EXCEPT !.connect = v.connect, !.stream = v.stream]
    BY Zenon DEF Voice
  <2> QED BY <1>2, <2>1, <2>2
<1> QED BY <1>1, <1>2

\* What is left of a connection that was torn down, with the queue q.
Torn(f, v, q) ==
  /\ f \in Voice /\ f.queue = q /\ f.channel = "none" /\ f.creating = NoRequest
  /\ f.active = 0 /\ f.request = NoRequest /\ f.line = SilentLine
  /\ f.connect = v.connect /\ f.reconnect = v.reconnect /\ f.stream = v.stream
  /\ f.mic = v.mic /\ f.manual = v.manual /\ f.ending = v.ending /\ f.paused = v.paused
  /\ f.attempts = v.attempts /\ f.timer = v.timer /\ f.endTimer = v.endTimer
  /\ f.resumed = v.resumed /\ f.resuming = v.resuming
  /\ f.turns = v.turns /\ f.used = v.used

LEMMA TeardownFields ==
  ASSUME NEW v \in Voice, NEW preserve \in BOOLEAN, NEW q \in Seq(Queueing),
         NEW before, before = IF preserve THEN Interrupted(v) ELSE <<>>, q = before \o v.queue,
         NEW f, f = Teardown(v, preserve)
  PROVE  Torn(f, v, q)
<1>1. f = [v EXCEPT !.queue = q, !.channel = "none", !.creating = NoRequest, !.active = 0,
                    !.request = NoRequest, !.line = SilentLine]
  BY DEF Teardown
<1>2. NoRequest \in Spoken /\ SilentLine \in LineState /\ 0 \in Ids
  BY VoiceFacts
<1>3. f \in Voice
  <2>1. v \in Boxed /\ q \in Queues
    BY Boxes DEF Queues
  <2>2. [v EXCEPT !.queue = q, !.channel = "none", !.creating = NoRequest, !.active = 0,
           !.request = NoRequest, !.line = SilentLine] \in Boxed
    BY <2>1, BoxFacts, Zenon DEF Boxed
  <2> QED BY <1>1, <2>2, Boxes
<1>4. /\ f.queue = q /\ f.channel = "none" /\ f.creating = NoRequest
      /\ f.active = 0 /\ f.request = NoRequest /\ f.line = SilentLine
      /\ f.connect = v.connect /\ f.reconnect = v.reconnect /\ f.stream = v.stream
      /\ f.mic = v.mic /\ f.manual = v.manual /\ f.ending = v.ending /\ f.paused = v.paused
      /\ f.attempts = v.attempts /\ f.timer = v.timer /\ f.endTimer = v.endTimer
  BY <1>1 DEF Voice
<1>5. /\ f.resumed = v.resumed /\ f.resuming = v.resuming
      /\ f.turns = v.turns /\ f.used = v.used
  BY <1>1 DEF Voice
<1> QED BY <1>3, <1>4, <1>5 DEF Torn

\* What is left of a session that was ended.
Disconnected(f, v) ==
  /\ f \in Voice /\ IsManual(f) /\ (IsEnding(f) <=> IsEnding(v))
  /\ f.connect = (IF v.connect \in {"fetching", "opening"} THEN "ended" ELSE v.connect)
  /\ (f.stream = "live" => v.stream = "live" /\ ~HasMic(v) /\ v.connect # "fetching")
  /\ f.channel = "none" /\ f.reconnect \in {"no", "reading"} /\ ~HasTimer(f) /\ ~EndsTimed(f)
  /\ f.creating = NoRequest /\ f.active = 0 /\ f.request = NoRequest /\ f.queue = <<>>
  /\ f.turns = [t \in Turns |-> NewTurn] /\ f.line = SilentLine
  /\ f.attempts = v.attempts /\ f.used = v.used /\ (WasResumed(f) <=> WasResumed(v))
  /\ (IsResuming(f) <=> IsResuming(v))

LEMMA DisconnectFields ==
  ASSUME NEW v \in Voice, NEW f, f = Disconnect(v)
  PROVE  Disconnected(f, v)
<1> DEFINE d == Aborted(v)
           e == Teardown(d, FALSE)
           stream == IF v.mic /\ e.stream = "live" THEN "stopped" ELSE e.stream
           reconnect == IF e.reconnect = "reading" THEN e.reconnect ELSE "no"
           g == [e EXCEPT !.manual = TRUE, !.reconnect = reconnect, !.timer = FALSE, !.endTimer = FALSE,
                  !.turns = [t \in Turns |-> NewTurn], !.pending = <<>>]
<1>1. /\ d \in Voice
      /\ d.connect = (IF v.connect \in {"fetching", "opening"} THEN "ended" ELSE v.connect)
      /\ d.stream = (IF v.connect \in {"fetching", "opening"} /\ v.stream = "live"
                     THEN "stopped" ELSE v.stream)
      /\ d = [v EXCEPT !.connect = d.connect, !.stream = d.stream]
  BY AbortedFields, Zenon
<1>2. /\ d.mic = v.mic /\ d.ending = v.ending /\ d.attempts = v.attempts /\ d.used = v.used
      /\ d.resumed = v.resumed /\ d.resuming = v.resuming
  BY <1>1, ZenonT(30) DEF Voice
<1>3. f = [g EXCEPT !.queue = <<>>, !.over = FALSE, !.settled = {}, !.stream = stream, !.mic = FALSE]
  BY DEF Disconnect
<1> HIDE DEF d
<1>4. /\ e \in Voice /\ e.channel = "none" /\ e.creating = NoRequest
      /\ e.active = 0 /\ e.request = NoRequest /\ e.line = SilentLine
      /\ e.connect = d.connect /\ e.stream = d.stream
      /\ e.mic = d.mic /\ e.ending = d.ending
      /\ e.attempts = d.attempts
      /\ e.resumed = d.resumed /\ e.resuming = d.resuming /\ e.used = d.used
  <2>1. d.queue \in Seq(Queueing) /\ d.queue = <<>> \o d.queue
    BY <1>1, ConcatEmptySeq DEF Voice
  <2>2. FALSE \in BOOLEAN /\ <<>> = IF FALSE THEN Interrupted(d) ELSE <<>>
    OBVIOUS
  <2>3. Torn(e, d, d.queue)
    BY <1>1, <2>1, <2>2, TeardownFields, Zenon
  <2> HIDE DEF e
  <2> QED BY <2>3 DEF Torn
<1> HIDE DEF e
<1>5. stream \in {"none", "asked", "live", "stopped"}
  BY <1>4 DEF Voice
<1>r. reconnect \in {"no", "reading"} /\ reconnect \in Reconnects
  BY DEF Reconnects
<1> HIDE DEF reconnect
<1>6. g \in Voice
  <2>1. e \in Boxed /\ reconnect \in Reconnects
    BY <1>4, <1>r, Boxes
  <2>2. g \in Boxed
    BY <2>1, BoxFacts, Zenon DEF Boxed
  <2> QED BY <2>2, Boxes
<1>7. /\ g.manual = TRUE /\ g.reconnect \in {"no", "reading"} /\ g.timer = FALSE /\ g.endTimer = FALSE
      /\ g.turns = [t \in Turns |-> NewTurn]
      /\ g.channel = "none" /\ g.creating = NoRequest
      /\ g.active = 0 /\ g.request = NoRequest /\ g.line = SilentLine
      /\ g.connect = e.connect /\ g.ending = e.ending
      /\ g.attempts = e.attempts
      /\ g.resumed = e.resumed /\ g.resuming = e.resuming /\ g.used = e.used
  BY <1>4, <1>r DEF Voice
<1> HIDE DEF g
<1>8. f.stream = stream /\ f.queue = <<>>
  BY <1>3, <1>6 DEF Voice
<1>9. f.stream = "live" => v.stream = "live" /\ ~HasMic(v) /\ v.connect # "fetching"
  BY <1>1, <1>2, <1>4, <1>8 DEF HasMic
<1> HIDE DEF stream
<1>10. f \in Voice
  <2>1. g \in Boxed /\ stream \in Streams
    BY <1>5, <1>6, Boxes DEF Streams
  <2>2. [g EXCEPT !.queue = <<>>, !.over = FALSE, !.settled = {}, !.stream = stream,
           !.mic = FALSE] \in Boxed
    BY <2>1, BoxFacts, Zenon DEF Boxed
  <2> QED BY <1>3, <2>2, Boxes
<1>11. /\ f.manual = TRUE /\ f.reconnect = g.reconnect /\ f.timer = FALSE /\ f.endTimer = FALSE
       /\ f.turns = [t \in Turns |-> NewTurn]
       /\ f.channel = "none" /\ f.creating = NoRequest
       /\ f.active = 0 /\ f.request = NoRequest /\ f.line = SilentLine
       /\ f.connect = g.connect /\ f.ending = g.ending
       /\ f.attempts = g.attempts
       /\ f.resumed = g.resumed /\ f.resuming = g.resuming /\ f.used = g.used
  BY <1>3, <1>6, <1>7 DEF Voice
<1> QED BY <1>1, <1>2, <1>4, <1>7, <1>8, <1>9, <1>10, <1>11
        DEF Disconnected, IsManual, IsEnding, HasTimer, EndsTimed, WasResumed, IsResuming

LEMMA DisconnectKeeps ==
  ASSUME NEW v, NEW m, NEW s, NEW n, Endable(v, s, n), NEW f, f = Disconnect(v)
  PROVE  Sound(f, m, s, n) /\ IsManual(f) /\ f.connect # "idle"
<1>1. v \in Voice /\ v.connect # "idle"
  BY DEF Endable
<1>2. Disconnected(f, v)
  BY <1>1, DisconnectFields
<1>3. /\ f.connect \in {"ended", "reading"}
      /\ f.connect = "reading" <=> v.connect = "reading"
  <2>1. v.connect \in {"idle", "fetching", "reading", "opening", "ended"}
    BY <1>1 DEF Voice
  <2> QED BY <1>1, <1>2, <2>1 DEF Disconnected
<1>4. f.stream = "live" => f.connect = "reading"
  BY <1>2, <1>3 DEF Endable, MicrophoneHeld, Disconnected
<1>5. \A t \in Turns : f.turns[t] = NewTurn
  BY <1>2 DEF Disconnected
<1>6. Released(f) /\ MicrophoneHeld(f) /\ Started(f) /\ IsManual(f)
  BY <1>2, <1>3, <1>4, <1>5
     DEF Released, MicrophoneHeld, Started, Disconnected
<1>7. Counted(f, n)
  BY <1>2 DEF Endable, Counted, Disconnected
<1>8. OnTheWay(f) = {} /\ Apart(f)
  BY <1>2, NothingOnTheWay DEF Disconnected
<1>9. Unsaid(f, s) /\ Uttered(f, s) = s
  BY <1>8 DEF Unsaid, Uttered
<1>10. Fresh(f, s)
  BY <1>2, <1>3, <1>9 DEF Fresh, Endable, Disconnected
<1>11. LineOK(f, m) /\ f.line.unheard = {} /\ \A t \in Turns : Hearing(f.line.events, t) = {}
  BY <1>2, SilentInTurn, Zenon DEF Disconnected
<1>12. ASSUME NEW t \in Turns
       PROVE  TurnFresh(f, s, t) /\ GoesOn(f, m, t)
  <2>1. ~IsPosting(f, t) /\ ~IsKnown(f, t)
    BY <1>5 DEF IsPosting, IsKnown, NewTurn
  <2>2. t \notin f.used => ~Answered(f, s, t)
    BY <1>2, <1>9 DEF Endable, Answered, Disconnected
  <2>3. TurnFresh(f, s, t)
    BY <1>11, <2>1, <2>2 DEF TurnFresh, NotYet
  <2> QED BY <2>1, <2>3 DEF GoesOn
<1>13. f \in Voice
  BY <1>2 DEF Disconnected
<1> QED BY <1>3, <1>6, <1>7, <1>8, <1>9, <1>10, <1>11, <1>12, <1>13 DEF Sound

LEMMA FinishKeeps ==
  ASSUME NEW v, NEW m, NEW s, NEW n, Endable(v, s, n), ~IsEnding(v), NEW f, f = FinishGracefulEnd(v)
  PROVE  Sound(f, m, s, n) /\ IsManual(f) /\ f.connect # "idle"
<1> DEFINE d == [v EXCEPT !.ending = TRUE]
<1>1. v \in Voice
  BY DEF Endable
<1>2. d \in Voice
  BY <1>1, ZenonT(60) DEF Voice
<1>3. /\ d.connect = v.connect /\ d.stream = v.stream /\ d.mic = v.mic /\ d.attempts = v.attempts
      /\ d.timer = v.timer /\ d.resumed = v.resumed /\ d.resuming = v.resuming /\ d.used = v.used
  BY <1>1 DEF Voice
<1>4. f = Disconnect(d)
  BY DEF FinishGracefulEnd, IsEnding
<1> HIDE DEF d
<1>5. Endable(d, s, n)
  BY <1>2, <1>3
     DEF Endable, MicrophoneHeld, HasMic, Counted, HasTimer, WasResumed, IsResuming
<1> QED BY <1>4, <1>5, DisconnectKeeps

-----------------------------------------------------------------------------
(* Steps that leave the turns and the events alone.                        *)

\* What may be asked for.
MayAsk(v, s, r) ==
  /\ r \notin s
  /\ r.kind = "opening" => v.connect = "ended"
  /\ r.kind = "resume" => WasResumed(v)
  /\ r.kind = "answer" => /\ r.turn \in v.used /\ r.turn \notin v.line.unheard
                          /\ Hearing(v.line.events, r.turn) = {} /\ ~IsPosting(v, r.turn)

\* Only what is on its way grew, by the requests of W.
Alike(f, v, W) ==
  /\ OnTheWay(f) = OnTheWay(v) \cup W
  /\ f.used = v.used /\ f.turns = v.turns
  /\ f.line.unheard = v.line.unheard /\ f.line.events = v.line.events
  /\ WasResumed(v) => WasResumed(f)
  /\ IsResuming(f) => ~WasResumed(f) \/ (IsResuming(v) /\ (WasResumed(f) => WasResumed(v)))
  /\ f.connect # "ended" => v.connect # "ended"

\* All but that the turns go on, and that those do for which nothing of W is asked.
Calm(v, m, s, n) ==
  /\ v \in Voice
  /\ Released(v) /\ MicrophoneHeld(v) /\ Started(v) /\ Counted(v, n)
  /\ Apart(v) /\ Unsaid(v, s) /\ Fresh(v, s) /\ LineOK(v, m)
  /\ \A t \in Turns : TurnFresh(v, s, t)
Carried(v, m, W) ==
  \A t \in Turns : GoesOn(v, m, t) \/ (m # "direct" /\ \E r \in W : r.turn = t)

LEMMA SoundIsCalm ==
  ASSUME NEW v, NEW m, NEW s, NEW n
  PROVE  /\ Sound(v, m, s, n) <=> Calm(v, m, s, n) /\ \A t \in Turns : GoesOn(v, m, t)
         /\ Sound(v, m, s, n) => \A W : Carried(v, m, W)
BY DEF Sound, Calm, Carried

LEMMA AlikeKeeps ==
  ASSUME NEW v, NEW m, NEW s, NEW n, Calm(v, m, s, n),
         NEW f, NEW W, Carried(v, m, W), Alike(f, v, W), \A r \in W : MayAsk(v, s, r)
  PROVE  /\ Unsaid(f, s) /\ Fresh(f, s)
         /\ \A t \in Turns : TurnFresh(f, s, t) /\ GoesOn(f, m, t)
<1>1. OnTheWay(f) = OnTheWay(v) \cup W /\ Uttered(f, s) = Uttered(v, s) \cup W
  BY DEF Alike, Uttered
<1>2. Unsaid(f, s)
  BY <1>1 DEF Unsaid, MayAsk, Calm
<1>3. Fresh(f, s)
  <2>1. Fresh(v, s)
    BY DEF Calm
  <2>2. f.connect # "ended" => \A r \in Uttered(f, s) : r.kind # "opening"
    BY <1>1, <2>1 DEF Fresh, Alike, MayAsk
  <2>3. ~WasResumed(f) => \A r \in Uttered(f, s) : r.kind # "resume"
    BY <1>1, <2>1 DEF Fresh, Alike, MayAsk
  <2>4. IsResuming(f) => ~WasResumed(f)
    BY <2>1 DEF Fresh, Alike
  <2> QED BY <2>2, <2>3, <2>4 DEF Fresh
<1>4. ASSUME NEW t \in Turns PROVE TurnFresh(f, s, t) /\ GoesOn(f, m, t)
  <2>1. /\ (IsPosting(f, t) <=> IsPosting(v, t)) /\ (IsKnown(f, t) <=> IsKnown(v, t))
        /\ (IsTimed(f, t) <=> IsTimed(v, t)) /\ (IsHeard(f, t) <=> IsHeard(v, t))
    BY DEF Alike, IsPosting, IsKnown, IsTimed, IsHeard
  <2>2. /\ TurnFresh(v, s, t)
        /\ GoesOn(v, m, t) \/ (m # "direct" /\ \E r \in W : r.turn = t)
    BY DEF Calm, Carried
  <2>3. ASSUME Answered(f, s, t), ~Answered(v, s, t)
        PROVE  /\ t \in v.used /\ t \notin v.line.unheard
               /\ Hearing(v.line.events, t) = {} /\ ~IsPosting(v, t)
    <3>1. PICK r \in W : r.kind = "answer" /\ r.turn = t
      BY <1>1, <2>3 DEF Answered
    <3> QED BY <3>1 DEF MayAsk
  <2>4. TurnFresh(f, s, t)
    BY <2>1, <2>2, <2>3 DEF TurnFresh, NotYet, Alike
  <2>5. GoesOn(f, m, t)
    BY <1>1, <2>1, <2>2 DEF GoesOn
  <2> QED BY <2>4, <2>5
<1> QED BY <1>2, <1>3, <1>4

LEMMA SpeechStays ==
  ASSUME NEW v, NEW f, f.queue = v.queue, f.creating = v.creating, f.request = v.request
  PROVE  OnTheWay(f) = OnTheWay(v) /\ (Apart(v) => Apart(f)) /\ Queued(f) = Queued(v)
<1>1. Queued(f) = Queued(v)
  BY DEF Queued
<1> QED BY <1>1 DEF OnTheWay, Apart

\* The steps of a session.
Kept(f, v, m, s, n) ==
  /\ Sound(f, m, s, n) /\ (v.connect # "idle" => f.connect # "idle")
  /\ IsManual(v) => IsManual(f)
  /\ IsManual(f) \/ OnTheWay(f) = OnTheWay(v)

LEMMA ScheduleKeeps ==
  ASSUME NEW v, NEW m, NEW s, NEW n, Sound(v, m, s, n), NEW f, f = ScheduleReconnect(v)
  PROVE  Kept(f, v, m, s, n)
<1>1. CASE f = v
  BY <1>1 DEF Kept
<1>2. CASE ~IsManual(v) /\ f = Disconnect(v)
  <2>1. v.connect # "idle"
    BY <1>2 DEF Sound, Started
  <2>2. Endable(v, s, n)
    BY <2>1, SoundIsEndable
  <2> QED BY <1>2, <2>2, DisconnectKeeps DEF Kept
<1>3. CASE /\ ~IsManual(v) /\ ~HasTimer(v) /\ v.attempts < MaxReconnects
           /\ f = [v EXCEPT !.attempts = @ + 1, !.timer = TRUE]
  <2>1. v \in Voice /\ Counted(v, n) /\ v.attempts + 1 \in 0 .. MaxReconnects
    BY <1>3, VoiceAssumption DEF Sound, Voice
  <2>2. f \in Voice
    <3>1. v \in Boxed /\ v.attempts + 1 \in Attempts
      BY <2>1, Boxes DEF Attempts
    <3>2. [v EXCEPT !.attempts = v.attempts + 1, !.timer = TRUE] \in Boxed
      BY <3>1, BoxFacts, Zenon DEF Boxed
    <3> QED BY <1>3, <3>2, Boxes
  <2>3. /\ f.attempts = v.attempts + 1 /\ f.connect = v.connect /\ f.stream = v.stream
        /\ f.mic = v.mic /\ f.manual = v.manual /\ f.ending = v.ending
        /\ f.queue = v.queue /\ f.creating = v.creating /\ f.request = v.request
        /\ f.active = v.active /\ f.line = v.line /\ f.used = v.used /\ f.turns = v.turns
        /\ f.resumed = v.resumed /\ f.resuming = v.resuming
    BY <1>3, <2>1 DEF Voice
  <2>4. Released(f) /\ MicrophoneHeld(f) /\ Started(f)
    BY <1>3, <2>3 DEF Sound, Released, MicrophoneHeld, Started, IsManual, IsEnding, HasMic
  <2>5. Counted(f, n)
    <3>1. n \in Nat /\ n <= v.attempts /\ v.attempts \in Nat
      BY <2>1 DEF Counted, Voice
    <3> QED BY <2>3, <3>1 DEF Counted
  <2>6. OnTheWay(f) = OnTheWay(v) /\ Apart(f)
    BY <2>3, SpeechStays DEF Sound
  <2>7. Alike(f, v, {})
    BY <2>3, <2>6 DEF Alike, WasResumed, IsResuming
  <2>8. LineOK(f, m)
    BY <2>3 DEF Sound, LineOK
  <2>9. /\ Unsaid(f, s) /\ Fresh(f, s)
        /\ \A t \in Turns : TurnFresh(f, s, t) /\ GoesOn(f, m, t)
    BY <2>7, SoundIsCalm, AlikeKeeps
  <2> QED BY <1>3, <2>2, <2>3, <2>4, <2>5, <2>6, <2>8, <2>9 DEF Sound, Kept
<1>4. v.attempts \in Nat /\ MaxReconnects \in Nat
  BY VoiceAssumption DEF Sound, Voice
<1> QED BY <1>1, <1>2, <1>3, <1>4 DEF ScheduleReconnect, IsManual, HasTimer

-----------------------------------------------------------------------------
(* The response queue.                                                     *)

LEMMA QueuedIsAsked ==
  ASSUME NEW v PROVE Queued(v) = Asked(v.queue)
BY DEF Queued, Asked

\* A request that is put back in front of a queue.
PutBack(p, q, r) ==
  /\ p \in Seq(Queueing)
  /\ \A u : Owed(u) => (u \in Asked(p) <=> u \in Asked(q) \/ u = r)
  /\ Distinct(q) /\ (Owed(r) => r \notin Asked(q)) => Distinct(p)

LEMMA AskedAgain ==
  ASSUME NEW q \in Seq(Queueing), NEW r \in Spoken
  PROVE  PutBack(Again(r) \o q, q, r)
<1> DEFINE p == Again(r) \o q
<1>0. p = Again(r) \o q
  OBVIOUS
<1> HIDE DEF p
<1> SUFFICES PutBack(p, q, r)
  BY <1>0
<1>1. CASE r = NoRequest
  <2>1. p = q
    BY <1>0, <1>1, ConcatEmptySeq DEF Again
  <2> QED BY <1>1, <2>1, VoiceFacts DEF PutBack
<1>2. CASE r # NoRequest
  <2> DEFINE u == [r EXCEPT !.kind = IF r.kind = "automatic" THEN "repeat" ELSE r.kind]
             x == [request |-> u, after |-> NoScope]
  <2>1. r \in ResponseRequests
    BY <1>2 DEF Spoken
  <2>2. u \in ResponseRequests /\ (u = r \/ (~Owed(u) /\ ~Owed(r)))
    <3>1. CASE r.kind = "automatic"
      <4>1. u \in ResponseRequests /\ u.kind = "repeat"
        BY <2>1, <3>1 DEF ResponseRequests
      <4> QED BY <3>1, <4>1 DEF Owed
    <3>2. CASE r.kind # "automatic"
      <4>1. u = r
        BY <2>1, <3>2 DEF ResponseRequests
      <4> QED BY <2>1, <4>1
    <3> QED BY <3>1, <3>2
  <2>3. x \in Queueing /\ x.request = u
    BY <2>2, VoiceFacts DEF Queueing
  <2>4. p = <<x>> \o q
    BY <1>0, <1>2 DEF Again
  <2> HIDE DEF x, u
  <2>5. /\ p \in Seq(Queueing) /\ Asked(p) = Asked(q) \cup {u}
        /\ Distinct(q) /\ (Owed(u) => u \notin Asked(q)) => Distinct(p)
    BY <2>3, <2>4, AskedPrepend, Zenon
  <2> QED BY <2>2, <2>5 DEF PutBack
<1> QED BY <1>1, <1>2

LEMMA AgainTyped ==
  ASSUME NEW r \in Spoken
  PROVE  Again(r) \in Seq(Queueing)
<1>1. CASE r = NoRequest
  BY <1>1 DEF Again
<1>2. CASE r # NoRequest
  <2> DEFINE u == [r EXCEPT !.kind = IF r.kind = "automatic" THEN "repeat" ELSE r.kind]
             x == [request |-> u, after |-> NoScope]
  <2>1. r \in ResponseRequests
    BY <1>2 DEF Spoken
  <2>2. u \in ResponseRequests
    BY <2>1 DEF ResponseRequests
  <2>3. x \in Queueing
    BY <2>2, VoiceFacts DEF Queueing
  <2>4. Again(r) = <<x>>
    BY <1>2 DEF Again
  <2> HIDE DEF x
  <2> QED BY <2>3, <2>4
<1> QED BY <1>1, <1>2

\* What is being said when the connection is torn down goes back to the queue.
LEMMA InterruptedForm ==
  ASSUME NEW v \in Voice, Apart(v), NEW q, q = Interrupted(v) \o v.queue
  PROVE  /\ q \in Seq(Queueing) /\ Distinct(q)
         /\ \A u : Owed(u) => (u \in Asked(q) <=> u \in OnTheWay(v))
<1> DEFINE p == Again(v.request) \o v.queue
<1>1. v.queue \in Seq(Queueing) /\ v.request \in Spoken /\ v.creating \in Spoken
  BY DEF Voice
<1>0. p = Again(v.request) \o v.queue
  OBVIOUS
<1>9. q = Interrupted(v) \o v.queue
  OBVIOUS
<1> HIDE DEF p
<1>2. PutBack(p, v.queue, v.request)
  BY <1>0, <1>1, AskedAgain
<1>3. q = Again(v.creating) \o p
  <2>2. Again(v.creating) \in Seq(Queueing) /\ Again(v.request) \in Seq(Queueing)
    BY <1>1, AgainTyped
  <2>3. \A x, y, z \in Seq(Queueing) : (x \o y) \o z = x \o (y \o z)
    BY ConcatAssociative
  <2> QED BY <1>0, <1>1, <2>2, <2>3, Zenon DEF Interrupted
<1>4. PutBack(q, p, v.creating)
  <2>1. p \in Seq(Queueing)
    BY <1>2 DEF PutBack
  <2> QED BY <1>1, <1>3, <2>1, AskedAgain
<1>5. Distinct(p) /\ (Owed(v.creating) => v.creating \notin Asked(p))
  BY <1>2, QueuedIsAsked DEF Apart, PutBack
<1>6. \A u : Owed(u) => (u \in OnTheWay(v) <=> u \in Asked(v.queue) \/ u = v.creating \/ u = v.request)
  BY QueuedIsAsked DEF OnTheWay, Owed
<1> QED BY <1>2, <1>4, <1>5, <1>6 DEF PutBack

\* Where nothing is said or asked for, what is on its way is in the queue.
LEMMA OnlyQueued ==
  ASSUME NEW v, v.creating = NoRequest, v.request = NoRequest, Distinct(v.queue)
  PROVE  /\ Apart(v) /\ \A u : Owed(u) => (u \in OnTheWay(v) <=> u \in Asked(v.queue))
         /\ \A u \in OnTheWay(v) : Owed(u)
<1>1. Apart(v)
  BY VoiceFacts DEF Apart
<1>2. \A u : Owed(u) => (u \in OnTheWay(v) <=> u \in Asked(v.queue))
  BY QueuedIsAsked, VoiceFacts DEF OnTheWay, Owed
<1> QED BY <1>1, <1>2 DEF OnTheWay, Owed

LEMMA OnTheWayIsOwed ==
  ASSUME NEW v PROVE \A u \in OnTheWay(v) : Owed(u)
BY DEF OnTheWay, Owed

\* The connection is torn down: what was being said is kept, and the line is new.
LEMMA TeardownKeeps ==
  ASSUME NEW v, NEW m, NEW s, NEW n, Sound(v, m, s, n), NEW f, f = Teardown(v, TRUE)
  PROVE  /\ Kept(f, v, m, s, n) /\ f.reconnect = v.reconnect /\ f.stream = v.stream
         /\ f.mic = v.mic /\ f.manual = v.manual /\ f.ending = v.ending /\ f.paused = v.paused
         /\ f.timer = v.timer /\ f.attempts = v.attempts /\ f.connect = v.connect
<1> DEFINE q == Interrupted(v) \o v.queue
<1>1. v \in Voice /\ Apart(v)
  BY DEF Sound
<1>2. /\ q \in Seq(Queueing) /\ Distinct(q)
      /\ \A u : Owed(u) => (u \in Asked(q) <=> u \in OnTheWay(v))
  BY <1>1, InterruptedForm, Zenon
<1>3. Torn(f, v, q)
  <2>1. TRUE \in BOOLEAN /\ Interrupted(v) = IF TRUE THEN Interrupted(v) ELSE <<>>
    OBVIOUS
  <2> QED BY <1>1, <1>2, <2>1, TeardownFields, Zenon
<1> HIDE DEF q
<1>4. f.queue = q /\ f.creating = NoRequest /\ f.request = NoRequest
  BY <1>3, Zenon DEF Torn
<1>5. Apart(f) /\ OnTheWay(f) = OnTheWay(v)
  BY <1>2, <1>4, OnlyQueued, OnTheWayIsOwed, Zenon
<1>6. LineOK(f, m) /\ f.line.unheard = {} /\ \A t \in Turns : Hearing(f.line.events, t) = {}
  BY <1>3, SilentInTurn, Zenon DEF Torn
<1>7. Released(f) /\ MicrophoneHeld(f) /\ Started(f) /\ Counted(f, n)
  BY <1>3, Zenon DEF Sound, Released, MicrophoneHeld, Started, Counted, Torn,
              IsManual, IsEnding, HasTimer, EndsTimed, HasMic
<1>8. Uttered(f, s) = Uttered(v, s)
  BY <1>5, Zenon DEF Uttered
<1>9. Unsaid(f, s) /\ Fresh(f, s)
  BY <1>3, <1>5, <1>8, Zenon DEF Sound, Unsaid, Fresh, Torn, WasResumed, IsResuming
<1>10. ASSUME NEW t \in Turns PROVE TurnFresh(f, s, t) /\ GoesOn(f, m, t)
  <2>1. f.turns = v.turns /\ f.used = v.used
    BY <1>3, Zenon DEF Torn
  <2>2. /\ (IsPosting(f, t) <=> IsPosting(v, t)) /\ (IsKnown(f, t) <=> IsKnown(v, t))
        /\ (IsTimed(f, t) <=> IsTimed(v, t)) /\ (IsHeard(f, t) <=> IsHeard(v, t))
    BY <2>1, Zenon DEF IsPosting, IsKnown, IsTimed, IsHeard
  <2>3. TurnFresh(v, s, t) /\ GoesOn(v, m, t)
    BY DEF Sound
  <2>4. Answered(f, s, t) <=> Answered(v, s, t)
    BY <1>8, Zenon DEF Answered
  <2>5. TurnFresh(f, s, t)
    BY <1>6, <2>1, <2>2, <2>3, <2>4, Zenon DEF TurnFresh, NotYet
  <2>6. GoesOn(f, m, t)
    BY <1>5, <2>2, <2>3, Zenon DEF GoesOn
  <2> QED BY <2>5, <2>6, Zenon
<1>11. f \in Voice /\ f.connect = v.connect
  BY <1>3, Zenon DEF Torn
<1>12. Sound(f, m, s, n)
  BY <1>5, <1>6, <1>7, <1>9, <1>10, <1>11, Zenon DEF Sound
<1> QED BY <1>3, <1>5, <1>11, <1>12, Zenon DEF Kept, Torn, IsManual


-----------------------------------------------------------------------------
(* A request is asked for or queued.                                       *)

\* What a step of the queue leaves alone.
SameSession(f, v) ==
  /\ f.connect = v.connect /\ f.reconnect = v.reconnect /\ f.stream = v.stream
  /\ f.mic = v.mic /\ f.manual = v.manual /\ f.ending = v.ending
  /\ f.attempts = v.attempts /\ f.timer = v.timer /\ f.endTimer = v.endTimer
  /\ f.resumed = v.resumed /\ f.resuming = v.resuming
  /\ f.used = v.used /\ f.line.events = v.line.events /\ f.line.unheard = v.line.unheard

LEMMA SameSessionKeeps ==
  ASSUME NEW v, NEW m, NEW s, NEW n, Calm(v, m, s, n),
         NEW f \in Voice, SameSession(f, v), f.turns = v.turns,
         IsManual(v) => f.channel = v.channel /\ f.creating = v.creating /\ f.active = v.active,
         NEW W, OnTheWay(f) = OnTheWay(v) \cup W, \A r \in W : MayAsk(v, s, r),
         Carried(v, m, W), Apart(f), LineOK(f, m)
  PROVE  Sound(f, m, s, n)
<1>1. Released(f) /\ MicrophoneHeld(f) /\ Started(f) /\ Counted(f, n)
  <2>1. (IsManual(f) <=> IsManual(v)) /\ (IsEnding(f) <=> IsEnding(v)) /\ (HasTimer(f) <=> HasTimer(v))
        /\ (EndsTimed(f) <=> EndsTimed(v)) /\ (HasMic(f) <=> HasMic(v))
    BY DEF SameSession, IsManual, IsEnding, HasTimer, EndsTimed, HasMic
  <2> QED BY <2>1 DEF Calm, Released, MicrophoneHeld, Started, Counted, SameSession
<1>2. Alike(f, v, W)
  BY DEF Alike, SameSession, WasResumed, IsResuming
<1>3. /\ Unsaid(f, s) /\ Fresh(f, s)
      /\ \A t \in Turns : TurnFresh(f, s, t) /\ GoesOn(f, m, t)
  BY <1>2, AlikeKeeps
<1> QED BY <1>1, <1>3 DEF Sound

LEMMA LineStays ==
  ASSUME NEW v, NEW m, LineOK(v, m), NEW f, f.line.events = v.line.events,
         f.line.busy = v.line.busy, f.active = v.active, f.request = v.request
  PROVE  LineOK(f, m)
BY DEF LineOK

\* A request that may be asked for.
Askable(v, s, r) == Owed(r) => r \notin OnTheWay(v) /\ MayAsk(v, s, r)
New(r) == {u \in {r} : Owed(u)}

\* What is asked for is on its way.
Asks(f, v, m, s, n, W) ==
  /\ Sound(f, m, s, n) /\ (v.connect # "idle" => f.connect # "idle")
  /\ IsManual(v) => IsManual(f)
  /\ IsManual(f) \/ OnTheWay(f) = OnTheWay(v) \cup W

LEMMA DispatchKeeps ==
  ASSUME NEW v, NEW m, NEW s, NEW n, Calm(v, m, s, n),
         v.active = 0, v.creating = NoRequest,
         NEW r \in ResponseRequests, Askable(v, s, r), Carried(v, m, New(r)),
         NEW f, f = DispatchResponse(v, r)
  PROVE  Asks(f, v, m, s, n, New(r))
<1>1. v \in Voice /\ v.request = NoRequest /\ Apart(v) /\ LineOK(v, m)
  BY DEF Calm, LineOK
<1>2. \A u \in New(r) : MayAsk(v, s, u)
  BY DEF New, Askable
<1>3. Owed(r) => r \notin Queued(v) /\ r # NoRequest
  BY VoiceFacts DEF Askable, OnTheWay, Owed
<1>4. r # NoRequest /\ r \in Spoken
  BY RequestFields
<1>5. CASE v.channel # "open"
  <2> DEFINE x == [request |-> r, after |-> NoScope]
             q == <<x>> \o v.queue
             g == [v EXCEPT !.queue = q]
  <2>1. f = ScheduleReconnect(g)
    BY <1>5 DEF DispatchResponse
  <2>2. x \in Queueing /\ x.request = r /\ v.queue \in Seq(Queueing) /\ q = <<x>> \o v.queue
    BY <1>1, VoiceFacts DEF Queueing, Voice
  <2> HIDE DEF x, q
  <2>3. q \in Seq(Queueing) /\ Asked(q) = Asked(v.queue) \cup {r} /\ Distinct(q)
    <3>1. Distinct(v.queue) /\ (Owed(r) => r \notin Asked(v.queue))
      BY <1>1, <1>3, QueuedIsAsked DEF Apart
    <3>2. /\ q \in Seq(Queueing) /\ Asked(q) = Asked(v.queue) \cup {x.request}
          /\ Distinct(v.queue) /\ (Owed(x.request) => x.request \notin Asked(v.queue)) => Distinct(q)
      BY <2>2, AskedPrepend, ZenonT(60)
    <3> QED BY <2>2, <3>1, <3>2
  <2>4. g \in Voice
    <3>1. v \in Boxed /\ q \in Queues
      BY <1>1, <2>3, Boxes DEF Queues
    <3>2. [v EXCEPT !.queue = q] \in Boxed
      BY <3>1, BoxFacts, Zenon DEF Boxed
    <3> QED BY <3>2, Boxes
  <2>5. /\ SameSession(g, v) /\ g.turns = v.turns /\ g.queue = q
        /\ g.channel = v.channel /\ g.creating = v.creating /\ g.active = v.active
        /\ g.request = v.request /\ g.line = v.line
    BY <1>1 DEF Voice, SameSession
  <2> HIDE DEF g
  <2>6. LineOK(g, m)
    BY <1>1, <2>5, LineStays
  <2>7. Apart(g) /\ OnTheWay(g) = OnTheWay(v) \cup New(r)
    <3>1. Apart(g)
      BY <1>1, <2>3, <2>5, VoiceFacts DEF Apart
    <3>2. Queued(g) = Queued(v) \cup {r}
      BY <2>3, <2>5, QueuedIsAsked
    <3> QED BY <2>5, <3>1, <3>2 DEF OnTheWay, New, Owed
  <2>8. Sound(g, m, s, n)
    BY <1>2, <2>4, <2>5, <2>6, <2>7, SameSessionKeeps
  <2>9. Kept(f, g, m, s, n)
    BY <2>1, <2>8, ScheduleKeeps
  <2> QED BY <2>5, <2>7, <2>9 DEF Kept, Asks, SameSession, IsManual
<1>6. CASE v.channel = "open"
  <2> DEFINE line == [v.line EXCEPT !.commands = Append(v.line.commands, r)]
  <2>1. f = [v EXCEPT !.creating = r, !.line = line]
    BY <1>1, <1>6 DEF DispatchResponse, Voice
  <2>2. line \in LineState /\ line.events = v.line.events /\ line.unheard = v.line.unheard
        /\ line.busy = v.line.busy
    <3>1. v.line \in LineState
      BY <1>1 DEF Voice
    <3>2. v.line.commands \in Seq(ResponseRequests)
      BY <3>1 DEF LineState
    <3>3. Append(v.line.commands, r) \in Seq(ResponseRequests)
      BY <3>2, AppendProperties
    <3> QED BY <3>1, <3>3, Zenon DEF LineState
  <2> HIDE DEF line
  <2>3. f \in Voice
    <3>1. v \in Boxed /\ r \in Spoken /\ line \in LineState
      BY <1>1, <1>4, <2>2, Boxes
    <3>2. [v EXCEPT !.creating = r, !.line = line] \in Boxed
      BY <3>1, BoxFacts, Zenon DEF Boxed
    <3> QED BY <2>1, <3>2, Boxes
  <2>4. /\ SameSession(f, v) /\ f.turns = v.turns /\ f.queue = v.queue
        /\ f.channel = v.channel /\ f.creating = r /\ f.active = v.active
        /\ f.request = v.request /\ f.line.busy = v.line.busy /\ f.line.events = v.line.events
    BY <1>1, <2>1, <2>2 DEF Voice, SameSession
  <2>5. LineOK(f, m)
    BY <1>1, <2>4, LineStays
  <2>6. ~IsManual(v)
    BY <1>6 DEF Calm, Released
  <2>7. Queued(f) = Queued(v)
    BY <2>4 DEF Queued
  <2>8. Apart(f)
    BY <1>1, <1>3, <2>4, <2>7, VoiceFacts DEF Apart
  <2>9. OnTheWay(f) = OnTheWay(v) \cup New(r)
    BY <2>4, <2>7, VoiceFacts DEF OnTheWay, New, Owed
  <2>10. Sound(f, m, s, n)
    BY <1>2, <2>3, <2>4, <2>5, <2>6, <2>8, <2>9, SameSessionKeeps
  <2> QED BY <2>4, <2>9, <2>10 DEF Asks, SameSession, IsManual
<1> QED BY <1>5, <1>6

LEMMA EnqueueKeeps ==
  ASSUME NEW v, NEW m, NEW s, NEW n, Calm(v, m, s, n),
         NEW r \in ResponseRequests, Askable(v, s, r), Carried(v, m, New(r)), NEW after \in 0 .. Creating,
         NEW f, f = Enqueue(v, r, after)
  PROVE  Asks(f, v, m, s, n, New(r))
<1>1. CASE v.active = 0 /\ v.creating = NoRequest
  <2>1. f = DispatchResponse(v, r)
    BY <1>1 DEF Enqueue
  <2> QED BY <1>1, <2>1, DispatchKeeps
<1>2. CASE ~(v.active = 0 /\ v.creating = NoRequest)
  <2> DEFINE scope == IF after # NoScope THEN after ELSE IF v.active # 0 THEN v.active ELSE Creating
             x == [request |-> r, after |-> scope]
             q == Append(v.queue, x)
  <2>1. v \in Voice /\ Apart(v) /\ LineOK(v, m)
    BY DEF Calm
  <2>2. f = [v EXCEPT !.queue = q]
    BY <1>2 DEF Enqueue
  <2>3. scope \in 0 .. Creating
    BY <2>1, VoiceFacts, Zenon DEF Voice
  <2> HIDE DEF scope
  <2>4. x \in Queueing /\ x.request = r /\ v.queue \in Seq(Queueing) /\ q = Append(v.queue, x)
    BY <2>1, <2>3 DEF Queueing, Voice
  <2> HIDE DEF x, q
  <2>5. Owed(r) => r \notin Queued(v) /\ r # v.creating /\ r # v.request
    BY DEF Askable, OnTheWay, Owed
  <2>6. q \in Seq(Queueing) /\ Asked(q) = Asked(v.queue) \cup {r} /\ Distinct(q)
    BY <2>1, <2>4, <2>5, AskedAppend, QueuedIsAsked, Zenon DEF Apart
  <2>7. f \in Voice
    <3>1. v \in Boxed /\ q \in Queues
      BY <2>1, <2>6, Boxes DEF Queues
    <3>2. [v EXCEPT !.queue = q] \in Boxed
      BY <3>1, BoxFacts, Zenon DEF Boxed
    <3> QED BY <2>2, <3>2, Boxes
  <2>8. /\ SameSession(f, v) /\ f.turns = v.turns /\ f.queue = q
        /\ f.channel = v.channel /\ f.creating = v.creating /\ f.active = v.active
        /\ f.request = v.request /\ f.line = v.line
    BY <2>1, <2>2 DEF Voice, SameSession
  <2>9. LineOK(f, m)
    BY <2>1, <2>8, LineStays
  <2>10. Queued(f) = Queued(v) \cup {r}
    BY <2>6, <2>8, QueuedIsAsked
  <2>11. Apart(f)
    BY <2>1, <2>5, <2>6, <2>8, <2>10 DEF Apart
  <2>12. OnTheWay(f) = OnTheWay(v) \cup New(r)
    BY <2>8, <2>10 DEF OnTheWay, New, Owed
  <2>13. \A u \in New(r) : MayAsk(v, s, u)
    BY DEF New, Askable
  <2>14. Sound(f, m, s, n)
    BY <2>7, <2>8, <2>9, <2>11, <2>12, <2>13, SameSessionKeeps
  <2> QED BY <2>8, <2>12, <2>14 DEF Asks, SameSession, IsManual
<1> QED BY <1>1, <1>2

-----------------------------------------------------------------------------
(* Steps of the session, and the queue when it may go on.                  *)

\* What such a step leaves alone.
SameSpeech(f, v) ==
  /\ f.queue = v.queue /\ f.creating = v.creating /\ f.request = v.request
  /\ f.active = v.active /\ f.line = v.line /\ f.used = v.used /\ f.turns = v.turns

LEMMA SessionKeeps ==
  ASSUME NEW v, NEW m, NEW s, NEW n, Sound(v, m, s, n),
         NEW f \in Voice, SameSpeech(f, v), NEW i, WasResumed(v) => WasResumed(f),
         IsResuming(f) => ~WasResumed(f) \/ (IsResuming(v) /\ (WasResumed(f) => WasResumed(v))),
         f.connect # "ended" => v.connect # "ended",
         Released(f), MicrophoneHeld(f), Started(f), Counted(f, i)
  PROVE  Sound(f, m, s, i) /\ OnTheWay(f) = OnTheWay(v)
<1>1. OnTheWay(f) = OnTheWay(v) /\ Apart(f)
  BY SpeechStays DEF SameSpeech, Sound
<1>2. Alike(f, v, {})
  BY <1>1 DEF Alike, SameSpeech
<1>3. /\ Unsaid(f, s) /\ Fresh(f, s)
      /\ \A t \in Turns : TurnFresh(f, s, t) /\ GoesOn(f, m, t)
  BY <1>2, SoundIsCalm, AlikeKeeps
<1>4. LineOK(f, m)
  BY DEF Sound, LineOK, SameSpeech
<1> QED BY <1>1, <1>3, <1>4 DEF Sound

LEMMA DrainKeeps ==
  ASSUME NEW v, NEW m, NEW s, NEW n, Sound(v, m, s, n), NEW done, NEW f, f = Drain(v, done)
  PROVE  Kept(f, v, m, s, n)
<1> DEFINE ready == {i \in DOMAIN v.queue : v.queue[i].after \in v.settled \cup {NoScope, done}}
           first == CHOOSE i \in ready : \A j \in ready : i <= j
           scope == v.queue[first].after
           rest == [i \in DOMAIN v.queue |->
                      IF v.queue[i].after = scope THEN [v.queue[i] EXCEPT !.after = NoScope]
                      ELSE v.queue[i]]
           free == v.active = 0 /\ v.creating = NoRequest /\ v.channel = "open" /\ ready # {}
           q == RemoveAt(rest, first)
           r == v.queue[first].request
           g == [v EXCEPT !.queue = q]
<1>1. CASE ~free
  <2>1. f = v
    BY <1>1, Zenon DEF Drain
  <2> QED BY <2>1 DEF Kept
<1>2. CASE free
  <2>1. f = DispatchResponse(g, r)
    BY <1>2 DEF Drain
  <2>2. v \in Voice /\ Apart(v) /\ LineOK(v, m) /\ v.request = NoRequest /\ v.active = 0
        /\ v.creating = NoRequest /\ v.channel = "open"
    BY <1>2 DEF Sound, LineOK
  <2>3. v.queue \in Seq(Queueing) /\ Distinct(v.queue)
    BY <2>2 DEF Voice, Apart
  <2>4. first \in DOMAIN v.queue
    <3>1. ready \in SUBSET DOMAIN v.queue /\ ready # {}
      BY <1>2
    <3> HIDE DEF ready
    <3>2. ready \in SUBSET Int /\ IsFiniteSet(ready)
      BY <2>3, <3>1, IndicesAreFinite
    <3>3. \E i \in ready : \A j \in ready : i <= j
      BY <3>1, <3>2, LeastExists
    <3>4. first \in ready
      BY <3>3
    <3> QED BY <3>1, <3>4
  <2> HIDE DEF first
  <2>5. /\ rest \in Seq(Queueing) /\ Asked(rest) = Asked(v.queue) /\ Distinct(rest)
        /\ rest[first].request = r /\ first \in DOMAIN rest /\ r \in ResponseRequests
    <3>1. \A i \in DOMAIN v.queue : v.queue[i] \in Queueing
      BY <2>3, LenProperties, ElementOfSeq
    <3>2. \A i \in DOMAIN v.queue : rest[i] \in Queueing /\ rest[i].request = v.queue[i].request
      BY <3>1, VoiceFacts DEF Queueing
    <3>3. DOMAIN rest = DOMAIN v.queue /\ rest = [i \in DOMAIN v.queue |-> rest[i]]
      OBVIOUS
    <3>4. r \in ResponseRequests
      BY <2>4, <3>1 DEF Queueing
    <3> HIDE DEF rest
    <3>5. /\ rest \in Seq(Queueing) /\ Asked(rest) = Asked(v.queue)
          /\ Distinct(v.queue) => Distinct(rest)
      BY <2>3, <3>2, <3>3, AskedRelabelled, Zenon
    <3> QED BY <2>3, <2>4, <3>2, <3>3, <3>4, <3>5, Zenon
  <2>6. r \in Asked(v.queue)
    BY <2>4 DEF Asked
  <2> HIDE DEF rest, r
  <2>7. /\ q \in Seq(Queueing) /\ Distinct(q)
        /\ \A u : Owed(u) => (u \in Asked(q) <=> u \in Asked(v.queue) /\ u # r)
    <3>1. /\ q \in Seq(Queueing) /\ Distinct(q)
          /\ \A u : Owed(u) => (u \in Asked(q) <=> u \in Asked(rest) /\ u # rest[first].request)
      BY <2>5, AskedWithout
    <3> QED BY <2>5, <3>1
  <2> HIDE DEF q
  <2> DEFINE line == [v.line EXCEPT !.commands = Append(v.line.commands, r)]
  <2>8. g.channel = "open" /\ g.line = v.line
    BY <2>2 DEF Voice
  <2>9. f = [g EXCEPT !.creating = r, !.line = line]
    BY <2>1, <2>2, <2>8 DEF DispatchResponse, Voice
  <2>10. line \in LineState /\ line.events = v.line.events /\ line.unheard = v.line.unheard
         /\ line.busy = v.line.busy
    <3>1. v.line \in LineState
      BY <2>2 DEF Voice
    <3>2. v.line.commands \in Seq(ResponseRequests)
      BY <3>1 DEF LineState
    <3>3. Append(v.line.commands, r) \in Seq(ResponseRequests)
      BY <2>5, <3>2, AppendProperties
    <3> QED BY <3>1, <3>3, Zenon DEF LineState
  <2> HIDE DEF line
  <2>11. f \in Voice
    <3>1. r \in Spoken
      BY <2>5, RequestFields
    <3> QED
      <4>1. v \in Boxed /\ q \in Queues /\ r \in Spoken /\ line \in LineState
        BY <2>2, <2>7, <2>10, <3>1, Boxes DEF Queues
      <4>2. [v EXCEPT !.queue = q, !.creating = r, !.line = line] \in Boxed
        BY <4>1, BoxFacts, Zenon DEF Boxed
      <4> QED BY <2>9, <4>2, Boxes
  <2>12. /\ SameSession(f, v) /\ f.turns = v.turns /\ f.queue = q
         /\ f.channel = v.channel /\ f.creating = r /\ f.active = v.active
         /\ f.request = v.request /\ f.line.busy = v.line.busy /\ f.line.events = v.line.events
    BY <2>2, <2>9, <2>10 DEF Voice, SameSession
  <2>13. LineOK(f, m)
    BY <2>2, <2>12, LineStays
  <2>14. ~IsManual(v)
    BY <2>2 DEF Sound, Released
  <2>15. Apart(f)
    <3>1. Owed(r) => r \notin Queued(f) /\ r # NoRequest
      BY <2>7, <2>12, QueuedIsAsked, VoiceFacts
    <3> QED BY <2>2, <2>7, <2>12, <3>1, VoiceFacts DEF Apart
  <2>16. OnTheWay(f) = OnTheWay(v)
    <3>1. \A u : Owed(u) => (u \in OnTheWay(v) <=> u \in Asked(v.queue))
      BY <2>2, QueuedIsAsked, VoiceFacts DEF OnTheWay, Owed
    <3>2. \A u : Owed(u) => (u \in OnTheWay(f) <=> u \in Asked(q) \/ u = r)
      BY <2>2, <2>12, QueuedIsAsked, VoiceFacts DEF OnTheWay, Owed
    <3>3. \A u : Owed(u) => (u \in OnTheWay(f) <=> u \in OnTheWay(v))
      BY <2>6, <2>7, <3>1, <3>2
    <3>4. (\A u \in OnTheWay(f) : Owed(u)) /\ (\A u \in OnTheWay(v) : Owed(u))
      BY OnTheWayIsOwed
    <3> QED BY <3>3, <3>4
  <2>17. Carried(v, m, {}) /\ Calm(v, m, s, n)
    BY SoundIsCalm
  <2>18. OnTheWay(f) = OnTheWay(v) \cup {} /\ \A u \in {} : MayAsk(v, s, u)
    BY <2>16
  <2>19. Sound(f, m, s, n)
    BY <2>11, <2>12, <2>13, <2>14, <2>15, <2>17, <2>18, SameSessionKeeps
  <2> QED BY <2>12, <2>16, <2>19 DEF Kept, SameSession, IsManual
<1> QED BY <1>1, <1>2

LEMMA PauseKeeps ==
  ASSUME NEW v, NEW m, NEW s, NEW n, Calm(v, m, s, n), NEW f, f = Pause(v)
  PROVE  /\ Calm(f, m, s, n) /\ SameSpeech(f, v) /\ SameSession(f, v) /\ f.channel = v.channel
         /\ OnTheWay(f) = OnTheWay(v) /\ \A W : Carried(v, m, W) => Carried(f, m, W)
<1>1. f = [v EXCEPT !.paused = TRUE, !.enabled = FALSE] /\ v \in Voice
  BY DEF Pause, Calm
<1>2. f \in Voice
  <2>1. v \in Boxed
    BY <1>1, Boxes
  <2>2. [v EXCEPT !.paused = TRUE, !.enabled = FALSE] \in Boxed
    BY <2>1, BoxFacts, Zenon DEF Boxed
  <2> QED BY <1>1, <2>2, Boxes
<1>3. SameSpeech(f, v) /\ f.channel = v.channel
  BY <1>1 DEF Voice, SameSpeech
<1>4. SameSession(f, v)
  BY <1>1 DEF Voice, SameSession
<1>5. OnTheWay(f) = OnTheWay(v) /\ Apart(f)
  BY <1>3, SpeechStays DEF SameSpeech, Calm
<1>6. \A t \in Turns : /\ (IsPosting(f, t) <=> IsPosting(v, t)) /\ (IsKnown(f, t) <=> IsKnown(v, t))
                       /\ (IsTimed(f, t) <=> IsTimed(v, t)) /\ (IsHeard(f, t) <=> IsHeard(v, t))
                       /\ (Answered(f, s, t) <=> Answered(v, s, t))
  BY <1>3, <1>5 DEF IsPosting, IsKnown, IsTimed, IsHeard, SameSpeech, Answered, Uttered
<1>7. \A t \in Turns : GoesOn(f, m, t) <=> GoesOn(v, m, t)
  BY <1>5, <1>6 DEF GoesOn
<1>8. \A t \in Turns : TurnFresh(f, s, t)
  BY <1>3, <1>6 DEF Calm, TurnFresh, NotYet, SameSpeech
<1>9. LineOK(f, m) /\ Unsaid(f, s)
  BY <1>3, <1>5 DEF LineOK, SameSpeech, Calm, Unsaid
<1>10. (IsManual(f) <=> IsManual(v)) /\ (IsEnding(f) <=> IsEnding(v)) /\ (HasTimer(f) <=> HasTimer(v))
       /\ (EndsTimed(f) <=> EndsTimed(v)) /\ (HasMic(f) <=> HasMic(v))
       /\ (WasResumed(f) <=> WasResumed(v)) /\ (IsResuming(f) <=> IsResuming(v))
  BY <1>4 DEF SameSession, IsManual, IsEnding, HasTimer, EndsTimed, HasMic, WasResumed, IsResuming
<1>11. Released(f) /\ MicrophoneHeld(f) /\ Started(f) /\ Counted(f, n)
  BY <1>3, <1>4, <1>10
     DEF Calm, Released, MicrophoneHeld, Started, Counted, SameSession, SameSpeech
<1>12. Fresh(f, s)
  BY <1>4, <1>5, <1>10 DEF Calm, Fresh, Uttered, SameSession
<1>13. Calm(f, m, s, n)
  BY <1>2, <1>5, <1>8, <1>9, <1>11, <1>12 DEF Calm
<1> QED BY <1>3, <1>4, <1>5, <1>7, <1>13 DEF Carried

-----------------------------------------------------------------------------
(* The steps of the session.                                               *)

\* Everything holds after the step, and what was on its way still is, was said,
\* or the session has ended.
Keeps(f, v, m, s, n) ==
  Sound(f, m, s, n) /\ (IsManual(f) \/ OnTheWay(v) \subseteq OnTheWay(f) \cup s)

LEMMA KeptKeeps ==
  ASSUME NEW f, NEW v, NEW m, NEW s, NEW n
  PROVE  /\ Kept(f, v, m, s, n) => Keeps(f, v, m, s, n)
         /\ \A W : Asks(f, v, m, s, n, W) => Keeps(f, v, m, s, n)
BY DEF Kept, Asks, Keeps

LEMMA NotManual ==
  ASSUME NEW v, NEW m, NEW s, NEW n, Sound(v, m, s, n),
         \/ v.channel \notin {"none", "stranded"} \/ v.reconnect \notin {"no", "reading"}
         \/ HasTimer(v) \/ EndsTimed(v) \/ v.creating # NoRequest \/ v.active # 0
         \/ v.connect \in {"fetching", "opening"}
  PROVE  ~IsManual(v) /\ ~IsEnding(v) /\ v.connect # "idle" /\ Endable(v, s, n)
<1>1. ~IsManual(v)
  BY DEF Sound, Released
<1>2. ~IsEnding(v) /\ v.connect # "idle"
  BY <1>1 DEF Sound, Started
<1> QED BY <1>1, <1>2, SoundIsEndable

LEMMA ConnectKeeps ==
  ASSUME NEW v, NEW m, NEW s, NEW n, Sound(v, m, s, n), v.connect = "idle", NEW f,
         f = [v EXCEPT !.connect = "fetching", !.stream = "asked", !.manual = FALSE]
  PROVE  Keeps(f, v, m, s, n)
<1>1. v \in Voice
  BY DEF Sound
<1>2. f \in Voice
  <2>1. v \in Boxed
    BY <1>1, Boxes
  <2>2. [v EXCEPT !.connect = "fetching", !.stream = "asked", !.manual = FALSE] \in Boxed
    BY <2>1, BoxFacts, Zenon DEF Boxed
  <2> QED BY <2>2, Boxes
<1>3. /\ SameSpeech(f, v) /\ f.connect = "fetching" /\ f.stream = "asked" /\ f.manual = FALSE
      /\ f.ending = v.ending /\ f.attempts = v.attempts /\ f.timer = v.timer
      /\ f.resumed = v.resumed /\ f.resuming = v.resuming
  BY <1>1 DEF Voice, SameSpeech
<1>4. Released(f) /\ MicrophoneHeld(f) /\ Started(f) /\ Counted(f, n)
  BY <1>3 DEF Sound, Released, MicrophoneHeld, Started, Counted, IsManual, IsEnding, HasTimer
<1>5. (WasResumed(f) <=> WasResumed(v)) /\ (IsResuming(f) <=> IsResuming(v))
  BY <1>3 DEF WasResumed, IsResuming
<1>6. Sound(f, m, s, n) /\ OnTheWay(f) = OnTheWay(v)
  BY <1>2, <1>3, <1>4, <1>5, SessionKeeps
<1> QED BY <1>6 DEF Keeps

LEMMA MicrophoneAnswerKeeps ==
  ASSUME NEW v, NEW m, NEW s, NEW n, Sound(v, m, s, n), NEW stream \in {"live", "stopped"},
         stream = "live" => v.connect \in {"fetching", "reading"}, NEW f, f = [v EXCEPT !.stream = stream]
  PROVE  Keeps(f, v, m, s, n)
<1>1. v \in Voice
  BY DEF Sound
<1>2. f \in Voice
  <2>1. stream \in {"none", "asked", "live", "stopped"}
    OBVIOUS
  <2> QED
    <3>1. v \in Boxed /\ stream \in Streams
      BY <1>1, <2>1, Boxes DEF Streams
    <3>2. [v EXCEPT !.stream = stream] \in Boxed
      BY <3>1, BoxFacts, Zenon DEF Boxed
    <3> QED BY <3>2, Boxes
<1>3. SameSpeech(f, v) /\ f.channel = v.channel /\ f.stream = stream
  BY <1>1 DEF Voice, SameSpeech
<1>4. /\ f.connect = v.connect /\ f.reconnect = v.reconnect /\ f.mic = v.mic /\ f.manual = v.manual
      /\ f.ending = v.ending /\ f.attempts = v.attempts /\ f.timer = v.timer /\ f.endTimer = v.endTimer
      /\ f.resumed = v.resumed /\ f.resuming = v.resuming
  BY <1>1 DEF Voice
<1>5. Released(f) /\ MicrophoneHeld(f) /\ Started(f) /\ Counted(f, n)
  BY <1>3, <1>4 DEF Sound, Released, MicrophoneHeld, Started, Counted, SameSpeech,
                    IsManual, IsEnding, HasTimer, HasMic, EndsTimed
<1>6. (WasResumed(f) <=> WasResumed(v)) /\ (IsResuming(f) <=> IsResuming(v))
  BY <1>4 DEF WasResumed, IsResuming
<1>7. Sound(f, m, s, n) /\ OnTheWay(f) = OnTheWay(v)
  BY <1>2, <1>3, <1>4, <1>5, <1>6, SessionKeeps, Zenon
<1> QED BY <1>7 DEF Keeps

LEMMA ConnectStageKeeps ==
  ASSUME NEW v, NEW m, NEW s, NEW n, Sound(v, m, s, n), v.connect \in {"fetching", "reading"},
         ~IsManual(v), NEW stage \in {"fetching", "reading"}, NEW f, f = [v EXCEPT !.connect = stage]
  PROVE  Keeps(f, v, m, s, n)
<1>1. v \in Voice
  BY DEF Sound
<1>2. f \in Voice
  <2>1. v \in Boxed /\ stage \in Connects
    BY <1>1, Boxes DEF Connects
  <2>2. [v EXCEPT !.connect = stage] \in Boxed
    BY <2>1, BoxFacts, Zenon DEF Boxed
  <2> QED BY <2>2, Boxes
<1>3. /\ SameSpeech(f, v) /\ f.connect = stage /\ f.stream = v.stream /\ f.mic = v.mic
      /\ f.manual = v.manual
  BY <1>1 DEF Voice, SameSpeech
<1>4. /\ f.ending = v.ending /\ f.attempts = v.attempts /\ f.timer = v.timer
      /\ f.resumed = v.resumed /\ f.resuming = v.resuming
  BY <1>1 DEF Voice
<1>5. (IsManual(f) <=> IsManual(v)) /\ (IsEnding(f) <=> IsEnding(v)) /\ (HasTimer(f) <=> HasTimer(v))
      /\ (HasMic(f) <=> HasMic(v))
      /\ (WasResumed(f) <=> WasResumed(v)) /\ (IsResuming(f) <=> IsResuming(v))
  BY <1>3, <1>4 DEF IsManual, IsEnding, HasTimer, HasMic, WasResumed, IsResuming
<1>6. Released(f) /\ MicrophoneHeld(f) /\ Started(f) /\ Counted(f, n)
  BY <1>3, <1>4, <1>5 DEF Sound, Released, MicrophoneHeld, Started, Counted
<1>7. Sound(f, m, s, n) /\ OnTheWay(f) = OnTheWay(v)
  <2>1. f.connect # "ended" => v.connect # "ended"
    OBVIOUS
  <2> QED BY <1>2, <1>3, <1>5, <1>6, <2>1, SessionKeeps
<1> QED BY <1>7 DEF Keeps

LEMMA CaughtKeeps ==
  ASSUME NEW v, NEW m, NEW s, NEW n, Sound(v, m, s, n), v.connect \notin {"idle", "ended"},
         NEW f, f = Caught(v)
  PROVE  /\ Sound(f, m, s, n) /\ OnTheWay(f) = OnTheWay(v) /\ f.connect = "ended"
         /\ f.manual = v.manual /\ f.mic = v.mic
<1>1. v \in Voice
  BY DEF Sound
<1>2. /\ f \in Voice /\ f.connect = "ended"
      /\ f.stream = (IF v.stream = "live" THEN "stopped" ELSE v.stream)
      /\ f = [v EXCEPT !.connect = f.connect, !.stream = f.stream]
  BY <1>1, CaughtFields, Zenon
<1> DEFINE connect == f.connect
           stream == f.stream
<1>3. f = [v EXCEPT !.connect = connect, !.stream = stream]
  BY <1>2
<1> HIDE DEF connect, stream
<1>4. /\ SameSpeech(f, v) /\ f.mic = v.mic /\ f.manual = v.manual /\ f.channel = v.channel
      /\ f.reconnect = v.reconnect
  BY <1>1, <1>3 DEF Voice, SameSpeech
<1>5. /\ f.ending = v.ending /\ f.attempts = v.attempts /\ f.timer = v.timer /\ f.endTimer = v.endTimer
      /\ f.resumed = v.resumed /\ f.resuming = v.resuming
  BY <1>1, <1>3 DEF Voice
<1>6. (IsManual(f) <=> IsManual(v)) /\ (IsEnding(f) <=> IsEnding(v)) /\ (HasTimer(f) <=> HasTimer(v))
      /\ (HasMic(f) <=> HasMic(v)) /\ (EndsTimed(f) <=> EndsTimed(v))
      /\ (WasResumed(f) <=> WasResumed(v)) /\ (IsResuming(f) <=> IsResuming(v))
  BY <1>4, <1>5 DEF IsManual, IsEnding, HasTimer, HasMic, EndsTimed, WasResumed, IsResuming
<1>7. f.stream # "live"
  BY <1>2
<1>8. Released(f) /\ MicrophoneHeld(f) /\ Started(f) /\ Counted(f, n)
  BY <1>2, <1>4, <1>5, <1>6, <1>7 DEF Sound, Released, MicrophoneHeld, Started, Counted, SameSpeech
<1>9. Sound(f, m, s, n) /\ OnTheWay(f) = OnTheWay(v)
  <2>1. f \in Voice /\ (f.connect # "ended" => v.connect # "ended")
    BY <1>2
  <2> QED BY <1>4, <1>6, <1>8, <2>1, SessionKeeps
<1> QED BY <1>2, <1>4, <1>9

LEMMA ConnectFetchedKeeps ==
  ASSUME NEW v, NEW m, NEW s, NEW n, Sound(v, m, s, n), v.connect = "reading", ~IsManual(v), NEW f,
         f = [v EXCEPT !.connect = "opening", !.mic = TRUE, !.enabled = TRUE, !.channel = "connecting"]
  PROVE  Keeps(f, v, m, s, n)
<1>1. v \in Voice /\ ~IsManual(v)
  BY DEF Sound
<1>2. f \in Voice
  <2>1. v \in Boxed
    BY <1>1, Boxes
  <2>2. [v EXCEPT !.connect = "opening", !.mic = TRUE, !.enabled = TRUE,
           !.channel = "connecting"] \in Boxed
    BY <2>1, BoxFacts, Zenon DEF Boxed
  <2> QED BY <2>2, Boxes
<1>3. /\ SameSpeech(f, v) /\ f.connect = "opening" /\ f.mic = TRUE /\ f.manual = v.manual
      /\ f.ending = v.ending /\ f.attempts = v.attempts /\ f.timer = v.timer
      /\ f.resumed = v.resumed /\ f.resuming = v.resuming
  BY <1>1 DEF Voice, SameSpeech
<1>4. Released(f) /\ MicrophoneHeld(f) /\ Started(f) /\ Counted(f, n)
  BY <1>1, <1>3
     DEF Sound, Released, MicrophoneHeld, Started, Counted, IsManual, IsEnding, HasTimer, HasMic
<1>5. (WasResumed(f) <=> WasResumed(v)) /\ (IsResuming(f) <=> IsResuming(v))
  BY <1>3 DEF WasResumed, IsResuming
<1>6. Sound(f, m, s, n) /\ OnTheWay(f) = OnTheWay(v)
  BY <1>2, <1>3, <1>4, <1>5, SessionKeeps
<1> QED BY <1>6 DEF Keeps

\* The page says its opening words once it is connected, and says them once.
MayOpen(v, s, opening) ==
  opening = TRUE => v.connect = "ended" /\ \A r \in Uttered(v, s) : r.kind # "opening"

LEMMA OpenedKeeps ==
  ASSUME NEW v, NEW m, NEW s, NEW n, Sound(v, m, s, n), v.channel = "connecting",
         NEW opening \in BOOLEAN, NEW account \in BOOLEAN,
         MayOpen(v, s, opening),
         NEW f, f = Opened(v, opening, account)
  PROVE  Sound(f, m, s, n) /\ (IsManual(f) \/ OnTheWay(v) \subseteq OnTheWay(f))
<1> DEFINE c == [v EXCEPT !.channel = "open"]
           o == IF account THEN Pause(c) ELSE c
           r == ResponseRequest("opening", NoTurn, FALSE)
           e == IF opening THEN Enqueue(o, r, NoScope) ELSE o
<1>1. v \in Voice /\ ~IsManual(v) /\ ~IsEnding(v) /\ v.connect # "idle"
  BY NotManual DEF Sound
<1>2. c \in Voice
  BY <1>1, ZenonT(60) DEF Voice
<1>3. /\ SameSpeech(c, v) /\ c.connect = v.connect /\ c.mic = v.mic /\ c.manual = v.manual
      /\ c.stream = v.stream /\ c.ending = v.ending /\ c.attempts = v.attempts /\ c.timer = v.timer
      /\ c.resumed = v.resumed /\ c.resuming = v.resuming
  BY <1>1 DEF Voice, SameSpeech
<1>4. Released(c) /\ MicrophoneHeld(c) /\ Started(c) /\ Counted(c, n)
  BY <1>1, <1>3
     DEF Sound, Released, MicrophoneHeld, Started, Counted, IsManual, IsEnding, HasTimer, HasMic
<1>5. (WasResumed(c) <=> WasResumed(v)) /\ (IsResuming(c) <=> IsResuming(v))
  BY <1>3 DEF WasResumed, IsResuming
<1>6. Sound(c, m, s, n) /\ OnTheWay(c) = OnTheWay(v)
  BY <1>2, <1>3, <1>4, <1>5, SessionKeeps, Zenon
<1>7. Sound(o, m, s, n) /\ OnTheWay(o) = OnTheWay(v) /\ o.connect = v.connect
  <2>1. CASE account
    <3>1. Calm(c, m, s, n) /\ Carried(c, m, {})
      BY <1>6, SoundIsCalm
    <3>2. /\ Calm(o, m, s, n) /\ SameSession(o, c) /\ OnTheWay(o) = OnTheWay(c)
          /\ Carried(o, m, {})
      BY <2>1, <3>1, PauseKeeps
    <3>3. Sound(o, m, s, n)
      BY <3>2, SoundIsCalm DEF Carried
    <3> QED BY <1>3, <1>6, <3>2, <3>3 DEF SameSession
  <2>2. CASE ~account
    BY <1>3, <1>6, <2>2
  <2> QED BY <2>1, <2>2
<1>8. f = Drain(e, NoScope)
  BY DEF Opened
<1> HIDE DEF c, o
<1>9. Sound(e, m, s, n) /\ (IsManual(e) \/ OnTheWay(v) \subseteq OnTheWay(e))
  <2>1. CASE opening
    <3>1. r \in ResponseRequests /\ r.kind = "opening"
      BY DEF ResponseRequest, ResponseRequests
    <3>2. e = Enqueue(o, r, NoScope)
      BY <2>1
    <3> HIDE DEF r, e
    <3>3. Askable(o, s, r)
      <4>1. r \notin Uttered(v, s) /\ r \notin OnTheWay(o) /\ r \notin s
        BY <1>7, <2>1, <3>1 DEF Uttered, MayOpen
      <4> QED BY <1>7, <2>1, <3>1, <4>1 DEF Askable, MayAsk, MayOpen
    <3>4. Calm(o, m, s, n) /\ Carried(o, m, New(r))
      BY <1>7, SoundIsCalm
    <3>5. NoScope \in 0 .. Creating
      BY VoiceFacts
    <3>6. Asks(e, o, m, s, n, New(r))
      BY <3>1, <3>2, <3>3, <3>4, <3>5, EnqueueKeeps
    <3> QED BY <1>7, <3>6 DEF Asks
  <2>2. CASE ~opening
    BY <1>7, <2>2
  <2> QED BY <2>1, <2>2, Zenon
<1> HIDE DEF e
<1>10. Kept(f, e, m, s, n)
  BY <1>8, <1>9, DrainKeeps
<1> QED BY <1>9, <1>10 DEF Kept

LEMMA ConnectOpensKeeps ==
  ASSUME NEW v, NEW m, NEW s, NEW n, Sound(v, m, s, n), v.connect = "opening", v.channel = "connecting",
         NEW account \in BOOLEAN, NEW f, f = Opened([v EXCEPT !.connect = "ended"], TRUE, account)
  PROVE  Keeps(f, v, m, s, n)
<1> DEFINE c == [v EXCEPT !.connect = "ended"]
<1>1. v \in Voice /\ ~IsManual(v) /\ ~IsEnding(v)
  BY NotManual DEF Sound
<1>2. c \in Voice
  BY <1>1, ZenonT(60) DEF Voice
<1>3. /\ SameSpeech(c, v) /\ c.connect = "ended" /\ c.mic = v.mic /\ c.manual = v.manual
      /\ c.stream = v.stream /\ c.ending = v.ending /\ c.attempts = v.attempts /\ c.timer = v.timer
      /\ c.resumed = v.resumed /\ c.resuming = v.resuming /\ c.channel = v.channel
  BY <1>1 DEF Voice, SameSpeech
<1>4. Released(c) /\ MicrophoneHeld(c) /\ Started(c) /\ Counted(c, n)
  BY <1>1, <1>3
     DEF Sound, Released, MicrophoneHeld, Started, Counted, IsManual, IsEnding, HasTimer, HasMic
<1>5. (WasResumed(c) <=> WasResumed(v)) /\ (IsResuming(c) <=> IsResuming(v))
  BY <1>3 DEF WasResumed, IsResuming
<1>6. Sound(c, m, s, n) /\ OnTheWay(c) = OnTheWay(v)
  BY <1>2, <1>3, <1>4, <1>5, SessionKeeps
<1>7. \A r \in Uttered(c, s) : r.kind # "opening"
  BY <1>6 DEF Uttered, Sound, Fresh
<1>8. f = Opened(c, TRUE, account) /\ TRUE \in BOOLEAN
  OBVIOUS
<1> HIDE DEF c
<1>10. MayOpen(c, s, TRUE)
  BY <1>3, <1>7 DEF MayOpen
<1>11. Sound(c, m, s, n) /\ c.channel = "connecting"
  BY <1>3, <1>6
<1>9. Sound(f, m, s, n) /\ (IsManual(f) \/ OnTheWay(c) \subseteq OnTheWay(f))
  BY <1>8, <1>10, <1>11, OpenedKeeps, Zenon
<1> QED BY <1>6, <1>9, Zenon DEF Keeps

\* What may outlive the session: a reconnect that reads a body, or the peer it left.
Loose(v) ==
  /\ v.channel \in {"none", "stranded"} /\ v.reconnect \in {"no", "reading"}
  /\ v.channel = "stranded" => v.reconnect = "no"

\* Nothing but the reconnect, the channel or the timer of the end changes.
LEMMA StageKeeps ==
  ASSUME NEW v, NEW m, NEW s, NEW n, Sound(v, m, s, n), NEW f \in Voice, SameSpeech(f, v),
         f.connect = v.connect, f.stream = v.stream, f.mic = v.mic, f.manual = v.manual,
         f.ending = v.ending, f.attempts = v.attempts, f.timer = v.timer,
         f.resumed = v.resumed, f.resuming = v.resuming,
         IsManual(v) => Loose(f) /\ ~EndsTimed(f)
  PROVE  Kept(f, v, m, s, n)
<1>1. Released(f) /\ MicrophoneHeld(f) /\ Started(f) /\ Counted(f, n)
  BY DEF Sound, Released, Loose, MicrophoneHeld, Started, Counted, SameSpeech,
         IsManual, IsEnding, HasTimer, HasMic
<1>2. (WasResumed(f) <=> WasResumed(v)) /\ (IsResuming(f) <=> IsResuming(v))
  BY DEF WasResumed, IsResuming
<1>3. Sound(f, m, s, n) /\ OnTheWay(f) = OnTheWay(v)
  BY <1>1, <1>2, SessionKeeps
<1> QED BY <1>3 DEF Kept, IsManual

LEMMA ReconnectChangesKeep ==
  ASSUME NEW v, NEW m, NEW s, NEW n, Sound(v, m, s, n), NEW stage \in {"no", "fetching", "reading", "opening"},
         stage # "no" => ~IsManual(v), NEW f, f = [v EXCEPT !.reconnect = stage]
  PROVE  Kept(f, v, m, s, n)
<1>1. v \in Voice
  BY DEF Sound
<1>2. f \in Voice
  <2>1. v \in Boxed /\ stage \in Reconnects
    BY <1>1, Boxes DEF Reconnects
  <2>2. [v EXCEPT !.reconnect = stage] \in Boxed
    BY <2>1, BoxFacts, Zenon DEF Boxed
  <2> QED BY <2>2, Boxes
<1>3. /\ SameSpeech(f, v) /\ f.connect = v.connect /\ f.stream = v.stream /\ f.mic = v.mic
      /\ f.manual = v.manual /\ f.reconnect = stage /\ f.channel = v.channel
  BY <1>1 DEF Voice, SameSpeech
<1>4. /\ f.ending = v.ending /\ f.attempts = v.attempts /\ f.timer = v.timer /\ f.endTimer = v.endTimer
      /\ f.resumed = v.resumed /\ f.resuming = v.resuming
  BY <1>1 DEF Voice
<1>5. IsManual(v) => Loose(f) /\ ~EndsTimed(f)
  BY <1>3, <1>4 DEF Sound, Released, Loose, EndsTimed
<1> QED BY <1>2, <1>3, <1>4, <1>5, StageKeeps, Zenon

\* The reconnect that is too late leaves its peer behind.
LEMMA StrandedKeeps ==
  ASSUME NEW v, NEW m, NEW s, NEW n, Sound(v, m, s, n), IsManual(v), NEW f,
         f = [v EXCEPT !.reconnect = "no", !.channel = "stranded"]
  PROVE  Kept(f, v, m, s, n)
<1>1. v \in Voice
  BY DEF Sound
<1>2. f \in Voice
  <2>1. v \in Boxed
    BY <1>1, Boxes
  <2>2. [v EXCEPT !.reconnect = "no", !.channel = "stranded"] \in Boxed
    BY <2>1, BoxFacts, Zenon DEF Boxed
  <2> QED BY <2>2, Boxes
<1>3. /\ SameSpeech(f, v) /\ f.connect = v.connect /\ f.stream = v.stream /\ f.mic = v.mic
      /\ f.manual = v.manual /\ f.reconnect = "no" /\ f.channel = "stranded"
  BY <1>1 DEF Voice, SameSpeech
<1>4. /\ f.ending = v.ending /\ f.attempts = v.attempts /\ f.timer = v.timer /\ f.endTimer = v.endTimer
      /\ f.resumed = v.resumed /\ f.resuming = v.resuming
  BY <1>1 DEF Voice
<1>5. Loose(f) /\ ~EndsTimed(f)
  BY <1>3, <1>4 DEF Sound, Released, Loose, EndsTimed
<1> QED BY <1>2, <1>3, <1>4, <1>5, StageKeeps, Zenon

LEMMA ChannelChangesKeep ==
  ASSUME NEW v, NEW m, NEW s, NEW n, Sound(v, m, s, n), ~IsManual(v), NEW f,
         \/ f = [v EXCEPT !.channel = "closed"]
         \/ f = [v EXCEPT !.reconnect = "opening", !.channel = "connecting"]
         \/ f = [v EXCEPT !.endTimer = FALSE]
  PROVE  Kept(f, v, m, s, n)
<1>1. v \in Voice
  BY DEF Sound
<1>2. CASE f = [v EXCEPT !.channel = "closed"]
  <2>1. f \in Voice
    <3>1. v \in Boxed
      BY <1>1, Boxes
    <3>2. [v EXCEPT !.channel = "closed"] \in Boxed
      BY <3>1, BoxFacts, Zenon DEF Boxed
    <3> QED BY <1>2, <3>2, Boxes
  <2>2. /\ SameSpeech(f, v) /\ f.connect = v.connect /\ f.stream = v.stream /\ f.mic = v.mic
        /\ f.manual = v.manual
    BY <1>1, <1>2 DEF Voice, SameSpeech
  <2>3. /\ f.ending = v.ending /\ f.attempts = v.attempts /\ f.timer = v.timer
        /\ f.resumed = v.resumed /\ f.resuming = v.resuming
    BY <1>1, <1>2 DEF Voice
  <2> QED BY <2>1, <2>2, <2>3, StageKeeps
<1>3. CASE f = [v EXCEPT !.reconnect = "opening", !.channel = "connecting"]
  <2>1. f \in Voice
    <3>1. v \in Boxed
      BY <1>1, Boxes
    <3>2. [v EXCEPT !.reconnect = "opening", !.channel = "connecting"] \in Boxed
      BY <3>1, BoxFacts, Zenon DEF Boxed
    <3> QED BY <1>3, <3>2, Boxes
  <2>2. /\ SameSpeech(f, v) /\ f.connect = v.connect /\ f.stream = v.stream /\ f.mic = v.mic
        /\ f.manual = v.manual
    BY <1>1, <1>3 DEF Voice, SameSpeech
  <2>3. /\ f.ending = v.ending /\ f.attempts = v.attempts /\ f.timer = v.timer
        /\ f.resumed = v.resumed /\ f.resuming = v.resuming
    BY <1>1, <1>3 DEF Voice
  <2> QED BY <2>1, <2>2, <2>3, StageKeeps
<1>4. CASE f = [v EXCEPT !.endTimer = FALSE]
  <2>1. f \in Voice
    <3>1. v \in Boxed
      BY <1>1, Boxes
    <3>2. [v EXCEPT !.endTimer = FALSE] \in Boxed
      BY <3>1, BoxFacts, Zenon DEF Boxed
    <3> QED BY <1>4, <3>2, Boxes
  <2>2. /\ SameSpeech(f, v) /\ f.connect = v.connect /\ f.stream = v.stream /\ f.mic = v.mic
        /\ f.manual = v.manual
    BY <1>1, <1>4 DEF Voice, SameSpeech
  <2>3. /\ f.ending = v.ending /\ f.attempts = v.attempts /\ f.timer = v.timer
        /\ f.resumed = v.resumed /\ f.resuming = v.resuming
    BY <1>1, <1>4 DEF Voice
  <2> QED BY <2>1, <2>2, <2>3, StageKeeps
<1> QED BY <1>2, <1>3, <1>4

LEMMA ThenSchedules ==
  ASSUME NEW v, NEW m, NEW s, NEW n, NEW g, Kept(g, v, m, s, n), NEW f, f = ScheduleReconnect(g)
  PROVE  Keeps(f, v, m, s, n)
<1>1. Kept(f, g, m, s, n)
  BY ScheduleKeeps DEF Kept
<1> QED BY <1>1 DEF Kept, Keeps

LEMMA AbortedKeeps ==
  ASSUME NEW v, NEW m, NEW s, NEW n, Sound(v, m, s, n), ~IsManual(v), NEW f, f = Aborted(v)
  PROVE  Sound(f, m, s, n) /\ OnTheWay(f) = OnTheWay(v) /\ ~IsManual(f) /\ f.mic = v.mic
<1>1. v \in Voice
  BY DEF Sound
<1>2. /\ f \in Voice
      /\ f.connect = (IF v.connect \in {"fetching", "opening"} THEN "ended" ELSE v.connect)
      /\ f.stream = (IF v.connect \in {"fetching", "opening"} /\ v.stream = "live"
                     THEN "stopped" ELSE v.stream)
      /\ f = [v EXCEPT !.connect = f.connect, !.stream = f.stream]
  BY <1>1, AbortedFields, Zenon
<1> DEFINE connect == f.connect
           stream == f.stream
<1>3. f = [v EXCEPT !.connect = connect, !.stream = stream]
  BY <1>2
<1> HIDE DEF connect, stream
<1>4. /\ SameSpeech(f, v) /\ f.mic = v.mic /\ f.manual = v.manual
      /\ f.ending = v.ending /\ f.attempts = v.attempts /\ f.timer = v.timer
      /\ f.resumed = v.resumed /\ f.resuming = v.resuming
  BY <1>1, <1>3 DEF Voice, SameSpeech
<1>5. (IsManual(f) <=> IsManual(v)) /\ (IsEnding(f) <=> IsEnding(v)) /\ (HasTimer(f) <=> HasTimer(v))
      /\ (HasMic(f) <=> HasMic(v))
      /\ (WasResumed(f) <=> WasResumed(v)) /\ (IsResuming(f) <=> IsResuming(v))
  BY <1>4 DEF IsManual, IsEnding, HasTimer, HasMic, WasResumed, IsResuming
<1>6. Released(f) /\ Started(f) /\ Counted(f, n)
  BY <1>2, <1>4, <1>5 DEF Sound, Released, Started, Counted
<1>7. MicrophoneHeld(f)
  BY <1>2, <1>5 DEF Sound, MicrophoneHeld
<1>8. f.connect # "ended" => v.connect # "ended"
  BY <1>2
<1>9. Sound(f, m, s, n) /\ OnTheWay(f) = OnTheWay(v)
  <2>1. f \in Voice
    BY <1>2
  <2>2. WasResumed(v) => WasResumed(f)
    BY <1>5
  <2>3. IsResuming(f) => ~WasResumed(f) \/ (IsResuming(v) /\ (WasResumed(f) => WasResumed(v)))
    BY <1>5
  <2> QED BY <1>4, <1>6, <1>7, <1>8, <2>1, <2>2, <2>3, SessionKeeps
<1> QED BY <1>4, <1>5, <1>9

\* The timer of the reconnect: one more of them is carried out.
LEMMA TimerGoesOff ==
  ASSUME NEW v, NEW m, NEW s, NEW n, Sound(v, m, s, n), HasTimer(v), NEW f, f = [v EXCEPT !.timer = FALSE]
  PROVE  /\ Sound(f, m, s, n + 1) /\ Sound(f, m, s, n) /\ OnTheWay(f) = OnTheWay(v) /\ ~IsManual(f)
<1>1. v \in Voice /\ ~IsManual(v)
  BY NotManual DEF Sound
<1>2. f \in Voice
  <2>1. v \in Boxed
    BY <1>1, Boxes
  <2>2. [v EXCEPT !.timer = FALSE] \in Boxed
    BY <2>1, BoxFacts, Zenon DEF Boxed
  <2> QED BY <2>2, Boxes
<1>3. /\ SameSpeech(f, v) /\ f.connect = v.connect /\ f.stream = v.stream /\ f.mic = v.mic
      /\ f.manual = v.manual /\ f.timer = FALSE
  BY <1>1 DEF Voice, SameSpeech
<1>4. /\ f.ending = v.ending /\ f.attempts = v.attempts
      /\ f.resumed = v.resumed /\ f.resuming = v.resuming
  BY <1>1 DEF Voice
<1>5. (IsManual(f) <=> IsManual(v)) /\ (IsEnding(f) <=> IsEnding(v)) /\ ~HasTimer(f)
      /\ (HasMic(f) <=> HasMic(v))
      /\ (WasResumed(f) <=> WasResumed(v)) /\ (IsResuming(f) <=> IsResuming(v))
  BY <1>3, <1>4 DEF IsManual, IsEnding, HasTimer, HasMic, WasResumed, IsResuming
<1>6. Released(f) /\ Started(f) /\ MicrophoneHeld(f)
  BY <1>1, <1>3, <1>5 DEF Sound, Released, Started, MicrophoneHeld
<1>7. Counted(f, n) /\ Counted(f, n + 1)
  BY <1>4, <1>5 DEF Sound, Counted
<1> QED BY <1>1, <1>2, <1>3, <1>5, <1>6, <1>7, SessionKeeps, Zenon

LEMMA ReconnectTimerKeeps ==
  ASSUME NEW v, NEW m, NEW s, NEW n, Sound(v, m, s, n), HasTimer(v),
         NEW c, c = [v EXCEPT !.timer = FALSE], NEW torn, torn = Teardown(Aborted(c), TRUE), NEW f,
         \/ f = [torn EXCEPT !.reconnect = "fetching"]
         \/ f = ScheduleReconnect(torn)
  PROVE  Keeps(f, v, m, s, n + 1)
<1> DEFINE a == Aborted(c)
<1>1. Sound(c, m, s, n + 1) /\ OnTheWay(c) = OnTheWay(v) /\ ~IsManual(c)
  BY TimerGoesOff
<1>2. Sound(a, m, s, n + 1) /\ OnTheWay(a) = OnTheWay(c) /\ ~IsManual(a)
  BY <1>1, AbortedKeeps
<1>3. torn = Teardown(a, TRUE)
  OBVIOUS
<1> HIDE DEF a
<1>4. Kept(torn, a, m, s, n + 1) /\ torn.manual = a.manual
  BY <1>2, <1>3, TeardownKeeps, Zenon
<1>5. ~IsManual(torn) /\ Sound(torn, m, s, n + 1) /\ OnTheWay(torn) = OnTheWay(v)
  BY <1>1, <1>2, <1>4, Zenon DEF Kept, IsManual
<1>6. CASE f = [torn EXCEPT !.reconnect = "fetching"]
  <2>1. Kept(f, torn, m, s, n + 1)
    BY <1>5, <1>6, ReconnectChangesKeep, Zenon
  <2> QED BY <1>5, <2>1, Zenon DEF Kept, Keeps
<1>7. CASE f = ScheduleReconnect(torn)
  <2>1. Kept(f, torn, m, s, n + 1)
    BY <1>5, <1>7, ScheduleKeeps, Zenon
  <2> QED BY <1>5, <2>1, Zenon DEF Kept, Keeps
<1> QED BY <1>6, <1>7, Zenon

LEMMA ReconnectOpensKeeps ==
  ASSUME NEW v, NEW m, NEW s, NEW n, Sound(v, m, s, n), v.channel = "connecting",
         NEW account \in BOOLEAN, NEW f, f = [Opened(v, FALSE, account) EXCEPT !.reconnect = "no"]
  PROVE  Keeps(f, v, m, s, n)
<1> DEFINE o == Opened(v, FALSE, account)
<1>1. Sound(o, m, s, n) /\ (IsManual(o) \/ OnTheWay(v) \subseteq OnTheWay(o))
  <2>1. MayOpen(v, s, FALSE)
    BY DEF MayOpen
  <2> QED BY <2>1, OpenedKeeps, Zenon
<1> HIDE DEF o
<1>2. Kept([o EXCEPT !.reconnect = "no"], o, m, s, n)
  BY <1>1, ReconnectChangesKeep
<1>3. f = [o EXCEPT !.reconnect = "no"]
  BY DEF o
<1> QED BY <1>1, <1>2, <1>3, Zenon DEF Kept, Keeps

LEMMA ResumeAfterAuthKeeps ==
  ASSUME NEW v, NEW m, NEW s, NEW n, Sound(v, m, s, n), ~WasResumed(v), NEW f,
         f = [v EXCEPT !.paused = FALSE, !.resuming = TRUE]
  PROVE  Keeps(f, v, m, s, n)
<1>1. v \in Voice
  BY DEF Sound
<1>2. f \in Voice
  <2>1. v \in Boxed
    BY <1>1, Boxes
  <2>2. [v EXCEPT !.paused = FALSE, !.resuming = TRUE] \in Boxed
    BY <2>1, BoxFacts, Zenon DEF Boxed
  <2> QED BY <2>2, Boxes
<1>3. /\ SameSpeech(f, v) /\ f.connect = v.connect /\ f.reconnect = v.reconnect
      /\ f.stream = v.stream /\ f.mic = v.mic /\ f.manual = v.manual /\ f.channel = v.channel
  BY <1>1 DEF Voice, SameSpeech
<1>4. /\ f.ending = v.ending /\ f.attempts = v.attempts /\ f.timer = v.timer
      /\ f.endTimer = v.endTimer /\ f.resumed = v.resumed
  BY <1>1 DEF Voice
<1>5. Released(f) /\ MicrophoneHeld(f) /\ Started(f) /\ Counted(f, n)
  BY <1>3, <1>4 DEF Sound, Released, MicrophoneHeld, Started, Counted, SameSpeech,
                    IsManual, IsEnding, HasTimer, HasMic, EndsTimed
<1>6. ~WasResumed(f)
  BY <1>4 DEF WasResumed
<1>7. Sound(f, m, s, n) /\ OnTheWay(f) = OnTheWay(v)
  BY <1>2, <1>3, <1>5, <1>6, SessionKeeps, Zenon
<1> QED BY <1>7 DEF Keeps

LEMMA ResumedKeeps ==
  ASSUME NEW v, NEW m, NEW s, NEW n, Sound(v, m, s, n), IsResuming(v), NEW ok \in BOOLEAN,
         NEW g, g = [v EXCEPT !.resuming = FALSE, !.resumed = TRUE, !.enabled = TRUE], NEW f,
         f = IF ok THEN Enqueue(g, ResponseRequest("resume", NoTurn, FALSE), NoScope) ELSE g
  PROVE  Keeps(f, v, m, s, n)
<1> DEFINE r == ResponseRequest("resume", NoTurn, FALSE)
<1>1. v \in Voice
  BY DEF Sound
<1>2. g \in Voice
  <2>1. v \in Boxed
    BY <1>1, Boxes
  <2>2. [v EXCEPT !.resuming = FALSE, !.resumed = TRUE, !.enabled = TRUE] \in Boxed
    BY <2>1, BoxFacts, Zenon DEF Boxed
  <2> QED BY <2>2, Boxes
<1>3. /\ SameSpeech(g, v) /\ g.connect = v.connect /\ g.reconnect = v.reconnect
      /\ g.stream = v.stream /\ g.mic = v.mic /\ g.manual = v.manual /\ g.channel = v.channel
  BY <1>1 DEF Voice, SameSpeech
<1>4. /\ g.ending = v.ending /\ g.attempts = v.attempts /\ g.timer = v.timer
      /\ g.endTimer = v.endTimer /\ g.resumed = TRUE /\ g.resuming = FALSE
  BY <1>1 DEF Voice
<1>5. Released(g) /\ MicrophoneHeld(g) /\ Started(g) /\ Counted(g, n)
  BY <1>3, <1>4 DEF Sound, Released, MicrophoneHeld, Started, Counted, SameSpeech,
                    IsManual, IsEnding, HasTimer, HasMic, EndsTimed
<1>6. WasResumed(g) /\ ~IsResuming(g)
  BY <1>4 DEF WasResumed, IsResuming
<1>7. Sound(g, m, s, n) /\ OnTheWay(g) = OnTheWay(v)
  BY <1>2, <1>3, <1>5, <1>6, SessionKeeps, Zenon
<1>8. CASE ok
  <2>1. r \in ResponseRequests /\ r.kind = "resume"
    BY DEF ResponseRequest, ResponseRequests
  <2>2. f = Enqueue(g, r, NoScope)
    BY <1>8
  <2> HIDE DEF r
  <2>3. \A u \in Uttered(v, s) : u.kind # "resume"
    BY DEF Sound, Fresh
  <2>4. Askable(g, s, r)
    BY <1>6, <1>7, <2>1, <2>3 DEF Askable, MayAsk, Uttered
  <2>5. Calm(g, m, s, n) /\ Carried(g, m, New(r))
    BY <1>7, SoundIsCalm
  <2>6. NoScope \in 0 .. Creating
    BY VoiceFacts
  <2>7. Asks(f, g, m, s, n, New(r))
    BY <2>1, <2>2, <2>4, <2>5, <2>6, EnqueueKeeps, Zenon
  <2> QED BY <1>7, <2>7, Zenon DEF Asks, Keeps
<1>9. CASE ~ok
  BY <1>7, <1>9 DEF Keeps
<1> QED BY <1>8, <1>9, Zenon

\* A response that is not there in time goes back to the queue.
LEMMA ResponseCreateTimerKeeps ==
  ASSUME NEW v, NEW m, NEW s, NEW n, Sound(v, m, s, n), v.creating # NoRequest, NEW q,
         q = <<[request |-> v.creating, after |-> NoScope]>> \o v.queue,
         NEW g, g = [v EXCEPT !.creating = NoRequest, !.queue = q],
         NEW f, f = ScheduleReconnect(g)
  PROVE  Keeps(f, v, m, s, n)
<1> DEFINE x == [request |-> v.creating, after |-> NoScope]
<1>1. v \in Voice /\ ~IsManual(v) /\ Apart(v) /\ LineOK(v, m)
  BY NotManual, Zenon DEF Sound
<1>2. x \in Queueing /\ x.request = v.creating /\ v.queue \in Seq(Queueing) /\ q = <<x>> \o v.queue
  BY <1>1, VoiceFacts DEF Queueing, Voice, Spoken
<1> HIDE DEF x
<1>3. /\ q \in Seq(Queueing) /\ Asked(q) = Asked(v.queue) \cup {v.creating} /\ Distinct(q)
  <2>1. Distinct(v.queue) /\ (Owed(v.creating) => v.creating \notin Asked(v.queue))
    BY <1>1, QueuedIsAsked DEF Apart
  <2>2. /\ q \in Seq(Queueing) /\ Asked(q) = Asked(v.queue) \cup {x.request}
        /\ Distinct(v.queue) /\ (Owed(x.request) => x.request \notin Asked(v.queue)) => Distinct(q)
    BY <1>2, AskedPrepend, Zenon
  <2> QED BY <1>2, <2>1, <2>2
<1>4. g \in Voice
  <2>1. v \in Boxed /\ q \in Queues
    BY <1>1, <1>3, Boxes DEF Queues
  <2>2. [v EXCEPT !.creating = NoRequest, !.queue = q] \in Boxed
    BY <2>1, BoxFacts, Zenon DEF Boxed
  <2> QED BY <2>2, Boxes
<1>5. /\ SameSession(g, v) /\ g.turns = v.turns /\ g.queue = q
      /\ g.creating = NoRequest /\ g.active = v.active /\ g.request = v.request /\ g.line = v.line
  BY <1>1 DEF Voice, SameSession
<1>6. LineOK(g, m)
  BY <1>1, <1>5, LineStays, Zenon
<1>7. Queued(g) = Queued(v) \cup {v.creating}
  BY <1>3, <1>5, QueuedIsAsked, Zenon
<1>8. Apart(g)
  BY <1>1, <1>3, <1>5, <1>7, VoiceFacts DEF Apart
<1>9. OnTheWay(g) = OnTheWay(v)
  BY <1>5, <1>7, VoiceFacts DEF OnTheWay, Owed
<1>10. Calm(v, m, s, n) /\ \A W : Carried(v, m, W)
  BY SoundIsCalm
<1>11. SameSession(g, v) /\ g.turns = v.turns
  BY <1>5
<1>12. Sound(g, m, s, n)
  <2>1. PICK W : W = {}
    BY Zenon
  <2>2. OnTheWay(g) = OnTheWay(v) \cup W /\ \A u \in W : MayAsk(v, s, u)
    BY <1>9, <2>1
  <2> QED BY <1>1, <1>4, <1>6, <1>8, <1>10, <1>11, <2>2, SameSessionKeeps, Zenon
<1>13. Kept(f, g, m, s, n)
  BY <1>12, ScheduleKeeps
<1> QED BY <1>9, <1>13 DEF Kept, Keeps

LEMMA GracefulEndTimerKeeps ==
  ASSUME NEW v, NEW m, NEW s, NEW n, Sound(v, m, s, n), EndsTimed(v), NEW f,
         f = FinishGracefulEnd([v EXCEPT !.endTimer = FALSE])
  PROVE  Keeps(f, v, m, s, n)
<1> DEFINE g == [v EXCEPT !.endTimer = FALSE]
<1>1. ~IsManual(v) /\ ~IsEnding(v) /\ v.connect # "idle" /\ v \in Voice
  BY NotManual DEF Sound
<1>2. Kept(g, v, m, s, n)
  BY <1>1, ChannelChangesKeep, Zenon
<1>3. ~IsEnding(g)
  BY <1>1 DEF IsEnding, Voice
<1>4. f = FinishGracefulEnd(g)
  OBVIOUS
<1> HIDE DEF g
<1>5. Sound(g, m, s, n) /\ g.connect # "idle"
  BY <1>1, <1>2 DEF Kept
<1>6. Endable(g, s, n)
  BY <1>5, SoundIsEndable
<1> QED BY <1>3, <1>4, <1>6, FinishKeeps DEF Keeps

LEMMA DisconnectsKeeps ==
  ASSUME NEW v, NEW m, NEW s, NEW n, Sound(v, m, s, n), v.connect # "idle", NEW f, f = Disconnect(v)
  PROVE  Keeps(f, v, m, s, n)
BY SoundIsEndable, DisconnectKeeps DEF Keeps

-----------------------------------------------------------------------------
(* Turns.                                                                  *)

\* One turn becomes x, with what is pending.
TurnIs(f, v, t, x) ==
  /\ f \in Voice /\ SameSession(f, v)
  /\ f.queue = v.queue /\ f.creating = v.creating /\ f.request = v.request
  /\ f.active = v.active /\ f.channel = v.channel /\ f.line = v.line
  /\ f.turns = [v.turns EXCEPT ![t] = x] /\ f.recent = v.recent /\ f.settled = v.settled

LEMMA TurnFields ==
  ASSUME NEW v \in Voice, NEW t \in Turns, NEW x \in TurnState, NEW p \in Seq(Turns),
         NEW turns, turns = [v.turns EXCEPT ![t] = x],
         NEW f, f = [v EXCEPT !.turns = turns, !.pending = p]
  PROVE  TurnIs(f, v, t, x)
<1>1. turns \in [Turns -> TurnState]
  <2>1. v.turns \in [Turns -> TurnState]
    BY DEF Voice
  <2> QED BY <2>1
<1>2. f \in Voice
  <2>1. v \in Boxed /\ turns \in TurnTable /\ p \in Waiting
    BY <1>1, Boxes DEF TurnTable, Waiting
  <2>2. [v EXCEPT !.turns = turns, !.pending = p] \in Boxed
    BY <2>1, BoxFacts, Zenon DEF Boxed
  <2> QED BY <2>2, Boxes
<1>3. SameSession(f, v)
  BY DEF Voice, SameSession
<1>4. /\ f.queue = v.queue /\ f.creating = v.creating /\ f.request = v.request
      /\ f.active = v.active /\ f.channel = v.channel /\ f.line = v.line
      /\ f.turns = turns /\ f.recent = v.recent /\ f.settled = v.settled
  BY DEF Voice
<1> QED BY <1>2, <1>3, <1>4 DEF TurnIs

\* A turn may be posted.
MayPost(v, s, t) ==
  /\ t \in v.used /\ t \notin v.line.unheard /\ Hearing(v.line.events, t) = {}
  /\ ~Answered(v, s, t)

LEMMA TurnKeeps ==
  ASSUME NEW v, NEW m, NEW s, NEW n, Calm(v, m, s, n), ~IsManual(v), NEW t \in Turns, NEW x,
         x.posting => IsPosting(v, t) \/ MayPost(v, s, t), NEW f, TurnIs(f, v, t, x)
  PROVE  Calm(f, m, s, n) /\ OnTheWay(f) = OnTheWay(v) /\ ~IsManual(f) /\ f.turns[t] = x
<1>1. f \in Voice /\ SameSession(f, v) /\ v \in Voice
  BY DEF TurnIs, Calm
<1>2. /\ OnTheWay(f) = OnTheWay(v) /\ Apart(f)
  BY SpeechStays DEF TurnIs, Calm
<1>3. LineOK(f, m)
  BY DEF Calm, LineOK, TurnIs
<1>4. (IsManual(f) <=> IsManual(v)) /\ (IsEnding(f) <=> IsEnding(v)) /\ (HasTimer(f) <=> HasTimer(v))
       /\ (EndsTimed(f) <=> EndsTimed(v)) /\ (HasMic(f) <=> HasMic(v))
       /\ (WasResumed(f) <=> WasResumed(v)) /\ (IsResuming(f) <=> IsResuming(v))
  BY <1>1 DEF SameSession, IsManual, IsEnding, HasTimer, EndsTimed, HasMic, WasResumed, IsResuming
<1>5. Released(f) /\ MicrophoneHeld(f) /\ Started(f) /\ Counted(f, n)
  BY <1>1, <1>4 DEF Calm, Released, MicrophoneHeld, Started, Counted, SameSession
<1>6. Fresh(f, s) /\ Unsaid(f, s) /\ \A u \in Turns : Answered(f, s, u) <=> Answered(v, s, u)
  BY <1>1, <1>2, <1>4 DEF Calm, Fresh, Unsaid, Uttered, SameSession, Answered
<1>7. f.turns[t] = x /\ \A u \in Turns : u # t => f.turns[u] = v.turns[u]
  BY <1>1 DEF TurnIs, Voice
<1>8. ASSUME NEW u \in Turns PROVE TurnFresh(f, s, u)
  <2>1. TurnFresh(v, s, u) /\ f.used = v.used /\ f.line = v.line
    BY <1>1 DEF Calm, TurnIs, SameSession
  <2>2. CASE u # t
    <3>1. IsPosting(f, u) <=> IsPosting(v, u)
      BY <1>7, <2>2 DEF IsPosting
    <3> QED BY <1>6, <2>1, <3>1 DEF TurnFresh, NotYet
  <2>3. CASE u = t
    <3>1. IsPosting(f, u) => IsPosting(v, u) \/ MayPost(v, s, u)
      BY <1>7, <2>3 DEF IsPosting
    <3> QED BY <1>6, <2>1, <3>1 DEF TurnFresh, NotYet, MayPost
  <2> QED BY <2>2, <2>3
<1> QED BY <1>1, <1>2, <1>3, <1>4, <1>5, <1>6, <1>7, <1>8 DEF Calm

\* That x goes on as a turn.
Going(x, v, m, t) ==
  /\ x.known =>
       \/ x.timer \/ x.posting
       \/ m = "direct" /\ x.transcript
       \/ m # "direct" /\ \E r \in OnTheWay(v) : r.turn = t
  /\ x.posting => m # "direct"

LEMMA GoingIsGoesOn ==
  ASSUME NEW v, NEW m, NEW t
  PROVE  GoesOn(v, m, t) <=> Going(v.turns[t], v, m, t)
<1> DEFINE x == v.turns[t]
<1>1. /\ IsKnown(v, t) <=> x.known
      /\ IsTimed(v, t) <=> x.timer
      /\ IsPosting(v, t) <=> x.posting
      /\ IsHeard(v, t) <=> x.transcript
  BY DEF IsKnown, IsTimed, IsPosting, IsHeard
<1> HIDE DEF x
<1>2. GoesOn(v, m, t) <=> Going(x, v, m, t)
  BY <1>1 DEF GoesOn, Going
<1> QED BY <1>2 DEF x

LEMMA TurnsGo ==
  ASSUME NEW v, NEW m, NEW s, NEW n, Calm(v, m, s, n), ~IsManual(v), NEW t \in Turns, NEW x,
         \A u \in Turns : u # t => GoesOn(v, m, u), Going(x, v, m, t),
         x.posting => IsPosting(v, t) \/ MayPost(v, s, t), NEW f, TurnIs(f, v, t, x)
  PROVE  Sound(f, m, s, n) /\ OnTheWay(f) = OnTheWay(v) /\ ~IsManual(f)
<1>1. Calm(f, m, s, n) /\ OnTheWay(f) = OnTheWay(v) /\ ~IsManual(f) /\ f.turns[t] = x
  BY TurnKeeps
<1>2. GoesOn(f, m, t)
  <2>1. Going(f.turns[t], f, m, t)
    BY <1>1 DEF Going
  <2> QED BY <2>1, GoingIsGoesOn
<1>3. ASSUME NEW u \in Turns, u # t PROVE GoesOn(f, m, u)
  <2>1. f.turns[u] = v.turns[u]
    BY <1>1, <1>3 DEF TurnIs, Calm, Voice
  <2>2. Going(v.turns[u], v, m, u)
    BY <1>3, GoingIsGoesOn
  <2>3. Going(f.turns[u], f, m, u)
    BY <1>1, <2>1, <2>2 DEF Going
  <2> QED BY <2>3, GoingIsGoesOn
<1> QED BY <1>1, <1>2, <1>3, SoundIsCalm

LEMMA OthersTyped ==
  ASSUME NEW p \in Seq(Turns), NEW t
  PROVE  Others(p, t) \in Seq(Turns)
<1>1. {n \in DOMAIN p : p[n] # t} \in SUBSET DOMAIN p
  OBVIOUS
<1> QED BY <1>1, SubsequenceForm DEF Others

LEMMA RemoveTurnIs ==
  ASSUME NEW v \in Voice, NEW t \in Turns, NEW f, f = RemoveTurn(v, t)
  PROVE  TurnIs(f, v, t, NewTurn)
<1> DEFINE turns == [v.turns EXCEPT ![t] = NewTurn]
           p == Others(v.pending, t)
<1>1. p \in Seq(Turns) /\ NewTurn \in TurnState
  BY OthersTyped, VoiceFacts DEF Voice
<1>2. f = [v EXCEPT !.turns = turns, !.pending = p]
  BY DEF RemoveTurn, Voice
<1> QED BY <1>1, <1>2, TurnFields, Zenon

\* A turn that is removed, when the others go on.
LEMMA RemoveTurnKeeps ==
  ASSUME NEW v, NEW m, NEW s, NEW n, Calm(v, m, s, n), ~IsManual(v), NEW t \in Turns,
         \A u \in Turns : u # t => GoesOn(v, m, u), NEW f, f = RemoveTurn(v, t)
  PROVE  /\ Sound(f, m, s, n) /\ OnTheWay(f) = OnTheWay(v) /\ ~IsManual(f)
         /\ TurnIs(f, v, t, NewTurn)
<1>1. TurnIs(f, v, t, NewTurn)
  BY RemoveTurnIs DEF Calm
<1>2. Going(NewTurn, v, m, t) /\ ~NewTurn.posting
  BY DEF Going, NewTurn
<1> QED BY <1>1, <1>2, TurnsGo

\* What a step on the turns leaves of the rest.
RestIs(f, v) ==
  /\ SameSession(f, v) /\ f.queue = v.queue /\ f.creating = v.creating /\ f.request = v.request
  /\ f.active = v.active /\ f.channel = v.channel /\ f.line = v.line
  /\ f.recent = v.recent /\ f.settled = v.settled

LEMMA RemoveIfSettledKeeps ==
  ASSUME NEW v, NEW m, NEW s, NEW n, Calm(v, m, s, n), ~IsManual(v), NEW t \in Turns,
         \A u \in Turns : u # t => GoesOn(v, m, u), Going(v.turns[t], v, m, t),
         NEW f, f = RemoveIfSettled(v, t)
  PROVE  Sound(f, m, s, n) /\ OnTheWay(f) = OnTheWay(v) /\ ~IsManual(f) /\ RestIs(f, v)
<1> DEFINE g == RemoveTurn(v, t)
           x == [NewTurn EXCEPT !.late = TRUE]
<1>1. Sound(v, m, s, n) /\ RestIs(v, v)
  <2>1. \A u \in Turns : GoesOn(v, m, u)
    BY GoingIsGoesOn
  <2> QED BY <2>1, SoundIsCalm DEF RestIs, SameSession
<1>2. /\ Sound(g, m, s, n) /\ OnTheWay(g) = OnTheWay(v) /\ ~IsManual(g) /\ TurnIs(g, v, t, NewTurn)
  BY RemoveTurnKeeps
<1>3. CASE f = v
  BY <1>1, <1>3
<1>4. CASE f = g
  BY <1>2, <1>4 DEF TurnIs, RestIs
<1>5. CASE f = [g EXCEPT !.turns[t].late = TRUE]
  <2>1. g \in Voice /\ Calm(g, m, s, n) /\ \A u \in Turns : u # t => GoesOn(g, m, u)
    BY <1>2, SoundIsCalm DEF TurnIs
  <2>2. g.turns[t] = NewTurn
    BY <1>2 DEF TurnIs, Calm, Voice
  <2> HIDE DEF g
  <2> DEFINE turns == [g.turns EXCEPT ![t] = x]
             p == g.pending
  <2>3. f = [g EXCEPT !.turns = turns, !.pending = p]
    BY <1>5, <2>1, <2>2, Zenon DEF Voice
  <2>4. x \in TurnState /\ p \in Seq(Turns) /\ Going(x, g, m, t) /\ ~x.posting
    BY <2>1, Zenon DEF NewTurn, TurnState, Voice, Going
  <2>5. TurnIs(f, g, t, x)
    BY <2>1, <2>3, <2>4, TurnFields, Zenon
  <2>6. Sound(f, m, s, n) /\ OnTheWay(f) = OnTheWay(g) /\ ~IsManual(f)
    <3>1. x.posting => IsPosting(g, t) \/ MayPost(g, s, t)
      BY <2>4
    <3> HIDE DEF x
    <3> QED BY <1>2, <2>1, <2>4, <2>5, <3>1, TurnsGo
  <2> QED BY <1>2, <2>5, <2>6 DEF TurnIs, RestIs, SameSession
<1> QED BY <1>3, <1>4, <1>5 DEF RemoveIfSettled

-----------------------------------------------------------------------------
(* The steps of a turn, and those of a tool.                               *)

LEMMA TurnNotManual ==
  ASSUME NEW v, NEW m, NEW s, NEW n, Sound(v, m, s, n), NEW t \in Turns,
         IsTimed(v, t) \/ IsPosting(v, t) \/ v.turns[t].late
  PROVE  ~IsManual(v) /\ ~IsEnding(v) /\ v.connect # "idle" /\ Endable(v, s, n)
<1>1. ~IsManual(v)
  <2>1. v.turns[t] # NewTurn
    BY DEF IsTimed, IsPosting, NewTurn
  <2> QED BY <2>1 DEF Sound, Released
<1>2. ~IsEnding(v) /\ v.connect # "idle"
  BY <1>1 DEF Sound, Started
<1> QED BY <1>1, <1>2, SoundIsEndable

LEMMA TurnOf ==
  ASSUME NEW v, NEW m, NEW s, NEW n, Sound(v, m, s, n), NEW t \in Turns
  PROVE  /\ v \in Voice /\ v.turns[t] \in TurnState /\ v.pending \in Seq(Turns)
         /\ Calm(v, m, s, n) /\ Going(v.turns[t], v, m, t)
         /\ \A u \in Turns : GoesOn(v, m, u)
         /\ \A W : Carried(v, m, W)
<1>1. v \in Voice
  BY DEF Sound
<1>2. v.turns[t] \in TurnState /\ v.pending \in Seq(Turns)
  BY <1>1 DEF Voice
<1>3. GoesOn(v, m, t)
  BY DEF Sound
<1> QED BY <1>1, <1>2, <1>3, SoundIsCalm, GoingIsGoesOn

TimedOut(v, t) ==
  [v EXCEPT !.turns[t].timer = FALSE, !.turns[t].transcript = TRUE, !.turns[t].timedOut = TRUE]
Unposted(v, t) == [v EXCEPT !.turns[t].posting = FALSE]

LEMMA TranscriptTimerKeeps ==
  ASSUME NEW v, NEW m, NEW s, NEW n, Sound(v, m, s, n), NEW t \in Turns, IsTimed(v, t),
         NEW g, g = TimedOut(v, t), NEW f, f = IF m = "direct" THEN RemoveIfSettled(g, t) ELSE RemoveTurn(v, t)
  PROVE  Keeps(f, v, m, s, n)
<1>1. ~IsManual(v)
  BY TurnNotManual
<1>2. /\ v \in Voice /\ v.turns[t] \in TurnState /\ v.pending \in Seq(Turns)
      /\ Calm(v, m, s, n) /\ Going(v.turns[t], v, m, t)
      /\ \A u \in Turns : GoesOn(v, m, u)
  BY TurnOf
<1>3. CASE m = "direct"
  <2> DEFINE x == [v.turns[t] EXCEPT !.timer = FALSE, !.transcript = TRUE, !.timedOut = TRUE]
             turns == [v.turns EXCEPT ![t] = x]
             p == v.pending
  <2>1. g = [v EXCEPT !.turns = turns, !.pending = p]
    BY <1>2, Zenon DEF Voice, TimedOut
  <2>2. x \in TurnState /\ x.transcript = TRUE /\ x.posting = v.turns[t].posting
    BY <1>2, Zenon DEF TurnState
  <2> HIDE DEF x
  <2>3. TurnIs(g, v, t, x)
    BY <1>2, <2>1, <2>2, TurnFields, Zenon
  <2>4. Going(x, v, m, t) /\ (x.posting => IsPosting(v, t) \/ MayPost(v, s, t))
    BY <1>2, <1>3, <2>2 DEF Going, IsPosting
  <2>5. Sound(g, m, s, n) /\ OnTheWay(g) = OnTheWay(v) /\ ~IsManual(g)
    BY <1>1, <1>2, <2>3, <2>4, TurnsGo
  <2>6. Calm(g, m, s, n) /\ Going(g.turns[t], g, m, t) /\ \A u \in Turns : GoesOn(g, m, u)
    BY <2>5, TurnOf
  <2>7. f = RemoveIfSettled(g, t)
    BY <1>3
  <2> HIDE DEF turns
  <2>8. Sound(f, m, s, n) /\ OnTheWay(f) = OnTheWay(g) /\ ~IsManual(f) /\ RestIs(f, g)
    <3>1. \A u \in Turns : u # t => GoesOn(g, m, u)
      BY <2>6
    <3> QED BY <2>5, <2>6, <2>7, <3>1, RemoveIfSettledKeeps
  <2> QED BY <2>5, <2>8 DEF Keeps
<1>4. CASE m # "direct"
  <2>1. Sound(f, m, s, n) /\ OnTheWay(f) = OnTheWay(v)
    BY <1>1, <1>2, <1>4, RemoveTurnKeeps
  <2> QED BY <2>1 DEF Keeps
<1> QED BY <1>3, <1>4

LEMMA LateTranscriptTimerKeeps ==
  ASSUME NEW v, NEW m, NEW s, NEW n, Sound(v, m, s, n), NEW t \in Turns, v.turns[t].late,
         NEW f, f = [v EXCEPT !.turns[t].late = FALSE]
  PROVE  Keeps(f, v, m, s, n)
<1>1. ~IsManual(v)
  BY TurnNotManual
<1>2. /\ v \in Voice /\ v.turns[t] \in TurnState /\ v.pending \in Seq(Turns)
      /\ Calm(v, m, s, n) /\ Going(v.turns[t], v, m, t)
      /\ \A u \in Turns : GoesOn(v, m, u)
  BY TurnOf
<1> DEFINE x == [v.turns[t] EXCEPT !.late = FALSE]
           turns == [v.turns EXCEPT ![t] = x]
           p == v.pending
<1>3. f = [v EXCEPT !.turns = turns, !.pending = p]
  BY <1>2, Zenon DEF Voice
<1>4. /\ x \in TurnState /\ x.transcript = v.turns[t].transcript /\ x.posting = v.turns[t].posting
      /\ x.known = v.turns[t].known /\ x.timer = v.turns[t].timer
  BY <1>2, Zenon DEF TurnState
<1> HIDE DEF x
<1>5. TurnIs(f, v, t, x)
  BY <1>2, <1>3, <1>4, TurnFields, Zenon
<1>6. Going(x, v, m, t) /\ (x.posting => IsPosting(v, t) \/ MayPost(v, s, t))
  BY <1>2, <1>4 DEF Going, IsPosting
<1>7. Sound(f, m, s, n) /\ OnTheWay(f) = OnTheWay(v)
  BY <1>1, <1>2, <1>5, <1>6, TurnsGo
<1> QED BY <1>7, Zenon DEF Keeps

\* What a request is asked for with, when it may be.
LEMMA NewRequestKeeps ==
  ASSUME NEW v, NEW m, NEW s, NEW n, Calm(v, m, s, n), NEW account \in BOOLEAN,
         NEW r \in ResponseRequests, Askable(v, s, r), Carried(v, m, New(r)), NEW after \in 0 .. Creating,
         NEW f, f = Enqueue(IF account THEN Pause(v) ELSE v, r, after)
  PROVE  Keeps(f, v, m, s, n) /\ (IsManual(v) => IsManual(f))
<1> DEFINE p == IF account THEN Pause(v) ELSE v
<1>1. /\ Calm(p, m, s, n) /\ OnTheWay(p) = OnTheWay(v) /\ Carried(p, m, New(r))
      /\ Askable(p, s, r) /\ (IsManual(v) => IsManual(p))
  <2>1. CASE account
    <3>1. /\ Calm(p, m, s, n) /\ SameSpeech(p, v) /\ SameSession(p, v)
          /\ OnTheWay(p) = OnTheWay(v) /\ \A W : Carried(v, m, W) => Carried(p, m, W)
      BY <2>1, PauseKeeps
    <3>2. MayAsk(v, s, r) => MayAsk(p, s, r)
      BY <3>1 DEF MayAsk, SameSpeech, SameSession, WasResumed, IsPosting
    <3> QED BY <3>1, <3>2 DEF Askable, SameSession, IsManual
  <2>2. CASE ~account
    BY <2>2
  <2> QED BY <2>1, <2>2
<1>2. f = Enqueue(p, r, after)
  OBVIOUS
<1> HIDE DEF p
<1>3. Asks(f, p, m, s, n, New(r))
  BY <1>1, <1>2, EnqueueKeeps
<1> QED BY <1>1, <1>3 DEF Asks, Keeps

\* The turn's answer, or none.
LEMMA TurnResultKeeps ==
  ASSUME NEW v, NEW m, NEW s, NEW n, Sound(v, m, s, n), NEW t \in Turns, IsPosting(v, t),
         NEW g, g = Unposted(v, t), NEW f,
         \/ \E end \in BOOLEAN, account \in BOOLEAN :
              f = Enqueue(IF account THEN Pause(g) ELSE g, ResponseRequest("answer", t, end), NoScope)
         \/ f = FinishGracefulEnd(RemoveTurn(g, t))
         \/ f = RemoveTurn(g, t)
  PROVE  Keeps(f, v, m, s, n)
<1>1. ~IsManual(v) /\ ~IsEnding(v) /\ v.connect # "idle"
  BY TurnNotManual
<1>2. /\ v \in Voice /\ v.turns[t] \in TurnState /\ v.pending \in Seq(Turns)
      /\ Calm(v, m, s, n) /\ Going(v.turns[t], v, m, t)
      /\ \A u \in Turns : GoesOn(v, m, u)
  BY TurnOf
<1> DEFINE x == [v.turns[t] EXCEPT !.posting = FALSE]
           turns == [v.turns EXCEPT ![t] = x]
           p == v.pending
<1>3. g = [v EXCEPT !.turns = turns, !.pending = p]
  BY <1>2, Zenon DEF Voice, Unposted
<1>4. x \in TurnState /\ x.posting = FALSE
  BY <1>2, Zenon DEF TurnState
<1> HIDE DEF x
<1>5. TurnIs(g, v, t, x)
  BY <1>2, <1>3, <1>4, TurnFields, Zenon
<1>6. Calm(g, m, s, n) /\ OnTheWay(g) = OnTheWay(v) /\ ~IsManual(g) /\ ~IsPosting(g, t)
  <2>1. Calm(g, m, s, n) /\ OnTheWay(g) = OnTheWay(v) /\ ~IsManual(g) /\ g.turns[t] = x
    <3>1. x.posting => IsPosting(v, t) \/ MayPost(v, s, t)
      BY <1>4
    <3> QED BY <1>1, <1>2, <1>5, <3>1, TurnKeeps
  <2> QED BY <1>4, <2>1 DEF IsPosting
<1>7. \A u \in Turns : u # t => GoesOn(g, m, u)
  <2> SUFFICES ASSUME NEW u \in Turns, u # t
               PROVE  GoesOn(g, m, u)
    OBVIOUS
  <2>1. g.turns[u] = v.turns[u]
    BY <1>2, <1>5 DEF TurnIs, Voice
  <2>2. Going(v.turns[u], v, m, u)
    BY <1>2, GoingIsGoesOn
  <2> QED BY <1>6, <2>1, <2>2, GoingIsGoesOn DEF Going
<1>8. m # "direct"
  BY <1>2 DEF Going, IsPosting
<1>9. ASSUME NEW end \in BOOLEAN, NEW account \in BOOLEAN,
             f = Enqueue(IF account THEN Pause(g) ELSE g, ResponseRequest("answer", t, end), NoScope)
      PROVE  Keeps(f, v, m, s, n)
  <2> DEFINE r == ResponseRequest("answer", t, end)
  <2>1. r \in ResponseRequests /\ r.kind = "answer" /\ r.turn = t /\ Owed(r)
    BY DEF ResponseRequest, ResponseRequests, Owed
  <2>2. f = Enqueue(IF account THEN Pause(g) ELSE g, r, NoScope)
    BY <1>9
  <2> HIDE DEF r
  <2>3. TurnFresh(v, s, t)
    BY DEF Sound
  <2>4. /\ t \in g.used /\ t \notin g.line.unheard /\ Hearing(g.line.events, t) = {}
    BY <1>5, <2>3 DEF TurnFresh, NotYet, TurnIs, SameSession
  <2>5. r \notin OnTheWay(g) /\ r \notin s
    BY <1>6, <2>1, <2>3 DEF TurnFresh, Answered, Uttered
  <2>6. Askable(g, s, r)
    BY <1>6, <2>1, <2>4, <2>5 DEF Askable, MayAsk
  <2>7. Carried(g, m, New(r))
    BY <1>7, <1>8, <2>1 DEF Carried, New
  <2>8. NoScope \in 0 .. Creating
    BY VoiceFacts
  <2>9. Keeps(f, g, m, s, n)
    BY <1>6, <2>1, <2>2, <2>6, <2>7, <2>8, NewRequestKeeps
  <2> QED BY <1>6, <2>9 DEF Keeps
<1> DEFINE d == RemoveTurn(g, t)
<1>13. d = RemoveTurn(g, t)
  OBVIOUS
<1> HIDE DEF d
<1>10. /\ Sound(d, m, s, n) /\ OnTheWay(d) = OnTheWay(g) /\ ~IsManual(d)
       /\ TurnIs(d, g, t, NewTurn)
  BY <1>6, <1>7, <1>13, RemoveTurnKeeps
<1>11. CASE f = FinishGracefulEnd(d)
  <2>1. ~IsEnding(d) /\ d.connect # "idle"
    BY <1>1, <1>5, <1>10 DEF TurnIs, SameSession, IsEnding
  <2>2. Endable(d, s, n)
    BY <1>10, <2>1, SoundIsEndable
  <2> QED BY <1>11, <2>1, <2>2, FinishKeeps DEF Keeps
<1>12. CASE f = d
  BY <1>6, <1>10, <1>12 DEF Keeps
<1> QED BY <1>9, <1>11, <1>12 DEF d

\* What the resident has said or typed.
Using(v, t) == [v EXCEPT !.used = @ \cup {t}]

LEMMA UsingKeeps ==
  ASSUME NEW v, NEW m, NEW s, NEW n, Sound(v, m, s, n), NEW t \in Turns, t \notin v.used,
         NEW f, f = Using(v, t)
  PROVE  /\ Sound(f, m, s, n) /\ MayPost(f, s, t) /\ OnTheWay(f) = OnTheWay(v)
         /\ f.turns = v.turns /\ (IsManual(f) <=> IsManual(v)) /\ ~IsPosting(f, t)
<1>1. v \in Voice /\ f = [v EXCEPT !.used = v.used \cup {t}]
  BY DEF Sound, Using
<1>2. v.used \cup {t} \in SUBSET Turns
  BY <1>1 DEF Voice
<1>3. f \in Voice
  <2>1. v \in Boxed /\ v.used \cup {t} \in Talk
    BY <1>1, <1>2, Boxes DEF Talk
  <2>2. [v EXCEPT !.used = v.used \cup {t}] \in Boxed
    BY <2>1, BoxFacts, Zenon DEF Boxed
  <2> QED BY <1>1, <2>2, Boxes
<1>4. /\ f.connect = v.connect /\ f.reconnect = v.reconnect /\ f.stream = v.stream
      /\ f.mic = v.mic /\ f.manual = v.manual /\ f.ending = v.ending
      /\ f.attempts = v.attempts /\ f.timer = v.timer /\ f.endTimer = v.endTimer
      /\ f.resumed = v.resumed /\ f.resuming = v.resuming /\ f.channel = v.channel
  BY <1>1 DEF Voice
<1>5. /\ f.queue = v.queue /\ f.creating = v.creating /\ f.request = v.request
      /\ f.active = v.active /\ f.line = v.line /\ f.turns = v.turns /\ f.used = v.used \cup {t}
  BY <1>1 DEF Voice
<1> DEFINE turnsOf == f.turns
<1>6. OnTheWay(f) = OnTheWay(v) /\ Apart(f) /\ LineOK(f, m) /\ Uttered(f, s) = Uttered(v, s)
  <2>1. OnTheWay(f) = OnTheWay(v) /\ Apart(f)
    BY <1>5, SpeechStays DEF Sound
  <2> QED BY <1>5, <2>1 DEF Sound, LineOK, Uttered
<1>7. /\ (IsManual(f) <=> IsManual(v)) /\ (IsEnding(f) <=> IsEnding(v)) /\ (HasTimer(f) <=> HasTimer(v))
      /\ (EndsTimed(f) <=> EndsTimed(v)) /\ (HasMic(f) <=> HasMic(v))
      /\ (WasResumed(f) <=> WasResumed(v)) /\ (IsResuming(f) <=> IsResuming(v))
  BY <1>4 DEF IsManual, IsEnding, HasTimer, EndsTimed, HasMic, WasResumed, IsResuming
<1>8. Released(f) /\ MicrophoneHeld(f) /\ Started(f) /\ Counted(f, n)
  BY <1>4, <1>5, <1>7 DEF Sound, Released, MicrophoneHeld, Started, Counted
<1>9. Fresh(f, s) /\ Unsaid(f, s)
  BY <1>4, <1>6, <1>7 DEF Sound, Fresh, Unsaid
<1>10. ASSUME NEW u \in Turns
       PROVE  /\ TurnFresh(f, s, u) /\ GoesOn(f, m, u)
              /\ (Answered(f, s, u) <=> Answered(v, s, u)) /\ (IsPosting(f, u) <=> IsPosting(v, u))
  <2>1. /\ (IsPosting(f, u) <=> IsPosting(v, u)) /\ (IsKnown(f, u) <=> IsKnown(v, u))
        /\ (IsTimed(f, u) <=> IsTimed(v, u)) /\ (IsHeard(f, u) <=> IsHeard(v, u))
        /\ (Answered(f, s, u) <=> Answered(v, s, u))
    BY <1>5, <1>6 DEF IsPosting, IsKnown, IsTimed, IsHeard, Answered
  <2>2. TurnFresh(v, s, u) /\ GoesOn(v, m, u)
    BY DEF Sound
  <2> QED BY <1>5, <1>6, <2>1, <2>2 DEF TurnFresh, NotYet, GoesOn
<1>11. Sound(f, m, s, n)
  BY <1>3, <1>6, <1>8, <1>9, <1>10 DEF Sound
<1>12. MayPost(f, s, t) /\ ~IsPosting(f, t)
  <2>1. TurnFresh(v, s, t)
    BY DEF Sound
  <2> QED BY <1>5, <1>10, <2>1 DEF TurnFresh, NotYet, MayPost
<1> QED BY <1>5, <1>6, <1>7, <1>11, <1>12

\* What the page does of a text that was typed, before it asks or posts.
Typed(v, t) == [CreateTurn(v, t) EXCEPT !.used = @ \cup {t}]
Heard(v, t) == [v EXCEPT !.turns[t].transcript = TRUE]

LEMMA SendTextKeeps ==
  ASSUME NEW v, NEW m, NEW s, NEW n, Sound(v, m, s, n), v.channel = "open",
         NEW t \in Turns, t \notin v.used, NEW f,
         f = IF m = "direct" THEN Enqueue(Heard(Typed(v, t), t), ResponseRequest("typed", t, FALSE), NoScope)
             ELSE Submit(Typed(v, t), t)
  PROVE  Keeps(f, v, m, s, n)
<1> DEFINE g == Using(v, t)
           c == IF v.turns[t].known THEN v.turns[t] ELSE [NewTurn EXCEPT !.known = TRUE]
           k == Typed(v, t)
           h == IF m = "direct" THEN Heard(k, t) ELSE Submit(k, t)
<1>1. ~IsManual(v) /\ v \in Voice
  BY NotManual DEF Sound
<1>2. /\ Sound(g, m, s, n) /\ MayPost(g, s, t) /\ OnTheWay(g) = OnTheWay(v)
      /\ g.turns = v.turns /\ (IsManual(g) <=> IsManual(v)) /\ ~IsPosting(g, t)
  BY UsingKeeps
<1>3. c \in TurnState /\ c.posting = FALSE
  <2>1. v.turns[t] \in TurnState
    BY <1>1 DEF Voice
  <2>2. v.turns[t].posting = FALSE
    BY <1>2, <2>1 DEF IsPosting, TurnState
  <2> QED BY <2>1, <2>2, Zenon DEF NewTurn, TurnState
<1>4. TurnIs(k, g, t, c)
  <2> DEFINE turns == [v.turns EXCEPT ![t] = c]
             p == g.pending
  <2>1. g \in Voice /\ p \in Seq(Turns) /\ turns = [g.turns EXCEPT ![t] = c]
    BY <1>2 DEF Sound, Voice
  <2>2. k = [g EXCEPT !.turns = turns, !.pending = p]
    <3>1. CASE v.turns[t].known
      <4>1. k = g
        BY <3>1 DEF Typed, CreateTurn, Using
      <4>2. turns = v.turns
        BY <1>1, <3>1 DEF Voice
      <4>3. g = [g EXCEPT !.turns = g.turns, !.pending = g.pending]
        BY <2>1, Zenon DEF Voice
      <4> QED BY <1>2, <4>1, <4>2, <4>3, Zenon
    <3>2. CASE ~v.turns[t].known
      BY <1>1, <3>2, Zenon DEF Typed, CreateTurn, Using, Voice
    <3> QED BY <3>1, <3>2
  <2> HIDE DEF c, g, k, turns, p
  <2> QED BY <1>3, <2>1, <2>2, TurnFields, Zenon
<1> DEFINE y == k.turns[t]
           x == IF m = "direct" THEN [y EXCEPT !.transcript = TRUE]
                ELSE [y EXCEPT !.posting = TRUE, !.timer = FALSE]
<1>7. f = IF m = "direct" THEN Enqueue(h, ResponseRequest("typed", t, FALSE), NoScope) ELSE h
  OBVIOUS
<1>6. k \in Voice /\ k.pending \in Seq(Turns) /\ y = c /\ g \in Voice
  BY <1>2, <1>4 DEF TurnIs, Voice, Sound
<1> HIDE DEF c, g, k
<1>5. x \in TurnState /\ (m # "direct" => x.posting) /\ (m = "direct" => x.transcript /\ ~x.posting)
  BY <1>3, <1>6, Zenon DEF TurnState
<1>8. TurnIs(h, g, t, x)
  <2> DEFINE turns == [k.turns EXCEPT ![t] = x]
             p == k.pending
  <2>1. h = [k EXCEPT !.turns = turns, !.pending = p]
    <3>1. CASE m = "direct"
      BY <1>6, <3>1, Zenon DEF Heard, Voice
    <3>2. CASE m # "direct"
      BY <1>6, <3>2, ZenonT(30) DEF Submit, Voice
    <3> QED BY <3>1, <3>2
  <2> HIDE DEF h, x
  <2>2. TurnIs(h, k, t, x)
    BY <1>5, <1>6, <2>1, TurnFields, Zenon
  <2>3. h.turns = [g.turns EXCEPT ![t] = x]
    <3>1. h.turns = [k.turns EXCEPT ![t] = x] /\ k.turns = [g.turns EXCEPT ![t] = c]
      BY <1>4, <2>2 DEF TurnIs
    <3>2. g.turns \in [Turns -> TurnState]
      BY <1>6 DEF Voice
    <3> QED BY <3>1, <3>2
  <2> QED BY <1>4, <2>2, <2>3 DEF TurnIs, SameSession
<1> HIDE DEF x, h
<1>9. Calm(g, m, s, n) /\ \A u \in Turns : GoesOn(g, m, u)
  BY <1>2, SoundIsCalm
<1>10. Going(x, g, m, t) /\ (x.posting => IsPosting(g, t) \/ MayPost(g, s, t))
  BY <1>2, <1>5 DEF Going
<1>11. Sound(h, m, s, n) /\ OnTheWay(h) = OnTheWay(g) /\ ~IsManual(h)
  BY <1>1, <1>2, <1>8, <1>9, <1>10, TurnsGo
<1>12. CASE m = "direct"
  <2> DEFINE r == ResponseRequest("typed", t, FALSE)
  <2>1. r \in ResponseRequests /\ ~Owed(r)
    BY DEF ResponseRequest, ResponseRequests, Owed
  <2>2. f = Enqueue(h, r, NoScope)
    BY <1>7, <1>12, Zenon
  <2> HIDE DEF r
  <2>3. Askable(h, s, r) /\ Carried(h, m, New(r)) /\ Calm(h, m, s, n)
    BY <1>11, <2>1, SoundIsCalm DEF Askable
  <2>4. NoScope \in 0 .. Creating
    BY VoiceFacts
  <2>5. Asks(f, h, m, s, n, New(r))
    BY <2>1, <2>2, <2>3, <2>4, EnqueueKeeps, Zenon
  <2> QED BY <1>2, <1>11, <2>5, Zenon DEF Asks, Keeps
<1>13. CASE m # "direct"
  BY <1>2, <1>7, <1>11, <1>13 DEF Keeps
<1> QED BY <1>12, <1>13, Zenon

LEMMA ToolReturnsKeeps ==
  ASSUME NEW v, NEW m, NEW s, NEW n, Sound(v, m, s, n), NEW x \in v.tools,
         NEW end \in BOOLEAN, NEW account \in BOOLEAN,
         NEW g, g = [v EXCEPT !.tools = v.tools \ {x}], NEW f,
         f = Enqueue(IF account THEN Pause(g) ELSE g, ResponseRequest("tool", x.turn, end), x.rid)
  PROVE  Keeps(f, v, m, s, n)
<1> DEFINE tools == v.tools \ {x}
           r == ResponseRequest("tool", x.turn, end)
<1>1. v \in Voice
  BY DEF Sound
<1>2. x.rid \in Ids /\ x.turn \in Turns \cup {NoTurn}
      /\ tools \in SUBSET [rid : Ids, turn : Turns \cup {NoTurn}]
  BY <1>1 DEF Voice
<1>3. g = [v EXCEPT !.tools = tools]
  OBVIOUS
<1> HIDE DEF tools
<1>4. g \in Voice
  <2>1. v \in Boxed /\ tools \in Jobs
    BY <1>1, <1>2, Boxes DEF Jobs
  <2>2. [v EXCEPT !.tools = tools] \in Boxed
    BY <2>1, BoxFacts, Zenon DEF Boxed
  <2> QED BY <1>3, <2>2, Boxes
<1>5. /\ SameSpeech(g, v) /\ g.connect = v.connect /\ g.stream = v.stream /\ g.mic = v.mic
      /\ g.manual = v.manual /\ g.reconnect = v.reconnect /\ g.channel = v.channel
  BY <1>1, <1>3 DEF Voice, SameSpeech
<1>6. /\ g.ending = v.ending /\ g.attempts = v.attempts /\ g.timer = v.timer /\ g.endTimer = v.endTimer
      /\ g.resumed = v.resumed /\ g.resuming = v.resuming
  BY <1>1, <1>3 DEF Voice
<1>7. IsManual(v) => Loose(g) /\ ~EndsTimed(g)
  BY <1>5, <1>6 DEF Sound, Released, Loose, EndsTimed
<1>8. Kept(g, v, m, s, n)
  BY <1>4, <1>5, <1>6, <1>7, StageKeeps, Zenon
<1>9. r \in ResponseRequests /\ ~Owed(r)
  BY <1>2 DEF ResponseRequest, ResponseRequests, Owed
<1>10. f = Enqueue(IF account THEN Pause(g) ELSE g, r, x.rid)
  OBVIOUS
<1> HIDE DEF r
<1>11. Askable(g, s, r) /\ Carried(g, m, New(r)) /\ Calm(g, m, s, n)
  BY <1>8, <1>9, SoundIsCalm DEF Askable, Kept
<1>12. x.rid \in 0 .. Creating
  BY <1>2, VoiceFacts
<1> DEFINE after == x.rid
<1>13. Keeps(f, g, m, s, n) /\ (IsManual(g) => IsManual(f))
  <2>1. after \in 0 .. Creating /\ f = Enqueue(IF account THEN Pause(g) ELSE g, r, after)
    BY <1>10, <1>12
  <2> HIDE DEF after
  <2> QED BY <1>9, <1>11, <2>1, NewRequestKeeps
<1> QED BY <1>8, <1>13 DEF Kept, Keeps

-----------------------------------------------------------------------------
(* The line.                                                               *)

\* What LineOK says of a line, after response a.
Runs(l, a, m) ==
  /\ l \in LineState /\ InTurn(l.events, a, l.busy)
  /\ \A n \in DOMAIN l.events :
       l.events[n].type \in {"speech_stopped", "transcript"} => l.events[n].turn \in Turns
  /\ m # "direct" => \A n \in DOMAIN l.events :
       l.events[n].type # "call" /\ l.events[n].status # "calling"

LEMMA LineOKRuns ==
  ASSUME NEW v \in Voice, NEW m
  PROVE  LineOK(v, m) <=> Runs(v.line, v.active, m) /\ (v.active = 0 => v.request = NoRequest)
<1>1. v.line \in LineState
  BY DEF Voice
<1> QED BY <1>1 DEF LineOK, Runs

\* From response b to response c by the event e.
Turning(e, b, c) ==
  /\ e.type = "created" => b = 0 /\ c = e.rid /\ e.rid # 0
  /\ e.type = "done" => c = 0
  /\ e.type \notin {"created", "done"} => c = b
Proper(e, m) ==
  /\ e \in LineEvent
  /\ e.type \in {"speech_stopped", "transcript"} => e.turn \in Turns
  /\ m # "direct" => e.type # "call" /\ e.status # "calling"
Heeds(e, t) == e.type = "transcript" /\ e.turn = t

LEMMA AppendHearing ==
  ASSUME NEW w \in Seq(LineEvent), NEW e \in LineEvent, NEW t
  PROVE  Hearing(Append(w, e), t) = Hearing(w, t) \cup (IF Heeds(e, t) THEN {Len(w) + 1} ELSE {})
<1> DEFINE x == Append(w, e)
<1>1. /\ Len(w) \in Nat /\ DOMAIN w = 1 .. Len(w) /\ DOMAIN x = 1 .. Len(w) + 1
      /\ \A n \in DOMAIN w : x[n] = w[n]
      /\ x[Len(w) + 1] = e
  BY Appended
<1> HIDE DEF x
<1>2. \A n : n \in DOMAIN x <=> n \in DOMAIN w \/ n = Len(w) + 1
  BY <1>1
<1>3. Hearing(x, t) = Hearing(w, t) \cup (IF Heeds(e, t) THEN {Len(w) + 1} ELSE {})
  BY <1>1, <1>2 DEF Hearing, Heeds
<1> QED BY <1>3 DEF x

LEMMA EmitRuns ==
  ASSUME NEW l, NEW a, NEW m, Runs(l, a, m), NEW e, Proper(e, m), NEW g \in LineState,
         g.events = Append(l.events, e), Turning(e, l.busy, g.busy)
  PROVE  Runs(g, a, m)
<1> DEFINE w == l.events
           x == g.events
           len == Len(w)
<1>1. w \in Seq(LineEvent) /\ e \in LineEvent /\ g.busy \in Ids /\ x = Append(w, e)
  BY DEF Runs, LineState, Proper
<1>2. /\ len \in Nat /\ DOMAIN w = 1 .. len /\ DOMAIN x = 1 .. len + 1 /\ Len(x) = len + 1
      /\ \A n \in DOMAIN w : x[n] = w[n]
      /\ x[len + 1] = e
  BY <1>1, Appended
<1>3. PICK at \in [0 .. len -> Ids] : at[0] = a /\ at[len] = l.busy /\ Follows(at, w)
  BY DEF Runs, InTurn
<1> HIDE DEF w, x, len
<1> DEFINE as == [n \in 0 .. len + 1 |-> IF n <= len THEN at[n] ELSE g.busy]
<1>4. as \in [0 .. len + 1 -> Ids] /\ as[0] = a /\ as[len + 1] = g.busy
  BY <1>1, <1>2, <1>3
<1>5. \A n \in 0 .. len : as[n] = at[n]
  BY <1>2
<1> HIDE DEF as
<1>6. Follows(as, x)
  <2> SUFFICES ASSUME NEW n \in DOMAIN x
               PROVE  Turning(x[n], as[n - 1], as[n])
    BY Zenon DEF Follows, Turning
  <2>1. CASE n \in DOMAIN w
    <3>1. n \in 0 .. len /\ n - 1 \in 0 .. len
      BY <1>2, <2>1
    <3>2. Turning(w[n], at[n - 1], at[n])
      BY <1>3, <2>1 DEF Follows, Turning
    <3>3. as[n] = at[n] /\ as[n - 1] = at[n - 1] /\ x[n] = w[n]
      BY <1>2, <1>5, <2>1, <3>1, Zenon
    <3> QED BY <3>2, <3>3
  <2>2. CASE n \notin DOMAIN w
    <3>1. n = len + 1 /\ n - 1 = len /\ len \in 0 .. len
      BY <1>2, <2>2
    <3> QED BY <1>2, <1>3, <1>4, <1>5, <3>1, Zenon
  <2> QED BY <2>1, <2>2, Zenon
<1>7. InTurn(x, a, g.busy)
  BY <1>2, <1>4, <1>6, Zenon DEF InTurn
<1>8. \A n \in DOMAIN x : Proper(x[n], m)
  <2>1. \A n \in DOMAIN w : Proper(w[n], m)
    <3>1. \A n \in DOMAIN w : w[n] \in LineEvent
      BY <1>1, <1>2, ElementOfSeq
    <3> QED BY <3>1 DEF Runs, Proper, w
  <2>2. \A n \in DOMAIN x : n \in DOMAIN w \/ n = len + 1
    BY <1>2
  <2> QED BY <1>2, <2>1, <2>2
<1> QED BY <1>7, <1>8 DEF Runs, Proper, x

\* A step of the line, and of what the resident has said.
LineStep(f, v) ==
  /\ f \in Voice
  /\ f.connect = v.connect /\ f.reconnect = v.reconnect /\ f.stream = v.stream
  /\ f.mic = v.mic /\ f.manual = v.manual /\ f.ending = v.ending
  /\ f.attempts = v.attempts /\ f.timer = v.timer /\ f.endTimer = v.endTimer
  /\ f.resumed = v.resumed /\ f.resuming = v.resuming /\ f.channel = v.channel
  /\ f.queue = v.queue /\ f.creating = v.creating /\ f.request = v.request
  /\ f.active = v.active /\ f.turns = v.turns

LEMMA LineStepKeeps ==
  ASSUME NEW v, NEW m, NEW s, NEW n, Sound(v, m, s, n), NEW f, LineStep(f, v),
         Runs(f.line, f.active, m), \A t \in Turns : TurnFresh(f, s, t)
  PROVE  Keeps(f, v, m, s, n)
<1>1. OnTheWay(f) = OnTheWay(v) /\ Apart(f) /\ Uttered(f, s) = Uttered(v, s)
  <2>1. OnTheWay(f) = OnTheWay(v) /\ Apart(f)
    BY SpeechStays DEF LineStep, Sound
  <2> QED BY <2>1 DEF Uttered
<1>2. /\ (IsManual(f) <=> IsManual(v)) /\ (IsEnding(f) <=> IsEnding(v)) /\ (HasTimer(f) <=> HasTimer(v))
      /\ (EndsTimed(f) <=> EndsTimed(v)) /\ (HasMic(f) <=> HasMic(v))
      /\ (WasResumed(f) <=> WasResumed(v)) /\ (IsResuming(f) <=> IsResuming(v))
  BY DEF LineStep, IsManual, IsEnding, HasTimer, EndsTimed, HasMic, WasResumed, IsResuming
<1>3. Released(f) /\ MicrophoneHeld(f) /\ Started(f) /\ Counted(f, n)
  BY <1>2 DEF LineStep, Sound, Released, MicrophoneHeld, Started, Counted
<1>4. Fresh(f, s) /\ Unsaid(f, s)
  BY <1>1, <1>2 DEF LineStep, Sound, Fresh, Unsaid
<1>5. LineOK(f, m)
  <2>1. v.active = 0 => v.request = NoRequest
    BY DEF Sound, LineOK
  <2> QED BY <2>1, LineOKRuns DEF LineStep
<1>6. ASSUME NEW t \in Turns PROVE GoesOn(f, m, t)
  <2>1. /\ (IsPosting(f, t) <=> IsPosting(v, t)) /\ (IsKnown(f, t) <=> IsKnown(v, t))
        /\ (IsTimed(f, t) <=> IsTimed(v, t)) /\ (IsHeard(f, t) <=> IsHeard(v, t))
    BY DEF LineStep, IsPosting, IsKnown, IsTimed, IsHeard
  <2>2. GoesOn(v, m, t)
    BY DEF Sound
  <2> QED BY <1>1, <2>1, <2>2 DEF GoesOn
<1> QED BY <1>1, <1>3, <1>4, <1>5, <1>6 DEF Sound, Keeps, LineStep

\* The turns are as fresh as they were when the line says nothing new of them.
LEMMA LineStaysFresh ==
  ASSUME NEW v, NEW m, NEW s, NEW n, Sound(v, m, s, n), NEW f, LineStep(f, v), NEW t \in Turns,
         t \notin f.used => t \notin v.used,
         t \in f.line.unheard => t \in v.line.unheard,
         Hearing(f.line.events, t) = Hearing(v.line.events, t)
  PROVE  TurnFresh(f, s, t)
<1>1. OnTheWay(f) = OnTheWay(v)
  BY SpeechStays DEF LineStep
<1>2. (Answered(f, s, t) <=> Answered(v, s, t)) /\ (IsPosting(f, t) <=> IsPosting(v, t))
  BY <1>1 DEF Answered, Uttered, IsPosting, LineStep
<1>3. TurnFresh(v, s, t)
  BY DEF Sound
<1> QED BY <1>2, <1>3 DEF TurnFresh, NotYet

-----------------------------------------------------------------------------
(* The provider and the resident.                                          *)

\* What is emitted on the line l1 that l has become, g.
Emitted(g, l, a, m, l1, e) ==
  /\ Runs(g, a, m) /\ g.busy = l1.busy /\ g.unheard = l1.unheard
  /\ \A t : Hearing(g.events, t) = Hearing(l.events, t)
              \cup (IF Heeds(e, t) THEN {Len(l.events) + 1} ELSE {})
SameHearing(g, l) == \A t : Hearing(g.events, t) = Hearing(l.events, t)

LEMMA Emission ==
  ASSUME NEW l, NEW a, NEW m, Runs(l, a, m), NEW l1 \in LineState, l1.events = l.events,
         NEW e, Proper(e, m), Turning(e, l.busy, l1.busy), NEW g, g = Emit(l1, e)
  PROVE  Emitted(g, l, a, m, l1, e) /\ (e.type # "transcript" => SameHearing(g, l))
<1>1. l1.events \in Seq(LineEvent) /\ e \in LineEvent
  BY DEF LineState, Proper
<1>2. Append(l1.events, e) \in Seq(LineEvent)
  BY <1>1, AppendProperties
<1>3. /\ g \in LineState /\ g.events = Append(l.events, e) /\ g.busy = l1.busy
      /\ g.unheard = l1.unheard
  BY <1>2, Zenon DEF Emit, LineState
<1>4. Runs(g, a, m)
  BY <1>3, EmitRuns
<1>5. \A t : Hearing(g.events, t) = Hearing(l.events, t)
               \cup (IF Heeds(e, t) THEN {Len(l.events) + 1} ELSE {})
  BY <1>1, <1>3, AppendHearing
<1>6. e.type # "transcript" => SameHearing(g, l)
  BY <1>5, Zenon DEF SameHearing, Heeds
<1> QED BY <1>3, <1>4, <1>5, <1>6 DEF Emitted

Placed(v, l, made, used) == [v EXCEPT !.made = made, !.line = l, !.used = used]

LEMMA MoveFields ==
  ASSUME NEW v \in Voice, NEW l \in LineState, NEW made \in Ids, NEW used \in SUBSET Turns, NEW f,
         f = Placed(v, l, made, used)
  PROVE  LineStep(f, v) /\ f.line = l /\ f.used = used
<1>0. f = [v EXCEPT !.made = made, !.line = l, !.used = used]
  BY DEF Placed
<1>1. f \in Voice
  <2>1. v \in Boxed /\ made \in Ids /\ l \in LineState /\ used \in Talk
    BY Boxes DEF Talk
  <2>2. [v EXCEPT !.made = made, !.line = l, !.used = used] \in Boxed
    BY <2>1, BoxFacts, Zenon DEF Boxed
  <2> QED BY <1>0, <2>2, Boxes
<1>2. /\ f.connect = v.connect /\ f.reconnect = v.reconnect /\ f.stream = v.stream
      /\ f.mic = v.mic /\ f.manual = v.manual /\ f.ending = v.ending
      /\ f.attempts = v.attempts /\ f.timer = v.timer /\ f.endTimer = v.endTimer
  BY <1>0 DEF Voice
<1>3. /\ f.resumed = v.resumed /\ f.resuming = v.resuming /\ f.channel = v.channel
      /\ f.queue = v.queue /\ f.creating = v.creating /\ f.request = v.request
      /\ f.active = v.active /\ f.turns = v.turns /\ f.line = l /\ f.used = used
  BY <1>0 DEF Voice
<1> QED BY <1>1, <1>2, <1>3 DEF LineStep

\* The line changes and says nothing new of a turn.
Moved(v, l) == [v EXCEPT !.line = l]
Beginning(v, l) == [v EXCEPT !.made = v.made + 1, !.line = l]

LEMMA QuietKeeps ==
  ASSUME NEW v, NEW m, NEW s, NEW n, Sound(v, m, s, n), NEW l, Runs(l, v.active, m),
         l.unheard \subseteq v.line.unheard,
         SameHearing(l, v.line), NEW f,
         f = Moved(v, l) \/ (v.made < MaxResponses /\ f = Beginning(v, l))
  PROVE  Keeps(f, v, m, s, n)
<1>1. v \in Voice
  BY DEF Sound
<1> DEFINE made == IF f = Moved(v, l) THEN v.made ELSE v.made + 1
           used == v.used
<1>2. used \in SUBSET Turns /\ made \in Ids
  BY <1>1, VoiceAssumption DEF Voice, Ids
<1>3. f = Placed(v, l, made, used)
  BY <1>1, ZenonT(60) DEF Voice, Moved, Beginning, Placed
<1> HIDE DEF made, used
<1>4. LineStep(f, v) /\ f.line = l /\ f.used = used /\ l \in LineState
  BY <1>1, <1>2, <1>3, MoveFields DEF Runs
<1>5. Runs(f.line, f.active, m)
  BY <1>4 DEF LineStep
<1>6. \A t \in Turns : TurnFresh(f, s, t)
  BY <1>4, LineStaysFresh DEF used, SameHearing
<1> QED BY <1>4, <1>5, <1>6, LineStepKeeps

\* An event that says nothing of a turn.
LEMMA EmitKeeps ==
  ASSUME NEW v, NEW m, NEW s, NEW n, Sound(v, m, s, n), NEW l1 \in LineState,
         l1.events = v.line.events, l1.unheard \subseteq v.line.unheard,
         NEW e, Proper(e, m), Turning(e, v.line.busy, l1.busy), e.type # "transcript",
         NEW f, \/ f = Moved(v, Emit(l1, e))
                \/ v.made < MaxResponses /\ f = Beginning(v, Emit(l1, e))
  PROVE  Keeps(f, v, m, s, n)
<1> DEFINE g == Emit(l1, e)
<1>1. Runs(v.line, v.active, m)
  BY LineOKRuns DEF Sound
<1>2. Emitted(g, v.line, v.active, m, l1, e) /\ SameHearing(g, v.line)
  BY <1>1, Emission
<1>3. f = Moved(v, g) \/ (v.made < MaxResponses /\ f = Beginning(v, g))
  OBVIOUS
<1> HIDE DEF g
<1> QED BY <1>2, <1>3, QuietKeeps DEF Emitted

LEMMA TakeCommandKeeps ==
  ASSUME NEW v, NEW m, NEW s, NEW n, Sound(v, m, s, n), v.line.commands # <<>>,
         NEW c, c = [v.line EXCEPT !.commands = Tail(v.line.commands)],
         NEW r, r = Head(v.line.commands),
         NEW l1, l1 = [c EXCEPT !.busy = v.made + 1, !.making = r, !.playing = TRUE],
         NEW e, e = Event("created", v.made + 1, r, NoTurn, "ok"), NEW f,
         \/ c.busy = 0 /\ v.made < MaxResponses /\ f = Beginning(v, Emit(l1, e))
         \/ f = Moved(v, c)
  PROVE  Keeps(f, v, m, s, n)
<1>1. v \in Voice /\ Runs(v.line, v.active, m)
  BY LineOKRuns DEF Sound
<1>2. v.line \in LineState /\ v.line.commands \in Seq(ResponseRequests)
  BY <1>1 DEF Voice, LineState
<1>3. r \in ResponseRequests /\ Tail(v.line.commands) \in Seq(ResponseRequests) /\ r \in Spoken
  <2>1. r \in ResponseRequests /\ Tail(v.line.commands) \in Seq(ResponseRequests)
    BY <1>2, Tailed
  <2> QED BY <2>1, RequestFields
<1>4. /\ c \in LineState /\ c.events = v.line.events /\ c.busy = v.line.busy
      /\ c.unheard = v.line.unheard
  BY <1>2, <1>3, Zenon DEF LineState
<1>5. Runs(c, v.active, m) /\ SameHearing(c, v.line)
  BY <1>1, <1>4 DEF Runs, SameHearing
<1>6. CASE f = Moved(v, c)
  BY <1>4, <1>5, <1>6, QuietKeeps, Zenon
<1>7. CASE c.busy = 0 /\ v.made < MaxResponses /\ f = Beginning(v, Emit(l1, e))
  <2>1. v.made + 1 \in Ids /\ v.made + 1 # 0
    BY <1>1, <1>7, VoiceAssumption DEF Voice, Ids
  <2>2. /\ l1 \in LineState /\ l1.events = v.line.events /\ l1.busy = v.made + 1
        /\ l1.unheard = v.line.unheard
    BY <1>3, <1>4, <2>1, Zenon DEF LineState
  <2>3. e \in LineEvent /\ e.type = "created" /\ e.rid = v.made + 1 /\ e.status = "ok"
    BY <1>3, <2>1 DEF Event, LineEvent
  <2>4. Proper(e, m) /\ Turning(e, v.line.busy, l1.busy)
    BY <1>4, <1>7, <2>1, <2>2, <2>3 DEF Proper, Turning
  <2> QED BY <1>7, <2>2, <2>3, <2>4, EmitKeeps, Zenon
<1> QED BY <1>6, <1>7

LEMMA FinishResponseKeeps ==
  ASSUME NEW v, NEW m, NEW s, NEW n, Sound(v, m, s, n),
         NEW l1, l1 = [v.line EXCEPT !.busy = 0, !.making = NoRequest],
         NEW status \in {"completed", "cancelled"},
         NEW e, e = Event("done", v.line.busy, NoRequest, NoTurn, status),
         NEW f, f = Moved(v, Emit(l1, e))
  PROVE  Keeps(f, v, m, s, n)
<1>1. v.line \in LineState /\ v.line.busy \in Ids
  BY DEF Sound, Voice, LineState
<1>2. l1 \in LineState /\ l1.events = v.line.events /\ l1.unheard = v.line.unheard /\ l1.busy = 0
  BY <1>1, VoiceFacts, Zenon DEF LineState
<1>3. e \in LineEvent /\ e.type = "done" /\ e.status = status
  <2>1. NoRequest \in Spoken
    BY VoiceFacts
  <2> QED BY <1>1, <2>1 DEF Event, LineEvent
<1>4. Proper(e, m) /\ Turning(e, v.line.busy, l1.busy)
  BY <1>2, <1>3 DEF Proper, Turning
<1> QED BY <1>2, <1>3, <1>4, EmitKeeps, Zenon

LEMMA OutputStopsKeeps ==
  ASSUME NEW v, NEW m, NEW s, NEW n, Sound(v, m, s, n), NEW more \in BOOLEAN,
         NEW l1, l1 = [v.line EXCEPT !.playing = more],
         NEW e, e = Event("output_stopped", 0, NoRequest, NoTurn, "ok"),
         NEW f, f = Moved(v, Emit(l1, e))
  PROVE  Keeps(f, v, m, s, n)
<1>1. v.line \in LineState
  BY DEF Sound, Voice
<1>2. /\ l1 \in LineState /\ l1.events = v.line.events /\ l1.unheard = v.line.unheard
      /\ l1.busy = v.line.busy
  BY <1>1, Zenon DEF LineState
<1>3. e \in LineEvent /\ e.type = "output_stopped" /\ e.status = "ok"
  BY VoiceFacts DEF Event, LineEvent
<1>4. Proper(e, m) /\ Turning(e, v.line.busy, l1.busy)
  BY <1>2, <1>3 DEF Proper, Turning
<1> QED BY <1>2, <1>3, <1>4, EmitKeeps, Zenon

LEMMA CallToolKeeps ==
  ASSUME NEW v, NEW m, NEW s, NEW n, Sound(v, m, s, n), m = "direct",
         NEW tool \in {"wait", "work"},
         NEW c, c = Event("call", v.line.busy, NoRequest, NoTurn, tool),
         NEW e, e = Event("done", v.line.busy, NoRequest, NoTurn, "calling"),
         NEW l0, l0 = [v.line EXCEPT !.busy = 0, !.making = NoRequest],
         NEW f, f = Moved(v, Emit(Emit(l0, c), e))
  PROVE  Keeps(f, v, m, s, n)
<1> DEFINE l == v.line
           k == Emit(l, c)
           l1 == Emit(l0, c)
           g == Emit(l1, e)
<1>1. v.line \in LineState /\ v.line.busy \in Ids /\ Runs(v.line, v.active, m)
  <2>1. Runs(v.line, v.active, m)
    BY LineOKRuns DEF Sound
  <2> QED BY <2>1 DEF Runs, LineState
<1>2. NoRequest \in Spoken /\ 0 \in Ids
  BY VoiceFacts
<1>3. /\ c \in LineEvent /\ c.type = "call" /\ c.status = tool
      /\ e \in LineEvent /\ e.type = "done" /\ e.status = "calling"
  BY <1>1, <1>2 DEF Event, LineEvent
<1>4. Proper(c, m) /\ Proper(e, m)
  BY <1>3 DEF Proper
<1>5. Turning(c, l.busy, l.busy)
  BY <1>3 DEF Turning
<1>6. Emitted(k, l, v.active, m, l, c) /\ SameHearing(k, l)
  BY <1>1, <1>3, <1>4, <1>5, Emission
<1>7. k \in LineState /\ Runs(k, v.active, m)
  BY <1>6 DEF Emitted, Runs
<1>8. l1 = [k EXCEPT !.busy = 0, !.making = NoRequest]
  BY <1>1, Zenon DEF Emit, LineState
<1>9. f = Moved(v, g)
  OBVIOUS
<1>10. k.unheard = l.unheard
  BY <1>6 DEF Emitted
<1>11. g = Emit(l1, e)
  OBVIOUS
<1> HIDE DEF k, l1, g
<1>12. l1 \in LineState /\ l1.events = k.events /\ l1.busy = 0 /\ l1.unheard = k.unheard
  BY <1>2, <1>7, <1>8, Zenon DEF LineState
<1>13. Turning(e, k.busy, l1.busy)
  BY <1>3, <1>12 DEF Turning
<1>14. Emitted(g, k, v.active, m, l1, e) /\ SameHearing(g, k)
  BY <1>3, <1>4, <1>7, <1>11, <1>12, <1>13, Emission
<1>15. Runs(g, v.active, m) /\ SameHearing(g, v.line) /\ g.unheard \subseteq v.line.unheard
  BY <1>6, <1>10, <1>12, <1>14 DEF Emitted, SameHearing
<1> QED BY <1>9, <1>15, QuietKeeps

LEMMA TranscribeKeeps ==
  ASSUME NEW v, NEW m, NEW s, NEW n, Sound(v, m, s, n), NEW t \in Turns, t \in v.line.unheard,
         NEW status \in {"words", "noise", "failed"},
         NEW l1, l1 = [v.line EXCEPT !.unheard = v.line.unheard \ {t}],
         NEW e, e = Event("transcript", 0, NoRequest, t, status),
         NEW f, f = Moved(v, Emit(l1, e))
  PROVE  Keeps(f, v, m, s, n)
<1> DEFINE g == Emit(l1, e)
<1>1. v \in Voice /\ v.line \in LineState /\ Runs(v.line, v.active, m)
  <2>1. Runs(v.line, v.active, m)
    BY LineOKRuns DEF Sound
  <2> QED BY <2>1 DEF Runs, Sound
<1>2. /\ l1 \in LineState /\ l1.events = v.line.events /\ l1.busy = v.line.busy
      /\ l1.unheard = v.line.unheard \ {t}
  BY <1>1, Zenon DEF LineState
<1>3. e \in LineEvent /\ e.type = "transcript" /\ e.turn = t /\ e.status = status
  BY VoiceFacts DEF Event, LineEvent
<1>4. Proper(e, m) /\ Turning(e, v.line.busy, l1.busy)
  BY <1>2, <1>3 DEF Proper, Turning
<1>5. Emitted(g, v.line, v.active, m, l1, e)
  BY <1>1, <1>2, <1>3, <1>4, Emission, Zenon
<1>6. f = Moved(v, g)
  OBVIOUS
<1> HIDE DEF g
<1>7. Runs(g, v.active, m) /\ g \in LineState /\ g.unheard = l1.unheard
  BY <1>5 DEF Emitted, Runs
<1>8. f = Placed(v, g, v.made, v.used)
  BY <1>1, <1>6, Zenon DEF Moved, Placed, Voice
<1>9. LineStep(f, v) /\ f.line = g /\ f.used = v.used
  <2>1. v.made \in Ids /\ v.used \in SUBSET Turns
    BY <1>1 DEF Voice
  <2> QED BY <1>1, <1>7, <1>8, <2>1, MoveFields
<1>10. ASSUME NEW u \in Turns PROVE TurnFresh(f, s, u)
  <2>1. CASE u # t
    <3>1. Hearing(f.line.events, u) = Hearing(v.line.events, u)
      <4>1. ~Heeds(e, u)
        BY <1>3, <2>1 DEF Heeds
      <4>2. Hearing(g.events, u) = Hearing(v.line.events, u) \cup {}
        BY <1>5, <4>1, Zenon DEF Emitted
      <4> QED BY <1>9, <4>2
    <3>2. (u \notin f.used => u \notin v.used) /\ (u \in f.line.unheard => u \in v.line.unheard)
      BY <1>2, <1>7, <1>9
    <3> QED BY <1>9, <3>1, <3>2, LineStaysFresh
  <2>2. CASE u = t
    <3>1. Hearing(v.line.events, t) = {} /\ NotYet(v, s, t) /\ t \in v.used
      BY DEF Sound, TurnFresh
    <3>2. Hearing(f.line.events, t) = {Len(v.line.events) + 1}
      BY <1>3, <1>5, <1>9, <3>1 DEF Emitted, Heeds
    <3>3. t \notin f.line.unheard /\ t \in f.used
      BY <1>2, <1>7, <1>9, <3>1
    <3>4. NotYet(f, s, t)
      <4>1. OnTheWay(f) = OnTheWay(v)
        BY <1>9, SpeechStays DEF LineStep
      <4> QED BY <1>9, <3>1, <4>1, Zenon DEF NotYet, Answered, Uttered, IsPosting, LineStep
    <3> QED BY <2>2, <3>2, <3>3, <3>4, Zenon DEF TurnFresh, NotYet
  <2> QED BY <2>1, <2>2
<1>11. Runs(f.line, f.active, m)
  BY <1>7, <1>9 DEF LineStep
<1> QED BY <1>9, <1>10, <1>11, LineStepKeeps

\* The line that hears turn t, and what was being generated cut off.
Cut(l) ==
  IF l.busy = 0 THEN l
  ELSE Emit([l EXCEPT !.busy = 0, !.making = NoRequest],
            Event("done", l.busy, NoRequest, NoTurn, "cancelled"))
Hearkening(l, t) ==
  Emit([Cut(l) EXCEPT !.playing = FALSE, !.unheard = @ \cup {t}],
       Event("speech_stopped", 0, NoRequest, t, "ok"))
SpokenTo(g, l, a, m, t) ==
  /\ Runs(g, a, m) /\ g.busy = 0 /\ g.unheard = l.unheard \cup {t} /\ SameHearing(g, l)

LEMMA HearkeningIs ==
  ASSUME NEW l, NEW a, NEW m, Runs(l, a, m), NEW t \in Turns
  PROVE  SpokenTo(Hearkening(l, t), l, a, m, t)
<1> DEFINE d == [l EXCEPT !.busy = 0, !.making = NoRequest]
           x == Event("done", l.busy, NoRequest, NoTurn, "cancelled")
           k == Cut(l)
           l1 == [k EXCEPT !.playing = FALSE, !.unheard = @ \cup {t}]
           e == Event("speech_stopped", 0, NoRequest, t, "ok")
           g == Hearkening(l, t)
<1>1. l \in LineState /\ l.busy \in Ids /\ NoRequest \in Spoken /\ 0 \in Ids
  BY VoiceFacts DEF Runs, LineState
<1>2. Runs(k, a, m) /\ k.busy = 0 /\ k.unheard = l.unheard /\ SameHearing(k, l)
  <2>1. CASE l.busy = 0
    BY <2>1 DEF Cut, SameHearing
  <2>2. CASE l.busy # 0
    <3>1. k = Emit(d, x)
      BY <2>2 DEF Cut
    <3>2. d \in LineState /\ d.events = l.events /\ d.busy = 0 /\ d.unheard = l.unheard
      BY <1>1, Zenon DEF LineState
    <3>3. x \in LineEvent /\ x.type = "done" /\ x.status = "cancelled"
      BY <1>1 DEF Event, LineEvent
    <3> HIDE DEF d, x, k
    <3>4. Proper(x, m) /\ Turning(x, l.busy, d.busy)
      BY <3>2, <3>3 DEF Proper, Turning
    <3>5. Emitted(k, l, a, m, d, x) /\ SameHearing(k, l)
      BY <3>1, <3>2, <3>3, <3>4, Emission
    <3> QED BY <3>2, <3>5 DEF Emitted
  <2> QED BY <2>1, <2>2
<1>3. g = Emit(l1, e)
  BY DEF Hearkening
<1>4. e \in LineEvent /\ e.type = "speech_stopped" /\ e.turn = t /\ e.status = "ok"
  BY <1>1 DEF Event, LineEvent
<1>5. l1 = [k EXCEPT !.playing = FALSE, !.unheard = k.unheard \cup {t}]
  OBVIOUS
<1> HIDE DEF k, l1, e, g
<1>6. /\ l1 \in LineState /\ l1.events = k.events /\ l1.busy = 0
      /\ l1.unheard = l.unheard \cup {t}
  BY <1>2, <1>5, Zenon DEF Runs, LineState
<1>7. Proper(e, m) /\ Turning(e, k.busy, l1.busy)
  BY <1>2, <1>4, <1>6 DEF Proper, Turning
<1>8. Emitted(g, k, a, m, l1, e) /\ SameHearing(g, k)
  BY <1>2, <1>3, <1>4, <1>6, <1>7, Emission
<1>9. SpokenTo(g, l, a, m, t)
  BY <1>2, <1>6, <1>8 DEF Emitted, SameHearing, SpokenTo
<1> QED BY <1>9 DEF g

\* The provider begins a response of its own to it.
Answering(l, t, i) ==
  Emit([l EXCEPT !.busy = i, !.making = Automatic(t), !.playing = TRUE],
       Event("created", i, NoRequest, NoTurn, "ok"))

LEMMA AnsweringIs ==
  ASSUME NEW l, NEW a, NEW m, Runs(l, a, m), l.busy = 0, NEW t \in Turns,
         NEW i \in Ids, i # 0, NEW g, g = Answering(l, t, i)
  PROVE  Runs(g, a, m) /\ g.unheard = l.unheard /\ SameHearing(g, l)
<1> DEFINE l1 == [l EXCEPT !.busy = i, !.making = Automatic(t), !.playing = TRUE]
           e == Event("created", i, NoRequest, NoTurn, "ok")
<1>1. l \in LineState /\ NoRequest \in Spoken /\ Automatic(t) \in Spoken
  <2>1. FALSE \in BOOLEAN /\ t \in Turns \cup {NoTurn}
    OBVIOUS
  <2>2. Automatic(t) \in ResponseRequests
    BY <2>1, RequestFacts, Zenon DEF Automatic
  <2> QED BY <2>2, VoiceFacts DEF Runs
<1>2. l1 \in LineState /\ l1.events = l.events /\ l1.busy = i /\ l1.unheard = l.unheard
  BY <1>1, Zenon DEF LineState
<1>3. e \in LineEvent /\ e.type = "created" /\ e.rid = i /\ e.status = "ok"
  BY <1>1 DEF Event, LineEvent
<1>4. g = Emit(l1, e)
  BY DEF Answering
<1> HIDE DEF l1, e
<1>5. Proper(e, m) /\ Turning(e, l.busy, l1.busy)
  BY <1>2, <1>3 DEF Proper, Turning
<1>6. Emitted(g, l, a, m, l1, e) /\ SameHearing(g, l)
  BY <1>2, <1>3, <1>4, <1>5, Emission
<1> QED BY <1>2, <1>6 DEF Emitted

LEMMA SpeakKeeps ==
  ASSUME NEW v, NEW m, NEW s, NEW n, Sound(v, m, s, n), NEW t \in Turns, t \notin v.used,
         NEW g, g = Hearkening(v.line, t), NEW f,
         \/ f = Placed(v, g, v.made, v.used \cup {t})
         \/ /\ v.made < MaxResponses
            /\ f = Placed(v, Answering(g, t, v.made + 1), v.made + 1, v.used \cup {t})
  PROVE  Keeps(f, v, m, s, n)
<1>1. v \in Voice /\ Runs(v.line, v.active, m)
  BY LineOKRuns DEF Sound
<1>2. SpokenTo(g, v.line, v.active, m, t)
  BY <1>1, HearkeningIs
<1>3. ASSUME NEW l, NEW made \in Ids, f = Placed(v, l, made, v.used \cup {t}), Runs(l, v.active, m),
             l.unheard = v.line.unheard \cup {t}, SameHearing(l, v.line)
      PROVE  Keeps(f, v, m, s, n)
  <2>1. LineStep(f, v) /\ f.line = l /\ f.used = v.used \cup {t}
    <3>1. l \in LineState /\ v.used \cup {t} \in SUBSET Turns
      BY <1>1, <1>3 DEF Runs, Voice
    <3> QED BY <1>1, <1>3, <3>1, MoveFields
  <2>2. ASSUME NEW u \in Turns PROVE TurnFresh(f, s, u)
    <3>1. Hearing(f.line.events, u) = Hearing(v.line.events, u)
      BY <1>3, <2>1 DEF SameHearing
    <3>2. CASE u # t
      <4>1. (u \notin f.used => u \notin v.used) /\ (u \in f.line.unheard => u \in v.line.unheard)
        BY <1>3, <2>1, <3>2, Zenon
      <4> QED BY <2>1, <3>1, <4>1, LineStaysFresh
    <3>3. CASE u = t
      <4>1. Hearing(v.line.events, t) = {} /\ NotYet(v, s, t)
        BY DEF Sound, TurnFresh
      <4>2. NotYet(f, s, t)
        <5>1. OnTheWay(f) = OnTheWay(v)
          BY <2>1, SpeechStays DEF LineStep
        <5> QED BY <2>1, <4>1, <5>1 DEF NotYet, Answered, Uttered, IsPosting, LineStep
      <4> QED BY <3>1, <3>3, <4>1, <4>2, <2>1 DEF TurnFresh, NotYet
    <3> QED BY <3>2, <3>3
  <2>3. Runs(f.line, f.active, m)
    BY <1>3, <2>1 DEF LineStep
  <2> QED BY <2>1, <2>2, <2>3, LineStepKeeps
<1>4. CASE f = Placed(v, g, v.made, v.used \cup {t})
  <2>1. v.made \in Ids
    BY <1>1 DEF Voice
  <2> QED BY <1>2, <1>3, <1>4, <2>1 DEF SpokenTo
<1>5. CASE /\ v.made < MaxResponses
           /\ f = Placed(v, Answering(g, t, v.made + 1), v.made + 1, v.used \cup {t})
  <2> DEFINE l == Answering(g, t, v.made + 1)
  <2>1. v.made + 1 \in Ids /\ v.made + 1 # 0
    BY <1>1, <1>5, VoiceAssumption DEF Voice, Ids
  <2>2. Runs(l, v.active, m) /\ l.unheard = g.unheard /\ SameHearing(l, g)
    BY <1>2, <2>1, AnsweringIs DEF SpokenTo
  <2>3. f = Placed(v, l, v.made + 1, v.used \cup {t})
    BY <1>5
  <2> HIDE DEF l
  <2>4. l.unheard = v.line.unheard \cup {t} /\ SameHearing(l, v.line)
    BY <1>2, <2>2 DEF SpokenTo, SameHearing
  <2> QED BY <1>3, <2>1, <2>2, <2>3, <2>4
<1> QED BY <1>4, <1>5

-----------------------------------------------------------------------------
(* The client handles an event.                                            *)

Took(v) == [v EXCEPT !.line.events = Tail(v.line.events)]

\* What the client g has read is e, and a is active after it.
Taken(g, v, m, s, e, a) ==
  /\ LineStep(g, v) /\ g.used = v.used
  /\ Proper(e, m) /\ Turning(e, v.active, a) /\ Runs(g.line, a, m)
  /\ \A t \in Turns : TurnFresh(g, s, t)
  /\ \A t \in Turns : Heeds(e, t) => MayPost(g, s, t) /\ ~IsPosting(g, t)

\* The line g that is left of l, on which e was next.
Tails(g, l, e, b, m) ==
  /\ Proper(e, m)
  /\ \E a \in Ids : Turning(e, b, a) /\ Runs(g, a, m)
  /\ g.unheard = l.unheard
  /\ \A t : \A n \in Hearing(g.events, t) : n + 1 \in Hearing(l.events, t) /\ n # 0
  /\ \A t : Heeds(e, t) => 1 \in Hearing(l.events, t)
  /\ \A t : Hearing(g.events, t) \subseteq Nat

LEMMA TailRuns ==
  ASSUME NEW l, NEW b, NEW m, Runs(l, b, m), l.events # <<>>, NEW e, e = Head(l.events),
         NEW g, g = [l EXCEPT !.events = Tail(l.events)]
  PROVE  Tails(g, l, e, b, m)
<1> DEFINE w == l.events
           x == g.events
           len == Len(w)
<1>1. l \in LineState /\ w \in Seq(LineEvent) /\ w # <<>>
  BY DEF Runs, LineState
<1>2. /\ Tail(w) \in Seq(LineEvent) /\ len \in Nat /\ len >= 1 /\ Len(Tail(w)) = len - 1
      /\ DOMAIN Tail(w) = 1 .. len - 1 /\ DOMAIN w = 1 .. len
      /\ Head(w) = w[1] /\ Head(w) \in LineEvent
      /\ \A n \in 1 .. len - 1 : Tail(w)[n] = w[n + 1] /\ n + 1 \in DOMAIN w
  BY <1>1, Tailed
<1>3. g \in LineState /\ x = Tail(w) /\ g.busy = l.busy /\ g.unheard = l.unheard
  BY <1>1, <1>2, Zenon DEF LineState
<1>4. /\ x \in Seq(LineEvent) /\ Len(x) = len - 1 /\ DOMAIN x = 1 .. len - 1 /\ e = w[1]
      /\ 1 \in DOMAIN w /\ e \in LineEvent
      /\ \A n \in DOMAIN x : x[n] = w[n + 1] /\ n + 1 \in DOMAIN w /\ n \in Nat /\ n # 0
  BY <1>2, <1>3
<1>5. PICK at \in [0 .. len -> Ids] : at[0] = b /\ at[len] = l.busy /\ Follows(at, w)
  BY DEF Runs, InTurn
<1>6. \A n \in DOMAIN w : Proper(w[n], m) /\ Turning(w[n], at[n - 1], at[n])
  <2>1. \A n \in DOMAIN w : w[n] \in LineEvent
    BY <1>1, <1>2, ElementOfSeq
  <2> QED BY <1>5, <2>1, Zenon DEF Runs, Proper, Follows, Turning
<1> HIDE DEF w, x, len
<1> DEFINE as == [n \in 0 .. len - 1 |-> at[n + 1]]
<1>7. as \in [0 .. len - 1 -> Ids] /\ as[0] = at[1] /\ as[len - 1] = l.busy /\ at[1] \in Ids
  <2>1. 0 \in 0 .. len - 1 /\ len - 1 \in 0 .. len - 1 /\ len - 1 + 1 = len /\ 1 \in 0 .. len
    BY <1>2
  <2>2. \A n \in 0 .. len - 1 : n + 1 \in 0 .. len
    BY <1>2
  <2> QED BY <1>5, <2>1, <2>2
<1>8. \A n \in DOMAIN x : Turning(x[n], as[n - 1], as[n])
  <2> SUFFICES ASSUME NEW n \in DOMAIN x
               PROVE  Turning(x[n], as[n - 1], as[n])
    OBVIOUS
  <2>1. n - 1 \in 0 .. len - 1 /\ n \in 0 .. len - 1 /\ n - 1 + 1 = n /\ n + 1 - 1 = n
    BY <1>2, <1>4
  <2>2. as[n - 1] = at[n] /\ as[n] = at[n + 1]
    BY <2>1
  <2>3. Turning(w[n + 1], at[n], at[n + 1])
    <3>1. PICK k \in DOMAIN w : k = n + 1
      BY <1>4
    <3>2. Turning(w[k], at[k - 1], at[k])
      BY <1>6
    <3>3. k - 1 = n
      BY <2>1, <3>1
    <3> QED BY <3>1, <3>2, <3>3
  <2> QED BY <1>4, <2>2, <2>3
<1> HIDE DEF as
<1>9. InTurn(x, at[1], g.busy)
  <2>1. Follows(as, x)
    BY <1>8, Zenon DEF Follows, Turning
  <2> QED BY <1>3, <1>4, <1>7, <2>1, Zenon DEF InTurn
<1>10. \A n \in DOMAIN x : Proper(x[n], m)
  BY <1>4, <1>6
<1>11. Runs(g, at[1], m)
  BY <1>3, <1>9, <1>10 DEF Runs, Proper, x
<1>12. Proper(e, m) /\ Turning(e, b, at[1])
  <2>1. Turning(w[1], at[1 - 1], at[1]) /\ Proper(w[1], m)
    BY <1>4, <1>6
  <2> QED BY <1>4, <1>5, <2>1
<1>13. \A t : \A n \in Hearing(x, t) : n + 1 \in Hearing(w, t) /\ n # 0 /\ n \in Nat
  BY <1>4 DEF Hearing
<1>14. \A t : Heeds(e, t) => 1 \in Hearing(w, t)
  BY <1>4 DEF Hearing, Heeds
<1> QED BY <1>3, <1>7, <1>11, <1>12, <1>13, <1>14 DEF Tails, x, w

LEMMA TookIs ==
  ASSUME NEW v, NEW m, NEW s, NEW n, Sound(v, m, s, n), v.line.events # <<>>,
         NEW e, e = Head(v.line.events), NEW g, g = Took(v)
  PROVE  \E a \in Ids : Taken(g, v, m, s, e, a)
<1> DEFINE l == [v.line EXCEPT !.events = Tail(v.line.events)]
<1>1. v \in Voice /\ Runs(v.line, v.active, m)
  BY LineOKRuns DEF Sound
<1>2. l = [v.line EXCEPT !.events = Tail(v.line.events)]
  OBVIOUS
<1> HIDE DEF l
<1>9. Tails(l, v.line, e, v.active, m)
  BY <1>1, <1>2, TailRuns, Zenon
<1>3. /\ Proper(e, m) /\ l.unheard = v.line.unheard
      /\ \A t : \A k \in Hearing(l.events, t) : k + 1 \in Hearing(v.line.events, t) /\ k # 0
      /\ \A t : Heeds(e, t) => 1 \in Hearing(v.line.events, t)
      /\ \A t : Hearing(l.events, t) \subseteq Nat
  BY <1>9 DEF Tails
<1>4. PICK a \in Ids : Turning(e, v.active, a) /\ Runs(l, a, m)
  BY <1>9 DEF Tails
<1>5. LineStep(g, v) /\ g.line = l /\ g.used = v.used
  <2>1. g = Placed(v, l, v.made, v.used)
    BY <1>1, <1>2, Zenon DEF Took, Placed, Voice
  <2>2. v.made \in Ids /\ v.used \in SUBSET Turns /\ l \in LineState
    BY <1>1, <1>4 DEF Voice, Runs
  <2> QED BY <1>1, <2>1, <2>2, MoveFields
<1>6. OnTheWay(g) = OnTheWay(v)
  BY <1>5, SpeechStays DEF LineStep
<1>7. ASSUME NEW t \in Turns
      PROVE  TurnFresh(g, s, t) /\ (Heeds(e, t) => MayPost(g, s, t) /\ ~IsPosting(g, t))
  <2>1. TurnFresh(v, s, t)
    BY DEF Sound
  <2>2. (Answered(g, s, t) <=> Answered(v, s, t)) /\ (IsPosting(g, t) <=> IsPosting(v, t))
    BY <1>5, <1>6 DEF Answered, Uttered, IsPosting, LineStep
  <2>3. Hearing(l.events, t) # {} => Hearing(v.line.events, t) # {}
    BY <1>3
  <2>4. \A j, k \in Hearing(l.events, t) : j = k
    <3> SUFFICES ASSUME NEW j \in Hearing(l.events, t), NEW k \in Hearing(l.events, t)
                 PROVE  j = k
      OBVIOUS
    <3>1. j + 1 = k + 1
      BY <1>3, <2>1 DEF TurnFresh
    <3> QED BY <1>3, <3>1
  <2>5. TurnFresh(g, s, t)
    BY <1>3, <1>5, <2>1, <2>2, <2>3, <2>4 DEF TurnFresh, NotYet
  <2>6. ASSUME Heeds(e, t) PROVE MayPost(g, s, t) /\ ~IsPosting(g, t)
    <3>1. 1 \in Hearing(v.line.events, t)
      BY <1>3, <2>6
    <3>2. Hearing(l.events, t) = {}
      <4> SUFFICES ASSUME NEW k \in Hearing(l.events, t) PROVE FALSE
        OBVIOUS
      <4>1. k + 1 = 1 /\ k # 0 /\ k \in Nat
        BY <1>3, <2>1, <3>1 DEF TurnFresh
      <4> QED BY <4>1
    <3> QED BY <1>3, <1>5, <2>1, <2>2, <3>1, <3>2 DEF TurnFresh, NotYet, MayPost
  <2> QED BY <2>5, <2>6
<1> QED BY <1>3, <1>4, <1>5, <1>7 DEF Taken

MadeActive(g, a) == [g EXCEPT !.active = a]

LEMMA ActiveFields ==
  ASSUME NEW g \in Voice, NEW a \in Ids, NEW b, b = MadeActive(g, a)
  PROVE  /\ b \in Voice /\ SameSession(b, g) /\ b.active = a
         /\ b.queue = g.queue /\ b.creating = g.creating /\ b.request = g.request
         /\ b.turns = g.turns /\ b.line = g.line /\ b.channel = g.channel
<1>0. b = [g EXCEPT !.active = a]
  BY DEF MadeActive
<1>1. b \in Voice
  <2>1. g \in Boxed /\ a \in Ids
    BY Boxes
  <2>2. [g EXCEPT !.active = a] \in Boxed
    BY <2>1, BoxFacts, Zenon DEF Boxed
  <2> QED BY <1>0, <2>2, Boxes
<1>2. SameSession(b, g)
  BY <1>0 DEF Voice, SameSession
<1> QED BY <1>0, <1>1, <1>2, Zenon DEF Voice

\* An event that is no end of a response has been read.
LEMMA TookKeeps ==
  ASSUME NEW v, NEW m, NEW s, NEW n, Sound(v, m, s, n), ~IsManual(v), NEW g, NEW e, NEW a \in Ids,
         Taken(g, v, m, s, e, a), e.type # "done", NEW b, b = MadeActive(g, a)
  PROVE  /\ Sound(b, m, s, n) /\ OnTheWay(b) = OnTheWay(v) /\ ~IsManual(b)
         /\ b.active = a /\ b.request = v.request
         /\ e.type # "created" => b = g
         /\ \A t \in Turns : Heeds(e, t) => MayPost(b, s, t) /\ ~IsPosting(b, t)
<1>1. g \in Voice /\ LineStep(g, v)
  BY DEF Taken, LineStep
<1>2. /\ b \in Voice /\ SameSession(b, g) /\ b.active = a
      /\ b.queue = g.queue /\ b.creating = g.creating /\ b.request = g.request
      /\ b.turns = g.turns /\ b.line = g.line /\ b.channel = g.channel
  BY <1>1, ActiveFields
<1>3. /\ b.connect = v.connect /\ b.reconnect = v.reconnect /\ b.stream = v.stream
      /\ b.mic = v.mic /\ b.manual = v.manual /\ b.ending = v.ending
      /\ b.attempts = v.attempts /\ b.timer = v.timer /\ b.endTimer = v.endTimer
      /\ b.resumed = v.resumed /\ b.resuming = v.resuming /\ b.channel = v.channel
      /\ b.queue = v.queue /\ b.creating = v.creating /\ b.request = v.request
      /\ b.turns = v.turns /\ b.used = v.used
  BY <1>1, <1>2 DEF LineStep, SameSession, Taken
<1>4. OnTheWay(b) = OnTheWay(v) /\ Apart(b) /\ Uttered(b, s) = Uttered(v, s)
  <2>1. OnTheWay(b) = OnTheWay(v) /\ Apart(b)
    BY <1>3, SpeechStays DEF Sound
  <2> QED BY <2>1 DEF Uttered
<1>5. /\ (IsManual(b) <=> IsManual(v)) /\ (IsEnding(b) <=> IsEnding(v)) /\ (HasTimer(b) <=> HasTimer(v))
      /\ (EndsTimed(b) <=> EndsTimed(v)) /\ (HasMic(b) <=> HasMic(v))
      /\ (WasResumed(b) <=> WasResumed(v)) /\ (IsResuming(b) <=> IsResuming(v))
  BY <1>3 DEF IsManual, IsEnding, HasTimer, EndsTimed, HasMic, WasResumed, IsResuming
<1>6. Released(b) /\ MicrophoneHeld(b) /\ Started(b) /\ Counted(b, n)
  BY <1>3, <1>5 DEF Sound, Released, MicrophoneHeld, Started, Counted
<1>7. Fresh(b, s) /\ Unsaid(b, s)
  BY <1>3, <1>4, <1>5 DEF Sound, Fresh, Unsaid
<1>8. LineOK(b, m)
  <2>1. Runs(b.line, b.active, m)
    BY <1>2 DEF Taken
  <2>2. b.active = 0 => b.request = NoRequest
    BY <1>2, <1>3 DEF Sound, LineOK, Taken, Turning
  <2> QED BY <1>2, <2>1, <2>2, LineOKRuns
<1>9. ASSUME NEW t \in Turns PROVE GoesOn(b, m, t)
  <2>1. /\ (IsPosting(b, t) <=> IsPosting(v, t)) /\ (IsKnown(b, t) <=> IsKnown(v, t))
        /\ (IsTimed(b, t) <=> IsTimed(v, t)) /\ (IsHeard(b, t) <=> IsHeard(v, t))
    BY <1>3 DEF IsPosting, IsKnown, IsTimed, IsHeard
  <2>2. GoesOn(v, m, t)
    BY DEF Sound
  <2> QED BY <1>4, <2>1, <2>2 DEF GoesOn
<1>10. OnTheWay(b) = OnTheWay(g)
  BY <1>2, SpeechStays
<1>11. ASSUME NEW t \in Turns
       PROVE  /\ TurnFresh(b, s, t)
              /\ Heeds(e, t) => MayPost(b, s, t) /\ ~IsPosting(b, t)
  <2>1. TurnFresh(g, s, t) /\ (Heeds(e, t) => MayPost(g, s, t) /\ ~IsPosting(g, t))
    BY DEF Taken
  <2>2. (Answered(b, s, t) <=> Answered(g, s, t)) /\ (IsPosting(b, t) <=> IsPosting(g, t))
    BY <1>2, <1>10 DEF Answered, Uttered, IsPosting
  <2>3. b.used = g.used
    BY <1>2 DEF SameSession
  <2> QED BY <1>2, <2>1, <2>2, <2>3 DEF TurnFresh, NotYet, MayPost
<1>12. ASSUME e.type # "created" PROVE b = g
  <2>1. a = g.active
    BY <1>1, <1>12 DEF Taken, Turning, LineStep
  <2> QED BY <1>1, <2>1 DEF MadeActive, Voice
<1> QED BY <1>2, <1>3, <1>4, <1>5, <1>6, <1>7, <1>8, <1>9, <1>11, <1>12 DEF Sound

LEMMA SpeechStoppedKeeps ==
  ASSUME NEW v, NEW s, NEW n, Sound(v, mode, s, n), ~IsManual(v), NEW e, e.turn \in Turns,
         NEW f, f = OnSpeechStopped(v, e)
  PROVE  Keeps(f, v, mode, s, n)
<1> DEFINE t == e.turn
           x == IF v.turns[t].known THEN [v.turns[t] EXCEPT !.timer = TRUE]
                ELSE [NewTurn EXCEPT !.known = TRUE, !.timer = TRUE]
           turns == [v.turns EXCEPT ![t] = x]
           p == IF Direct THEN Append(v.pending, t) ELSE v.pending
<1>1. /\ v \in Voice /\ v.turns[t] \in TurnState /\ v.pending \in Seq(Turns)
      /\ Calm(v, mode, s, n) /\ Going(v.turns[t], v, mode, t)
      /\ \A u \in Turns : GoesOn(v, mode, u)
  BY TurnOf
<1>2. f = [v EXCEPT !.turns = turns, !.pending = p]
  <2>1. CASE v.turns[t].known
    BY <1>1, <2>1 DEF OnSpeechStopped, CreateTurn, Voice
  <2>2. CASE ~v.turns[t].known
    BY <1>1, <2>2, ZenonT(30) DEF OnSpeechStopped, CreateTurn, Voice
  <2> QED BY <2>1, <2>2
<1>3. p \in Seq(Turns) /\ x \in TurnState /\ x.timer = TRUE /\ (x.posting => v.turns[t].posting)
  <2>1. p \in Seq(Turns)
    BY <1>1, AppendProperties
  <2> QED BY <1>1, <2>1, Zenon DEF NewTurn, TurnState
<1> HIDE DEF x, p, turns
<1>4. TurnIs(f, v, t, x)
  <2>1. turns = [v.turns EXCEPT ![t] = x]
    BY DEF turns
  <2> QED BY <1>1, <1>2, <1>3, <2>1, TurnFields, Zenon
<1>5. Going(x, v, mode, t) /\ (x.posting => IsPosting(v, t) \/ MayPost(v, s, t))
  BY <1>1, <1>3 DEF Going, IsPosting
<1>6. Sound(f, mode, s, n) /\ OnTheWay(f) = OnTheWay(v) /\ ~IsManual(f)
  BY <1>1, <1>4, <1>5, TurnsGo
<1> QED BY <1>6 DEF Keeps

LEMMA TurnAgain ==
  ASSUME NEW v, NEW t \in Turns, NEW x, NEW y, NEW c, TurnIs(c, v, t, x), NEW f, TurnIs(f, c, t, y)
  PROVE  TurnIs(f, v, t, y)
<1>1. [c.turns EXCEPT ![t] = y] = [v.turns EXCEPT ![t] = y]
  BY DEF TurnIs, Voice
<1>2. SameSession(f, v)
  BY DEF TurnIs, SameSession
<1> QED BY <1>1, <1>2 DEF TurnIs


LEMMA TranscriptKeeps ==
  ASSUME NEW v, NEW s, NEW n, Sound(v, mode, s, n), ~IsManual(v), NEW e, e.turn \in Turns,
         MayPost(v, s, e.turn), ~IsPosting(v, e.turn), NEW f, f = OnTranscript(v, e)
  PROVE  Keeps(f, v, mode, s, n)
<1> DEFINE t == e.turn
           late == v.turns[t].late
           c == IF late \/ v.turns[t].known \/ e.status = "failed" THEN v
                ELSE [CreateTurn(v, t) EXCEPT !.turns[t].response = Direct]
           x == IF late \/ v.turns[t].known \/ e.status = "failed" THEN v.turns[t]
                ELSE [NewTurn EXCEPT !.known = TRUE, !.response = Direct]
           settled == [c EXCEPT !.turns[t].timer = FALSE, !.turns[t].transcript = TRUE]
<1>1. /\ v \in Voice /\ v.turns[t] \in TurnState /\ v.pending \in Seq(Turns)
      /\ Calm(v, mode, s, n) /\ Going(v.turns[t], v, mode, t)
      /\ \A u \in Turns : GoesOn(v, mode, u)
  BY TurnOf
<1>2. x \in TurnState /\ x.posting = FALSE /\ Direct \in BOOLEAN
  BY <1>1, Zenon DEF TurnState, NewTurn, IsPosting, Direct
<1>3. c = [v EXCEPT !.turns = [v.turns EXCEPT ![t] = x], !.pending = v.pending]
  <2>1. CASE late \/ v.turns[t].known \/ e.status = "failed"
    BY <1>1, <2>1, Zenon DEF Voice
  <2>2. CASE ~(late \/ v.turns[t].known \/ e.status = "failed")
    BY <1>1, <2>2, Zenon DEF CreateTurn, Voice
  <2> QED BY <2>1, <2>2
<1>4. /\ ~Direct => f = IF e.status = "words" THEN Submit(c, t) ELSE RemoveTurn(c, t)
      /\ Direct => f \in {v, RemoveTurn(v, t), RemoveIfSettled(settled, t)}
  BY DEF OnTranscript
<1>5. settled = [c EXCEPT !.turns[t].timer = FALSE, !.turns[t].transcript = TRUE]
  OBVIOUS
<1> HIDE DEF c, x, settled, late
<1>6. TurnIs(c, v, t, x) /\ c \in Voice /\ c.turns[t] = x
  <2>1. TurnIs(c, v, t, x)
    BY <1>1, <1>2, <1>3, TurnFields, Zenon
  <2> QED BY <1>1, <2>1 DEF TurnIs, Voice
<1>7. c.pending \in Seq(Turns)
  BY <1>6 DEF Voice
<1>8. f = v => Keeps(f, v, mode, s, n)
  BY DEF Keeps
<1>9. ASSUME f = RemoveTurn(v, t) \/ f = RemoveTurn(c, t)
      PROVE  Keeps(f, v, mode, s, n)
  <2>1. TurnIs(f, v, t, NewTurn)
    <3>1. f = RemoveTurn(v, t) => TurnIs(f, v, t, NewTurn)
      BY <1>1, RemoveTurnIs
    <3>2. f = RemoveTurn(c, t) => TurnIs(f, c, t, NewTurn)
      BY <1>6, RemoveTurnIs
    <3>3. TurnIs(f, c, t, NewTurn) => TurnIs(f, v, t, NewTurn)
      BY <1>6, TurnAgain
    <3> QED BY <1>9, <3>1, <3>2, <3>3
  <2>2. Going(NewTurn, v, mode, t) /\ ~NewTurn.posting
    BY DEF Going, NewTurn
  <2>3. Sound(f, mode, s, n) /\ OnTheWay(f) = OnTheWay(v)
    BY <1>1, <2>1, <2>2, TurnsGo
  <2> QED BY <2>3 DEF Keeps
<1>10. CASE ~Direct /\ f = Submit(c, t)
  <2> DEFINE y == [x EXCEPT !.posting = TRUE, !.timer = FALSE]
             turns == [c.turns EXCEPT ![t] = y]
             p == c.pending
  <2>0. turns = [c.turns EXCEPT ![t].posting = TRUE, ![t].timer = FALSE]
    BY <1>6, Zenon DEF Voice
  <2>1. f = [c EXCEPT !.turns = turns, !.pending = p]
    <3> HIDE DEF turns
    <3>1. f = [c EXCEPT !.turns = turns]
      BY <1>6, <1>10, <2>0, Zenon DEF Submit, Voice
    <3> QED BY <1>6, <3>1, Zenon DEF Voice
  <2>2. y \in TurnState /\ y.posting = TRUE
    BY <1>2, Zenon DEF TurnState
  <2> HIDE DEF y
  <2>3. TurnIs(f, c, t, y)
    BY <1>6, <1>7, <2>1, <2>2, TurnFields, Zenon
  <2>4. TurnIs(f, v, t, y)
    BY <1>6, <2>3, TurnAgain
  <2>5. Going(y, v, mode, t)
    BY <1>10, <2>2 DEF Going, Direct
  <2>6. Sound(f, mode, s, n) /\ OnTheWay(f) = OnTheWay(v)
    BY <1>1, <2>4, <2>5, TurnsGo
  <2> QED BY <2>6 DEF Keeps
<1>11. CASE Direct /\ f = RemoveIfSettled(settled, t)
  <2> DEFINE y == [x EXCEPT !.timer = FALSE, !.transcript = TRUE]
             turns == [c.turns EXCEPT ![t] = y]
             p == c.pending
  <2>1. settled = [c EXCEPT !.turns = turns, !.pending = p]
    BY <1>5, <1>6, Zenon DEF Voice
  <2>2. y \in TurnState /\ y.posting = FALSE /\ y.transcript = TRUE
    BY <1>2, Zenon DEF TurnState
  <2> HIDE DEF y
  <2>3. TurnIs(settled, c, t, y)
    BY <1>6, <1>7, <2>1, <2>2, TurnFields, Zenon
  <2>4. TurnIs(settled, v, t, y)
    BY <1>6, <2>3, TurnAgain
  <2>5. Going(y, v, mode, t)
    BY <1>11, <2>2 DEF Going, Direct
  <2>6. Sound(settled, mode, s, n) /\ OnTheWay(settled) = OnTheWay(v) /\ ~IsManual(settled)
    BY <1>1, <2>2, <2>4, <2>5, TurnsGo
  <2>7. /\ Calm(settled, mode, s, n) /\ Going(settled.turns[t], settled, mode, t)
        /\ \A u \in Turns : GoesOn(settled, mode, u)
    BY <2>6, TurnOf
  <2>8. Sound(f, mode, s, n) /\ OnTheWay(f) = OnTheWay(settled)
    <3>1. \A u \in Turns : u # t => GoesOn(settled, mode, u)
      BY <2>7
    <3>2. f = RemoveIfSettled(settled, t)
      BY <1>11
    <3> QED BY <2>6, <2>7, <3>1, <3>2, RemoveIfSettledKeeps
  <2> QED BY <2>6, <2>8 DEF Keeps
<1> QED BY <1>4, <1>8, <1>9, <1>10, <1>11

\* The queue without what the provider begins after all.
LEMMA LeftIs ==
  ASSUME NEW v \in Voice, Distinct(v.queue), NEW r, NEW q, q = Left(v, r)
  PROVE  /\ q \in Seq(Queueing) /\ Distinct(q)
         /\ \A u : Owed(u) => (u \in Asked(q) <=> u \in Asked(v.queue) /\ (u # r \/ v.creating = r))
<1>1. v.queue \in Seq(Queueing)
  BY DEF Voice
<1>2. CASE r = NoRequest \/ v.creating = r
  BY <1>1, <1>2, VoiceFacts, Zenon DEF Left
<1>3. CASE r # NoRequest /\ v.creating # r
  <2> DEFINE ids == {i \in 1 .. Len(v.queue) : v.queue[i].request = r}
             k == Min(ids)
  <2>1. q = IF \E i \in 1 .. Len(v.queue) : v.queue[i].request = r
            THEN RemoveAt(v.queue, IF ids # {} THEN k ELSE 0) ELSE v.queue
    BY <1>3 DEF Left, RemoveFirstMatch, SelectInSeq
  <2>2. DOMAIN v.queue = 1 .. Len(v.queue)
    BY <1>1, LenProperties
  <2>3. CASE ids = {}
    <3>1. q = v.queue /\ r \notin Asked(v.queue)
      BY <2>1, <2>2, <2>3 DEF Asked
    <3> QED BY <1>1, <3>1
  <2>4. CASE ids # {}
    <3>1. ids \in SUBSET DOMAIN v.queue
      BY <2>2
    <3>2. ids \in SUBSET Int /\ IsFiniteSet(ids)
      BY <1>1, <3>1, IndicesAreFinite
    <3>3. q = RemoveAt(v.queue, k)
      BY <2>1, <2>4
    <3>4. k = CHOOSE x \in ids : \A y \in ids : x <= y
      BY DEF Min
    <3>5. k \in ids => k \in DOMAIN v.queue /\ v.queue[k].request = r
      BY <2>2
    <3> HIDE DEF ids, k
    <3>6. \E x \in ids : \A y \in ids : x <= y
      BY <2>4, <3>2, LeastExists
    <3>7. k \in DOMAIN v.queue /\ v.queue[k].request = r
      BY <3>4, <3>5, <3>6
    <3>8. /\ q \in Seq(Queueing) /\ Distinct(q)
          /\ \A u : Owed(u) => (u \in Asked(q) <=> u \in Asked(v.queue) /\ u # v.queue[k].request)
      BY <1>1, <3>3, <3>7, AskedWithout
    <3> QED BY <1>3, <3>7, <3>8
  <2> QED BY <2>3, <2>4
<1> QED BY <1>2, <1>3

\* Known, and what is left of it.
LEMMA KnownTyped ==
  ASSUME NEW v \in Voice
  PROVE  /\ Known(v) \in Seq(Turns)
         /\ Known(v) # <<>> => Head(Known(v)) \in Turns /\ Tail(Known(v)) \in Seq(Turns)
<1>1. v.pending \in Seq(Turns)
  BY DEF Voice
<1>2. {n \in DOMAIN v.pending : v.turns[v.pending[n]].known} \in SUBSET DOMAIN v.pending
  OBVIOUS
<1>3. Known(v) \in Seq(Turns)
  BY <1>1, <1>2, SubsequenceForm DEF Known
<1> QED BY <1>3, Tailed

\* The queue once the provider has begun request, for r, as response i.
Requeued(p, v, r, request) ==
  /\ p \in Seq(Queueing) /\ Distinct(p)
  /\ \A u : Owed(u) =>
       (u \in Asked(p) <=> \/ u = v.creating /\ u # request
                           \/ u \in Asked(v.queue) /\ (u # r \/ v.creating = r))

\* What waited for the response that was being created waits for response i.
Relabelled(q, i) ==
  [k \in DOMAIN q |-> IF q[k].after = Creating THEN [q[k] EXCEPT !.after = i] ELSE q[k]]

LEMMA RelabelledIs ==
  ASSUME NEW q \in Seq(Queueing), Distinct(q), NEW i \in Ids
  PROVE  /\ Relabelled(q, i) \in Seq(Queueing) /\ Distinct(Relabelled(q, i))
         /\ Asked(Relabelled(q, i)) = Asked(q)
<1> DEFINE p == Relabelled(q, i)
<1>1. \A k \in DOMAIN q : p[k] \in Queueing /\ p[k].request = q[k].request
  <2>1. \A k \in DOMAIN q : q[k] \in Queueing
    BY LenProperties, ElementOfSeq
  <2>2. i \in 0 .. Creating
    BY VoiceFacts
  <2> QED BY <2>1, <2>2 DEF Relabelled, Queueing
<1>2. DOMAIN p = DOMAIN q /\ p = [k \in DOMAIN q |-> p[k]]
  BY DEF Relabelled
<1> HIDE DEF p
<1>3. p \in Seq(Queueing) /\ Asked(p) = Asked(q) /\ (Distinct(q) => Distinct(p))
  BY <1>1, <1>2, AskedRelabelled
<1> QED BY <1>3 DEF p

LEMMA RequeuedIs ==
  ASSUME NEW v \in Voice, Apart(v), NEW r, NEW request, NEW i \in Ids,
         NEW behind, behind = IF v.creating \in {NoRequest, request} THEN <<>>
                              ELSE <<[request |-> v.creating, after |-> i]>>,
         NEW q, q = behind \o Left(v, r),
         NEW p, p = Relabelled(q, i)
  PROVE  Requeued(p, v, r, request)
<1> DEFINE left == Left(v, r)
           x == [request |-> v.creating, after |-> i]
<1>1. /\ left \in Seq(Queueing) /\ Distinct(left)
      /\ \A u : Owed(u) => (u \in Asked(left) <=> u \in Asked(v.queue) /\ (u # r \/ v.creating = r))
  BY LeftIs DEF Apart
<1>2. q = behind \o left
  OBVIOUS
<1> HIDE DEF left
<1>3. /\ q \in Seq(Queueing) /\ Distinct(q)
      /\ \A u : Owed(u) => (u \in Asked(q) <=> (u = v.creating /\ u # request) \/ u \in Asked(left))
  <2>1. CASE v.creating \in {NoRequest, request}
    <3>1. q = left
      BY <1>1, <1>2, <2>1, ConcatEmptySeq, Zenon
    <3> QED BY <1>1, <2>1, <3>1, VoiceFacts, Zenon
  <2>2. CASE v.creating \notin {NoRequest, request}
    <3>1. q = <<x>> \o left
      BY <1>2, <2>2
    <3>2. x \in Queueing /\ x.request = v.creating
      BY <2>2, VoiceFacts DEF Voice, Spoken, Queueing
    <3> HIDE DEF x
    <3>3. /\ q \in Seq(Queueing) /\ Asked(q) = Asked(left) \cup {x.request}
          /\ Distinct(left) /\ (Owed(x.request) => x.request \notin Asked(left)) => Distinct(q)
      BY <1>1, <3>1, <3>2, AskedPrepend, Zenon
    <3>4. Owed(x.request) => x.request \notin Asked(left)
      BY <1>1, <3>2, QueuedIsAsked DEF Apart
    <3> QED BY <1>1, <2>2, <3>2, <3>3, <3>4
  <2> QED BY <2>1, <2>2
<1>4. p \in Seq(Queueing) /\ Asked(p) = Asked(q) /\ Distinct(p)
  BY <1>3, RelabelledIs, Zenon
<1> QED BY <1>1, <1>3, <1>4, Zenon DEF Requeued

\* What a created event says of the session: an attempt may be spared.
Sparing(g, p, spared) ==
  [g EXCEPT !.recent = FALSE, !.pending = p,
            !.timer = g.timer /\ ~spared, !.attempts = IF spared THEN g.attempts - 1 ELSE g.attempts]

LEMMA SparingKeeps ==
  ASSUME NEW v, NEW m, NEW s, NEW n, Sound(v, m, s, n), ~IsManual(v), NEW p \in Seq(Turns),
         NEW spared \in BOOLEAN, spared => HasTimer(v), NEW f, f = Sparing(v, p, spared)
  PROVE  /\ Sound(f, m, s, n) /\ OnTheWay(f) = OnTheWay(v) /\ ~IsManual(f)
         /\ SameSpeech(f, v) /\ f.channel = v.channel
<1> DEFINE timer == v.timer /\ ~spared
           attempts == IF spared THEN v.attempts - 1 ELSE v.attempts
<1>1. v \in Voice /\ Counted(v, n)
  BY DEF Sound
<1>2. /\ timer \in BOOLEAN /\ attempts \in 0 .. MaxReconnects /\ n \in Nat /\ n <= attempts
      /\ timer => n + 1 <= attempts
  <2>1. /\ v.timer \in BOOLEAN /\ v.attempts \in 0 .. MaxReconnects /\ MaxReconnects \in Nat
        /\ n \in Nat /\ n <= v.attempts /\ (v.timer => n + 1 <= v.attempts)
    BY <1>1, VoiceAssumption DEF Voice, Counted, HasTimer
  <2>2. CASE spared
    <3>1. attempts = v.attempts - 1 /\ ~timer /\ n + 1 <= v.attempts
      BY <2>1, <2>2 DEF HasTimer
    <3>2. timer \in BOOLEAN /\ ~timer
      BY <2>1, <3>1
    <3> HIDE DEF timer, attempts
    <3>3. attempts \in 0 .. MaxReconnects /\ n <= attempts
      BY <2>1, <3>1
    <3> QED BY <2>1, <3>2, <3>3
  <2>3. CASE ~spared
    BY <2>1, <2>3
  <2> QED BY <2>2, <2>3
<1>3. f = [v EXCEPT !.recent = FALSE, !.pending = p, !.timer = timer, !.attempts = attempts]
  BY DEF Sparing
<1> HIDE DEF timer, attempts
<1>4. f \in Voice
  <2>1. v \in Boxed /\ p \in Waiting /\ timer \in Flags /\ attempts \in Attempts
    BY <1>1, <1>2, Boxes DEF Attempts, Flags, Waiting
  <2>2. [v EXCEPT !.recent = FALSE, !.pending = p, !.timer = timer,
           !.attempts = attempts] \in Boxed
    BY <2>1, BoxFacts, Zenon DEF Boxed
  <2> QED BY <1>3, <2>2, Boxes
<1>5. /\ SameSpeech(f, v) /\ f.channel = v.channel /\ f.connect = v.connect /\ f.stream = v.stream
      /\ f.mic = v.mic /\ f.manual = v.manual /\ f.ending = v.ending
  BY <1>1, <1>3 DEF Voice, SameSpeech
<1>6. f.resumed = v.resumed /\ f.resuming = v.resuming /\ f.attempts = attempts /\ f.timer = timer
  BY <1>1, <1>3 DEF Voice
<1>7. /\ ~IsManual(f) /\ (IsEnding(f) <=> IsEnding(v)) /\ (HasMic(f) <=> HasMic(v))
      /\ (HasTimer(f) <=> timer)
      /\ (WasResumed(f) <=> WasResumed(v)) /\ (IsResuming(f) <=> IsResuming(v))
  BY <1>5, <1>6 DEF IsManual, IsEnding, HasMic, HasTimer, WasResumed, IsResuming
<1>8. Released(f) /\ MicrophoneHeld(f) /\ Started(f) /\ Counted(f, n)
  BY <1>2, <1>5, <1>6, <1>7 DEF Sound, Released, MicrophoneHeld, Started, Counted
<1>9. Sound(f, m, s, n) /\ OnTheWay(f) = OnTheWay(v)
  BY <1>4, <1>5, <1>7, <1>8, SessionKeeps
<1> QED BY <1>5, <1>7, <1>9

Uttering(v, request, q) == [v EXCEPT !.creating = NoRequest, !.request = request, !.queue = q]

\* Speech that moves from what was asked for to what is being said.
LEMMA BegunKeeps ==
  ASSUME NEW v, NEW m, NEW s, NEW n, Sound(v, m, s, n), ~IsManual(v), v.active # 0,
         v.request = NoRequest, NEW request \in ResponseRequests, NEW r,
         Owed(request) => request = r /\ r \in Queued(v) \cup {v.creating},
         Owed(r) /\ r \in Queued(v) \cup {v.creating} => request = r,
         NEW q, Requeued(q, v, r, request), NEW f, f = Uttering(v, request, q)
  PROVE  Sound(f, m, s, n) /\ OnTheWay(f) = OnTheWay(v)
<1>1. v \in Voice /\ Apart(v) /\ LineOK(v, m)
  BY DEF Sound
<1>2. request \in Spoken /\ NoRequest \in Spoken /\ q \in Seq(Queueing) /\ Distinct(q)
  BY VoiceFacts DEF Requeued
<1>0. f = [v EXCEPT !.creating = NoRequest, !.request = request, !.queue = q]
  BY DEF Uttering
<1>3. f \in Voice
  <2>1. v \in Boxed /\ request \in Spoken /\ q \in Queues
    BY <1>1, <1>2, Boxes DEF Queues
  <2>2. [v EXCEPT !.creating = NoRequest, !.request = request, !.queue = q] \in Boxed
    BY <2>1, BoxFacts, Zenon DEF Boxed
  <2> QED BY <1>0, <2>2, Boxes
<1>4. SameSession(f, v)
  BY <1>0, <1>1 DEF Voice, SameSession
<1>5. /\ f.turns = v.turns /\ f.channel = v.channel /\ f.active = v.active /\ f.line = v.line
      /\ f.creating = NoRequest /\ f.request = request /\ f.queue = q
  BY <1>0, <1>1 DEF Voice
<1>6. \A u : Owed(u) => (u \in OnTheWay(v) <=> u \in Asked(v.queue) \/ u = v.creating)
  BY QueuedIsAsked, VoiceFacts DEF OnTheWay, Owed
<1>7. \A u : Owed(u) => (u \in OnTheWay(f) <=> u \in Asked(q) \/ u = request)
  BY <1>5, QueuedIsAsked, VoiceFacts DEF OnTheWay, Owed
<1>8. Queued(v) = Asked(v.queue) /\ Queued(f) = Asked(q)
  BY <1>5, QueuedIsAsked
<1>9. \A u : Owed(u) => (u \in OnTheWay(f) <=> u \in OnTheWay(v))
  BY <1>6, <1>7, <1>8 DEF Requeued
<1>10. OnTheWay(f) = OnTheWay(v)
  BY <1>9, OnTheWayIsOwed
<1>11. Apart(f)
  <2>1. Owed(request) => request \notin Asked(q)
    BY <1>1, <1>8 DEF Requeued, Apart
  <2> QED BY <1>2, <1>5, <1>8, <2>1, VoiceFacts DEF Apart
<1>12. LineOK(f, m)
  BY <1>1, <1>5 DEF LineOK
<1>13. Carried(v, m, {}) /\ Calm(v, m, s, n)
  BY SoundIsCalm
<1>14. OnTheWay(f) = OnTheWay(v) \cup {} /\ \A u \in {} : MayAsk(v, s, u)
  BY <1>10
<1>15. Sound(f, m, s, n)
  BY <1>3, <1>4, <1>5, <1>11, <1>12, <1>13, <1>14, SameSessionKeeps
<1> QED BY <1>10, <1>15

LEMMA CreatedKeeps ==
  ASSUME NEW g \in Voice, NEW m, NEW s, NEW n, NEW e, e.rid \in Ids, e.rid # 0, e.request \in Spoken,
         NEW b, b = MadeActive(g, e.rid), Sound(b, m, s, n), ~IsManual(b),
         b.request = NoRequest, NEW chance \in BOOLEAN, NEW f, f = OnCreated(g, e, chance)
  PROVE  Keeps(f, b, m, s, n)
<1> DEFINE r == e.request
           external == r = NoRequest \/ r \notin Queued(g) \cup {g.creating}
           request == IF ~external THEN r
                      ELSE Automatic(IF Known(g) = <<>> THEN NoTurn ELSE Head(Known(g)))
           spared == r # NoRequest /\ g.timer /\ chance
           behind == IF g.creating \in {NoRequest, request} THEN <<>>
                     ELSE <<[request |-> g.creating, after |-> e.rid]>>
           left == behind \o Left(g, r)
           queue == Relabelled(left, e.rid)
           p == IF ~external THEN g.pending ELSE IF Known(g) = <<>> THEN <<>> ELSE Tail(Known(g))
           h == Sparing(b, p, spared)
<1>1. /\ b.queue = g.queue /\ b.creating = g.creating /\ b.active = e.rid /\ b \in Voice
      /\ b.timer = g.timer /\ b.attempts = g.attempts
  BY Zenon DEF MadeActive, Voice, Sound
<1>2. f = [g EXCEPT !.creating = NoRequest, !.active = e.rid, !.request = request, !.recent = FALSE,
              !.pending = p, !.timer = g.timer /\ ~spared,
              !.attempts = IF spared THEN g.attempts - 1 ELSE g.attempts, !.queue = queue]
  BY DEF OnCreated, Relabelled
<1>3. Requeued(queue, g, r, request)
  <2>1. Apart(b)
    BY DEF Sound
  <2>2. Distinct(g.queue) /\ (Owed(g.creating) => g.creating \notin Queued(g))
    BY <1>1, <2>1, QueuedIsAsked DEF Apart
  <2>3. /\ behind = IF g.creating \in {NoRequest, request} THEN <<>>
                    ELSE <<[request |-> g.creating, after |-> e.rid]>>
        /\ left = behind \o Left(g, r) /\ queue = Relabelled(left, e.rid)
    OBVIOUS
  <2> HIDE DEF request, behind, left, queue
  <2>4. Apart(g)
    <3>1. g.request = NoRequest
      BY DEF MadeActive, Voice
    <3> QED BY <2>2, <3>1, VoiceFacts DEF Apart
  <2> QED BY <2>3, <2>4, RequeuedIs, Zenon
<1>4. /\ Known(g) \in Seq(Turns)
      /\ Known(g) # <<>> => Head(Known(g)) \in Turns /\ Tail(Known(g)) \in Seq(Turns)
  BY KnownTyped
<1>5. p \in Seq(Turns) /\ spared \in BOOLEAN /\ (spared => HasTimer(b))
  <2>1. g.pending \in Seq(Turns) /\ g.timer \in BOOLEAN
    BY DEF Voice
  <2> QED BY <1>1, <1>4, <2>1 DEF HasTimer
<1>6. request \in ResponseRequests /\ (external => ~Owed(request))
  <2>1. CASE external
    <3> DEFINE t == IF Known(g) = <<>> THEN NoTurn ELSE Head(Known(g))
    <3>1. t \in Turns \cup {NoTurn} /\ FALSE \in BOOLEAN
      BY <1>4
    <3>2. request = ResponseRequest("automatic", t, FALSE)
      BY <2>1 DEF Automatic
    <3> HIDE DEF t, request
    <3>3. request \in ResponseRequests /\ request.kind = "automatic"
      BY <3>1, <3>2, RequestFacts, ZenonT(30)
    <3> QED BY <3>3 DEF Owed
  <2>2. CASE ~external
    BY <2>2 DEF Spoken
  <2> QED BY <2>1, <2>2
<1>7. /\ Owed(request) => request = r /\ r \in Queued(g) \cup {g.creating}
      /\ Owed(r) /\ r \in Queued(g) \cup {g.creating} => request = r
  BY <1>6, VoiceFacts
<1>13. h = Sparing(b, p, spared)
  OBVIOUS
<1> HIDE DEF request, spared, queue, p, h
<1>8. /\ Sound(h, m, s, n) /\ OnTheWay(h) = OnTheWay(b) /\ ~IsManual(h)
      /\ SameSpeech(h, b) /\ h.channel = b.channel
  BY <1>5, <1>13, SparingKeeps
<1>9. f = Uttering(h, request, queue)
  <2>1. b = [g EXCEPT !.active = e.rid]
    BY DEF MadeActive
  <2> DEFINE timer == g.timer /\ ~spared
             attempts == IF spared THEN g.attempts - 1 ELSE g.attempts
  <2>2. h = [b EXCEPT !.recent = FALSE, !.pending = p, !.timer = timer, !.attempts = attempts]
    BY <1>1, <1>13 DEF Sparing
  <2>3. f = [g EXCEPT !.creating = NoRequest, !.active = e.rid, !.request = request, !.recent = FALSE,
                !.pending = p, !.timer = timer, !.attempts = attempts, !.queue = queue]
    BY <1>2
  <2> HIDE DEF timer, attempts
  <2>4. h = [g EXCEPT !.active = e.rid, !.recent = FALSE, !.pending = p, !.timer = timer,
                      !.attempts = attempts]
    BY <2>1, <2>2 DEF Voice
  <2>5. f = [h EXCEPT !.creating = NoRequest, !.request = request, !.queue = queue]
    BY <2>3, <2>4, Zenon DEF Voice
  <2> QED BY <2>5 DEF Uttering
<1>10. /\ h.queue = g.queue /\ h.creating = g.creating /\ h.active # 0 /\ h.request = NoRequest
       /\ Queued(h) = Queued(g)
  BY <1>1, <1>8, QueuedIsAsked DEF SameSpeech
<1>11. Requeued(queue, h, r, request)
  BY <1>3, <1>10 DEF Requeued
<1>12. Sound(f, m, s, n) /\ OnTheWay(f) = OnTheWay(h)
  BY <1>6, <1>7, <1>8, <1>9, <1>10, <1>11, BegunKeeps
<1> QED BY <1>8, <1>12 DEF Keeps

\* A response has ended: it is settled, and no response is active.
Settling(g, i) == [g EXCEPT !.settled = g.settled \cup {i}]
Freed(g) == [g EXCEPT !.active = 0, !.request = NoRequest]

LEMMA SettlingFields ==
  ASSUME NEW g \in Voice, NEW i \in Ids, NEW d, d = Settling(g, i)
  PROVE  /\ d \in Voice /\ SameSession(d, g) /\ d.turns = g.turns /\ d.line = g.line
         /\ d.queue = g.queue /\ d.creating = g.creating /\ d.request = g.request
         /\ d.channel = g.channel /\ d.active = g.active /\ d.recent = g.recent
<1>0. d = [g EXCEPT !.settled = g.settled \cup {i}]
  BY DEF Settling
<1>1. g.settled \cup {i} \in SUBSET Ids
  BY DEF Voice
<1>2. d \in Voice
  <2>1. g \in Boxed /\ g.settled \cup {i} \in Scopes
    BY <1>1, Boxes DEF Scopes
  <2>2. [g EXCEPT !.settled = g.settled \cup {i}] \in Boxed
    BY <2>1, BoxFacts, Zenon DEF Boxed
  <2> QED BY <1>0, <2>2, Boxes
<1>3. SameSession(d, g)
  BY <1>0 DEF Voice, SameSession
<1>4. /\ d.turns = g.turns /\ d.line = g.line
      /\ d.queue = g.queue /\ d.creating = g.creating /\ d.request = g.request
      /\ d.channel = g.channel /\ d.active = g.active /\ d.recent = g.recent
  BY <1>0 DEF Voice
<1> QED BY <1>2, <1>3, <1>4

LEMMA FreedFields ==
  ASSUME NEW d \in Voice, NEW c, c = Freed(d)
  PROVE  /\ c \in Voice /\ SameSession(c, d) /\ c.turns = d.turns /\ c.line = d.line
         /\ c.queue = d.queue /\ c.creating = d.creating /\ c.channel = d.channel
         /\ c.active = 0 /\ c.request = NoRequest /\ c.recent = d.recent /\ c.settled = d.settled
<1>0. c = [d EXCEPT !.active = 0, !.request = NoRequest]
  BY DEF Freed
<1>1. c \in Voice
  <2>1. d \in Boxed
    BY Boxes
  <2>2. [d EXCEPT !.active = 0, !.request = NoRequest] \in Boxed
    BY <2>1, BoxFacts, Zenon DEF Boxed
  <2> QED BY <1>0, <2>2, Boxes
<1>2. SameSession(c, d)
  BY <1>0 DEF Voice, SameSession
<1>3. /\ c.turns = d.turns /\ c.line = d.line
      /\ c.queue = d.queue /\ c.creating = d.creating /\ c.channel = d.channel
      /\ c.active = 0 /\ c.request = NoRequest /\ c.recent = d.recent /\ c.settled = d.settled
  BY <1>0 DEF Voice
<1> QED BY <1>1, <1>2, <1>3

LEMMA FreedTurn ==
  ASSUME NEW d \in Voice, NEW t \in Turns, NEW x, NEW f, TurnIs(f, d, t, x)
  PROVE  TurnIs(Freed(f), Freed(d), t, x)
<1> DEFINE c == Freed(d)
           k == Freed(f)
<1>1. /\ c \in Voice /\ SameSession(c, d) /\ c.turns = d.turns /\ c.line = d.line
      /\ c.queue = d.queue /\ c.creating = d.creating /\ c.channel = d.channel
      /\ c.active = 0 /\ c.request = NoRequest /\ c.recent = d.recent /\ c.settled = d.settled
  BY FreedFields
<1>2. /\ k \in Voice /\ SameSession(k, f) /\ k.turns = f.turns /\ k.line = f.line
      /\ k.queue = f.queue /\ k.creating = f.creating /\ k.channel = f.channel
      /\ k.active = 0 /\ k.request = NoRequest /\ k.recent = f.recent /\ k.settled = f.settled
  <2>1. f \in Voice
    BY DEF TurnIs
  <2> QED BY <2>1, FreedFields
<1> HIDE DEF c, k
<1>3. SameSession(k, c)
  BY <1>1, <1>2 DEF TurnIs, SameSession
<1>4. TurnIs(k, c, t, x)
  BY <1>1, <1>2, <1>3 DEF TurnIs
<1> QED BY <1>4 DEF c, k

LEMMA RemoveIfSettledIs ==
  ASSUME NEW v \in Voice, NEW t \in Turns, NEW f, f = RemoveIfSettled(v, t)
  PROVE  \E x \in TurnState : TurnIs(f, v, t, x) /\ (x = v.turns[t] \/ (~x.known /\ ~x.posting))
<1> DEFINE g == RemoveTurn(v, t)
           x == [NewTurn EXCEPT !.late = TRUE]
<1>1. v.turns[t] \in TurnState /\ NewTurn \in TurnState /\ ~NewTurn.known /\ ~NewTurn.posting
  BY VoiceFacts DEF Voice, NewTurn
<1>2. TurnIs(g, v, t, NewTurn)
  BY RemoveTurnIs
<1>3. CASE f = v
  <2>1. v.turns = [v.turns EXCEPT ![t] = v.turns[t]]
    BY DEF Voice
  <2>2. TurnIs(f, v, t, v.turns[t])
    BY <1>3, <2>1 DEF TurnIs, SameSession
  <2> QED BY <1>1, <2>2
<1>4. CASE f = g
  BY <1>1, <1>2, <1>4
<1>5. CASE f = [g EXCEPT !.turns[t].late = TRUE]
  <2>1. g \in Voice /\ g.turns[t] = NewTurn
    BY <1>2 DEF TurnIs, Voice
  <2> HIDE DEF g
  <2> DEFINE turns == [g.turns EXCEPT ![t] = x]
             p == g.pending
  <2>2. f = [g EXCEPT !.turns = turns, !.pending = p]
    BY <1>5, <2>1, ZenonT(30) DEF Voice
  <2>3. x \in TurnState /\ p \in Seq(Turns) /\ ~x.posting /\ ~x.known
    BY <2>1, Zenon DEF NewTurn, TurnState, Voice
  <2>4. TurnIs(f, g, t, x)
    BY <2>1, <2>2, <2>3, TurnFields, Zenon
  <2>5. TurnIs(f, v, t, x)
    BY <1>2, <2>4, TurnAgain
  <2> QED BY <2>3, <2>5, Zenon
<1> QED BY <1>3, <1>4, <1>5, Zenon DEF RemoveIfSettled

LEMMA CalmIsEndable ==
  ASSUME NEW v, NEW m, NEW s, NEW n, Calm(v, m, s, n), ~IsManual(v)
  PROVE  Endable(v, s, n) /\ ~IsEnding(v)
<1>1. ASSUME NEW t \in Turns, t \notin v.used, NEW r \in s
      PROVE  ~(r.kind = "answer" /\ r.turn = t)
  BY <1>1 DEF Calm, TurnFresh, NotYet, Answered, Uttered
<1>2. v.connect # "idle" /\ ~IsEnding(v)
  BY DEF Calm, Started
<1> QED BY <1>1, <1>2 DEF Calm, Endable, Fresh, Uttered

LEMMA EndableStays ==
  ASSUME NEW v, NEW s, NEW n, Endable(v, s, n), ~IsEnding(v), NEW f \in Voice, SameSession(f, v)
  PROVE  Endable(f, s, n) /\ ~IsEnding(f)
<1>1. /\ (IsEnding(f) <=> IsEnding(v)) /\ (HasTimer(f) <=> HasTimer(v)) /\ (HasMic(f) <=> HasMic(v))
      /\ (WasResumed(f) <=> WasResumed(v)) /\ (IsResuming(f) <=> IsResuming(v))
  BY DEF SameSession, IsEnding, HasTimer, HasMic, WasResumed, IsResuming
<1>2. f.connect = v.connect /\ f.stream = v.stream /\ f.attempts = v.attempts /\ f.used = v.used
  BY DEF SameSession
<1> QED BY <1>1, <1>2 DEF Endable, MicrophoneHeld, Counted

\* What the end of a response leaves, with what was said.
FreedFrom(c, v, m, s, n) ==
  /\ c \in Voice /\ Calm(c, m, s \cup {v.request}, n) /\ ~IsManual(c) /\ c.turns = v.turns
  /\ OnTheWay(v) \subseteq OnTheWay(c) \cup {v.request}
  /\ \A t \in Turns : m = "direct" \/ t # v.request.turn \/ ~IsKnown(v, t) => GoesOn(c, m, t)

LEMMA FreedKeeps ==
  ASSUME NEW v, NEW m, NEW s, NEW n, Sound(v, m, s, n), ~IsManual(v), NEW g, NEW e,
         Taken(g, v, m, s, e, 0), e.rid \in Ids, NEW c, c = Freed(Settling(g, e.rid))
  PROVE  FreedFrom(c, v, m, s, n)
<1> DEFINE d == Settling(g, e.rid)
           r == v.request
           u == s \cup {r}
<1>1. g \in Voice /\ LineStep(g, v) /\ g.used = v.used
  BY DEF Taken, LineStep
<1>2. /\ d \in Voice /\ SameSession(d, g) /\ d.turns = g.turns /\ d.line = g.line
      /\ d.queue = g.queue /\ d.creating = g.creating /\ d.channel = g.channel
  BY <1>1, SettlingFields
<1>10. c = Freed(d)
  OBVIOUS
<1> HIDE DEF d
<1>3. /\ c \in Voice /\ SameSession(c, d) /\ c.turns = d.turns /\ c.line = d.line
      /\ c.queue = d.queue /\ c.creating = d.creating /\ c.channel = d.channel
      /\ c.active = 0 /\ c.request = NoRequest
  BY <1>2, <1>10, FreedFields
<1>4. /\ c.connect = v.connect /\ c.reconnect = v.reconnect /\ c.stream = v.stream
      /\ c.mic = v.mic /\ c.manual = v.manual /\ c.ending = v.ending
      /\ c.attempts = v.attempts /\ c.timer = v.timer /\ c.endTimer = v.endTimer
      /\ c.resumed = v.resumed /\ c.resuming = v.resuming /\ c.channel = v.channel
      /\ c.queue = v.queue /\ c.creating = v.creating /\ c.turns = v.turns
      /\ c.used = v.used /\ c.line = g.line
  BY <1>1, <1>2, <1>3 DEF LineStep, SameSession
<1>5. /\ (IsManual(c) <=> IsManual(v)) /\ (IsEnding(c) <=> IsEnding(v)) /\ (HasTimer(c) <=> HasTimer(v))
      /\ (EndsTimed(c) <=> EndsTimed(v)) /\ (HasMic(c) <=> HasMic(v))
      /\ (WasResumed(c) <=> WasResumed(v)) /\ (IsResuming(c) <=> IsResuming(v))
  BY <1>4 DEF IsManual, IsEnding, HasTimer, EndsTimed, HasMic, WasResumed, IsResuming
<1>6. Released(c) /\ MicrophoneHeld(c) /\ Started(c) /\ Counted(c, n)
  BY <1>4, <1>5 DEF Sound, Released, MicrophoneHeld, Started, Counted
<1>7. Queued(c) = Queued(v)
  BY <1>4, QueuedIsAsked
<1>8. /\ OnTheWay(c) \subseteq OnTheWay(v) /\ OnTheWay(v) \subseteq OnTheWay(c) \cup {r}
      /\ Owed(r) => r \in OnTheWay(v) /\ r \notin OnTheWay(c)
  BY <1>3, <1>4, <1>7, VoiceFacts DEF OnTheWay, Owed, Sound, Apart
<1>9. Apart(c)
  BY <1>3, <1>4, <1>7, VoiceFacts DEF Sound, Apart
<1>11. Unsaid(c, u)
  <2>1. \A w \in OnTheWay(c) : Owed(w)
    BY OnTheWayIsOwed
  <2> QED BY <1>8, <2>1 DEF Sound, Unsaid
<1>12. \A w \in Uttered(c, u) : Owed(w) => w \in Uttered(v, s)
  BY <1>8 DEF Uttered
<1>13. Fresh(c, u)
  <2>1. \A w \in Uttered(c, u) : w.kind \in {"opening", "resume"} => w \in Uttered(v, s)
    BY <1>12 DEF Owed
  <2> QED BY <1>4, <1>5, <2>1, Zenon DEF Sound, Fresh
<1>14. LineOK(c, m)
  <2>1. Runs(c.line, c.active, m)
    BY <1>3, <1>4 DEF Taken
  <2> QED BY <1>3, <2>1, LineOKRuns
<1>15. ASSUME NEW t \in Turns PROVE TurnFresh(c, u, t)
  <2>1. TurnFresh(g, s, t)
    BY DEF Taken
  <2>2. OnTheWay(g) = OnTheWay(v)
    BY <1>1, SpeechStays DEF LineStep
  <2>3. Answered(c, u, t) => Answered(g, s, t)
    BY <1>12, <2>2 DEF Answered, Owed, Uttered
  <2>4. IsPosting(c, t) <=> IsPosting(g, t)
    BY <1>2, <1>3 DEF IsPosting
  <2> QED BY <1>1, <1>4, <2>1, <2>3, <2>4 DEF TurnFresh, NotYet
<1>16. Calm(c, m, u, n)
  BY <1>3, <1>6, <1>9, <1>11, <1>13, <1>14, <1>15 DEF Calm
<1>17. ASSUME NEW t \in Turns, m = "direct" \/ t # r.turn \/ ~IsKnown(v, t)
       PROVE  GoesOn(c, m, t)
  <2>1. /\ (IsPosting(c, t) <=> IsPosting(v, t)) /\ (IsKnown(c, t) <=> IsKnown(v, t))
        /\ (IsTimed(c, t) <=> IsTimed(v, t)) /\ (IsHeard(c, t) <=> IsHeard(v, t))
    BY <1>4 DEF IsPosting, IsKnown, IsTimed, IsHeard
  <2>2. GoesOn(v, m, t)
    BY DEF Sound
  <2>3. t # r.turn => \A w \in OnTheWay(v) : w.turn = t => w \in OnTheWay(c)
    BY <1>8
  <2> QED BY <1>17, <2>1, <2>2, <2>3 DEF GoesOn
<1>18. ~IsManual(c)
  BY <1>5
<1> QED BY <1>3, <1>4, <1>8, <1>16, <1>17, <1>18 DEF FreedFrom

\* What a done event makes of its turn.
Settled(d, r, status) ==
  IF r.turn = NoTurn \/ status = "calling" \/ ~d.turns[r.turn].known THEN d
  ELSE IF Direct THEN RemoveIfSettled([d EXCEPT !.turns[r.turn].response = TRUE], r.turn)
  ELSE RemoveTurn(d, r.turn)

\* The client k once it has settled, and the client f that it is then.
SettledFrom(f, k, v, m, s, n) ==
  /\ Sound(f, m, s \cup {v.request}, n) /\ ~IsManual(f)
  /\ OnTheWay(v) \subseteq OnTheWay(f) \cup {v.request}
  /\ Endable(k, s \cup {v.request}, n) /\ ~IsEnding(k)

LEMMA SettledKeeps ==
  ASSUME NEW v, NEW s, NEW n, Sound(v, mode, s, n), ~IsManual(v), NEW d \in Voice,
         NEW c, c = Freed(d), FreedFrom(c, v, mode, s, n),
         NEW status, mode # "direct" => status # "calling",
         NEW k, k = Settled(d, v.request, status), NEW f, f = Freed(k)
  PROVE  SettledFrom(f, k, v, mode, s, n)
<1> DEFINE r == v.request
           t == r.turn
           u == s \cup {r}
           y == [d EXCEPT !.turns[t].response = TRUE]
<1>1. /\ c \in Voice /\ SameSession(c, d) /\ c.turns = d.turns
  BY FreedFields
<1>2. /\ Calm(c, mode, u, n) /\ ~IsManual(c) /\ c.turns = v.turns
      /\ OnTheWay(v) \subseteq OnTheWay(c) \cup {r}
      /\ \A w \in Turns : mode = "direct" \/ w # t \/ ~IsKnown(v, w) => GoesOn(c, mode, w)
  BY DEF FreedFrom
<1>3. Endable(c, u, n) /\ ~IsEnding(c)
  BY <1>2, CalmIsEndable
<1>4. t \in Turns \cup {NoTurn}
  BY VoiceFacts, RequestFields DEF Sound, Voice, Spoken
<1>5. /\ k = d \/ (Direct /\ k = RemoveIfSettled(y, t)) \/ (~Direct /\ k = RemoveTurn(d, t))
      /\ k # d => t # NoTurn
      /\ k = d => t = NoTurn \/ mode = "direct" \/ ~IsKnown(v, t) \/ k = RemoveTurn(d, t)
  BY <1>1, <1>2 DEF Settled, Direct, IsKnown
<1>9. y = [d EXCEPT !.turns[t].response = TRUE]
  OBVIOUS
<1> HIDE DEF y
<1>7. ASSUME NEW x, TurnIs(k, d, t, x), t \in Turns, Going(x, c, mode, t),
             x.posting => IsPosting(c, t), \A w \in Turns : w # t => GoesOn(c, mode, w)
      PROVE  SettledFrom(f, k, v, mode, s, n)
  <2>1. TurnIs(f, c, t, x)
    BY <1>7, FreedTurn
  <2>2. x.posting => IsPosting(c, t) \/ MayPost(c, u, t)
    BY <1>7
  <2>3. Sound(f, mode, u, n) /\ OnTheWay(f) = OnTheWay(c) /\ ~IsManual(f)
    BY <1>2, <1>7, <2>1, <2>2, TurnsGo
  <2>4. k \in Voice /\ SameSession(k, c)
    BY <1>1, <1>7 DEF TurnIs, SameSession
  <2>5. Endable(k, u, n) /\ ~IsEnding(k)
    BY <1>3, <2>4, EndableStays
  <2> QED BY <1>2, <2>3, <2>5 DEF SettledFrom
<1>8. \A w \in Turns : w # t => GoesOn(c, mode, w)
  BY <1>2
<1>10. CASE k = RemoveTurn(d, t) /\ t \in Turns
  <2>1. TurnIs(k, d, t, NewTurn)
    BY <1>10, RemoveTurnIs
  <2>2. Going(NewTurn, c, mode, t) /\ ~NewTurn.posting
    BY DEF Going, NewTurn
  <2> QED BY <1>7, <1>8, <1>10, <2>1, <2>2
<1>11. CASE k = d /\ ~(k = RemoveTurn(d, t) /\ t \in Turns)
  <2>1. \A w \in Turns : GoesOn(c, mode, w)
    <3>1. \A w \in Turns : w = t => mode = "direct" \/ ~IsKnown(v, w)
      BY <1>5, <1>11, VoiceFacts
    <3> QED BY <1>2, <3>1
  <2>2. Sound(c, mode, u, n)
    BY <1>2, <2>1, SoundIsCalm
  <2>3. f = c
    BY <1>11
  <2>4. SameSession(k, c) /\ k \in Voice
    BY <1>1, <1>11 DEF SameSession
  <2>5. Endable(k, u, n) /\ ~IsEnding(k)
    BY <1>3, <2>4, EndableStays
  <2> QED BY <1>2, <2>2, <2>3, <2>5 DEF SettledFrom
<1>12. CASE Direct /\ k = RemoveIfSettled(y, t) /\ t \in Turns
  <2> DEFINE x == [d.turns[t] EXCEPT !.response = TRUE]
             turns == [d.turns EXCEPT ![t] = x]
             p == d.pending
  <2>1. d.turns[t] \in TurnState /\ p \in Seq(Turns)
    BY <1>12 DEF Voice
  <2>2. y = [d EXCEPT !.turns = turns, !.pending = p]
    BY <1>9, <1>12, Zenon DEF Voice
  <2>3. /\ x \in TurnState /\ x.posting = d.turns[t].posting /\ x.known = d.turns[t].known
        /\ x.timer = d.turns[t].timer /\ x.transcript = d.turns[t].transcript
    BY <2>1, Zenon DEF TurnState
  <2> HIDE DEF x
  <2>4. TurnIs(y, d, t, x) /\ y \in Voice /\ y.turns[t] = x
    <3>1. TurnIs(y, d, t, x)
      BY <1>12, <2>1, <2>2, <2>3, TurnFields, Zenon
    <3> QED BY <1>12, <3>1 DEF TurnIs, Voice
  <2>5. PICK z \in TurnState : TurnIs(k, y, t, z) /\ (z = x \/ (~z.known /\ ~z.posting))
    BY <1>12, <2>4, RemoveIfSettledIs
  <2>6. TurnIs(k, d, t, z)
    BY <1>12, <2>4, <2>5, TurnAgain
  <2>7. Going(c.turns[t], c, mode, t)
    <3>1. GoesOn(c, mode, t)
      BY <1>2, <1>12 DEF Direct
    <3> QED BY <3>1, GoingIsGoesOn
  <2>8. Going(z, c, mode, t) /\ (z.posting => IsPosting(c, t))
    BY <1>1, <2>3, <2>5, <2>7 DEF Going, IsPosting
  <2> QED BY <1>7, <1>8, <1>12, <2>6, <2>8
<1> QED BY <1>4, <1>5, <1>10, <1>11, <1>12

Ended(c) == [c EXCEPT !.over = TRUE, !.endTimer = TRUE]

LEMMA EndedKeeps ==
  ASSUME NEW v, NEW m, NEW s, NEW n, Sound(v, m, s, n), ~IsManual(v), NEW f, f = Ended(v)
  PROVE  Sound(f, m, s, n) /\ OnTheWay(f) = OnTheWay(v)
<1>0. f = [v EXCEPT !.over = TRUE, !.endTimer = TRUE] /\ v \in Voice
  BY DEF Ended, Sound
<1>1. f \in Voice
  <2>1. v \in Boxed
    BY <1>0, Boxes
  <2>2. [v EXCEPT !.over = TRUE, !.endTimer = TRUE] \in Boxed
    BY <2>1, BoxFacts, Zenon DEF Boxed
  <2> QED BY <1>0, <2>2, Boxes
<1>2. SameSpeech(f, v) /\ f.attempts = v.attempts /\ f.timer = v.timer
  BY <1>0 DEF Voice, SameSpeech
<1>3. /\ f.connect = v.connect /\ f.stream = v.stream /\ f.mic = v.mic /\ f.manual = v.manual
      /\ f.ending = v.ending /\ f.resumed = v.resumed /\ f.resuming = v.resuming
  BY <1>0 DEF Voice
<1>4. (IsManual(f) <=> IsManual(v)) /\ Kept(f, v, m, s, n)
  <2>1. IsManual(f) <=> IsManual(v)
    BY <1>3 DEF IsManual
  <2> QED BY <1>1, <1>2, <1>3, <2>1, StageKeeps
<1> QED BY <1>4 DEF Kept

LEMMA DoneKeeps ==
  ASSUME NEW v, NEW s, NEW n, Sound(v, mode, s, n), ~IsManual(v), NEW g, NEW e,
         Taken(g, v, mode, s, e, 0), NEW chance \in BOOLEAN, NEW f, f = OnDone(g, e, chance)
  PROVE  Keeps(f, v, mode, s \cup {v.request}, n)
<1> DEFINE d == Settling(g, e.rid)
           k == Settled(d, g.request, e.status)
           c == Freed(k)
           u == s \cup {v.request}
<1>1. g \in Voice /\ g.request = v.request /\ e.rid \in Ids
  BY DEF Taken, LineStep, Proper, LineEvent
<1>2. d \in Voice /\ d.turns = g.turns
  BY <1>1, SettlingFields
<1>3. FreedFrom(Freed(d), v, mode, s, n)
  BY <1>1, FreedKeeps
<1>13. k = Settled(d, v.request, e.status)
  BY <1>1
<1>4. /\ d = [g EXCEPT !.settled = @ \cup {e.rid}]
      /\ k = Settled(d, g.request, e.status)
      /\ c = [k EXCEPT !.active = 0, !.request = NoRequest]
  BY DEF Settling, Freed
<1>5. f \in {FinishGracefulEnd(k), Ended(c), Drain(c, e.rid)}
  <2>1. k = (IF g.request.turn = NoTurn \/ e.status = "calling" \/ ~g.turns[g.request.turn].known THEN d
             ELSE IF Direct THEN RemoveIfSettled([d EXCEPT !.turns[g.request.turn].response = TRUE],
                                                 g.request.turn)
             ELSE RemoveTurn(d, g.request.turn))
    BY <1>2 DEF Settled
  <2> HIDE DEF k
  <2> QED BY <1>4, <2>1, Zenon DEF OnDone, Ended
<1>6. c = Freed(k)
  OBVIOUS
<1> HIDE DEF d, k, c
<1>7. SettledFrom(c, k, v, mode, s, n)
  <2>1. mode # "direct" => e.status # "calling"
    BY DEF Taken, Proper
  <2> QED BY <1>1, <1>2, <1>3, <1>4, <1>6, <2>1, SettledKeeps, Zenon
<1>8. /\ Sound(c, mode, u, n) /\ ~IsManual(c)
      /\ OnTheWay(v) \subseteq OnTheWay(c) \cup {v.request}
      /\ Endable(k, u, n) /\ ~IsEnding(k)
  BY <1>7 DEF SettledFrom
<1> HIDE DEF u
<1>9. u = s \cup {v.request}
  BY DEF u
<1>10. CASE f = FinishGracefulEnd(k)
  <2>1. Sound(f, mode, u, n) /\ IsManual(f)
    BY <1>8, <1>10, FinishKeeps
  <2> QED BY <2>1, <1>9 DEF Keeps
<1>11. CASE f = Ended(c)
  <2>1. Sound(f, mode, u, n) /\ OnTheWay(f) = OnTheWay(c)
    BY <1>8, <1>11, EndedKeeps
  <2> QED BY <1>8, <1>9, <2>1 DEF Keeps
<1>12. CASE f = Drain(c, e.rid)
  <2>1. Kept(f, c, mode, u, n)
    BY <1>8, <1>12, DrainKeeps
  <2> QED BY <1>8, <1>9, <2>1 DEF Keeps, Kept
<1> QED BY <1>5, <1>10, <1>11, <1>12

Working(v, x) == [v EXCEPT !.tools = v.tools \cup {x}]
Recent(v) == [v EXCEPT !.recent = TRUE]

LEMMA AsideKeeps ==
  ASSUME NEW v, NEW m, NEW s, NEW n, Sound(v, m, s, n), NEW f,
         \/ \E x \in [rid : Ids, turn : Turns \cup {NoTurn}] : f = Working(v, x)
         \/ f = Recent(v)
  PROVE  Keeps(f, v, m, s, n)
<1>1. v \in Voice
  BY DEF Sound
<1>2. ASSUME NEW tools \in SUBSET [rid : Ids, turn : Turns \cup {NoTurn}], NEW recent \in BOOLEAN,
             f = [v EXCEPT !.tools = tools, !.recent = recent]
      PROVE  Keeps(f, v, m, s, n)
  <2>1. f \in Voice
    <3>1. v \in Boxed /\ tools \in Jobs /\ recent \in Flags
      BY <1>1, <1>2, Boxes DEF Flags, Jobs
    <3>2. [v EXCEPT !.tools = tools, !.recent = recent] \in Boxed
      BY <3>1, BoxFacts, Zenon DEF Boxed
    <3> QED BY <1>2, <3>2, Boxes
  <2>2. SameSpeech(f, v) /\ f.attempts = v.attempts /\ f.timer = v.timer
    BY <1>1, <1>2 DEF Voice, SameSpeech
  <2>3. /\ f.connect = v.connect /\ f.stream = v.stream /\ f.mic = v.mic /\ f.manual = v.manual
        /\ f.ending = v.ending /\ f.resumed = v.resumed /\ f.resuming = v.resuming
    BY <1>1, <1>2 DEF Voice
  <2>4. f.channel = v.channel /\ f.reconnect = v.reconnect /\ f.endTimer = v.endTimer
    BY <1>1, <1>2 DEF Voice
  <2>5. IsManual(v) => Loose(f) /\ ~EndsTimed(f)
    <3>1. EndsTimed(f) <=> EndsTimed(v)
      BY <2>4 DEF EndsTimed
    <3> QED BY <2>4, <3>1 DEF Sound, Released, Loose
  <2>6. Kept(f, v, m, s, n)
    BY <2>1, <2>2, <2>3, <2>5, StageKeeps
  <2> QED BY <2>6, KeptKeeps
<1>3. CASE \E x \in [rid : Ids, turn : Turns \cup {NoTurn}] : f = Working(v, x)
  <2>1. PICK x \in [rid : Ids, turn : Turns \cup {NoTurn}] : f = Working(v, x)
    BY <1>3
  <2> DEFINE tools == v.tools \cup {x}
             recent == v.recent
  <2>2. tools \in SUBSET [rid : Ids, turn : Turns \cup {NoTurn}] /\ recent \in BOOLEAN
    BY <1>1 DEF Voice
  <2>3. f = [v EXCEPT !.tools = tools, !.recent = recent]
    BY <1>1, <2>1, Zenon DEF Working, Voice
  <2> HIDE DEF tools, recent
  <2> QED BY <1>2, <2>2, <2>3, Zenon
<1>4. CASE f = Recent(v)
  <2> DEFINE tools == v.tools
             recent == TRUE
  <2>2. tools \in SUBSET [rid : Ids, turn : Turns \cup {NoTurn}] /\ recent \in BOOLEAN
    BY <1>1 DEF Voice
  <2>3. f = [v EXCEPT !.tools = tools, !.recent = recent]
    BY <1>1, <1>4, Zenon DEF Recent, Voice
  <2> HIDE DEF tools, recent
  <2> QED BY <1>2, <2>2, <2>3, Zenon
<1> QED BY <1>3, <1>4

LEMMA CallKeeps ==
  ASSUME NEW v, NEW m, NEW s, NEW n, Sound(v, m, s, n), m = "direct", ~IsManual(v),
         NEW e, e.rid \in Ids, NEW f, f = OnCall(v, e)
  PROVE  Keeps(f, v, m, s, n)
<1> DEFINE t == v.request.turn
           y == [v EXCEPT !.turns[t].response = TRUE]
           z == RemoveIfSettled(y, t)
<1>1. v \in Voice /\ t \in Turns \cup {NoTurn}
  BY VoiceFacts, RequestFields DEF Sound, Voice, Spoken
<1>2. CASE e.status = "work"
  <2> DEFINE x == [rid |-> e.rid, turn |-> t]
  <2>1. x \in [rid : Ids, turn : Turns \cup {NoTurn}]
    BY <1>1
  <2>2. f = Working(v, x)
    BY <1>2 DEF OnCall, Working
  <2> QED BY <2>1, <2>2, AsideKeeps
<1>3. CASE e.status # "work" /\ f = Drain(v, e.rid)
  <2>1. Kept(f, v, m, s, n)
    BY <1>3, DrainKeeps
  <2> QED BY <2>1, KeptKeeps
<1>4. CASE e.status # "work" /\ f = Drain(z, e.rid) /\ t \in Turns
  <2> DEFINE x == [v.turns[t] EXCEPT !.response = TRUE]
             turns == [v.turns EXCEPT ![t] = x]
             p == v.pending
  <2>1. /\ v.turns[t] \in TurnState /\ p \in Seq(Turns) /\ Calm(v, m, s, n)
        /\ Going(v.turns[t], v, m, t) /\ \A w \in Turns : GoesOn(v, m, w)
    BY <1>4, TurnOf
  <2>2. y = [v EXCEPT !.turns = turns, !.pending = p]
    BY <1>1, <1>4, Zenon DEF Voice
  <2>3. /\ x \in TurnState /\ x.posting = v.turns[t].posting /\ x.known = v.turns[t].known
        /\ x.timer = v.turns[t].timer /\ x.transcript = v.turns[t].transcript
    BY <2>1, Zenon DEF TurnState
  <2>9. f = Drain(z, e.rid) /\ z = RemoveIfSettled(y, t)
    BY <1>4
  <2> HIDE DEF x, y, z
  <2>4. TurnIs(y, v, t, x)
    BY <1>1, <1>4, <2>1, <2>2, <2>3, TurnFields, Zenon
  <2>5. Going(x, v, m, t) /\ (x.posting => IsPosting(v, t) \/ MayPost(v, s, t))
    BY <2>1, <2>3 DEF Going, IsPosting
  <2>6. Sound(y, m, s, n) /\ OnTheWay(y) = OnTheWay(v) /\ ~IsManual(y)
    BY <1>4, <2>1, <2>4, <2>5, TurnsGo
  <2>7. Sound(z, m, s, n) /\ OnTheWay(z) = OnTheWay(y) /\ ~IsManual(z)
    <3>1. Calm(y, m, s, n) /\ Going(y.turns[t], y, m, t) /\ \A w \in Turns : GoesOn(y, m, w)
      BY <1>4, <2>6, TurnOf
    <3>2. \A w \in Turns : w # t => GoesOn(y, m, w)
      BY <3>1
    <3> QED BY <1>4, <2>6, <2>9, <3>1, <3>2, RemoveIfSettledKeeps
  <2>8. Kept(f, z, m, s, n)
    BY <2>7, <2>9, DrainKeeps
  <2> QED BY <2>6, <2>7, <2>8 DEF Kept, Keeps
<1>5. e.status # "work" => f = Drain(v, e.rid) \/ (f = Drain(z, e.rid) /\ t # NoTurn)
  BY DEF OnCall
<1> HIDE DEF z, y
<1> QED BY <1>1, <1>2, <1>3, <1>4, <1>5

LEMMA OutputStoppedKeeps ==
  ASSUME NEW v, NEW m, NEW s, NEW n, Sound(v, m, s, n), ~IsManual(v), NEW f, f = OnOutputStopped(v)
  PROVE  Keeps(f, v, m, s, n)
<1>1. CASE f = FinishGracefulEnd(v)
  <2>1. Calm(v, m, s, n)
    BY SoundIsCalm
  <2>2. Endable(v, s, n) /\ ~IsEnding(v)
    BY <2>1, CalmIsEndable
  <2>3. Sound(f, m, s, n) /\ IsManual(f)
    BY <1>1, <2>2, FinishKeeps
  <2> QED BY <2>3 DEF Keeps
<1>2. CASE f = Recent(v)
  BY <1>2, AsideKeeps
<1> QED BY <1>1, <1>2 DEF OnOutputStopped, Recent

\* Whatever the line delivers.
LEMMA ReceiveKeeps ==
  ASSUME NEW v, NEW s, NEW n, Sound(v, mode, s, n), v.channel = "open", v.line.events # <<>>,
         NEW e, e = Head(v.line.events), NEW chance \in BOOLEAN,
         NEW g, g = Took(v), NEW f, f = HandleEvent(g, e, chance),
         NEW u, u = IF e.type = "done" THEN s \cup {v.request} ELSE s
  PROVE  Keeps(f, v, mode, u, n)
<1>1. ~IsManual(v)
  BY NotManual
<1>2. PICK a \in Ids : Taken(g, v, mode, s, e, a)
  BY TookIs
<1>3. /\ g \in Voice /\ Proper(e, mode) /\ Turning(e, v.active, a)
      /\ e \in LineEvent /\ e.rid \in Ids /\ e.request \in Spoken
  BY <1>2 DEF Taken, LineStep, Proper, LineEvent
<1>4. CASE e.type = "done"
  <2>1. f = OnDone(g, e, chance) /\ a = 0 /\ u = s \cup {v.request}
    BY <1>3, <1>4 DEF HandleEvent, Turning
  <2> QED BY <1>1, <1>2, <2>1, DoneKeeps
<1>5. CASE e.type # "done"
  <2> DEFINE b == MadeActive(g, a)
  <2>0. b = MadeActive(g, a) /\ u = s
    BY <1>5
  <2> HIDE DEF b
  <2>1. /\ Sound(b, mode, s, n) /\ OnTheWay(b) = OnTheWay(v) /\ ~IsManual(b)
        /\ b.active = a /\ b.request = v.request
        /\ e.type # "created" => b = g
        /\ \A t \in Turns : Heeds(e, t) => MayPost(b, s, t) /\ ~IsPosting(b, t)
    BY <1>1, <1>2, <1>5, <2>0, TookKeeps
  <2>2. SUFFICES Keeps(f, b, mode, s, n)
    BY <2>0, <2>1, Zenon DEF Keeps
  <2>3. CASE e.type = "created"
    <3>1. v.request = NoRequest /\ e.rid # 0 /\ a = e.rid
      BY <1>3, <2>3 DEF Turning, Sound, LineOK
    <3>2. f = OnCreated(g, e, chance)
      BY <2>3 DEF HandleEvent
    <3> QED BY <1>3, <2>0, <2>1, <3>1, <3>2, CreatedKeeps, Zenon
  <2>4. CASE e.type = "speech_stopped"
    <3>1. f = OnSpeechStopped(b, e)
      BY <2>1, <2>4 DEF HandleEvent
    <3>2. e.turn \in Turns
      BY <1>3, <2>4 DEF Proper
    <3> QED BY <2>1, <3>1, <3>2, SpeechStoppedKeeps
  <2>5. CASE e.type = "transcript"
    <3>1. f = OnTranscript(b, e)
      BY <2>1, <2>5 DEF HandleEvent
    <3>2. e.turn \in Turns
      BY <1>3, <2>5 DEF Proper
    <3>3. MayPost(b, s, e.turn) /\ ~IsPosting(b, e.turn)
      BY <2>1, <2>5, <3>2 DEF Heeds
    <3> QED BY <2>1, <3>1, <3>2, <3>3, TranscriptKeeps
  <2>6. CASE e.type = "call"
    <3>1. f = OnCall(b, e)
      BY <2>1, <2>6 DEF HandleEvent
    <3>2. mode = "direct"
      BY <1>3, <2>6 DEF Proper
    <3> QED BY <1>3, <2>1, <3>1, <3>2, CallKeeps
  <2>7. CASE e.type = "output_stopped"
    <3>1. f = OnOutputStopped(b)
      BY <2>1, <2>7 DEF HandleEvent
    <3> QED BY <2>1, <3>1, OutputStoppedKeeps
  <2>8. e.type \in {"speech_stopped", "transcript", "created", "call", "output_stopped"}
    BY <1>3, <1>5 DEF LineEvent
  <2> QED BY <2>3, <2>4, <2>5, <2>6, <2>7, <2>8
<1> QED BY <1>4, <1>5

-----------------------------------------------------------------------------
(* Every step of a session.                                                *)

LEMMA VoiceInitHolds == VoiceInit => VoiceIInv
<1> SUFFICES ASSUME VoiceInit PROVE VoiceIInv
  OBVIOUS
<1>1. mode \in Modes /\ said = {} /\ tries = 0
  BY DEF VoiceInit
<1>2. voice \in Voice
  <2>1. /\ NoRequest \in Spoken /\ SilentLine \in LineState /\ NewTurn \in TurnState
        /\ 0 \in Ids /\ 0 \in 0 .. MaxReconnects
    BY VoiceFacts, VoiceAssumption
  <2>2. <<>> \in Seq(Queueing) /\ <<>> \in Seq(Turns)
    OBVIOUS
  <2>3. [t \in Turns |-> NewTurn] \in [Turns -> TurnState]
    BY <2>1
  <2> QED BY <2>1, <2>2, <2>3, ZenonT(60) DEF VoiceInit, Voice
<1>3. /\ voice.connect = "idle" /\ voice.reconnect = "no" /\ voice.stream = "none"
      /\ voice.manual = TRUE /\ voice.ending = FALSE /\ voice.attempts = 0
      /\ voice.timer = FALSE /\ voice.endTimer = FALSE /\ voice.channel = "none"
  BY DEF VoiceInit
<1>4. /\ voice.creating = NoRequest /\ voice.active = 0 /\ voice.request = NoRequest
      /\ voice.queue = <<>> /\ voice.turns = [t \in Turns |-> NewTurn] /\ voice.resuming = FALSE
      /\ voice.line = SilentLine
  BY DEF VoiceInit
<1>5. Released(voice) /\ MicrophoneHeld(voice) /\ Started(voice) /\ Counted(voice, tries)
  BY <1>1, <1>3, <1>4
     DEF Released, MicrophoneHeld, Started, Counted, IsManual, IsEnding, HasTimer, EndsTimed
<1>6. OnTheWay(voice) = {} /\ Apart(voice)
  BY <1>4, NothingOnTheWay
<1>7. Uttered(voice, said) = {}
  BY <1>1, <1>6 DEF Uttered
<1>8. Unsaid(voice, said) /\ Fresh(voice, said)
  BY <1>4, <1>6, <1>7 DEF Unsaid, Fresh, IsResuming
<1>9. /\ LineOK(voice, mode) /\ voice.line.unheard = {}
      /\ \A t \in Turns : Hearing(voice.line.events, t) = {}
  BY <1>4, SilentInTurn, Zenon
<1>10. ASSUME NEW t \in Turns PROVE TurnFresh(voice, said, t) /\ GoesOn(voice, mode, t)
  <2>1. ~IsPosting(voice, t) /\ ~IsKnown(voice, t) /\ ~Answered(voice, said, t)
    BY <1>4, <1>7 DEF IsPosting, IsKnown, NewTurn, Answered
  <2> QED BY <1>9, <2>1 DEF TurnFresh, NotYet, GoesOn
<1> QED BY <1>1, <1>2, <1>5, <1>6, <1>8, <1>9, <1>10 DEF VoiceIInv, Sound

\* What a step must do.
Advances == mode' = mode /\ Keeps(voice', voice, mode, said', tries')

LEMMA SessionAdvances ==
  ASSUME VoiceIInv, \/ Connect \/ MicrophoneAnswer \/ ConnectReads \/ ConnectAsks \/ ConnectFetched
                    \/ ConnectOpens \/ ConnectFails \/ ResumeAfterAuth \/ Resumed \/ Stop
  PROVE  Advances
<1>1. Sound(voice, mode, said, tries)
  BY DEF VoiceIInv
<1>2. CASE Connect
  BY <1>1, <1>2, ConnectKeeps, Zenon DEF Connect, Becomes, Advances
<1>3. CASE MicrophoneAnswer
  <2>1. PICK granted \in BOOLEAN :
          Becomes([voice EXCEPT !.stream =
                     IF granted /\ voice.connect \in {"fetching", "reading"} THEN "live" ELSE "stopped"])
    BY <1>3 DEF MicrophoneAnswer
  <2> DEFINE stream == IF granted /\ voice.connect \in {"fetching", "reading"} THEN "live" ELSE "stopped"
  <2>2. /\ stream \in {"live", "stopped"}
        /\ (stream = "live" => voice.connect \in {"fetching", "reading"})
        /\ voice' = [voice EXCEPT !.stream = stream]
    BY <2>1 DEF Becomes
  <2> HIDE DEF stream
  <2>3. Keeps(voice', voice, mode, said, tries)
    BY <1>1, <2>2, MicrophoneAnswerKeeps
  <2> QED BY <2>1, <2>3 DEF Becomes, Advances
<1>r. CASE ConnectReads \/ ConnectAsks
  <2> DEFINE stage == IF voice.connect = "fetching" THEN "reading" ELSE "fetching"
  <2>1. /\ voice.connect \in {"fetching", "reading"} /\ stage \in {"fetching", "reading"}
        /\ Becomes([voice EXCEPT !.connect = stage])
    BY <1>r DEF ConnectReads, ConnectAsks
  <2>2. ~IsManual(voice)
    BY <1>1, <1>r, NotManual DEF ConnectReads, ConnectAsks, IsManual
  <2> HIDE DEF stage
  <2>3. Keeps(voice', voice, mode, said, tries)
    BY <1>1, <2>1, <2>2, ConnectStageKeeps DEF Becomes
  <2> QED BY <2>1, <2>3 DEF Becomes, Advances
<1>4. CASE ConnectFetched
  <2> DEFINE c == Caught(voice)
  <2>1. CASE voice.manual
    <3>1. Becomes(c) /\ voice.connect \notin {"idle", "ended"}
      BY <1>4, <2>1 DEF ConnectFetched
    <3>2. Sound(c, mode, said, tries) /\ OnTheWay(c) = OnTheWay(voice)
      BY <1>1, <3>1, CaughtKeeps, Zenon
    <3> HIDE DEF c
    <3> QED BY <3>1, <3>2 DEF Becomes, Advances, Keeps
  <2>2. CASE ~voice.manual
    <3>1. ~IsManual(voice)
      BY <2>2 DEF IsManual
    <3> QED BY <1>1, <1>4, <2>2, <3>1, ConnectFetchedKeeps, Zenon DEF ConnectFetched, Becomes, Advances
  <2> QED BY <2>1, <2>2
<1>5. CASE ConnectOpens
  <2>1. PICK account \in BOOLEAN : Becomes(Opened([voice EXCEPT !.connect = "ended"], TRUE, account))
    BY <1>5, Zenon DEF ConnectOpens, Account
  <2>2. voice.connect = "opening" /\ voice.channel = "connecting"
    BY <1>5 DEF ConnectOpens
  <2>3. Keeps(voice', voice, mode, said, tries)
    BY <1>1, <2>1, <2>2, ConnectOpensKeeps, Zenon DEF Becomes
  <2> QED BY <2>1, <2>3, Zenon DEF Becomes, Advances
<1>6. CASE ConnectFails
  <2> DEFINE c == Caught(voice)
  <2>1. voice.connect \notin {"idle", "ended"} /\ Becomes(Disconnect(c))
    BY <1>6 DEF ConnectFails
  <2>2. Sound(c, mode, said, tries) /\ OnTheWay(c) = OnTheWay(voice) /\ c.connect = "ended"
    BY <1>1, <2>1, CaughtKeeps, Zenon
  <2> HIDE DEF c
  <2>3. Keeps(voice', c, mode, said, tries)
    BY <2>1, <2>2, DisconnectsKeeps DEF Becomes
  <2> QED BY <2>1, <2>2, <2>3 DEF Becomes, Advances, Keeps
<1>7. CASE ResumeAfterAuth
  <2>1. ~WasResumed(voice)
    BY <1>7 DEF ResumeAfterAuth, WasResumed
  <2> QED BY <1>1, <1>7, <2>1, ResumeAfterAuthKeeps, Zenon DEF ResumeAfterAuth, Becomes, Advances
<1>8. CASE Resumed
  <2> DEFINE g == [voice EXCEPT !.resuming = FALSE, !.resumed = TRUE, !.enabled = TRUE]
  <2>1. PICK ok \in BOOLEAN :
          Becomes(IF ok THEN Enqueue(g, ResponseRequest("resume", NoTurn, FALSE), NoScope) ELSE g)
    BY <1>8, Zenon DEF Resumed
  <2>2. IsResuming(voice)
    BY <1>8 DEF Resumed, IsResuming
  <2>3. Keeps(voice', voice, mode, said, tries)
    BY <1>1, <2>1, <2>2, ResumedKeeps, Zenon DEF Becomes
  <2> QED BY <2>1, <2>3, Zenon DEF Becomes, Advances
<1>9. CASE Stop
  <2>1. voice.connect # "idle" /\ Becomes(Disconnect(voice))
    BY <1>1, <1>9 DEF Stop, Sound, Started, IsManual
  <2> QED BY <1>1, <2>1, DisconnectsKeeps DEF Becomes, Advances
<1> QED BY <1>2, <1>3, <1>r, <1>4, <1>5, <1>6, <1>7, <1>8, <1>9

LEMMA ConnectionAdvances ==
  ASSUME VoiceIInv, \/ ReconnectTimer \/ ReconnectReads \/ ReconnectAsks \/ ReconnectFetched
                    \/ ReconnectOpens \/ ReconnectFails \/ ChannelCloses \/ PeerDrops \/ ResponseCreateTimer \/ GracefulEndTimer
  PROVE  Advances
<1>1. Sound(voice, mode, said, tries)
  BY DEF VoiceIInv
<1>2. CASE ReconnectTimer
  <2> DEFINE c == [voice EXCEPT !.timer = FALSE]
             torn == Teardown(Aborted(c), TRUE)
  <2>0. c = [voice EXCEPT !.timer = FALSE] /\ torn = Teardown(Aborted(c), TRUE)
    OBVIOUS
  <2>1. HasTimer(voice)
    BY <1>2 DEF ReconnectTimer, HasTimer
  <2>2. /\ \/ Becomes(c)
           \/ /\ voice' = [torn EXCEPT !.reconnect = "fetching"] \/ voice' = ScheduleReconnect(torn)
              /\ tries' = tries + 1 /\ mode' = mode /\ said' = said
    BY <1>2, Zenon DEF ReconnectTimer
  <2> HIDE DEF c, torn
  <2>3. CASE Becomes(c)
    <3>1. Sound(c, mode, said, tries) /\ OnTheWay(c) = OnTheWay(voice)
      BY <1>1, <2>0, <2>1, TimerGoesOff
    <3> QED BY <2>3, <3>1 DEF Becomes, Advances, Keeps
  <2>4. CASE /\ voice' = [torn EXCEPT !.reconnect = "fetching"] \/ voice' = ScheduleReconnect(torn)
             /\ tries' = tries + 1 /\ mode' = mode /\ said' = said
    <3>1. Keeps(voice', voice, mode, said, tries + 1)
      BY <1>1, <2>0, <2>1, <2>4, ReconnectTimerKeeps, Zenon
    <3> QED BY <2>4, <3>1 DEF Advances
  <2> QED BY <2>2, <2>3, <2>4
<1>r. CASE ReconnectReads \/ ReconnectAsks
  <2> DEFINE stage == IF voice.reconnect = "fetching" THEN "reading" ELSE "fetching"
             g == [voice EXCEPT !.reconnect = stage]
  <2>1. stage \in {"no", "fetching", "reading", "opening"} /\ Becomes(g)
    BY <1>r DEF ReconnectReads, ReconnectAsks
  <2>2. ~IsManual(voice)
    BY <1>1, <1>r, NotManual DEF ReconnectReads, ReconnectAsks, IsManual
  <2> HIDE DEF stage
  <2>3. Kept(g, voice, mode, said, tries)
    BY <1>1, <2>1, <2>2, ReconnectChangesKeep
  <2> HIDE DEF g
  <2>4. Keeps(g, voice, mode, said, tries)
    BY <2>3, KeptKeeps
  <2> QED BY <2>1, <2>4 DEF Becomes, Advances
<1>3. CASE ReconnectFetched
  <2> DEFINE g == IF voice.manual THEN [voice EXCEPT !.reconnect = "no", !.channel = "stranded"]
                  ELSE [voice EXCEPT !.reconnect = "opening", !.channel = "connecting"]
  <2>1. Becomes(g)
    BY <1>3 DEF ReconnectFetched
  <2>2. ASSUME voice.manual
        PROVE  Kept([voice EXCEPT !.reconnect = "no", !.channel = "stranded"],
                    voice, mode, said, tries)
    <3>1. IsManual(voice)
      BY <2>2 DEF IsManual
    <3> QED BY <1>1, <3>1, StrandedKeeps, Zenon
  <2>3. ASSUME ~voice.manual
        PROVE  Kept([voice EXCEPT !.reconnect = "opening", !.channel = "connecting"],
                    voice, mode, said, tries)
    <3>1. ~IsManual(voice)
      BY <2>3 DEF IsManual
    <3> QED BY <1>1, <3>1, ChannelChangesKeep, Zenon
  <2>4. Kept(g, voice, mode, said, tries)
    BY <2>2, <2>3, Zenon
  <2> HIDE DEF g
  <2>5. Keeps(g, voice, mode, said, tries)
    BY <2>4, KeptKeeps
  <2> QED BY <2>1, <2>5 DEF Becomes, Advances
<1>4. CASE ReconnectOpens
  <2>1. PICK account \in BOOLEAN :
          Becomes([Opened(voice, FALSE, account) EXCEPT !.reconnect = "no"])
    BY <1>4, Zenon DEF ReconnectOpens, Account
  <2>2. voice.channel = "connecting"
    BY <1>4 DEF ReconnectOpens
  <2>3. Keeps(voice', voice, mode, said, tries)
    BY <1>1, <2>1, <2>2, ReconnectOpensKeeps, Zenon DEF Becomes
  <2> QED BY <2>1, <2>3 DEF Becomes, Advances
<1>5. CASE ReconnectFails
  <2> DEFINE g == [voice EXCEPT !.reconnect = "no"]
  <2>1. Becomes(ScheduleReconnect(g))
    BY <1>5 DEF ReconnectFails
  <2>2. Kept(g, voice, mode, said, tries)
    BY <1>1, ReconnectChangesKeep
  <2> HIDE DEF g
  <2>3. Keeps(voice', voice, mode, said, tries)
    BY <2>1, <2>2, ThenSchedules DEF Becomes
  <2> QED BY <2>1, <2>3 DEF Becomes, Advances
<1>6. CASE ChannelCloses
  <2> DEFINE g == [voice EXCEPT !.channel = "closed"]
  <2>1. voice.channel \notin {"none", "stranded"} /\ Becomes(ScheduleReconnect(g))
    BY <1>6 DEF ChannelCloses
  <2>2. ~IsManual(voice)
    BY <1>1, <2>1, NotManual
  <2>3. Kept(g, voice, mode, said, tries)
    BY <1>1, <2>2, ChannelChangesKeep, Zenon
  <2> HIDE DEF g
  <2>4. Keeps(voice', voice, mode, said, tries)
    BY <2>1, <2>3, ThenSchedules DEF Becomes
  <2> QED BY <2>1, <2>4 DEF Becomes, Advances
<1>7. CASE PeerDrops
  <2>1. Becomes(ScheduleReconnect(voice))
    BY <1>7 DEF PeerDrops
  <2>2. Kept(voice', voice, mode, said, tries)
    BY <1>1, <2>1, ScheduleKeeps DEF Becomes
  <2>3. Keeps(voice', voice, mode, said, tries)
    BY <2>2, KeptKeeps
  <2> QED BY <2>1, <2>3 DEF Becomes, Advances
<1>8. CASE ResponseCreateTimer
  <2> DEFINE q == <<[request |-> voice.creating, after |-> NoScope]>> \o voice.queue
             g == [voice EXCEPT !.creating = NoRequest, !.queue = q]
  <2>1. voice.creating # NoRequest /\ Becomes(ScheduleReconnect(g))
    BY <1>8 DEF ResponseCreateTimer
  <2>2. Keeps(voice', voice, mode, said, tries)
    BY <1>1, <2>1, ResponseCreateTimerKeeps, Zenon DEF Becomes
  <2> QED BY <2>1, <2>2 DEF Becomes, Advances
<1>9. CASE GracefulEndTimer
  <2>1. EndsTimed(voice) /\ Becomes(FinishGracefulEnd([voice EXCEPT !.endTimer = FALSE]))
    BY <1>9 DEF GracefulEndTimer, EndsTimed
  <2>2. Keeps(voice', voice, mode, said, tries)
    BY <1>1, <2>1, GracefulEndTimerKeeps DEF Becomes
  <2> QED BY <2>1, <2>2 DEF Becomes, Advances
<1> QED BY <1>2, <1>r, <1>3, <1>4, <1>5, <1>6, <1>7, <1>8, <1>9

LEMMA TurnAdvances ==
  ASSUME VoiceIInv,
         \/ \E t \in Turns : TranscriptTimer(t) \/ LateTranscriptTimer(t) \/ SendText(t) \/ TurnResult(t)
         \/ \E x \in voice.tools : ToolReturns(x)
  PROVE  Advances
<1>1. Sound(voice, mode, said, tries)
  BY DEF VoiceIInv
<1>2. ASSUME NEW t \in Turns, TranscriptTimer(t) PROVE Advances
  <2> DEFINE g == TimedOut(voice, t)
  <2>1. IsTimed(voice, t)
    BY <1>2, Zenon DEF TranscriptTimer, IsTimed
  <2>2. Becomes(IF mode = "direct" THEN RemoveIfSettled(g, t) ELSE RemoveTurn(voice, t))
    BY <1>2, Zenon DEF TranscriptTimer, TimedOut, Direct
  <2> HIDE DEF g
  <2>3. g = TimedOut(voice, t)
    BY DEF g
  <2>4. Keeps(voice', voice, mode, said, tries)
    BY <1>1, <2>1, <2>2, <2>3, TranscriptTimerKeeps DEF Becomes
  <2> QED BY <2>2, <2>4 DEF Becomes, Advances
<1>3. ASSUME NEW t \in Turns, LateTranscriptTimer(t) PROVE Advances
  BY <1>1, <1>3, LateTranscriptTimerKeeps DEF LateTranscriptTimer, Becomes, Advances
<1>4. ASSUME NEW t \in Turns, SendText(t) PROVE Advances
  <2>1. Becomes(IF mode = "direct" THEN Enqueue(Heard(Typed(voice, t), t), ResponseRequest("typed", t, FALSE), NoScope)
                ELSE Submit(Typed(voice, t), t))
    BY <1>4, Zenon DEF SendText, Typed, Heard, Direct
  <2>2. voice.channel = "open" /\ t \notin voice.used
    BY <1>4, Zenon DEF SendText
  <2>3. Keeps(voice', voice, mode, said, tries)
    BY <1>1, <2>1, <2>2, SendTextKeeps, Zenon DEF Becomes
  <2> QED BY <2>1, <2>3, Zenon DEF Becomes, Advances
<1>5. ASSUME NEW t \in Turns, TurnResult(t) PROVE Advances
  <2> DEFINE g == Unposted(voice, t)
  <2>1. IsPosting(voice, t)
    BY <1>5 DEF TurnResult, IsPosting
  <2>2. /\ \/ \E end \in BOOLEAN, account \in BOOLEAN :
                voice' = Enqueue(IF account THEN Pause(g) ELSE g, ResponseRequest("answer", t, end), NoScope)
           \/ voice' = FinishGracefulEnd(RemoveTurn(g, t))
           \/ voice' = RemoveTurn(g, t)
        /\ UNCHANGED <<mode, said, tries>>
    BY <1>5, Zenon DEF TurnResult, Becomes, Unposted, Account
  <2>3. g = Unposted(voice, t)
    OBVIOUS
  <2> HIDE DEF g
  <2>4. Keeps(voice', voice, mode, said, tries)
    BY <1>1, <2>1, <2>2, <2>3, TurnResultKeeps
  <2> QED BY <2>2, <2>4 DEF Advances
<1>6. ASSUME NEW x \in voice.tools, ToolReturns(x) PROVE Advances
  <2> DEFINE g == [voice EXCEPT !.tools = voice.tools \ {x}]
  <2>1. PICK end \in BOOLEAN, account \in BOOLEAN :
          Becomes(Enqueue(IF account THEN Pause(g) ELSE g, ResponseRequest("tool", x.turn, end), x.rid))
    BY <1>6, Zenon DEF ToolReturns, Account
  <2>2. Keeps(voice', voice, mode, said, tries)
    BY <1>1, <2>1, ToolReturnsKeeps DEF Becomes
  <2> QED BY <2>1, <2>2 DEF Becomes, Advances
<1> QED BY <1>2, <1>3, <1>4, <1>5, <1>6

LEMMA LineAdvances ==
  ASSUME VoiceIInv,
         \/ \E t \in Turns : Speak(t) \/ Transcribe(t)
         \/ TakeCommand \/ FinishResponse \/ CallTool \/ OutputStops \/ ReceiveEvent
  PROVE  Advances
<1>1. Sound(voice, mode, said, tries) /\ voice \in Voice
  BY DEF VoiceIInv, Sound
<1>2. ASSUME NEW t \in Turns, Speak(t) PROVE Advances
  <2> DEFINE g == Hearkening(voice.line, t)
             used == voice.used \cup {t}
             f == Placed(voice, g, voice.made, used)
             h == Placed(voice, Answering(g, t, voice.made + 1), voice.made + 1, used)
             v == [voice EXCEPT !.used = used]
  <2>1. t \notin voice.used /\ g = Hearkening(voice.line, t)
    BY <1>2, ZenonT(30) DEF Speak
  <2>2. \/ Becomes([v EXCEPT !.line = g])
        \/ voice.made < MaxResponses /\ Begins(v, g, Automatic(t), NoRequest)
    BY <1>2, Zenon DEF Speak, Line, Hearkening, Cut
  <2> HIDE DEF g
  <2>3. [v EXCEPT !.line = g] = f
    BY <1>1, Zenon DEF Placed, Voice
  <2>4. [v EXCEPT !.made = @ + 1, !.line = Answering(g, t, voice.made + 1)] = h
    <3> DEFINE l == Answering(g, t, voice.made + 1)
    <3> HIDE DEF l
    <3>1. [v EXCEPT !.made = @ + 1, !.line = l] = Placed(voice, l, voice.made + 1, used)
      BY <1>1, Zenon DEF Placed, Voice
    <3> QED BY <3>1 DEF l
  <2>5. Begun(g, Automatic(t), NoRequest) = Answering(g, t, voice.made + 1)
    BY DEF Begun, Answering
  <2>6. /\ voice' = f \/ (voice.made < MaxResponses /\ voice' = h)
        /\ UNCHANGED <<mode, said, tries>>
    <3>1. CASE Becomes([v EXCEPT !.line = g])
      BY <2>3, <3>1 DEF Becomes
    <3>2. CASE voice.made < MaxResponses /\ Begins(v, g, Automatic(t), NoRequest)
      BY <2>4, <2>5, <3>2 DEF Begins, Becomes
    <3> QED BY <2>2, <3>1, <3>2
  <2>7. Keeps(voice', voice, mode, said, tries)
    BY <1>1, <2>1, <2>6, SpeakKeeps
  <2> QED BY <2>6, <2>7 DEF Advances
<1>3. ASSUME NEW t \in Turns, Transcribe(t) PROVE Advances
  <2> DEFINE l1 == [voice.line EXCEPT !.unheard = voice.line.unheard \ {t}]
  <2>1. t \in voice.line.unheard
    BY <1>3 DEF Transcribe, Line
  <2>2. PICK status \in {"words", "noise", "failed"} :
          Becomes(Moved(voice, Emit(l1, Event("transcript", 0, NoRequest, t, status))))
    BY <1>3 DEF Transcribe, Moves, Line, Moved
  <2>3. Keeps(voice', voice, mode, said, tries)
    BY <1>1, <2>1, <2>2, TranscribeKeeps DEF Becomes
  <2> QED BY <2>2, <2>3 DEF Becomes, Advances
<1>4. CASE TakeCommand
  <2> DEFINE c == [voice.line EXCEPT !.commands = Tail(voice.line.commands)]
             r == Head(voice.line.commands)
             l1 == [c EXCEPT !.busy = voice.made + 1, !.making = r, !.playing = TRUE]
             e == Event("created", voice.made + 1, r, NoTurn, "ok")
  <2>1. voice.line.commands # <<>>
    BY <1>4 DEF TakeCommand, Line
  <2>2. \/ c.busy = 0 /\ voice.made < MaxResponses /\ Begins(voice, c, r, r)
        \/ Moves(c)
    <3>1. c.busy = voice.line.busy
      BY <1>1 DEF Voice, LineState
    <3> QED BY <1>4, <3>1 DEF TakeCommand, Line
  <2>3. Begins(voice, c, r, r) => Becomes(Beginning(voice, Emit(l1, e)))
    BY DEF Begins, Begun, Beginning
  <2>4. Moves(c) => Becomes(Moved(voice, c))
    BY DEF Moves, Moved
  <2>5. /\ \/ c.busy = 0 /\ voice.made < MaxResponses /\ voice' = Beginning(voice, Emit(l1, e))
           \/ voice' = Moved(voice, c)
        /\ UNCHANGED <<mode, said, tries>>
    BY <2>2, <2>3, <2>4 DEF Becomes
  <2>6. Keeps(voice', voice, mode, said, tries)
    BY <1>1, <2>1, <2>5, TakeCommandKeeps, Zenon
  <2> QED BY <2>5, <2>6 DEF Advances
<1>5. CASE FinishResponse
  <2> DEFINE l1 == [voice.line EXCEPT !.busy = 0, !.making = NoRequest]
  <2>1. PICK status \in {"completed", "cancelled"} :
          Becomes(Moved(voice, Emit(l1, Event("done", voice.line.busy, NoRequest, NoTurn, status))))
    BY <1>5 DEF FinishResponse, Moves, Line, Moved
  <2>2. Keeps(voice', voice, mode, said, tries)
    BY <1>1, <2>1, FinishResponseKeeps, Zenon DEF Becomes
  <2> QED BY <2>1, <2>2 DEF Becomes, Advances
<1>6. CASE CallTool
  <2> DEFINE l0 == [voice.line EXCEPT !.busy = 0, !.making = NoRequest]
             e == Event("done", voice.line.busy, NoRequest, NoTurn, "calling")
  <2>1. PICK tool \in {"wait", "work"} :
          Becomes(Moved(voice, Emit(Emit(l0, Event("call", voice.line.busy, NoRequest, NoTurn, tool)), e)))
    BY <1>6 DEF CallTool, Moves, Line, Moved
  <2>2. mode = "direct"
    BY <1>6 DEF CallTool, Direct
  <2>3. Keeps(voice', voice, mode, said, tries)
    BY <1>1, <2>1, <2>2, CallToolKeeps, Zenon DEF Becomes
  <2> QED BY <2>1, <2>3 DEF Becomes, Advances
<1>7. CASE OutputStops
  <2>1. PICK more \in BOOLEAN :
          Becomes(Moved(voice, Emit([voice.line EXCEPT !.playing = more],
                                    Event("output_stopped", 0, NoRequest, NoTurn, "ok"))))
    BY <1>7, Zenon DEF OutputStops, Moves, Line, Moved
  <2>2. Keeps(voice', voice, mode, said, tries)
    BY <1>1, <2>1, OutputStopsKeeps DEF Becomes
  <2> QED BY <2>1, <2>2 DEF Becomes, Advances
<1>8. CASE ReceiveEvent
  <2> DEFINE e == Head(voice.line.events)
             g == Took(voice)
  <2>1. PICK chance \in BOOLEAN : voice' = HandleEvent(g, e, chance)
    BY <1>8 DEF ReceiveEvent, Line, Took
  <2>2. /\ voice.channel = "open" /\ voice.line.events # <<>>
        /\ said' = IF e.type = "done" THEN said \cup {voice.request} ELSE said
        /\ UNCHANGED <<mode, tries>>
    BY <1>8 DEF ReceiveEvent, Line
  <2>3. e = Head(voice.line.events) /\ g = Took(voice)
    OBVIOUS
  <2> HIDE DEF e, g
  <2>4. Keeps(voice', voice, mode, said', tries)
    BY <1>1, <2>1, <2>2, <2>3, ReceiveKeeps, Zenon
  <2> QED BY <2>2, <2>4 DEF Advances
<1> QED BY <1>2, <1>3, <1>4, <1>5, <1>6, <1>7, <1>8

LEMMA VoiceAdvances ==
  ASSUME VoiceIInv, [VoiceNext]_voiceVars
  PROVE  Advances
<1>1. CASE VoiceNext
  BY <1>1, SessionAdvances, ConnectionAdvances, TurnAdvances, LineAdvances DEF VoiceNext
<1>2. CASE UNCHANGED voiceVars
  BY <1>2 DEF voiceVars, VoiceIInv, Advances, Keeps
<1> QED BY <1>1, <1>2

\* The invariant is inductive: it holds in every state of every session.
THEOREM VoiceIsSound == VoiceSpec => []VoiceIInv
<1>1. VoiceIInv /\ [VoiceNext]_voiceVars => VoiceIInv'
  BY VoiceAdvances DEF Advances, Keeps, VoiceIInv
<1> QED BY <1>1, VoiceInitHolds, PTL DEF VoiceSpec

\* However a session ends, the microphone is released and nothing stays behind,
\* and the reconnects that were carried out are never more than the limit.
THEOREM VoiceInvariantHolds == VoiceSpec => []VoiceInvariant
<1>1. VoiceIInv => VoiceInvariant
  <2> SUFFICES ASSUME VoiceIInv PROVE VoiceInvariant
    OBVIOUS
  <2>1. mode \in Modes /\ voice \in Voice /\ Released(voice) /\ Counted(voice, tries)
    BY DEF VoiceIInv, Sound
  <2>2. /\ voice.connect \in {"idle", "fetching", "reading", "opening", "ended"}
        /\ voice.reconnect \in {"no", "fetching", "reading", "opening"}
        /\ voice.stream \in {"none", "asked", "live", "stopped"}
        /\ voice.channel \in {"none", "connecting", "open", "closed", "stranded"}
        /\ voice.creating \in Spoken /\ voice.request \in Spoken /\ voice.active \in Ids
        /\ voice.queue \in Seq(Queueing) /\ voice.attempts \in 0 .. MaxReconnects
    BY <2>1 DEF Voice
  <2>3. \A i \in DOMAIN voice.queue :
          voice.queue[i].request \in ResponseRequests /\ voice.queue[i].after \in 0 .. Creating
    <3>1. \A i \in DOMAIN voice.queue : voice.queue[i] \in Queueing
      BY <2>2, LenProperties, ElementOfSeq
    <3> QED BY <3>1 DEF Queueing
  <2>4. VoiceTypeOK
    BY <2>1, <2>2, <2>3 DEF VoiceTypeOK, Spoken, Ids
  <2>5. EndingReleases
    BY <2>1 DEF EndingReleases, Released, IsManual, HasTimer, EndsTimed
  <2>6. tries <= MaxReconnects
    BY <2>1, <2>2, VoiceAssumption DEF Counted
  <2> QED BY <2>4, <2>5, <2>6 DEF VoiceInvariant
<1> QED BY <1>1, VoiceIsSound, PTL

\* Approved speech is in one place, was never said before, and no turn is forgotten.
THEOREM SpeechIsKeptHolds == VoiceSpec => []SpeechIsKept
<1>1. VoiceIInv => SpeechIsKept
  <2> SUFFICES ASSUME VoiceIInv PROVE SpeechIsKept
    OBVIOUS
  <2>1. /\ voice \in Voice /\ Apart(voice) /\ Unsaid(voice, said)
        /\ \A t \in Turns : GoesOn(voice, mode, t)
    BY DEF VoiceIInv, Sound
  <2>2. TurnsGoOn
    BY <2>1 DEF TurnsGoOn, GoesOn, IsKnown, IsTimed, IsPosting, Direct
  <2>3. ASSUME NEW r \in OnTheWay(voice)
        PROVE  /\ r \notin said
               /\ Cardinality({i \in DOMAIN voice.queue : voice.queue[i].request = r})
                    + (IF voice.creating = r THEN 1 ELSE 0) + (IF voice.request = r THEN 1 ELSE 0) = 1
    <3> DEFINE ids == {i \in DOMAIN voice.queue : voice.queue[i].request = r}
    <3>1. Owed(r) /\ r \notin said
      BY <2>1, OnTheWayIsOwed DEF Unsaid
    <3>2. r \in Queued(voice) \/ r = voice.creating \/ r = voice.request
      BY DEF OnTheWay
    <3>3. CASE r \in Queued(voice)
      <4>1. PICK i \in DOMAIN voice.queue : voice.queue[i].request = r
        BY <3>3 DEF Queued
      <4>2. \A j \in DOMAIN voice.queue : voice.queue[j].request = r => j = i
        BY <2>1, <3>1, <4>1 DEF Apart, Distinct
      <4>3. ids = {i}
        BY <4>1, <4>2
      <4>4. Cardinality(ids) = 1
        BY <4>3, FS_Singleton, Zenon
      <4>5. voice.creating # r /\ voice.request # r
        BY <2>1, <3>1, <3>3 DEF Apart
      <4> QED BY <3>1, <4>4, <4>5
    <3>4. CASE r \notin Queued(voice)
      <4>1. ids = {}
        BY <3>4 DEF Queued
      <4>2. Cardinality(ids) = 0
        BY <4>1, FS_EmptySet
      <4>3. ~(voice.creating = r /\ voice.request = r)
        BY <2>1, <3>1 DEF Apart
      <4> QED BY <3>1, <3>2, <3>4, <4>2, <4>3
    <3> QED BY <3>3, <3>4
  <2>4. SaidOnce
    BY <2>3 DEF SaidOnce
  <2> QED BY <2>2, <2>4 DEF SpeechIsKept
<1> QED BY <1>1, VoiceIsSound, PTL

\* What was approved stays on its way until its response ends or the session does.
THEOREM NothingIsDroppedHolds == VoiceSpec => NothingIsDropped
<1> DEFINE Kept1 == \A r \in OnTheWay(voice) : r \in OnTheWay(voice') \cup said' \/ voice'.manual
<1>1. VoiceIInv /\ [VoiceNext]_voiceVars => [Kept1]_voiceVars
  BY VoiceAdvances DEF Advances, Keeps, IsManual
<1> QED BY <1>1, VoiceIsSound, PTL DEF VoiceSpec, NothingIsDropped

-----------------------------------------------------------------------------
(* Access to cases.  The inductive invariant.                              *)

\* An account is bound to one resident; the row inserted for an account is bound to no
\* other, and it is bound once it has a case.
BindingOK ==
  /\ \A r, s \in Residents : boundTo[r] # Unset /\ boundTo[r] = boundTo[s] => r = s
  /\ \A a \in Accounts : boundTo[a] \in {a, Unset}
  /\ \A c \in Cases : cases[c].resident \in Accounts => boundTo[cases[c].resident] # Unset

\* A row is found by a key of its account and case.
RowsOK(rows) ==
  /\ DOMAIN rows \subseteq EntitlementKeys
  /\ \A k \in DOMAIN rows : /\ rows[k] \in Entitlement
                            /\ rows[k].account = k.account /\ rows[k].case = k.case

\* The rows that were not revoked are those of the owners of the cases.
OwnedBy(rows, table, bound) ==
  \A k \in DOMAIN rows : rows[k].state = "active" =>
    /\ rows[k].resident = table[rows[k].case].resident
    /\ rows[k].account = bound[table[rows[k].case].resident]

\* What is named exists and is of the account and the case it is named for.
Names(k, rows, account, case) == k \in DOMAIN rows /\ k.account = account /\ k.case = case

HandoffsOK(table, offers, rows) ==
  \A q \in DOMAIN table :
    /\ Names(table[q].entitlement, rows, q.account, q.case)
    /\ table[q].choice # 0 => /\ table[q].choice \in DOMAIN offers
                              /\ offers[table[q].choice].attachedId = table[q].entitlement

ChoiceOK(choice, rows) ==
  /\ Names(choice.attachedId, rows, choice.account, choice.attached)
  /\ choice.existingId # Unset => Names(choice.existingId, rows, choice.account, choice.existing)

AskOK(ask, rows) == ask.state = "approved" => Names(ask.entitlement, rows, ask.account, ask.case)

NamesOK ==
  /\ HandoffsOK(handoffs, choices, entitled)
  /\ \A n \in DOMAIN choices : ChoiceOK(choices[n], entitled)
  /\ \A n \in DOMAIN asks : AskOK(asks[n], entitled)

AccessInv ==
  /\ AccessTypeOK /\ BindingOK /\ OneActiveCase
  /\ RowsOK(entitled) /\ OwnedBy(entitled, cases, boundTo)
  /\ NamesOK

-----------------------------------------------------------------------------
(* Operators of the model.                                                 *)

LEMMA LeastForm ==
  ASSUME NEW T \in SUBSET Nat, T # {}
  PROVE  Least(T) \in T /\ \A y \in T : Least(T) <= y
<1> DEFINE below == {ss \in Nat \X Nat : ss[1] < ss[2]}
<1>1. IsWellFoundedOn(below, Nat)
  BY NatLessThanWellFounded DEF OpToRel
<1> HIDE DEF below
<1>2. PICK x \in T : \A y \in T : <<y, x>> \notin below
  BY <1>1, WFMin, Zenon
<1>3. \A y \in T : x <= y
  <2> SUFFICES ASSUME NEW y \in T PROVE x <= y
    OBVIOUS
  <2>1. x \in Nat /\ y \in Nat /\ <<y, x>> \notin below
    BY <1>2
  <2>2. ~(y < x)
    BY <2>1 DEF below
  <2> QED BY <2>1, <2>2
<1> QED BY <1>3, Zenon DEF Least

LEMMA Deadlines ==
  ASSUME moment \in 0 .. AccessTime
  PROVE  /\ moment + ChoiceTicks \in Instants /\ moment + LinkTicks \in Instants
         /\ moment + AskTicks \in Instants
         /\ \A life \in 1 .. ProofTicks : moment + life \in Instants
         /\ moment + ProofTicks \in Instants
         /\ Instants \subseteq Nat
BY AccessAssumption DEF Instants

LEMMA MintedRows ==
  ASSUME NEW rows, RowsOK(rows), NEW k \in EntitlementKeys, NEW row \in Entitlement,
         row.account = k.account, row.case = k.case
  PROVE  /\ RowsOK(Minted(rows, k, row))
         /\ DOMAIN Minted(rows, k, row) = DOMAIN rows \cup {k}
         /\ \A j \in DOMAIN rows : Minted(rows, k, row)[j] = rows[j]
         /\ k \notin DOMAIN rows => Minted(rows, k, row)[k] = row
<1>1. CASE k \in DOMAIN rows
  BY <1>1 DEF Minted
<1>2. CASE k \notin DOMAIN rows
  <2>1. Minted(rows, k, row) = With(rows, k, row)
    BY <1>2 DEF Minted
  <2>2. /\ DOMAIN With(rows, k, row) = DOMAIN rows \cup {k}
        /\ With(rows, k, row)[k] = row
        /\ \A j \in DOMAIN rows : With(rows, k, row)[j] = rows[j]
    BY <1>2 DEF With
  <2>3. RowsOK(With(rows, k, row))
    <3> DEFINE new == With(rows, k, row)
    <3>1. DOMAIN new = DOMAIN rows \cup {k} /\ new[k] = row /\ \A j \in DOMAIN rows : new[j] = rows[j]
      BY <2>2
    <3> HIDE DEF new
    <3>2. DOMAIN new \subseteq EntitlementKeys
      BY <3>1 DEF RowsOK
    <3>3. ASSUME NEW j \in DOMAIN new
          PROVE  new[j] \in Entitlement /\ new[j].account = j.account /\ new[j].case = j.case
      BY <3>1 DEF RowsOK
    <3>4. RowsOK(new)
      BY <3>2, <3>3 DEF RowsOK
    <3> QED BY <3>4 DEF new
  <2> QED BY <1>2, <2>1, <2>2, <2>3
<1> QED BY <1>1, <1>2

\* A new row is its owner's, and the rest is as it was.
LEMMA MintedOwned ==
  ASSUME NEW rows, RowsOK(rows), NEW k \in EntitlementKeys, NEW row \in Entitlement,
         row.account = k.account, row.case = k.case,
         NEW table, NEW bound, OwnedBy(rows, table, bound),
         row.resident = table[row.case].resident,
         row.account = bound[table[row.case].resident]
  PROVE  OwnedBy(Minted(rows, k, row), table, bound)
<1> DEFINE minted == Minted(rows, k, row)
<1>1. /\ DOMAIN minted = DOMAIN rows \cup {k}
      /\ \A j \in DOMAIN rows : minted[j] = rows[j]
      /\ k \notin DOMAIN rows => minted[k] = row
  BY MintedRows, Zenon
<1> HIDE DEF minted
<1>2. OwnedBy(minted, table, bound)
  BY <1>1 DEF OwnedBy
<1> QED BY <1>2 DEF minted

\* Names outlive new rows.
LEMMA NamesGrow ==
  ASSUME NEW rows, NEW new, DOMAIN rows \subseteq DOMAIN new
  PROVE  /\ \A h, c : HandoffsOK(h, c, rows) => HandoffsOK(h, c, new)
         /\ \A c : ChoiceOK(c, rows) => ChoiceOK(c, new)
         /\ \A x : AskOK(x, rows) => AskOK(x, new)
BY DEF HandoffsOK, ChoiceOK, AskOK, Names

-----------------------------------------------------------------------------
(* Residents and the move of a case.                                       *)

LEMMA ResidentForm ==
  ASSUME AccessTypeOK, BindingOK, NEW a \in Accounts
  PROVE  /\ ResidentOf(a) \in Residents
         /\ boundTo[ResidentOf(a)] = a
            \/ (ResidentOf(a) = a /\ boundTo[a] = Unset /\ \A s \in Residents : boundTo[s] # a)
         /\ ResidentOf(a) \in Accounts => ResidentOf(a) = a
<1>1. a \in Residents /\ a # Unset
  BY AccessAssumption DEF Residents
<1>2. CASE \E r \in Residents : boundTo[r] = a
  <2>1. ResidentOf(a) \in Residents /\ boundTo[ResidentOf(a)] = a
    BY <1>2 DEF ResidentOf
  <2> QED BY <1>1, <2>1 DEF BindingOK
<1>3. CASE ~\E r \in Residents : boundTo[r] = a
  <2>1. ResidentOf(a) = a
    BY <1>3 DEF ResidentOf
  <2> QED BY <1>1, <1>3, <2>1 DEF BindingOK
<1> QED BY <1>2, <1>3

\* A case changes hands only where its account has another resident; its resident is
\* then the account's, and who had it before has no standing entitlement.
LEMMA FollowKeeps ==
  ASSUME AccessInv, NEW l \in Links, NEW a \in Accounts, NEW c \in Cases,
         MayFollow(l, c), Follow(l, a)
  PROVE  /\ boundTo' \in [Residents -> Accounts \cup {Unset}]
         /\ cases' \in [Cases -> [resident : Residents, active : BOOLEAN]]
         /\ links' \in [Links -> Link \cup {NoLink}]
         /\ BindingOK' /\ OneActiveCase'
         /\ cases' = CasesAfter(l, a)
         /\ cases'[c].resident = ResidentOf(a) /\ boundTo'[ResidentOf(a)] = a
         /\ OwnedBy(RowsAfter(l, a), cases', boundTo')
         /\ \A r \in Residents : boundTo[r] # Unset => boundTo'[r] = boundTo[r]
         /\ \A d \in Cases : cases'[d].resident # cases[d].resident => d = c
<1> DEFINE r == ResidentOf(a)
<1>1. /\ AccessTypeOK /\ BindingOK /\ OneActiveCase /\ OwnedBy(entitled, cases, boundTo)
      /\ RowsOK(entitled)
      /\ boundTo \in [Residents -> Accounts \cup {Unset}]
      /\ cases \in [Cases -> [resident : Residents, active : BOOLEAN]]
      /\ links \in [Links -> Link \cup {NoLink}]
  BY DEF AccessInv, AccessTypeOK
<1>2. /\ r \in Residents
      /\ boundTo[r] = a \/ (r = a /\ boundTo[a] = Unset /\ \A s \in Residents : boundTo[s] # a)
      /\ r \in Accounts => r = a
  BY <1>1, ResidentForm
<1> HIDE DEF r
<1>3. /\ links[l].state = "open" /\ links[l].case = c /\ cases[c].resident = links[l].source
      /\ links[l] \in Link
  BY <1>1 DEF MayFollow, NoLink
<1>4. /\ boundTo' \in [Residents -> Accounts \cup {Unset}] /\ boundTo'[r] = a
      /\ \A s \in Residents \ {r} : boundTo'[s] = boundTo[s]
  BY <1>1, <1>2 DEF Follow, r
<1>5. links' \in [Links -> Link \cup {NoLink}]
  <2>1. [links[l] EXCEPT !.state = "used"] \in Link
    BY <1>3 DEF Link
  <2>2. links' = [links EXCEPT ![l] = [links[l] EXCEPT !.state = "used"]]
    BY DEF Follow
  <2> QED BY <1>1, <2>1, <2>2
<1>6. /\ a # Unset /\ a \in Residents
      /\ \A s \in Residents : boundTo[s] # Unset => boundTo'[s] = boundTo[s]
  BY <1>2, <1>4, AccessAssumption DEF Residents
<1>7. cases' = CasesAfter(l, a)
  BY DEF Follow
<1>8. /\ cases' \in [Cases -> [resident : Residents, active : BOOLEAN]]
      /\ cases'[c].resident = r /\ \A d \in Cases \ {c} : cases'[d] = cases[d]
      /\ cases'[c].active =>
           cases[c].active /\ (r = cases[c].resident \/ OtherActive(r, c) = {})
  <2>1. CASE ~ChangesHands(l, a)
    BY <1>1, <1>3, <1>7, <2>1 DEF CasesAfter, ChangesHands, r
  <2>2. CASE ChangesHands(l, a)
    <3> DEFINE row == [resident |-> r, active |-> cases[c].active /\ OtherActive(r, c) = {}]
    <3>1. row \in [resident : Residents, active : BOOLEAN]
      BY <1>2
    <3>2. cases' = [cases EXCEPT ![c] = row]
      BY <1>3, <1>7, <2>2 DEF CasesAfter, r
    <3>3. row.resident = r /\ (row.active => cases[c].active /\ OtherActive(r, c) = {})
      BY Zenon
    <3> HIDE DEF row
    <3> QED BY <1>1, <3>1, <3>2, <3>3
  <2> QED BY <2>1, <2>2
<1>9. BindingOK'
  <2>1. ASSUME NEW s \in Residents, NEW t \in Residents, boundTo'[s] # Unset,
               boundTo'[s] = boundTo'[t]
        PROVE  s = t
    BY <1>1, <1>2, <1>4, <1>6, <2>1 DEF BindingOK
  <2>2. ASSUME NEW b \in Accounts
        PROVE  boundTo'[b] \in {b, Unset}
    <3>1. b \in Residents
      BY DEF Residents
    <3> QED BY <1>1, <1>2, <1>4, <3>1 DEF BindingOK
  <2>3. ASSUME NEW d \in Cases, cases'[d].resident \in Accounts
        PROVE  boundTo'[cases'[d].resident] # Unset
    <3>1. CASE d = c
      BY <1>4, <1>6, <1>8, <3>1
    <3>2. CASE d # c
      BY <1>1, <1>4, <1>6, <1>8, <2>3, <3>2 DEF BindingOK
    <3> QED BY <3>1, <3>2
  <2> QED BY <2>1, <2>2, <2>3 DEF BindingOK
<1>10. OneActiveCase'
  <2>1. ASSUME NEW d \in Cases, d # c, cases'[d].resident = r, cases'[d].active, cases'[c].active
        PROVE  FALSE
    <3>1. cases[d].resident = r /\ cases[d].active /\ cases[c].active
      BY <1>8, <2>1
    <3>2. r # cases[c].resident
      BY <1>1, <2>1, <3>1 DEF OneActiveCase
    <3>3. OtherActive(r, c) = {} /\ d \in OtherActive(r, c)
      BY <1>8, <2>1, <3>1, <3>2 DEF OtherActive
    <3> QED BY <3>3
  <2>2. ASSUME NEW d \in Cases, NEW e \in Cases, d # c, e # c,
               cases'[d].resident = cases'[e].resident, cases'[d].active, cases'[e].active
        PROVE  d = e
    BY <1>1, <1>8, <2>2 DEF OneActiveCase
  <2> QED BY <1>8, <2>1, <2>2 DEF OneActiveCase
<1>11. OwnedBy(RowsAfter(l, a), cases', boundTo')
  <2> DEFINE rows == RowsAfter(l, a)
  <2>1. SUFFICES ASSUME NEW k \in DOMAIN rows, rows[k].state = "active"
                 PROVE  /\ rows[k].resident = cases'[rows[k].case].resident
                        /\ rows[k].account = boundTo'[cases'[rows[k].case].resident]
    BY DEF OwnedBy
  <2>2. k \in DOMAIN entitled /\ entitled[k] \in Entitlement
    BY <1>1 DEF RowsAfter, RowsOK
  <2>3. rows[k] = entitled[k] /\ (ChangesHands(l, a) => entitled[k].case # c)
    BY <1>3, <2>1, <2>2 DEF RowsAfter, Entitlement
  <2> HIDE DEF rows
  <2>4. /\ entitled[k].resident = cases[entitled[k].case].resident
        /\ entitled[k].account = boundTo[cases[entitled[k].case].resident]
        /\ entitled[k].case \in Cases /\ entitled[k].account \in Accounts
    BY <1>1, <2>1, <2>2, <2>3 DEF OwnedBy, Entitlement
  <2>5. cases'[entitled[k].case].resident = cases[entitled[k].case].resident
    <3>1. CASE ChangesHands(l, a)
      BY <1>8, <2>3, <2>4, <3>1
    <3>2. CASE ~ChangesHands(l, a)
      BY <1>7, <3>2 DEF CasesAfter
    <3> QED BY <3>1, <3>2
  <2>6. /\ boundTo[cases[entitled[k].case].resident] # Unset
        /\ cases[entitled[k].case].resident \in Residents
    BY <1>1, <2>4, AccessAssumption
  <2> QED BY <1>6, <2>3, <2>4, <2>5, <2>6
<1>12. \A d \in Cases : cases'[d].resident # cases[d].resident => d = c
  BY <1>8
<1> QED BY <1>4, <1>5, <1>6, <1>7, <1>8, <1>9, <1>10, <1>11, <1>12 DEF r

LEMMA RowsAfterForm ==
  ASSUME AccessTypeOK, RowsOK(entitled), NEW l, NEW a
  PROVE  RowsOK(RowsAfter(l, a)) /\ DOMAIN RowsAfter(l, a) = DOMAIN entitled
<1>1. DOMAIN RowsAfter(l, a) = DOMAIN entitled
  BY DEF RowsAfter
<1>2. ASSUME NEW k \in DOMAIN entitled
      PROVE  /\ RowsAfter(l, a)[k] \in Entitlement
             /\ RowsAfter(l, a)[k].account = k.account /\ RowsAfter(l, a)[k].case = k.case
  <2>1. /\ entitled[k] \in Entitlement
        /\ entitled[k].account = k.account /\ entitled[k].case = k.case
    BY DEF RowsOK
  <2>2. /\ [entitled[k] EXCEPT !.state = "revoked"] \in Entitlement
        /\ [entitled[k] EXCEPT !.state = "revoked"].account = k.account
        /\ [entitled[k] EXCEPT !.state = "revoked"].case = k.case
    BY <2>1 DEF Entitlement
  <2>3. RowsAfter(l, a)[k] \in {entitled[k], [entitled[k] EXCEPT !.state = "revoked"]}
    BY DEF RowsAfter
  <2> QED BY <2>1, <2>2, <2>3, Zenon
<1>3. DOMAIN entitled \subseteq EntitlementKeys
  BY DEF RowsOK
<1> QED BY <1>1, <1>2, <1>3 DEF RowsOK

-----------------------------------------------------------------------------
(* Tables that are sequences.                                              *)

LEMMA RowAppended ==
  ASSUME NEW S, NEW seq \in Seq(S), NEW elt \in S
  PROVE  /\ Append(seq, elt) \in Seq(S) /\ Len(Append(seq, elt)) = Len(seq) + 1
         /\ DOMAIN Append(seq, elt) = DOMAIN seq \cup {Len(seq) + 1}
         /\ Len(seq) \in Nat /\ Len(seq) + 1 \notin DOMAIN seq
         /\ \A n \in DOMAIN seq : Append(seq, elt)[n] = seq[n]
         /\ Append(seq, elt)[Len(seq) + 1] = elt
<1>1. /\ Append(seq, elt) \in Seq(S) /\ Len(Append(seq, elt)) = Len(seq) + 1
      /\ \A n \in 1 .. Len(seq) : Append(seq, elt)[n] = seq[n]
      /\ Append(seq, elt)[Len(seq) + 1] = elt
  BY AppendProperties
<1> DEFINE longer == Append(seq, elt)
<1> HIDE DEF longer
<1>2. Len(seq) \in Nat /\ DOMAIN seq = 1 .. Len(seq) /\ DOMAIN longer = 1 .. Len(longer)
  BY <1>1, LenProperties DEF longer
<1> QED BY <1>1, <1>2 DEF longer

LEMMA Replaced ==
  ASSUME NEW S, NEW seq \in Seq(S), NEW n \in DOMAIN seq, NEW elt \in S
  PROVE  /\ [seq EXCEPT ![n] = elt] \in Seq(S) /\ Len([seq EXCEPT ![n] = elt]) = Len(seq)
         /\ DOMAIN [seq EXCEPT ![n] = elt] = DOMAIN seq
         /\ [seq EXCEPT ![n] = elt][n] = elt
         /\ \A m \in DOMAIN seq \ {n} : [seq EXCEPT ![n] = elt][m] = seq[m]
<1>1. n \in 1 .. Len(seq)
  BY LenProperties
<1> QED BY <1>1, ExceptSeq

\* A request for assistance that is decided differs in what was decided.
DecidedAsk(ask, s, state, k) ==
  [ask EXCEPT !.state = state, !.reviewer = s, !.entitlement = k]

LEMMA DecidedForm ==
  ASSUME NEW table \in Seq(Assistance), NEW n \in DOMAIN table, NEW s \in Reviewers,
         NEW state \in {"owned", "approved", "denied"}, NEW k \in EntitlementKeys \cup {Unset}
  PROVE  /\ Decided(table, n, s, state, k) \in Seq(Assistance)
         /\ Len(Decided(table, n, s, state, k)) = Len(table)
         /\ DOMAIN Decided(table, n, s, state, k) = DOMAIN table
         /\ Decided(table, n, s, state, k)[n].state = state
         /\ Decided(table, n, s, state, k)[n].account = table[n].account
         /\ Decided(table, n, s, state, k)[n].case = table[n].case
         /\ Decided(table, n, s, state, k)[n].entitlement = k
         /\ \A m \in DOMAIN table \ {n} : Decided(table, n, s, state, k)[m] = table[m]
<1> DEFINE ask == DecidedAsk(table[n], s, state, k)
<1>1. table[n] \in Assistance
  BY ElementOfSeq, LenProperties
<1>2. /\ ask \in Assistance /\ ask.state = state /\ ask.account = table[n].account
      /\ ask.case = table[n].case /\ ask.entitlement = k
  BY <1>1, Zenon DEF DecidedAsk, Assistance
<1>3. Decided(table, n, s, state, k) = [table EXCEPT ![n] = ask]
  BY Zenon DEF Decided, DecidedAsk
<1> HIDE DEF ask
<1> QED BY <1>2, <1>3, Replaced

LEMMA AsksAfterForm ==
  ASSUME AccessTypeOK, NEW l \in Links, NEW a \in Accounts
  PROVE  /\ AsksAfter(l, a) \in Seq(Assistance) /\ Len(AsksAfter(l, a)) = Len(asks)
         /\ DOMAIN AsksAfter(l, a) = DOMAIN asks
         /\ \A n \in DOMAIN asks : /\ AsksAfter(l, a)[n].state = asks[n].state
                                   /\ AsksAfter(l, a)[n].account = asks[n].account
                                   /\ AsksAfter(l, a)[n].case = asks[n].case
                                   /\ AsksAfter(l, a)[n].entitlement = asks[n].entitlement
<1> DEFINE after == AsksAfter(l, a)
<1>1. asks \in Seq(Assistance) /\ Len(asks) \in Nat /\ DOMAIN asks = 1 .. Len(asks)
  BY LenProperties DEF AccessTypeOK
<1>2. ResidentOf(a) \in Residents
  BY DEF ResidentOf, Residents
<1>3. ASSUME NEW n \in DOMAIN asks
      PROVE  /\ after[n] \in Assistance
             /\ after[n].state = asks[n].state /\ after[n].account = asks[n].account
             /\ after[n].case = asks[n].case /\ after[n].entitlement = asks[n].entitlement
  <2>1. asks[n] \in Assistance
    BY <1>1, ElementOfSeq
  <2> DEFINE moved == [asks[n] EXCEPT !.resident = ResidentOf(a)]
  <2>2. /\ moved \in Assistance /\ moved.state = asks[n].state
        /\ moved.account = asks[n].account /\ moved.case = asks[n].case
        /\ moved.entitlement = asks[n].entitlement
    BY <1>2, <2>1 DEF Assistance
  <2>3. after[n] \in {asks[n], moved}
    BY DEF AsksAfter
  <2> HIDE DEF after, moved
  <2> QED BY <2>1, <2>2, <2>3
<1>4. DOMAIN after = 1 .. Len(asks) /\ after = [n \in 1 .. Len(asks) |-> after[n]]
  BY <1>1 DEF AsksAfter
<1> HIDE DEF after
<1>5. after \in [1 .. Len(asks) -> Assistance]
  BY <1>1, <1>3, <1>4
<1>6. after \in Seq(Assistance) /\ Len(after) = Len(asks)
  BY <1>1, <1>4, <1>5, SeqDef, LenProperties
<1>7. DOMAIN after = DOMAIN asks
  BY <1>1, <1>4
<1> QED BY <1>3, <1>6, <1>7 DEF after

-----------------------------------------------------------------------------
(* Every action keeps the invariant.                                       *)

LEMMA AccessInitInv == AccessInit => AccessInv
<1> SUFFICES ASSUME AccessInit
             PROVE  AccessInv
  OBVIOUS
<1> USE DEF AccessInit
<1>1. /\ <<>> \in Seq(Choice) /\ <<>> \in Seq(Assistance) /\ Len(<<>>) = 0
      /\ DOMAIN <<>> = {}
  BY EmptySeq
<1>2. AccessTypeOK
  <2>1. cases \in [Cases -> [resident : Residents, active : BOOLEAN]]
    BY DEF Residents
  <2>2. boundTo \in [Residents -> Accounts \cup {Unset}] /\ links \in [Links -> Link \cup {NoLink}]
    OBVIOUS
  <2>3. moment \in 0 .. AccessTime /\ Len(asks) <= MaxAsks
    BY <1>1, AccessAssumption
  <2> QED BY <1>1, <2>1, <2>2, <2>3 DEF AccessTypeOK
<1>3. BindingOK
  BY AccessAssumption DEF BindingOK, Residents
<1>4. OneActiveCase
  BY DEF OneActiveCase
<1>5. RowsOK(entitled) /\ OwnedBy(entitled, cases, boundTo) /\ NamesOK
  BY <1>1 DEF RowsOK, OwnedBy, NamesOK, HandoffsOK
<1> QED BY <1>2, <1>3, <1>4, <1>5 DEF AccessInv

\* A step that leaves people, cases, rows and what was answered as they are.
LEMMA SmallStep ==
  ASSUME AccessInv, AccessTypeOK', UNCHANGED <<boundTo, cases, entitled, handoffs, choices>>,
         \A n \in DOMAIN asks' : AskOK(asks'[n], entitled)
  PROVE  AccessInv'
<1>1. BindingOK' /\ OneActiveCase'
  BY DEF AccessInv, BindingOK, OneActiveCase
<1>2. RowsOK(entitled') /\ OwnedBy(entitled', cases', boundTo')
  BY DEF AccessInv
<1>3. NamesOK'
  BY DEF AccessInv, NamesOK
<1> QED BY <1>1, <1>2, <1>3 DEF AccessInv

LEMMA TimeGoesOnStep == ASSUME AccessInv, TimeGoesOn PROVE AccessInv'
<1>1. AccessTypeOK'
  BY AccessAssumption DEF AccessInv, AccessTypeOK, TimeGoesOn
<1> QED BY <1>1, SmallStep DEF TimeGoesOn, AccessInv, NamesOK

LEMMA CreateLinkStep ==
  ASSUME AccessInv, NEW a \in Accounts, NEW c \in Cases, NEW l \in Links, CreateLink(a, c, l)
  PROVE  AccessInv'
<1>1. /\ moment \in 0 .. AccessTime /\ links \in [Links -> Link \cup {NoLink}]
      /\ cases[c].resident \in Residents
  BY DEF AccessInv, AccessTypeOK
<1>2. [state |-> "open", case |-> c, source |-> cases[c].resident, by |-> a,
       expires |-> moment + LinkTicks] \in Link
  BY <1>1, Deadlines DEF Link
<1>3. ASSUME NEW m \in Links, links[m].state = "open"
      PROVE  [links[m] EXCEPT !.state = "deleted"] \in Link
  BY <1>1, <1>3 DEF Link, NoLink
<1>4. links' \in [Links -> Link \cup {NoLink}]
  <2> DEFINE made == [state |-> "open", case |-> c, source |-> cases[c].resident, by |-> a,
                      expires |-> moment + LinkTicks]
             ended(m) == [links[m] EXCEPT !.state = "deleted"]
  <2>1. links' = [m \in Links |->
                    IF m = l THEN made
                    ELSE IF links[m].state = "open" /\ links[m].by = a THEN ended(m) ELSE links[m]]
    BY DEF CreateLink
  <2>2. made \in Link /\ \A m \in Links : links[m].state = "open" => ended(m) \in Link
    BY <1>2, <1>3
  <2> HIDE DEF made, ended
  <2> QED BY <1>1, <2>1, <2>2
<1>5. AccessTypeOK'
  BY <1>4 DEF AccessInv, AccessTypeOK, CreateLink
<1> QED BY <1>5, SmallStep DEF CreateLink, AccessInv, NamesOK

LEMMA VerifyStep ==
  ASSUME AccessInv, NEW q \in Visit, NEW p \in Proofs, NEW life \in 1 .. ProofTicks,
         Verify(q, p, life)
  PROVE  AccessInv'
<1>1. moment + life \in Instants
  BY Deadlines DEF AccessInv, AccessTypeOK
<1>2. [visit |-> q, proof |-> p, expires |-> moment + life] \in Verification
  BY <1>1 DEF Verification
<1>3. AccessTypeOK'
  BY <1>2 DEF AccessInv, AccessTypeOK, Verify
<1> QED BY <1>3, SmallStep DEF Verify, AccessInv, NamesOK

LEMMA LoseVerifiedStep ==
  ASSUME AccessInv, NEW v \in verified, LoseVerified(v)
  PROVE  AccessInv'
<1>1. AccessTypeOK'
  BY DEF AccessInv, AccessTypeOK, LoseVerified
<1> QED BY <1>1, SmallStep DEF LoseVerified, AccessInv, NamesOK

LEMMA AskStep ==
  ASSUME AccessInv, NEW a \in Accounts, NEW c \in Cases, NEW l \in Links \cup {Unset}, Ask(a, c, l)
  PROVE  AccessInv'
<1>1. PICK ask : ask = [account |-> a, case |-> c, link |-> l, resident |-> cases[c].resident,
                        state |-> "open", reviewer |-> Unset, expires |-> moment + AskTicks,
                        entitlement |-> Unset]
  BY Zenon
<1>2. ask \in Assistance /\ ask.state = "open"
  <2>1. cases[c].resident \in Residents /\ moment + AskTicks \in Instants
    BY Deadlines DEF AccessInv, AccessTypeOK
  <2> QED BY <1>1, <2>1 DEF Assistance
<1>3. asks' = Append(asks, ask) /\ Len(asks) < MaxAsks /\ asks \in Seq(Assistance)
  BY <1>1 DEF Ask, AccessInv, AccessTypeOK
<1>4. /\ asks' \in Seq(Assistance) /\ Len(asks') = Len(asks) + 1 /\ Len(asks) \in Nat
      /\ DOMAIN asks' = DOMAIN asks \cup {Len(asks) + 1}
      /\ \A n \in DOMAIN asks : asks'[n] = asks[n]
      /\ asks'[Len(asks) + 1] = ask
  BY <1>2, <1>3, RowAppended
<1>5. AccessTypeOK'
  <2>1. Len(asks') <= MaxAsks
    BY <1>3, <1>4, AccessAssumption
  <2> QED BY <1>4, <2>1 DEF AccessInv, AccessTypeOK, Ask
<1>6. \A n \in DOMAIN asks' : AskOK(asks'[n], entitled)
  BY <1>2, <1>4 DEF AccessInv, NamesOK, AskOK
<1> QED BY <1>5, <1>6, SmallStep DEF Ask

LEMMA DecideStep ==
  ASSUME AccessInv, NEW n \in DOMAIN asks, NEW s \in Reviewers, TakeOver(n, s) \/ Deny(n, s)
  PROVE  AccessInv'
<1>1. PICK state \in {"owned", "denied"} : asks' = Decided(asks, n, s, state, Unset)
  BY DEF TakeOver, Deny
<1>2. asks \in Seq(Assistance) /\ Len(asks) <= MaxAsks
  BY DEF AccessInv, AccessTypeOK
<1>3. /\ asks' \in Seq(Assistance) /\ Len(asks') = Len(asks) /\ DOMAIN asks' = DOMAIN asks
      /\ asks'[n].state = state /\ \A m \in DOMAIN asks \ {n} : asks'[m] = asks[m]
  BY <1>1, <1>2, DecidedForm
<1>4. AccessTypeOK'
  BY <1>2, <1>3 DEF AccessInv, AccessTypeOK, TakeOver, Deny
<1>5. \A m \in DOMAIN asks' : AskOK(asks'[m], entitled)
  BY <1>3 DEF AccessInv, NamesOK, AskOK
<1> QED BY <1>4, <1>5, SmallStep DEF TakeOver, Deny

LEMMA ExpireAskStep ==
  ASSUME AccessInv, NEW n \in DOMAIN asks, ExpireAsk(n)
  PROVE  AccessInv'
<1> DEFINE ask == [asks[n] EXCEPT !.state = "expired"]
<1>1. asks \in Seq(Assistance) /\ Len(asks) <= MaxAsks
  BY DEF AccessInv, AccessTypeOK
<1>2. asks[n] \in Assistance
  BY <1>1, ElementOfSeq, LenProperties
<1>3. ask \in Assistance /\ ask.state = "expired"
  BY <1>2 DEF Assistance
<1>4. asks' = [asks EXCEPT ![n] = ask]
  BY DEF ExpireAsk
<1> HIDE DEF ask
<1>5. /\ asks' \in Seq(Assistance) /\ Len(asks') = Len(asks) /\ DOMAIN asks' = DOMAIN asks
      /\ asks'[n] = ask /\ \A m \in DOMAIN asks \ {n} : asks'[m] = asks[m]
  BY <1>1, <1>3, <1>4, Replaced
<1>6. AccessTypeOK'
  BY <1>1, <1>5 DEF AccessInv, AccessTypeOK, ExpireAsk
<1>7. \A m \in DOMAIN asks' : AskOK(asks'[m], entitled)
  BY <1>3, <1>5 DEF AccessInv, NamesOK, AskOK
<1> QED BY <1>6, <1>7, SmallStep DEF ExpireAsk

-----------------------------------------------------------------------------
(* Choices and receipts.                                                   *)

LEMMA OfferForm ==
  ASSUME AccessTypeOK, NEW rows, RowsOK(rows), NEW k \in DOMAIN rows, NEW d \in Cases,
         NEW table \in [Cases -> [resident : Residents, active : BOOLEAN]]
  PROVE  /\ Offer(rows, table, k, d) \in Choice
         /\ ChoiceOK(Offer(rows, table, k, d), rows)
         /\ Offer(rows, table, k, d).attachedId = k
<1> DEFINE a == rows[k].account
           ids == ExistingIds(rows, table, a, d)
           ends == {moment + ChoiceTicks, rows[k].expires} \cup {rows[j].expires : j \in ids}
           id == IF ids = {} THEN Unset ELSE CHOOSE j \in ids : TRUE
<1>1. /\ k \in EntitlementKeys /\ rows[k] \in Entitlement
      /\ rows[k].account = k.account /\ rows[k].case = k.case
      /\ \A j \in DOMAIN rows : /\ j \in EntitlementKeys /\ rows[j] \in Entitlement
                                /\ rows[j].account = j.account /\ rows[j].case = j.case
  BY DEF RowsOK
<1>2. /\ a \in Accounts /\ rows[k].case \in Cases /\ rows[k].resident \in Residents
      /\ rows[k].expires \in Instants
      /\ \A j \in DOMAIN rows : rows[j].expires \in Instants
  BY <1>1 DEF Entitlement
<1>3. /\ ids \subseteq DOMAIN rows
      /\ \A j \in ids : rows[j].account = a /\ rows[j].case = d
  BY DEF ExistingIds
<1> HIDE DEF ids
<1>4. Least(ends) \in Instants
  <2>1. ends \in SUBSET Instants /\ ends # {}
    BY <1>2, <1>3, Deadlines DEF AccessTypeOK
  <2>2. ends \in SUBSET Nat
    BY <2>1, Deadlines DEF AccessTypeOK
  <2> HIDE DEF ends
  <2>3. Least(ends) \in ends
    BY <2>1, <2>2, LeastForm
  <2> QED BY <2>1, <2>3
<1>5. /\ id \in EntitlementKeys \cup {Unset}
      /\ id # Unset => id \in DOMAIN rows /\ id.account = a /\ id.case = d
  BY <1>1, <1>3
<1> HIDE DEF ends, id
<1>6. Offer(rows, table, k, d) =
        [account |-> a, attached |-> rows[k].case, existing |-> d, attachedId |-> k,
         existingId |-> id, resident |-> rows[k].resident, chosen |-> Unset,
         expires |-> Least(ends)]
  BY DEF Offer, ends, id, ids
<1> HIDE DEF a
<1>7. Offer(rows, table, k, d) \in Choice
  BY <1>1, <1>2, <1>4, <1>5, <1>6 DEF Choice
<1>8. /\ Offer(rows, table, k, d).attachedId = k /\ Offer(rows, table, k, d).existingId = id
      /\ Offer(rows, table, k, d).account = a /\ Offer(rows, table, k, d).existing = d
      /\ Offer(rows, table, k, d).attached = rows[k].case
  BY <1>6
<1>9. ChoiceOK(Offer(rows, table, k, d), rows)
  BY <1>1, <1>5, <1>8 DEF ChoiceOK, Names, a
<1> QED BY <1>7, <1>8, <1>9

LEMMA HandedForm ==
  ASSUME NEW table, NEW offers, NEW rows, HandoffsOK(table, offers, rows),
         DOMAIN table \subseteq Visit, \A p \in DOMAIN table : table[p] \in Handoff,
         NEW q \in Visit, NEW k \in EntitlementKeys, Names(k, rows, q.account, q.case),
         NEW expires \in Instants, NEW n \in Nat,
         n # 0 => n \in DOMAIN offers /\ offers[n].attachedId = k,
         NEW new, new = With(table, q, [entitlement |-> k, expires |-> expires, choice |-> n])
  PROVE  /\ HandoffsOK(new, offers, rows) /\ DOMAIN new \subseteq Visit
         /\ \A p \in DOMAIN new : new[p] \in Handoff
<1> DEFINE row == [entitlement |-> k, expires |-> expires, choice |-> n]
<1>1. row \in Handoff /\ row.entitlement = k /\ row.choice = n
  BY DEF Handoff
<1> HIDE DEF row
<1>2. /\ DOMAIN new = DOMAIN table \cup {q} /\ new[q] = row
      /\ \A p \in DOMAIN table \ {q} : new[p] = table[p]
  BY DEF With, row
<1> QED BY <1>1, <1>2 DEF HandoffsOK

\* Receipts name choices by number: new choices change nothing of them.
LEMMA ChoicesGrow ==
  ASSUME NEW table, NEW offers, NEW rows, HandoffsOK(table, offers, rows),
         NEW more, DOMAIN offers \subseteq DOMAIN more, \A n \in DOMAIN offers : more[n] = offers[n]
  PROVE  HandoffsOK(table, more, rows)
BY DEF HandoffsOK

LEMMA RevokeStep ==
  ASSUME AccessInv, NEW k \in DOMAIN entitled, Revoke(k)
  PROVE  AccessInv'
<1>1. /\ AccessTypeOK /\ RowsOK(entitled) /\ OwnedBy(entitled, cases, boundTo)
      /\ UNCHANGED <<moment, boundTo, cases, claims, links, verified, handoffs, choices, asks>>
  BY DEF AccessInv, Revoke
<1>2. /\ entitled[k] \in Entitlement /\ entitled[k].account = k.account /\ entitled[k].case = k.case
  BY <1>1 DEF RowsOK
<1> DEFINE row == [entitled[k] EXCEPT !.state = "revoked"]
<1>3. row \in Entitlement /\ row.account = k.account /\ row.case = k.case /\ row.state = "revoked"
  BY <1>2 DEF Entitlement
<1>4. entitled' = [entitled EXCEPT ![k] = row]
  BY DEF Revoke
<1> HIDE DEF row
<1>5. /\ DOMAIN entitled' = DOMAIN entitled /\ entitled'[k] = row
      /\ \A j \in DOMAIN entitled \ {k} : entitled'[j] = entitled[j]
  BY <1>4
<1>6. RowsOK(entitled')
  BY <1>1, <1>3, <1>5 DEF RowsOK
<1>7. OwnedBy(entitled', cases', boundTo')
  BY <1>1, <1>3, <1>5 DEF OwnedBy
<1>8. AccessTypeOK'
  BY <1>1, <1>6 DEF AccessTypeOK, RowsOK
<1>9. NamesOK'
  BY <1>1, <1>5, NamesGrow DEF AccessInv, NamesOK
<1> QED BY <1>1, <1>6, <1>7, <1>8, <1>9 DEF AccessInv, BindingOK, OneActiveCase

\* A choice changes which of two cases is active and nothing else of the cases.
LEMMA ChosenCases ==
  ASSUME AccessTypeOK, NEW n \in DOMAIN choices, NEW c \in Cases, Choose(n, c)
  PROVE  /\ cases' \in [Cases -> [resident : Residents, active : BOOLEAN]]
         /\ \A d \in Cases : cases'[d].resident = cases[d].resident
         /\ \A d \in Cases \ {choices[n].attached, choices[n].existing} : cases'[d] = cases[d]
         /\ \A d \in {choices[n].attached, choices[n].existing} : cases'[d].active => d = c
<1> DEFINE a == choices[n].attached
           e == choices[n].existing
           CaseRow == [resident : Residents, active : BOOLEAN]
           shut == [cases[e] EXCEPT !.active = FALSE]
           off == [cases EXCEPT ![e] = shut]
           lit == [off[c] EXCEPT !.active = TRUE]
<1>1. choices \in Seq(Choice) /\ cases \in [Cases -> CaseRow]
  BY DEF AccessTypeOK
<1>2. choices[n] \in Choice
  BY <1>1, ElementOfSeq, LenProperties
<1>3. a \in Cases /\ e \in Cases /\ c \in {a, e} /\ ~cases[a].active
  BY <1>2 DEF Choose, Choice
<1>4. shut \in CaseRow /\ shut.resident = cases[e].resident /\ ~shut.active
  BY <1>1, <1>3, Zenon
<1>5. cases' = [off EXCEPT ![c] = lit]
  BY DEF Choose, Activated
<1> HIDE DEF a, e, shut
<1>6. /\ off \in [Cases -> CaseRow] /\ off[e] = shut /\ \A d \in Cases \ {e} : off[d] = cases[d]
  BY <1>1, <1>3, <1>4
<1> HIDE DEF off
<1>7. lit \in CaseRow /\ lit.resident = off[c].resident
  BY <1>6, Zenon
<1> HIDE DEF lit, CaseRow
<1>8. /\ cases' \in [Cases -> CaseRow] /\ cases'[c] = lit
      /\ \A d \in Cases \ {c} : cases'[d] = off[d]
  BY <1>5, <1>6, <1>7
<1>9. \A d \in Cases : cases'[d].resident = cases[d].resident
  BY <1>4, <1>6, <1>7, <1>8
<1>10. /\ \A d \in Cases \ {a, e} : cases'[d] = cases[d]
       /\ \A d \in {a, e} : cases'[d].active => d = c
  BY <1>3, <1>4, <1>6, <1>8
<1> QED BY <1>8, <1>9, <1>10 DEF a, e, CaseRow

LEMMA ChooseStep ==
  ASSUME AccessInv, NEW n \in DOMAIN choices, NEW c \in Cases, Choose(n, c)
  PROVE  AccessInv'
<1> DEFINE choice == choices[n]
           attached == choice.attached
           existing == choice.existing
<1>1. /\ AccessTypeOK /\ RowsOK(entitled) /\ OwnedBy(entitled, cases, boundTo)
      /\ choices \in Seq(Choice) /\ BindingOK /\ OneActiveCase /\ NamesOK
      /\ cases \in [Cases -> [resident : Residents, active : BOOLEAN]]
      /\ UNCHANGED <<moment, boundTo, entitled, claims, links, verified, handoffs, asks>>
  BY DEF AccessInv, AccessTypeOK, Choose
<1>2. choice \in Choice
  BY <1>1, ElementOfSeq, LenProperties
<1>3. /\ attached \in Cases /\ existing \in Cases /\ c \in {attached, existing}
      /\ ~cases[attached].active /\ cases[existing].active
      /\ cases[attached].resident = cases[existing].resident
  BY <1>2 DEF Choose, Choice
<1>4. cases' \in [Cases -> [resident : Residents, active : BOOLEAN]]
  BY <1>1, ChosenCases
<1>5. /\ \A d \in Cases : cases'[d].resident = cases[d].resident
      /\ \A d \in Cases \ {attached, existing} : cases'[d] = cases[d]
      /\ \A d \in {attached, existing} : cases'[d].active => d = c
  BY <1>1, ChosenCases
<1> DEFINE chosen == [choice EXCEPT !.chosen = c]
<1>6. /\ chosen \in Choice /\ chosen.attachedId = choice.attachedId
      /\ chosen.existingId = choice.existingId /\ chosen.account = choice.account
      /\ chosen.attached = choice.attached /\ chosen.existing = choice.existing
  BY <1>2 DEF Choice
<1>7. choices' = [choices EXCEPT ![n] = chosen]
  BY DEF Choose
<1> HIDE DEF chosen
<1>8. /\ choices' \in Seq(Choice) /\ DOMAIN choices' = DOMAIN choices /\ choices'[n] = chosen
      /\ \A m \in DOMAIN choices \ {n} : choices'[m] = choices[m]
  BY <1>1, <1>6, <1>7, Replaced
<1>9. AccessTypeOK'
  BY <1>1, <1>4, <1>8 DEF AccessTypeOK
<1>10. BindingOK'
  BY <1>1, <1>5 DEF BindingOK
<1>11. OneActiveCase'
  BY <1>1, <1>3, <1>5 DEF OneActiveCase
<1>12. OwnedBy(entitled', cases', boundTo')
  <2>1. \A k \in DOMAIN entitled : entitled[k].case \in Cases
    BY <1>1 DEF RowsOK, Entitlement
  <2> QED BY <1>1, <1>5, <2>1 DEF OwnedBy
<1>13. NamesOK'
  <2>1. HandoffsOK(handoffs', choices', entitled')
    BY <1>1, <1>6, <1>8 DEF NamesOK, HandoffsOK
  <2>2. \A m \in DOMAIN choices' : ChoiceOK(choices'[m], entitled')
    BY <1>1, <1>6, <1>8 DEF NamesOK, ChoiceOK
  <2> QED BY <1>1, <2>1, <2>2 DEF NamesOK
<1> QED BY <1>1, <1>9, <1>10, <1>11, <1>12, <1>13 DEF AccessInv

LEMMA OfferAgainStep ==
  ASSUME AccessInv, NEW q \in DOMAIN handoffs, OfferAgain(q)
  PROVE  AccessInv'
<1> DEFINE k == handoffs[q].entitlement
           old == choices[handoffs[q].choice]
           made == Offer(entitled, cases, k, old.existing)
<1>1. /\ AccessTypeOK /\ RowsOK(entitled) /\ choices \in Seq(Choice) /\ NamesOK
      /\ cases \in [Cases -> [resident : Residents, active : BOOLEAN]]
      /\ UNCHANGED <<moment, boundTo, cases, entitled, claims, links, verified, asks>>
      /\ q \in Visit /\ handoffs[q] \in Handoff
  BY DEF AccessInv, AccessTypeOK, OfferAgain
<1>2. /\ k \in DOMAIN entitled /\ Names(k, entitled, q.account, q.case)
      /\ handoffs[q].choice \in DOMAIN choices
  BY <1>1 DEF NamesOK, HandoffsOK, Names, OfferAgain
<1>3. old.existing \in Cases
  <2>1. old \in Choice
    BY <1>1, <1>2, ElementOfSeq, LenProperties
  <2> QED BY <2>1 DEF Choice
<1>4. made \in Choice /\ ChoiceOK(made, entitled) /\ made.attachedId = k
  BY <1>1, <1>2, <1>3, OfferForm
<1>5. choices' = Append(choices, made)
  BY DEF OfferAgain
<1> HIDE DEF made, old
<1>6. /\ choices' \in Seq(Choice) /\ DOMAIN choices' = DOMAIN choices \cup {Len(choices) + 1}
      /\ Len(choices) \in Nat /\ choices'[Len(choices) + 1] = made
      /\ \A m \in DOMAIN choices : choices'[m] = choices[m]
  BY <1>1, <1>4, <1>5, RowAppended
<1> DEFINE row == [handoffs[q] EXCEPT !.choice = Len(choices) + 1]
<1>7. row \in Handoff /\ row.entitlement = k /\ row.choice = Len(choices) + 1
  BY <1>1, <1>6 DEF Handoff
<1>8. handoffs' = [handoffs EXCEPT ![q] = row]
  BY DEF OfferAgain
<1> HIDE DEF row, k
<1>9. /\ DOMAIN handoffs' = DOMAIN handoffs /\ handoffs'[q] = row
      /\ \A p \in DOMAIN handoffs \ {q} : handoffs'[p] = handoffs[p]
  BY <1>8
<1>10. HandoffsOK(handoffs', choices', entitled')
  <2>1. HandoffsOK(handoffs, choices', entitled)
    BY <1>1, <1>6, ChoicesGrow DEF NamesOK
  <2> QED BY <1>1, <1>2, <1>4, <1>6, <1>7, <1>9, <2>1, Zenon DEF HandoffsOK
<1>11. \A m \in DOMAIN choices' : ChoiceOK(choices'[m], entitled')
  BY <1>1, <1>4, <1>6 DEF NamesOK
<1>12. AccessTypeOK'
  BY <1>1, <1>6, <1>7, <1>9 DEF AccessTypeOK
<1> QED BY <1>1, <1>10, <1>11, <1>12 DEF AccessInv, BindingOK, OneActiveCase, NamesOK

-----------------------------------------------------------------------------
(* New rows: claims, renewals, moves and approvals.                        *)

LEMMA HeldForm ==
  ASSUME NEW a \in Accounts, NEW c \in Cases, NEW r \in Residents, NEW expires \in Instants
  PROVE  /\ HeldRow(a, c, r, expires) \in Entitlement
         /\ HeldRow(a, c, r, expires).account = a /\ HeldRow(a, c, r, expires).case = c
         /\ HeldRow(a, c, r, expires).resident = r
BY DEF HeldRow, Entitlement

LEMMA VerifiedForm ==
  ASSUME AccessTypeOK, NEW v \in verified
  PROVE  /\ v.visit \in Visit /\ v.visit.account \in Accounts /\ v.visit.case \in Cases
         /\ v.visit.link \in Links \cup {Unset} /\ v.visit.method \in Methods
         /\ v.proof \in Proofs /\ v.expires \in Instants
         /\ cases[v.visit.case].resident \in Residents
<1>1. v \in Verification /\ cases \in [Cases -> [resident : Residents, active : BOOLEAN]]
  BY DEF AccessTypeOK
<1>2. v.visit \in Visit /\ v.proof \in Proofs /\ v.expires \in Instants
  BY <1>1 DEF Verification
<1>3. /\ v.visit.account \in Accounts /\ v.visit.case \in Cases
      /\ v.visit.link \in Links \cup {Unset} /\ v.visit.method \in Methods
  BY <1>2 DEF Visit
<1> QED BY <1>1, <1>2, <1>3

LEMMA BoundKeyForm ==
  ASSUME AccessTypeOK, NEW v \in verified
  PROVE  /\ BoundKey(v) \in EntitlementKeys
         /\ BoundKey(v).account = v.visit.account /\ BoundKey(v).case = v.visit.case
BY VerifiedForm DEF BoundKey, EntitlementKeys

\* The resident of a case is given to an account that has none.
LEMMA BindKeeps ==
  ASSUME AccessInv, NEW c \in Cases, NEW a \in Accounts, MayBind(a, cases[c].resident),
         boundTo' = [boundTo EXCEPT ![cases[c].resident] = a], UNCHANGED cases
  PROVE  /\ boundTo' \in [Residents -> Accounts \cup {Unset}]
         /\ BindingOK' /\ OneActiveCase' /\ boundTo'[cases[c].resident] = a
         /\ OwnedBy(entitled, cases, boundTo')
         /\ \A s \in Residents : boundTo[s] # Unset => boundTo'[s] = boundTo[s]
<1> DEFINE r == cases[c].resident
<1>1. /\ boundTo \in [Residents -> Accounts \cup {Unset}] /\ BindingOK /\ OneActiveCase
      /\ cases \in [Cases -> [resident : Residents, active : BOOLEAN]]
      /\ r \in Residents /\ OwnedBy(entitled, cases, boundTo) /\ RowsOK(entitled)
      /\ r \in Accounts => boundTo[r] # Unset
  BY DEF AccessInv, AccessTypeOK, BindingOK
<1>2. boundTo[r] = a \/ (boundTo[r] = Unset /\ \A s \in Residents : boundTo[s] # a)
  BY DEF MayBind
<1>3. /\ boundTo' \in [Residents -> Accounts \cup {Unset}] /\ boundTo'[r] = a
      /\ \A s \in Residents \ {r} : boundTo'[s] = boundTo[s]
      /\ a # Unset
  BY <1>1, AccessAssumption
<1> HIDE DEF r
<1>4. \A s \in Residents : boundTo[s] # Unset => boundTo'[s] = boundTo[s]
  BY <1>2, <1>3
<1>5. BindingOK'
  <2>1. ASSUME NEW s \in Residents, NEW t \in Residents, boundTo'[s] # Unset,
               boundTo'[s] = boundTo'[t]
        PROVE  s = t
    BY <1>1, <1>2, <1>3, <2>1 DEF BindingOK
  <2>2. ASSUME NEW b \in Accounts
        PROVE  boundTo'[b] \in {b, Unset}
    <3>1. b \in Residents /\ boundTo[b] \in {b, Unset}
      BY <1>1 DEF Residents, BindingOK
    <3> QED BY <1>1, <1>2, <1>3, <1>4, <3>1
  <2>3. ASSUME NEW d \in Cases, cases[d].resident \in Accounts
        PROVE  boundTo'[cases[d].resident] # Unset
    <3>1. boundTo[cases[d].resident] # Unset /\ cases[d].resident \in Residents
      BY <1>1, <2>3 DEF BindingOK
    <3> QED BY <1>4, <3>1
  <2> QED BY <2>1, <2>2, <2>3 DEF BindingOK
<1>6. OneActiveCase'
  BY <1>1 DEF OneActiveCase
<1>7. OwnedBy(entitled, cases, boundTo')
  <2>1. SUFFICES ASSUME NEW k \in DOMAIN entitled, entitled[k].state = "active"
                 PROVE  /\ entitled[k].resident = cases[entitled[k].case].resident
                        /\ entitled[k].account = boundTo'[cases[entitled[k].case].resident]
    BY DEF OwnedBy
  <2>2. /\ entitled[k].resident = cases[entitled[k].case].resident
        /\ entitled[k].account = boundTo[cases[entitled[k].case].resident]
    BY <1>1, <2>1 DEF OwnedBy
  <2>3. entitled[k].case \in Cases /\ entitled[k].account \in Accounts
    BY <1>1 DEF RowsOK, Entitlement
  <2>4. cases[entitled[k].case].resident \in Residents
    BY <1>1, <2>3
  <2> QED BY <1>4, <2>2, <2>3, <2>4, AccessAssumption
<1> QED BY <1>3, <1>4, <1>5, <1>6, <1>7 DEF r

LEMMA FinalizeClaimStep ==
  ASSUME AccessInv, NEW v \in verified, FinalizeClaim(v)
  PROVE  AccessInv'
<1> DEFINE q == v.visit
           r == cases[q.case].resident
           k == [kind |-> "claim", account |-> q.account, case |-> q.case, via |-> q.method,
                 proof |-> v.proof]
           row == HeldRow(q.account, q.case, r, v.expires)
<1>1. /\ AccessTypeOK /\ RowsOK(entitled) /\ NamesOK
      /\ UNCHANGED <<moment, cases, links, choices, asks>>
  BY DEF AccessInv, FinalizeClaim
<1>2. /\ q \in Visit /\ q.account \in Accounts /\ q.case \in Cases /\ q.method \in Methods
      /\ v.proof \in Proofs /\ v.expires \in Instants /\ r \in Residents
  BY <1>1, VerifiedForm
<1>3. /\ boundTo' \in [Residents -> Accounts \cup {Unset}]
      /\ BindingOK' /\ OneActiveCase' /\ boundTo'[r] = q.account
      /\ OwnedBy(entitled, cases, boundTo')
  <2>1. /\ MayBind(q.account, r) /\ boundTo' = [boundTo EXCEPT ![r] = q.account]
        /\ UNCHANGED cases
    BY DEF FinalizeClaim
  <2> QED BY <1>2, <2>1, BindKeeps, Zenon
<1>4. k \in EntitlementKeys /\ k.account = q.account /\ k.case = q.case
  BY <1>2 DEF EntitlementKeys
<1>5. /\ row \in Entitlement /\ row.account = k.account /\ row.case = k.case
      /\ row.case = q.case /\ row.account = q.account /\ row.resident = r
  BY <1>2, <1>4, HeldForm
<1>6. /\ entitled' = Minted(entitled, k, row) /\ handoffs' = Handed(q, k, v.expires, 0)
      /\ claims' = claims \cup {v.proof} /\ verified' = verified \ {v}
  BY DEF FinalizeClaim
<1> HIDE DEF k, row
<1>7. /\ RowsOK(entitled') /\ DOMAIN entitled' = DOMAIN entitled \cup {k}
  BY <1>1, <1>4, <1>5, <1>6, MintedRows, Zenon
<1>8. OwnedBy(entitled', cases', boundTo')
  <2>1. OwnedBy(Minted(entitled, k, row), cases, boundTo')
    BY <1>1, <1>3, <1>4, <1>5, MintedOwned
  <2> QED BY <1>1, <1>6, <2>1
<1>9. /\ HandoffsOK(handoffs', choices, entitled') /\ DOMAIN handoffs' \subseteq Visit
      /\ \A p \in DOMAIN handoffs' : handoffs'[p] \in Handoff
  <2>1. HandoffsOK(handoffs, choices, entitled')
    BY <1>1, <1>7, NamesGrow DEF NamesOK
  <2>2. Names(k, entitled', q.account, q.case)
    BY <1>4, <1>7 DEF Names
  <2>3. DOMAIN handoffs \subseteq Visit /\ \A p \in DOMAIN handoffs : handoffs[p] \in Handoff
    BY <1>1 DEF AccessTypeOK
  <2>4. handoffs' = With(handoffs, q, [entitlement |-> k, expires |-> v.expires, choice |-> 0])
    BY <1>6 DEF Handed
  <2> QED BY <1>2, <1>4, <2>1, <2>2, <2>3, <2>4, HandedForm
<1>10. AccessTypeOK'
  BY <1>1, <1>2, <1>3, <1>6, <1>7, <1>9 DEF AccessTypeOK, RowsOK
<1>11. NamesOK'
  BY <1>1, <1>7, <1>9, NamesGrow DEF NamesOK
<1> QED BY <1>3, <1>7, <1>8, <1>10, <1>11 DEF AccessInv

LEMMA FinalizeDirectStep ==
  ASSUME AccessInv, NEW v \in verified, FinalizeDirect(v)
  PROVE  AccessInv'
<1> DEFINE q == v.visit
           r == cases[q.case].resident
           k == BoundKey(v)
           row == HeldRow(q.account, q.case, r, v.expires)
<1>1. /\ AccessTypeOK /\ RowsOK(entitled) /\ NamesOK /\ BindingOK /\ OneActiveCase
      /\ OwnedBy(entitled, cases, boundTo) /\ boundTo[r] = q.account
      /\ UNCHANGED <<moment, boundTo, cases, claims, links, choices, asks>>
  BY DEF AccessInv, FinalizeDirect, MayRenew, Owner
<1>2. /\ q \in Visit /\ q.account \in Accounts /\ q.case \in Cases
      /\ v.expires \in Instants /\ r \in Residents
  BY <1>1, VerifiedForm
<1>3. k \in EntitlementKeys /\ k.account = q.account /\ k.case = q.case
  BY <1>1, BoundKeyForm
<1>4. /\ row \in Entitlement /\ row.account = k.account /\ row.case = k.case
      /\ row.case = q.case /\ row.account = q.account /\ row.resident = r
  BY <1>2, <1>3, HeldForm
<1>5. /\ entitled' = Minted(entitled, k, row) /\ verified' = verified \ {v}
      /\ handoffs' = Handed(q, k, Minted(entitled, k, row)[k].expires, 0)
  BY DEF FinalizeDirect
<1> HIDE DEF k, row
<1>6. /\ RowsOK(entitled') /\ DOMAIN entitled' = DOMAIN entitled \cup {k}
  BY <1>1, <1>3, <1>4, <1>5, MintedRows, Zenon
<1>7. OwnedBy(entitled', cases', boundTo')
  <2>1. OwnedBy(Minted(entitled, k, row), cases, boundTo)
    BY <1>1, <1>3, <1>4, MintedOwned
  <2> QED BY <1>1, <1>5, <2>1
<1>8. /\ HandoffsOK(handoffs', choices, entitled') /\ DOMAIN handoffs' \subseteq Visit
      /\ \A p \in DOMAIN handoffs' : handoffs'[p] \in Handoff
  <2>1. HandoffsOK(handoffs, choices, entitled')
    BY <1>1, <1>6, NamesGrow DEF NamesOK
  <2>2. Names(k, entitled', q.account, q.case)
    BY <1>3, <1>6 DEF Names
  <2>3. DOMAIN handoffs \subseteq Visit /\ \A p \in DOMAIN handoffs : handoffs[p] \in Handoff
    BY <1>1 DEF AccessTypeOK
  <2>4. entitled'[k].expires \in Instants
    BY <1>6 DEF RowsOK, Entitlement
  <2>5. handoffs' = With(handoffs, q,
                         [entitlement |-> k, expires |-> entitled'[k].expires, choice |-> 0])
    BY <1>5 DEF Handed
  <2> QED BY <1>2, <1>3, <2>1, <2>2, <2>3, <2>4, <2>5, HandedForm
<1>9. AccessTypeOK'
  BY <1>1, <1>5, <1>6, <1>8 DEF AccessTypeOK, RowsOK
<1>10. NamesOK'
  BY <1>1, <1>6, <1>8, NamesGrow DEF NamesOK
<1> QED BY <1>1, <1>6, <1>7, <1>9, <1>10 DEF AccessInv, BindingOK, OneActiveCase

LEMMA FinalizeLinkStep ==
  ASSUME AccessInv, NEW v \in verified, FinalizeLink(v)
  PROVE  AccessInv'
<1> DEFINE q == v.visit
           a == q.account
           c == q.case
           l == q.link
           k == BoundKey(v)
           before == RowsAfter(l, a)
           row == HeldRow(a, c, cases'[c].resident, v.expires)
<1>1. /\ AccessTypeOK /\ RowsOK(entitled) /\ NamesOK /\ choices \in Seq(Choice)
      /\ UNCHANGED <<moment, claims>>
  BY ZenonT(30) DEF AccessInv, AccessTypeOK, FinalizeLink
<1>2. /\ q \in Visit /\ a \in Accounts /\ c \in Cases /\ l \in Links /\ v.expires \in Instants
  BY <1>1, VerifiedForm, ZenonT(30) DEF FinalizeLink
<1>3. MayFollow(l, c) /\ Follow(l, a)
  BY Zenon DEF FinalizeLink
<1>4. /\ boundTo' \in [Residents -> Accounts \cup {Unset}]
      /\ cases' \in [Cases -> [resident : Residents, active : BOOLEAN]]
      /\ links' \in [Links -> Link \cup {NoLink}]
      /\ BindingOK' /\ OneActiveCase' /\ cases' = CasesAfter(l, a)
      /\ boundTo'[cases'[c].resident] = a
      /\ OwnedBy(before, cases', boundTo')
  BY <1>2, <1>3, FollowKeeps
<1>5. RowsOK(before) /\ DOMAIN before = DOMAIN entitled
  BY <1>1, RowsAfterForm
<1>6. k \in EntitlementKeys /\ k.account = a /\ k.case = c
  BY <1>1, BoundKeyForm
<1>7. /\ row \in Entitlement /\ row.account = k.account /\ row.case = k.case
      /\ row.case = c /\ row.account = a /\ row.resident = cases'[c].resident
  <2>1. cases'[c].resident \in Residents
    BY <1>2, <1>4
  <2> QED BY <1>2, <1>6, <2>1, HeldForm
<1>8. /\ entitled' = Minted(before, k, row) /\ asks' = AsksAfter(l, a)
      /\ verified' = verified \ {v}
  BY <1>4, ZenonT(30) DEF FinalizeLink
<1>9. \/ /\ handoffs' = Handed(q, k, Minted(before, k, row)[k].expires, 0) /\ choices' = choices
      \/ \E d \in Cases :
           /\ choices' = Append(choices, Offer(Minted(before, k, row), cases', k, d))
           /\ handoffs' = Handed(q, k, Minted(before, k, row)[k].expires, Len(choices) + 1)
  BY <1>4, Zenon DEF FinalizeLink, OtherActive
<1> HIDE DEF k, row, before
<1>10. RowsOK(entitled') /\ DOMAIN entitled' = DOMAIN entitled \cup {k}
  <2>1. RowsOK(Minted(before, k, row)) /\ DOMAIN Minted(before, k, row) = DOMAIN before \cup {k}
    BY <1>5, <1>6, <1>7, MintedRows, Zenon
  <2> QED BY <1>5, <1>8, <2>1
<1>11. OwnedBy(entitled', cases', boundTo')
  BY <1>4, <1>5, <1>6, <1>7, <1>8, MintedOwned
<1>12. \E n \in Nat :
         /\ handoffs' = With(handoffs, q,
                             [entitlement |-> k, expires |-> entitled'[k].expires, choice |-> n])
         /\ n # 0 => n \in DOMAIN choices' /\ choices'[n].attachedId = k
         /\ choices' \in Seq(Choice) /\ DOMAIN choices \subseteq DOMAIN choices'
         /\ \A m \in DOMAIN choices : choices'[m] = choices[m]
         /\ \A m \in DOMAIN choices' \ DOMAIN choices : ChoiceOK(choices'[m], entitled')
  <2>1. CASE /\ handoffs' = Handed(q, k, entitled'[k].expires, 0)
             /\ choices' = choices
    BY <1>1, <2>1 DEF Handed
  <2>2. ASSUME NEW d \in Cases,
               choices' = Append(choices, Offer(entitled', cases', k, d)),
               handoffs' = Handed(q, k, entitled'[k].expires, Len(choices) + 1)
        PROVE  <1>12!:
    <3> DEFINE made == Offer(entitled', cases', k, d)
    <3>1. made \in Choice /\ ChoiceOK(made, entitled') /\ made.attachedId = k
      <4>1. PICK rows, table : rows = entitled' /\ table = cases'
        OBVIOUS
      <4>2. /\ RowsOK(rows) /\ k \in DOMAIN rows
            /\ table \in [Cases -> [resident : Residents, active : BOOLEAN]]
        BY <1>4, <1>10, <4>1
      <4>3. /\ Offer(rows, table, k, d) \in Choice /\ ChoiceOK(Offer(rows, table, k, d), rows)
            /\ Offer(rows, table, k, d).attachedId = k
        BY <1>1, <4>2, OfferForm
      <4> QED BY <4>1, <4>3
    <3> HIDE DEF made
    <3>2. choices' = Append(choices, made)
      BY <2>2 DEF made
    <3>3. /\ choices' \in Seq(Choice) /\ DOMAIN choices' = DOMAIN choices \cup {Len(choices) + 1}
          /\ Len(choices) \in Nat /\ choices'[Len(choices) + 1] = made
          /\ \A m \in DOMAIN choices : choices'[m] = choices[m]
      BY <1>1, <3>1, <3>2, RowAppended
    <3>4. handoffs' = With(handoffs, q, [entitlement |-> k, expires |-> entitled'[k].expires,
                                         choice |-> Len(choices) + 1])
      BY <2>2 DEF Handed
    <3>5. Len(choices) + 1 \in Nat
      BY <3>3
    <3> QED BY <3>1, <3>3, <3>4, <3>5
  <2> QED BY <1>8, <1>9, <2>1, <2>2
<1>13. /\ HandoffsOK(handoffs', choices', entitled') /\ DOMAIN handoffs' \subseteq Visit
       /\ \A p \in DOMAIN handoffs' : handoffs'[p] \in Handoff
  <2>1. HandoffsOK(handoffs, choices', entitled')
    BY <1>1, <1>10, <1>12, NamesGrow, ChoicesGrow, Zenon DEF NamesOK
  <2>2. Names(k, entitled', q.account, q.case)
    BY <1>6, <1>10 DEF Names
  <2>3. DOMAIN handoffs \subseteq Visit /\ \A p \in DOMAIN handoffs : handoffs[p] \in Handoff
    BY <1>1 DEF AccessTypeOK
  <2>4. entitled'[k].expires \in Instants
    BY <1>10 DEF RowsOK, Entitlement
  <2> QED BY <1>2, <1>6, <1>12, <2>1, <2>2, <2>3, <2>4, HandedForm
<1>14. /\ asks' \in Seq(Assistance) /\ Len(asks') <= MaxAsks
       /\ \A n \in DOMAIN asks' : AskOK(asks'[n], entitled')
  <2>1. /\ asks' \in Seq(Assistance) /\ Len(asks') = Len(asks) /\ DOMAIN asks' = DOMAIN asks
        /\ \A n \in DOMAIN asks : /\ asks'[n].state = asks[n].state
                                  /\ asks'[n].account = asks[n].account
                                  /\ asks'[n].case = asks[n].case
                                  /\ asks'[n].entitlement = asks[n].entitlement
    BY <1>1, <1>2, <1>8, AsksAfterForm
  <2>2. Len(asks) <= MaxAsks /\ \A n \in DOMAIN asks : AskOK(asks[n], entitled')
    BY <1>1, <1>10, NamesGrow, Zenon DEF NamesOK, AccessTypeOK
  <2> QED BY <2>1, <2>2 DEF AskOK
<1>15. AccessTypeOK'
  BY <1>1, <1>4, <1>8, <1>10, <1>12, <1>13, <1>14 DEF AccessTypeOK, RowsOK
<1>16. NamesOK'
  <2>1. \A m \in DOMAIN choices : ChoiceOK(choices[m], entitled')
    BY <1>1, <1>10, NamesGrow DEF NamesOK
  <2>2. \A m \in DOMAIN choices' : ChoiceOK(choices'[m], entitled')
    BY <1>12, <2>1
  <2> QED BY <1>13, <1>14, <2>2 DEF NamesOK
<1> QED BY <1>4, <1>10, <1>11, <1>15, <1>16 DEF AccessInv

LEMMA ApproveStep ==
  ASSUME AccessInv, NEW n \in DOMAIN asks, NEW s \in Reviewers, Approve(n, s)
  PROVE  AccessInv'
<1> DEFINE ask == asks[n]
           a == ask.account
           c == ask.case
           k == [kind |-> "staff", account |-> a, case |-> c, via |-> n, proof |-> Unset]
           end == Least({ask.expires, moment + ProofTicks})
           row == HeldRow(a, c, cases'[c].resident, end)
<1>1. /\ AccessTypeOK /\ RowsOK(entitled) /\ NamesOK /\ asks \in Seq(Assistance)
      /\ Len(asks) <= MaxAsks /\ moment \in 0 .. AccessTime
      /\ OwnedBy(entitled, cases, boundTo)
      /\ cases \in [Cases -> [resident : Residents, active : BOOLEAN]]
      /\ links \in [Links -> Link \cup {NoLink}]
      /\ UNCHANGED <<moment, claims, verified, handoffs, choices>>
  BY DEF AccessInv, AccessTypeOK, Approve
<1>2. ask \in Assistance /\ n \in 1 .. Len(asks) /\ Len(asks) \in Nat
  BY <1>1, ElementOfSeq, LenProperties
<1>3. /\ a \in Accounts /\ c \in Cases /\ ask.link \in Links \cup {Unset} /\ ask.expires \in Instants
  BY <1>2 DEF Assistance
<1>4. end \in Instants
  <2>1. ask.expires \in Instants /\ moment + ProofTicks \in Instants /\ Instants \subseteq Nat
    BY <1>1, <1>3, Deadlines
  <2> DEFINE ends == {ask.expires, moment + ProofTicks}
  <2>2. ends \in SUBSET Nat /\ ends # {} /\ ends \subseteq Instants
    BY <2>1, Zenon
  <2> HIDE DEF ends
  <2>3. Least(ends) \in ends
    BY <2>2, LeastForm
  <2> QED BY <2>2, <2>3 DEF ends
<1>5. k \in EntitlementKeys /\ k.account = a /\ k.case = c
  <2>1. n \in 1 .. MaxAsks
    BY <1>1, <1>2, AccessAssumption
  <2> QED BY <1>3, <2>1 DEF EntitlementKeys
<1>6. \E before, told :
         /\ RowsOK(before) /\ DOMAIN before = DOMAIN entitled
         /\ OwnedBy(before, cases', boundTo')
         /\ entitled' = Minted(before, k, row)
         /\ asks' = Decided(told, n, s, "approved", k)
         /\ told \in Seq(Assistance) /\ Len(told) = Len(asks) /\ DOMAIN told = DOMAIN asks
         /\ \A m \in DOMAIN asks : /\ told[m].state = asks[m].state
                                   /\ told[m].account = asks[m].account
                                   /\ told[m].case = asks[m].case
                                   /\ told[m].entitlement = asks[m].entitlement
  <2>1. CASE ask.link # Unset
    <3>1. /\ MayFollow(ask.link, c) /\ Follow(ask.link, a) /\ ask.link \in Links
      BY <1>3, <2>1 DEF Approve
    <3>2. cases' = CasesAfter(ask.link, a) /\ OwnedBy(RowsAfter(ask.link, a), cases', boundTo')
      BY <1>3, <3>1, FollowKeeps
    <3>3. RowsOK(RowsAfter(ask.link, a)) /\ DOMAIN RowsAfter(ask.link, a) = DOMAIN entitled
      BY <1>1, RowsAfterForm
    <3>4. /\ entitled' = Minted(RowsAfter(ask.link, a), k, row)
          /\ asks' = Decided(AsksAfter(ask.link, a), n, s, "approved", k)
      BY <2>1, <3>2 DEF Approve
    <3>5. /\ AsksAfter(ask.link, a) \in Seq(Assistance)
          /\ Len(AsksAfter(ask.link, a)) = Len(asks)
          /\ DOMAIN AsksAfter(ask.link, a) = DOMAIN asks
          /\ \A m \in DOMAIN asks :
               /\ AsksAfter(ask.link, a)[m].state = asks[m].state
               /\ AsksAfter(ask.link, a)[m].account = asks[m].account
               /\ AsksAfter(ask.link, a)[m].case = asks[m].case
               /\ AsksAfter(ask.link, a)[m].entitlement = asks[m].entitlement
      BY <1>1, <1>3, <3>1, AsksAfterForm
    <3> HIDE DEF k, row, end, a, c, ask
    <3> QED BY <3>2, <3>3, <3>4, <3>5
  <2>2. CASE ask.link = Unset
    <3>1. /\ MayBind(a, cases[c].resident) /\ boundTo' = [boundTo EXCEPT ![cases[c].resident] = a]
          /\ cases' = cases
          /\ entitled' = Minted(entitled, k, row)
          /\ asks' = Decided(asks, n, s, "approved", k)
      BY <2>2 DEF Approve
    <3>2. OwnedBy(entitled, cases, boundTo')
      BY <1>3, <3>1, BindKeeps, Zenon
    <3> HIDE DEF k, row, end, a, c, ask
    <3> QED BY <1>1, <3>1, <3>2, Zenon
  <2> QED BY <2>1, <2>2, Zenon
<1>7. /\ boundTo' \in [Residents -> Accounts \cup {Unset}]
      /\ cases' \in [Cases -> [resident : Residents, active : BOOLEAN]]
      /\ links' \in [Links -> Link \cup {NoLink}]
      /\ BindingOK' /\ OneActiveCase' /\ boundTo'[cases'[c].resident] = a
  <2>1. CASE ask.link # Unset
    <3>1. /\ MayFollow(ask.link, c) /\ Follow(ask.link, a) /\ ask.link \in Links
      BY <1>3, <2>1 DEF Approve
    <3> QED BY <1>3, <3>1, FollowKeeps
  <2>2. CASE ask.link = Unset
    <3>1. /\ MayBind(a, cases[c].resident) /\ boundTo' = [boundTo EXCEPT ![cases[c].resident] = a]
          /\ cases' = cases /\ links' = links
      BY <2>2 DEF Approve
    <3> QED BY <1>1, <1>3, <3>1, BindKeeps, Zenon
  <2> QED BY <2>1, <2>2
<1>8. /\ row \in Entitlement /\ row.account = k.account /\ row.case = k.case
      /\ row.case = c /\ row.account = a /\ row.resident = cases'[c].resident
  <2>1. cases'[c].resident \in Residents
    BY <1>3, <1>7
  <2> HIDE DEF end
  <2> QED BY <1>3, <1>4, <1>5, <2>1, HeldForm
<1> HIDE DEF k, row, end, a, c, ask
<1>9. /\ RowsOK(entitled') /\ DOMAIN entitled' = DOMAIN entitled \cup {k}
      /\ OwnedBy(entitled', cases', boundTo')
  <2>1. PICK before :
          /\ RowsOK(before) /\ DOMAIN before = DOMAIN entitled
          /\ OwnedBy(before, cases', boundTo')
          /\ entitled' = Minted(before, k, row)
    BY <1>6
  <2>2. RowsOK(Minted(before, k, row)) /\ DOMAIN Minted(before, k, row) = DOMAIN before \cup {k}
    BY <1>5, <1>8, <2>1, MintedRows, Zenon
  <2>3. OwnedBy(Minted(before, k, row), cases', boundTo')
    BY <1>5, <1>7, <1>8, <2>1, MintedOwned
  <2> QED BY <2>1, <2>2, <2>3
<1>10. /\ asks' \in Seq(Assistance) /\ Len(asks') <= MaxAsks
       /\ \A m \in DOMAIN asks' : AskOK(asks'[m], entitled')
  <2>1. PICK told :
          /\ asks' = Decided(told, n, s, "approved", k)
          /\ told \in Seq(Assistance) /\ Len(told) = Len(asks) /\ DOMAIN told = DOMAIN asks
          /\ \A m \in DOMAIN asks : /\ told[m].state = asks[m].state
                                    /\ told[m].account = asks[m].account
                                    /\ told[m].case = asks[m].case
                                    /\ told[m].entitlement = asks[m].entitlement
    BY <1>6, Zenon
  <2>2. /\ asks' \in Seq(Assistance) /\ Len(asks') = Len(asks) /\ DOMAIN asks' = DOMAIN asks
        /\ asks'[n].account = a /\ asks'[n].case = c /\ asks'[n].entitlement = k
        /\ \A m \in DOMAIN asks \ {n} : asks'[m] = told[m]
    <3>1. n \in DOMAIN told /\ k \in EntitlementKeys \cup {Unset} /\ told \in Seq(Assistance)
      BY <1>5, <2>1
    <3>2. \A state \in {"owned", "approved", "denied"} :
            /\ Decided(told, n, s, state, k) \in Seq(Assistance)
            /\ Len(Decided(told, n, s, state, k)) = Len(told)
            /\ DOMAIN Decided(told, n, s, state, k) = DOMAIN told
            /\ Decided(told, n, s, state, k)[n].account = told[n].account
            /\ Decided(told, n, s, state, k)[n].case = told[n].case
            /\ Decided(told, n, s, state, k)[n].entitlement = k
            /\ \A m \in DOMAIN told \ {n} : Decided(told, n, s, state, k)[m] = told[m]
      BY <3>1, DecidedForm
    <3>3. /\ asks' \in Seq(Assistance) /\ Len(asks') = Len(told) /\ DOMAIN asks' = DOMAIN told
          /\ asks'[n].account = told[n].account /\ asks'[n].case = told[n].case
          /\ asks'[n].entitlement = k
          /\ \A m \in DOMAIN told \ {n} : asks'[m] = told[m]
      BY <2>1, <3>2
    <3> QED BY <2>1, <3>3 DEF a, c, ask
  <2>3. \A m \in DOMAIN asks : AskOK(asks[m], entitled')
    BY <1>1, <1>9, NamesGrow DEF NamesOK
  <2>4. AskOK(asks'[n], entitled')
    BY <1>5, <1>9, <2>2 DEF AskOK, Names
  <2>5. \A m \in DOMAIN asks \ {n} : AskOK(asks'[m], entitled')
    BY <2>1, <2>2, <2>3 DEF AskOK
  <2> QED BY <1>1, <2>2, <2>4, <2>5
<1>11. AccessTypeOK'
  BY <1>1, <1>7, <1>9, <1>10 DEF AccessTypeOK, RowsOK
<1>12. NamesOK'
  BY <1>1, <1>9, <1>10, NamesGrow, Zenon DEF NamesOK
<1> QED BY <1>7, <1>9, <1>11, <1>12 DEF AccessInv

LEMMA AccessStep == AccessInv /\ [AccessNext]_accessVars => AccessInv'
<1> SUFFICES ASSUME AccessInv, [AccessNext]_accessVars
             PROVE  AccessInv'
  OBVIOUS
<1>1. CASE TimeGoesOn
  BY <1>1, TimeGoesOnStep
<1>2. CASE \E a \in Accounts, c \in Cases, l \in Links : CreateLink(a, c, l)
  BY <1>2, CreateLinkStep
<1>3. CASE \E q \in Visit, p \in Proofs, life \in 1 .. ProofTicks : Verify(q, p, life)
  BY <1>3, VerifyStep
<1>4. ASSUME NEW v \in verified,
             LoseVerified(v) \/ FinalizeClaim(v) \/ FinalizeDirect(v) \/ FinalizeLink(v)
      PROVE  AccessInv'
  BY <1>4, LoseVerifiedStep, FinalizeClaimStep, FinalizeDirectStep, FinalizeLinkStep
<1>5. CASE \E q \in DOMAIN handoffs : OfferAgain(q)
  BY <1>5, OfferAgainStep
<1>6. CASE \E n \in DOMAIN choices, c \in Cases : Choose(n, c)
  BY <1>6, ChooseStep
<1>7. CASE \E k \in DOMAIN entitled : Revoke(k)
  BY <1>7, RevokeStep
<1>8. CASE \E a \in Accounts, c \in Cases, l \in Links \cup {Unset} : Ask(a, c, l)
  BY <1>8, AskStep
<1>9. CASE \E n \in DOMAIN asks : ExpireAsk(n)
  BY <1>9, ExpireAskStep
<1>10. ASSUME NEW n \in DOMAIN asks, NEW s \in Reviewers,
              TakeOver(n, s) \/ Deny(n, s) \/ Approve(n, s)
       PROVE  AccessInv'
  BY <1>10, DecideStep, ApproveStep
<1>11. CASE UNCHANGED accessVars
  <2>1. AccessTypeOK' /\ UNCHANGED <<boundTo, cases, entitled, handoffs, choices, asks>>
    BY <1>11 DEF AccessInv, AccessTypeOK, accessVars
  <2> QED BY <2>1, SmallStep DEF AccessInv, NamesOK
<1> QED BY <1>1, <1>2, <1>3, <1>4, <1>5, <1>6, <1>7, <1>8, <1>9, <1>10, <1>11 DEF AccessNext

\* The inductive invariant holds in every reachable state.
THEOREM AccessAlwaysOK == AccessSpec => []AccessInv
<1>1. AccessInit => AccessInv
  BY AccessInitInv
<1>2. AccessInv /\ [AccessNext]_accessVars => AccessInv'
  BY AccessStep
<1> QED BY <1>1, <1>2, PTL DEF AccessSpec

\* Who may open a case: an entitlement that stands is of the account its case belongs to, a
\* resident has one active case, and receipts, choices and approvals name entitlements of
\* their own (civya_bound_case_transfer, civya_service_claim_verified_production_case and
\* the functions that mint entitlements).
THEOREM AccessIsOwned == AccessSpec => []AccessInvariant
<1>1. AccessInv => AccessInvariant
  <2> SUFFICES ASSUME AccessInv
               PROVE  AccessInvariant
    OBVIOUS
  <2>1. OwnersOnly
    BY DEF AccessInv, OwnedBy, OwnersOnly, Owner
  <2>2. \A k \in DOMAIN entitled : entitled[k].account = k.account /\ entitled[k].case = k.case
    BY DEF AccessInv, RowsOK
  <2>3. NamesItsOwn
    <3>1. HandoffsOK(handoffs, choices, entitled)
      BY DEF AccessInv, NamesOK
    <3>2. \A n \in DOMAIN choices : ChoiceOK(choices[n], entitled)
      BY DEF AccessInv, NamesOK
    <3>3. \A n \in DOMAIN asks : AskOK(asks[n], entitled)
      BY DEF AccessInv, NamesOK
    <3>4. \A q \in DOMAIN handoffs :
            /\ handoffs[q].entitlement \in DOMAIN entitled
            /\ entitled[handoffs[q].entitlement].account = q.account
            /\ entitled[handoffs[q].entitlement].case = q.case
            /\ handoffs[q].choice # 0 =>
                 choices[handoffs[q].choice].attachedId = handoffs[q].entitlement
      BY <2>2, <3>1 DEF HandoffsOK, Names
    <3>5. \A n \in DOMAIN choices :
            /\ entitled[choices[n].attachedId].case = choices[n].attached
            /\ choices[n].existingId # Unset =>
                 /\ entitled[choices[n].existingId].account = choices[n].account
                 /\ entitled[choices[n].existingId].case = choices[n].existing
      BY <2>2, <3>2 DEF ChoiceOK, Names
    <3>6. \A n \in DOMAIN asks : asks[n].state = "approved" =>
            /\ asks[n].entitlement \in DOMAIN entitled
            /\ entitled[asks[n].entitlement].account = asks[n].account
      BY <2>2, <3>3 DEF AskOK, Names
    <3> QED BY <3>4, <3>5, <3>6 DEF NamesItsOwn
  <2> QED BY <2>1, <2>3 DEF AccessInv, AccessInvariant
<1> QED BY <1>1, AccessAlwaysOK, PTL

-----------------------------------------------------------------------------
(* What a step leaves as it is.                                            *)

BindingsKept == \A r \in Residents : boundTo[r] # Unset => boundTo'[r] = boundTo[r]

MovedByLink ==
  \A c \in Cases : cases'[c].resident # cases[c].resident =>
    \E l \in Links : /\ links[l].state = "open" /\ links'[l].state = "used"
                     /\ links[l].case = c /\ CanRead(links[l].by, c)

ReceiptsKept ==
  \A q \in DOMAIN handoffs :
    q \in DOMAIN handoffs' /\ handoffs'[q].entitlement = handoffs[q].entitlement

ChoicesKept == \A n \in DOMAIN choices : choices[n].chosen # Unset => choices'[n] = choices[n]

LEMMA FollowMoves ==
  ASSUME AccessInv, NEW l \in Links, NEW a \in Accounts, NEW c \in Cases,
         MayFollow(l, c), Follow(l, a)
  PROVE  BindingsKept /\ MovedByLink
<1>1. /\ \A r \in Residents : boundTo[r] # Unset => boundTo'[r] = boundTo[r]
      /\ \A d \in Cases : cases'[d].resident # cases[d].resident => d = c
  BY FollowKeeps
<1>2. /\ links[l].state = "open" /\ links[l].case = c /\ CanRead(links[l].by, c)
  BY DEF MayFollow
<1>3. links'[l].state = "used"
  <2>1. links \in [Links -> Link \cup {NoLink}]
    BY DEF AccessInv, AccessTypeOK
  <2>2. links[l] \in Link
    BY <1>2, <2>1 DEF NoLink
  <2>3. links' = [links EXCEPT ![l] = [links[l] EXCEPT !.state = "used"]]
    BY DEF Follow
  <2>4. [links[l] EXCEPT !.state = "used"].state = "used"
    BY <2>2 DEF Link
  <2> QED BY <2>1, <2>3, <2>4
<1> QED BY <1>1, <1>2, <1>3 DEF BindingsKept, MovedByLink

LEMMA HandedKeeps ==
  ASSUME NEW q, q \notin DOMAIN handoffs, NEW k, NEW expires, NEW n,
         handoffs' = Handed(q, k, expires, n)
  PROVE  ReceiptsKept
BY DEF Handed, With, ReceiptsKept

LEMMA AppendKeeps ==
  ASSUME AccessInv, NEW choice, choices' = Append(choices, choice)
  PROVE  ChoicesKept
<1>1. choices \in Seq(Choice) /\ DOMAIN choices = 1 .. Len(choices)
  BY LenProperties DEF AccessInv, AccessTypeOK
<1>2. \A n \in 1 .. Len(choices) : Append(choices, choice)[n] = choices[n]
  BY <1>1
<1> QED BY <1>1, <1>2 DEF ChoicesKept

LEMMA NothingMoves ==
  ASSUME UNCHANGED <<boundTo, cases, handoffs, choices>>
  PROVE  BindingsKept /\ MovedByLink /\ ReceiptsKept /\ ChoicesKept
BY DEF BindingsKept, MovedByLink, ReceiptsKept, ChoicesKept

LEMMA FinalizeKeeps ==
  ASSUME AccessInv, NEW v \in verified, FinalizeClaim(v) \/ FinalizeDirect(v) \/ FinalizeLink(v)
  PROVE  BindingsKept /\ MovedByLink /\ ReceiptsKept /\ ChoicesKept
<1> DEFINE q == v.visit
<1>1. /\ AccessTypeOK /\ q.account \in Accounts /\ q.case \in Cases
      /\ q.link \in Links \cup {Unset}
  BY VerifiedForm DEF AccessInv
<1>2. ReceiptsKept
  <2>1. q \notin DOMAIN handoffs
    BY Zenon DEF FinalizeClaim, FinalizeDirect, FinalizeLink, NewHandoff
  <2>2. CASE FinalizeClaim(v)
    BY <2>1, <2>2, HandedKeeps DEF FinalizeClaim
  <2>3. CASE FinalizeDirect(v)
    BY <2>1, <2>3, HandedKeeps DEF FinalizeDirect
  <2>4. CASE FinalizeLink(v)
    BY <2>1, <2>4, HandedKeeps, Zenon DEF FinalizeLink
  <2> QED BY <2>2, <2>3, <2>4
<1>3. CASE FinalizeClaim(v)
  <2>1. /\ MayBind(q.account, cases[q.case].resident) /\ UNCHANGED <<cases, choices>>
        /\ boundTo' = [boundTo EXCEPT ![cases[q.case].resident] = q.account]
    BY <1>3 DEF FinalizeClaim
  <2>2. BindingsKept
    BY <1>1, <2>1, BindKeeps, Zenon DEF BindingsKept
  <2> QED BY <1>2, <2>1, <2>2 DEF MovedByLink, ChoicesKept
<1>4. CASE FinalizeDirect(v)
  BY <1>2, <1>4 DEF FinalizeDirect, BindingsKept, MovedByLink, ChoicesKept
<1>5. CASE FinalizeLink(v)
  <2>1. MayFollow(q.link, q.case) /\ Follow(q.link, q.account) /\ q.link \in Links
    BY <1>1, <1>5, Zenon DEF FinalizeLink
  <2>2. BindingsKept /\ MovedByLink
    BY <1>1, <2>1, FollowMoves
  <2>3. ChoicesKept
    <3>1. UNCHANGED choices \/ \E choice : choices' = Append(choices, choice)
      BY <1>5, Zenon DEF FinalizeLink
    <3> QED BY <3>1, AppendKeeps DEF ChoicesKept
  <2> QED BY <1>2, <2>2, <2>3
<1> QED BY <1>3, <1>4, <1>5

LEMMA ChooseKeeps ==
  ASSUME AccessInv, NEW n \in DOMAIN choices, NEW c \in Cases, Choose(n, c)
  PROVE  BindingsKept /\ MovedByLink /\ ReceiptsKept /\ ChoicesKept
<1>1. \A d \in Cases : cases'[d].resident = cases[d].resident
  BY ChosenCases DEF AccessInv
<1>2. choices[n].chosen = Unset /\ choices' = [choices EXCEPT ![n].chosen = c]
  BY DEF Choose
<1>3. ChoicesKept
  BY <1>2 DEF ChoicesKept
<1> QED BY <1>1, <1>3 DEF Choose, BindingsKept, MovedByLink, ReceiptsKept

LEMMA OfferAgainKeeps ==
  ASSUME AccessInv, NEW q \in DOMAIN handoffs, OfferAgain(q)
  PROVE  BindingsKept /\ MovedByLink /\ ReceiptsKept /\ ChoicesKept
<1>1. ChoicesKept
  BY AppendKeeps DEF OfferAgain
<1>2. ReceiptsKept
  <2>1. /\ handoffs[q] \in Handoff
        /\ handoffs' = [handoffs EXCEPT ![q] = [handoffs[q] EXCEPT !.choice = Len(choices) + 1]]
    BY DEF AccessInv, AccessTypeOK, OfferAgain
  <2> DEFINE row == [handoffs[q] EXCEPT !.choice = Len(choices) + 1]
  <2>2. row.entitlement = handoffs[q].entitlement
    BY <2>1 DEF Handoff
  <2> HIDE DEF row
  <2>3. handoffs' = [handoffs EXCEPT ![q] = row]
    BY <2>1 DEF row
  <2> QED BY <2>2, <2>3 DEF ReceiptsKept
<1> QED BY <1>1, <1>2 DEF OfferAgain, BindingsKept, MovedByLink

LEMMA ApproveKeeps ==
  ASSUME AccessInv, NEW n \in DOMAIN asks, NEW s \in Reviewers, Approve(n, s)
  PROVE  BindingsKept /\ MovedByLink /\ ReceiptsKept /\ ChoicesKept
<1> DEFINE ask == asks[n]
<1>1. ask.account \in Accounts /\ ask.case \in Cases /\ ask.link \in Links \cup {Unset}
  <2>1. asks \in Seq(Assistance)
    BY DEF AccessInv, AccessTypeOK
  <2>2. ask \in Assistance
    BY <2>1, ElementOfSeq, LenProperties
  <2> QED BY <2>2 DEF Assistance
<1>2. BindingsKept /\ MovedByLink
  <2>1. CASE ask.link # Unset
    BY <1>1, <2>1, FollowMoves DEF Approve
  <2>2. CASE ask.link = Unset
    <3>1. /\ MayBind(ask.account, cases[ask.case].resident) /\ UNCHANGED cases
          /\ boundTo' = [boundTo EXCEPT ![cases[ask.case].resident] = ask.account]
      BY <2>2 DEF Approve
    <3>2. BindingsKept
      BY <1>1, <3>1, BindKeeps, Zenon DEF BindingsKept
    <3> QED BY <3>1, <3>2 DEF MovedByLink
  <2> QED BY <2>1, <2>2
<1> QED BY <1>2 DEF Approve, ReceiptsKept, ChoicesKept

\* A resident is never given to another account, a case moves only by a link that is spent
\* in the step and whose maker had access at that moment, and what was once answered is
\* answered the same for ever.
THEOREM OwnershipStays == AccessSpec => OwnershipIsKept
<1> DEFINE StepKeeps == BindingsKept /\ MovedByLink /\ ReceiptsKept /\ ChoicesKept
<1>1. ASSUME AccessInv, AccessNext
      PROVE  StepKeeps
  <2>1. ASSUME NEW v \in verified,
               LoseVerified(v) \/ FinalizeClaim(v) \/ FinalizeDirect(v) \/ FinalizeLink(v)
        PROVE  StepKeeps
    BY <1>1, <2>1, FinalizeKeeps, NothingMoves DEF LoseVerified
  <2>2. ASSUME NEW q \in DOMAIN handoffs, OfferAgain(q)
        PROVE  StepKeeps
    BY <1>1, <2>2, OfferAgainKeeps
  <2>3. ASSUME NEW n \in DOMAIN choices, NEW c \in Cases, Choose(n, c)
        PROVE  StepKeeps
    BY <1>1, <2>3, ChooseKeeps
  <2>4. ASSUME NEW n \in DOMAIN asks, NEW s \in Reviewers,
               TakeOver(n, s) \/ Deny(n, s) \/ Approve(n, s)
        PROVE  StepKeeps
    BY <1>1, <2>4, ApproveKeeps, NothingMoves DEF TakeOver, Deny
  <2>5. ASSUME \/ TimeGoesOn
               \/ \E a \in Accounts, c \in Cases, l \in Links : CreateLink(a, c, l)
               \/ \E q \in Visit, p \in Proofs, life \in 1 .. ProofTicks : Verify(q, p, life)
               \/ \E k \in DOMAIN entitled : Revoke(k)
               \/ \E a \in Accounts, c \in Cases, l \in Links \cup {Unset} : Ask(a, c, l)
               \/ \E n \in DOMAIN asks : ExpireAsk(n)
        PROVE  StepKeeps
    <3>1. UNCHANGED <<boundTo, cases, handoffs, choices>>
      BY <2>5, Zenon DEF TimeGoesOn, CreateLink, Verify, Revoke, Ask, ExpireAsk
    <3> QED BY <3>1, NothingMoves
  <2> HIDE DEF StepKeeps
  <2> QED BY <1>1, <2>1, <2>2, <2>3, <2>4, <2>5 DEF AccessNext
<1>2. AccessInv /\ [AccessNext]_accessVars => [StepKeeps]_accessVars
  BY <1>1
<1> QED BY <1>2, AccessAlwaysOK, PTL DEF AccessSpec, OwnershipIsKept, BindingsKept, MovedByLink,
                                         ReceiptsKept, ChoicesKept
=============================================================================
