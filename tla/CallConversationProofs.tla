----------------------- MODULE CallConversationProofs -----------------------
(***************************************************************************)
(* What holds of an attached call for any number of items, repeats, turns  *)
(* and recoveries: responses never collide, whatever holds the queue back  *)
(* will release it, effects follow their announcement, and answers match   *)
(* the latest speech.                                                      *)
(***************************************************************************)
EXTENDS CallConversation, SubsequencesProofs

-----------------------------------------------------------------------------
(* The inductive invariant, of the record of the call and what surrounds   *)
(* it: c is the record, l the lookups, w the wire.                         *)

IsDirect(t) == t.kind = "direct"
IsRecovery(t) == t.kind = "recovery"
\* Tasks that belong to an input of the caller.
Asked(t) == IsDirect(t) \/ IsRecovery(t)

\* What a task is by its kind.
Formed(t) ==
  /\ t.kind = "none" => t = NoTask
  /\ (t.stage = "none") = ~IsDirect(t)
  /\ t.effect # "none" => IsApproved(t)
  /\ Asked(t) => t.item \in Items

\* What belongs to inputs is asked for in their order, once each.
Before(t, u) == Asked(t) /\ Asked(u) => t.seq < u.seq

\* A task is not of an input that still waits in the chain, and a question is older.
Placed(t, c) ==
  Asked(t) =>
    /\ t.seq <= c.seq
    /\ \A n \in DOMAIN c.chain :
         t.seq # c.chain[n].seq /\ (IsDirect(t) => t.seq < c.chain[n].seq)

Fits(t, c, l) ==
  /\ Formed(t) /\ t.kind # "none"
  /\ IsDirect(t) => t.stage = "answer" /\ t.gen = c.gen
  /\ Placed(t, c) /\ Before(c.active, t)
  /\ \A u \in l : Before(u, t)

QueueSound(c, l) ==
  /\ \A n \in DOMAIN c.queue : Fits(c.queue[n], c, l)
  /\ \A m, n \in DOMAIN c.queue : m < n =>
       Before(c.queue[m], c.queue[n]) /\ ~(IsRecovery(c.queue[m]) /\ IsRecovery(c.queue[n]))

LookupsSound(c, l) ==
  /\ l \subseteq Task
  /\ \A t \in l : Formed(t) /\ t.stage = "lookup_pending" /\ Placed(t, c)

ActiveSound(c, l) ==
  /\ Formed(c.active) /\ Placed(c.active, c)
  /\ \A t \in l : t = c.active \/ Before(t, c.active)

IsAsking(turn) == turn.asking
ChainSound(c) ==
  /\ \A n \in DOMAIN c.chain : c.chain[n].seq <= c.seq /\ (n > 1 => ~IsAsking(c.chain[n]))
  /\ \A m, n \in DOMAIN c.chain : m < n => c.chain[m].seq < c.chain[n].seq

EffectsSound(c) ==
  /\ c.pending # NoTask => IsApproved(c.pending) /\ c.pending.effect # "none"
  /\ c.applying # NoTask => IsApproved(c.applying)

ClosedSound(c, l) == ~c.open => c.chain = <<>> /\ c.applying = NoTask /\ l = {}

\* Recoveries that may still turn out unintelligible, turns that may still be counted.
RecoveryQueued(c) == \E n \in DOMAIN c.queue : IsRecovery(c.queue[n])
Recovering(c) ==
  (IF IsRecovery(c.active) THEN 1 ELSE 0) + (IF RecoveryQueued(c) THEN 1 ELSE 0)
Waiting(c) == Len(c.chain) - (IF c.chain # <<>> /\ IsAsking(c.chain[1]) THEN 1 ELSE 0)
CountsSound(c) ==
  /\ c.unintelligible + Recovering(c) <= c.recoveries
  /\ c.turnCount + Waiting(c) + Recovering(c) <= c.seq

AnswerSound(c) == c.created.stage = "answer" => c.created.gen = c.gen

Sound(c, l) ==
  /\ c \in Call
  /\ QueueSound(c, l) /\ LookupsSound(c, l) /\ ActiveSound(c, l) /\ ChainSound(c)
  /\ EffectsSound(c) /\ ClosedSound(c, l) /\ CountsSound(c) /\ AnswerSound(c)

\* A task may join the queue.
Joins(t, c, l) ==
  /\ t \in Task /\ Fits(t, c, l)
  /\ \A n \in DOMAIN c.queue :
       Before(c.queue[n], t) /\ ~(IsRecovery(c.queue[n]) /\ IsRecovery(t))
  /\ IsRecovery(t) => /\ c.unintelligible + Recovering(c) + 1 <= c.recoveries
                      /\ c.turnCount + Waiting(c) + Recovering(c) + 1 <= c.seq

IsOpen(c) == c.open

Joined(c, t) == [c EXCEPT !.queue = Append(@, t)]

\* Who holds the latch: nobody; the active response, which is generated (g) or has
\* ended; the lookup of the active turn; an effect that is announced, or applied.
Speech(e) == e.type = "speech_started"
Ended(e) == e.type = "response_done"
Stopped(e) == e.type = "audio_stopped"
NoneEnds(w) == \A n \in DOMAIN w : ~Ended(w[n])
OneEnds(w) ==
  \E n \in DOMAIN w : Ended(w[n]) /\ \A m \in DOMAIN w : Ended(w[m]) => m = n

LatchFree(c, g, w) ==
  /\ ~c.inFlight /\ c.active = NoTask /\ c.pending = NoTask /\ c.applying = NoTask
  /\ g = NoTask /\ NoneEnds(w)
LatchOfResponse(c, g, w, l) ==
  /\ c.inFlight /\ c.active # NoTask /\ c.pending = NoTask /\ c.applying = NoTask
  /\ IF c.active.stage = "lookup_pending"
     THEN c.active \in l /\ g = NoTask /\ NoneEnds(w)
     ELSE \/ g = c.active /\ NoneEnds(w)
          \/ g = NoTask /\ OneEnds(w)
LatchOfEffect(c, g, w) ==
  /\ c.inFlight /\ c.active = NoTask /\ g = NoTask /\ NoneEnds(w)
  /\ (c.pending = NoTask) # (c.applying = NoTask)
LatchOf(c, g, w, l) == LatchFree(c, g, w) \/ LatchOfResponse(c, g, w, l) \/ LatchOfEffect(c, g, w)

\* Seen from place n of the wire, the announcement of t is played to its end or cut
\* short, and what ends first was played (p) unless speech comes before.
Voiced(t, n, a, w, p) ==
  /\ t \in a \/ \E m \in DOMAIN w : m > n /\ (Speech(w[m]) \/ Stopped(w[m]))
  /\ \A k \in DOMAIN w : k > n /\ Stopped(w[k]) =>
       t \in p \/ \E m \in DOMAIN w : n < m /\ m < k /\ Speech(w[m])
AnnouncedOf(c, a, w, p) ==
  /\ c.pending # NoTask => Voiced(c.pending, 0, a, w, p)
  /\ c.active.effect # "none" =>
       \A n \in DOMAIN w : Ended(w[n]) /\ w[n].completed => Voiced(c.active, n, a, w, p)
  /\ c.applying # NoTask => c.applying \in p

\* While nothing is asked for, no question waits.
Unhurried(c) == ~c.inFlight => \A n \in DOMAIN c.queue : IsApproved(c.queue[n])

\* What a handler leaves, before what it sent reaches the provider.
Outcome(c, g, w, l, a, p) ==
  /\ Sound(c, l) /\ Unhurried(c) /\ AnnouncedOf(c, a, w, p)
  /\ IF c.created = NoTask \/ ~c.open
     THEN LatchOf(c, g, w, l)
     ELSE g = NoTask /\ LatchOf(c, c.created, w, l)

\* What a handler starts from, and may flush.
Ready(c, g, w, l, a, p) ==
  /\ Sound(c, l) /\ c.open /\ c.created = NoTask
  /\ LatchOf(c, g, w, l) /\ AnnouncedOf(c, a, w, p)

-----------------------------------------------------------------------------
(* The queue.                                                              *)

LEMMA TaskFacts ==
  /\ NoTask \in Task /\ Formed(NoTask) /\ NoTask.kind = "none" /\ NoTask.effect = "none"
  /\ NoTask.stage = "none"
BY ConversationAssumption
   DEF NoTask, Task, Formed, IsDirect, IsRecovery, Asked, Effects, Sequences, Generations, IsApproved

\* The queue without its first task, which becomes the active one.
LEMMA QueueAdvances ==
  ASSUME NEW c \in Call, NEW l, Sound(c, l), c.active = NoTask, c.queue # <<>>,
         NEW f \in Call, f.queue = Tail(c.queue), f.active = Head(c.queue),
         f.seq = c.seq, f.gen = c.gen, f.chain = c.chain
  PROVE  QueueSound(f, l) /\ ActiveSound(f, l) /\ f.active.kind # "none" /\ f.active.stage \in {"none", "answer"}
         /\ (f.active.stage = "answer" => f.active.gen = c.gen)
         /\ Recovering(f) <= Recovering(c) /\ Recovering(f) \in Nat
<1> DEFINE q == c.queue
<1>1. q \in Seq(Task)
  BY DEF Call
<1>2. /\ Len(q) \in Nat /\ DOMAIN f.queue = 1 .. Len(q) - 1 /\ DOMAIN q = 1 .. Len(q) /\ Len(q) >= 1
      /\ f.active = q[1]
      /\ \A n \in DOMAIN f.queue : f.queue[n] = q[n + 1] /\ n + 1 \in DOMAIN q
  BY <1>1, Tailed
<1>3. 1 \in DOMAIN q
  BY <1>2
<1>4. /\ \A n \in DOMAIN q : Fits(q[n], c, l)
      /\ \A m, n \in DOMAIN q : m < n => Before(q[m], q[n]) /\ ~(IsRecovery(q[m]) /\ IsRecovery(q[n]))
  BY DEF Sound, QueueSound
<1> HIDE DEF q
<1>5. /\ Formed(f.active) /\ f.active.kind # "none" /\ Placed(f.active, c)
      /\ IsDirect(f.active) => f.active.stage = "answer" /\ f.active.gen = c.gen
      /\ \A u \in l : Before(u, f.active)
  BY <1>2, <1>3, <1>4 DEF Fits
<1>6. \A t : Placed(t, c) = Placed(t, f)
  BY DEF Placed
<1>7. ActiveSound(f, l)
  BY <1>5, <1>6 DEF ActiveSound
<1>8. ASSUME NEW n \in DOMAIN f.queue
      PROVE  Fits(f.queue[n], f, l) /\ ~(IsRecovery(f.active) /\ IsRecovery(f.queue[n]))
  <2>1. f.queue[n] = q[n + 1] /\ n + 1 \in DOMAIN q /\ 1 < n + 1
    BY <1>2
  <2>2. Fits(q[n + 1], c, l) /\ Before(q[1], q[n + 1]) /\ ~(IsRecovery(q[1]) /\ IsRecovery(q[n + 1]))
    BY <1>3, <1>4, <2>1
  <2> QED BY <1>2, <1>6, <2>1, <2>2 DEF Fits
<1>9. QueueSound(f, l)
  <2>1. ASSUME NEW m \in DOMAIN f.queue, NEW n \in DOMAIN f.queue, m < n
        PROVE  Before(f.queue[m], f.queue[n]) /\ ~(IsRecovery(f.queue[m]) /\ IsRecovery(f.queue[n]))
    <3>1. /\ f.queue[m] = q[m + 1] /\ m + 1 \in DOMAIN q
          /\ f.queue[n] = q[n + 1] /\ n + 1 \in DOMAIN q /\ m + 1 < n + 1
      BY <1>2, <2>1
    <3> QED BY <1>4, <3>1
  <2> QED BY <1>8, <2>1 DEF QueueSound
<1>10. f.active.stage \in {"none", "answer"} /\ (f.active.stage = "answer" => f.active.gen = c.gen)
  BY <1>5 DEF Formed, IsDirect
<1>11. ~IsRecovery(c.active)
  BY TaskFacts DEF IsRecovery
<1>12. RecoveryQueued(f) => RecoveryQueued(c) /\ ~IsRecovery(f.active)
  BY <1>2, <1>8 DEF RecoveryQueued, q
<1>13. IsRecovery(f.active) => RecoveryQueued(c)
  BY <1>2, <1>3 DEF RecoveryQueued, q
<1>14. Recovering(f) <= Recovering(c) /\ Recovering(f) \in Nat
  BY <1>11, <1>12, <1>13 DEF Recovering
<1> QED BY <1>5, <1>7, <1>9, <1>10, <1>14
\* Turns fit as they did where the call keeps what they are placed by.
LEMMA TurnsStay ==
  ASSUME NEW c, NEW l, QueueSound(c, l), LookupsSound(c, l), ActiveSound(c, l), ChainSound(c),
         NEW f, f.active = c.active, f.seq = c.seq, f.gen = c.gen, f.chain = c.chain,
         f.queue = c.queue
  PROVE  QueueSound(f, l) /\ LookupsSound(f, l) /\ ActiveSound(f, l) /\ ChainSound(f)
<1>1. ASSUME NEW t PROVE Placed(t, f) <=> Placed(t, c)
  BY DEF Placed
<1>2. ASSUME NEW t PROVE Fits(t, f, l) <=> Fits(t, c, l)
  BY <1>1 DEF Fits
<1>3. QueueSound(f, l)
  <2>1. \A n \in DOMAIN f.queue : Fits(f.queue[n], f, l)
    BY <1>2 DEF QueueSound
  <2> QED BY <2>1 DEF QueueSound
<1>4. LookupsSound(f, l)
  BY <1>1 DEF LookupsSound
<1>5. ActiveSound(f, l)
  BY <1>1 DEF ActiveSound
<1>6. ChainSound(f)
  BY DEF ChainSound, IsAsking
<1> QED BY <1>3, <1>4, <1>5, <1>6

\* What is left of a queue, in its order, fits as it did.
LEMMA QueueSelects ==
  ASSUME NEW c \in Call, NEW l, QueueSound(c, l),
         NEW f \in Call, NEW ids \in SUBSET DOMAIN c.queue, Selects(f.queue, c.queue, ids),
         f.active = c.active, f.seq = c.seq, f.gen = c.gen, f.chain = c.chain
  PROVE  /\ QueueSound(f, l)
         /\ \A k \in DOMAIN f.queue : \E n \in ids : f.queue[k] = c.queue[n]
         /\ RecoveryQueued(f) => RecoveryQueued(c)
<1> DEFINE q == c.queue
<1>1. PICK at \in [DOMAIN f.queue -> ids] :
        /\ \A k \in DOMAIN f.queue : f.queue[k] = q[at[k]]
        /\ \A j, k \in DOMAIN f.queue : j < k => at[j] < at[k]
  BY DEF Selects
<1>2. /\ \A n \in DOMAIN q : Fits(q[n], c, l)
      /\ \A m, n \in DOMAIN q : m < n => Before(q[m], q[n]) /\ ~(IsRecovery(q[m]) /\ IsRecovery(q[n]))
  BY DEF QueueSound
<1>3. \A k \in DOMAIN f.queue : at[k] \in DOMAIN q /\ at[k] \in ids
  BY <1>1
<1>4. \A t : Fits(t, c, l) = Fits(t, f, l)
  BY DEF Fits, Placed
<1> HIDE DEF q
<1>5. QueueSound(f, l)
  <2>1. ASSUME NEW k \in DOMAIN f.queue
        PROVE  Fits(f.queue[k], f, l)
    BY <1>1, <1>2, <1>3, <1>4
  <2>2. ASSUME NEW j \in DOMAIN f.queue, NEW k \in DOMAIN f.queue, j < k
        PROVE  /\ Before(f.queue[j], f.queue[k])
               /\ ~(IsRecovery(f.queue[j]) /\ IsRecovery(f.queue[k]))
    <3>1. at[j] \in DOMAIN q /\ at[k] \in DOMAIN q /\ at[j] < at[k]
      BY <1>1, <1>3, <2>2
    <3>2. f.queue[j] = q[at[j]] /\ f.queue[k] = q[at[k]]
      BY <1>1
    <3> QED BY <1>2, <3>1, <3>2
  <2> QED BY <2>1, <2>2 DEF QueueSound
<1>6. \A k \in DOMAIN f.queue : \E n \in ids : f.queue[k] = q[n]
  BY <1>1, <1>3
<1>7. RecoveryQueued(f) => RecoveryQueued(c)
  BY <1>1, <1>3 DEF RecoveryQueued, q
<1> QED BY <1>5, <1>6, <1>7 DEF q

\* The rest of a sequence is what it has after its first index.
LEMMA TailSelects ==
  ASSUME NEW S, NEW s \in Seq(S), s # <<>>
  PROVE  Selects(Tail(s), s, 2 .. Len(s)) /\ 2 .. Len(s) \in SUBSET DOMAIN s
<1> DEFINE p == Tail(s)
           at == [k \in DOMAIN p |-> k + 1]
<1>1. /\ Len(s) \in Nat /\ DOMAIN p = 1 .. Len(s) - 1 /\ DOMAIN s = 1 .. Len(s)
      /\ \A k \in DOMAIN p : p[k] = s[k + 1]
  BY Tailed
<1> HIDE DEF p
<1>2. at \in [DOMAIN p -> 2 .. Len(s)] /\ 2 .. Len(s) \in SUBSET DOMAIN s
  BY <1>1
<1>3. \A k \in DOMAIN p : at[k] = k + 1
  OBVIOUS
<1>4. \A n \in 2 .. Len(s) : n - 1 \in DOMAIN p /\ at[n - 1] = n
  BY <1>1
<1> HIDE DEF at
<1>5. \A n \in 2 .. Len(s) : \E k \in DOMAIN p : at[k] = n
  BY <1>4
<1>6. \A j, k \in DOMAIN p : j < k => at[j] < at[k]
  BY <1>1, <1>3
<1>7. \A k \in DOMAIN p : p[k] = s[at[k]]
  BY <1>1, <1>3
<1>8. Selects(p, s, 2 .. Len(s))
  BY <1>2, <1>5, <1>6, <1>7 DEF Selects
<1> QED BY <1>2, <1>8 DEF p

\* flush skips at most one recovery, which is no longer current.
LEMMA QueueSkips ==
  ASSUME NEW c \in Call, NEW l, Sound(c, l), c.created = NoTask, c.queue # <<>>,
         NEW f, f = [c EXCEPT !.queue = Tail(@)]
  PROVE  /\ Sound(f, l) /\ f.active = c.active /\ f.open = c.open /\ f.created = c.created
         /\ f.queue = Tail(c.queue)
<1>1. Tail(c.queue) \in Seq(Task) /\ c.queue \in Seq(Task)
  BY Tailed DEF Call
<1>2. f \in Call
  BY <1>1 DEF Call
<1>3. /\ f.queue = Tail(c.queue) /\ f.active = c.active /\ f.open = c.open
      /\ f.created = c.created /\ f.chain = c.chain /\ f.seq = c.seq /\ f.gen = c.gen
      /\ f.pending = c.pending /\ f.applying = c.applying /\ f.recoveries = c.recoveries
      /\ f.unintelligible = c.unintelligible /\ f.turnCount = c.turnCount
  BY DEF Call
<1>4. QueueSound(f, l) /\ (RecoveryQueued(f) => RecoveryQueued(c))
  <2> DEFINE ids == 2 .. Len(c.queue)
  <2>1. Selects(f.queue, c.queue, ids) /\ ids \in SUBSET DOMAIN c.queue
    BY <1>1, <1>3, TailSelects
  <2>2. QueueSound(c, l)
    BY DEF Sound
  <2>3. f.active = c.active /\ f.seq = c.seq /\ f.gen = c.gen /\ f.chain = c.chain
    BY <1>3
  <2> HIDE DEF ids
  <2> QED BY ZenonT(60), <1>2, <2>1, <2>2, <2>3, QueueSelects
<1>5. LookupsSound(f, l) /\ ActiveSound(f, l) /\ ChainSound(f)
  BY <1>3 DEF Sound, LookupsSound, ActiveSound, ChainSound, Placed
<1>6. EffectsSound(f) /\ ClosedSound(f, l) /\ AnswerSound(f)
  BY <1>3 DEF Sound, EffectsSound, ClosedSound, AnswerSound
<1>7. CountsSound(f)
  <2>1. Recovering(f) <= Recovering(c) /\ Recovering(f) \in Nat /\ Recovering(c) \in Nat
    BY <1>3, <1>4 DEF Recovering
  <2>2. Waiting(f) = Waiting(c)
    BY <1>3 DEF Waiting
  <2>3. Waiting(c) \in Int
    <3>1. Len(c.chain) \in Nat
      BY LenProperties DEF Call
    <3> QED BY <3>1 DEF Waiting
  <2>4. c.unintelligible \in Nat /\ c.recoveries \in Nat /\ c.turnCount \in Nat /\ c.seq \in Nat
    BY ConversationAssumption DEF Call, Sequences
  <2>5. /\ f.unintelligible = c.unintelligible /\ f.recoveries = c.recoveries
        /\ f.turnCount = c.turnCount /\ f.seq = c.seq
    BY <1>3
  <2>6. /\ c.unintelligible + Recovering(c) <= c.recoveries
        /\ c.turnCount + Waiting(c) + Recovering(c) <= c.seq
    BY DEF Sound, CountsSound
  <2>7. f.unintelligible + Recovering(f) <= f.recoveries
    BY <2>1, <2>4, <2>5, <2>6
  <2>8. f.turnCount + Waiting(f) + Recovering(f) <= f.seq
    BY <2>1, <2>2, <2>3, <2>4, <2>5, <2>6
  <2> QED BY <2>7, <2>8 DEF CountsSound
<1> QED BY <1>2, <1>3, <1>4, <1>5, <1>6, <1>7 DEF Sound
\* flush: the next task becomes the active response, or there is none.
LEMMA Flushed ==
  ASSUME NEW c \in Call, NEW l, Sound(c, l), c.open, c.created = NoTask,
         ~c.inFlight => c.active = NoTask, NEW f, f = Flush(c)
  PROVE  /\ Sound(f, l) /\ f.open /\ f.pending = c.pending /\ f.applying = c.applying
         /\ \/ c.inFlight /\ f = c
            \/ /\ ~c.inFlight /\ ~f.inFlight /\ f.queue = <<>>
               /\ f.active = NoTask /\ f.created = NoTask
            \/ /\ ~c.inFlight /\ f.inFlight /\ f.active # NoTask /\ f.created = f.active
               /\ f.active.stage \in {"none", "answer"}
<1> DEFINE skip == c.queue # <<>> /\ Head(c.queue).kind = "recovery" /\ ~IsCurrent(c, Head(c.queue))
           queue == IF skip THEN Tail(c.queue) ELSE c.queue
           d == [c EXCEPT !.queue = queue]
<1>1. CASE c.inFlight
  <2>1. f = c
    BY <1>1 DEF Flush
  <2> QED BY <1>1, <2>1
<1>2. CASE ~c.inFlight
  <2>1. c.active = NoTask
    BY <1>2
  <2>2. /\ d \in Call /\ Sound(d, l) /\ d.active = NoTask /\ d.open /\ d.created = NoTask
        /\ d.queue = queue
    <3>1. CASE skip
      <4>1. d = [c EXCEPT !.queue = Tail(@)] /\ queue = Tail(c.queue) /\ c.queue # <<>>
        BY <3>1
      <4> HIDE DEF d, skip, queue
      <4>2. Sound(d, l) /\ d.active = c.active /\ d.open = c.open /\ d.created = c.created
            /\ d.queue = Tail(c.queue)
        BY <4>1, QueueSkips
      <4> QED BY <2>1, <4>1, <4>2 DEF Sound
    <3>2. CASE ~skip
      <4>1. d = c
        BY <3>2 DEF Call
      <4> QED BY <2>1, <3>2, <4>1
    <3> QED BY <3>1, <3>2
  <2>3. d.mode = c.mode /\ d.inFlight = c.inFlight /\ d.pending = c.pending /\ d.applying = c.applying
        /\ d.gen = c.gen
    BY DEF Call
  <2>4. f = IF queue = <<>> THEN d
            ELSE [d EXCEPT !.queue = Tail(queue), !.inFlight = TRUE,
                           !.active = Head(queue), !.created = Head(queue)]
    BY <1>2 DEF Flush, Call
  <2> HIDE DEF d, skip
  <2>5. CASE queue = <<>>
    BY <1>2, <2>2, <2>3, <2>4, <2>5
  <2>6. CASE queue # <<>>
    <3>1. f = [d EXCEPT !.queue = Tail(d.queue), !.inFlight = TRUE,
                        !.active = Head(d.queue), !.created = Head(d.queue)]
      BY <2>2, <2>4, <2>6
    <3>2. Tail(d.queue) \in Seq(Task) /\ Head(d.queue) \in Task /\ d.queue # <<>>
      BY <2>2, <2>6, Tailed DEF Call
    <3> HIDE DEF queue
    <3>3. f \in Call
      <4>1. d \in Call
        BY <2>2
      <4> QED BY ZenonT(60), <3>1, <3>2, <4>1 DEF Call
    <3>4. /\ f.queue = Tail(d.queue) /\ f.active = Head(d.queue) /\ f.created = Head(d.queue)
          /\ f.inFlight /\ f.open = d.open /\ f.chain = d.chain /\ f.seq = d.seq /\ f.gen = d.gen
          /\ f.pending = d.pending /\ f.applying = d.applying /\ f.recoveries = d.recoveries
          /\ f.unintelligible = d.unintelligible /\ f.turnCount = d.turnCount
      BY <2>2, <3>1 DEF Call
    <3>5. /\ QueueSound(f, l) /\ ActiveSound(f, l) /\ f.active.kind # "none"
          /\ f.active.stage \in {"none", "answer"}
          /\ (f.active.stage = "answer" => f.active.gen = d.gen)
          /\ Recovering(f) <= Recovering(d) /\ Recovering(f) \in Nat
      BY <2>2, <3>2, <3>3, <3>4, QueueAdvances
    <3>6. LookupsSound(f, l) /\ ChainSound(f)
      BY <2>2, <3>4 DEF Sound, LookupsSound, ChainSound, Placed
    <3>7. EffectsSound(f) /\ ClosedSound(f, l) /\ AnswerSound(f)
      BY <2>2, <3>4, <3>5 DEF Sound, EffectsSound, ClosedSound, AnswerSound
    <3>8. CountsSound(f)
      <4>1. Recovering(d) \in Nat
        BY DEF Recovering
      <4>2. Waiting(f) = Waiting(d)
        BY <3>4 DEF Waiting
      <4>3. Waiting(d) \in Int
        <5>1. Len(d.chain) \in Nat
          BY <2>2, LenProperties DEF Call
        <5> QED BY <5>1 DEF Waiting
      <4>4. d.unintelligible \in Nat /\ d.recoveries \in Nat /\ d.turnCount \in Nat /\ d.seq \in Nat
        BY <2>2, ConversationAssumption DEF Call, Sequences
      <4>5. CountsSound(d)
        BY <2>2 DEF Sound
      <4> QED BY <3>4, <3>5, <4>1, <4>2, <4>3, <4>4, <4>5 DEF CountsSound
    <3>9. Sound(f, l)
      BY <3>3, <3>5, <3>6, <3>7, <3>8 DEF Sound
    <3>10. f.active # NoTask
      BY <3>5, TaskFacts
    <3> QED BY <1>2, <2>2, <2>3, <3>4, <3>5, <3>9, <3>10
  <2> QED BY <2>5, <2>6
<1> QED BY <1>1, <1>2
LEMMA FlushFrom ==
  ASSUME NEW c, NEW g, NEW w, NEW l, NEW a, NEW p, Ready(c, g, w, l, a, p),
         NEW f, f = Flush(c)
  PROVE  Outcome(f, g, w, l, a, p)
<1>1. /\ c \in Call /\ Sound(c, l) /\ c.open /\ c.created = NoTask
      /\ LatchOf(c, g, w, l) /\ AnnouncedOf(c, a, w, p)
  BY DEF Ready, Sound
<1>2. ~c.inFlight => LatchFree(c, g, w) /\ c.active = NoTask
  BY <1>1 DEF LatchOf, LatchFree, LatchOfResponse, LatchOfEffect
<1>3. /\ Sound(f, l) /\ f.open /\ f.pending = c.pending /\ f.applying = c.applying
      /\ \/ c.inFlight /\ f = c
         \/ /\ ~c.inFlight /\ ~f.inFlight /\ f.queue = <<>>
            /\ f.active = NoTask /\ f.created = NoTask
         \/ /\ ~c.inFlight /\ f.inFlight /\ f.active # NoTask /\ f.created = f.active
            /\ f.active.stage \in {"none", "answer"}
  BY <1>1, <1>2, Flushed
<1>4. CASE c.inFlight /\ f = c
  BY <1>1, <1>4 DEF Outcome, Unhurried
<1>5. CASE /\ ~c.inFlight /\ ~f.inFlight /\ f.queue = <<>>
           /\ f.active = NoTask /\ f.created = NoTask
  <2>1. LatchOf(f, g, w, l)
    BY <1>2, <1>3, <1>5 DEF LatchOf, LatchFree
  <2>2. Unhurried(f)
    BY <1>5 DEF Unhurried
  <2>3. AnnouncedOf(f, a, w, p)
    BY <1>2, <1>3, <1>5, TaskFacts DEF AnnouncedOf, LatchFree
  <2> QED BY <1>3, <1>5, <2>1, <2>2, <2>3 DEF Outcome
<1>6. CASE /\ ~c.inFlight /\ f.inFlight /\ f.active # NoTask /\ f.created = f.active
           /\ f.active.stage \in {"none", "answer"}
  <2>1. LatchOf(f, f.created, w, l) /\ g = NoTask
    BY <1>2, <1>3, <1>6 DEF LatchOf, LatchFree, LatchOfResponse
  <2>2. Unhurried(f)
    BY <1>6 DEF Unhurried
  <2>3. AnnouncedOf(f, a, w, p)
    BY <1>2, <1>3, <1>6, TaskFacts DEF AnnouncedOf, LatchFree, NoneEnds
  <2> QED BY <1>3, <1>6, <2>1, <2>2, <2>3 DEF Outcome
<1> QED BY <1>3, <1>4, <1>5, <1>6

\* A task is put at the end of the queue.
LEMMA LessPlusOne ==
  ASSUME NEW u \in Int, NEW x \in Int, NEW y \in Int, NEW z \in Int,
         u + x + 1 <= z, y <= x + 1
  PROVE  u + y <= z
OBVIOUS

LEMMA QueueGrows ==
  ASSUME NEW c, NEW l, Sound(c, l), c.created = NoTask, NEW t, Joins(t, c, l),
         NEW d, d = Joined(c, t)
  PROVE  /\ Sound(d, l) /\ d.open = c.open /\ d.created = c.created /\ d.inFlight = c.inFlight
         /\ d.active = c.active /\ d.pending = c.pending /\ d.applying = c.applying
<1> DEFINE q == c.queue
<1>0. c \in Call
  BY DEF Sound
<1>1. q \in Seq(Task)
  BY <1>0 DEF Call
<1>2. /\ Append(q, t) \in Seq(Task) /\ Len(q) \in Nat
      /\ DOMAIN q = 1 .. Len(q) /\ DOMAIN Append(q, t) = 1 .. Len(q) + 1
      /\ \A n \in DOMAIN q : Append(q, t)[n] = q[n]
      /\ Append(q, t)[Len(q) + 1] = t
  BY <1>1, Appended DEF Joins
<1>3. d \in Call
  BY <1>0, <1>2 DEF Call, Joined
<1>4. /\ d.queue = Append(q, t) /\ d.active = c.active /\ d.open = c.open
      /\ d.created = c.created /\ d.chain = c.chain /\ d.seq = c.seq /\ d.gen = c.gen
      /\ d.pending = c.pending /\ d.applying = c.applying /\ d.recoveries = c.recoveries
      /\ d.unintelligible = c.unintelligible /\ d.turnCount = c.turnCount
      /\ d.inFlight = c.inFlight
  BY <1>0 DEF Call, Joined
<1> HIDE DEF q
<1>5. \A n \in DOMAIN d.queue : \/ n \in DOMAIN q /\ d.queue[n] = q[n]
                                \/ n = Len(q) + 1 /\ d.queue[n] = t
  BY <1>2, <1>4
<1>6. QueueSound(d, l)
  <2>1. \A u : Fits(u, c, l) = Fits(u, d, l)
    BY <1>4 DEF Fits, Placed
  <2>2. /\ \A n \in DOMAIN q : Fits(q[n], c, l)
        /\ \A m, n \in DOMAIN q : m < n => Before(q[m], q[n]) /\ ~(IsRecovery(q[m]) /\ IsRecovery(q[n]))
    BY DEF Sound, QueueSound, q
  <2>3. \A n \in DOMAIN q : Before(q[n], t) /\ ~(IsRecovery(q[n]) /\ IsRecovery(t))
    BY DEF q, Joins
  <2>4. ASSUME NEW m \in DOMAIN d.queue, NEW n \in DOMAIN d.queue, m < n
        PROVE  /\ Before(d.queue[m], d.queue[n])
               /\ ~(IsRecovery(d.queue[m]) /\ IsRecovery(d.queue[n]))
    <3>1. m \in DOMAIN q /\ d.queue[m] = q[m]
      BY <1>2, <1>4, <1>5, <2>4
    <3> QED BY <1>5, <2>2, <2>3, <2>4, <3>1
  <2>5. ASSUME NEW n \in DOMAIN d.queue
        PROVE  Fits(d.queue[n], d, l)
    BY <1>5, <2>1, <2>2 DEF Joins
  <2> QED BY <2>4, <2>5 DEF QueueSound
<1>7. LookupsSound(d, l) /\ ActiveSound(d, l) /\ ChainSound(d)
  BY <1>4 DEF Sound, LookupsSound, ActiveSound, ChainSound, Placed
<1>8. EffectsSound(d) /\ ClosedSound(d, l) /\ AnswerSound(d)
  BY <1>4 DEF Sound, EffectsSound, ClosedSound, AnswerSound
<1>9. CountsSound(d)
  <2>1. RecoveryQueued(d) => RecoveryQueued(c) \/ IsRecovery(t)
    BY <1>5 DEF RecoveryQueued, q
  <2>2. /\ Recovering(d) \in Nat /\ Recovering(c) \in Nat
        /\ Recovering(d) <= Recovering(c) + 1
        /\ ~IsRecovery(t) => Recovering(d) <= Recovering(c)
    BY <1>4, <2>1 DEF Recovering
  <2>3. /\ Waiting(d) = Waiting(c) /\ d.unintelligible = c.unintelligible
        /\ d.recoveries = c.recoveries /\ d.turnCount = c.turnCount /\ d.seq = c.seq
    BY <1>4 DEF Waiting
  <2>4. Waiting(c) \in Int
    <3>1. Len(c.chain) \in Nat
      BY <1>0, LenProperties DEF Call
    <3> QED BY <3>1 DEF Waiting
  <2>5. c.unintelligible \in Nat /\ c.recoveries \in Nat /\ c.turnCount \in Nat /\ c.seq \in Nat
    BY <1>0, ConversationAssumption DEF Call, Sequences
  <2>6. /\ c.unintelligible + Recovering(d) <= c.recoveries
        /\ c.turnCount + Waiting(c) + Recovering(d) <= c.seq
    <3>1. CASE IsRecovery(t)
      <4>1. /\ c.unintelligible + Recovering(c) + 1 <= c.recoveries
            /\ c.turnCount + Waiting(c) + Recovering(c) + 1 <= c.seq
        BY <3>1 DEF Joins
      <4>2. Recovering(d) <= Recovering(c) + 1
        BY <2>2
      <4> QED BY <2>2, <2>4, <2>5, <4>1, <4>2, LessPlusOne
    <3>2. CASE ~IsRecovery(t)
      <4>1. /\ c.unintelligible + Recovering(c) <= c.recoveries
            /\ c.turnCount + Waiting(c) + Recovering(c) <= c.seq
        BY DEF Sound, CountsSound
      <4>2. Recovering(d) <= Recovering(c)
        BY <2>2, <3>2
      <4> QED BY <2>2, <2>4, <2>5, <4>1, <4>2
    <3> QED BY <3>1, <3>2
  <2> QED BY <2>3, <2>6 DEF CountsSound
<1> QED BY <1>3, <1>4, <1>6, <1>7, <1>8, <1>9 DEF Sound

LEMMA EnqueueFrom ==
  ASSUME NEW c, NEW g, NEW w, NEW l, NEW a, NEW p, Ready(c, g, w, l, a, p),
         NEW t, Joins(t, c, l), NEW d, d = Joined(c, t)
  PROVE  Outcome(Flush(d), g, w, l, a, p)
<1>1. /\ c \in Call /\ Sound(c, l) /\ c.open /\ c.created = NoTask
      /\ LatchOf(c, g, w, l) /\ AnnouncedOf(c, a, w, p)
  BY DEF Ready, Sound
<1>2. /\ Sound(d, l) /\ d.open = c.open /\ d.created = c.created /\ d.inFlight = c.inFlight
      /\ d.active = c.active /\ d.pending = c.pending /\ d.applying = c.applying
  <2>1. Sound(c, l) /\ c.created = NoTask
    BY <1>1
  <2> QED BY <2>1, QueueGrows
<1>3. LatchOf(d, g, w, l) /\ AnnouncedOf(d, a, w, p)
  BY <1>1, <1>2 DEF LatchOf, LatchFree, LatchOfResponse, LatchOfEffect, AnnouncedOf
<1>4. Ready(d, g, w, l, a, p)
  BY <1>1, <1>2, <1>3 DEF Ready
<1> QED BY <1>4, FlushFrom

\* An announcement fits everywhere.
LEMMA ApprovedFits ==
  ASSUME NEW effect \in Effects, NEW item \in 0 .. MaxItems
  PROVE  /\ Approved(effect, item) \in Task /\ IsApproved(Approved(effect, item))
         /\ ~IsRecovery(Approved(effect, item)) /\ Formed(Approved(effect, item))
         /\ \A c, l : Fits(Approved(effect, item), c, l)
         /\ \A u : Before(u, Approved(effect, item))
<1> DEFINE t == Approved(effect, item)
<1>1. /\ t \in Task /\ t.kind = "approved" /\ t.effect = effect /\ t.item = item
      /\ t.stage = "none"
  BY TaskFacts DEF Approved, Task
<1> HIDE DEF t
<1>2. ~Asked(t) /\ ~IsRecovery(t) /\ ~IsDirect(t) /\ IsApproved(t) /\ Formed(t)
  BY <1>1 DEF Asked, IsDirect, IsRecovery, IsApproved, Formed
<1>3. \A u : Before(u, t)
  BY <1>2 DEF Before
<1>4. \A c, l : Fits(t, c, l)
  BY <1>1, <1>2, <1>3 DEF Fits, Placed
<1> QED BY <1>1, <1>2, <1>3, <1>4 DEF t

LEMMA AnnounceFrom ==
  ASSUME NEW c, NEW g, NEW w, NEW l, NEW a, NEW p, Ready(c, g, w, l, a, p),
         NEW effect \in Effects, NEW item \in 0 .. MaxItems
  PROVE  Outcome(EnqueueTask(c, Approved(effect, item)), g, w, l, a, p)
<1> DEFINE t == Approved(effect, item)
<1>1. Joins(t, c, l)
  BY ApprovedFits DEF Joins
<1> HIDE DEF t
<1>2. Outcome(Flush(Joined(c, t)), g, w, l, a, p)
  BY <1>1, EnqueueFrom
<1> QED BY <1>2 DEF EnqueueTask, Joined, t

-----------------------------------------------------------------------------
(* The events of the provider.                                             *)

\* What speech and new words leave in the queue.
LEMMA ApprovedOnlyForm ==
  ASSUME NEW q \in Seq(Task)
  PROVE  /\ ApprovedOnly(q) \in Seq(Task)
         /\ \A k \in DOMAIN ApprovedOnly(q) :
              IsApproved(ApprovedOnly(q)[k]) /\ \E n \in DOMAIN q : ApprovedOnly(q)[k] = q[n]
<1> DEFINE ids == {n \in DOMAIN q : IsApproved(q[n])}
<1>1. ApprovedOnly(q) = Subsequence(q, ids)
  BY DEF ApprovedOnly, Filter
<1>2. ids \in SUBSET DOMAIN q /\ \A n \in ids : IsApproved(q[n])
  OBVIOUS
<1> HIDE DEF ids
<1>3. Subsequence(q, ids) \in Seq(Task) /\ Selects(Subsequence(q, ids), q, ids)
  BY <1>2, SubsequenceForm
<1>4. PICK at \in [DOMAIN Subsequence(q, ids) -> ids] :
        \A k \in DOMAIN Subsequence(q, ids) : Subsequence(q, ids)[k] = q[at[k]]
  BY <1>3 DEF Selects
<1> QED BY <1>1, <1>2, <1>3, <1>4

\* A queue of announcements suits any call.
LEMMA AnnouncementsFit ==
  ASSUME NEW c, NEW l, NEW f, QueueSound(c, l), c.queue \in Seq(Task), f.queue = ApprovedOnly(c.queue)
  PROVE  /\ QueueSound(f, l) /\ f.queue \in Seq(Task) /\ ~RecoveryQueued(f)
         /\ \A n \in DOMAIN f.queue : IsApproved(f.queue[n])
<1>1. /\ f.queue \in Seq(Task)
      /\ \A k \in DOMAIN f.queue :
           IsApproved(f.queue[k]) /\ \E n \in DOMAIN c.queue : f.queue[k] = c.queue[n]
  BY ApprovedOnlyForm
<1>2. ASSUME NEW k \in DOMAIN f.queue
      PROVE  /\ Fits(f.queue[k], f, l) /\ ~Asked(f.queue[k]) /\ ~IsRecovery(f.queue[k])
  <2> DEFINE t == f.queue[k]
  <2>1. Formed(t) /\ t.kind # "none" /\ IsApproved(t)
    BY <1>1 DEF QueueSound, Fits
  <2> HIDE DEF t
  <2>2. ~Asked(t) /\ ~IsDirect(t) /\ ~IsRecovery(t)
    BY <2>1 DEF Asked, IsDirect, IsRecovery, IsApproved
  <2>3. Fits(t, f, l)
    BY <2>1, <2>2 DEF Fits, Placed, Before
  <2> QED BY <2>2, <2>3 DEF t
<1>3. QueueSound(f, l)
  BY <1>2 DEF QueueSound, Before
<1>4. ~RecoveryQueued(f)
  BY <1>2 DEF RecoveryQueued
<1> QED BY <1>1, <1>3, <1>4

\* The wire without the event that is handled.
LEMMA WireTail ==
  ASSUME NEW w \in Seq(WireEvent), w # <<>>, NEW v, v = Tail(w)
  PROVE  /\ v \in Seq(WireEvent) /\ Len(w) \in Nat /\ Len(v) = Len(w) - 1
         /\ DOMAIN w = 1 .. Len(w) /\ DOMAIN v = 1 .. Len(w) - 1 /\ 1 \in DOMAIN w
         /\ Head(w) = w[1] /\ Head(w) \in WireEvent
         /\ \A n \in DOMAIN v : v[n] = w[n + 1] /\ n + 1 \in DOMAIN w
         /\ \A n \in DOMAIN w : n # 1 => n - 1 \in DOMAIN v /\ v[n - 1] = w[n]
<1>1. /\ v \in Seq(WireEvent) /\ Len(w) \in Nat /\ Len(w) >= 1 /\ Len(v) = Len(w) - 1
      /\ DOMAIN w = 1 .. Len(w) /\ DOMAIN v = 1 .. Len(w) - 1
      /\ Head(w) = w[1] /\ Head(w) \in WireEvent
      /\ \A n \in 1 .. Len(w) - 1 : v[n] = w[n + 1] /\ n + 1 \in DOMAIN w
  BY Tailed
<1>2. \A n \in DOMAIN w : n # 1 => n - 1 \in DOMAIN v /\ (n - 1) + 1 = n
  BY <1>1
<1>3. \A n \in DOMAIN w : n # 1 => v[n - 1] = w[n]
  BY <1>1, <1>2
<1>4. 1 \in DOMAIN w
  BY <1>1
<1> QED BY <1>1, <1>2, <1>3, <1>4

LEMMA VoicedShifts ==
  ASSUME NEW w \in Seq(WireEvent), w # <<>>, NEW v, v = Tail(w),
         NEW t, NEW a, NEW p, NEW n \in Nat, Voiced(t, n + 1, a, w, p)
  PROVE  Voiced(t, n, a, v, p)
<1>1. /\ Len(w) \in Nat /\ DOMAIN w = 1 .. Len(w) /\ DOMAIN v = 1 .. Len(w) - 1
      /\ \A m \in DOMAIN v : v[m] = w[m + 1] /\ m + 1 \in DOMAIN w
      /\ \A m \in DOMAIN w : m # 1 => m - 1 \in DOMAIN v /\ v[m - 1] = w[m]
  BY WireTail
<1>2. t \in a \/ \E m \in DOMAIN v : m > n /\ (Speech(v[m]) \/ Stopped(v[m]))
  <2>1. CASE t \in a
    BY <2>1
  <2>2. CASE \E m \in DOMAIN w : m > n + 1 /\ (Speech(w[m]) \/ Stopped(w[m]))
    <3>1. PICK m \in DOMAIN w : m > n + 1 /\ (Speech(w[m]) \/ Stopped(w[m]))
      BY <2>2
    <3>2. m # 1 /\ m - 1 > n
      BY <1>1, <3>1
    <3> QED BY <1>1, <3>1, <3>2
  <2> QED BY <2>1, <2>2 DEF Voiced
<1>3. ASSUME NEW k \in DOMAIN v, k > n, Stopped(v[k])
      PROVE  t \in p \/ \E m \in DOMAIN v : n < m /\ m < k /\ Speech(v[m])
  <2>1. k + 1 \in DOMAIN w /\ k + 1 > n + 1 /\ Stopped(w[k + 1])
    BY <1>1, <1>3
  <2>2. t \in p \/ \E m \in DOMAIN w : n + 1 < m /\ m < k + 1 /\ Speech(w[m])
    BY <2>1 DEF Voiced
  <2>3. CASE \E m \in DOMAIN w : n + 1 < m /\ m < k + 1 /\ Speech(w[m])
    <3>1. PICK m \in DOMAIN w : n + 1 < m /\ m < k + 1 /\ Speech(w[m])
      BY <2>3
    <3>2. m # 1 /\ n < m - 1 /\ m - 1 < k
      BY <1>1, <3>1
    <3> QED BY <1>1, <3>1, <3>2
  <2> QED BY <2>2, <2>3
<1> QED BY <1>2, <1>3 DEF Voiced

\* Words do not touch what is announced.
LEMMA VoicedStays ==
  ASSUME NEW w \in Seq(WireEvent), w # <<>>, NEW v, v = Tail(w), ~Speech(Head(w)), ~Stopped(Head(w)),
         NEW t, NEW a, NEW p, Voiced(t, 0, a, w, p)
  PROVE  Voiced(t, 0, a, v, p)
<1>1. /\ Len(w) \in Nat /\ DOMAIN w = 1 .. Len(w) /\ Head(w) = w[1]
  BY WireTail
<1>2. \A m \in DOMAIN w : (m > 0 /\ (Speech(w[m]) \/ Stopped(w[m]))) => m > 0 + 1
  BY <1>1
<1>3. Voiced(t, 0 + 1, a, w, p)
  <2>1. t \in a \/ \E m \in DOMAIN w : m > 0 + 1 /\ (Speech(w[m]) \/ Stopped(w[m]))
    BY <1>2 DEF Voiced
  <2>2. ASSUME NEW k \in DOMAIN w, k > 0 + 1, Stopped(w[k])
        PROVE  t \in p \/ \E m \in DOMAIN w : 0 + 1 < m /\ m < k /\ Speech(w[m])
    <3>1. k > 0
      BY <1>1, <2>2
    <3>2. t \in p \/ \E m \in DOMAIN w : 0 < m /\ m < k /\ Speech(w[m])
      BY <2>2, <3>1 DEF Voiced
    <3> QED BY <1>1, <1>2, <3>2
  <2> QED BY <2>1, <2>2 DEF Voiced
<1> QED BY <1>3, VoicedShifts

\* What is active stays announced when an event is handled.
LEMMA ActiveStaysAnnounced ==
  ASSUME NEW w \in Seq(WireEvent), w # <<>>, NEW v, v = Tail(w),
         NEW c, NEW a, NEW p, AnnouncedOf(c, a, w, p), c.active.effect # "none",
         NEW n \in DOMAIN v, Ended(v[n]), v[n].completed
  PROVE  Voiced(c.active, n, a, v, p)
<1>1. v[n] = w[n + 1] /\ n + 1 \in DOMAIN w /\ n \in Nat
  BY WireTail
<1>2. Voiced(c.active, n + 1, a, w, p)
  BY <1>1 DEF AnnouncedOf
<1> QED BY <1>1, <1>2, VoicedShifts

\* Any event but the end of a response leaves those that are on their way.
LEMMA LatchStays ==
  ASSUME NEW w \in Seq(WireEvent), w # <<>>, NEW v, v = Tail(w), ~Ended(Head(w)),
         NEW c, NEW g, NEW l, LatchOf(c, g, w, l)
  PROVE  LatchOf(c, g, v, l) /\ (NoneEnds(w) => NoneEnds(v)) /\ (OneEnds(w) => OneEnds(v))
<1>1. /\ DOMAIN v \in SUBSET Int /\ Head(w) = w[1]
      /\ \A m \in DOMAIN v : v[m] = w[m + 1] /\ m + 1 \in DOMAIN w
      /\ \A m \in DOMAIN w : m # 1 => m - 1 \in DOMAIN v /\ v[m - 1] = w[m]
  BY WireTail
<1>2. NoneEnds(w) => NoneEnds(v)
  BY <1>1 DEF NoneEnds
<1>3. OneEnds(w) => OneEnds(v)
  <2> SUFFICES ASSUME OneEnds(w) PROVE OneEnds(v)
    OBVIOUS
  <2>1. PICK n \in DOMAIN w : Ended(w[n]) /\ \A m \in DOMAIN w : Ended(w[m]) => m = n
    BY DEF OneEnds
  <2>2. n # 1 /\ n - 1 \in DOMAIN v /\ Ended(v[n - 1])
    BY <1>1, <2>1
  <2>3. ASSUME NEW m \in DOMAIN v, Ended(v[m])
        PROVE  m = n - 1
    <3>1. m + 1 = n
      BY <1>1, <2>1, <2>3
    <3> QED BY <1>1, <3>1
  <2> QED BY <2>2, <2>3 DEF OneEnds
<1> QED BY <1>2, <1>3 DEF LatchOf, LatchFree, LatchOfResponse, LatchOfEffect

\* The members of the queue and of the chain.
LEMMA CallTyped ==
  ASSUME NEW c \in Call
  PROVE  /\ c.queue \in Seq(Task) /\ c.chain \in Seq(Turn) /\ c.active \in Task
         /\ c.gen \in Generations /\ c.mode \in {"phone_fast", "renderer"}
         /\ c.pending \in Task /\ c.applying \in Task
         /\ Len(c.chain) \in Nat /\ DOMAIN c.chain = 1 .. Len(c.chain)
         /\ Len(c.queue) \in Nat /\ DOMAIN c.queue = 1 .. Len(c.queue)
         /\ \A n \in DOMAIN c.queue : c.queue[n] \in Task
         /\ \A n \in DOMAIN c.chain : c.chain[n] \in Turn /\ c.chain[n].seq \in Int
<1>1. c.queue \in Seq(Task) /\ c.chain \in Seq(Turn) /\ c.active \in Task
  BY DEF Call
<1>2. /\ \A n \in DOMAIN c.queue : c.queue[n] \in Task
      /\ \A n \in DOMAIN c.chain : c.chain[n] \in Turn
  BY <1>1, ElementOfSeq, LenProperties
<1>5. /\ c.gen \in Generations /\ c.mode \in {"phone_fast", "renderer"}
      /\ c.pending \in Task /\ c.applying \in Task
  BY DEF Call
<1>3. \A u \in Turn : u.seq \in Int
  BY ConversationAssumption DEF Turn, Sequences
<1>4. /\ Len(c.chain) \in Nat /\ DOMAIN c.chain = 1 .. Len(c.chain)
      /\ Len(c.queue) \in Nat /\ DOMAIN c.queue = 1 .. Len(c.queue)
  BY <1>1, LenProperties
<1> QED BY <1>1, <1>2, <1>3, <1>4, <1>5

\* Nothing in place of a task.
LEMMA NobodyIsPlaced ==
  /\ \A c : Placed(NoTask, c)
  /\ \A t : Before(t, NoTask) /\ Before(NoTask, t)
<1>1. ~Asked(NoTask)
  BY TaskFacts DEF Asked, IsDirect, IsRecovery
<1> QED BY <1>1 DEF Placed, Before

LEMMA ActiveStays ==
  ASSUME NEW c, NEW l, ActiveSound(c, l), NEW f, f.active = c.active \/ f.active = NoTask,
         f.seq = c.seq, f.chain = c.chain
  PROVE  ActiveSound(f, l)
<1>1. CASE f.active = c.active
  BY <1>1 DEF ActiveSound, Placed
<1>2. CASE f.active = NoTask
  <2>1. Formed(f.active) /\ Placed(f.active, f) /\ \A t : Before(t, f.active)
    BY <1>2, NobodyIsPlaced, TaskFacts
  <2> QED BY <2>1 DEF ActiveSound
<1> QED BY <1>1, <1>2

\* Numbers that only grow further apart.
LEMMA CountsTyped ==
  ASSUME NEW c \in Call
  PROVE  /\ Waiting(c) \in Int /\ Recovering(c) \in Nat
         /\ c.unintelligible \in Nat /\ c.recoveries \in Nat /\ c.turnCount \in Nat /\ c.seq \in Nat
         /\ Len(c.chain) \in Nat /\ Waiting(c) >= 0
<1>1. Len(c.chain) \in Nat /\ (c.chain # <<>> => Len(c.chain) >= 1)
  <2>1. c.chain \in Seq(Turn)
    BY DEF Call
  <2> QED BY <2>1, LenProperties, Tailed
<1>2. Recovering(c) \in Nat
  BY DEF Recovering
<1>3. Waiting(c) \in Int /\ Waiting(c) >= 0
  BY <1>1 DEF Waiting
<1>4. c.unintelligible \in Nat /\ c.recoveries \in Nat /\ c.turnCount \in Nat /\ c.seq \in Nat
  BY ConversationAssumption DEF Call, Sequences
<1> QED BY <1>1, <1>2, <1>3, <1>4

LEMMA CountsStay ==
  ASSUME NEW c \in Call, CountsSound(c), NEW f \in Call,
         f.unintelligible <= c.unintelligible, c.recoveries <= f.recoveries,
         f.turnCount + Waiting(f) <= c.turnCount + Waiting(c), c.seq <= f.seq,
         RecoveryQueued(f) => RecoveryQueued(c), IsRecovery(f.active) => IsRecovery(c.active)
  PROVE  CountsSound(f)
<1>1. Recovering(f) <= Recovering(c)
  BY DEF Recovering
<1>2. /\ Waiting(c) \in Int /\ Recovering(c) \in Nat
      /\ c.unintelligible \in Nat /\ c.recoveries \in Nat /\ c.turnCount \in Nat /\ c.seq \in Nat
  BY CountsTyped
<1>3. /\ Waiting(f) \in Int /\ Recovering(f) \in Nat
      /\ f.unintelligible \in Nat /\ f.recoveries \in Nat /\ f.turnCount \in Nat /\ f.seq \in Nat
  BY CountsTyped
<1>4. /\ c.unintelligible + Recovering(c) <= c.recoveries
      /\ c.turnCount + Waiting(c) + Recovering(c) <= c.seq
  BY DEF CountsSound
<1>5. f.unintelligible + Recovering(f) <= f.recoveries
  BY <1>1, <1>2, <1>3, <1>4
<1>6. f.turnCount + Waiting(f) + Recovering(f) <= f.seq
  BY <1>1, <1>2, <1>3, <1>4
<1> QED BY <1>5, <1>6 DEF CountsSound

\* The state between two handlers.
Settled(c, g, w, l, a, p) ==
  Sound(c, l) /\ Unhurried(c) /\ LatchOf(c, g, w, l) /\ AnnouncedOf(c, a, w, p)

\* A handler starts from what the last one left.
LEMMA SettledIsReady ==
  ASSUME NEW c, NEW g, NEW w, NEW l, NEW a, NEW p, Settled(c, g, w, l, a, p),
         NEW d, d = [c EXCEPT !.created = NoTask]
  PROVE  /\ d \in Call /\ Settled(d, g, w, l, a, p) /\ d.created = NoTask /\ d.open = c.open
         /\ d.chain = c.chain /\ d.active = c.active /\ d.mode = c.mode /\ d.seq = c.seq
         /\ d.gen = c.gen /\ d.applying = c.applying /\ d.pending = c.pending
         /\ (c.open => Ready(d, g, w, l, a, p))
<1>1. c \in Call /\ NoTask \in Task
  BY TaskFacts DEF Settled, Sound
<1>2. /\ d \in Call /\ d.created = NoTask /\ d.open = c.open /\ d.queue = c.queue
      /\ d.inFlight = c.inFlight /\ d.active = c.active /\ d.chain = c.chain /\ d.seq = c.seq
      /\ d.gen = c.gen /\ d.pending = c.pending /\ d.applying = c.applying
      /\ d.recoveries = c.recoveries /\ d.unintelligible = c.unintelligible
      /\ d.turnCount = c.turnCount /\ d.mode = c.mode
  BY <1>1 DEF Call
<1>3. Sound(d, l)
  <2>1. QueueSound(d, l) /\ LookupsSound(d, l) /\ ActiveSound(d, l) /\ ChainSound(d)
    BY <1>2 DEF Settled, Sound, QueueSound, Fits, Placed, LookupsSound, ActiveSound, ChainSound
  <2>2. EffectsSound(d) /\ ClosedSound(d, l)
    BY <1>2 DEF Settled, Sound, EffectsSound, ClosedSound
  <2>4. CountsSound(d)
    <3>1. CountsSound(c) /\ Waiting(d) = Waiting(c)
      BY <1>2 DEF Settled, Sound, Waiting
    <3>2. (RecoveryQueued(d) => RecoveryQueued(c)) /\ IsRecovery(d.active) = IsRecovery(c.active)
      BY <1>2 DEF RecoveryQueued
    <3>3. /\ d.unintelligible <= c.unintelligible /\ c.recoveries <= d.recoveries
          /\ d.turnCount + Waiting(d) <= c.turnCount + Waiting(c) /\ c.seq <= d.seq
      <4>1. /\ d.unintelligible = c.unintelligible /\ d.recoveries = c.recoveries
            /\ d.turnCount = c.turnCount /\ d.seq = c.seq
        BY <1>2
      <4>2. /\ Waiting(c) \in Int /\ c.unintelligible \in Nat /\ c.recoveries \in Nat
            /\ c.turnCount \in Nat /\ c.seq \in Nat
        BY <1>1, CountsTyped
      <4> QED BY <3>1, <4>1, <4>2
    <3>4. d \in Call
      BY <1>2
    <3> QED BY <1>1, <3>1, <3>2, <3>3, <3>4, CountsStay
  <2>3. AnswerSound(d)
    BY <1>2, TaskFacts DEF AnswerSound
  <2> QED BY <1>2, <2>1, <2>2, <2>3, <2>4 DEF Sound
<1>4. Unhurried(d) /\ LatchOf(d, g, w, l) /\ AnnouncedOf(d, a, w, p)
  BY <1>2 DEF Settled, Unhurried, LatchOf, LatchFree, LatchOfResponse, LatchOfEffect, AnnouncedOf
<1> QED BY <1>2, <1>3, <1>4 DEF Settled, Ready

LEMMA SpeechTyped ==
  ASSUME NEW c \in Call, NEW i \in Items, c.gen + 1 \in Generations, NEW f, f = SpeechStarted(c, i)
  PROVE  f \in Call
<1> DEFINE heard == [c.heard EXCEPT ![i] = c.gen + 1]
           queue == ApprovedOnly(c.queue)
           retry == c.retryPending /\ ~\E n \in DOMAIN c.queue : c.queue[n].kind = "recovery"
           active == IF c.active.stage = "lookup_pending" THEN NoTask ELSE c.active
           inFlight == c.inFlight /\ ~Freed(c)
<1>1. heard \in [Items -> Generations]
  BY DEF Call
<1>2. active \in Task /\ NoTask \in Task /\ retry \in BOOLEAN /\ inFlight \in BOOLEAN
  BY TaskFacts DEF Call
<1>3. queue \in Seq(Task)
  BY CallTyped, ApprovedOnlyForm
<1>4. f = [c EXCEPT !.gen = c.gen + 1, !.heard = heard, !.queue = queue, !.retryPending = retry,
                    !.pending = NoTask, !.active = active, !.inFlight = inFlight]
  BY DEF SpeechStarted, Call
<1> HIDE DEF heard, queue, active, retry, inFlight
<1> QED BY ZenonT(60), <1>1, <1>2, <1>3, <1>4 DEF Call

\* The caller is heard to speak.
LEMMA SpeechStartedKeeps ==
  ASSUME NEW c, NEW g, NEW w \in Seq(WireEvent), NEW l, NEW a, NEW p, Settled(c, g, w, l, a, p),
         IsOpen(c), c.created = NoTask, w # <<>>, NEW v, v = Tail(w), Speech(Head(w)),
         NEW i \in Items, c.gen + 1 \in Generations, NEW f, f = SpeechStarted(c, i)
  PROVE  Outcome(f, g, v, l, a, p)
<1>1. c \in Call /\ NoTask \in Task /\ c.queue \in Seq(Task)
  BY TaskFacts DEF Settled, Sound, Call
<1>2. Sound(c, l) /\ LatchOf(c, g, w, l) /\ AnnouncedOf(c, a, w, p)
  BY DEF Settled
<1>3. ApprovedOnly(c.queue) \in Seq(Task)
  BY <1>1, ApprovedOnlyForm
<1>4. /\ f.created = NoTask /\ f.open = c.open /\ f.queue = ApprovedOnly(c.queue)
      /\ f.inFlight = (c.inFlight /\ ~Freed(c))
      /\ f.active = (IF c.active.stage = "lookup_pending" THEN NoTask ELSE c.active)
      /\ f.chain = c.chain /\ f.seq = c.seq
      /\ f.pending = NoTask /\ f.applying = c.applying
      /\ f.recoveries = c.recoveries /\ f.unintelligible = c.unintelligible
      /\ f.turnCount = c.turnCount
  BY <1>1 DEF Call, SpeechStarted
<1>5. f \in Call
  BY <1>1, SpeechTyped
<1>6. /\ QueueSound(f, l) /\ ~RecoveryQueued(f)
      /\ \A n \in DOMAIN f.queue : IsApproved(f.queue[n])
  <2>1. QueueSound(c, l)
    BY <1>2 DEF Sound
  <2> QED BY <1>1, <1>4, <2>1, AnnouncementsFit
<1>7. f.active = c.active \/ f.active = NoTask
  BY <1>4
<1>8. LookupsSound(f, l) /\ ActiveSound(f, l) /\ ChainSound(f)
  <2>1. \A t : Placed(t, f) = Placed(t, c)
    BY <1>4 DEF Placed
  <2>2. LookupsSound(f, l) /\ ChainSound(f)
    BY <1>2, <1>4, <2>1 DEF Sound, LookupsSound, ChainSound
  <2>3. ActiveSound(c, l) /\ f.seq = c.seq /\ f.chain = c.chain
    BY <1>2, <1>4 DEF Sound
  <2>4. ActiveSound(f, l)
    BY <1>7, <2>3, ActiveStays
  <2> QED BY <2>2, <2>4
<1>9. EffectsSound(f) /\ ClosedSound(f, l) /\ AnswerSound(f)
  <2>1. EffectsSound(f) /\ AnswerSound(f)
    BY <1>2, <1>4, TaskFacts DEF Sound, EffectsSound, AnswerSound
  <2>2. f.open
    BY <1>4 DEF IsOpen
  <2> QED BY <2>1, <2>2 DEF ClosedSound
<1>10. CountsSound(f)
  <2>1. CountsSound(c)
    BY <1>2 DEF Sound
  <2>2. Waiting(f) = Waiting(c)
    BY <1>4 DEF Waiting
  <2>3. IsRecovery(f.active) => IsRecovery(c.active)
    BY <1>7, TaskFacts DEF IsRecovery
  <2>4. /\ f.unintelligible <= c.unintelligible /\ c.recoveries <= f.recoveries
        /\ f.turnCount + Waiting(f) <= c.turnCount + Waiting(c) /\ c.seq <= f.seq
    BY <1>1, <1>4, <2>2, CountsTyped
  <2> QED BY <1>1, <1>5, <1>6, <2>1, <2>3, <2>4, CountsStay
<1>11. Sound(f, l)
  BY <1>5, <1>6, <1>8, <1>9, <1>10 DEF Sound
<1>12. Unhurried(f)
  BY <1>6 DEF Unhurried
<1>13. AnnouncedOf(f, a, v, p)
  <2>1. ASSUME f.active.effect # "none", NEW n \in DOMAIN v, Ended(v[n]), v[n].completed
        PROVE  Voiced(f.active, n, a, v, p)
    <3>1. f.active = c.active
      BY <1>7, <2>1, TaskFacts
    <3> QED BY <1>2, <2>1, <3>1, ActiveStaysAnnounced
  <2>2. f.applying # NoTask => f.applying \in p
    BY <1>2, <1>4 DEF AnnouncedOf
  <2>3. f.pending = NoTask
    BY <1>4
  <2> QED BY <2>1, <2>2, <2>3 DEF AnnouncedOf
<1>14. LatchOf(f, g, v, l)
  <2>1. ~Ended(Head(w))
    BY DEF Speech, Ended
  <2>2. LatchOf(c, g, v, l)
    BY <1>2, <2>1, LatchStays
  <2>3. CASE LatchFree(c, g, v)
    BY <1>4, <2>3, TaskFacts DEF LatchFree, LatchOf
  <2>4. CASE LatchOfResponse(c, g, v, l)
    <3>1. CASE c.active.stage = "lookup_pending"
      <4>1. LatchFree(f, g, v)
        BY <1>4, <2>4, <3>1 DEF LatchFree, LatchOfResponse, Freed
      <4> QED BY <4>1 DEF LatchOf
    <3>2. CASE c.active.stage # "lookup_pending"
      <4>1. LatchOfResponse(f, g, v, l)
        BY <1>4, <2>4, <3>2 DEF LatchOfResponse, Freed
      <4> QED BY <4>1 DEF LatchOf
    <3> QED BY <3>1, <3>2
  <2>5. CASE LatchOfEffect(c, g, v)
    <3>1. CASE c.pending = NoTask
      <4>1. LatchOfEffect(f, g, v)
        BY <1>4, <2>5, <3>1, TaskFacts DEF LatchOfEffect, Freed
      <4> QED BY <4>1 DEF LatchOf
    <3>2. CASE c.pending # NoTask
      <4>1. LatchFree(f, g, v)
        BY <1>4, <2>5, <3>2, TaskFacts DEF LatchFree, LatchOfEffect, Freed
      <4> QED BY <4>1 DEF LatchOf
    <3> QED BY <3>1, <3>2
  <2> QED BY <2>2, <2>3, <2>4, <2>5 DEF LatchOf
<1> QED BY <1>4, <1>11, <1>12, <1>13, <1>14 DEF Outcome

\* Two records that differ in nothing the queue and the latch depend on.
Alike(f, c) ==
  /\ f.open = c.open /\ f.queue = c.queue /\ f.inFlight = c.inFlight /\ f.active = c.active
  /\ f.chain = c.chain /\ f.gen = c.gen /\ f.pending = c.pending /\ f.applying = c.applying
  /\ f.turnCount = c.turnCount

LEMMA PlacedLater ==
  ASSUME NEW c \in Call, NEW f \in Call, f.chain = c.chain, c.seq <= f.seq,
         NEW t \in Task, Placed(t, c)
  PROVE  Placed(t, f)
<1>1. t.seq \in Int /\ c.seq \in Int /\ f.seq \in Int
  BY CountsTyped, ConversationAssumption DEF Task, Sequences
<1> QED BY <1>1 DEF Placed

LEMMA AlikeSound ==
  ASSUME NEW c, NEW l, Sound(c, l), NEW f \in Call, Alike(f, c), c.seq <= f.seq,
         CountsSound(f), AnswerSound(f)
  PROVE  Sound(f, l)
<1>1. c \in Call /\ Sound(c, l)
  BY DEF Sound
<1>2. \A t \in Task : Placed(t, c) => Placed(t, f)
  BY <1>1, PlacedLater DEF Alike
<1>3. /\ l \subseteq Task /\ c.active \in Task /\ c.queue \in Seq(Task)
      /\ \A n \in DOMAIN c.queue : c.queue[n] \in Task
  <2>1. l \subseteq Task
    BY <1>1 DEF Sound, LookupsSound
  <2> QED BY <1>1, <2>1, CallTyped
<1>4. QueueSound(f, l)
  <2>1. QueueSound(c, l) /\ f.queue = c.queue /\ f.gen = c.gen /\ f.active = c.active
    BY <1>1 DEF Sound, Alike
  <2>2. ASSUME NEW n \in DOMAIN f.queue
        PROVE  Fits(f.queue[n], f, l)
    <3>1. Fits(c.queue[n], c, l) /\ c.queue[n] \in Task
      BY <1>3, <2>1, <2>2 DEF QueueSound
    <3>2. Placed(c.queue[n], f)
      BY <1>2, <3>1 DEF Fits
    <3> QED BY <2>1, <3>1, <3>2 DEF Fits
  <2> QED BY <2>1, <2>2 DEF QueueSound
<1>5. LookupsSound(f, l) /\ ActiveSound(f, l)
  <2>1. LookupsSound(c, l) /\ ActiveSound(c, l) /\ f.active = c.active
    BY <1>1 DEF Sound, Alike
  <2> QED BY <1>2, <1>3, <2>1 DEF LookupsSound, ActiveSound
<1>6. ChainSound(f)
  <2>1. ChainSound(c) /\ f.chain = c.chain
    BY <1>1 DEF Sound, Alike
  <2>2. c.seq \in Int /\ f.seq \in Int
    BY <1>1, CountsTyped
  <2>3. \A n \in DOMAIN c.chain : c.chain[n].seq \in Int
    BY <1>1, CallTyped
  <2> QED BY <2>1, <2>2, <2>3 DEF ChainSound
<1>7. EffectsSound(f) /\ ClosedSound(f, l)
  BY <1>1 DEF Sound, EffectsSound, ClosedSound, Alike
<1> QED BY <1>4, <1>5, <1>6, <1>7 DEF Sound

LEMMA AlikeKeeps ==
  ASSUME NEW c, NEW g, NEW w, NEW l, NEW a, NEW p, Settled(c, g, w, l, a, p),
         NEW f \in Call, Alike(f, c), c.seq <= f.seq, f.unintelligible <= c.unintelligible,
         c.recoveries <= f.recoveries, AnswerSound(f)
  PROVE  Settled(f, g, w, l, a, p)
<1>1. c \in Call /\ Sound(c, l)
  BY DEF Settled, Sound
<1>2. CountsSound(f)
  <2>1. CountsSound(c) /\ Waiting(f) = Waiting(c) /\ f.turnCount = c.turnCount
    BY <1>1 DEF Sound, Waiting, Alike
  <2>2. (RecoveryQueued(f) => RecoveryQueued(c)) /\ IsRecovery(f.active) = IsRecovery(c.active)
    BY DEF RecoveryQueued, Alike
  <2>3. f.turnCount + Waiting(f) <= c.turnCount + Waiting(c)
    BY <1>1, <2>1, CountsTyped
  <2> QED BY <1>1, <2>1, <2>2, <2>3, CountsStay
<1>3. Sound(f, l)
  BY <1>1, <1>2, AlikeSound
<1>4. Unhurried(f) /\ LatchOf(f, g, w, l) /\ AnnouncedOf(f, a, w, p)
  BY DEF Settled, Unhurried, LatchOf, LatchFree, LatchOfResponse, LatchOfEffect, AnnouncedOf, Alike
<1> QED BY <1>3, <1>4 DEF Settled

LEMMA AlikeReady ==
  ASSUME NEW c, NEW g, NEW w, NEW l, NEW a, NEW p, Ready(c, g, w, l, a, p),
         NEW f \in Call, Alike(f, c), c.seq <= f.seq, CountsSound(f), f.created = NoTask
  PROVE  Ready(f, g, w, l, a, p)
<1>1. Sound(f, l)
  <2>1. Sound(c, l)
    BY DEF Ready
  <2>2. AnswerSound(f)
    BY TaskFacts DEF AnswerSound
  <2> QED BY <2>1, <2>2, AlikeSound
<1>2. LatchOf(f, g, w, l) /\ AnnouncedOf(f, a, w, p)
  BY DEF Ready, LatchOf, LatchFree, LatchOfResponse, LatchOfEffect, AnnouncedOf, Alike
<1>3. f.open
  BY DEF Ready, Alike
<1> QED BY <1>1, <1>2, <1>3 DEF Ready

LEMMA SettledIsOutcome ==
  ASSUME NEW c, NEW g, NEW w, NEW l, NEW a, NEW p, Settled(c, g, w, l, a, p), c.created = NoTask
  PROVE  Outcome(c, g, w, l, a, p)
BY DEF Settled, Outcome

\* Transcripts, and the failure to make one, touch neither latch nor announcements.
LEMMA WordsKeep ==
  ASSUME NEW c, NEW g, NEW w \in Seq(WireEvent), NEW l, NEW a, NEW p, Settled(c, g, w, l, a, p),
         w # <<>>, NEW v, v = Tail(w),
         Head(w).type \in {"transcribed", "transcript_failed"}
  PROVE  Settled(c, g, v, l, a, p)
<1>1. ~Speech(Head(w)) /\ ~Ended(Head(w)) /\ ~Stopped(Head(w))
  BY DEF Speech, Ended, Stopped
<1>2. LatchOf(c, g, w, l) /\ AnnouncedOf(c, a, w, p)
  BY DEF Settled
<1>3. LatchOf(c, g, v, l)
  BY <1>1, <1>2, LatchStays
<1>4. AnnouncedOf(c, a, v, p)
  <2>1. ASSUME c.active.effect # "none", NEW n \in DOMAIN v, Ended(v[n]), v[n].completed
        PROVE  Voiced(c.active, n, a, v, p)
    BY <1>2, <2>1, ActiveStaysAnnounced
  <2>2. ASSUME c.pending # NoTask
        PROVE  Voiced(c.pending, 0, a, v, p)
    <3>1. Voiced(c.pending, 0, a, w, p)
      BY <1>2, <2>2 DEF AnnouncedOf
    <3> QED BY <1>1, <3>1, VoicedStays
  <2> QED BY <1>2, <2>1, <2>2 DEF AnnouncedOf
<1> QED BY <1>3, <1>4 DEF Settled

\* An item's generation is forgotten.
LEMMA ForgetKeeps ==
  ASSUME NEW c, NEW g, NEW w, NEW l, NEW a, NEW p, Settled(c, g, w, l, a, p), c.created = NoTask,
         NEW i \in Items, NEW d, d = Forget(c, i)
  PROVE  /\ d \in Call /\ Settled(d, g, w, l, a, p) /\ Alike(d, c) /\ d.created = NoTask
         /\ d.seq = c.seq /\ d.mode = c.mode
         /\ d.recoveries = c.recoveries /\ d.unintelligible = c.unintelligible
<1>1. c \in Call
  BY DEF Settled, Sound
<1>2. 0 \in Generations
  BY ConversationAssumption DEF Generations
<1>3. [c.heard EXCEPT ![i] = 0] \in [Items -> Generations]
  BY <1>1, <1>2 DEF Call
<1>4. d \in Call
  BY <1>1, <1>3 DEF Forget, Call
<1>5. /\ Alike(d, c) /\ d.created = NoTask /\ d.seq = c.seq /\ d.mode = c.mode
      /\ d.recoveries = c.recoveries /\ d.unintelligible = c.unintelligible
  BY <1>1 DEF Forget, Call, Alike
<1>6. AnswerSound(d)
  BY <1>5, TaskFacts DEF AnswerSound
<1>7. c.seq <= d.seq /\ d.unintelligible <= c.unintelligible /\ c.recoveries <= d.recoveries
  BY <1>1, <1>5, CountsTyped
<1>8. Settled(d, g, w, l, a, p)
  BY <1>4, <1>5, <1>6, <1>7, AlikeKeeps
<1> QED BY <1>4, <1>5, <1>8

LEMMA OneMoreWaits ==
  ASSUME NEW t \in Int, NEW x \in Int, NEW r \in Int, NEW s \in Int, NEW y \in Int, NEW z \in Int,
         t + x + r <= s, y + s + 1 <= r + z
  PROVE  t + (x + 1) + y <= z
OBVIOUS

LEMMA CountsGrow ==
  ASSUME NEW c \in Call, CountsSound(c), NEW f \in Call, Waiting(f) = Waiting(c) + 1,
         f.turnCount = c.turnCount, f.unintelligible <= c.unintelligible,
         c.recoveries <= f.recoveries,
         Recovering(f) + c.seq + 1 <= Recovering(c) + f.seq, Recovering(f) <= Recovering(c)
  PROVE  CountsSound(f)
<1>1. /\ Waiting(c) \in Int /\ Recovering(c) \in Int /\ c.unintelligible \in Int
      /\ c.recoveries \in Int /\ c.turnCount \in Int /\ c.seq \in Int
  BY CountsTyped
<1>2. Recovering(f) \in Int /\ f.unintelligible \in Int /\ f.recoveries \in Int /\ f.seq \in Int
  BY CountsTyped
<1>3. /\ c.unintelligible + Recovering(c) <= c.recoveries
      /\ c.turnCount + Waiting(c) + Recovering(c) <= c.seq
  BY DEF CountsSound
<1>4. f.unintelligible + Recovering(f) <= f.recoveries
  BY <1>1, <1>2, <1>3
<1>5. c.turnCount + (Waiting(c) + 1) + Recovering(f) <= f.seq
  BY <1>1, <1>2, <1>3, OneMoreWaits
<1> QED BY <1>4, <1>5 DEF CountsSound

\* A turn joins the chain: nothing that is asked for is of its input.
LEMMA ChainGrows ==
  ASSUME NEW c, NEW l, Sound(c, l), NEW f \in Call, NEW u \in Turn, ~IsAsking(u),
         f.chain = Append(c.chain, u), u.seq = f.seq, c.seq <= f.seq,
         f.active = c.active \/ f.active = NoTask,
         \A n \in DOMAIN c.chain : c.chain[n].seq # u.seq,
         \A t \in l : t.seq # u.seq, Asked(f.active) => f.active.seq # u.seq,
         f.turnCount = c.turnCount, f.unintelligible <= c.unintelligible,
         c.recoveries <= f.recoveries,
         Recovering(f) + c.seq + 1 <= Recovering(c) + f.seq, Recovering(f) <= Recovering(c)
  PROVE  /\ ChainSound(f) /\ LookupsSound(f, l) /\ ActiveSound(f, l) /\ CountsSound(f)
         /\ \A t \in Task : Placed(t, c) /\ (Asked(t) => t.seq # u.seq) => Placed(t, f)
<1>0. c \in Call
  BY DEF Sound
<1>1. /\ c.seq \in Int /\ f.seq \in Int /\ u.seq \in Int
      /\ \A t \in Task : t.seq \in Int
  BY <1>0, CountsTyped, ConversationAssumption DEF Task, Turn, Sequences
<1>2. /\ Len(c.chain) \in Nat /\ DOMAIN c.chain = 1 .. Len(c.chain)
      /\ \A n \in DOMAIN c.chain : c.chain[n].seq \in Int
  BY <1>0, CallTyped
<1>3. /\ DOMAIN f.chain = 1 .. Len(c.chain) + 1 /\ f.chain # <<>> /\ Len(f.chain) = Len(c.chain) + 1
      /\ \A n \in DOMAIN c.chain : f.chain[n] = c.chain[n]
      /\ f.chain[Len(c.chain) + 1] = u
  BY <1>0, Appended DEF Call
<1>4. \A n \in DOMAIN f.chain : \/ n \in DOMAIN c.chain /\ f.chain[n] = c.chain[n]
                                \/ n = Len(c.chain) + 1 /\ f.chain[n] = u
  BY <1>2, <1>3
<1>5. /\ \A n \in DOMAIN c.chain : c.chain[n].seq <= c.seq /\ (n > 1 => ~IsAsking(c.chain[n]))
      /\ \A m, n \in DOMAIN c.chain : m < n => c.chain[m].seq < c.chain[n].seq
  BY DEF Sound, ChainSound
<1>6. \A n \in DOMAIN c.chain : c.chain[n].seq < u.seq
  BY <1>1, <1>2, <1>5
<1>7. ChainSound(f)
  <2>1. \A n \in DOMAIN f.chain : f.chain[n].seq <= f.seq /\ (n > 1 => ~IsAsking(f.chain[n]))
    BY <1>1, <1>2, <1>4, <1>5
  <2>2. ASSUME NEW m \in DOMAIN f.chain, NEW n \in DOMAIN f.chain, m < n
        PROVE  f.chain[m].seq < f.chain[n].seq
    <3>1. m \in DOMAIN c.chain /\ f.chain[m] = c.chain[m]
      BY <1>2, <1>3, <1>4, <2>2
    <3> QED BY <1>4, <1>5, <1>6, <2>2, <3>1
  <2> QED BY <2>1, <2>2 DEF ChainSound
<1>8. ASSUME NEW t \in Task, Placed(t, c), Asked(t) => t.seq # u.seq
      PROVE  Placed(t, f)
  <2> SUFFICES ASSUME Asked(t) PROVE Placed(t, f)
    BY DEF Placed
  <2>1. t.seq <= c.seq /\ t.seq # u.seq /\ t.seq \in Int
    BY <1>1, <1>8 DEF Placed
  <2>2. t.seq <= f.seq /\ t.seq < u.seq
    BY <1>1, <2>1
  <2>3. ASSUME NEW n \in DOMAIN f.chain
        PROVE  t.seq # f.chain[n].seq /\ (IsDirect(t) => t.seq < f.chain[n].seq)
    <3>1. CASE n \in DOMAIN c.chain /\ f.chain[n] = c.chain[n]
      BY <1>8, <3>1 DEF Placed
    <3>2. CASE f.chain[n] = u
      BY <2>1, <2>2, <3>2
    <3> QED BY <1>4, <2>3, <3>1, <3>2
  <2> QED BY <2>2, <2>3 DEF Placed
<1>9. LookupsSound(f, l)
  <2>1. LookupsSound(c, l)
    BY DEF Sound
  <2> QED BY <1>8, <2>1 DEF LookupsSound
<1>10. ActiveSound(f, l)
  <2>1. CASE f.active = NoTask
    <3>1. Formed(f.active) /\ Placed(f.active, f) /\ \A t : Before(t, f.active)
      BY <2>1, NobodyIsPlaced, TaskFacts
    <3> QED BY <3>1 DEF ActiveSound
  <2>2. CASE f.active = c.active
    <3>1. ActiveSound(c, l)
      BY DEF Sound
    <3>2. Placed(f.active, f)
      BY <1>0, <1>8, <2>2, <3>1, CallTyped DEF ActiveSound
    <3> QED BY <2>2, <3>1, <3>2 DEF ActiveSound
  <2> QED BY <2>1, <2>2
<1>11. CountsSound(f)
  <2>1. CountsSound(c)
    BY DEF Sound
  <2>2. Waiting(f) = Waiting(c) + 1
    <3>1. (c.chain # <<>> /\ IsAsking(c.chain[1])) <=> (f.chain # <<>> /\ IsAsking(f.chain[1]))
      <4>1. CASE c.chain = <<>>
        <5>1. Len(c.chain) = 0
          BY <4>1
        <5> QED BY <1>3, <4>1, <5>1
      <4>2. CASE c.chain # <<>>
        <5>1. 1 \in DOMAIN c.chain
          BY <1>0, <1>2, <4>2, Tailed, CallTyped
        <5> QED BY <1>3, <4>2, <5>1
      <4> QED BY <4>1, <4>2
    <3>2. CASE c.chain # <<>> /\ IsAsking(c.chain[1])
      <4>1. Waiting(c) = Len(c.chain) - 1
        BY <3>2 DEF Waiting
      <4>2. Waiting(f) = Len(f.chain) - 1
        BY <3>1, <3>2 DEF Waiting
      <4> QED BY <1>2, <1>3, <4>1, <4>2
    <3>3. CASE ~(c.chain # <<>> /\ IsAsking(c.chain[1]))
      <4>1. Waiting(c) = Len(c.chain) - 0
        BY <3>3 DEF Waiting
      <4>2. Waiting(f) = Len(f.chain) - 0
        BY <3>1, <3>3 DEF Waiting
      <4> QED BY <1>2, <1>3, <4>1, <4>2
    <3> QED BY <3>2, <3>3
  <2> QED BY <1>0, <2>1, <2>2, CountsGrow
<1> QED BY <1>7, <1>8, <1>9, <1>10, <1>11

\* Nothing known so far is of an input that comes next.
LEMMA NextInputIsNew ==
  ASSUME NEW c, NEW l, Sound(c, l)
  PROVE  /\ \A n \in DOMAIN c.chain : c.chain[n].seq # c.seq + 1
         /\ \A t \in l : Asked(t) => t.seq # c.seq + 1
         /\ Asked(c.active) => c.active.seq # c.seq + 1
         /\ \A n \in DOMAIN c.queue : Asked(c.queue[n]) => c.queue[n].seq # c.seq + 1
         /\ \A t \in l : Asked(t)
<1>1. c \in Call
  BY DEF Sound
<1>2. c.seq \in Int /\ \A t \in Task : t.seq \in Int
  BY <1>1, CountsTyped, ConversationAssumption DEF Task, Sequences
<1>3. \A t \in Task : Placed(t, c) /\ Asked(t) => t.seq # c.seq + 1
  BY <1>2 DEF Placed
<1>4. \A n \in DOMAIN c.chain : c.chain[n].seq # c.seq + 1
  <2>1. \A n \in DOMAIN c.chain : c.chain[n].seq \in Int /\ c.chain[n].seq <= c.seq
    BY <1>1, CallTyped DEF Sound, ChainSound
  <2> QED BY <1>2, <2>1
<1>5. \A t \in l : t \in Task /\ Placed(t, c) /\ IsDirect(t)
  BY DEF Sound, LookupsSound, Formed
<1>6. c.active \in Task /\ Placed(c.active, c)
  BY <1>1, CallTyped DEF Sound, ActiveSound
<1>7. \A n \in DOMAIN c.queue : c.queue[n] \in Task /\ Placed(c.queue[n], c)
  BY <1>1, CallTyped DEF Sound, QueueSound, Fits
<1> QED BY <1>3, <1>4, <1>5, <1>6, <1>7 DEF Asked

\* A transcript of the current generation joins the chain as turn u.
Accepted(d, u) ==
  [d EXCEPT !.retryPending = FALSE, !.unintelligible = 0, !.seq = @ + 1,
            !.queue = ApprovedOnly(@), !.chain = Append(@, u)]

LEMMA TranscribedTyped ==
  ASSUME NEW d \in Call, d.seq + 1 \in Sequences, NEW u \in Turn,
         NEW f, f = Accepted(d, u)
  PROVE  /\ f \in Call
         /\ f.queue = ApprovedOnly(d.queue) /\ f.chain = Append(d.chain, u) /\ f.seq = d.seq + 1
         /\ f.gen = d.gen /\ f.active = d.active /\ f.open = d.open /\ f.inFlight = d.inFlight
         /\ f.pending = d.pending /\ f.applying = d.applying /\ f.created = d.created
         /\ f.turnCount = d.turnCount /\ f.recoveries = d.recoveries /\ f.unintelligible = 0
<1>1. ApprovedOnly(d.queue) \in Seq(Task) /\ Append(d.chain, u) \in Seq(Turn)
  BY CallTyped, ApprovedOnlyForm, Appended
<1>2. 0 \in 0 .. MaxRecoveries
  BY ConversationAssumption
<1>3. f \in Call
  BY <1>1, <1>2 DEF Call, Accepted
<1> QED BY <1>3 DEF Call, Accepted

LEMMA TranscribedKeeps ==
  ASSUME NEW c, NEW g, NEW w, NEW l, NEW a, NEW p, Settled(c, g, w, l, a, p), IsOpen(c),
         c.created = NoTask, NEW i \in Items, c.seq + 1 \in Sequences, NEW f, f = Transcribed(c, i)
  PROVE  Outcome(f, g, w, l, a, p)
<1> DEFINE d == Forget(c, i)
           u == [item |-> i, seq |-> c.seq + 1, gen |-> c.gen, asking |-> FALSE]
<1>1. /\ d \in Call /\ Settled(d, g, w, l, a, p) /\ Alike(d, c) /\ d.created = NoTask
      /\ d.seq = c.seq /\ d.recoveries = c.recoveries /\ d.unintelligible = c.unintelligible
  BY ForgetKeeps
<1>2. CASE GenOf(c, i) # c.gen
  <2>1. f = d
    BY <1>2 DEF Transcribed
  <2> HIDE DEF d
  <2> QED BY <1>1, <2>1, SettledIsOutcome
<1>3. CASE GenOf(c, i) = c.gen
  <2>1. f = Accepted(d, u)
    BY <1>3 DEF Transcribed, Accepted
  <2>2. c \in Call /\ Sound(c, l) /\ Sound(d, l)
    BY <1>1 DEF Settled, Sound
  <2> HIDE DEF d
  <2>3. u \in Turn /\ u.seq = c.seq + 1 /\ ~IsAsking(u)
    <3>1. c.gen \in Generations
      BY <2>2, CallTyped
    <3> QED BY <3>1 DEF IsAsking, Turn
  <2> HIDE DEF u
  <2>4. /\ d.queue \in Seq(Task) /\ d.chain \in Seq(Turn) /\ d.chain = c.chain /\ d.gen = c.gen
        /\ d.active = c.active /\ d.seq \in Int
    BY <1>1, CallTyped, CountsTyped DEF Alike
  <2>7. /\ f \in Call
        /\ f.queue = ApprovedOnly(d.queue) /\ f.chain = Append(d.chain, u) /\ f.seq = d.seq + 1
        /\ f.gen = d.gen /\ f.active = d.active /\ f.open = d.open /\ f.inFlight = d.inFlight
        /\ f.pending = d.pending /\ f.applying = d.applying /\ f.created = d.created
        /\ f.turnCount = d.turnCount /\ f.recoveries = d.recoveries /\ f.unintelligible = 0
    <3>1. d \in Call /\ d.seq + 1 \in Sequences
      BY <1>1
    <3> QED BY <2>1, <2>3, <3>1, TranscribedTyped
  <2>6. f.created = NoTask
    BY <1>1, <2>7
  <2>8. /\ QueueSound(f, l) /\ ~RecoveryQueued(f)
        /\ \A n \in DOMAIN f.queue : IsApproved(f.queue[n])
    <3>1. QueueSound(d, l) /\ d.queue \in Seq(Task) /\ f.queue = ApprovedOnly(d.queue)
      BY <2>2, <2>4, <2>7 DEF Sound
    <3> QED BY <3>1, AnnouncementsFit
  <2>9. /\ ChainSound(f) /\ LookupsSound(f, l) /\ ActiveSound(f, l) /\ CountsSound(f)
    <3>1. Recovering(f) <= Recovering(d) /\ Recovering(d) \in Int /\ Recovering(f) \in Int
      BY <2>6, <2>7, <2>8 DEF Recovering
    <3>2. /\ f.chain = Append(d.chain, u) /\ u.seq = f.seq /\ d.seq <= f.seq
          /\ f.active = d.active /\ f.turnCount = d.turnCount /\ ~IsAsking(u)
          /\ f.unintelligible <= d.unintelligible /\ d.recoveries <= f.recoveries
      <4>1. d.unintelligible \in Nat /\ d.recoveries \in Nat
        BY <1>1, CountsTyped
      <4> QED BY <1>1, <2>3, <2>4, <2>6, <2>7, <4>1
    <3>3. Recovering(f) + d.seq + 1 <= Recovering(d) + f.seq
      <4>1. f.seq = d.seq + 1 /\ d.seq \in Int
        BY <2>4, <2>7
      <4> QED BY <3>1, <4>1
    <3>4. /\ \A n \in DOMAIN d.chain : d.chain[n].seq # u.seq
          /\ \A t \in l : t.seq # u.seq
          /\ Asked(f.active) => f.active.seq # u.seq
      <4>1. u.seq = d.seq + 1 /\ f.active = d.active
        BY <1>1, <2>3, <3>2
      <4> QED BY <2>2, <4>1, NextInputIsNew
    <3> QED BY <2>2, <2>3, <2>7, <3>1, <3>2, <3>3, <3>4, ChainGrows
  <2>10. EffectsSound(f) /\ ClosedSound(f, l) /\ AnswerSound(f)
    <3>1. EffectsSound(f) /\ AnswerSound(f)
      BY <2>2, <2>6, <2>7, TaskFacts DEF Sound, EffectsSound, AnswerSound
    <3>2. f.open = TRUE
      BY <1>1, <2>6, <2>7 DEF Alike, IsOpen
    <3> QED BY <3>1, <3>2 DEF ClosedSound
  <2>11. Sound(f, l)
    BY <2>7, <2>8, <2>9, <2>10 DEF Sound
  <2>12. Unhurried(f)
    BY <2>8 DEF Unhurried
  <2>13. LatchOf(f, g, w, l) /\ AnnouncedOf(f, a, w, p)
    BY <1>1, <2>6, <2>7 DEF Settled, LatchOf, LatchFree, LatchOfResponse, LatchOfEffect, AnnouncedOf
  <2> QED BY <2>6, <2>7, <2>11, <2>12, <2>13 DEF Outcome
<1> QED BY <1>2, <1>3

\* The queue without its recovery.
Lasting(c) == [c EXCEPT !.queue = Filter(@, IsLasting)]

LEMMA FilteredQueue ==
  ASSUME NEW c \in Call
  PROVE  LET ids == {n \in DOMAIN c.queue : IsLasting(c.queue[n])}
         IN /\ ids \in SUBSET DOMAIN c.queue /\ Filter(c.queue, IsLasting) \in Seq(Task)
            /\ Selects(Filter(c.queue, IsLasting), c.queue, ids)
<1> DEFINE ids == {n \in DOMAIN c.queue : IsLasting(c.queue[n])}
<1>1. ids \in SUBSET DOMAIN c.queue /\ c.queue \in Seq(Task)
  BY CallTyped
<1>2. Filter(c.queue, IsLasting) = Subsequence(c.queue, ids)
  BY DEF Filter
<1> HIDE DEF ids
<1>3. /\ Subsequence(c.queue, ids) \in Seq(Task)
      /\ Selects(Subsequence(c.queue, ids), c.queue, ids)
  BY <1>1, SubsequenceForm
<1> QED BY <1>1, <1>2, <1>3 DEF ids

LEMMA LastingKeeps ==
  ASSUME NEW c, NEW g, NEW w, NEW l, NEW a, NEW p, Ready(c, g, w, l, a, p),
         NEW f, f = Lasting(c)
  PROVE  /\ Ready(f, g, w, l, a, p) /\ ~RecoveryQueued(f) /\ f.seq = c.seq /\ f.gen = c.gen
         /\ f.chain = c.chain /\ f.active = c.active /\ f.turnCount = c.turnCount
         /\ f.recoveries = c.recoveries /\ f.unintelligible = c.unintelligible
         /\ f.queue = Filter(c.queue, IsLasting)
         /\ \A k \in DOMAIN f.queue : \E n \in DOMAIN c.queue : f.queue[k] = c.queue[n]
<1> DEFINE ids == {n \in DOMAIN c.queue : IsLasting(c.queue[n])}
<1>1. c \in Call /\ Sound(c, l)
  BY DEF Ready, Sound
<1>2. /\ ids \in SUBSET DOMAIN c.queue /\ Filter(c.queue, IsLasting) \in Seq(Task)
      /\ Selects(Filter(c.queue, IsLasting), c.queue, ids)
  BY <1>1, FilteredQueue
<1>3. \A n \in ids : ~IsRecovery(c.queue[n])
  BY DEF IsLasting, IsRecovery
<1> HIDE DEF ids
<1>4. /\ f.queue = Filter(c.queue, IsLasting) /\ f.active = c.active /\ f.open = c.open
      /\ f.created = c.created /\ f.chain = c.chain /\ f.seq = c.seq /\ f.gen = c.gen
      /\ f.pending = c.pending /\ f.applying = c.applying /\ f.recoveries = c.recoveries
      /\ f.unintelligible = c.unintelligible /\ f.turnCount = c.turnCount
      /\ f.inFlight = c.inFlight
  BY <1>1 DEF Call, Lasting
<1>5. f \in Call
  BY <1>1, <1>2 DEF Call, Lasting
<1>6. /\ QueueSound(f, l)
      /\ \A k \in DOMAIN f.queue : \E n \in ids : f.queue[k] = c.queue[n]
  <2>1. QueueSound(c, l) /\ Selects(f.queue, c.queue, ids) /\ f.active = c.active
        /\ f.seq = c.seq /\ f.gen = c.gen /\ f.chain = c.chain /\ c \in Call
        /\ ids \in SUBSET DOMAIN c.queue
    BY <1>1, <1>2, <1>4 DEF Sound
  <2> QED BY <1>5, <2>1, QueueSelects
<1>7. ~RecoveryQueued(f) /\ \A k \in DOMAIN f.queue : \E n \in DOMAIN c.queue : f.queue[k] = c.queue[n]
  BY <1>2, <1>3, <1>6 DEF RecoveryQueued
<1>8. LookupsSound(f, l) /\ ActiveSound(f, l) /\ ChainSound(f)
  BY <1>1, <1>4 DEF Sound, LookupsSound, ActiveSound, ChainSound, Placed
<1>9. EffectsSound(f) /\ ClosedSound(f, l) /\ AnswerSound(f)
  BY <1>1, <1>4 DEF Sound, EffectsSound, ClosedSound, AnswerSound
<1>10. CountsSound(f)
  <2>1. CountsSound(c) /\ Waiting(f) = Waiting(c) /\ f.active = c.active
    BY <1>1, <1>4 DEF Sound, Waiting
  <2>2. /\ f.unintelligible <= c.unintelligible /\ c.recoveries <= f.recoveries
        /\ f.turnCount + Waiting(f) <= c.turnCount + Waiting(c) /\ c.seq <= f.seq
    BY <1>1, <1>4, <2>1, CountsTyped
  <2> QED BY <1>1, <1>5, <1>7, <2>1, <2>2, CountsStay
<1>11. Sound(f, l)
  BY <1>5, <1>6, <1>8, <1>9, <1>10 DEF Sound
<1>12. Ready(f, g, w, l, a, p)
  <2>1. LatchOf(f, g, w, l) /\ AnnouncedOf(f, a, w, p)
    BY <1>4 DEF Ready, LatchOf, LatchFree, LatchOfResponse, LatchOfEffect, AnnouncedOf
  <2>2. f.open /\ f.created = NoTask
    BY <1>4 DEF Ready
  <2> QED BY <1>11, <2>1, <2>2 DEF Ready
<1> QED BY <1>4, <1>7, <1>12

\* A recovery of an input that nothing else is of.
LEMMA RecoveryJoins ==
  ASSUME NEW c, NEW l, Sound(c, l), ~RecoveryQueued(c), NEW i \in Items,
         \A n \in DOMAIN c.chain : c.chain[n].seq # c.seq,
         \A u \in l : u.seq # c.seq,
         Asked(c.active) => c.active.seq # c.seq,
         \A n \in DOMAIN c.queue : Asked(c.queue[n]) => c.queue[n].seq # c.seq,
         c.unintelligible + Recovering(c) + 1 <= c.recoveries,
         c.turnCount + Waiting(c) + Recovering(c) + 1 <= c.seq
  PROVE  Joins(Recovery(i, c.seq, c.gen), c, l)
<1> DEFINE t == Recovery(i, c.seq, c.gen)
<1>1. c \in Call /\ c.seq \in Sequences /\ c.gen \in Generations
  BY DEF Sound, Call
<1>2. /\ t \in Task /\ t.kind = "recovery" /\ t.seq = c.seq /\ t.item = i /\ t.effect = "none"
      /\ t.stage = "none"
  <2>1. i \in 0 .. MaxItems
    BY ConversationAssumption DEF Items
  <2> QED BY <1>1, <2>1, TaskFacts DEF Recovery, Task
<1> HIDE DEF t
<1>3. IsRecovery(t) /\ ~IsDirect(t) /\ Formed(t)
  BY <1>2 DEF IsRecovery, IsDirect, Formed, Asked
<1>4. c.seq \in Int /\ \A u \in Task : u.seq \in Int
  BY <1>1, CountsTyped, ConversationAssumption DEF Task, Sequences
<1>5. \A u \in Task : Placed(u, c) /\ (Asked(u) => u.seq # c.seq) => Before(u, t)
  BY <1>2, <1>4 DEF Before, Placed
<1>6. Before(c.active, t)
  <2>1. c.active \in Task /\ Placed(c.active, c)
    BY <1>1, CallTyped DEF Sound, ActiveSound
  <2> QED BY <1>5, <2>1
<1>7. \A u \in l : Before(u, t)
  <2>1. \A u \in l : u \in Task /\ Placed(u, c)
    BY DEF Sound, LookupsSound
  <2> QED BY <1>5, <2>1
<1>8. \A n \in DOMAIN c.queue : Before(c.queue[n], t) /\ ~IsRecovery(c.queue[n])
  <2>1. \A n \in DOMAIN c.queue : c.queue[n] \in Task /\ Placed(c.queue[n], c)
    BY <1>1, CallTyped DEF Sound, QueueSound, Fits
  <2> QED BY <1>5, <2>1 DEF RecoveryQueued
<1>9. Placed(t, c)
  BY <1>2, <1>3, <1>4 DEF Placed
<1>10. Fits(t, c, l)
  BY <1>2, <1>3, <1>6, <1>7, <1>9 DEF Fits
<1>11. Joins(t, c, l)
  BY <1>2, <1>8, <1>10 DEF Joins
<1> QED BY <1>11 DEF t

LEMMA RoomForRecovery ==
  ASSUME NEW e \in Call, CountsSound(e), NEW m \in Call, Waiting(m) = Waiting(e),
         Recovering(m) <= Recovering(e), m.recoveries = e.recoveries + 1, m.seq = e.seq + 1,
         m.unintelligible = e.unintelligible, m.turnCount = e.turnCount
  PROVE  /\ m.unintelligible + Recovering(m) + 1 <= m.recoveries
         /\ m.turnCount + Waiting(m) + Recovering(m) + 1 <= m.seq
<1>1. /\ Waiting(e) \in Int /\ Recovering(e) \in Int /\ e.unintelligible \in Int
      /\ e.recoveries \in Int /\ e.turnCount \in Int /\ e.seq \in Int /\ Recovering(m) \in Int
  BY CountsTyped
<1>2. /\ e.unintelligible + Recovering(e) <= e.recoveries
      /\ e.turnCount + Waiting(e) + Recovering(e) <= e.seq
  BY DEF CountsSound
<1> QED BY <1>1, <1>2

\* The words of an item that cannot be made out.
LEMMA FailedKeeps ==
  ASSUME NEW c, NEW g, NEW w, NEW l, NEW a, NEW p, Settled(c, g, w, l, a, p), IsOpen(c),
         c.created = NoTask, NEW i \in Items, c.seq + 1 \in Sequences,
         NEW f, f = TranscriptionFailed(c, i)
  PROVE  Outcome(f, g, w, l, a, p)
<1> DEFINE e == Forget(c, i)
           d == [e EXCEPT !.seq = @ + 1]
           h == [d EXCEPT !.recoveries = @ + 1]
           k == [d EXCEPT !.retryPending = TRUE]
<1>1. /\ e \in Call /\ Settled(e, g, w, l, a, p) /\ Alike(e, c) /\ e.created = NoTask
      /\ e.seq = c.seq /\ e.recoveries = c.recoveries /\ e.unintelligible = c.unintelligible
      /\ e.mode = c.mode
  BY ForgetKeeps
<1>2. CASE GenOf(c, i) # c.gen
  <2>1. f = e
    BY <1>2 DEF TranscriptionFailed
  <2> HIDE DEF e
  <2> QED BY <1>1, <2>1, SettledIsOutcome
<1>3. CASE GenOf(c, i) = c.gen
  <2>1. f = IF c.mode = "phone_fast"
            THEN IF c.recoveries = MaxRecoveries THEN d
                 ELSE EnqueueRecovery(h, Recovery(i, d.seq, d.gen))
            ELSE IF c.retryPending THEN d ELSE EnqueueTask(k, Approved("none", i))
    BY <1>3 DEF TranscriptionFailed
  <2> HIDE DEF e
  <2>2. e.seq + 1 \in Sequences /\ e.seq \in Int
    BY <1>1, CountsTyped
  <2>3. /\ d \in Call /\ Alike(d, e) /\ d.created = NoTask /\ d.seq = e.seq + 1
        /\ d.recoveries = e.recoveries /\ d.unintelligible = e.unintelligible /\ d.open = TRUE
    <3>1. d \in Call
      BY <1>1, <2>2 DEF Call
    <3> QED BY <1>1, <3>1 DEF Call, Alike, IsOpen
  <2>4. Settled(d, g, w, l, a, p)
    <3>1. /\ d \in Call /\ Alike(d, e) /\ AnswerSound(d)
          /\ e.seq <= d.seq /\ d.unintelligible <= e.unintelligible /\ e.recoveries <= d.recoveries
      BY <1>1, <2>2, <2>3, CountsTyped, TaskFacts DEF AnswerSound
    <3> QED BY <1>1, <3>1, AlikeKeeps
  <2>5. CASE f = d
    BY <2>3, <2>4, <2>5, SettledIsOutcome
  <2>6. CASE f = EnqueueTask(k, Approved("none", i))
    <3>1. /\ k \in Call /\ Alike(k, d) /\ k.created = NoTask /\ k.seq = d.seq /\ k.open = TRUE
          /\ k.recoveries = d.recoveries /\ k.unintelligible = d.unintelligible
      BY <2>3 DEF Call, Alike
    <3> HIDE DEF k
    <3>2. /\ AnswerSound(k) /\ d.seq <= k.seq /\ k.unintelligible <= d.unintelligible
          /\ d.recoveries <= k.recoveries
      BY <2>3, <3>1, CountsTyped, TaskFacts DEF AnswerSound
    <3>3. Settled(k, g, w, l, a, p)
      BY <2>4, <3>1, <3>2, AlikeKeeps
    <3>4. Ready(k, g, w, l, a, p)
      BY <3>1, <3>3 DEF Ready, Settled
    <3>5. "none" \in Effects /\ i \in 0 .. MaxItems
      BY ConversationAssumption DEF Effects, Items
    <3> QED BY <2>6, <3>4, <3>5, AnnounceFrom
  <2>7. CASE c.recoveries # MaxRecoveries /\ f = EnqueueRecovery(h, Recovery(i, d.seq, d.gen))
    <3>0. d.recoveries + 1 \in 0 .. MaxRecoveries
      <4>1. d.recoveries \in 0 .. MaxRecoveries /\ d.recoveries # MaxRecoveries
        BY <1>1, <2>3, <2>7 DEF Call
      <4> QED BY <4>1, ConversationAssumption
    <3>1. /\ h \in Call /\ Alike(h, d) /\ h.created = NoTask /\ h.seq = d.seq /\ h.open = TRUE
          /\ h.recoveries = d.recoveries + 1 /\ h.unintelligible = d.unintelligible
      <4>1. h \in Call
        BY <2>3, <3>0 DEF Call
      <4> QED BY <2>3, <4>1 DEF Call, Alike
    <3>2. f = Flush(Joined(Lasting(h), Recovery(i, h.seq, h.gen)))
      <4>1. f = EnqueueRecovery(h, Recovery(i, h.seq, h.gen))
        BY <2>3, <2>7, <3>1 DEF Alike
      <4> HIDE DEF h
      <4>2. [h EXCEPT !.queue = Append(Filter(h.queue, IsLasting), Recovery(i, h.seq, h.gen))]
              = Joined(Lasting(h), Recovery(i, h.seq, h.gen))
        BY <3>1 DEF Call, Joined, Lasting
      <4> QED BY <4>1, <4>2 DEF EnqueueRecovery
    <3> HIDE DEF d, h
    <3>3. /\ AnswerSound(h) /\ d.seq <= h.seq /\ h.unintelligible <= d.unintelligible
          /\ d.recoveries <= h.recoveries
      BY <2>3, <3>1, CountsTyped, TaskFacts DEF AnswerSound
    <3>4. Settled(h, g, w, l, a, p)
      BY <2>3, <2>4, <3>1, <3>3, AlikeKeeps
    <3>5. Ready(h, g, w, l, a, p)
      BY <3>1, <3>4 DEF Ready, Settled
    <3> DEFINE m == Lasting(h)
    <3>13. m = Lasting(h)
      OBVIOUS
    <3> HIDE DEF m
    <3>6. /\ Ready(m, g, w, l, a, p) /\ ~RecoveryQueued(m) /\ m.seq = h.seq /\ m.gen = h.gen
          /\ m.chain = h.chain /\ m.active = h.active /\ m.turnCount = h.turnCount
          /\ m.recoveries = h.recoveries /\ m.unintelligible = h.unintelligible
          /\ \A x \in DOMAIN m.queue : \E n \in DOMAIN h.queue : m.queue[x] = h.queue[n]
      BY <3>5, <3>13, LastingKeeps DEF IsOpen
    <3>7. /\ h.seq = e.seq + 1 /\ h.chain = e.chain /\ h.active = e.active /\ h.queue = e.queue
          /\ h.turnCount = e.turnCount
      BY <2>3, <3>1 DEF Alike
    <3>8. Sound(e, l) /\ e \in Call
      BY <1>1 DEF Settled
    <3>9. /\ \A n \in DOMAIN m.chain : m.chain[n].seq # m.seq
          /\ \A u \in l : u.seq # m.seq
          /\ Asked(m.active) => m.active.seq # m.seq
          /\ \A n \in DOMAIN m.queue : Asked(m.queue[n]) => m.queue[n].seq # m.seq
      BY <3>6, <3>7, <3>8, NextInputIsNew
    <3>10. /\ m.unintelligible + Recovering(m) + 1 <= m.recoveries
           /\ m.turnCount + Waiting(m) + Recovering(m) + 1 <= m.seq
      <4>1. CountsSound(e)
        BY <3>8 DEF Sound
      <4>2. Recovering(m) <= Recovering(e) /\ Waiting(m) = Waiting(e)
        BY <3>6, <3>7 DEF Recovering, Waiting
      <4>3. m \in Call
        BY <3>6 DEF Ready, Sound
      <4>4. /\ m.recoveries = e.recoveries + 1 /\ m.seq = e.seq + 1
            /\ m.unintelligible = e.unintelligible /\ m.turnCount = e.turnCount
        BY <2>3, <3>1, <3>6, <3>7
      <4> QED BY <3>8, <4>1, <4>2, <4>3, <4>4, RoomForRecovery
    <3>11. Joins(Recovery(i, m.seq, m.gen), m, l)
      <4>1. Sound(m, l)
        BY <3>6 DEF Ready
      <4> QED BY <3>6, <3>9, <3>10, <4>1, RecoveryJoins
    <3>12. f = Flush(Joined(m, Recovery(i, m.seq, m.gen)))
      BY <3>2, <3>6, <3>13
    <3> QED BY <3>6, <3>11, <3>12, EnqueueFrom
  <2> QED BY <2>1, <2>5, <2>6, <2>7
<1> QED BY <1>2, <1>3

\* The audio is over: the pending effect was announced, and is applied.
LEMMA AudioStoppedKeeps ==
  ASSUME NEW c, NEW g, NEW w \in Seq(WireEvent), NEW l, NEW a, NEW p, Settled(c, g, w, l, a, p),
         IsOpen(c), c.created = NoTask, w # <<>>, NEW v, v = Tail(w), Stopped(Head(w)),
         NEW f, f = AudioStopped(c)
  PROVE  Outcome(f, g, v, l, a, p)
<1>1. c \in Call /\ Sound(c, l) /\ NoTask \in Task
  BY TaskFacts DEF Settled, Sound
<1>2. /\ f \in Call /\ f.open = c.open /\ f.queue = c.queue /\ f.inFlight = c.inFlight
      /\ f.active = c.active /\ f.created = NoTask /\ f.chain = c.chain /\ f.seq = c.seq
      /\ f.gen = c.gen /\ f.recoveries = c.recoveries /\ f.unintelligible = c.unintelligible
      /\ f.turnCount = c.turnCount /\ f.pending = NoTask
      /\ f.applying = IF c.pending # NoTask THEN c.pending ELSE c.applying
  BY <1>1 DEF AudioStopped, Call
<1>3. QueueSound(f, l) /\ LookupsSound(f, l) /\ ActiveSound(f, l) /\ ChainSound(f)
  BY <1>1, <1>2, TurnsStay DEF Sound
<1>4. EffectsSound(f) /\ ClosedSound(f, l) /\ AnswerSound(f)
  <2>1. EffectsSound(f) /\ AnswerSound(f)
    BY <1>1, <1>2, TaskFacts DEF Sound, EffectsSound, AnswerSound
  <2> QED BY <1>2, <2>1 DEF ClosedSound, IsOpen
<1>5. CountsSound(f)
  <2>1. CountsSound(c) /\ Waiting(f) = Waiting(c) /\ f.active = c.active
    BY <1>1, <1>2 DEF Sound, Waiting
  <2>2. RecoveryQueued(f) => RecoveryQueued(c)
    BY <1>2 DEF RecoveryQueued
  <2>3. /\ f.unintelligible <= c.unintelligible /\ c.recoveries <= f.recoveries
        /\ f.turnCount + Waiting(f) <= c.turnCount + Waiting(c) /\ c.seq <= f.seq /\ f \in Call
    BY <1>1, <1>2, <2>1, CountsTyped
  <2> QED BY <1>1, <2>1, <2>2, <2>3, CountsStay
<1>6. Sound(f, l)
  BY <1>2, <1>3, <1>4, <1>5 DEF Sound
<1>7. Unhurried(f)
  BY <1>2 DEF Settled, Unhurried
<1>8. LatchOf(c, g, w, l) /\ AnnouncedOf(c, a, w, p)
  BY DEF Settled
<1>9. LatchOf(f, g, v, l)
  <2>1. ~Ended(Head(w))
    BY DEF Stopped, Ended
  <2>2. LatchOf(c, g, v, l)
    BY <1>8, <2>1, LatchStays
  <2> QED BY <1>2, <2>2 DEF LatchOf, LatchFree, LatchOfResponse, LatchOfEffect
<1>10. AnnouncedOf(f, a, v, p)
  <2>1. ASSUME f.active.effect # "none", NEW n \in DOMAIN v, Ended(v[n]), v[n].completed
        PROVE  Voiced(f.active, n, a, v, p)
    BY <1>2, <1>8, <2>1, ActiveStaysAnnounced
  <2>2. f.applying # NoTask => f.applying \in p
    <3>1. CASE c.pending = NoTask
      BY <1>2, <1>8, <3>1 DEF AnnouncedOf
    <3>2. CASE c.pending # NoTask
      <4>1. Voiced(c.pending, 0, a, w, p)
        BY <1>8, <3>2 DEF AnnouncedOf
      <4>2. 1 \in DOMAIN w /\ Stopped(w[1]) /\ DOMAIN w \subseteq Int
        BY WireTail
      <4>3. ~\E m \in DOMAIN w : 0 < m /\ m < 1 /\ Speech(w[m])
        BY <4>2
      <4> QED BY <1>2, <3>2, <4>1, <4>2, <4>3 DEF Voiced
    <3> QED BY <3>1, <3>2
  <2> QED BY <1>2, <2>1, <2>2 DEF AnnouncedOf
<1> QED BY <1>2, <1>6, <1>7, <1>9, <1>10 DEF Outcome

\* The end of a response is that of the active one, and the only one on its way.
LEMMA ResponseEnds ==
  ASSUME NEW c, NEW g, NEW w \in Seq(WireEvent), NEW l, LatchOf(c, g, w, l),
         w # <<>>, NEW v, v = Tail(w), Ended(Head(w))
  PROVE  /\ g = NoTask /\ NoneEnds(v) /\ c.inFlight /\ c.active # NoTask
         /\ c.pending = NoTask /\ c.applying = NoTask /\ c.active.stage # "lookup_pending"
<1>1. /\ 1 \in DOMAIN w /\ Ended(w[1]) /\ DOMAIN v \subseteq Int
      /\ \A n \in DOMAIN v : v[n] = w[n + 1] /\ n + 1 \in DOMAIN w
  BY WireTail
<1>2. 0 \notin DOMAIN v
  BY WireTail
<1>3. ~NoneEnds(w)
  BY <1>1 DEF NoneEnds
<1>4. /\ c.inFlight /\ c.active # NoTask /\ c.pending = NoTask /\ c.applying = NoTask
      /\ c.active.stage # "lookup_pending" /\ g = NoTask /\ OneEnds(w)
  BY <1>3 DEF LatchOf, LatchFree, LatchOfResponse, LatchOfEffect
<1>5. \A m \in DOMAIN w : Ended(w[m]) => m = 1
  BY <1>1, <1>4 DEF OneEnds
<1>6. NoneEnds(v)
  BY <1>1, <1>2, <1>5 DEF NoneEnds
<1> QED BY <1>4, <1>6

\* The latch is released: nothing is active.
LEMMA IdleKeeps ==
  ASSUME NEW c, NEW l, Sound(c, l), IsOpen(c), c.created = NoTask, NEW g, NEW v, NEW a, NEW p,
         c.pending = NoTask, c.applying = NoTask, g = NoTask, NoneEnds(v),
         NEW f, f = Unlatched(c)
  PROVE  /\ Ready(f, g, v, l, a, p) /\ f.active = NoTask /\ f.seq = c.seq /\ f.gen = c.gen
         /\ f.chain = c.chain /\ f.queue = c.queue /\ f.unintelligible = c.unintelligible
         /\ f.recoveries = c.recoveries /\ f.turnCount = c.turnCount /\ f.created = NoTask
<1>1. c \in Call /\ NoTask \in Task
  BY TaskFacts DEF Sound
<1>2. /\ f \in Call /\ f.open = c.open /\ f.queue = c.queue /\ f.inFlight = FALSE
      /\ f.active = NoTask /\ f.created = NoTask /\ f.chain = c.chain /\ f.seq = c.seq
      /\ f.gen = c.gen /\ f.recoveries = c.recoveries /\ f.unintelligible = c.unintelligible
      /\ f.turnCount = c.turnCount /\ f.pending = NoTask /\ f.applying = NoTask
  BY <1>1 DEF Unlatched, Call
<1>3. QueueSound(f, l)
  <2>1. QueueSound(c, l)
    BY DEF Sound
  <2>2. \A t : Before(NoTask, t)
    BY NobodyIsPlaced
  <2> QED BY <1>2, <2>1, <2>2 DEF QueueSound, Fits, Placed
<1>4. LookupsSound(f, l) /\ ChainSound(f) /\ ActiveSound(f, l)
  <2>1. LookupsSound(f, l) /\ ChainSound(f)
    BY <1>1, <1>2 DEF Sound, LookupsSound, ChainSound, Placed
  <2>2. ActiveSound(c, l) /\ f.active = NoTask /\ f.seq = c.seq /\ f.chain = c.chain
    BY <1>2 DEF Sound
  <2>3. ActiveSound(f, l)
    BY <2>2, ActiveStays
  <2> QED BY <2>1, <2>3
<1>5. EffectsSound(f) /\ ClosedSound(f, l) /\ AnswerSound(f)
  <2>1. EffectsSound(f) /\ AnswerSound(f)
    BY <1>2, TaskFacts DEF EffectsSound, AnswerSound
  <2> QED BY <1>2, <2>1 DEF ClosedSound, IsOpen
<1>6. CountsSound(f)
  <2>1. CountsSound(c) /\ Waiting(f) = Waiting(c)
    BY <1>2 DEF Sound, Waiting
  <2>2. (RecoveryQueued(f) => RecoveryQueued(c)) /\ ~IsRecovery(f.active)
    BY <1>2, TaskFacts DEF RecoveryQueued, IsRecovery
  <2>3. /\ f.unintelligible <= c.unintelligible /\ c.recoveries <= f.recoveries
        /\ f.turnCount + Waiting(f) <= c.turnCount + Waiting(c) /\ c.seq <= f.seq /\ f \in Call
    BY <1>1, <1>2, <2>1, CountsTyped
  <2> QED BY <1>1, <2>1, <2>2, <2>3, CountsStay
<1>7. Sound(f, l)
  BY <1>2, <1>3, <1>4, <1>5, <1>6 DEF Sound
<1>8. LatchOf(f, g, v, l) /\ AnnouncedOf(f, a, v, p)
  BY <1>2, TaskFacts DEF LatchOf, LatchFree, AnnouncedOf
<1>9. Ready(f, g, v, l, a, p)
  BY <1>2, <1>7, <1>8 DEF Ready, IsOpen
<1> QED BY <1>2, <1>9

\* A recovery of the last input leaves no question behind it in the queue.
LEMMA RecoveryIsLast ==
  ASSUME NEW c, NEW l, Sound(c, l), IsRecovery(c.active), c.active.seq = c.seq
  PROVE  /\ \A n \in DOMAIN c.queue : IsApproved(c.queue[n])
         /\ \A n \in DOMAIN c.chain : c.chain[n].seq # c.seq
         /\ \A t \in l : t.seq # c.seq
<1>1. c \in Call
  BY DEF Sound
<1>2. c.seq \in Int /\ \A t \in Task : t.seq \in Int
  BY <1>1, CountsTyped, ConversationAssumption DEF Task, Sequences
<1>3. Asked(c.active) /\ ~IsDirect(c.active)
  BY DEF Asked, IsDirect, IsRecovery
<1>4. ASSUME NEW n \in DOMAIN c.queue
      PROVE  IsApproved(c.queue[n])
  <2>1. /\ c.queue[n] \in Task /\ Placed(c.queue[n], c) /\ Before(c.active, c.queue[n])
        /\ c.queue[n].kind # "none"
    BY <1>1, CallTyped DEF Sound, QueueSound, Fits
  <2>2. ~Asked(c.queue[n])
    BY <1>2, <1>3, <2>1 DEF Before, Placed
  <2> QED BY <2>1, <2>2 DEF Asked, IsDirect, IsRecovery, IsApproved, Task
<1>5. \A n \in DOMAIN c.chain : c.chain[n].seq # c.seq
  BY <1>3 DEF Sound, ActiveSound, Placed
<1>6. ASSUME NEW t \in l
      PROVE  t.seq # c.seq
  <2>1. t \in Task /\ t.stage = "lookup_pending" /\ Formed(t) /\ (t = c.active \/ Before(t, c.active))
    BY DEF Sound, LookupsSound, ActiveSound
  <2>2. IsDirect(t)
    BY <2>1 DEF Formed
  <2>3. Before(t, c.active) /\ Asked(t)
    BY <1>3, <2>1, <2>2 DEF Asked
  <2> QED BY <1>2, <1>3, <2>1, <2>3 DEF Before
<1> QED BY <1>4, <1>5, <1>6

LEMMA AnnouncementsSuit ==
  ASSUME NEW c, NEW l, NEW f, QueueSound(c, l), f.queue = c.queue,
         \A n \in DOMAIN c.queue : IsApproved(c.queue[n])
  PROVE  QueueSound(f, l) /\ ~RecoveryQueued(f)
<1>2. ASSUME NEW k \in DOMAIN f.queue
      PROVE  /\ Fits(f.queue[k], f, l) /\ ~Asked(f.queue[k]) /\ ~IsRecovery(f.queue[k])
  <2> DEFINE t == f.queue[k]
  <2>1. Formed(t) /\ t.kind # "none" /\ IsApproved(t)
    BY DEF QueueSound, Fits
  <2> HIDE DEF t
  <2>2. ~Asked(t) /\ ~IsDirect(t) /\ ~IsRecovery(t)
    BY <2>1 DEF Asked, IsDirect, IsRecovery, IsApproved
  <2>3. Fits(t, f, l)
    BY <2>1, <2>2 DEF Fits, Placed, Before
  <2> QED BY <2>2, <2>3 DEF t
<1>3. QueueSound(f, l)
  BY <1>2 DEF QueueSound, Before
<1>4. ~RecoveryQueued(f)
  BY <1>2 DEF RecoveryQueued
<1> QED BY <1>3, <1>4

\* What the model heard joins the chain.
HeardAs(d, u) == [d EXCEPT !.unintelligible = 0, !.chain = Append(@, u)]

LEMMA HeardTyped ==
  ASSUME NEW d \in Call, NEW u \in Turn, NEW f, f = HeardAs(d, u)
  PROVE  /\ f \in Call /\ f.chain = Append(d.chain, u) /\ f.unintelligible = 0
         /\ f.queue = d.queue /\ f.seq = d.seq /\ f.gen = d.gen /\ f.active = d.active
         /\ f.open = d.open /\ f.inFlight = d.inFlight /\ f.created = d.created
         /\ f.pending = d.pending /\ f.applying = d.applying
         /\ f.turnCount = d.turnCount /\ f.recoveries = d.recoveries
<1>1. Append(d.chain, u) \in Seq(Turn) /\ 0 \in 0 .. MaxRecoveries
  BY CallTyped, Appended, ConversationAssumption
<1>2. f \in Call
  BY <1>1 DEF Call, HeardAs
<1> QED BY <1>2 DEF Call, HeardAs

\* finishNativeAudioRecovery
LEMMA FinishRecoveryKeeps ==
  ASSUME NEW c, NEW l, Sound(c, l), IsOpen(c), c.created = NoTask,
         NEW g, NEW v, NEW a, NEW p,
         c.pending = NoTask, c.applying = NoTask, g = NoTask, NoneEnds(v),
         IsRecovery(c.active), NEW result, NEW f, f = FinishRecovery(c, result)
  PROVE  Outcome(f, g, v, l, a, p)
<1> DEFINE e == Unlatched(c)
           d == [e EXCEPT !.retryPending = FALSE]
           missed == [d EXCEPT !.unintelligible = @ + 1]
           turn == c.active
           u == [item |-> turn.item, seq |-> turn.seq, gen |-> turn.gen, asking |-> FALSE]
<1>1. c \in Call
  BY DEF Sound
<1>2. f = IF ~IsCurrent(c, turn) \/ result = "echo" THEN Flush(d)
          ELSE IF result = "high" THEN HeardAs(d, u)
          ELSE IF missed.unintelligible <= MaxPrompts THEN EnqueueTask(missed, Approved("none", 0))
          ELSE Flush(missed)
  BY DEF FinishRecovery, HeardAs
<1>3. e = Unlatched(c)
  OBVIOUS
<1> HIDE DEF e, d, missed, u
<1>4. /\ Ready(e, g, v, l, a, p) /\ e.active = NoTask /\ e.seq = c.seq /\ e.gen = c.gen
      /\ e.chain = c.chain /\ e.queue = c.queue /\ e.unintelligible = c.unintelligible
      /\ e.recoveries = c.recoveries /\ e.turnCount = c.turnCount
      /\ e.created = NoTask
  BY <1>3, IdleKeeps
<1>5. e \in Call /\ e.open = TRUE
  <2>1. e \in Call
    BY <1>4 DEF Ready, Sound
  <2>2. e.open = TRUE
    BY <1>1, <1>3 DEF Unlatched, Call, IsOpen
  <2> QED BY <2>1, <2>2
<1>6. /\ d \in Call /\ Alike(d, e) /\ d.created = NoTask /\ d.seq = e.seq
      /\ d.recoveries = e.recoveries /\ d.unintelligible = e.unintelligible
  BY <1>4, <1>5 DEF Call, Alike, d
<1>7. CountsSound(c) /\ c.unintelligible \in Int /\ c.recoveries \in Int /\ c.turnCount \in Int
      /\ c.seq \in Int /\ Waiting(c) \in Int /\ Recovering(c) \in Int
  BY <1>1, CountsTyped DEF Sound
<1>8. /\ d.unintelligible = c.unintelligible /\ d.recoveries = c.recoveries /\ d.seq = c.seq
      /\ d.turnCount = c.turnCount /\ d.chain = c.chain /\ d.queue = c.queue /\ d.active = NoTask
      /\ d.open = TRUE
  BY <1>4, <1>5, <1>6 DEF Alike
<1>9. Waiting(d) = Waiting(c) /\ Recovering(d) + 1 <= Recovering(c) /\ Recovering(d) \in Int
  BY <1>8, TaskFacts DEF Waiting, Recovering, RecoveryQueued, IsRecovery
<1>10. Ready(d, g, v, l, a, p)
  <2>1. CountsSound(d)
    BY <1>7, <1>8, <1>9 DEF CountsSound
  <2>2. e.seq <= d.seq
    BY <1>4, <1>7, <1>8
  <2> QED BY <1>4, <1>6, <2>1, <2>2, AlikeReady
<1>11. CASE f = Flush(d)
  BY <1>10, <1>11, FlushFrom
<1>12. CASE IsCurrent(c, turn) /\ f = HeardAs(d, u)
  <2>1. u \in Turn /\ u.seq = c.seq /\ ~IsAsking(u)
    <3>1. turn \in Task /\ turn.item \in Items /\ turn.seq = c.seq
      BY <1>1, <1>12, CallTyped DEF IsCurrent, Sound, ActiveSound, Formed, Asked
    <3> QED BY <3>1 DEF Turn, Task, u, IsAsking
  <2>2. /\ \A n \in DOMAIN c.queue : IsApproved(c.queue[n])
        /\ \A n \in DOMAIN c.chain : c.chain[n].seq # c.seq
        /\ \A t \in l : t.seq # c.seq
    BY <1>12, RecoveryIsLast DEF IsCurrent
  <2>3. /\ f \in Call /\ f.chain = Append(d.chain, u) /\ f.unintelligible = 0
        /\ f.queue = d.queue /\ f.seq = d.seq /\ f.gen = d.gen /\ f.active = d.active
        /\ f.open = d.open /\ f.inFlight = d.inFlight /\ f.created = d.created
        /\ f.pending = d.pending /\ f.applying = d.applying
        /\ f.turnCount = d.turnCount /\ f.recoveries = d.recoveries
    BY <1>6, <1>12, <2>1, HeardTyped
  <2>4. QueueSound(f, l) /\ ~RecoveryQueued(f)
    <3>1. QueueSound(c, l) /\ f.queue = c.queue
      BY <1>8, <2>3 DEF Sound
    <3> QED BY <2>2, <3>1, AnnouncementsSuit
  <2>5. ChainSound(f) /\ LookupsSound(f, l) /\ ActiveSound(f, l) /\ CountsSound(f)
    <3>1. /\ f.chain = Append(c.chain, u) /\ f.seq = c.seq /\ f.active = NoTask
          /\ f.turnCount = c.turnCount /\ f.recoveries = c.recoveries /\ f.unintelligible = 0
      BY <1>8, <2>3
    <3>2. ~Asked(f.active) /\ ~IsRecovery(f.active)
      BY <3>1, TaskFacts DEF Asked, IsDirect, IsRecovery
    <3>3. /\ f.unintelligible <= c.unintelligible /\ c.recoveries <= f.recoveries /\ c.seq <= f.seq
      BY <1>1, <1>7, <3>1, CountsTyped
    <3>4. Recovering(f) = 0 /\ Recovering(c) >= 1
      BY <2>4, <3>2 DEF Recovering
    <3>5. Recovering(f) + c.seq + 1 <= Recovering(c) + f.seq /\ Recovering(f) <= Recovering(c)
      BY <1>7, <3>1, <3>4
    <3>6. u.seq = f.seq /\ ~IsAsking(u) /\ u \in Turn
      BY <2>1, <3>1
    <3>7. /\ \A n \in DOMAIN c.chain : c.chain[n].seq # u.seq
          /\ \A t \in l : t.seq # u.seq
          /\ Asked(f.active) => f.active.seq # u.seq
      BY <2>1, <2>2, <3>2
    <3> QED BY <2>3, <3>1, <3>3, <3>5, <3>6, <3>7, ChainGrows
  <2>6. EffectsSound(f) /\ AnswerSound(f) /\ ClosedSound(f, l)
    <3>1. Sound(d, l)
      BY <1>10 DEF Ready
    <3>2. EffectsSound(f) /\ AnswerSound(f)
      BY <2>3, <3>1 DEF Sound, EffectsSound, AnswerSound
    <3> QED BY <1>8, <2>3, <3>2 DEF ClosedSound
  <2>7. Sound(f, l)
    BY <2>3, <2>4, <2>5, <2>6 DEF Sound
  <2>8. Unhurried(f)
    BY <1>8, <2>2, <2>3 DEF Unhurried
  <2>9. LatchOf(f, g, v, l) /\ AnnouncedOf(f, a, v, p)
    <3>1. LatchOf(d, g, v, l) /\ AnnouncedOf(d, a, v, p)
      BY <1>10 DEF Ready
    <3> QED BY <2>3, <3>1 DEF LatchOf, LatchFree, LatchOfResponse, LatchOfEffect, AnnouncedOf
  <2> QED BY <1>6, <2>3, <2>7, <2>8, <2>9 DEF Outcome
<1>13. Ready(missed, g, v, l, a, p)
  <2>1. c.unintelligible + 1 \in 0 .. MaxRecoveries
    <3>1. c.unintelligible \in 0 .. MaxRecoveries /\ c.recoveries \in 0 .. MaxRecoveries
      BY <1>1 DEF Call
    <3>2. c.unintelligible + Recovering(c) <= c.recoveries /\ Recovering(c) >= 1
      BY <1>7 DEF CountsSound, Recovering
    <3> QED BY <1>7, <3>1, <3>2, ConversationAssumption
  <2>2. /\ missed \in Call /\ Alike(missed, d) /\ missed.created = NoTask /\ missed.seq = d.seq
        /\ missed.recoveries = d.recoveries /\ missed.unintelligible = d.unintelligible + 1
    <3>1. d.unintelligible + 1 \in 0 .. MaxRecoveries
      BY <1>8, <2>1
    <3>2. missed \in Call
      BY <1>6, <3>1 DEF Call, missed
    <3> QED BY <1>6, <3>2 DEF Call, Alike, missed
  <2>3. Waiting(missed) = Waiting(c) /\ Recovering(missed) = Recovering(d) /\ missed.turnCount = c.turnCount
    BY <1>8, <2>2 DEF Waiting, Recovering, RecoveryQueued, Alike
  <2>4. CountsSound(missed)
    BY <1>7, <1>8, <1>9, <2>2, <2>3 DEF CountsSound
  <2>5. d.seq <= missed.seq
    BY <1>7, <1>8, <2>2
  <2> QED BY <1>10, <2>2, <2>4, <2>5, AlikeReady
<1>14. CASE f = Flush(missed)
  BY <1>13, <1>14, FlushFrom
<1>15. CASE f = EnqueueTask(missed, Approved("none", 0))
  <2>1. "none" \in Effects /\ 0 \in 0 .. MaxItems
    BY ConversationAssumption DEF Effects
  <2> QED BY <1>13, <1>15, <2>1, AnnounceFrom
<1> QED BY <1>2, <1>11, <1>12, <1>14, <1>15

\* The active response goes on as another stage of the same turn.
StageAs(c, stage, created) == [c EXCEPT !.active.stage = stage, !.created = created]

\* A lookup starts with the handler that leaves its turn active.
LookupsAfter(f, l) == IF f.active.stage = "lookup_pending" THEN l \cup {f.active} ELSE l

Restaged(f, c, k, stage, created) ==
  /\ f \in Call /\ Sound(f, k) /\ f.active = [c.active EXCEPT !.stage = stage]
  /\ f.created = created /\ f.active.stage = stage /\ f.active.effect = "none"
  /\ f.active # NoTask
  /\ f.inFlight = c.inFlight /\ f.pending = c.pending /\ f.applying = c.applying
  /\ f.open = c.open

\* What is looked up when the active turn has come to a stage.
Moves(c, l, k, stage) ==
  /\ IsDirect(c.active)
  /\ \A x \in k : \/ x \in l /\ x # c.active
                  \/ stage = "lookup_pending" /\ x = [c.active EXCEPT !.stage = stage]

LEMMA StageForm ==
  ASSUME NEW c \in Call, c.created = NoTask
  PROVE  [c EXCEPT !.active.stage = "lookup_pending"] = StageAs(c, "lookup_pending", NoTask)
BY DEF StageAs, Call

LEMMA StageKeeps ==
  ASSUME NEW c, NEW l, Sound(c, l), IsOpen(c),
         NEW stage \in {"lookup_pending", "lookup_answer"},
         NEW created \in Task, NEW f, f = StageAs(c, stage, created),
         created = NoTask \/ created.stage = "lookup_answer",
         NEW k, Moves(c, l, k, stage)
  PROVE  Restaged(f, c, k, stage, created)
<1> DEFINE t == c.active
           u == [c.active EXCEPT !.stage = stage]
<1>1. c \in Call /\ t \in Task
  BY CallTyped DEF Sound
<1>0. f \in Call
  <2>1. u \in Task
    BY <1>1 DEF Task
  <2>2. f = [c EXCEPT !.active = u, !.created = created]
    BY <1>1 DEF StageAs, Call
  <2> HIDE DEF u
  <2> QED BY <1>1, <2>1, <2>2 DEF Call
<1>2. /\ f.active = u /\ f.created = created /\ f.inFlight = c.inFlight /\ f.pending = c.pending
      /\ f.applying = c.applying /\ f.open = c.open /\ f.queue = c.queue /\ f.chain = c.chain
      /\ f.seq = c.seq /\ f.gen = c.gen /\ f.recoveries = c.recoveries
      /\ f.unintelligible = c.unintelligible /\ f.turnCount = c.turnCount
  BY <1>1 DEF Call, StageAs
<1>3. /\ Formed(t) /\ Placed(t, c) /\ (\A x \in l : x = t \/ Before(x, t)) /\ l \subseteq Task
      /\ \A x \in l : Formed(x) /\ x.stage = "lookup_pending" /\ Placed(x, c)
  BY DEF Sound, ActiveSound, LookupsSound
<1>4. /\ u \in Task /\ u.kind = "direct" /\ u.effect = "none" /\ u.item \in Items
      /\ u.stage = stage /\ u.seq = t.seq /\ t.kind = "direct"
  <2>1. t.kind = "direct" /\ t.item \in Items /\ t.effect = "none"
    BY <1>1, <1>3 DEF Formed, IsDirect, IsApproved, Asked, Task, Effects, Moves
  <2> QED BY <1>1, <2>1 DEF Task
<1> HIDE DEF t, u
<1>5. IsDirect(u) /\ IsDirect(t) /\ ~IsRecovery(u) /\ ~IsRecovery(t) /\ Formed(u) /\ u # NoTask
  BY <1>4, TaskFacts DEF IsDirect, IsRecovery, Formed, Asked
<1>6. Placed(u, f)
  BY <1>2, <1>3, <1>4, <1>5 DEF Placed, Asked
<1>7. \A x : Before(t, x) => Before(u, x)
  BY <1>4, <1>5 DEF Before, Asked
<1>8. \A x \in l : x # t => Before(x, u)
  BY <1>3, <1>4, <1>5 DEF Before, Asked
<1>9. \A x \in k : (x \in l /\ x # t) \/ (stage = "lookup_pending" /\ x = u)
  BY DEF Moves, t, u
<1>10. QueueSound(f, k)
  <2>1. QueueSound(c, l)
    BY DEF Sound
  <2>2. ASSUME NEW n \in DOMAIN f.queue
        PROVE  Fits(f.queue[n], f, k)
    <3>1. Fits(c.queue[n], c, l)
      BY <1>2, <2>1, <2>2 DEF QueueSound
    <3>2. Before(u, c.queue[n])
      BY <1>7, <3>1 DEF Fits, t
    <3> QED BY <1>2, <1>9, <3>1, <3>2 DEF Fits, Placed
  <2> QED BY <1>2, <2>1, <2>2 DEF QueueSound
<1>11. LookupsSound(f, k)
  <2>1. \A x \in l : Placed(x, f)
    BY <1>2, <1>3 DEF Placed
  <2> QED BY <1>3, <1>4, <1>5, <1>6, <1>9, <2>1 DEF LookupsSound
<1>12. ActiveSound(f, k)
  BY <1>2, <1>5, <1>6, <1>8, <1>9 DEF ActiveSound
<1>13. ChainSound(f)
  BY <1>2 DEF Sound, ChainSound
<1>14. EffectsSound(f) /\ AnswerSound(f)
  BY <1>2, TaskFacts DEF Sound, EffectsSound, AnswerSound
<1>15. ClosedSound(f, k)
  BY <1>2 DEF ClosedSound, IsOpen
<1>16. CountsSound(f)
  <2>1. CountsSound(c) /\ Waiting(f) = Waiting(c)
    BY <1>2 DEF Sound, Waiting
  <2>2. (RecoveryQueued(f) => RecoveryQueued(c)) /\ ~IsRecovery(f.active)
    BY <1>2, <1>5 DEF RecoveryQueued
  <2>3. /\ f.unintelligible <= c.unintelligible /\ c.recoveries <= f.recoveries
        /\ f.turnCount + Waiting(f) <= c.turnCount + Waiting(c) /\ c.seq <= f.seq
    BY <1>0, <1>1, <1>2, <2>1, CountsTyped
  <2> QED BY <1>0, <1>1, <2>1, <2>2, <2>3, CountsStay
<1>17. Sound(f, k)
  BY <1>0, <1>10, <1>11, <1>12, <1>13, <1>14, <1>15, <1>16 DEF Sound
<1> QED BY <1>0, <1>2, <1>4, <1>5, <1>17 DEF u, Restaged

\* The lookup of the active turn is the only one that a handler leaves active.
LEMMA LookupsStay ==
  ASSUME NEW f, NEW g, NEW w, NEW l, NEW a, NEW p, Outcome(f, g, w, l, a, p), g = NoTask
  PROVE  f.active.stage = "lookup_pending" => f.active \in l
<1>1. CASE f.created = NoTask \/ ~f.open
  BY <1>1, TaskFacts DEF Outcome, LatchOf, LatchFree, LatchOfResponse, LatchOfEffect
<1>2. CASE f.created # NoTask /\ f.open
  BY <1>2, TaskFacts DEF Outcome, LatchOf, LatchFree, LatchOfResponse, LatchOfEffect
<1> QED BY <1>1, <1>2

\* response.done
LEMMA ResponseDoneKeeps ==
  ASSUME NEW c, NEW g, NEW w \in Seq(WireEvent), NEW l, NEW a, NEW p, Settled(c, g, w, l, a, p),
         IsOpen(c), c.created = NoTask, w # <<>>, NEW v, v = Tail(w), Ended(Head(w)),
         NEW completed, completed = Head(w).completed,
         NEW tool, NEW f, f = ResponseDone(c, completed, tool),
         NEW k, k = LookupsAfter(f, l)
  PROVE  Outcome(f, g, v, k, a, p)
<1> DEFINE active == c.active
           spoken == [c.active EXCEPT !.stage = "lookup_answer"]
<1>1. c \in Call /\ Sound(c, l) /\ LatchOf(c, g, w, l) /\ AnnouncedOf(c, a, w, p)
  BY DEF Settled, Sound
<1>2. /\ g = NoTask /\ NoneEnds(v) /\ c.inFlight /\ active # NoTask
      /\ c.pending = NoTask /\ c.applying = NoTask /\ active.stage # "lookup_pending"
  BY <1>1, ResponseEnds
<1>10. /\ g = NoTask /\ NoneEnds(v) /\ c.pending = NoTask /\ c.applying = NoTask
       /\ Sound(c, l)
  BY <1>1, <1>2
<1>3. f = IF IsRecovery(active) THEN FinishRecovery(c, IF completed THEN tool ELSE "none")
          ELSE IF completed /\ active.stage = "answer" /\ tool = "lookup"
          THEN StageAs(c, "lookup_pending", NoTask)
          ELSE IF completed /\ active.stage = "answer" /\ tool = "invalid"
          THEN StageAs(c, "lookup_answer", spoken)
          ELSE IF Announced(completed, active) THEN [c EXCEPT !.active = NoTask, !.pending = active]
          ELSE Flush(Unlatched(c))
  <2>1. [c EXCEPT !.active.stage = "lookup_pending"] = StageAs(c, "lookup_pending", NoTask)
    BY <1>1, StageForm
  <2> QED BY <1>2, <2>1 DEF ResponseDone, Release, IsRecovery, StageAs
<1>4. CASE Outcome(f, g, v, l, a, p)
  <2>1. k = l
    BY <1>2, <1>4, LookupsStay DEF LookupsAfter
  <2> QED BY <1>4, <2>1
<1>5. CASE IsRecovery(active) /\ f = FinishRecovery(c, IF completed THEN tool ELSE "none")
  <2> DEFINE result == IF completed THEN tool ELSE "none"
  <2>1. f = FinishRecovery(c, result)
    BY <1>5
  <2> HIDE DEF result
  <2>2. Outcome(f, g, v, l, a, p)
    BY <1>5, <1>10, <2>1, FinishRecoveryKeeps
  <2> QED BY <1>4, <2>2
<1>11. active.stage = "answer" => IsDirect(active) /\ \A x \in l : x # active
  BY <1>1 DEF Sound, ActiveSound, LookupsSound, Formed
<1>6. CASE active.stage = "answer" /\ f = StageAs(c, "lookup_pending", NoTask)
  <2>1. f.active.stage = "lookup_pending"
    <3>1. c.active \in Task
      BY <1>1, CallTyped
    <3>2. [c.active EXCEPT !.stage = "lookup_pending"].stage = "lookup_pending"
      BY <3>1 DEF Task
    <3> QED BY <1>1, <1>6, <3>2 DEF StageAs, Call
  <2>2. k = l \cup {f.active}
    BY <2>1 DEF LookupsAfter
  <2>6. Moves(c, l, k, "lookup_pending")
    <3>1. f.active = [c.active EXCEPT !.stage = "lookup_pending"]
      BY <1>1, <1>6 DEF StageAs, Call
    <3> QED BY <1>6, <1>11, <2>2, <3>1 DEF Moves
  <2>3. /\ Sound(f, k) /\ f.created = NoTask /\ f.inFlight = c.inFlight /\ f.pending = c.pending
        /\ f.applying = c.applying /\ f.active.effect = "none" /\ f.active # NoTask
    <3>2. "lookup_pending" \in {"lookup_pending", "lookup_answer"} /\ NoTask \in Task
      BY TaskFacts
    <3>3. Restaged(f, c, k, "lookup_pending", NoTask)
      BY <1>6, <1>10, <2>6, <3>2, StageKeeps
    <3> QED BY <3>3 DEF Restaged
  <2>4. LatchOf(f, g, v, k)
    BY <1>2, <2>1, <2>2, <2>3 DEF LatchOf, LatchOfResponse
  <2>5. Unhurried(f) /\ AnnouncedOf(f, a, v, p)
    BY <1>2, <2>3 DEF Unhurried, AnnouncedOf
  <2> QED BY <2>3, <2>4, <2>5 DEF Outcome
<1>7. CASE active.stage = "answer" /\ f = StageAs(c, "lookup_answer", spoken)
  <2>1. spoken \in Task /\ spoken.stage = "lookup_answer"
    <3>1. c.active \in Task
      BY <1>1, CallTyped
    <3> QED BY <3>1 DEF Task
  <2>2. f.active.stage = "lookup_answer"
    BY <1>1, <1>7, <2>1 DEF StageAs, Call
  <2>3. k = l
    BY <2>2 DEF LookupsAfter
  <2>4. [c.active EXCEPT !.stage = "lookup_answer"] = spoken
    OBVIOUS
  <2> HIDE DEF spoken
  <2>9. Moves(c, l, k, "lookup_answer")
    BY <1>7, <1>11, <2>3 DEF Moves
  <2>5. /\ Sound(f, k) /\ f.active = spoken /\ f.created = spoken
        /\ f.inFlight = c.inFlight /\ f.pending = c.pending /\ f.open = c.open
        /\ f.applying = c.applying /\ f.active.effect = "none" /\ f.active # NoTask
    <3>2. "lookup_answer" \in {"lookup_pending", "lookup_answer"}
      OBVIOUS
    <3>3. Restaged(f, c, k, "lookup_answer", spoken)
      BY <1>7, <1>10, <2>1, <2>9, <3>2, StageKeeps
    <3> QED BY <2>4, <3>3 DEF Restaged
  <2>6. LatchOf(f, f.created, v, k)
    BY <1>2, <2>2, <2>5 DEF LatchOf, LatchOfResponse
  <2>7. Unhurried(f) /\ AnnouncedOf(f, a, v, p)
    BY <1>2, <2>5 DEF Unhurried, AnnouncedOf
  <2>8. f.open /\ f.created # NoTask
    BY <2>5 DEF IsOpen
  <2> QED BY <1>2, <2>5, <2>6, <2>7, <2>8 DEF Outcome
<1>8. CASE Announced(completed, active) /\ f = [c EXCEPT !.active = NoTask, !.pending = active]
  <2> DEFINE e == Unlatched(c)
  <2>1. e = Unlatched(c)
    OBVIOUS
  <2> HIDE DEF e
  <2>2. Ready(e, g, v, l, a, p) /\ e.active = NoTask /\ e.seq = c.seq /\ e.gen = c.gen
        /\ e.chain = c.chain /\ e.queue = c.queue /\ e.unintelligible = c.unintelligible
        /\ e.recoveries = c.recoveries /\ e.turnCount = c.turnCount /\ e.created = NoTask
    BY <1>10, <2>1, IdleKeeps
  <2>3. Sound(e, l)
    BY <2>2 DEF Ready
  <2>4. active \in Task /\ NoTask \in Task /\ IsApproved(active) /\ active.effect # "none"
    BY <1>1, <1>8, TaskFacts, CallTyped DEF Announced, Sound, ActiveSound, Formed
  <2>5. /\ f \in Call /\ f.active = NoTask /\ f.seq = c.seq /\ f.gen = c.gen
        /\ f.chain = c.chain /\ f.queue = c.queue /\ f.unintelligible = c.unintelligible
        /\ f.recoveries = c.recoveries /\ f.turnCount = c.turnCount /\ f.created = NoTask
        /\ f.open = c.open /\ f.inFlight = c.inFlight /\ f.pending = active /\ f.applying = NoTask
    BY ZenonT(60), <1>1, <1>2, <1>8, <2>4 DEF Call
  <2>6. QueueSound(f, l) /\ LookupsSound(f, l) /\ ActiveSound(f, l) /\ ChainSound(f)
    <3>1. /\ f.active = e.active /\ f.seq = e.seq /\ f.gen = e.gen /\ f.chain = e.chain
          /\ f.queue = e.queue
      BY <2>2, <2>5
    <3> QED BY <2>3, <3>1, TurnsStay DEF Sound
  <2>7. CountsSound(f)
    <3>1. Waiting(f) = Waiting(e) /\ Recovering(f) = Recovering(e)
      BY <2>2, <2>5 DEF Waiting, Recovering, RecoveryQueued
    <3> QED BY <2>2, <2>3, <2>5, <3>1 DEF Sound, CountsSound
  <2>8. EffectsSound(f) /\ AnswerSound(f) /\ ClosedSound(f, l)
    <3>1. EffectsSound(f) /\ AnswerSound(f)
      BY <2>4, <2>5, TaskFacts DEF EffectsSound, AnswerSound
    <3> QED BY <2>5, <3>1 DEF ClosedSound, IsOpen
  <2>9. Sound(f, l)
    BY <2>5, <2>6, <2>7, <2>8 DEF Sound
  <2>10. LatchOf(f, g, v, l)
    BY <1>2, <2>4, <2>5, TaskFacts DEF LatchOf, LatchOfEffect
  <2>11. AnnouncedOf(f, a, v, p)
    <3>1. 1 \in DOMAIN w /\ w[1] = Head(w)
      BY WireTail
    <3>2. Voiced(c.active, 1, a, w, p)
      BY <1>1, <1>8, <3>1 DEF AnnouncedOf, Announced
    <3>3. Voiced(c.active, 0 + 1, a, w, p)
      BY <3>2
    <3>4. Voiced(c.active, 0, a, v, p)
      BY <3>3, VoicedShifts
    <3> QED BY <2>5, <3>4, TaskFacts DEF AnnouncedOf
  <2>12. Unhurried(f)
    BY <1>2, <2>5 DEF Unhurried
  <2>13. Outcome(f, g, v, l, a, p)
    BY <2>5, <2>9, <2>10, <2>11, <2>12 DEF Outcome
  <2> QED BY <1>4, <2>13
<1>9. CASE f = Flush(Unlatched(c))
  <2> DEFINE e == Unlatched(c)
  <2>1. e = Unlatched(c)
    OBVIOUS
  <2> HIDE DEF e
  <2>2. Ready(e, g, v, l, a, p)
    BY <1>10, <2>1, IdleKeeps
  <2>3. Outcome(f, g, v, l, a, p)
    BY <1>9, <2>1, <2>2, FlushFrom
  <2> QED BY <1>4, <2>3
<1> QED BY <1>3, <1>5, <1>6, <1>7, <1>8, <1>9

-----------------------------------------------------------------------------
(* The events on their way, and what became of the caller's items.         *)

Said(e) == e.type \in {"transcribed", "transcript_failed"}
Words(w) == {n \in DOMAIN w : Said(w[n])}
Heard(it) == {i \in Items : it[i] \in {"transcribed", "failed"}}

\* Speech is reported in the order of its items, and not of one that is still quiet.
InOrder(w, it, gen) ==
  /\ \A i \in Items : it[i] = "quiet" => gen < i
  /\ \A n \in DOMAIN w : Speech(w[n]) =>
       /\ gen < w[n].item
       /\ \A i \in Items : it[i] = "quiet" => w[n].item < i
       /\ \A m \in DOMAIN w : m < n /\ Speech(w[m]) => w[m].item < w[n].item

\* No more inputs are accepted than there are reports of items.
WireSound(w, it, gen, seq, rep) ==
  /\ w \in Seq(WireEvent) /\ InOrder(w, it, gen)
  /\ \A n \in DOMAIN w : Speech(w[n]) \/ Said(w[n]) => w[n].item \in Items
  /\ seq + Cardinality(Words(w)) <= Cardinality(Heard(it)) + rep

LEMMA WordsAreFinite ==
  ASSUME NEW w \in Seq(WireEvent)
  PROVE  IsFiniteSet(Words(w)) /\ Cardinality(Words(w)) \in Nat
<1>1. Words(w) \in SUBSET DOMAIN w
  BY DEF Words
<1> QED BY <1>1, IndicesAreFinite

LEMMA HeardIsFinite ==
  ASSUME NEW it
  PROVE  /\ IsFiniteSet(Heard(it)) /\ Cardinality(Heard(it)) \in Nat
         /\ Cardinality(Heard(it)) <= MaxItems
<1>1. MaxItems \in Nat
  BY ConversationAssumption
<1>2. IsFiniteSet(1 .. MaxItems) /\ Cardinality(1 .. MaxItems) = MaxItems
  <2>1. \A n \in Nat : IsFiniteSet(1 .. n) /\ Cardinality(1 .. n) = n
    BY FS_Interval
  <2> QED BY <1>1, <2>1
<1>3. Heard(it) \in SUBSET (1 .. MaxItems)
  BY DEF Heard, Items
<1> QED BY <1>2, <1>3, FS_Subset, FS_CardinalityType

\* One report less is on its way when one is handled.
LEMMA WordsOfTail ==
  ASSUME NEW w \in Seq(WireEvent), w # <<>>, NEW v, v = Tail(w)
  PROVE  /\ Cardinality(Words(v)) <= Cardinality(Words(w))
         /\ Said(Head(w)) => Cardinality(Words(v)) + 1 <= Cardinality(Words(w))
<1> DEFINE back == [n \in Words(v) |-> n + 1]
           rest == Words(w) \ {1}
<1>1. /\ Len(w) \in Nat /\ DOMAIN w = 1 .. Len(w) /\ DOMAIN v = 1 .. Len(w) - 1
      /\ \A n \in DOMAIN v : v[n] = w[n + 1] /\ n + 1 \in DOMAIN w
      /\ v \in Seq(WireEvent) /\ 1 \in DOMAIN w /\ Head(w) = w[1]
  BY WireTail
<1>2. IsFiniteSet(Words(w)) /\ IsFiniteSet(rest)
  BY WordsAreFinite, FS_RemoveElement
<1>3. \A n \in Words(v) : n \in Int /\ n > 0 /\ n + 1 \in rest
  BY <1>1 DEF Words
<1>4. back \in Injection(Words(v), rest)
  BY <1>3 DEF Injection, IsInjective
<1> HIDE DEF back, rest
<1>5. Cardinality(Words(v)) <= Cardinality(rest) /\ Cardinality(Words(v)) \in Nat
  <2>1. Cardinality(Words(v)) <= Cardinality(rest)
    BY <1>2, <1>4, FS_Injection
  <2> QED BY <1>1, <2>1, WordsAreFinite
<1>6. Cardinality(rest) = IF 1 \in Words(w) THEN Cardinality(Words(w)) - 1 ELSE Cardinality(Words(w))
  BY <1>2, FS_RemoveElement DEF rest
<1>7. Said(Head(w)) => 1 \in Words(w)
  BY <1>1 DEF Words
<1>8. Cardinality(Words(w)) \in Nat
  BY WordsAreFinite
<1> QED BY <1>5, <1>6, <1>7, <1>8

\* Any event is handled: what it leaves is as it was.
LEMMA InOrderTail ==
  ASSUME NEW w \in Seq(WireEvent), w # <<>>, NEW v, v = Tail(w), NEW it,
         NEW gen \in Int, InOrder(w, it, gen), NEW new \in Int,
         \/ new = gen
         \/ Speech(Head(w)) /\ new <= Head(w).item
  PROVE  InOrder(v, it, new)
<1>1. /\ Len(w) \in Nat /\ DOMAIN w = 1 .. Len(w) /\ DOMAIN v = 1 .. Len(w) - 1
      /\ \A n \in DOMAIN v : v[n] = w[n + 1] /\ n + 1 \in DOMAIN w
      /\ 1 \in DOMAIN w /\ Head(w) = w[1] /\ w[1] \in WireEvent
  BY WireTail
<1>2. \A n \in DOMAIN w : w[n].item \in Int
  <2>1. \A e \in WireEvent : e.item \in Int
    BY ConversationAssumption DEF WireEvent
  <2> QED BY <2>1, ElementOfSeq, LenProperties
<1>3. ASSUME NEW i \in Items, it[i] = "quiet"
      PROVE  new < i
  <2>1. gen < i /\ i \in Int
    BY <1>3, ConversationAssumption DEF InOrder, Items
  <2>2. CASE new = gen
    BY <2>1, <2>2
  <2>3. CASE Speech(Head(w)) /\ new <= Head(w).item
    <3>1. w[1].item < i
      BY <1>1, <1>3, <2>3 DEF InOrder
    <3> QED BY <1>1, <1>2, <2>1, <2>3, <3>1
  <2> QED BY <2>2, <2>3
<1>4. ASSUME NEW n \in DOMAIN v, Speech(v[n])
      PROVE  /\ new < v[n].item
             /\ \A i \in Items : it[i] = "quiet" => v[n].item < i
             /\ \A m \in DOMAIN v : m < n /\ Speech(v[m]) => v[m].item < v[n].item
  <2>1. v[n] = w[n + 1] /\ n + 1 \in DOMAIN w /\ Speech(w[n + 1]) /\ 1 < n + 1
    BY <1>1, <1>4
  <2>2. /\ gen < w[n + 1].item
        /\ \A i \in Items : it[i] = "quiet" => w[n + 1].item < i
        /\ \A m \in DOMAIN w : m < n + 1 /\ Speech(w[m]) => w[m].item < w[n + 1].item
    BY <2>1 DEF InOrder
  <2>3. new < v[n].item
    <3>1. CASE new = gen
      BY <2>1, <2>2, <3>1
    <3>2. CASE Speech(Head(w)) /\ new <= Head(w).item
      <4>1. w[1].item < w[n + 1].item
        BY <1>1, <2>1, <2>2, <3>2
      <4> QED BY <1>1, <1>2, <2>1, <3>2, <4>1
    <3> QED BY <3>1, <3>2
  <2>4. ASSUME NEW m \in DOMAIN v, m < n, Speech(v[m])
        PROVE  v[m].item < v[n].item
    <3>1. v[m] = w[m + 1] /\ m + 1 \in DOMAIN w /\ m + 1 < n + 1
      BY <1>1, <2>4
    <3> QED BY <2>1, <2>2, <2>4, <3>1
  <2> QED BY <2>1, <2>2, <2>3, <2>4
<1> QED BY <1>3, <1>4 DEF InOrder

-----------------------------------------------------------------------------
(* How far a handler gets in the inputs.                                   *)

FlushKeeps(f, c) == f.seq = c.seq /\ f.gen = c.gen

LEMMA FlushSame ==
  ASSUME NEW c \in Call
  PROVE  FlushKeeps(Flush(c), c)
BY DEF Call, Flush, FlushKeeps

LEMMA EnqueueSame ==
  ASSUME NEW c \in Call, NEW t \in Task
  PROVE  FlushKeeps(EnqueueTask(c, t), c)
<1> DEFINE d == [c EXCEPT !.queue = Append(@, t)]
<1>1. d \in Call /\ d.seq = c.seq /\ d.gen = c.gen
  <2>1. Append(c.queue, t) \in Seq(Task)
    BY CallTyped, Appended
  <2> QED BY <2>1 DEF Call
<1> HIDE DEF d
<1>2. FlushKeeps(Flush(d), d)
  BY <1>1, FlushSame
<1>3. EnqueueTask(c, t) = Flush(d)
  BY DEF EnqueueTask, d
<1> QED BY <1>1, <1>2, <1>3 DEF FlushKeeps

LEMMA ApprovedTyped ==
  ASSUME NEW effect \in Effects, NEW item \in 0 .. MaxItems
  PROVE  Approved(effect, item) \in Task
BY ApprovedFits

LEMMA SpeechInputs ==
  ASSUME NEW c \in Call, NEW i, NEW f, f = SpeechStarted(c, i)
  PROVE  f.seq = c.seq /\ f.gen = c.gen + 1
BY DEF Call, SpeechStarted

LEMMA ForgetInputs ==
  ASSUME NEW c \in Call, NEW i \in Items, NEW d, d = Forget(c, i)
  PROVE  d \in Call /\ d.seq = c.seq /\ d.gen = c.gen /\ d.recoveries = c.recoveries
<1>1. 0 \in Generations
  BY ConversationAssumption DEF Generations
<1>2. [c.heard EXCEPT ![i] = 0] \in [Items -> Generations]
  BY <1>1 DEF Call
<1> QED BY <1>2 DEF Forget, Call

LEMMA TranscribedInputs ==
  ASSUME NEW c \in Call, NEW i \in Items, NEW f, f = Transcribed(c, i)
  PROVE  f.seq \in {c.seq, c.seq + 1} /\ f.gen = c.gen
<1> DEFINE d == Forget(c, i)
           u == [item |-> i, seq |-> c.seq + 1, gen |-> c.gen, asking |-> FALSE]
<1>1. d \in Call /\ d.seq = c.seq /\ d.gen = c.gen
  BY ForgetInputs
<1>2. f = d \/ f = Accepted(d, u)
  BY DEF Transcribed, Accepted
<1> HIDE DEF d, u
<1>3. Accepted(d, u).seq = d.seq + 1 /\ Accepted(d, u).gen = d.gen
  BY <1>1 DEF Accepted, Call
<1> QED BY <1>1, <1>2, <1>3

LEMMA FailedInputs ==
  ASSUME NEW c \in Call, NEW i \in Items, c.seq + 1 \in Sequences,
         NEW f, f = TranscriptionFailed(c, i)
  PROVE  f.seq \in {c.seq, c.seq + 1} /\ f.gen = c.gen
<1> DEFINE e == Forget(c, i)
           d == [e EXCEPT !.seq = @ + 1]
           h == [d EXCEPT !.recoveries = @ + 1]
           k == [d EXCEPT !.retryPending = TRUE]
           t == Recovery(i, d.seq, d.gen)
<1>1. e \in Call /\ e.seq = c.seq /\ e.gen = c.gen /\ e.recoveries = c.recoveries
  BY ForgetInputs
<1>2. \/ f = e \/ f = d \/ f = EnqueueTask(k, Approved("none", i))
      \/ c.recoveries # MaxRecoveries /\ f = EnqueueRecovery(h, t)
  BY DEF TranscriptionFailed
<1> HIDE DEF e
<1>3. d \in Call /\ d.seq = c.seq + 1 /\ d.gen = c.gen /\ d.recoveries = c.recoveries
  <2>1. e.seq + 1 \in Sequences
    BY <1>1
  <2> QED BY <1>1, <2>1 DEF Call
<1> HIDE DEF d
<1>4. CASE f = EnqueueTask(k, Approved("none", i))
  <2>1. k \in Call /\ k.seq = d.seq /\ k.gen = d.gen
    BY <1>3 DEF Call
  <2>2. Approved("none", i) \in Task
    BY ApprovedTyped, ConversationAssumption DEF Effects, Items
  <2> HIDE DEF k
  <2> QED BY <1>3, <1>4, <2>1, <2>2, EnqueueSame DEF FlushKeeps
<1>5. CASE c.recoveries # MaxRecoveries /\ f = EnqueueRecovery(h, t)
  <2>1. h \in Call /\ h.seq = d.seq /\ h.gen = d.gen
    <3>1. d.recoveries + 1 \in 0 .. MaxRecoveries
      <4>1. d.recoveries \in 0 .. MaxRecoveries /\ d.recoveries # MaxRecoveries
        BY <1>3, <1>5 DEF Call
      <4> QED BY <4>1, ConversationAssumption
    <3> QED BY <1>3, <3>1 DEF Call
  <2> HIDE DEF h
  <2>2. t \in Task
    <3>1. i \in 0 .. MaxItems /\ d.seq \in Sequences /\ d.gen \in Generations
      BY <1>3, ConversationAssumption DEF Call, Items
    <3> QED BY <3>1, TaskFacts DEF Recovery, Task
  <2> HIDE DEF t
  <2>3. Filter(h.queue, IsLasting) \in Seq(Task)
    BY <2>1, FilteredQueue
  <2>4. Append(Filter(h.queue, IsLasting), t) \in Seq(Task)
    BY <2>2, <2>3, Appended
  <2> DEFINE n == [h EXCEPT !.queue = Append(Filter(@, IsLasting), t)]
  <2>5. n \in Call /\ n.seq = h.seq /\ n.gen = h.gen
    BY <2>1, <2>4 DEF Call
  <2>6. f = Flush(n)
    BY <1>5 DEF EnqueueRecovery
  <2> HIDE DEF n
  <2>7. FlushKeeps(f, n)
    BY <2>5, <2>6, FlushSame
  <2> QED BY <1>3, <2>1, <2>5, <2>7 DEF FlushKeeps
<1> QED BY <1>1, <1>2, <1>3, <1>4, <1>5

LEMMA StoppedInputs ==
  ASSUME NEW c \in Call, NEW f, f = AudioStopped(c)
  PROVE  FlushKeeps(f, c)
BY DEF Call, AudioStopped, FlushKeeps

LEMMA IdleTyped ==
  ASSUME NEW c \in Call
  PROVE  Unlatched(c) \in Call /\ FlushKeeps(Unlatched(c), c)
BY TaskFacts DEF Unlatched, Call, FlushKeeps

LEMMA RecoveryInputs ==
  ASSUME NEW c, NEW l, Sound(c, l), IsRecovery(c.active), NEW result, NEW f, f = FinishRecovery(c, result)
  PROVE  FlushKeeps(f, c)
<1> DEFINE e == Unlatched(c)
           d == [e EXCEPT !.retryPending = FALSE]
           missed == [d EXCEPT !.unintelligible = @ + 1]
           turn == c.active
           u == [item |-> turn.item, seq |-> turn.seq, gen |-> turn.gen, asking |-> FALSE]
<1>1. c \in Call
  BY DEF Sound
<1>2. \/ f = Flush(d) \/ f = HeardAs(d, u) \/ f = EnqueueTask(missed, Approved("none", 0))
      \/ f = Flush(missed)
  BY DEF FinishRecovery, HeardAs
<1>3. e \in Call /\ e.seq = c.seq /\ e.gen = c.gen
  BY <1>1, IdleTyped DEF FlushKeeps
<1>4. e.unintelligible = c.unintelligible
  BY <1>1 DEF Unlatched, Call
<1> HIDE DEF e
<1>5. d \in Call /\ d.seq = c.seq /\ d.gen = c.gen /\ d.unintelligible = c.unintelligible
  BY <1>3, <1>4 DEF Call
<1> HIDE DEF d
<1>6. missed \in Call /\ missed.seq = c.seq /\ missed.gen = c.gen
  <2>1. d.unintelligible + 1 \in 0 .. MaxRecoveries
    <3>1. c.unintelligible \in 0 .. MaxRecoveries /\ c.recoveries \in 0 .. MaxRecoveries
      BY <1>1 DEF Call
    <3>2. c.unintelligible + Recovering(c) <= c.recoveries /\ Recovering(c) >= 1 /\ Recovering(c) \in Int
      BY <1>1, CountsTyped DEF Sound, CountsSound, Recovering
    <3> QED BY <1>5, <3>1, <3>2, ConversationAssumption
  <2> QED BY <1>5, <2>1 DEF Call
<1> HIDE DEF missed
<1>7. Approved("none", 0) \in Task
  BY ApprovedTyped, ConversationAssumption DEF Effects
<1>8. FlushKeeps(Flush(d), d) /\ FlushKeeps(Flush(missed), missed)
      /\ FlushKeeps(EnqueueTask(missed, Approved("none", 0)), missed)
  BY <1>5, <1>6, <1>7, FlushSame, EnqueueSame
<1>9. HeardAs(d, u).seq = d.seq /\ HeardAs(d, u).gen = d.gen
  BY <1>5 DEF HeardAs, Call
<1> QED BY <1>2, <1>5, <1>6, <1>8, <1>9 DEF FlushKeeps

LEMMA DoneInputs ==
  ASSUME NEW c, NEW l, Sound(c, l), NEW completed, NEW tool, NEW f, f = ResponseDone(c, completed, tool)
  PROVE  FlushKeeps(f, c)
<1>1. c \in Call
  BY DEF Sound
<1>2. CASE c.active.kind = "recovery" /\ f = FinishRecovery(c, IF completed THEN tool ELSE "none")
  BY <1>2, RecoveryInputs DEF IsRecovery
<1>3. CASE f = Release(c)
  <2>1. Unlatched(c) \in Call /\ FlushKeeps(Unlatched(c), c)
    BY <1>1, IdleTyped
  <2>2. FlushKeeps(Flush(Unlatched(c)), Unlatched(c))
    BY <2>1, FlushSame
  <2> QED BY <1>3, <2>1, <2>2 DEF Release, FlushKeeps
<1>4. CASE \/ f = c
           \/ f = [c EXCEPT !.active.stage = "lookup_pending"]
           \/ f = [c EXCEPT !.active.stage = "lookup_answer",
                            !.created = [c.active EXCEPT !.stage = "lookup_answer"]]
           \/ f = [c EXCEPT !.active = NoTask, !.pending = c.active]
  BY <1>1, <1>4 DEF Call, FlushKeeps
<1> QED BY <1>2, <1>3, <1>4 DEF ResponseDone

-----------------------------------------------------------------------------
(* The steps of the controller.                                            *)

\* The inductive invariant.
ProviderTyped ==
  /\ Len(wire) <= MaxWire /\ generating \in Task /\ audio \subseteq Task /\ played \subseteq Task
  /\ items \in [Items -> {"quiet", "said", "transcribed", "failed"}]
  /\ repeats \in 0 .. MaxRepeats
Uncollided == collided = FALSE
WireOf == WireSound(wire, items, call.gen, call.seq, repeats)
CallOf == Settled(call, generating, wire, lookups, audio, played)
ConversationIInv == CallOf /\ WireOf /\ ProviderTyped /\ Uncollided

\* What a handler sent reaches the provider, which generates nothing else.
LEMMA HandledKeeps ==
  ASSUME NEW f, NEW w, NEW l, NEW a, NEW p, Outcome(f, generating, w, l, a, p), Handled(f),
         generating \in Task, Uncollided
  PROVE  /\ call' = f /\ Settled(f, generating', w, l, a, p) /\ generating' \in Task
         /\ Uncollided'
<1>1. CASE f.created = NoTask \/ ~f.open
  BY <1>1 DEF Handled, Outcome, Settled, Uncollided
<1>2. CASE ~(f.created = NoTask \/ ~f.open)
  <2>1. /\ call' = f /\ generating' = f.created
        /\ collided' = (collided \/ generating # NoTask)
    BY <1>2 DEF Handled
  <2>2. generating = NoTask /\ LatchOf(f, f.created, w, l) /\ Sound(f, l) /\ Unhurried(f)
        /\ AnnouncedOf(f, a, w, p)
    BY <1>2 DEF Outcome
  <2>3. f.created \in Task
    BY <2>2 DEF Sound, Call
  <2> QED BY <2>1, <2>2, <2>3 DEF Settled, Uncollided
<1> QED BY <1>1, <1>2

LEMMA FreshIsReady ==
  ASSUME CallOf
  PROVE  /\ FreshCall \in Call /\ FreshCall.created = NoTask /\ FreshCall.seq = call.seq /\ FreshCall.gen = call.gen
         /\ FreshCall.chain = call.chain /\ FreshCall.active = call.active /\ FreshCall.mode = call.mode
         /\ FreshCall.applying = call.applying /\ FreshCall.pending = call.pending /\ FreshCall.open = call.open
         /\ Settled(FreshCall, generating, wire, lookups, audio, played)
         /\ (call.open => IsOpen(FreshCall) /\ Ready(FreshCall, generating, wire, lookups, audio, played))
BY SettledIsReady DEF CallOf, FreshCall, IsOpen

\* An accepted input was reported, and speech was of an item.
LEMMA InputsAreBounded ==
  ASSUME ConversationIInv, wire # <<>>
  PROVE  /\ Said(Head(wire)) => Head(wire).item \in Items /\ call.seq + 1 \in Sequences
         /\ Speech(Head(wire)) => Head(wire).item \in Items /\ call.gen + 1 \in Generations
                                  /\ call.gen + 1 <= Head(wire).item
         /\ call.seq \in Int /\ call.gen \in Int
<1>1. /\ wire \in Seq(WireEvent) /\ InOrder(wire, items, call.gen)
      /\ \A n \in DOMAIN wire : Speech(wire[n]) \/ Said(wire[n]) => wire[n].item \in Items
      /\ call.seq + Cardinality(Words(wire)) <= Cardinality(Heard(items)) + repeats
  BY DEF ConversationIInv, WireOf, WireSound
<1>2. 1 \in DOMAIN wire /\ Head(wire) = wire[1]
  BY <1>1, WireTail
<1>3. call \in Call /\ call.seq \in Nat /\ call.gen \in Nat /\ repeats \in Nat /\ repeats <= MaxRepeats
      /\ MaxItems \in Nat /\ MaxRepeats \in Nat
  <2>1. call \in Call
    BY DEF ConversationIInv, CallOf, Settled, Sound
  <2>2. call.gen \in Generations /\ repeats \in 0 .. MaxRepeats
    BY <2>1, CallTyped DEF ConversationIInv, ProviderTyped
  <2> QED BY <2>1, <2>2, CountsTyped, ConversationAssumption DEF Generations
<1>4. ASSUME Said(Head(wire))
      PROVE  Head(wire).item \in Items /\ call.seq + 1 \in Sequences
  <2>1. Cardinality(Words(Tail(wire))) + 1 <= Cardinality(Words(wire))
    BY <1>1, <1>4, WordsOfTail
  <2>2. /\ Cardinality(Words(Tail(wire))) \in Nat /\ Cardinality(Words(wire)) \in Nat
        /\ Cardinality(Heard(items)) \in Nat /\ Cardinality(Heard(items)) <= MaxItems
    <3>1. Tail(wire) \in Seq(WireEvent)
      BY <1>1, WireTail
    <3> QED BY <1>1, <3>1, WordsAreFinite, HeardIsFinite
  <2>3. call.seq + 1 <= MaxItems + MaxRepeats
    BY <1>1, <1>3, <2>1, <2>2
  <2> QED BY <1>1, <1>2, <1>3, <1>4, <2>3 DEF Sequences
<1>5. ASSUME Speech(Head(wire))
      PROVE  /\ Head(wire).item \in Items /\ call.gen + 1 \in Generations
             /\ call.gen + 1 <= Head(wire).item
  <2>1. Head(wire).item \in Items /\ call.gen < Head(wire).item
    BY <1>1, <1>2, <1>5 DEF InOrder
  <2> QED BY <1>3, <2>1 DEF Items, Generations
<1> QED BY <1>3, <1>4, <1>5

LEMMA ReceiveKeepsWire ==
  ASSUME ConversationIInv, wire # <<>>, NEW f,
         \/ f.seq = call.seq
         \/ Said(Head(wire)) /\ f.seq = call.seq + 1,
         \/ f.gen = call.gen
         \/ Speech(Head(wire)) /\ f.gen = call.gen + 1
  PROVE  WireSound(Tail(wire), items, f.gen, f.seq, repeats) /\ Len(Tail(wire)) <= MaxWire
<1>1. /\ wire \in Seq(WireEvent) /\ InOrder(wire, items, call.gen)
      /\ \A n \in DOMAIN wire : Speech(wire[n]) \/ Said(wire[n]) => wire[n].item \in Items
      /\ call.seq + Cardinality(Words(wire)) <= Cardinality(Heard(items)) + repeats
      /\ Len(wire) <= MaxWire /\ repeats \in Int
  BY ConversationAssumption DEF ConversationIInv, WireOf, WireSound, ProviderTyped
<1>2. /\ Tail(wire) \in Seq(WireEvent) /\ Len(Tail(wire)) = Len(wire) - 1 /\ Len(wire) \in Nat
      /\ \A n \in DOMAIN Tail(wire) : Tail(wire)[n] = wire[n + 1] /\ n + 1 \in DOMAIN wire
  BY <1>1, WireTail
<1>3. call.seq \in Int /\ call.gen \in Int
      /\ (Speech(Head(wire)) => call.gen + 1 <= Head(wire).item)
  BY InputsAreBounded
<1>4. InOrder(Tail(wire), items, f.gen)
  <2>1. f.gen \in Int /\ (f.gen = call.gen \/ (Speech(Head(wire)) /\ f.gen <= Head(wire).item))
    BY <1>3
  <2> QED BY <1>1, <1>3, <2>1, InOrderTail
<1>5. f.seq + Cardinality(Words(Tail(wire))) <= Cardinality(Heard(items)) + repeats
  <2>1. /\ Cardinality(Words(Tail(wire))) <= Cardinality(Words(wire))
        /\ Said(Head(wire)) => Cardinality(Words(Tail(wire))) + 1 <= Cardinality(Words(wire))
    BY <1>1, WordsOfTail
  <2>2. /\ Cardinality(Words(Tail(wire))) \in Int /\ Cardinality(Words(wire)) \in Int
        /\ Cardinality(Heard(items)) \in Int
    <3>1. wire \in Seq(WireEvent) /\ Tail(wire) \in Seq(WireEvent)
      BY <1>1, <1>2
    <3>2. Cardinality(Words(Tail(wire))) \in Nat /\ Cardinality(Words(wire)) \in Nat
      BY <3>1, WordsAreFinite
    <3>3. Cardinality(Heard(items)) \in Nat
      BY HeardIsFinite
    <3> QED BY <3>2, <3>3
  <2>3. CASE f.seq = call.seq
    BY <1>1, <1>3, <2>1, <2>2, <2>3
  <2>4. CASE Said(Head(wire)) /\ f.seq = call.seq + 1
    BY <1>1, <1>3, <2>1, <2>2, <2>4
  <2> QED BY <2>3, <2>4
<1>6. \A n \in DOMAIN Tail(wire) :
        Speech(Tail(wire)[n]) \/ Said(Tail(wire)[n]) => Tail(wire)[n].item \in Items
  BY <1>1, <1>2
<1>7. Len(Tail(wire)) <= MaxWire
  BY <1>1, <1>2, ConversationAssumption
<1> QED BY <1>2, <1>4, <1>5, <1>6, <1>7 DEF WireSound


\* A handler of the next event, from what it leaves to what follows.
LEMMA ReceiveEnds ==
  ASSUME ConversationIInv, wire # <<>>, NEW f, NEW k,
         Outcome(f, generating, Tail(wire), k, audio, played), Handled(f),
         wire' = Tail(wire), lookups' = k, UNCHANGED <<audio, items, repeats, played>>,
         \/ f.seq = call.seq
         \/ Said(Head(wire)) /\ f.seq = call.seq + 1,
         \/ f.gen = call.gen
         \/ Speech(Head(wire)) /\ f.gen = call.gen + 1
  PROVE  ConversationIInv'
<1>1. WireSound(Tail(wire), items, f.gen, f.seq, repeats) /\ Len(Tail(wire)) <= MaxWire
  BY ReceiveKeepsWire
<1>2. generating \in Task /\ Uncollided
  BY DEF ConversationIInv, ProviderTyped
<1>3. /\ call' = f /\ Settled(f, generating', Tail(wire), k, audio, played)
      /\ generating' \in Task /\ Uncollided'
  BY <1>2, HandledKeeps
<1>4. CallOf'
  BY <1>3 DEF CallOf
<1>5. WireOf'
  BY <1>1, <1>3 DEF WireOf
<1>6. ProviderTyped'
  BY <1>1, <1>3 DEF ProviderTyped, ConversationIInv
<1> QED BY <1>3, <1>4, <1>5, <1>6 DEF ConversationIInv

LEMMA ReceiveStep ==
  ASSUME ConversationIInv, ReceiveEvent
  PROVE  ConversationIInv'
<1> DEFINE event == Head(wire)
           v == Tail(wire)
<1>1. wire # <<>> /\ call.open /\ wire' = Tail(wire) /\ UNCHANGED <<audio, items, repeats, played>>
  BY DEF ReceiveEvent
<1>2. wire \in Seq(WireEvent)
  BY DEF ConversationIInv, WireOf, WireSound
<1>3. event \in WireEvent /\ event.type \in EventTypes
  <2>1. event \in WireEvent
    BY <1>1, <1>2, WireTail
  <2> QED BY <2>1 DEF WireEvent
<1>4. /\ FreshCall \in Call /\ FreshCall.created = NoTask /\ FreshCall.seq = call.seq /\ FreshCall.gen = call.gen
      /\ Settled(FreshCall, generating, wire, lookups, audio, played)
      /\ Sound(FreshCall, lookups)
  BY FreshIsReady DEF ConversationIInv, Settled
<1>5. IsOpen(FreshCall)
  BY <1>1, FreshIsReady DEF ConversationIInv
<1>6. /\ Said(event) => event.item \in Items /\ FreshCall.seq + 1 \in Sequences
      /\ Speech(event) => event.item \in Items /\ FreshCall.gen + 1 \in Generations
  BY <1>1, <1>4, InputsAreBounded
<1>7. CASE event.type = "speech_started"
  <2> DEFINE f == SpeechStarted(FreshCall, event.item)
  <2>1. Handled(f) /\ lookups' = lookups
    BY <1>7 DEF ReceiveEvent
  <2>2. Speech(event)
    BY <1>7 DEF Speech
  <2>3. event.item \in Items /\ FreshCall.gen + 1 \in Generations
    BY <1>6, <2>2
  <2>4. f.seq = call.seq /\ f.gen = call.gen + 1
    BY <1>4, SpeechInputs
  <2>5. Outcome(f, generating, v, lookups, audio, played)
    BY <1>1, <1>2, <1>4, <1>5, <2>2, <2>3, SpeechStartedKeeps
  <2> HIDE DEF f
  <2> QED BY <1>1, <2>1, <2>2, <2>4, <2>5, ReceiveEnds
<1>8. CASE event.type = "transcribed"
  <2> DEFINE f == Transcribed(FreshCall, event.item)
  <2>1. Handled(f) /\ lookups' = lookups
    BY <1>8 DEF ReceiveEvent
  <2>2. Said(event)
    BY <1>8 DEF Said
  <2>3. event.item \in Items /\ FreshCall.seq + 1 \in Sequences
    BY <1>6, <2>2
  <2>4. f.seq \in {FreshCall.seq, FreshCall.seq + 1} /\ f.gen = FreshCall.gen
    BY <1>4, <2>3, TranscribedInputs
  <2>5. Settled(FreshCall, generating, v, lookups, audio, played)
    BY <1>1, <1>2, <1>4, <1>8, WordsKeep
  <2>6. Outcome(f, generating, v, lookups, audio, played)
    BY <1>4, <1>5, <2>3, <2>5, TranscribedKeeps
  <2> HIDE DEF f
  <2> QED BY <1>1, <1>4, <2>1, <2>2, <2>4, <2>6, ReceiveEnds
<1>9. CASE event.type = "transcript_failed"
  <2> DEFINE f == TranscriptionFailed(FreshCall, event.item)
  <2>1. Handled(f) /\ lookups' = lookups
    BY <1>9 DEF ReceiveEvent
  <2>2. Said(event)
    BY <1>9 DEF Said
  <2>3. event.item \in Items /\ FreshCall.seq + 1 \in Sequences
    BY <1>6, <2>2
  <2>4. f.seq \in {FreshCall.seq, FreshCall.seq + 1} /\ f.gen = FreshCall.gen
    BY <1>4, <2>3, FailedInputs
  <2>5. Settled(FreshCall, generating, v, lookups, audio, played)
    BY <1>1, <1>2, <1>4, <1>9, WordsKeep
  <2>6. Outcome(f, generating, v, lookups, audio, played)
    BY <1>4, <1>5, <2>3, <2>5, FailedKeeps
  <2> HIDE DEF f
  <2> QED BY <1>1, <1>4, <2>1, <2>2, <2>4, <2>6, ReceiveEnds
<1>10. CASE event.type = "response_done"
  <2> DEFINE f == ResponseDone(FreshCall, event.completed, event.tool)
             m == LookupsAfter(f, lookups)
  <2>1. Handled(f)
    BY <1>10 DEF ReceiveEvent
  <2>2. call' = f
    BY <2>1 DEF Handled
  <2>3. lookups' = m
    BY <1>10, <2>2 DEF ReceiveEvent, LookupsAfter
  <2>4. Ended(event)
    BY <1>10 DEF Ended
  <2>5. f.seq = call.seq /\ f.gen = call.gen
    BY <1>4, DoneInputs DEF FlushKeeps
  <2>6. Outcome(f, generating, v, m, audio, played)
    BY <1>1, <1>2, <1>4, <1>5, <2>4, ResponseDoneKeeps
  <2> HIDE DEF f, m
  <2> QED BY <1>1, <2>1, <2>3, <2>5, <2>6, ReceiveEnds
<1>11. CASE event.type = "audio_stopped"
  <2> DEFINE f == AudioStopped(FreshCall)
  <2>1. Handled(f) /\ lookups' = lookups
    BY <1>11 DEF ReceiveEvent
  <2>2. Stopped(event)
    BY <1>11 DEF Stopped
  <2>3. f.seq = call.seq /\ f.gen = call.gen
    BY <1>4, StoppedInputs DEF FlushKeeps
  <2>4. Outcome(f, generating, v, lookups, audio, played)
    BY <1>1, <1>2, <1>4, <1>5, <2>2, AudioStoppedKeeps
  <2> HIDE DEF f
  <2> QED BY <1>1, <2>1, <2>3, <2>4, ReceiveEnds
<1> QED BY <1>3, <1>7, <1>8, <1>9, <1>10, <1>11 DEF EventTypes

-----------------------------------------------------------------------------
(* The chain of transcripts.                                               *)

Shrunk(c, count) == [c EXCEPT !.chain = Tail(@), !.turnCount = count]
Asking(c) == [c EXCEPT !.turnCount = @ + 1, !.chain[1].asking = TRUE]

\* Two records that differ in nothing but the chain.
Beside(f, c) ==
  /\ f.open = c.open /\ f.queue = c.queue /\ f.inFlight = c.inFlight /\ f.active = c.active
  /\ f.seq = c.seq /\ f.gen = c.gen /\ f.pending = c.pending /\ f.applying = c.applying
  /\ f.created = c.created /\ f.recoveries = c.recoveries
  /\ f.unintelligible = c.unintelligible /\ f.mode = c.mode

\* The inputs in the chain of f are some of those in the chain of c.
ChainWithin(f, c) ==
  \A n \in DOMAIN f.chain : \E k \in DOMAIN c.chain : f.chain[n].seq = c.chain[k].seq

LEMMA BesideSound ==
  ASSUME NEW c, NEW g, NEW w, NEW l, NEW a, NEW p, Settled(c, g, w, l, a, p), c.created = NoTask,
         IsOpen(c), NEW f \in Call, Beside(f, c), ChainWithin(f, c), ChainSound(f),
         f.turnCount + Waiting(f) <= c.turnCount + Waiting(c)
  PROVE  Settled(f, g, w, l, a, p)
<1>1. c \in Call /\ Sound(c, l)
  BY DEF Settled, Sound
<1>2. \A t : Placed(t, c) => Placed(t, f)
  <2> SUFFICES ASSUME NEW t, Placed(t, c), Asked(t)
               PROVE  Placed(t, f)
    BY DEF Placed
  <2>1. ASSUME NEW n \in DOMAIN f.chain
        PROVE  t.seq # f.chain[n].seq /\ (IsDirect(t) => t.seq < f.chain[n].seq)
    <3>1. PICK k \in DOMAIN c.chain : f.chain[n].seq = c.chain[k].seq
      BY <2>1 DEF ChainWithin
    <3> QED BY <3>1 DEF Placed
  <2>2. t.seq <= f.seq
    BY DEF Placed, Beside
  <2> QED BY <2>1, <2>2 DEF Placed
<1>3. QueueSound(f, l)
  <2>1. QueueSound(c, l) /\ f.queue = c.queue /\ f.gen = c.gen /\ f.active = c.active
    BY <1>1 DEF Sound, Beside
  <2>2. ASSUME NEW n \in DOMAIN f.queue
        PROVE  Fits(f.queue[n], f, l)
    <3>1. Fits(c.queue[n], c, l)
      BY <2>1, <2>2 DEF QueueSound
    <3>2. Placed(c.queue[n], f)
      BY <1>2, <3>1 DEF Fits
    <3> QED BY <2>1, <3>1, <3>2 DEF Fits
  <2> QED BY <2>1, <2>2 DEF QueueSound
<1>4. LookupsSound(f, l) /\ ActiveSound(f, l)
  <2>1. LookupsSound(c, l) /\ ActiveSound(c, l) /\ f.active = c.active
    BY <1>1 DEF Sound, Beside
  <2> QED BY <1>2, <2>1 DEF LookupsSound, ActiveSound
<1>5. EffectsSound(f) /\ AnswerSound(f)
  BY <1>1, TaskFacts DEF Sound, EffectsSound, AnswerSound, Beside
<1>6. ClosedSound(f, l)
  BY DEF ClosedSound, Beside, IsOpen
<1>7. CountsSound(f)
  <2>1. CountsSound(c)
    BY <1>1 DEF Sound
  <2>2. (RecoveryQueued(f) => RecoveryQueued(c)) /\ (IsRecovery(f.active) => IsRecovery(c.active))
    BY DEF RecoveryQueued, Beside
  <2>3. /\ f.unintelligible <= c.unintelligible /\ c.recoveries <= f.recoveries /\ c.seq <= f.seq
    BY <1>1, CountsTyped DEF Beside
  <2> QED BY <1>1, <2>1, <2>2, <2>3, CountsStay
<1>8. Sound(f, l)
  BY <1>3, <1>4, <1>5, <1>6, <1>7 DEF Sound
<1>9. Unhurried(f) /\ LatchOf(f, g, w, l) /\ AnnouncedOf(f, a, w, p)
  BY DEF Settled, Unhurried, LatchOf, LatchFree, LatchOfResponse, LatchOfEffect, AnnouncedOf, Beside
<1> QED BY <1>8, <1>9 DEF Settled

\* A waiting turn may still be counted.
LEMMA RoomForTurn ==
  ASSUME NEW c, NEW l, Sound(c, l), c.chain # <<>>, ~IsAsking(Head(c.chain))
  PROVE  c.turnCount + 1 \in 0 .. MaxTurns + MaxItems + MaxRepeats
<1>1. c \in Call /\ CountsSound(c)
  BY DEF Sound
<1>2. c.chain \in Seq(Turn) /\ Head(c.chain) = c.chain[1] /\ Len(c.chain) >= 1 /\ Len(c.chain) \in Nat
  BY <1>1, CallTyped, Tailed
<1>3. Waiting(c) >= 1
  BY <1>2 DEF Waiting
<1>4. c.turnCount + Waiting(c) + Recovering(c) <= c.seq
  BY <1>1 DEF CountsSound
<1>5. /\ c.turnCount \in Nat /\ Waiting(c) \in Int /\ Recovering(c) \in Nat /\ c.seq \in Nat
      /\ c.seq \in 0 .. MaxItems + MaxRepeats
  <2>1. c.seq \in 0 .. MaxItems + MaxRepeats
    BY <1>1 DEF Call, Sequences
  <2> QED BY <1>1, <2>1, CountsTyped
<1>6. MaxTurns \in Nat /\ MaxItems \in Nat /\ MaxRepeats \in Nat
  BY ConversationAssumption
<1> QED BY <1>3, <1>4, <1>5, <1>6

LEMMA ChainShrinks ==
  ASSUME NEW c, NEW g, NEW w, NEW l, NEW a, NEW p, Settled(c, g, w, l, a, p), c.created = NoTask,
         IsOpen(c), c.chain # <<>>, NEW count,
         \/ count = c.turnCount
         \/ count = c.turnCount + 1 /\ ~IsAsking(Head(c.chain)),
         NEW f, f = Shrunk(c, count)
  PROVE  /\ f \in Call /\ Settled(f, g, w, l, a, p) /\ Beside(f, c)
         /\ f.chain = Tail(c.chain)
<1>1. c \in Call /\ Sound(c, l)
  BY DEF Settled, Sound
<1>2. /\ Tail(c.chain) \in Seq(Turn) /\ Len(c.chain) \in Nat /\ Len(c.chain) >= 1
      /\ Len(Tail(c.chain)) = Len(c.chain) - 1 /\ DOMAIN Tail(c.chain) = 1 .. Len(c.chain) - 1
      /\ DOMAIN c.chain = 1 .. Len(c.chain) /\ Head(c.chain) = c.chain[1]
      /\ \A n \in 1 .. Len(c.chain) - 1 :
           Tail(c.chain)[n] = c.chain[n + 1] /\ n + 1 \in DOMAIN c.chain
  BY <1>1, CallTyped, Tailed
<1>3. count \in 0 .. MaxTurns + MaxItems + MaxRepeats
  <2>1. c.turnCount \in 0 .. MaxTurns + MaxItems + MaxRepeats
    BY <1>1 DEF Call
  <2> QED BY <1>1, <2>1, RoomForTurn
<1>4. f \in Call /\ Beside(f, c) /\ f.chain = Tail(c.chain) /\ f.turnCount = count
  BY <1>1, <1>2, <1>3 DEF Call, Beside, Shrunk
<1>5. ChainWithin(f, c)
  BY <1>2, <1>4 DEF ChainWithin
<1>6. ChainSound(c) /\ f.seq = c.seq
  BY <1>1, <1>4 DEF Sound, Beside
<1>7. \A n \in DOMAIN f.chain : ~IsAsking(f.chain[n])
  <2>1. \A n \in 1 .. Len(c.chain) - 1 : n + 1 > 1
    BY <1>2
  <2> QED BY <1>2, <1>4, <1>6, <2>1 DEF ChainSound
<1>8. ChainSound(f)
  <2>1. ASSUME NEW n \in DOMAIN f.chain
        PROVE  f.chain[n].seq <= f.seq
    <3>1. f.chain[n] = c.chain[n + 1] /\ n + 1 \in DOMAIN c.chain
      BY <1>2, <1>4
    <3> QED BY <1>6, <3>1 DEF ChainSound
  <2>2. ASSUME NEW m \in DOMAIN f.chain, NEW n \in DOMAIN f.chain, m < n
        PROVE  f.chain[m].seq < f.chain[n].seq
    <3>1. /\ f.chain[n] = c.chain[n + 1] /\ n + 1 \in DOMAIN c.chain
          /\ f.chain[m] = c.chain[m + 1] /\ m + 1 \in DOMAIN c.chain
          /\ m + 1 < n + 1
      BY <1>2, <1>4, <2>2
    <3> QED BY <1>6, <3>1 DEF ChainSound
  <2> QED BY <1>7, <2>1, <2>2 DEF ChainSound
<1>9. f.turnCount + Waiting(f) <= c.turnCount + Waiting(c)
  <2>1. Waiting(f) = Len(c.chain) - 1
    <3>1. f.chain # <<>> => 1 \in DOMAIN f.chain
      <4>1. f.chain \in Seq(Turn)
        BY <1>2, <1>4
      <4> QED BY <4>1, Tailed
    <3>2. ~(f.chain # <<>> /\ IsAsking(f.chain[1]))
      BY <1>7, <3>1
    <3>3. Waiting(f) = Len(f.chain) - 0
      BY <3>2 DEF Waiting
    <3> QED BY <1>2, <1>4, <3>3
  <2>2. Waiting(c) = IF IsAsking(Head(c.chain)) THEN Len(c.chain) - 1 ELSE Len(c.chain)
    BY <1>2 DEF Waiting
  <2>3. c.turnCount \in Nat
    BY <1>1, CountsTyped
  <2> QED BY <1>2, <1>4, <2>1, <2>2, <2>3
<1>10. Settled(f, g, w, l, a, p)
  BY <1>4, <1>5, <1>8, <1>9, BesideSound
<1> QED BY <1>4, <1>10

\* A turn that is asked for keeps its place.
LEMMA AskingKeeps ==
  ASSUME NEW c, NEW g, NEW w, NEW l, NEW a, NEW p, Settled(c, g, w, l, a, p), c.created = NoTask,
         IsOpen(c), c.chain # <<>>, ~IsAsking(Head(c.chain)), NEW f, f = Asking(c)
  PROVE  f \in Call /\ Settled(f, g, w, l, a, p) /\ Beside(f, c)
<1> DEFINE chain == [c.chain EXCEPT ![1].asking = TRUE]
<1>1. c \in Call /\ Sound(c, l)
  BY DEF Settled, Sound
<1>2. /\ c.chain \in Seq(Turn) /\ Len(c.chain) \in Nat /\ Len(c.chain) >= 1
      /\ DOMAIN c.chain = 1 .. Len(c.chain) /\ Head(c.chain) = c.chain[1] /\ c.chain[1] \in Turn
      /\ \A n \in DOMAIN c.chain : c.chain[n] \in Turn
  BY <1>1, CallTyped, Tailed
<1>3. [c.chain[1] EXCEPT !.asking = TRUE] \in Turn
      /\ [c.chain[1] EXCEPT !.asking = TRUE].seq = c.chain[1].seq
      /\ IsAsking([c.chain[1] EXCEPT !.asking = TRUE])
  BY <1>2 DEF Turn, IsAsking
<1>4. /\ DOMAIN chain = 1 .. Len(c.chain) /\ chain[1] = [c.chain[1] EXCEPT !.asking = TRUE]
      /\ \A n \in DOMAIN c.chain : n # 1 => chain[n] = c.chain[n]
  BY <1>2
<1> HIDE DEF chain
<1>5. /\ \A n \in 1 .. Len(c.chain) : chain[n] \in Turn
      /\ \A n \in DOMAIN chain : chain[n].seq = c.chain[n].seq
      /\ \A n \in DOMAIN chain : n > 1 => chain[n] = c.chain[n]
  <2>1. chain[1] \in Turn /\ chain[1].seq = c.chain[1].seq
    BY <1>3, <1>4
  <2>2. \A n \in DOMAIN c.chain : n # 1 => chain[n] \in Turn /\ chain[n] = c.chain[n]
    BY <1>2, <1>4
  <2>3. \A n \in DOMAIN chain : n > 1 => n # 1
    BY <1>2, <1>4
  <2> QED BY <1>2, <1>4, <2>1, <2>2, <2>3
<1>6. chain \in Seq(Turn) /\ Len(chain) = Len(c.chain) /\ chain # <<>>
  <2>1. chain = [n \in 1 .. Len(c.chain) |-> chain[n]]
    BY <1>4 DEF chain
  <2>2. chain \in Seq(Turn)
    <3>1. Len(c.chain) \in Nat /\ \A n \in 1 .. Len(c.chain) : chain[n] \in Turn
      BY <1>2, <1>5
    <3>2. [n \in 1 .. Len(c.chain) |-> chain[n]] \in Seq(Turn)
      BY <3>1, IsASeq
    <3> QED BY <2>1, <3>2
  <2>3. Len(chain) = Len(c.chain)
    BY <1>2, <1>4, <2>2, LenProperties
  <2> QED BY <1>2, <2>2, <2>3
<1>7. c.turnCount + 1 \in 0 .. MaxTurns + MaxItems + MaxRepeats
  BY <1>1, RoomForTurn
<1>8. f = [c EXCEPT !.turnCount = c.turnCount + 1, !.chain = chain]
  BY DEF Asking, chain
<1>9. f \in Call /\ Beside(f, c) /\ f.chain = chain /\ f.turnCount = c.turnCount + 1
  <2>1. c \in Call /\ chain \in Seq(Turn)
    BY <1>1, <1>6
  <2>2. f \in Call
    BY ZenonT(60), <1>7, <1>8, <2>1 DEF Call
  <2>3. Beside(f, c) /\ f.chain = chain /\ f.turnCount = c.turnCount + 1
    BY <1>8, <2>1 DEF Call, Beside
  <2> QED BY <2>2, <2>3
<1>10. ChainWithin(f, c)
  BY <1>2, <1>4, <1>5, <1>9 DEF ChainWithin
<1>11. ChainSound(f)
  <2>1. ChainSound(c) /\ f.seq = c.seq
    BY <1>1, <1>9 DEF Sound, Beside
  <2> QED BY <1>2, <1>4, <1>5, <1>9, <2>1 DEF ChainSound
<1>12. f.turnCount + Waiting(f) <= c.turnCount + Waiting(c)
  <2>1. Waiting(f) = Len(c.chain) - 1
    BY <1>2, <1>3, <1>4, <1>6, <1>9 DEF Waiting
  <2>2. Waiting(c) = Len(c.chain)
    BY <1>2 DEF Waiting
  <2>3. c.turnCount \in Nat
    BY <1>1, CountsTyped
  <2> QED BY <1>2, <1>9, <2>1, <2>2, <2>3
<1>13. Settled(f, g, w, l, a, p)
  BY <1>9, <1>10, <1>11, <1>12, BesideSound
<1> QED BY <1>9, <1>13

\* The last input is asked about once what waited before it is handled.
LEMMA DirectJoins ==
  ASSUME NEW c, NEW l, Sound(c, l), c.chain # <<>>, NEW turn, turn = Head(c.chain),
         IsCurrent(c, turn), NEW f, f \in Call, Sound(f, l), Beside(f, c), f.chain = Tail(c.chain)
  PROVE  Joins(Direct(turn), f, l)
<1> DEFINE t == Direct(turn)
<1>1. c \in Call /\ QueueSound(c, l) /\ LookupsSound(c, l) /\ ActiveSound(c, l) /\ ChainSound(c)
  BY DEF Sound
<1>2. /\ Tail(c.chain) \in Seq(Turn) /\ Len(c.chain) \in Nat
      /\ DOMAIN Tail(c.chain) = 1 .. Len(c.chain) - 1
      /\ DOMAIN c.chain = 1 .. Len(c.chain) /\ turn = c.chain[1] /\ turn \in Turn
      /\ \A n \in 1 .. Len(c.chain) - 1 :
           Tail(c.chain)[n] = c.chain[n + 1] /\ n + 1 \in DOMAIN c.chain
      /\ 1 \in DOMAIN c.chain
  BY <1>1, CallTyped, Tailed
<1>3. /\ turn.seq = c.seq /\ turn.gen = c.gen /\ turn.item \in Items /\ turn.seq \in Sequences
      /\ turn.gen \in Generations /\ turn.seq \in Int
  BY <1>2, ConversationAssumption DEF IsCurrent, Turn, Sequences
<1>4. /\ t \in Task /\ t.kind = "direct" /\ t.stage = "answer" /\ t.effect = "none"
      /\ t.seq = c.seq /\ t.gen = c.gen /\ t.item = turn.item
  <2>1. turn.item \in 0 .. MaxItems
    BY <1>3, ConversationAssumption DEF Items
  <2> QED BY <1>3, <2>1, TaskFacts DEF Direct, NoTask, Task
<1> HIDE DEF t
<1>5. IsDirect(t) /\ ~IsRecovery(t) /\ ~IsApproved(t) /\ Asked(t)
  BY <1>4 DEF IsDirect, IsRecovery, IsApproved, Asked
<1>6. Formed(t) /\ t.kind # "none"
  BY <1>3, <1>4, <1>5 DEF Formed
<1>7. /\ f.seq = c.seq /\ f.gen = c.gen /\ f.queue = c.queue /\ f.active = c.active
  BY DEF Beside
\* Nothing waits behind it.
<1>8. ASSUME NEW n \in DOMAIN f.chain
      PROVE  FALSE
  <2>1. n + 1 \in DOMAIN c.chain /\ 1 < n + 1
    BY <1>2, <1>8
  <2>2. c.chain[1].seq < c.chain[n + 1].seq /\ c.chain[n + 1].seq <= c.seq
    BY <1>1, <1>2, <2>1 DEF ChainSound
  <2>3. c.chain[n + 1].seq \in Int
    BY <1>1, <2>1, CallTyped
  <2> QED BY <1>2, <1>3, <2>2, <2>3
<1>9. Placed(t, f)
  <2>1. t.seq <= f.seq
    BY <1>3, <1>4, <1>7
  <2> QED BY <1>8, <2>1 DEF Placed
<1>10. ASSUME NEW u \in Task, Placed(u, c)
       PROVE  Before(u, t)
  <2>1. CASE Asked(u)
    <3>1. u.seq <= c.seq /\ u.seq # c.seq
      BY <1>2, <1>3, <1>10, <2>1 DEF Placed
    <3>2. u.seq \in Int
      BY ConversationAssumption DEF Task, Sequences
    <3> QED BY <1>3, <1>4, <3>1, <3>2 DEF Before
  <2>2. CASE ~Asked(u)
    BY <2>2 DEF Before
  <2> QED BY <2>1, <2>2
<1>11. Before(f.active, t)
  <2>1. c.active \in Task /\ Placed(c.active, c)
    BY <1>1, CallTyped DEF ActiveSound
  <2> QED BY <1>7, <1>10, <2>1
<1>12. \A u \in l : Before(u, t)
  <2>1. \A u \in l : u \in Task /\ Placed(u, c)
    BY <1>1 DEF LookupsSound
  <2> QED BY <1>10, <2>1
<1>13. \A n \in DOMAIN f.queue : Before(f.queue[n], t)
  <2>1. \A n \in DOMAIN c.queue : c.queue[n] \in Task /\ Placed(c.queue[n], c)
    BY <1>1, CallTyped DEF QueueSound, Fits
  <2> QED BY <1>7, <1>10, <2>1
<1>14. Fits(t, f, l)
  BY <1>4, <1>6, <1>7, <1>9, <1>11, <1>12 DEF Fits
<1>15. Joins(t, f, l)
  BY <1>4, <1>5, <1>13, <1>14 DEF Joins
<1> QED BY <1>15 DEF t

\* A step of the controller that takes nothing from the wire.
LEMMA HandlerEnds ==
  ASSUME ConversationIInv, NEW f, NEW k,
         Outcome(f, generating, wire, k, audio, played), Handled(f),
         lookups' = k, UNCHANGED <<audio, wire, items, repeats, played>>, FlushKeeps(f, call)
  PROVE  ConversationIInv'
<1>1. WireSound(wire, items, f.gen, f.seq, repeats)
  BY DEF ConversationIInv, WireOf, FlushKeeps
<1>2. generating \in Task /\ Uncollided
  BY DEF ConversationIInv, ProviderTyped
<1>3. /\ call' = f /\ Settled(f, generating', wire, k, audio, played)
      /\ generating' \in Task /\ Uncollided'
  BY <1>2, HandledKeeps
<1>4. CallOf'
  BY <1>3 DEF CallOf
<1>5. WireOf'
  BY <1>1, <1>3 DEF WireOf
<1>6. ProviderTyped'
  BY <1>3 DEF ProviderTyped, ConversationIInv
<1> QED BY <1>3, <1>4, <1>5, <1>6 DEF ConversationIInv

LEMMA SettledReady ==
  ASSUME NEW c, NEW g, NEW w, NEW l, NEW a, NEW p, Settled(c, g, w, l, a, p),
         c.created = NoTask, IsOpen(c)
  PROVE  Ready(c, g, w, l, a, p)
BY DEF Settled, Ready, IsOpen

LEMMA BesideOpen ==
  ASSUME NEW c, NEW f, Beside(f, c), IsOpen(c)
  PROVE  IsOpen(f)
BY DEF Beside, IsOpen

\* A waiting turn is of an open call.
LEMMA WaitingIsOpen ==
  ASSUME ConversationIInv, call.chain # <<>>
  PROVE  /\ FreshCall \in Call /\ FreshCall.created = NoTask /\ FreshCall.seq = call.seq /\ FreshCall.gen = call.gen
         /\ FreshCall.chain = call.chain /\ FreshCall.mode = call.mode /\ IsOpen(FreshCall)
         /\ Settled(FreshCall, generating, wire, lookups, audio, played) /\ Sound(FreshCall, lookups)
         /\ Head(call.chain) \in Turn /\ Head(call.chain).item \in 0 .. MaxItems
<1>1. CallOf /\ Sound(call, lookups)
  BY DEF ConversationIInv, CallOf, Settled
<1>2. call.open
  BY <1>1 DEF Sound, ClosedSound
<1>3. Sound(FreshCall, lookups)
  BY <1>1, FreshIsReady DEF Settled
<1>4. Head(call.chain) \in Turn
  <2>1. call.chain \in Seq(Turn)
    BY <1>1, CallTyped DEF Sound
  <2> QED BY <2>1, Tailed
<1>5. Head(call.chain).item \in 0 .. MaxItems
  BY <1>4, ConversationAssumption DEF Turn, Items
<1> QED BY <1>1, <1>2, <1>3, <1>4, <1>5, FreshIsReady

LEMMA TurnStartsStep ==
  ASSUME ConversationIInv, TurnStarts
  PROVE  ConversationIInv'
<1> DEFINE turn == Head(call.chain)
           d == Shrunk(FreshCall, FreshCall.turnCount)
           e == Shrunk(FreshCall, FreshCall.turnCount + 1)
           h == Asking(FreshCall)
<1>1. /\ call.chain # <<>> /\ ~IsAsking(turn) /\ lookups' = lookups
      /\ UNCHANGED <<audio, wire, items, repeats, played>>
  BY DEF TurnStarts, IsAsking
<1>2. /\ FreshCall \in Call /\ FreshCall.created = NoTask /\ FreshCall.seq = call.seq /\ FreshCall.gen = call.gen
      /\ FreshCall.chain = call.chain
      /\ Settled(FreshCall, generating, wire, lookups, audio, played) /\ Sound(FreshCall, lookups)
      /\ turn \in Turn /\ turn.item \in 0 .. MaxItems
  BY <1>1, WaitingIsOpen
<1>3. IsOpen(FreshCall)
  BY <1>1, WaitingIsOpen
<1>4. [FreshCall EXCEPT !.chain = Tail(@)] = d
  BY <1>2 DEF Call, Shrunk
<1>5. [[FreshCall EXCEPT !.chain = Tail(@)] EXCEPT !.turnCount = @ + 1] = e
  BY <1>2 DEF Call, Shrunk
<1>6. \/ Handled(d)
      \/ Handled(e)
      \/ \E effect \in Effects : Handled(EnqueueTask(e, Approved(effect, turn.item)))
      \/ IsCurrent(call, turn) /\ Handled(EnqueueTask(e, Direct(turn)))
      \/ Handled(h)
  <2>1. "end_call" \in Effects
    BY DEF Effects
  <2> HIDE DEF d, e
  <2> QED BY <1>4, <1>5, <2>1 DEF TurnStarts, Asking
<1>7. /\ d \in Call /\ Settled(d, generating, wire, lookups, audio, played) /\ Beside(d, FreshCall)
      /\ d.chain = Tail(FreshCall.chain)
  BY <1>1, <1>2, <1>3, ChainShrinks
<1>8. /\ e \in Call /\ Settled(e, generating, wire, lookups, audio, played) /\ Beside(e, FreshCall)
      /\ e.chain = Tail(FreshCall.chain)
  BY <1>1, <1>2, <1>3, ChainShrinks
<1>9. /\ h \in Call /\ Settled(h, generating, wire, lookups, audio, played) /\ Beside(h, FreshCall)
  BY <1>1, <1>2, <1>3, AskingKeeps
<1> HIDE DEF d, e, h
<1>10. \A f : Beside(f, FreshCall) => f.created = NoTask /\ FlushKeeps(f, call)
  BY <1>2 DEF Beside, FlushKeeps
<1>11. Ready(e, generating, wire, lookups, audio, played)
  <2>1. IsOpen(e)
    BY <1>3, <1>8, BesideOpen
  <2> QED BY <1>8, <1>10, <2>1, SettledReady
<1>12. CASE Handled(d)
  <2>1. Outcome(d, generating, wire, lookups, audio, played)
    BY <1>7, <1>10, SettledIsOutcome
  <2> QED BY <1>1, <1>7, <1>10, <1>12, <2>1, HandlerEnds
<1>13. CASE Handled(e)
  <2>1. Outcome(e, generating, wire, lookups, audio, played)
    BY <1>8, <1>10, SettledIsOutcome
  <2> QED BY <1>1, <1>8, <1>10, <1>13, <2>1, HandlerEnds
<1>14. CASE Handled(h)
  <2>1. Outcome(h, generating, wire, lookups, audio, played)
    BY <1>9, <1>10, SettledIsOutcome
  <2> QED BY <1>1, <1>9, <1>10, <1>14, <2>1, HandlerEnds
<1>15. ASSUME NEW effect \in Effects, Handled(EnqueueTask(e, Approved(effect, turn.item)))
       PROVE  ConversationIInv'
  <2> DEFINE f == EnqueueTask(e, Approved(effect, turn.item))
  <2>1. Outcome(f, generating, wire, lookups, audio, played)
    BY <1>2, <1>11, AnnounceFrom
  <2>2. FlushKeeps(f, e)
    <3>1. Approved(effect, turn.item) \in Task
      BY <1>2, ApprovedTyped
    <3> QED BY <1>8, <3>1, EnqueueSame
  <2>3. FlushKeeps(f, call)
    BY <1>8, <1>10, <2>2 DEF FlushKeeps
  <2> HIDE DEF f
  <2>4. Handled(f)
    BY <1>15 DEF f
  <2> QED BY <1>1, <2>1, <2>3, <2>4, HandlerEnds
<1>16. CASE IsCurrent(call, turn) /\ Handled(EnqueueTask(e, Direct(turn)))
  <2> DEFINE f == EnqueueTask(e, Direct(turn))
             j == Joined(e, Direct(turn))
  <2>1. Joins(Direct(turn), e, lookups)
    <3>1. IsCurrent(FreshCall, turn)
      BY <1>2, <1>16 DEF IsCurrent
    <3>2. Sound(e, lookups)
      BY <1>8 DEF Settled
    <3> QED BY <1>1, <1>2, <1>8, <3>1, <3>2, DirectJoins
  <2>2. Outcome(Flush(j), generating, wire, lookups, audio, played)
    BY <1>11, <2>1, EnqueueFrom
  <2>3. f = Flush(j)
    BY DEF EnqueueTask, Joined
  <2>4. FlushKeeps(f, e)
    <3>1. Direct(turn) \in Task
      BY <2>1 DEF Joins
    <3> QED BY <1>8, <3>1, EnqueueSame
  <2>5. FlushKeeps(f, call)
    BY <1>8, <1>10, <2>4 DEF FlushKeeps
  <2> HIDE DEF f, j
  <2>6. Handled(f) /\ Outcome(f, generating, wire, lookups, audio, played)
    BY <1>16, <2>2, <2>3 DEF f
  <2> QED BY <1>1, <2>5, <2>6, HandlerEnds
<1> QED BY <1>6, <1>12, <1>13, <1>14, <1>15, <1>16

LEMMA TurnAnsweredStep ==
  ASSUME ConversationIInv, TurnAnswered
  PROVE  ConversationIInv'
<1> DEFINE turn == Head(call.chain)
           d == Shrunk(FreshCall, FreshCall.turnCount)
           f == EnqueueTask(d, Approved("none", turn.item))
<1>1. /\ call.chain # <<>> /\ lookups' = lookups
      /\ UNCHANGED <<audio, wire, items, repeats, played>>
  BY DEF TurnAnswered
<1>2. /\ FreshCall \in Call /\ FreshCall.created = NoTask /\ FreshCall.seq = call.seq /\ FreshCall.gen = call.gen
      /\ FreshCall.chain = call.chain
      /\ Settled(FreshCall, generating, wire, lookups, audio, played) /\ Sound(FreshCall, lookups)
      /\ turn \in Turn /\ turn.item \in 0 .. MaxItems
  BY <1>1, WaitingIsOpen
<1>3. IsOpen(FreshCall)
  BY <1>1, WaitingIsOpen
<1>4. [FreshCall EXCEPT !.chain = Tail(@)] = d
  BY <1>2 DEF Call, Shrunk
<1>5. Handled(d) \/ Handled(f)
  <2> HIDE DEF d
  <2> QED BY <1>4 DEF TurnAnswered
<1>6. /\ d \in Call /\ Settled(d, generating, wire, lookups, audio, played) /\ Beside(d, FreshCall)
  BY <1>1, <1>2, <1>3, ChainShrinks
<1> HIDE DEF d
<1>7. d.created = NoTask /\ FlushKeeps(d, call)
  BY <1>2, <1>6 DEF Beside, FlushKeeps
<1>8. CASE Handled(d)
  <2>1. Outcome(d, generating, wire, lookups, audio, played)
    BY <1>6, <1>7, SettledIsOutcome
  <2> QED BY <1>1, <1>7, <1>8, <2>1, HandlerEnds
<1>9. CASE Handled(f)
  <2>1. Ready(d, generating, wire, lookups, audio, played)
    <3>1. IsOpen(d)
      BY <1>3, <1>6, BesideOpen
    <3> QED BY <1>6, <1>7, <3>1, SettledReady
  <2>2. Outcome(f, generating, wire, lookups, audio, played)
    <3>1. "none" \in Effects
      BY DEF Effects
    <3> QED BY <1>2, <2>1, <3>1, AnnounceFrom
  <2>3. FlushKeeps(f, d)
    <3>1. Approved("none", turn.item) \in Task
      BY <1>2, ApprovedTyped DEF Effects
    <3> QED BY <1>6, <3>1, EnqueueSame
  <2>4. FlushKeeps(f, call)
    BY <1>7, <2>3 DEF FlushKeeps
  <2> HIDE DEF f
  <2> QED BY <1>1, <1>9, <2>2, <2>4, HandlerEnds
<1> QED BY <1>5, <1>8, <1>9

-----------------------------------------------------------------------------
(* What is awaited returns.                                                *)

\* One lookup less is awaited.
LEMMA LookupsShrink ==
  ASSUME NEW c, NEW l, Sound(c, l), NEW k, k \subseteq l
  PROVE  Sound(c, k)
<1>1. QueueSound(c, k)
  BY DEF Sound, QueueSound, Fits
<1>2. LookupsSound(c, k)
  BY DEF Sound, LookupsSound
<1>3. ActiveSound(c, k)
  BY DEF Sound, ActiveSound
<1>4. ClosedSound(c, k)
  BY DEF Sound, ClosedSound
<1> QED BY <1>1, <1>2, <1>3, <1>4 DEF Sound

\* The latch of the active turn's lookup.
LEMMA LookupOwns ==
  ASSUME NEW c, NEW g, NEW w, NEW l, Sound(c, l), LatchOf(c, g, w, l), NEW turn \in l,
         IsDirect(c.active), c.active.seq = turn.seq
  PROVE  /\ turn = c.active /\ c.inFlight /\ g = NoTask /\ NoneEnds(w)
         /\ c.pending = NoTask /\ c.applying = NoTask /\ turn # NoTask
<1>1. turn \in Task /\ Formed(turn) /\ turn.stage = "lookup_pending" /\ c \in Call
  BY DEF Sound, LookupsSound
<1>2. IsDirect(turn)
  BY <1>1 DEF Formed
<1>3. turn = c.active
  <2>1. turn = c.active \/ Before(turn, c.active)
    BY DEF Sound, ActiveSound
  <2>2. turn.seq \in Int
    BY <1>1, ConversationAssumption DEF Task, Sequences
  <2> QED BY <1>2, <2>1, <2>2 DEF Before, Asked
<1>4. turn # NoTask
  BY <1>1, TaskFacts
<1> QED BY <1>1, <1>3, <1>4 DEF LatchOf, LatchFree, LatchOfResponse, LatchOfEffect

LEMMA LookupReturnsStep ==
  ASSUME ConversationIInv, NEW turn, NEW outcome, LookupReturns(turn, outcome)
  PROVE  ConversationIInv'
<1> DEFINE k == lookups \ {turn}
           owns == IsDirect(call.active) /\ call.active.seq = turn.seq
           spoken == [turn EXCEPT !.stage = "lookup_answer"]
           e == Unlatched(FreshCall)
           staged == [FreshCall EXCEPT !.active = spoken, !.created = spoken]
           f == EnqueueTask(e, Approved("none", turn.item))
<1>1. /\ turn \in lookups /\ lookups' = k
      /\ UNCHANGED <<audio, wire, items, repeats, played>>
  BY DEF LookupReturns
<1>2. \/ ~owns /\ Handled(FreshCall)
      \/ owns /\ (Handled(Flush(e)) \/ Handled(f) \/ Handled(staged))
  <2> DEFINE h == CASE ~owns -> FreshCall
                    [] owns /\ outcome # "failed" /\ ~IsCurrent(call, turn) -> Flush(e)
                    [] owns /\ outcome = "answered" /\ IsCurrent(call, turn) -> f
                    [] OTHER -> staged
  <2>1. Handled(h)
    BY DEF LookupReturns, LookupSuperseded, Release, IsDirect
  <2>2. CASE ~owns
    <3>1. h = FreshCall
      BY <2>2
    <3> HIDE DEF h, owns
    <3> QED BY <2>1, <2>2, <3>1
  <2>3. CASE owns /\ outcome # "failed" /\ ~IsCurrent(call, turn)
    <3>1. h = Flush(e)
      BY <2>3
    <3> HIDE DEF h, owns, e
    <3> QED BY <2>1, <2>3, <3>1
  <2>4. CASE owns /\ outcome = "answered" /\ IsCurrent(call, turn)
    <3>1. h = f
      BY <2>4
    <3> HIDE DEF h, owns, f
    <3> QED BY <2>1, <2>4, <3>1
  <2>5. CASE /\ owns /\ ~(outcome # "failed" /\ ~IsCurrent(call, turn))
             /\ ~(outcome = "answered" /\ IsCurrent(call, turn))
    <3>1. h = staged
      BY <2>5
    <3> HIDE DEF h, owns, staged
    <3> QED BY <2>1, <2>5, <3>1
  <2> HIDE DEF h
  <2> QED BY <2>2, <2>3, <2>4, <2>5
<1>3. /\ FreshCall \in Call /\ FreshCall.created = NoTask /\ FreshCall.seq = call.seq /\ FreshCall.gen = call.gen
      /\ FreshCall.active = call.active
      /\ Settled(FreshCall, generating, wire, lookups, audio, played) /\ Sound(FreshCall, lookups)
      /\ LatchOf(FreshCall, generating, wire, lookups)
  BY FreshIsReady DEF ConversationIInv, Settled
<1>4. Sound(FreshCall, k) /\ k \subseteq lookups
  BY <1>3, LookupsShrink
<1>5. IsOpen(FreshCall)
  <2>1. FreshCall.open
    BY <1>1, <1>3 DEF Sound, ClosedSound
  <2> QED BY <2>1 DEF IsOpen
<1>6. turn \in Task /\ turn.item \in 0 .. MaxItems /\ turn.stage = "lookup_pending" /\ IsDirect(turn)
  <2>1. turn \in Task /\ turn.stage = "lookup_pending" /\ Formed(turn)
    BY <1>1, <1>3 DEF Sound, LookupsSound
  <2> QED BY <2>1 DEF Task, Formed
<1>7. CASE ~owns /\ Handled(FreshCall)
  <2>1. LatchOf(FreshCall, generating, wire, k)
    <3>1. turn # FreshCall.active
      BY <1>3, <1>6, <1>7
    <3> QED BY <1>3, <3>1 DEF LatchOf, LatchFree, LatchOfResponse, LatchOfEffect
  <2>2. Settled(FreshCall, generating, wire, k, audio, played)
    BY <1>3, <1>4, <2>1 DEF Settled
  <2>3. Outcome(FreshCall, generating, wire, k, audio, played)
    BY <1>3, <2>2, SettledIsOutcome
  <2>4. FlushKeeps(FreshCall, call)
    BY <1>3 DEF FlushKeeps
  <2>5. Handled(FreshCall)
    BY <1>7
  <2> HIDE DEF k, owns
  <2> QED BY <1>1, <2>3, <2>4, <2>5, HandlerEnds
<1>8. ASSUME owns
      PROVE  /\ turn = FreshCall.active /\ FreshCall.inFlight /\ generating = NoTask /\ NoneEnds(wire)
             /\ FreshCall.pending = NoTask /\ FreshCall.applying = NoTask /\ turn # NoTask
  BY <1>1, <1>3, <1>8, LookupOwns
<1>9. ASSUME owns
      PROVE  /\ Ready(e, generating, wire, k, audio, played) /\ e \in Call /\ FlushKeeps(e, call)
  <2>1. FreshCall.pending = NoTask /\ FreshCall.applying = NoTask /\ generating = NoTask /\ NoneEnds(wire)
    BY <1>8, <1>9
  <2>2. Ready(e, generating, wire, k, audio, played)
    BY <1>3, <1>4, <1>5, <2>1, IdleKeeps
  <2>3. e \in Call /\ FlushKeeps(e, FreshCall)
    BY <1>3, IdleTyped
  <2> HIDE DEF e
  <2> QED BY <1>3, <2>2, <2>3 DEF FlushKeeps
<1>10. CASE owns /\ Handled(Flush(e))
  <2>1. /\ Ready(e, generating, wire, k, audio, played) /\ e \in Call /\ FlushKeeps(e, call)
    BY <1>9, <1>10
  <2>5. Handled(Flush(e))
    BY <1>10
  <2> HIDE DEF e, k, owns
  <2>2. Outcome(Flush(e), generating, wire, k, audio, played)
    BY <2>1, FlushFrom
  <2>3. FlushKeeps(Flush(e), e)
    BY <2>1, FlushSame
  <2>4. FlushKeeps(Flush(e), call)
    BY <2>1, <2>3 DEF FlushKeeps
  <2> QED BY <1>1, <2>2, <2>4, <2>5, HandlerEnds
<1>11. CASE owns /\ Handled(f)
  <2>1. /\ Ready(e, generating, wire, k, audio, played) /\ e \in Call /\ FlushKeeps(e, call)
    BY <1>9, <1>11
  <2>5. Handled(f)
    BY <1>11
  <2> HIDE DEF e, k, owns
  <2>2. "none" \in Effects
    BY DEF Effects
  <2>3. Outcome(f, generating, wire, k, audio, played)
    BY <1>6, <2>1, <2>2, AnnounceFrom
  <2>4. FlushKeeps(f, e)
    <3>1. Approved("none", turn.item) \in Task
      BY <1>6, <2>2, ApprovedTyped
    <3> QED BY <2>1, <3>1, EnqueueSame
  <2>6. FlushKeeps(f, call)
    BY <2>1, <2>4 DEF FlushKeeps
  <2> HIDE DEF f
  <2> QED BY <1>1, <2>3, <2>5, <2>6, HandlerEnds
<1>12. CASE owns /\ Handled(staged)
  <2>1. /\ turn = FreshCall.active /\ FreshCall.inFlight /\ generating = NoTask /\ NoneEnds(wire)
        /\ FreshCall.pending = NoTask /\ FreshCall.applying = NoTask
    BY <1>8, <1>12
  <2>2. spoken \in Task /\ spoken.stage = "lookup_answer"
    BY <1>6 DEF Task
  <2>3. staged = StageAs(FreshCall, "lookup_answer", spoken)
    <3>1. [FreshCall.active EXCEPT !.stage = "lookup_answer"] = spoken
      BY <2>1
    <3> HIDE DEF spoken
    <3> QED BY <1>3, <3>1 DEF StageAs, Call
  <2>4. [FreshCall.active EXCEPT !.stage = "lookup_answer"] = spoken
    BY <2>1
  <2>5. Moves(FreshCall, lookups, k, "lookup_answer")
    BY <1>6, <2>1 DEF Moves
  <2>6. Handled(staged)
    BY <1>12
  <2> HIDE DEF spoken, staged, k, owns
  <2>7. Restaged(staged, FreshCall, k, "lookup_answer", spoken)
    <3>1. "lookup_answer" \in {"lookup_pending", "lookup_answer"}
      OBVIOUS
    <3>2. spoken = NoTask \/ spoken.stage = "lookup_answer"
      BY <2>2
    <3>3. spoken \in Task
      BY <2>2
    <3> QED BY <1>3, <1>5, <2>3, <2>5, <3>1, <3>2, <3>3, StageKeeps
  <2>8. /\ Sound(staged, k) /\ staged.active = spoken /\ staged.created = spoken
        /\ staged.inFlight = FreshCall.inFlight /\ staged.pending = FreshCall.pending
        /\ staged.open = FreshCall.open /\ staged.applying = FreshCall.applying
        /\ staged.active.stage = "lookup_answer"
        /\ staged.active.effect = "none" /\ staged.active # NoTask
    BY <2>4, <2>7 DEF Restaged
  <2>9. LatchOf(staged, staged.created, wire, k)
    BY <2>1, <2>8 DEF LatchOf, LatchOfResponse
  <2>10. Unhurried(staged) /\ AnnouncedOf(staged, audio, wire, played)
    BY <2>1, <2>8 DEF Unhurried, AnnouncedOf
  <2>11. staged.open /\ staged.created # NoTask
    BY <1>5, <2>8 DEF IsOpen
  <2>12. Outcome(staged, generating, wire, k, audio, played)
    BY <2>1, <2>8, <2>9, <2>10, <2>11 DEF Outcome
  <2>13. FlushKeeps(staged, call)
    BY <1>3 DEF FlushKeeps, staged, Call
  <2> QED BY <1>1, <2>6, <2>12, <2>13, HandlerEnds
<1> HIDE DEF owns
<1> QED BY <1>2, <1>7, <1>10, <1>11, <1>12

\* An effect has returned.
LEMMA EffectEnds ==
  ASSUME NEW c, NEW g, NEW w, NEW l, NEW a, NEW p, Settled(c, g, w, l, a, p), IsOpen(c),
         c.created = NoTask, c.applying # NoTask,
         NEW d, d = [c EXCEPT !.applying = NoTask, !.inFlight = FALSE]
  PROVE  d \in Call /\ Ready(d, g, w, l, a, p) /\ FlushKeeps(d, c)
<1>1. c \in Call /\ Sound(c, l) /\ NoTask \in Task
  BY TaskFacts DEF Settled, Sound
<1>2. c.active = NoTask /\ c.pending = NoTask /\ g = NoTask /\ NoneEnds(w)
  BY DEF Settled, LatchOf, LatchFree, LatchOfResponse, LatchOfEffect
<1>3. /\ d \in Call /\ d.active = c.active /\ d.seq = c.seq /\ d.gen = c.gen
      /\ d.chain = c.chain /\ d.queue = c.queue /\ d.unintelligible = c.unintelligible
      /\ d.recoveries = c.recoveries /\ d.turnCount = c.turnCount /\ d.created = NoTask
      /\ d.open = c.open /\ ~d.inFlight /\ d.pending = c.pending /\ d.applying = NoTask
  BY <1>1 DEF Call
<1>4. QueueSound(d, l) /\ LookupsSound(d, l) /\ ActiveSound(d, l) /\ ChainSound(d)
  <2>1. QueueSound(d, l)
    BY <1>1, <1>3 DEF Sound, QueueSound, Fits, Placed
  <2>2. LookupsSound(d, l) /\ ChainSound(d)
    BY <1>1, <1>3 DEF Sound, LookupsSound, ChainSound, Placed
  <2>3. ActiveSound(d, l)
    BY <1>1, <1>3 DEF Sound, ActiveSound, Placed
  <2> QED BY <2>1, <2>2, <2>3
<1>5. CountsSound(d)
  <2>1. Waiting(d) = Waiting(c) /\ Recovering(d) = Recovering(c)
    BY <1>3 DEF Waiting, Recovering, RecoveryQueued
  <2> QED BY <1>1, <1>3, <2>1 DEF Sound, CountsSound
<1>6. EffectsSound(d) /\ AnswerSound(d) /\ ClosedSound(d, l)
  <2>1. EffectsSound(d) /\ AnswerSound(d)
    BY <1>2, <1>3, TaskFacts DEF EffectsSound, AnswerSound
  <2> QED BY <1>3, <2>1 DEF ClosedSound, IsOpen
<1>7. Sound(d, l)
  BY <1>3, <1>4, <1>5, <1>6 DEF Sound
<1>8. LatchOf(d, g, w, l)
  BY <1>2, <1>3 DEF LatchOf, LatchFree
<1>9. AnnouncedOf(d, a, w, p)
  BY <1>2, <1>3, TaskFacts DEF AnnouncedOf
<1>10. d.open
  BY <1>3 DEF IsOpen
<1> QED BY <1>3, <1>7, <1>8, <1>9, <1>10 DEF Ready, FlushKeeps

\* A new record: of a call that is attached, or of one that is over.
NewlySettled(c) ==
  /\ c \in Call /\ c.created = NoTask /\ c.seq = 0 /\ c.gen = 0
  /\ \A p : Settled(c, NoTask, <<>>, {}, {}, p)

LEMMA NewCallSettled ==
  ASSUME NEW mode \in {"phone_fast", "renderer"},
         NEW c, c = NewCall(mode) \/ c = [NewCall(mode) EXCEPT !.open = FALSE]
  PROVE  NewlySettled(c)
<1>1. /\ c.queue = <<>> /\ c.inFlight = FALSE /\ c.active = NoTask
      /\ c.created = NoTask /\ c.chain = <<>> /\ c.seq = 0 /\ c.gen = 0
      /\ c.unintelligible = 0 /\ c.recoveries = 0
      /\ c.pending = NoTask /\ c.applying = NoTask /\ c.turnCount = 0
  BY DEF NewCall
<1>2. c \in Call
  <2>1. /\ 0 \in Sequences /\ 0 \in Generations /\ 0 \in 0 .. MaxRecoveries
        /\ 0 \in 0 .. MaxTurns + MaxItems + MaxRepeats
    BY ConversationAssumption DEF Sequences, Generations
  <2>2. <<>> \in Seq(Task) /\ <<>> \in Seq(Turn) /\ [i \in Items |-> 0] \in [Items -> Generations]
    BY <2>1, EmptySeq
  <2>3. NewCall(mode) \in Call
    BY <2>1, <2>2, TaskFacts DEF Call, NewCall
  <2>4. [NewCall(mode) EXCEPT !.open = FALSE] \in Call
    BY <2>3 DEF Call
  <2> QED BY <2>3, <2>4
<1>3. DOMAIN <<>> = {} /\ Len(<<>>) = 0
  OBVIOUS
<1>4. QueueSound(c, {}) /\ LookupsSound(c, {}) /\ ChainSound(c) /\ ClosedSound(c, {})
  BY <1>1, <1>3 DEF QueueSound, LookupsSound, ChainSound, ClosedSound
<1>5. ActiveSound(c, {})
  BY <1>1, NobodyIsPlaced, TaskFacts DEF ActiveSound
<1>6. EffectsSound(c) /\ AnswerSound(c)
  BY <1>1, TaskFacts DEF EffectsSound, AnswerSound
<1>7. CountsSound(c)
  <2>1. ~RecoveryQueued(c) /\ ~IsRecovery(c.active)
    BY <1>1, <1>3, TaskFacts DEF RecoveryQueued, IsRecovery
  <2>2. Recovering(c) = 0
    BY <2>1 DEF Recovering
  <2>3. Waiting(c) = 0 - 0
    BY <1>1, <1>3 DEF Waiting
  <2> QED BY <1>1, <2>2, <2>3 DEF CountsSound
<1>8. Sound(c, {})
  BY <1>2, <1>4, <1>5, <1>6, <1>7 DEF Sound
<1>9. LatchOf(c, NoTask, <<>>, {})
  BY <1>1, <1>3 DEF LatchOf, LatchFree, NoneEnds
<1>10. \A p : AnnouncedOf(c, {}, <<>>, p)
  BY <1>1, <1>3, TaskFacts DEF AnnouncedOf
<1>11. Unhurried(c)
  BY <1>1, <1>3 DEF Unhurried
<1> QED BY <1>1, <1>2, <1>8, <1>9, <1>10, <1>11 DEF NewlySettled, Settled

\* No report is on the way yet, or any more.
LEMMA NothingOnTheWay ==
  ASSUME NEW it, NEW rep \in Nat
  PROVE  WireSound(<<>>, it, 0, 0, rep)
<1>1. DOMAIN <<>> = {} /\ <<>> \in Seq(WireEvent)
  BY EmptySeq
<1>2. InOrder(<<>>, it, 0)
  BY <1>1, ConversationAssumption DEF InOrder, Items
<1>3. Cardinality(Words(<<>>)) = 0
  <2>1. Words(<<>>) = {}
    BY <1>1 DEF Words
  <2> QED BY <2>1, FS_EmptySet
<1>4. Cardinality(Heard(it)) \in Nat
  BY HeardIsFinite
<1> QED BY <1>1, <1>2, <1>3, <1>4 DEF WireSound

LEMMA ClosedStep ==
  ASSUME ConversationIInv, SocketClosed
  PROVE  ConversationIInv'
<1> DEFINE c == [NewCall(call.mode) EXCEPT !.open = FALSE]
<1>1. /\ call' = c /\ lookups' = {} /\ generating' = NoTask /\ audio' = {} /\ wire' = <<>>
      /\ UNCHANGED <<items, repeats, played, collided>>
  BY DEF SocketClosed
<1>2. call.mode \in {"phone_fast", "renderer"}
  BY CallTyped DEF ConversationIInv, CallOf, Settled, Sound
<1>3. NewlySettled(c)
  BY <1>2, NewCallSettled
<1> HIDE DEF c
<1>4. CallOf'
  BY <1>1, <1>3 DEF CallOf, NewlySettled
<1>5. WireOf'
  <2>1. repeats \in Nat
    BY ConversationAssumption DEF ConversationIInv, ProviderTyped
  <2>2. WireSound(<<>>, items, 0, 0, repeats)
    BY <2>1, NothingOnTheWay
  <2> QED BY <1>1, <1>3, <2>2 DEF WireOf, NewlySettled
<1>6. ProviderTyped'
  <2>1. Len(<<>>) <= MaxWire /\ NoTask \in Task
    BY ConversationAssumption, TaskFacts
  <2> QED BY <1>1, <2>1 DEF ConversationIInv, ProviderTyped
<1>7. Uncollided'
  BY <1>1 DEF ConversationIInv, Uncollided
<1> QED BY <1>4, <1>5, <1>6, <1>7 DEF ConversationIInv

LEMMA EffectReturnsStep ==
  ASSUME ConversationIInv, NEW succeeded, EffectReturns(succeeded)
  PROVE  ConversationIInv'
<1> DEFINE d == [FreshCall EXCEPT !.applying = NoTask, !.inFlight = FALSE]
           f == EnqueueTask(d, Approved("none", 0))
<1>1. call.applying # NoTask
  BY DEF EffectReturns
<1>2. CASE SocketClosed
  BY <1>2, ClosedStep
<1>3. CASE ~SocketClosed
  <2>1. /\ Handled(Flush(d)) \/ Handled(f)
        /\ lookups' = lookups /\ UNCHANGED <<audio, wire, items, repeats, played>>
    BY <1>3 DEF EffectReturns
  <2>2. /\ FreshCall \in Call /\ FreshCall.created = NoTask /\ FreshCall.seq = call.seq /\ FreshCall.gen = call.gen
        /\ FreshCall.applying = call.applying
        /\ Settled(FreshCall, generating, wire, lookups, audio, played) /\ Sound(FreshCall, lookups)
    BY FreshIsReady DEF ConversationIInv, Settled
  <2>3. IsOpen(FreshCall)
    <3>1. FreshCall.open
      BY <1>1, <2>2 DEF Sound, ClosedSound
    <3> QED BY <3>1 DEF IsOpen
  <2>4. d = [FreshCall EXCEPT !.applying = NoTask, !.inFlight = FALSE]
    OBVIOUS
  <2> HIDE DEF d
  <2>5. /\ d \in Call /\ Ready(d, generating, wire, lookups, audio, played) /\ FlushKeeps(d, FreshCall)
    BY <1>1, <2>2, <2>3, <2>4, EffectEnds
  <2>6. FlushKeeps(d, call)
    BY <2>2, <2>5 DEF FlushKeeps
  <2>7. CASE Handled(Flush(d))
    <3>1. Outcome(Flush(d), generating, wire, lookups, audio, played)
      BY <2>5, FlushFrom
    <3>2. FlushKeeps(Flush(d), d)
      BY <2>5, FlushSame
    <3>3. FlushKeeps(Flush(d), call)
      BY <2>6, <3>2 DEF FlushKeeps
    <3> QED BY <2>1, <2>7, <3>1, <3>3, HandlerEnds
  <2>8. CASE Handled(f)
    <3>1. "none" \in Effects /\ 0 \in 0 .. MaxItems
      BY ConversationAssumption DEF Effects
    <3>2. Outcome(f, generating, wire, lookups, audio, played)
      BY <2>5, <3>1, AnnounceFrom
    <3>3. FlushKeeps(f, d)
      <4>1. Approved("none", 0) \in Task
        BY <3>1, ApprovedTyped
      <4> QED BY <2>5, <4>1, EnqueueSame
    <3>4. FlushKeeps(f, call)
      BY <2>6, <3>3 DEF FlushKeeps
    <3> HIDE DEF f
    <3> QED BY <2>1, <2>8, <3>2, <3>4, HandlerEnds
  <2> QED BY <2>1, <2>7, <2>8
<1> QED BY <1>2, <1>3

LEMMA InitStep ==
  ASSUME CallInit
  PROVE  ConversationIInv
<1>1. PICK mode \in {"phone_fast", "renderer"}, welcome \in BOOLEAN :
        call = IF welcome THEN EnqueueTask(NewCall(mode), Approved("none", 0)) ELSE NewCall(mode)
  BY DEF CallInit
<1>2. /\ lookups = {} /\ generating = call.created /\ audio = {} /\ wire = <<>>
      /\ items = [i \in Items |-> "quiet"]
      /\ repeats = 0 /\ played = {} /\ collided = FALSE
  BY DEF CallInit
<1> DEFINE c == NewCall(mode)
           f == EnqueueTask(c, Approved("none", 0))
<1>3. NewlySettled(c) /\ IsOpen(c)
  <2>2. c.open
    BY DEF NewCall
  <2>3. NewlySettled(c)
    BY NewCallSettled
  <2> QED BY <2>2, <2>3 DEF IsOpen
<1> HIDE DEF c
<1>4. c \in Call /\ c.created = NoTask /\ Settled(c, NoTask, <<>>, {}, {}, {}) /\ c.seq = 0 /\ c.gen = 0
  BY <1>3 DEF NewlySettled
<1>6. "none" \in Effects /\ 0 \in 0 .. MaxItems /\ Approved("none", 0) \in Task
  <2>1. "none" \in Effects /\ 0 \in 0 .. MaxItems
    BY ConversationAssumption DEF Effects
  <2> QED BY <2>1, ApprovedTyped
<1>7. Outcome(f, NoTask, <<>>, {}, {}, {}) /\ FlushKeeps(f, c)
  <2>1. Ready(c, NoTask, <<>>, {}, {}, {})
    BY <1>3, <1>4, SettledReady
  <2> QED BY <1>4, <1>6, <2>1, AnnounceFrom, EnqueueSame
<1>8. f.open
  <2>1. c.open
    BY <1>3 DEF IsOpen
  <2> QED BY <1>4, <2>1 DEF EnqueueTask, Flush, Call
<1> HIDE DEF f
<1>9. CallOf /\ call.seq = 0 /\ call.gen = 0 /\ call.created \in Task
  <2>1. CASE call = c
    BY <1>2, <1>4, <2>1, TaskFacts DEF CallOf
  <2>2. CASE call = f
    <3>1. f.created \in Task
      BY <1>7 DEF Outcome, Sound, Call
    <3>2. LatchOf(f, f.created, <<>>, {})
      BY <1>7, <1>8 DEF Outcome
    <3> QED BY <1>2, <1>4, <1>7, <2>2, <3>1, <3>2 DEF CallOf, Settled, Outcome, FlushKeeps
  <2> QED BY <1>1, <2>1, <2>2 DEF c, f
<1>10. WireOf
  <2>1. 0 \in Nat
    OBVIOUS
  <2>2. WireSound(<<>>, items, 0, 0, 0)
    BY <2>1, NothingOnTheWay
  <2> QED BY <1>2, <1>9, <2>2 DEF WireOf
<1>11. ProviderTyped
  <2>1. Len(<<>>) <= MaxWire /\ 0 \in 0 .. MaxRepeats
    BY ConversationAssumption
  <2> QED BY <1>2, <1>9, <2>1 DEF ProviderTyped
<1>12. Uncollided
  BY <1>2 DEF Uncollided
<1> QED BY <1>9, <1>10, <1>11, <1>12 DEF ConversationIInv

-----------------------------------------------------------------------------
(* The provider reports one event more.                                    *)

LEMMA WireGrows ==
  ASSUME NEW w \in Seq(WireEvent), NEW e \in WireEvent, NEW v, v = Append(w, e)
  PROVE  /\ v \in Seq(WireEvent) /\ Len(w) \in Nat /\ Len(v) = Len(w) + 1
         /\ DOMAIN w = 1 .. Len(w) /\ DOMAIN v = 1 .. Len(w) + 1
         /\ \A n \in DOMAIN w : v[n] = w[n] /\ n \in DOMAIN v /\ n < Len(w) + 1
         /\ v[Len(w) + 1] = e /\ Len(w) + 1 \in DOMAIN v /\ Len(w) + 1 \notin DOMAIN w
         /\ \A n \in DOMAIN v : n \in DOMAIN w \/ n = Len(w) + 1
BY Appended

LEMMA VoicedGrows ==
  ASSUME NEW w \in Seq(WireEvent), NEW e \in WireEvent, NEW v, v = Append(w, e), ~Stopped(e),
         NEW t, NEW a, NEW p, NEW n \in DOMAIN w \cup {0}, Voiced(t, n, a, w, p),
         NEW b, a \subseteq b \/ Speech(e)
  PROVE  Voiced(t, n, b, v, p)
<1>1. /\ Len(w) \in Nat /\ DOMAIN w = 1 .. Len(w) /\ DOMAIN v = 1 .. Len(w) + 1
      /\ \A k \in DOMAIN w : v[k] = w[k] /\ k \in DOMAIN v /\ k < Len(w) + 1
      /\ v[Len(w) + 1] = e /\ Len(w) + 1 \in DOMAIN v
      /\ \A k \in DOMAIN v : k \in DOMAIN w \/ k = Len(w) + 1
  BY WireGrows
<1>2. n < Len(w) + 1
  BY <1>1
<1>3. t \in b \/ \E m \in DOMAIN v : m > n /\ (Speech(v[m]) \/ Stopped(v[m]))
  <2>1. CASE Speech(e)
    BY <1>1, <1>2, <2>1
  <2>2. CASE a \subseteq b
    BY <1>1, <2>2 DEF Voiced
  <2> QED BY <2>1, <2>2
<1>4. ASSUME NEW k \in DOMAIN v, k > n, Stopped(v[k])
      PROVE  t \in p \/ \E m \in DOMAIN v : n < m /\ m < k /\ Speech(v[m])
  <2>1. k \in DOMAIN w /\ Stopped(w[k])
    BY <1>1, <1>4
  <2>2. t \in p \/ \E m \in DOMAIN w : n < m /\ m < k /\ Speech(w[m])
    BY <1>4, <2>1 DEF Voiced
  <2> QED BY <1>1, <2>2
<1> QED BY <1>3, <1>4 DEF Voiced

\* The audio is over.
LEMMA VoicedDrains ==
  ASSUME NEW w \in Seq(WireEvent), NEW e \in WireEvent, NEW v, v = Append(w, e), Stopped(e),
         NEW t, t.effect # "none", NEW a, NEW p, NEW n \in DOMAIN w \cup {0}, Voiced(t, n, a, w, p)
  PROVE  Voiced(t, n, {}, v, p \cup {u \in a : u.effect # "none"})
<1> DEFINE q == p \cup {u \in a : u.effect # "none"}
<1>1. /\ Len(w) \in Nat /\ DOMAIN w = 1 .. Len(w) /\ DOMAIN v = 1 .. Len(w) + 1
      /\ \A k \in DOMAIN w : v[k] = w[k] /\ k \in DOMAIN v /\ k < Len(w) + 1
      /\ v[Len(w) + 1] = e /\ Len(w) + 1 \in DOMAIN v
      /\ \A k \in DOMAIN v : k \in DOMAIN w \/ k = Len(w) + 1
  BY WireGrows
<1>2. n < Len(w) + 1 /\ n \in Int
  BY <1>1
<1>3. \E m \in DOMAIN v : m > n /\ (Speech(v[m]) \/ Stopped(v[m]))
  BY <1>1, <1>2
<1>4. t \in a => t \in q
  OBVIOUS
<1>5. p \subseteq q
  OBVIOUS
<1> HIDE DEF q
<1>6. ASSUME NEW k \in DOMAIN w, k > n, Stopped(w[k])
      PROVE  t \in q \/ \E m \in DOMAIN w : n < m /\ m < k /\ Speech(w[m])
  BY <1>5, <1>6 DEF Voiced
<1>7. ASSUME NEW k \in DOMAIN v, k > n, Stopped(v[k])
      PROVE  t \in q \/ \E m \in DOMAIN v : n < m /\ m < k /\ Speech(v[m])
  <2>1. CASE k \in DOMAIN w
    <3>1. Stopped(w[k])
      BY <1>1, <1>7, <2>1
    <3>2. t \in q \/ \E m \in DOMAIN w : n < m /\ m < k /\ Speech(w[m])
      BY <1>6, <1>7, <2>1, <3>1
    <3> QED BY <1>1, <3>2
  <2>2. CASE k = Len(w) + 1
    <3>1. CASE t \in a
      BY <1>4, <3>1
    <3>2. CASE \E m \in DOMAIN w : m > n /\ (Speech(w[m]) \/ Stopped(w[m]))
      <4>1. PICK m \in DOMAIN w : m > n /\ (Speech(w[m]) \/ Stopped(w[m]))
        BY <3>2
      <4>2. CASE Speech(w[m])
        <5>1. m \in DOMAIN v /\ n < m /\ m < k /\ Speech(v[m])
          BY <1>1, <1>2, <2>2, <4>1, <4>2
        <5> QED BY <5>1
      <4>3. CASE Stopped(w[m])
        <5>1. CASE t \in q
          BY <5>1
        <5>2. CASE \E j \in DOMAIN w : n < j /\ j < m /\ Speech(w[j])
          <6>1. PICK j \in DOMAIN w : n < j /\ j < m /\ Speech(w[j])
            BY <5>2
          <6>2. j \in DOMAIN v /\ n < j /\ j < k /\ Speech(v[j])
            BY <1>1, <1>2, <2>2, <6>1
          <6> QED BY <6>2
        <5> QED BY <1>6, <4>1, <4>3, <5>1, <5>2
      <4> QED BY <4>1, <4>2, <4>3
    <3> QED BY <3>1, <3>2 DEF Voiced
  <2> QED BY <1>1, <1>7, <2>1, <2>2
<1> QED BY <1>3, <1>7 DEF Voiced, q

Completes(e) == Ended(e) /\ e.completed

\* Announcements survive events other than the end of the audio; the end of the
\* response finds its announcement in the audio.
LEMMA AnnouncedGrows ==
  ASSUME NEW c, NEW w \in Seq(WireEvent), NEW e \in WireEvent, NEW v, v = Append(w, e), ~Stopped(e),
         NEW a, NEW p, AnnouncedOf(c, a, w, p), NEW b, a \subseteq b \/ Speech(e),
         Completes(e) => c.active.effect = "none" \/ c.active \in b
  PROVE  AnnouncedOf(c, b, v, p)
<1>1. /\ Len(w) \in Nat /\ DOMAIN w = 1 .. Len(w) /\ DOMAIN v = 1 .. Len(w) + 1
      /\ \A k \in DOMAIN w : v[k] = w[k]
      /\ v[Len(w) + 1] = e
      /\ \A k \in DOMAIN v : k \in DOMAIN w \/ k = Len(w) + 1
  BY WireGrows
<1>2. c.pending # NoTask => Voiced(c.pending, 0, b, v, p)
  BY VoicedGrows DEF AnnouncedOf
<1>3. ASSUME c.active.effect # "none", NEW n \in DOMAIN v, Ended(v[n]), v[n].completed
      PROVE  Voiced(c.active, n, b, v, p)
  <2>1. CASE n \in DOMAIN w
    <3>1. Voiced(c.active, n, a, w, p)
      BY <1>1, <1>3, <2>1 DEF AnnouncedOf
    <3> QED BY <2>1, <3>1, VoicedGrows
  <2>2. CASE n = Len(w) + 1
    <3>1. c.active \in b
      <4>1. Completes(e)
        BY <1>1, <1>3, <2>2 DEF Completes
      <4> QED BY <1>3, <4>1
    <3>2. \A k \in DOMAIN v : ~(k > n)
      BY <1>1, <2>2
    <3> QED BY <3>1, <3>2 DEF Voiced
  <2> QED BY <1>1, <2>1, <2>2
<1>4. c.applying # NoTask => c.applying \in p
  BY DEF AnnouncedOf
<1> QED BY <1>2, <1>3, <1>4 DEF AnnouncedOf

LEMMA AnnouncedDrains ==
  ASSUME NEW c, NEW w \in Seq(WireEvent), NEW e \in WireEvent, NEW v, v = Append(w, e), Stopped(e),
         NEW a, NEW p, AnnouncedOf(c, a, w, p), EffectsSound(c)
  PROVE  AnnouncedOf(c, {}, v, p \cup {u \in a : u.effect # "none"})
<1> DEFINE q == p \cup {u \in a : u.effect # "none"}
<1>1. /\ Len(w) \in Nat /\ DOMAIN w = 1 .. Len(w) /\ DOMAIN v = 1 .. Len(w) + 1
      /\ \A k \in DOMAIN w : v[k] = w[k]
      /\ v[Len(w) + 1] = e
      /\ \A k \in DOMAIN v : k \in DOMAIN w \/ k = Len(w) + 1
  BY WireGrows
<1>2. c.pending # NoTask => Voiced(c.pending, 0, {}, v, q)
  <2>1. c.pending # NoTask => c.pending.effect # "none" /\ Voiced(c.pending, 0, a, w, p)
    BY DEF AnnouncedOf, EffectsSound
  <2> QED BY <2>1, VoicedDrains
<1>3. ASSUME c.active.effect # "none", NEW n \in DOMAIN v, Ended(v[n]), v[n].completed
      PROVE  Voiced(c.active, n, {}, v, q)
  <2>0. ~Ended(e)
    BY DEF Ended, Stopped
  <2>1. n \in DOMAIN w
    BY <1>1, <1>3, <2>0
  <2>2. Voiced(c.active, n, a, w, p)
    BY <1>1, <1>3, <2>1 DEF AnnouncedOf
  <2> QED BY <1>3, <2>1, <2>2, VoicedDrains
<1>4. c.applying # NoTask => c.applying \in q
  BY DEF AnnouncedOf
<1> QED BY <1>2, <1>3, <1>4 DEF AnnouncedOf

\* The latch, when an event is reported that ends no response, and when one ends.
LEMMA LatchGrows ==
  ASSUME NEW w \in Seq(WireEvent), NEW e \in WireEvent, NEW v, v = Append(w, e), ~Ended(e),
         NEW c, NEW g, NEW l, LatchOf(c, g, w, l)
  PROVE  LatchOf(c, g, v, l)
<1>1. /\ Len(w) \in Nat /\ DOMAIN w = 1 .. Len(w) /\ DOMAIN v = 1 .. Len(w) + 1
      /\ \A k \in DOMAIN w : v[k] = w[k] /\ k \in DOMAIN v
      /\ v[Len(w) + 1] = e
      /\ \A k \in DOMAIN v : k \in DOMAIN w \/ k = Len(w) + 1
  BY WireGrows
<1>2. NoneEnds(w) => NoneEnds(v)
  BY <1>1 DEF NoneEnds
<1>3. ASSUME OneEnds(w)
      PROVE  OneEnds(v)
  <2>1. PICK n \in DOMAIN w : Ended(w[n]) /\ \A m \in DOMAIN w : Ended(w[m]) => m = n
    BY <1>3 DEF OneEnds
  <2>2. n \in DOMAIN v /\ Ended(v[n]) /\ \A m \in DOMAIN v : Ended(v[m]) => m = n
    BY <1>1, <2>1
  <2> QED BY <2>2 DEF OneEnds
<1>4. CASE LatchFree(c, g, w)
  BY <1>2, <1>4 DEF LatchFree, LatchOf
<1>5. CASE LatchOfResponse(c, g, w, l)
  <2>1. LatchOfResponse(c, g, v, l)
    BY <1>2, <1>3, <1>5 DEF LatchOfResponse
  <2> QED BY <2>1 DEF LatchOf
<1>6. CASE LatchOfEffect(c, g, w)
  BY <1>2, <1>6 DEF LatchOfEffect, LatchOf
<1> QED BY <1>4, <1>5, <1>6 DEF LatchOf

LEMMA LatchEnds ==
  ASSUME NEW w \in Seq(WireEvent), NEW e \in WireEvent, NEW v, v = Append(w, e), Ended(e),
         NEW c, NEW g, g # NoTask, NEW l, LatchOf(c, g, w, l)
  PROVE  LatchOf(c, NoTask, v, l) /\ g = c.active
<1>1. /\ Len(w) \in Nat /\ DOMAIN w = 1 .. Len(w) /\ DOMAIN v = 1 .. Len(w) + 1
      /\ \A k \in DOMAIN w : v[k] = w[k] /\ k \in DOMAIN v
      /\ v[Len(w) + 1] = e /\ Len(w) + 1 \in DOMAIN v
      /\ \A k \in DOMAIN v : k \in DOMAIN w \/ k = Len(w) + 1
  BY WireGrows
<1>2. /\ LatchOfResponse(c, g, w, l) /\ g = c.active /\ c.active.stage # "lookup_pending"
      /\ NoneEnds(w)
  BY DEF LatchOf, LatchFree, LatchOfResponse, LatchOfEffect
<1>3. OneEnds(v)
  <2>1. Ended(v[Len(w) + 1]) /\ \A m \in DOMAIN v : Ended(v[m]) => m = Len(w) + 1
    BY <1>1, <1>2 DEF NoneEnds
  <2> QED BY <1>1, <2>1 DEF OneEnds
<1>4. LatchOfResponse(c, NoTask, v, l)
  BY <1>2, <1>3 DEF LatchOfResponse
<1> QED BY <1>2, <1>4 DEF LatchOf

\* The order of the reports, and their number.
LEMMA WordsGrow ==
  ASSUME NEW w \in Seq(WireEvent), NEW e \in WireEvent, NEW v, v = Append(w, e)
  PROVE  /\ ~Said(e) => Words(v) = Words(w)
         /\ Said(e) => Cardinality(Words(v)) = Cardinality(Words(w)) + 1
<1>1. /\ Len(w) \in Nat /\ DOMAIN w = 1 .. Len(w) /\ DOMAIN v = 1 .. Len(w) + 1
      /\ \A k \in DOMAIN w : v[k] = w[k] /\ k \in DOMAIN v
      /\ v[Len(w) + 1] = e /\ Len(w) + 1 \in DOMAIN v /\ Len(w) + 1 \notin DOMAIN w
      /\ \A k \in DOMAIN v : k \in DOMAIN w \/ k = Len(w) + 1
  BY WireGrows
<1>2. ~Said(e) => Words(v) = Words(w)
  BY <1>1 DEF Words
<1>3. ASSUME Said(e)
      PROVE  Cardinality(Words(v)) = Cardinality(Words(w)) + 1
  <2>1. Words(v) = Words(w) \cup {Len(w) + 1} /\ Len(w) + 1 \notin Words(w)
    BY <1>1, <1>3 DEF Words
  <2>2. IsFiniteSet(Words(w))
    BY WordsAreFinite
  <2> QED BY <2>1, <2>2, FS_AddElement
<1> QED BY <1>2, <1>3

Became(it, i, x) == [it EXCEPT ![i] = x]

LEMMA HeardGrows ==
  ASSUME NEW it \in [Items -> {"quiet", "said", "transcribed", "failed"}], NEW i \in Items,
         NEW x \in {"said", "transcribed", "failed"}, NEW new, new = Became(it, i, x)
  PROVE  /\ new \in [Items -> {"quiet", "said", "transcribed", "failed"}]
         /\ \A j \in Items : new[j] = "quiet" => it[j] = "quiet" /\ j # i
         /\ x = "said" /\ it[i] = "quiet" => Heard(new) = Heard(it)
         /\ x # "said" /\ it[i] = "said" => Cardinality(Heard(new)) = Cardinality(Heard(it)) + 1
         /\ x # "said" /\ it[i] = "failed" => Heard(new) = Heard(it)
<1>1. new[i] = x /\ \A j \in Items : j # i => new[j] = it[j]
  BY DEF Became
<1>2. /\ new \in [Items -> {"quiet", "said", "transcribed", "failed"}]
      /\ \A j \in Items : new[j] = "quiet" => it[j] = "quiet" /\ j # i
  BY <1>1 DEF Became
<1>3. /\ x = "said" /\ it[i] = "quiet" => Heard(new) = Heard(it)
      /\ x # "said" /\ it[i] = "failed" => Heard(new) = Heard(it)
  BY <1>1 DEF Heard
<1>4. ASSUME x # "said", it[i] = "said"
      PROVE  Cardinality(Heard(new)) = Cardinality(Heard(it)) + 1
  <2>1. Heard(new) = Heard(it) \cup {i} /\ i \notin Heard(it)
    BY <1>1, <1>4 DEF Heard
  <2>2. IsFiniteSet(Heard(it))
    BY HeardIsFinite
  <2> QED BY <2>1, <2>2, FS_AddElement
<1> QED BY <1>2, <1>3, <1>4

\* Speech is reported of the first item that is quiet.
Follows(e, it, new) ==
  /\ \A j \in Items : new[j] = "quiet" => it[j] = "quiet"
  /\ Speech(e) => /\ e.item \in Items /\ it[e.item] = "quiet"
                  /\ \A j \in Items : new[j] = "quiet" => e.item < j

LEMMA InOrderGrows ==
  ASSUME NEW w \in Seq(WireEvent), NEW e \in WireEvent, NEW v, v = Append(w, e),
         NEW it, NEW new, NEW gen, InOrder(w, it, gen), Follows(e, it, new)
  PROVE  InOrder(v, new, gen)
<1>1. /\ Len(w) \in Nat /\ DOMAIN w = 1 .. Len(w) /\ DOMAIN v = 1 .. Len(w) + 1
      /\ \A k \in DOMAIN w : v[k] = w[k] /\ k \in DOMAIN v /\ k < Len(w) + 1
      /\ v[Len(w) + 1] = e /\ Len(w) + 1 \in DOMAIN v
      /\ \A k \in DOMAIN v : k \in DOMAIN w \/ k = Len(w) + 1
  BY WireGrows
<1>2. \A i \in Items : new[i] = "quiet" => gen < i
  BY DEF InOrder, Follows
<1>3. ASSUME NEW n \in DOMAIN v, Speech(v[n])
      PROVE  /\ gen < v[n].item
             /\ \A i \in Items : new[i] = "quiet" => v[n].item < i
             /\ \A m \in DOMAIN v : m < n /\ Speech(v[m]) => v[m].item < v[n].item
  <2>1. CASE n \in DOMAIN w
    <3>1. /\ gen < w[n].item
          /\ \A i \in Items : it[i] = "quiet" => w[n].item < i
          /\ \A m \in DOMAIN w : m < n /\ Speech(w[m]) => w[m].item < w[n].item
      BY <1>1, <1>3, <2>1 DEF InOrder
    <3>2. \A m \in DOMAIN v : m < n => m \in DOMAIN w
      BY <1>1, <2>1
    <3> QED BY <1>1, <2>1, <3>1, <3>2 DEF Follows
  <2>2. CASE n = Len(w) + 1
    <3>1. v[n] = e /\ Speech(e)
      BY <1>1, <1>3, <2>2
    <3>2. gen < e.item /\ \A m \in DOMAIN w : Speech(w[m]) => w[m].item < e.item
      BY <3>1 DEF InOrder, Follows
    <3>3. \A m \in DOMAIN v : m < n => m \in DOMAIN w /\ v[m] = w[m]
      BY <1>1, <2>2
    <3> QED BY <3>1, <3>2, <3>3 DEF Follows
  <2> QED BY <1>1, <2>1, <2>2
<1> QED BY <1>2, <1>3 DEF InOrder

\* The wire stays sound when a report is added together with what became of its item.
LEMMA WireSoundGrows ==
  ASSUME NEW w, NEW it, NEW gen, NEW seq \in Int, NEW rep \in Int, WireSound(w, it, gen, seq, rep),
         NEW e \in WireEvent, NEW v, v = Append(w, e), NEW new, NEW again \in Int, Follows(e, it, new),
         Speech(e) \/ Said(e) => e.item \in Items,
         IF Said(e)
         THEN Cardinality(Heard(new)) + again = Cardinality(Heard(it)) + rep + 1
         ELSE Cardinality(Heard(new)) + again = Cardinality(Heard(it)) + rep
  PROVE  WireSound(v, new, gen, seq, again)
<1>1. /\ w \in Seq(WireEvent) /\ InOrder(w, it, gen)
      /\ \A n \in DOMAIN w : Speech(w[n]) \/ Said(w[n]) => w[n].item \in Items
      /\ seq + Cardinality(Words(w)) <= Cardinality(Heard(it)) + rep
  BY DEF WireSound
<1>2. /\ v \in Seq(WireEvent)
      /\ \A k \in DOMAIN w : v[k] = w[k]
      /\ v[Len(w) + 1] = e
      /\ \A k \in DOMAIN v : k \in DOMAIN w \/ k = Len(w) + 1
  BY <1>1, WireGrows
<1>3. InOrder(v, new, gen)
  BY <1>1, InOrderGrows
<1>4. \A n \in DOMAIN v : Speech(v[n]) \/ Said(v[n]) => v[n].item \in Items
  BY <1>1, <1>2
<1>5. seq + Cardinality(Words(v)) <= Cardinality(Heard(new)) + again
  <2>1. Cardinality(Words(w)) \in Int
    <3>1. Cardinality(Words(w)) \in Nat
      BY <1>1, WordsAreFinite
    <3> QED BY <3>1
  <2>2. Cardinality(Heard(new)) \in Int /\ Cardinality(Heard(it)) \in Int
    <3>1. Cardinality(Heard(new)) \in Nat /\ Cardinality(Heard(it)) \in Nat
      BY HeardIsFinite
    <3> QED BY <3>1
  <2>3. CASE Said(e)
    <3>1. Cardinality(Words(v)) = Cardinality(Words(w)) + 1
      BY <1>1, <2>3, WordsGrow
    <3> QED BY <1>1, <2>1, <2>2, <2>3, <3>1
  <2>4. CASE ~Said(e)
    <3>1. Words(v) = Words(w)
      BY <1>1, <2>4, WordsGrow
    <3> QED BY <1>1, <2>1, <2>2, <2>4, <3>1
  <2> QED BY <2>3, <2>4
<1> QED BY <1>2, <1>3, <1>4, <1>5 DEF WireSound

\* What is sent on its way.
LEMMA Emitted ==
  ASSUME NEW w \in Seq(WireEvent), NEW e \in WireEvent, NEW h \in WireEvent
  PROVE  /\ w \o <<e>> = Append(w, e)
         /\ w \o (<<e>> \o <<>>) = Append(w, e)
         /\ w \o (<<e>> \o <<h>>) = Append(Append(w, e), h)
         /\ Len(w \o <<e>>) = Len(w) + 1 /\ Len(<<e>>) = 1
<1>1. <<e>> \in Seq(WireEvent) /\ <<h>> \in Seq(WireEvent)
  OBVIOUS
<1>2. Append(w, e) = w \o <<e>> /\ Append(w, e) \in Seq(WireEvent)
  BY AppendIsConcat, WireGrows
<1>3. <<e>> \o <<>> = <<e>>
  BY <1>1, ConcatEmptySeq
<1>4. Append(Append(w, e), h) = Append(w, e) \o <<h>>
  BY <1>2, AppendIsConcat
<1>5. (w \o <<e>>) \o <<h>> = w \o (<<e>> \o <<h>>)
  BY <1>1, ConcatAssociative
<1>6. Len(<<e>>) = 1 /\ Len(Append(w, e)) = Len(w) + 1
  BY WireGrows
<1> QED BY <1>2, <1>3, <1>4, <1>5, <1>6

-----------------------------------------------------------------------------
(* The steps of the provider.                                              *)

LEMMA EventTyped ==
  ASSUME NEW type \in EventTypes
  PROVE  /\ RealtimeEvent(type) \in WireEvent /\ RealtimeEvent(type).type = type /\ ~RealtimeEvent(type).completed
         /\ \A i \in Items : /\ [RealtimeEvent(type) EXCEPT !.item = i] \in WireEvent
                             /\ [RealtimeEvent(type) EXCEPT !.item = i].type = type
                             /\ [RealtimeEvent(type) EXCEPT !.item = i].item = i
<1>1. 0 \in 0 .. MaxItems /\ \A i \in Items : i \in 0 .. MaxItems
  BY ConversationAssumption DEF Items
<1> QED BY <1>1 DEF RealtimeEvent, WireEvent

\* What the provider knows of the call.
LEMMA ProviderFacts ==
  ASSUME ConversationIInv
  PROVE  /\ wire \in Seq(WireEvent) /\ Len(wire) \in Nat /\ call.seq \in Int /\ repeats \in Int
         /\ Settled(call, generating, wire, lookups, audio, played)
         /\ LatchOf(call, generating, wire, lookups) /\ AnnouncedOf(call, audio, wire, played)
         /\ EffectsSound(call) /\ generating \in Task /\ audio \subseteq Task /\ played \subseteq Task
         /\ WireSound(wire, items, call.gen, call.seq, repeats)
         /\ items \in [Items -> {"quiet", "said", "transcribed", "failed"}]
         /\ repeats \in 0 .. MaxRepeats /\ Len(wire) <= MaxWire /\ MaxRepeats \in Nat
<1>1. call \in Call
  BY DEF ConversationIInv, CallOf, Settled, Sound
<1>2. wire \in Seq(WireEvent)
  BY DEF ConversationIInv, WireOf, WireSound
<1>3. call.seq \in Int
  BY <1>1, CountsTyped
<1>4. repeats \in Int
  BY ConversationAssumption DEF ConversationIInv, ProviderTyped
<1>5. Len(wire) \in Nat
  BY <1>2, LenProperties
<1> QED BY <1>2, <1>3, <1>4, <1>5, ConversationAssumption
        DEF ConversationIInv, CallOf, WireOf, ProviderTyped, Settled, Sound

\* A step of the provider, from what it keeps.
LEMMA ProviderEnds ==
  ASSUME ConversationIInv, UNCHANGED <<call, lookups, collided>>,
         LatchOf(call, generating', wire', lookups), AnnouncedOf(call, audio', wire', played'),
         WireSound(wire', items', call.gen, call.seq, repeats'), ProviderTyped'
  PROVE  ConversationIInv'
<1>1. CallOf'
  BY DEF ConversationIInv, CallOf, Settled
<1>2. WireOf'
  BY DEF WireOf
<1> QED BY <1>1, <1>2 DEF ConversationIInv, Uncollided

LEMMA CallerSpeaksStep ==
  ASSUME ConversationIInv, NEW i \in Items, CallerSpeaks(i)
  PROVE  ConversationIInv'
<1> DEFINE e == [RealtimeEvent("speech_started") EXCEPT !.item = i]
           h == RealtimeEvent("response_done")
           w == Append(wire, e)
           new == [items EXCEPT ![i] = "said"]
<1>1. PICK cancel \in BOOLEAN :
        /\ cancel => generating # NoTask
        /\ generating' = IF cancel THEN NoTask ELSE generating
        /\ Emit(<<e>> \o IF cancel THEN <<h>> ELSE <<>>)
  BY DEF CallerSpeaks
<1>2. /\ Quiet(i) /\ items' = new /\ audio' = {}
      /\ UNCHANGED <<call, lookups, repeats, played, collided>>
  BY DEF CallerSpeaks
<1>3. /\ wire \in Seq(WireEvent) /\ Len(wire) \in Nat /\ call.seq \in Int /\ repeats \in Int
      /\ LatchOf(call, generating, wire, lookups) /\ AnnouncedOf(call, audio, wire, played)
      /\ generating \in Task /\ played \subseteq Task
      /\ WireSound(wire, items, call.gen, call.seq, repeats)
      /\ items \in [Items -> {"quiet", "said", "transcribed", "failed"}]
      /\ repeats \in 0 .. MaxRepeats
  BY ProviderFacts
<1>4. /\ e \in WireEvent /\ h \in WireEvent /\ e.item = i
      /\ Speech(e) /\ ~Ended(e) /\ ~Stopped(e) /\ ~Said(e)
  <2>1. "speech_started" \in EventTypes /\ "response_done" \in EventTypes
    BY DEF EventTypes
  <2>2. e \in WireEvent /\ h \in WireEvent /\ e.item = i /\ e.type = "speech_started"
    BY <2>1, EventTyped
  <2> HIDE DEF e
  <2> QED BY <2>2 DEF Speech, Ended, Stopped, Said
<1>5. Ended(h) /\ ~Speech(h) /\ ~Stopped(h) /\ ~Said(h)
  BY DEF RealtimeEvent, Speech, Ended, Stopped, Said
<1>6. ~Completes(h) /\ ~Completes(e)
  BY <1>4 DEF RealtimeEvent, Completes
<1>7. /\ new \in [Items -> {"quiet", "said", "transcribed", "failed"}] /\ items[i] = "quiet"
      /\ \A j \in Items : new[j] = "quiet" => items[j] = "quiet" /\ j # i
      /\ Heard(new) = Heard(items)
  <2>1. items[i] = "quiet"
    BY <1>2 DEF Quiet
  <2>2. "said" \in {"said", "transcribed", "failed"}
    OBVIOUS
  <2>3. new = Became(items, i, "said")
    BY DEF Became
  <2> HIDE DEF new
  <2> QED BY <1>3, <2>1, <2>2, <2>3, HeardGrows
<1>8. \A j \in Items : new[j] = "quiet" => i < j
  <2>1. \A j \in 1 .. i - 1 : items[j] # "quiet"
    BY <1>2 DEF Quiet
  <2>2. \A j \in Items : j \in Nat /\ j >= 1
    BY ConversationAssumption DEF Items
  <2>3. ASSUME NEW j \in Items, new[j] = "quiet"
        PROVE  i < j
    <3>1. items[j] = "quiet" /\ j # i
      BY <1>7, <2>3
    <3> HIDE DEF new
    <3> QED BY <2>1, <2>2, <3>1
  <2> QED BY <2>3
<1> HIDE DEF e, h, w, new
<1>9. w \in Seq(WireEvent)
  BY <1>3, <1>4, WireGrows DEF w
<1>10. LatchOf(call, generating, w, lookups)
  BY <1>3, <1>4, LatchGrows DEF w
<1>11. AnnouncedOf(call, {}, w, played)
  BY <1>3, <1>4, <1>6, AnnouncedGrows DEF w
<1>12. WireSound(w, new, call.gen, call.seq, repeats)
  <2>1. Cardinality(Heard(new)) + repeats = Cardinality(Heard(items)) + repeats
    BY <1>7
  <2>2. Follows(e, items, new)
    BY <1>4, <1>7, <1>8 DEF Follows
  <2> QED BY <1>3, <1>4, <2>1, <2>2, WireSoundGrows DEF w
<1>13. CASE cancel
  <2>1. wire' = Append(w, h) /\ generating' = NoTask /\ generating # NoTask
        /\ Len(wire') <= MaxWire
    <3>1. wire' = wire \o (<<e>> \o <<h>>) /\ Len(wire) + Len(<<e>> \o <<h>>) <= MaxWire
      BY <1>1, <1>13 DEF Emit
    <3>2. wire' = Append(w, h) /\ Len(wire') = Len(wire) + 2
      BY <1>3, <1>4, <1>9, <3>1, Emitted, WireGrows DEF w
    <3>3. Len(<<e>> \o <<h>>) = 2
      OBVIOUS
    <3> QED BY <1>1, <1>13, <3>1, <3>2, <3>3
  <2>2. LatchOf(call, NoTask, wire', lookups)
    BY <1>4, <1>5, <1>9, <1>10, <2>1, LatchEnds
  <2>3. AnnouncedOf(call, {}, wire', played)
    <3>1. {} \subseteq {} \/ Speech(h)
      OBVIOUS
    <3>2. Completes(h) => call.active.effect = "none" \/ call.active \in {}
      BY <1>6
    <3>3. h \in WireEvent /\ ~Stopped(h) /\ wire' = Append(w, h)
      BY <1>4, <1>5, <2>1
    <3> QED BY <1>9, <1>11, <3>1, <3>2, <3>3, AnnouncedGrows
  <2>4. WireSound(wire', new, call.gen, call.seq, repeats)
    <3>1. Follows(h, new, new)
      BY <1>5 DEF Follows
    <3> QED BY <1>3, <1>4, <1>5, <1>12, <2>1, <3>1, WireSoundGrows
  <2>5. ProviderTyped'
    BY <1>2, <1>3, <1>7, <2>1, TaskFacts DEF ProviderTyped
  <2> QED BY <1>2, <2>1, <2>2, <2>3, <2>4, <2>5, ProviderEnds
<1>14. CASE ~cancel
  <2>1. wire' = w /\ generating' = generating /\ Len(wire') <= MaxWire
    <3>1. wire' = wire \o (<<e>> \o <<>>) /\ Len(wire) + Len(<<e>> \o <<>>) <= MaxWire
      BY <1>1, <1>14 DEF Emit
    <3>2. wire' = w /\ Len(wire') = Len(wire) + 1
      BY <1>3, <1>4, <3>1, Emitted, WireGrows DEF w
    <3>3. Len(<<e>> \o <<>>) = 1
      OBVIOUS
    <3> QED BY <1>1, <1>14, <3>1, <3>2, <3>3
  <2>2. ProviderTyped'
    BY <1>2, <1>3, <1>7, <2>1 DEF ProviderTyped
  <2> QED BY <1>2, <1>10, <1>11, <1>12, <2>1, <2>2, ProviderEnds
<1> QED BY <1>13, <1>14

LEMMA IdleItemStep ==
  ASSUME ConversationIInv, NEW i \in Items, IdleItem(i)
  PROVE  ConversationIInv'
<1> DEFINE new == Became(items, i, "said")
<1>1. /\ Quiet(i) /\ items' = new
      /\ UNCHANGED <<call, lookups, generating, audio, wire, repeats, played, collided>>
  BY DEF IdleItem, Became
<1>2. /\ wire \in Seq(WireEvent) /\ items \in [Items -> {"quiet", "said", "transcribed", "failed"}]
      /\ LatchOf(call, generating, wire, lookups) /\ AnnouncedOf(call, audio, wire, played)
      /\ WireSound(wire, items, call.gen, call.seq, repeats)
  BY ProviderFacts
<1>3. items[i] = "quiet" /\ "said" \in {"said", "transcribed", "failed"}
  BY <1>1 DEF Quiet
<1>4. /\ new \in [Items -> {"quiet", "said", "transcribed", "failed"}]
      /\ \A j \in Items : new[j] = "quiet" => items[j] = "quiet" /\ j # i
      /\ Heard(new) = Heard(items)
  BY <1>2, <1>3, HeardGrows
<1> HIDE DEF new
<1>5. InOrder(wire, new, call.gen)
  BY <1>2, <1>4 DEF WireSound, InOrder
<1>6. WireSound(wire, new, call.gen, call.seq, repeats)
  BY <1>2, <1>4, <1>5 DEF WireSound
<1>7. ProviderTyped'
  BY <1>1, <1>4 DEF ConversationIInv, ProviderTyped
<1>8. /\ LatchOf(call, generating', wire', lookups) /\ AnnouncedOf(call, audio', wire', played')
      /\ WireSound(wire', items', call.gen, call.seq, repeats')
  BY <1>1, <1>2, <1>6
<1> QED BY <1>1, <1>7, <1>8, ProviderEnds

LEMMA TranscribeStep ==
  ASSUME ConversationIInv, NEW i \in Items, NEW failed \in BOOLEAN, Transcribe(i, failed)
  PROVE  ConversationIInv'
<1> DEFINE type == IF failed THEN "transcript_failed" ELSE "transcribed"
           x == IF failed THEN "failed" ELSE "transcribed"
           e == [RealtimeEvent(type) EXCEPT !.item = i]
           new == Became(items, i, x)
<1>1. /\ \/ items[i] = "said" /\ repeats' = repeats
         \/ items[i] = "failed" /\ x = "failed" /\ repeats < MaxRepeats /\ repeats' = repeats + 1
      /\ items' = new /\ wire' = wire \o <<e>> /\ Len(wire) + Len(<<e>>) <= MaxWire
      /\ UNCHANGED <<call, lookups, generating, audio, played, collided>>
  BY DEF Transcribe, Emit, Became
<1>2. /\ wire \in Seq(WireEvent) /\ items \in [Items -> {"quiet", "said", "transcribed", "failed"}]
      /\ LatchOf(call, generating, wire, lookups) /\ AnnouncedOf(call, audio, wire, played)
      /\ WireSound(wire, items, call.gen, call.seq, repeats) /\ repeats \in Int /\ call.seq \in Int
      /\ repeats \in 0 .. MaxRepeats /\ MaxRepeats \in Nat
  BY ProviderFacts
<1>3. /\ type \in EventTypes /\ type \in {"transcribed", "transcript_failed"}
      /\ x \in {"said", "transcribed", "failed"} /\ x # "said"
  BY DEF EventTypes
<1> HIDE DEF type, x
<1>4. e \in WireEvent /\ e.type = type /\ e.item = i
  BY <1>3, EventTyped
<1> HIDE DEF e
<1>5. Said(e) /\ ~Speech(e) /\ ~Ended(e) /\ ~Stopped(e)
  BY <1>3, <1>4 DEF Said, Speech, Ended, Stopped
<1>6. ~Completes(e)
  BY <1>5 DEF Completes
<1>7. wire' = Append(wire, e) /\ Len(wire') <= MaxWire
  BY <1>1, <1>2, <1>4, Emitted
<1>8. /\ new \in [Items -> {"quiet", "said", "transcribed", "failed"}]
      /\ \A j \in Items : new[j] = "quiet" => items[j] = "quiet" /\ j # i
      /\ items[i] = "said" => Cardinality(Heard(new)) = Cardinality(Heard(items)) + 1
      /\ items[i] = "failed" => Heard(new) = Heard(items)
  BY <1>2, <1>3, HeardGrows
<1> HIDE DEF new
<1>9. repeats' \in 0 .. MaxRepeats /\ repeats' \in Int
  BY <1>1, <1>2
<1>10. Cardinality(Heard(new)) + repeats' = Cardinality(Heard(items)) + repeats + 1
  <2>1. Cardinality(Heard(items)) \in Int
    <3>1. Cardinality(Heard(items)) \in Nat
      BY HeardIsFinite
    <3> QED BY <3>1
  <2> QED BY <1>1, <1>2, <1>8, <2>1
<1>11. WireSound(wire', new, call.gen, call.seq, repeats')
  <2>1. Follows(e, items, new)
    BY <1>5, <1>8 DEF Follows
  <2> QED BY <1>2, <1>4, <1>5, <1>7, <1>9, <1>10, <2>1, WireSoundGrows
<1>12. LatchOf(call, generating, wire', lookups)
  BY <1>2, <1>4, <1>5, <1>7, LatchGrows
<1>13. AnnouncedOf(call, audio, wire', played)
  <2>1. audio \subseteq audio \/ Speech(e)
    OBVIOUS
  <2>2. Completes(e) => call.active.effect = "none" \/ call.active \in audio
    BY <1>6
  <2> QED BY <1>2, <1>4, <1>5, <1>7, <2>1, <2>2, AnnouncedGrows
<1>14. ProviderTyped'
  BY <1>1, <1>7, <1>8, <1>9 DEF ConversationIInv, ProviderTyped
<1>15. /\ LatchOf(call, generating', wire', lookups) /\ AnnouncedOf(call, audio', wire', played')
       /\ WireSound(wire', items', call.gen, call.seq, repeats')
  BY <1>1, <1>11, <1>12, <1>13
<1> QED BY <1>1, <1>14, <1>15, ProviderEnds

LEMMA DoneTyped ==
  ASSUME NEW completed \in BOOLEAN, NEW t, NEW tool \in Tools(t),
         NEW e, e = [RealtimeEvent("response_done") EXCEPT !.completed = completed, !.tool = tool]
  PROVE  /\ e \in WireEvent /\ Ended(e) /\ ~Speech(e) /\ ~Said(e) /\ ~Stopped(e)
         /\ (Completes(e) => completed)
<1>1. tool \in {"none", "echo", "high", "low", "lookup", "invalid"}
  BY DEF Tools
<1>2. 0 \in 0 .. MaxItems
  BY ConversationAssumption
<1>3. e.type = "response_done" /\ e.completed = completed
  BY DEF RealtimeEvent
<1>4. e \in WireEvent
  BY <1>1, <1>2 DEF RealtimeEvent, WireEvent, EventTypes
<1> QED BY <1>3, <1>4 DEF Ended, Speech, Said, Stopped, Completes

LEMMA GeneratedStep ==
  ASSUME ConversationIInv, NEW completed \in BOOLEAN, NEW tool, Generated(completed, tool)
  PROVE  ConversationIInv'
<1> DEFINE e == [RealtimeEvent("response_done") EXCEPT !.completed = completed, !.tool = tool]
           cut == [generating EXCEPT !.effect = "none"]
<1>1. /\ generating # NoTask /\ tool \in Tools(generating) /\ generating' = NoTask
      /\ wire' = wire \o <<e>> /\ Len(wire) + Len(<<e>>) <= MaxWire
      /\ UNCHANGED <<call, lookups, items, repeats, played, collided>>
  BY DEF Generated, Emit
<1>2. audio' = IF IsRecovery(generating) THEN audio
               ELSE audio \cup {IF completed THEN generating ELSE cut}
  BY DEF Generated, IsRecovery
<1>3. /\ wire \in Seq(WireEvent) /\ generating \in Task /\ audio \subseteq Task
      /\ LatchOf(call, generating, wire, lookups) /\ AnnouncedOf(call, audio, wire, played)
      /\ WireSound(wire, items, call.gen, call.seq, repeats) /\ repeats \in Int /\ call.seq \in Int
  BY ProviderFacts
<1>4. /\ e \in WireEvent /\ Ended(e) /\ ~Speech(e) /\ ~Said(e) /\ ~Stopped(e)
  BY <1>1, DoneTyped
<1>5. Completes(e) => completed
  BY <1>1, DoneTyped
<1>6. cut \in Task
  BY <1>3 DEF Task, Effects
<1> HIDE DEF e, cut
<1>7. wire' = Append(wire, e) /\ Len(wire') <= MaxWire
  BY <1>1, <1>3, <1>4, Emitted
<1>8. LatchOf(call, NoTask, wire', lookups) /\ generating = call.active
  BY <1>1, <1>3, <1>4, <1>7, LatchEnds
<1>9. AnnouncedOf(call, audio', wire', played)
  <2>1. audio \subseteq audio' \/ Speech(e)
    BY <1>2
  <2>2. Completes(e) => call.active.effect = "none" \/ call.active \in audio'
    <3>1. call.active.effect # "none" => ~IsRecovery(call.active)
      BY DEF ConversationIInv, CallOf, Settled, Sound, ActiveSound, Formed, IsApproved, IsRecovery
    <3> QED BY <1>2, <1>5, <1>8, <3>1
  <2> QED BY <1>3, <1>4, <1>7, <2>1, <2>2, AnnouncedGrows
<1>10. WireSound(wire', items, call.gen, call.seq, repeats)
  <2>1. Follows(e, items, items)
    BY <1>4 DEF Follows
  <2> QED BY <1>3, <1>4, <1>7, <2>1, WireSoundGrows
<1>11. ProviderTyped'
  <2>1. audio' \subseteq Task
    BY <1>2, <1>3, <1>6
  <2> QED BY <1>1, <1>7, <2>1, TaskFacts DEF ConversationIInv, ProviderTyped
<1>12. /\ LatchOf(call, generating', wire', lookups) /\ AnnouncedOf(call, audio', wire', played')
       /\ WireSound(wire', items', call.gen, call.seq, repeats')
  BY <1>1, <1>8, <1>9, <1>10
<1> QED BY <1>1, <1>11, <1>12, ProviderEnds

LEMMA AudioDrainsStep ==
  ASSUME ConversationIInv, AudioDrains
  PROVE  ConversationIInv'
<1> DEFINE e == RealtimeEvent("audio_stopped")
<1>1. /\ wire' = wire \o <<e>> /\ Len(wire) + Len(<<e>>) <= MaxWire
      /\ played' = played \cup {t \in audio : t.effect # "none"} /\ audio' = {}
      /\ UNCHANGED <<call, lookups, generating, items, repeats, collided>>
  BY DEF AudioDrains, Emit
<1>2. /\ wire \in Seq(WireEvent) /\ audio \subseteq Task /\ played \subseteq Task
      /\ LatchOf(call, generating, wire, lookups) /\ AnnouncedOf(call, audio, wire, played)
      /\ EffectsSound(call)
      /\ WireSound(wire, items, call.gen, call.seq, repeats) /\ repeats \in Int /\ call.seq \in Int
  BY ProviderFacts
<1>3. e \in WireEvent /\ e.type = "audio_stopped"
  BY EventTyped DEF EventTypes
<1> HIDE DEF e
<1>4. Stopped(e) /\ ~Ended(e) /\ ~Speech(e) /\ ~Said(e)
  BY <1>3 DEF Stopped, Ended, Speech, Said
<1>5. wire' = Append(wire, e) /\ Len(wire') <= MaxWire
  BY <1>1, <1>2, <1>3, Emitted
<1>6. LatchOf(call, generating, wire', lookups)
  BY <1>2, <1>3, <1>4, <1>5, LatchGrows
<1>7. AnnouncedOf(call, {}, wire', played')
  BY <1>1, <1>2, <1>3, <1>4, <1>5, AnnouncedDrains
<1>8. WireSound(wire', items, call.gen, call.seq, repeats)
  <2>1. Follows(e, items, items)
    BY <1>4 DEF Follows
  <2> QED BY <1>2, <1>3, <1>4, <1>5, <2>1, WireSoundGrows
<1>9. ProviderTyped'
  <2>1. played' \subseteq Task
    BY <1>1, <1>2
  <2> QED BY <1>1, <1>5, <2>1 DEF ConversationIInv, ProviderTyped
<1>10. /\ LatchOf(call, generating', wire', lookups) /\ AnnouncedOf(call, audio', wire', played')
       /\ WireSound(wire', items', call.gen, call.seq, repeats')
  BY <1>1, <1>6, <1>7, <1>8
<1> QED BY <1>1, <1>9, <1>10, ProviderEnds

-----------------------------------------------------------------------------
(* What follows for every behavior.                                        *)

LEMMA ConversationStep ==
  ConversationIInv /\ [CallNext]_callVars => ConversationIInv'
<1> SUFFICES ASSUME ConversationIInv, [CallNext]_callVars
             PROVE  ConversationIInv'
  OBVIOUS
<1>1. CASE ReceiveEvent
  BY <1>1, ReceiveStep
<1>2. CASE TurnStarts
  BY <1>2, TurnStartsStep
<1>3. CASE TurnAnswered
  BY <1>3, TurnAnsweredStep
<1>4. CASE \E turn \in lookups, outcome \in LookupOutcomes : LookupReturns(turn, outcome)
  BY <1>4, LookupReturnsStep
<1>5. CASE \E succeeded \in BOOLEAN : EffectReturns(succeeded)
  BY <1>5, EffectReturnsStep
<1>6. CASE \E i \in Items : CallerSpeaks(i) \/ IdleItem(i)
  BY <1>6, CallerSpeaksStep, IdleItemStep
<1>7. CASE \E i \in Items, failed \in BOOLEAN : Transcribe(i, failed)
  BY <1>7, TranscribeStep
<1>8. CASE \E completed \in BOOLEAN, tool \in {"none", "echo", "high", "low", "lookup", "invalid"} :
             Generated(completed, tool)
  BY <1>8, GeneratedStep
<1>9. CASE AudioDrains
  BY <1>9, AudioDrainsStep
<1>10. CASE Close
  BY <1>10, ClosedStep DEF Close
<1>11. CASE UNCHANGED callVars
  BY <1>11 DEF callVars, providerVars, ConversationIInv, CallOf, WireOf, ProviderTyped, Uncollided
<1> QED
  BY <1>1, <1>2, <1>3, <1>4, <1>5, <1>6, <1>7, <1>8, <1>9, <1>10, <1>11 DEF CallNext, Controller, Provider

\* Every handler leaves the record of an attached call sound, and what the provider
\* reports stays in the order in which the caller spoke (handleRealtimeEvent).
THEOREM ConversationIsSound == CallSpec => []ConversationIInv
<1>1. CallInit => ConversationIInv
  BY InitStep
<1>2. ConversationIInv /\ [CallNext]_callVars => ConversationIInv'
  BY ConversationStep
<1> QED BY <1>1, <1>2, PTL DEF CallSpec

LEMMA LatchExplained ==
  ASSUME ConversationIInv
  PROVE  LatchIsExplained
<1>1. /\ LatchOf(call, generating, wire, lookups) /\ Unhurried(call)
      /\ AnnouncedOf(call, audio, wire, played)
  BY DEF ConversationIInv, CallOf, Settled
<1>2. OneEnds(wire) => Coming("response_done")
  BY DEF OneEnds, Coming, Ended
<1>3. ASSUME call.pending # NoTask
      PROVE  call.pending \in audio \/ Coming("audio_stopped") \/ Coming("speech_started")
  BY <1>1, <1>3 DEF AnnouncedOf, Voiced, Coming, Speech, Stopped
<1>4. CASE LatchFree(call, generating, wire)
  BY <1>1, <1>4 DEF LatchIsExplained, LatchFree, Unhurried
<1>5. CASE LatchOfResponse(call, generating, wire, lookups)
  BY <1>2, <1>5 DEF LatchIsExplained, LatchOfResponse
<1>6. CASE LatchOfEffect(call, generating, wire)
  BY <1>3, <1>6 DEF LatchIsExplained, LatchOfEffect
<1> QED BY <1>1, <1>4, <1>5, <1>6 DEF LatchOf

\* No response is asked for during another, and while the latch of the response queue
\* is set, something that will release it is on its way (flush, openai-sip.ts).
THEOREM ConversationHolds == CallSpec => []ConversationInvariant
<1>1. ConversationIInv => ConversationInvariant
  <2> SUFFICES ASSUME ConversationIInv
               PROVE  ConversationInvariant
    OBVIOUS
  <2>1. call \in Call /\ lookups \subseteq Task
    BY DEF ConversationIInv, CallOf, Settled, Sound, LookupsSound
  <2>2. wire \in Seq(WireEvent)
    BY DEF ConversationIInv, WireOf, WireSound
  <2>3. collided \in BOOLEAN /\ ResponsesNeverCollide
    BY DEF ConversationIInv, Uncollided, ResponsesNeverCollide
  <2>4. ConversationTypeOK
    BY <2>1, <2>2, <2>3 DEF ConversationIInv, ProviderTyped, ConversationTypeOK
  <2> QED BY <2>3, <2>4, LatchExplained DEF ConversationInvariant
<1> QED BY <1>1, ConversationIsSound, PTL

\* A link, a transfer or a hang-up follows its announcement, complete and played to the
\* end (applyEffectAfterSpeech).
THEOREM EffectsAreAnnounced == CallSpec => []EffectsFollowSpeech
<1>1. ConversationIInv => EffectsFollowSpeech
  BY DEF ConversationIInv, CallOf, Settled, AnnouncedOf, EffectsFollowSpeech
<1> QED BY <1>1, ConversationIsSound, PTL

\* The answer that is asked for belongs to the latest speech of the caller.
THEOREM AnswersAreCurrent == CallSpec => []AnswersMatchLatestSpeech
<1>1. ConversationIInv => AnswersMatchLatestSpeech
  BY DEF ConversationIInv, CallOf, Settled, Sound, AnswerSound, AnswersMatchLatestSpeech
<1> QED BY <1>1, ConversationIsSound, PTL
=============================================================================
