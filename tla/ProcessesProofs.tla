-------------------------- MODULE ProcessesProofs --------------------------
(***************************************************************************)
(* The two stores whose claims processes work under a lease, and the       *)
(* processes: the job queue and its workers, provider events and the       *)
(* webhook handlers.  The theorems on a store are about any callers of its *)
(* functions, not only those processes: they use no assumption but the     *)
(* store's, and no variable but its own.                                   *)
(***************************************************************************)
EXTENDS WorkerRuntime, WebhookIntake, TLAPS

-----------------------------------------------------------------------------
(* The store, for any number of jobs, workers, attempts and any lease and  *)
(* delay.                                                                  *)

\* The members of the column types that the actions write.
LEMMA Members ==
  /\ 0 \in Leases /\ LeaseTicks \in Leases
  /\ 0 \in Delays
  /\ 0 \in AttemptCounts
  /\ \A S : None \in Nullable(S) /\ S \subseteq Nullable(S)
  /\ Settled \subseteq JobStates
  /\ {"absent", "queued", "leased", "retry_wait"} \subseteq JobStates
BY ConstantsAssumption DEF Leases, Delays, AttemptCounts, Nullable, JobStates

LEMMA ReleasedType ==
  ASSUME NEW job \in Job, NEW s \in JobStates
  PROVE  Released(job, s) \in Job
BY Members DEF Released, Job

LEMMA ClosedRowType ==
  ASSUME NEW row \in Attempt, NEW outcome \in Closed
  PROVE  [row EXCEPT !.outcome = outcome] \in Attempt
BY DEF Attempt

LEMMA CloseAttemptType ==
  ASSUME TypeOK, NEW j \in Jobs, NEW outcome \in Closed
  PROVE  CloseAttempt(j, outcome) \in [AttemptNumbers -> Attempt]
<1>1. \A n \in AttemptNumbers : attempts[j][n] \in Attempt
  BY DEF TypeOK
<1> QED BY <1>1, ClosedRowType DEF CloseAttempt

LEMMA SweptType ==
  ASSUME TypeOK, NEW j \in Jobs
  PROVE  SweptJob(j) \in Job /\ SweptAttempts(j) \in [AttemptNumbers -> Attempt]
<1>1. SweptJob(j) \in Job
  BY ReleasedType DEF TypeOK, SweptJob, JobStates, Settled
<1>2. SweptAttempts(j) \in [AttemptNumbers -> Attempt]
  BY CloseAttemptType DEF TypeOK, SweptAttempts, Closed
<1> QED BY <1>1, <1>2

LEMMA NewJobType ==
  ASSUME NEW k \in Keys, NEW delay \in Delays, NEW original \in Nullable(Jobs)
  PROVE  NewJob(k, delay, original) \in Job
<1>1. NoJob \in Job
  BY Members DEF NoJob, Job
<1> QED BY <1>1, Members DEF NewJob, Job

LEMMA TypeInductive == TypeOK /\ [Next]_vars => TypeOK'
<1> SUFFICES ASSUME TypeOK, [Next]_vars PROVE TypeOK'
  OBVIOUS
<1>1. ASSUME NEW j \in Jobs, NEW k \in Keys, NEW delay \in Delays, Enqueue(j, k, delay)
      PROVE  TypeOK'
  <2>1. NewJob(k, delay, None) \in Job
    BY NewJobType, Members
  <2> QED BY <1>1, <2>1 DEF Enqueue, TypeOK
<1>2. ASSUME NEW w \in Workers, NEW batch \in SUBSET Jobs, Claim(w, batch)
      PROVE  TypeOK'
  <2>1. ASSUME NEW j \in batch
        PROVE  LeasedJob(j, w) \in Job /\ jobs[j].attempt + 1 \in AttemptNumbers
    <3>1. jobs[j] \in Job /\ jobs[j].attempt < MaxAttempts
      BY <1>2 DEF Claim, Claimable, TypeOK
    <3>2. jobs[j].attempt \in AttemptCounts
      BY <3>1 DEF Job
    <3>3. jobs[j].attempt + 1 \in AttemptCounts /\ jobs[j].attempt + 1 \in AttemptNumbers
      BY <3>1, <3>2, ConstantsAssumption DEF AttemptCounts, AttemptNumbers
    <3>4. w \in Nullable(Workers)
      BY Members
    <3> QED BY <3>1, <3>3, <3>4, Members DEF LeasedJob, Job
  <2>2. jobs' \in [Jobs -> Job]
    BY <1>2, <2>1, SweptType DEF Claim
  <2>3. [worker |-> w, outcome |-> "open"] \in Attempt
    BY Members DEF Attempt
  <2>4. attempts' \in [Jobs -> [AttemptNumbers -> Attempt]]
    BY <1>2, <2>1, <2>3, SweptType DEF Claim
  <2> QED BY <2>2, <2>4 DEF TypeOK
<1>3. ASSUME NEW w \in Workers, NEW j \in Jobs, Heartbeat(w, j)
      PROVE  TypeOK'
  <2>1. [jobs[j] EXCEPT !.lease = LeaseTicks] \in Job
    BY Members DEF TypeOK, Job
  <2> QED BY <1>3, <2>1 DEF Heartbeat, TypeOK
<1>4. ASSUME NEW w \in Workers, NEW j \in Jobs, Complete(w, j)
      PROVE  TypeOK'
  BY <1>4, CloseAttemptType, ReleasedType, Members DEF Complete, TypeOK, Settled, Closed
<1>5. ASSUME NEW w \in Workers, NEW j \in Jobs, NEW retryable \in BOOLEAN,
             NEW delay \in Delays, Fail(w, j, retryable, delay)
      PROVE  TypeOK'
  <2>1. jobs[j] \in Job
    BY DEF TypeOK
  <2>2. Released(jobs[j], "dead_letter") \in Job /\ Released(jobs[j], "retry_wait") \in Job
    BY <2>1, ReleasedType, Members DEF Settled
  <2>3. [Released(jobs[j], "retry_wait") EXCEPT !.wait = delay] \in Job
    BY <2>2 DEF Job
  <2>4. CloseAttempt(j, "retry") \in [AttemptNumbers -> Attempt]
        /\ CloseAttempt(j, "dead_letter") \in [AttemptNumbers -> Attempt]
    BY CloseAttemptType DEF Closed
  <2> QED BY <1>5, <2>2, <2>3, <2>4 DEF Fail, TypeOK
<1>6. ASSUME NEW j \in Jobs, Cancel(j)
      PROVE  TypeOK'
  BY <1>6, CloseAttemptType, ReleasedType, Members DEF Cancel, TypeOK, Settled, Closed
<1>7. ASSUME NEW j \in Jobs, NEW copy \in Jobs, NEW k \in Keys, Replay(j, copy, k)
      PROVE  TypeOK'
  <2>1. NewJob(k, 0, j) \in Job
    BY NewJobType, Members
  <2> QED BY <1>7, <2>1 DEF Replay, TypeOK
<1>8. CASE Tick
  <2>1. ASSUME NEW n \in Nat, NEW m \in 0 .. n PROVE Elapsed(m) \in 0 .. n
    BY DEF Elapsed
  <2>2. ASSUME NEW j \in Jobs
        PROVE  [jobs[j] EXCEPT !.lease = Elapsed(@), !.wait = Elapsed(@)] \in Job
    <3>1. jobs[j] \in Job
      BY DEF TypeOK
    <3>2. jobs[j].lease \in Leases /\ jobs[j].wait \in Delays
      BY <3>1 DEF Job
    <3>3. Elapsed(jobs[j].lease) \in Leases /\ Elapsed(jobs[j].wait) \in Delays
      BY <3>2, <2>1, ConstantsAssumption DEF Leases, Delays
    <3> QED BY <3>1, <3>3 DEF Job
  <2> QED BY <1>8, <2>2 DEF Tick, TypeOK
<1>9. CASE UNCHANGED vars
  BY <1>9 DEF vars, TypeOK
<1> QED BY <1>1, <1>2, <1>3, <1>4, <1>5, <1>6, <1>7, <1>8, <1>9 DEF Next

\* Every row of the two tables stays well formed whatever requests arrive.
THEOREM TypeCorrect == Spec => []TypeOK
<1>1. Init => TypeOK
  BY Members DEF Init, TypeOK, NoJob, NoAttempt, Job, Attempt
<1> QED BY <1>1, TypeInductive, PTL DEF Spec

-----------------------------------------------------------------------------
\* Where a job stands in the attempt numbers.
LEMMA AttemptRange ==
  ASSUME TypeOK, NEW j \in Jobs
  PROVE  /\ jobs[j] \in Job
         /\ jobs[j].attempt \in Int
         /\ 0 <= jobs[j].attempt /\ jobs[j].attempt <= MaxAttempts
         /\ jobs[j].attempt > 0 => jobs[j].attempt \in AttemptNumbers
         /\ jobs[j].lease \in Nat
<1>1. jobs[j] \in Job
  BY DEF TypeOK
<1>2. jobs[j].attempt \in AttemptCounts /\ jobs[j].lease \in Leases
  BY <1>1 DEF Job
<1> QED BY <1>1, <1>2, ConstantsAssumption DEF AttemptCounts, AttemptNumbers, Leases

\* Closing the current attempt changes that row only, and only while it is open.
LEMMA CloseAttemptRows ==
  ASSUME TypeOK, NEW j \in Jobs, NEW outcome \in Closed
  PROVE  \A n \in AttemptNumbers :
           /\ CloseAttempt(j, outcome)[n].worker = attempts[j][n].worker
           /\ CloseAttempt(j, outcome)[n].outcome =
                IF n = jobs[j].attempt /\ attempts[j][n].outcome = "open"
                THEN outcome ELSE attempts[j][n].outcome
<1>1. \A n \in AttemptNumbers : attempts[j][n] \in Attempt
  BY DEF TypeOK
<1>2. \A n \in AttemptNumbers :
        /\ [attempts[j][n] EXCEPT !.outcome = outcome].worker = attempts[j][n].worker
        /\ [attempts[j][n] EXCEPT !.outcome = outcome].outcome = outcome
  BY <1>1 DEF Attempt
<1> QED BY <1>2 DEF CloseAttempt

LEMMA ReleasedFields ==
  ASSUME NEW job \in Job, NEW s
  PROVE  /\ Released(job, s).state = s
         /\ Released(job, s).attempt = job.attempt
         /\ Released(job, s).owner = None
         /\ Released(job, s).lease = 0
         /\ Released(job, s).key = job.key
         /\ Released(job, s).replayOf = job.replayOf
BY DEF Released, Job

\* A lease given up while it was live, with the attempt closed accordingly,
\* leaves a job its attempts explain.
LEMMA SettlingExplains ==
  ASSUME TypeOK, NEW j \in Jobs, Explains(attempts[j], jobs[j]),
         jobs[j].state = "leased", jobs[j].lease > 0,
         NEW s, NEW outcome \in Closed,
         \/ s = "succeeded" /\ outcome = "succeeded"
         \/ s = "retry_wait" /\ outcome = "retry"
         \/ s = "dead_letter" /\ outcome = "dead_letter",
         NEW job, job.state = s, job.attempt = jobs[j].attempt, job.lease = 0
  PROVE  Explains(CloseAttempt(j, outcome), job)
<1>1. jobs[j].attempt \in AttemptNumbers
  BY AttemptRange DEF Explains
<1>2. attempts[j][jobs[j].attempt].outcome = "open"
  BY DEF Explains
<1>3. ~(0 > 0)
  OBVIOUS
<1> QED BY <1>1, <1>2, <1>3, CloseAttemptRows, AttemptRange DEF Explains, AttemptNumbers

\* A row that was never inserted, or only just, has no attempts.
LEMMA NewJobExplains ==
  ASSUME TypeOK, NEW j \in Jobs, Explains(attempts[j], jobs[j]), ~Exists(j),
         NEW k, NEW delay, NEW original
  PROVE  Explains(attempts[j], NewJob(k, delay, original))
<1>1. jobs[j].attempt = 0
  BY DEF Explains, Exists
<1>2. /\ NewJob(k, delay, original).state = "queued"
      /\ NewJob(k, delay, original).attempt = 0
      /\ NewJob(k, delay, original).lease = 0
  BY DEF NewJob, NoJob
<1> QED BY <1>1, <1>2 DEF Explains, AttemptNumbers

\* The expiry sweep: a lease that ran out closes its attempt, and the last one
\* allowed also closes the job.
LEMMA SweepExplains ==
  ASSUME TypeOK, NEW j \in Jobs, Explains(attempts[j], jobs[j])
  PROVE  /\ Explains(SweptAttempts(j), SweptJob(j))
         /\ Expired(j) => SweptAttempts(j)[jobs[j].attempt].outcome = "lease_expired"
         /\ \A n \in AttemptNumbers :
              SweptAttempts(j)[n].outcome = "none" <=> attempts[j][n].outcome = "none"
         /\ \A n \in AttemptNumbers :
              n < jobs[j].attempt => SweptAttempts(j)[n].outcome \in {"retry", "lease_expired"}
<1>1. CASE ~Expired(j)
  BY <1>1 DEF SweptJob, SweptAttempts, Explains
<1>2. CASE Expired(j)
  <2> DEFINE rows == CloseAttempt(j, "lease_expired")
  <2>1. jobs[j].attempt \in AttemptNumbers
    BY <1>2, AttemptRange DEF Explains, Expired
  <2>2. attempts[j][jobs[j].attempt].outcome \in {"open", "lease_expired"}
        /\ attempts[j][jobs[j].attempt].worker = jobs[j].owner
    BY <1>2 DEF Explains, Expired
  <2>3. \A n \in AttemptNumbers :
          /\ rows[n].worker = attempts[j][n].worker
          /\ rows[n].outcome = IF n = jobs[j].attempt THEN "lease_expired"
                               ELSE attempts[j][n].outcome
    BY <2>2, CloseAttemptRows DEF Closed
  <2>4. Explains(rows, jobs[j])
    BY <1>2, <2>1, <2>2, <2>3, AttemptRange DEF Explains, Expired, AttemptNumbers
  <2>5. Explains(rows, Released(jobs[j], "dead_letter"))
    BY <1>2, <2>1, <2>3, <2>4, AttemptRange, ReleasedFields DEF Explains, Expired, AttemptNumbers
  <2>6. SweptAttempts(j) = rows
    BY <1>2 DEF SweptAttempts
  <2> QED
    BY <1>2, <2>1, <2>3, <2>4, <2>5, <2>6, AttemptRange DEF SweptJob, Explains, AttemptNumbers
<1> QED BY <1>1, <1>2

\* A new open attempt after closed ones explains a leased job.
LEMMA OpenAttemptExplains ==
  ASSUME NEW rows, NEW job, job.state = "leased", job.attempt # 0,
         \A n \in AttemptNumbers :
           /\ n > job.attempt <=> rows[n].outcome = "none"
           /\ n < job.attempt => rows[n].outcome \in {"retry", "lease_expired"},
         rows[job.attempt].outcome = "open",
         rows[job.attempt].worker = job.owner
  PROVE  Explains(rows, job)
BY DEF Explains

LEMMA ClaimExplains ==
  ASSUME TypeOK, NEW j \in Jobs, NEW w \in Workers, j \in Claimable(w),
         Explains(attempts[j], jobs[j])
  PROVE  Explains([SweptAttempts(j) EXCEPT ![jobs[j].attempt + 1] =
                     [worker |-> w, outcome |-> "open"]],
                  LeasedJob(j, w))
<1> DEFINE next == jobs[j].attempt + 1
           rows == [SweptAttempts(j) EXCEPT ![next] = [worker |-> w, outcome |-> "open"]]
<1>1. jobs[j].attempt < MaxAttempts /\ jobs[j].state \in {"queued", "retry_wait", "leased"}
      /\ (jobs[j].state = "leased" => Expired(j))
  BY DEF Claimable, Expired
<1>2. next \in AttemptNumbers
  BY <1>1, AttemptRange, ConstantsAssumption DEF AttemptNumbers
<1>3. /\ LeasedJob(j, w).state = "leased"
      /\ LeasedJob(j, w).attempt = next
      /\ LeasedJob(j, w).owner = w
  BY AttemptRange DEF LeasedJob, Job
<1>4. \A n \in AttemptNumbers :
        rows[n] = IF n = next THEN [worker |-> w, outcome |-> "open"] ELSE SweptAttempts(j)[n]
  BY SweptType
<1>5. jobs[j].attempt > 0 =>
        SweptAttempts(j)[jobs[j].attempt].outcome \in {"retry", "lease_expired"}
  <2>1. CASE Expired(j)
    BY <2>1, SweepExplains
  <2>2. CASE ~Expired(j)
    BY <2>2, <1>1 DEF SweptAttempts, Explains
  <2> QED BY <2>1, <2>2
<1>6. \A n \in AttemptNumbers : n > next <=> rows[n].outcome = "none"
  BY <1>2, <1>4, SweepExplains, AttemptRange DEF Explains, AttemptNumbers
<1>7. \A n \in AttemptNumbers : n < next => rows[n].outcome \in {"retry", "lease_expired"}
  BY <1>4, <1>5, SweepExplains, AttemptRange DEF AttemptNumbers
<1>8. rows[next].outcome = "open" /\ rows[next].worker = w
  BY <1>2, <1>4
<1>9. next # 0
  BY AttemptRange
<1>10. Explains(rows, LeasedJob(j, w))
  <2> HIDE DEF rows, next
  <2> QED BY <1>3, <1>6, <1>7, <1>8, <1>9, OpenAttemptExplains
<1> QED BY <1>10

-----------------------------------------------------------------------------
LEMMA LedgerInductive ==
  TypeOK /\ LedgerExplainsJob /\ [Next]_vars => LedgerExplainsJob'
<1> SUFFICES ASSUME TypeOK, LedgerExplainsJob, [Next]_vars PROVE LedgerExplainsJob'
  OBVIOUS
<1>0. \A j \in Jobs : Explains(attempts[j], jobs[j])
  BY DEF LedgerExplainsJob
<1>1. ASSUME NEW j \in Jobs, NEW k \in Keys, NEW delay \in Delays, Enqueue(j, k, delay)
      PROVE  LedgerExplainsJob'
  BY <1>0, <1>1, NewJobExplains DEF Enqueue, LedgerExplainsJob, TypeOK
<1>2. ASSUME NEW w \in Workers, NEW batch \in SUBSET Jobs, Claim(w, batch)
      PROVE  LedgerExplainsJob'
  <2> SUFFICES ASSUME NEW j \in Jobs PROVE Explains(attempts'[j], jobs'[j])
    BY DEF LedgerExplainsJob
  <2>1. CASE j \in batch
    BY <1>0, <1>2, <2>1, ClaimExplains DEF Claim
  <2>2. CASE j \notin batch
    BY <1>0, <1>2, <2>2, SweepExplains DEF Claim
  <2> QED BY <2>1, <2>2
<1>3. ASSUME NEW w \in Workers, NEW j \in Jobs, Heartbeat(w, j)
      PROVE  LedgerExplainsJob'
  <2>1. LET job == [jobs[j] EXCEPT !.lease = LeaseTicks] IN
          job.state = jobs[j].state /\ job.attempt = jobs[j].attempt /\ job.owner = jobs[j].owner
    BY AttemptRange DEF Job
  <2>2. jobs[j].state = "leased" /\ attempts[j][jobs[j].attempt].outcome = "open"
    BY <1>0, <1>3 DEF Heartbeat, Holds, Explains
  <2>3. Explains(attempts[j], [jobs[j] EXCEPT !.lease = LeaseTicks])
    BY <1>0, <2>1, <2>2 DEF Explains
  <2> QED BY <1>0, <1>3, <2>3 DEF Heartbeat, LedgerExplainsJob, TypeOK
<1>4. ASSUME NEW w \in Workers, NEW j \in Jobs, Complete(w, j)
      PROVE  LedgerExplainsJob'
  <2>1. Explains(CloseAttempt(j, "succeeded"), Released(jobs[j], "succeeded"))
    BY <1>0, <1>4, SettlingExplains, ReleasedFields, AttemptRange DEF Complete, Holds, Closed
  <2> QED BY <1>0, <1>4, <2>1 DEF Complete, LedgerExplainsJob, TypeOK
<1>5. ASSUME NEW w \in Workers, NEW j \in Jobs, NEW retryable \in BOOLEAN,
             NEW delay \in Delays, Fail(w, j, retryable, delay)
      PROVE  LedgerExplainsJob'
  <2>1. jobs[j].state = "leased" /\ jobs[j].lease > 0 /\ jobs[j] \in Job
    BY <1>5, AttemptRange DEF Fail, Holds
  <2>2. Explains(CloseAttempt(j, "dead_letter"), Released(jobs[j], "dead_letter"))
    BY <1>0, <2>1, SettlingExplains, ReleasedFields DEF Closed
  <2>3. LET job == [Released(jobs[j], "retry_wait") EXCEPT !.wait = delay] IN
        job.state = "retry_wait" /\ job.attempt = jobs[j].attempt /\ job.lease = 0
    BY <2>1 DEF Released, Job
  <2>4. Explains(CloseAttempt(j, "retry"), [Released(jobs[j], "retry_wait") EXCEPT !.wait = delay])
    BY <1>0, <2>1, <2>3, SettlingExplains DEF Closed
  <2> QED BY <1>0, <1>5, <2>2, <2>4 DEF Fail, LedgerExplainsJob, TypeOK
<1>6. ASSUME NEW j \in Jobs, Cancel(j)
      PROVE  LedgerExplainsJob'
  <2>1. Explains(CloseAttempt(j, "cancelled"), Released(jobs[j], "cancelled"))
    <3>1. jobs[j].state \in {"queued", "leased", "retry_wait"}
      BY <1>6, AttemptRange DEF Cancel, Exists, Job, JobStates
    <3>2. jobs[j].attempt > 0 =>
            CloseAttempt(j, "cancelled")[jobs[j].attempt].outcome
              \in {"cancelled", "retry", "lease_expired"}
      BY <1>0, <3>1, CloseAttemptRows, AttemptRange DEF Explains, Closed
    <3>3. \A n \in AttemptNumbers :
            /\ n > jobs[j].attempt <=> CloseAttempt(j, "cancelled")[n].outcome = "none"
            /\ n < jobs[j].attempt =>
                 CloseAttempt(j, "cancelled")[n].outcome \in {"retry", "lease_expired"}
      BY <1>0, CloseAttemptRows, AttemptRange DEF Explains, Closed, AttemptNumbers
    <3> QED BY <3>2, <3>3, ReleasedFields, AttemptRange DEF Explains
  <2> QED BY <1>0, <1>6, <2>1 DEF Cancel, LedgerExplainsJob, TypeOK
<1>7. ASSUME NEW j \in Jobs, NEW copy \in Jobs, NEW k \in Keys, Replay(j, copy, k)
      PROVE  LedgerExplainsJob'
  BY <1>0, <1>7, NewJobExplains DEF Replay, LedgerExplainsJob, TypeOK
<1>8. CASE Tick
  <2> SUFFICES ASSUME NEW j \in Jobs PROVE Explains(attempts'[j], jobs'[j])
    BY DEF LedgerExplainsJob
  <2> DEFINE job == [jobs[j] EXCEPT !.lease = Elapsed(@), !.wait = Elapsed(@)]
  <2>1. /\ job.state = jobs[j].state /\ job.attempt = jobs[j].attempt
        /\ job.owner = jobs[j].owner /\ job.lease = Elapsed(jobs[j].lease)
    BY AttemptRange DEF Job
  <2>2. job.lease > 0 => jobs[j].lease > 0
    BY <2>1, AttemptRange DEF Elapsed
  <2>3. Explains(attempts[j], jobs[j])
    BY <1>0
  <2>4. jobs'[j] = job /\ attempts'[j] = attempts[j]
    BY <1>8 DEF Tick
  <2> HIDE DEF job
  <2> QED BY <2>1, <2>2, <2>3, <2>4 DEF Explains
<1>9. CASE UNCHANGED vars
  BY <1>0, <1>9 DEF vars, LedgerExplainsJob
<1> QED BY <1>1, <1>2, <1>3, <1>4, <1>5, <1>6, <1>7, <1>8, <1>9 DEF Next

\* A step that inserts no row keeps the lineage as long as it keeps the rows'
\* keys and links and brings no given-up job back.
LEMMA LineageKept ==
  ASSUME TypeOK, ReplayIsOfGivenUpJob,
         \A o \in Jobs :
           /\ jobs[o].state \in {"dead_letter", "cancelled"} => jobs'[o].state = jobs[o].state
           /\ jobs'[o].key = jobs[o].key
           /\ jobs'[o].replayOf = jobs[o].replayOf
  PROVE  ReplayIsOfGivenUpJob'
BY AttemptRange DEF ReplayIsOfGivenUpJob, Job, Nullable

\* A step that inserts one row keeps it if the row is no replay, or the replay of
\* a given-up job.
LEMMA LineageExtended ==
  ASSUME TypeOK, ReplayIsOfGivenUpJob,
         NEW j \in Jobs, ~Exists(j), NEW k \in Keys, Free(k), NEW delay,
         NEW original \in Nullable(Jobs), original # None =>
           /\ jobs[original].state \in {"dead_letter", "cancelled"}
           /\ TypeOf[k] = TypeOf[jobs[original].key],
         jobs' = [jobs EXCEPT ![j] = NewJob(k, delay, original)]
  PROVE  ReplayIsOfGivenUpJob'
<1>1. NewJob(k, delay, original).replayOf = original /\ NewJob(k, delay, original).key = k
  BY DEF NewJob, NoJob
<1>2. \A o \in Jobs : jobs'[o] = IF o = j THEN NewJob(k, delay, original) ELSE jobs[o]
  BY DEF TypeOK
<1>3. \A o \in Jobs : jobs[o].replayOf # None => jobs[o].replayOf \in Jobs
  BY AttemptRange DEF Job, Nullable
<1>4. original # None => original \in Jobs /\ original # j /\ jobs[original].key # k
  BY DEF Nullable, Free, Exists
<1> QED BY <1>1, <1>2, <1>3, <1>4 DEF ReplayIsOfGivenUpJob, Exists

LEMMA ReplayInductive ==
  TypeOK /\ ReplayIsOfGivenUpJob /\ [Next]_vars => ReplayIsOfGivenUpJob'
<1> SUFFICES ASSUME TypeOK, ReplayIsOfGivenUpJob, [Next]_vars
             PROVE  ReplayIsOfGivenUpJob'
  OBVIOUS
<1>1. ASSUME NEW j \in Jobs, NEW k \in Keys, NEW delay \in Delays, Enqueue(j, k, delay)
      PROVE  ReplayIsOfGivenUpJob'
  BY <1>1, LineageExtended, Members DEF Enqueue
<1>2. ASSUME NEW w \in Workers, NEW batch \in SUBSET Jobs, Claim(w, batch)
      PROVE  ReplayIsOfGivenUpJob'
  BY <1>2, LineageKept, AttemptRange DEF Claim, Claimable, Expired, LeasedJob, SweptJob, Released, Job
<1>3. ASSUME NEW w \in Workers, NEW j \in Jobs, Heartbeat(w, j)
      PROVE  ReplayIsOfGivenUpJob'
  BY <1>3, LineageKept, AttemptRange DEF Heartbeat, TypeOK, Job
<1>4. ASSUME NEW w \in Workers, NEW j \in Jobs, Complete(w, j)
      PROVE  ReplayIsOfGivenUpJob'
  BY <1>4, LineageKept, AttemptRange, ReleasedFields DEF Complete, Holds, TypeOK
<1>5. ASSUME NEW w \in Workers, NEW j \in Jobs, NEW retryable \in BOOLEAN,
             NEW delay \in Delays, Fail(w, j, retryable, delay)
      PROVE  ReplayIsOfGivenUpJob'
  <2>1. LET job == [Released(jobs[j], "retry_wait") EXCEPT !.wait = delay] IN
        job.key = jobs[j].key /\ job.replayOf = jobs[j].replayOf
    BY AttemptRange DEF Released, Job
  <2>2. jobs[j].state = "leased"
    BY <1>5 DEF Fail, Holds
  <2> QED BY <1>5, <2>1, <2>2, LineageKept, AttemptRange, ReleasedFields DEF Fail, TypeOK
<1>6. ASSUME NEW j \in Jobs, Cancel(j)
      PROVE  ReplayIsOfGivenUpJob'
  BY <1>6, LineageKept, AttemptRange, ReleasedFields DEF Cancel, Settled, TypeOK
<1>7. ASSUME NEW j \in Jobs, NEW copy \in Jobs, NEW k \in Keys, Replay(j, copy, k)
      PROVE  ReplayIsOfGivenUpJob'
  BY <1>7, LineageExtended, Members DEF Replay
<1>8. CASE Tick
  BY <1>8, LineageKept, AttemptRange DEF Tick, Job
<1>9. CASE UNCHANGED vars
  BY <1>9, LineageKept DEF vars
<1> QED BY <1>1, <1>2, <1>3, <1>4, <1>5, <1>6, <1>7, <1>8, <1>9 DEF Next

LEMMA InitIInv == Init => LedgerExplainsJob /\ ReplayIsOfGivenUpJob
<1> SUFFICES ASSUME Init PROVE LedgerExplainsJob /\ ReplayIsOfGivenUpJob
  OBVIOUS
<1>1. LedgerExplainsJob
  BY DEF Init, LedgerExplainsJob, Explains, NoJob, NoAttempt, AttemptNumbers
<1>2. ReplayIsOfGivenUpJob
  BY DEF Init, ReplayIsOfGivenUpJob, NoJob
<1> QED BY <1>1, <1>2

\* The attempt history explains the state of every job, for every schedule of
\* claims, heartbeats, settlements, cancellations, replays and lease expiries.
THEOREM LedgerAlwaysExplains == Spec => []LedgerExplainsJob
<1>1. TypeOK /\ LedgerExplainsJob /\ [Next]_vars => LedgerExplainsJob'
  BY LedgerInductive
<1> QED BY <1>1, InitIInv, TypeCorrect, PTL DEF Spec

\* Every replay copies a job that was given up for good.
THEOREM ReplaysAreOfGivenUpJobs == Spec => []ReplayIsOfGivenUpJob
<1>1. TypeOK /\ ReplayIsOfGivenUpJob /\ [Next]_vars => ReplayIsOfGivenUpJob'
  BY ReplayInductive
<1> QED BY <1>1, InitIInv, TypeCorrect, PTL DEF Spec

-----------------------------------------------------------------------------
\* A closed attempt row is final: claims write the next row, and the sweep and
\* the settlements close only open ones.
THEOREM ClosedAttemptsAreFinal == Spec => HistoryKept
<1> DEFINE Kept == \A j \in Jobs, n \in AttemptNumbers :
                     attempts[j][n].outcome \in Closed => attempts'[j][n] = attempts[j][n]
<1>1. TypeOK /\ LedgerExplainsJob /\ [Next]_vars => Kept
  <2> SUFFICES ASSUME TypeOK, LedgerExplainsJob, [Next]_vars PROVE Kept
    OBVIOUS
  <2>1. "open" \notin Closed /\ "none" \notin Closed
    BY DEF Closed
  <2>2. ASSUME NEW j \in Jobs, NEW outcome
        PROVE  \A n \in AttemptNumbers : attempts[j][n].outcome \in Closed =>
                 CloseAttempt(j, outcome)[n] = attempts[j][n]
    BY <2>1 DEF CloseAttempt
  <2>3. ASSUME NEW w \in Workers, NEW batch \in SUBSET Jobs, Claim(w, batch)
        PROVE  Kept
    <3> SUFFICES ASSUME NEW j \in Jobs, NEW n \in AttemptNumbers,
                        attempts[j][n].outcome \in Closed
                 PROVE  attempts'[j][n] = attempts[j][n]
      OBVIOUS
    <3>1. SweptAttempts(j)[n] = attempts[j][n]
      BY <2>2 DEF SweptAttempts
    <3>2. n # jobs[j].attempt + 1
      BY <2>1, AttemptRange DEF LedgerExplainsJob, Explains, AttemptNumbers
    <3>3. SweptAttempts(j) \in [AttemptNumbers -> Attempt]
      BY SweptType
    <3>4. attempts'[j] = SweptAttempts(j) \/
          attempts'[j] = [SweptAttempts(j) EXCEPT ![jobs[j].attempt + 1] =
                            [worker |-> w, outcome |-> "open"]]
      BY <2>3 DEF Claim
    <3> QED BY <3>1, <3>2, <3>3, <3>4
  <2>4. ASSUME NEW j \in Jobs, NEW outcome,
               attempts' = [attempts EXCEPT ![j] = CloseAttempt(j, outcome)]
        PROVE  Kept
    BY <2>2, <2>4 DEF TypeOK
  <2>5. ASSUME UNCHANGED attempts PROVE Kept
    BY <2>5
  <2> HIDE DEF Kept
  <2> QED
    BY <2>3, <2>4, <2>5
    DEF Next, vars, Enqueue, Heartbeat, Complete, Fail, Cancel, Replay, Tick
<1> QED BY <1>1, TypeCorrect, LedgerAlwaysExplains, PTL DEF Spec, HistoryKept

LEMMA SettledStep ==
  TypeOK /\ LedgerExplainsJob /\ [Next]_vars =>
    \A j \in Jobs : jobs[j].state \in Settled =>
      /\ jobs'[j] = [jobs[j] EXCEPT !.wait = jobs'[j].wait]
      /\ attempts'[j] = attempts[j]
<1> SUFFICES ASSUME TypeOK, LedgerExplainsJob, [Next]_vars, NEW j \in Jobs, jobs[j].state \in Settled
             PROVE  /\ jobs'[j] = [jobs[j] EXCEPT !.wait = jobs'[j].wait]
                    /\ attempts'[j] = attempts[j]
  OBVIOUS
<1>1. jobs[j] = [jobs[j] EXCEPT !.wait = jobs[j].wait]
  BY AttemptRange DEF Job
<1>2. jobs[j].state \notin {"absent", "queued", "leased", "retry_wait"}
  BY DEF Settled
<1>3. ASSUME NEW w \in Workers, NEW batch \in SUBSET Jobs, Claim(w, batch)
      PROVE  jobs'[j] = jobs[j] /\ attempts'[j] = attempts[j]
  <2>1. j \notin batch
    BY <1>2, <1>3 DEF Claim, Claimable, Expired
  <2> QED BY <1>2, <1>3, <2>1 DEF Claim, SweptJob, SweptAttempts, Expired
<1>4. ASSUME Tick
      PROVE  /\ jobs'[j] = [jobs[j] EXCEPT !.wait = jobs'[j].wait]
             /\ attempts'[j] = attempts[j]
  <2>1. jobs[j].lease = 0
    BY <1>2, AttemptRange DEF LedgerExplainsJob, Explains
  <2> QED BY <1>4, <2>1, AttemptRange DEF Tick, Elapsed, Job
<1>5. CASE UNCHANGED <<jobs[j], attempts[j]>>
  BY <1>1, <1>5
<1>6. ASSUME NEW i \in Jobs, NEW k \in Keys, NEW delay \in Delays, Enqueue(i, k, delay)
      PROVE  UNCHANGED <<jobs[j], attempts[j]>>
  BY <1>2, <1>6 DEF Enqueue, Exists, TypeOK
<1>7. ASSUME NEW i \in Jobs, NEW w \in Workers, NEW retryable \in BOOLEAN, NEW delay \in Delays,
             Fail(w, i, retryable, delay)
      PROVE  UNCHANGED <<jobs[j], attempts[j]>>
  BY <1>2, <1>7 DEF Fail, Holds, TypeOK
<1>8. ASSUME NEW i \in Jobs, NEW copy \in Jobs, NEW k \in Keys, Replay(i, copy, k)
      PROVE  UNCHANGED <<jobs[j], attempts[j]>>
  BY <1>2, <1>8 DEF Replay, Exists, TypeOK
<1>9. ASSUME NEW i \in Jobs, Cancel(i)
      PROVE  UNCHANGED <<jobs[j], attempts[j]>>
  BY <1>2, <1>9 DEF Cancel, TypeOK
<1>10. CASE UNCHANGED vars
  BY <1>5, <1>10 DEF vars
<1>11. ASSUME NEW i \in Jobs, NEW w \in Workers, Heartbeat(w, i) \/ Complete(w, i)
       PROVE  UNCHANGED <<jobs[j], attempts[j]>>
  BY <1>2, <1>11 DEF Heartbeat, Complete, Holds, TypeOK
<1>12. CASE \/ \E i \in Jobs, k \in Keys, delay \in Delays : Enqueue(i, k, delay)
            \/ \E w \in Workers, i \in Jobs : Heartbeat(w, i) \/ Complete(w, i)
            \/ \E w \in Workers, i \in Jobs, retryable \in BOOLEAN, delay \in Delays :
                 Fail(w, i, retryable, delay)
            \/ \E i \in Jobs : Cancel(i)
            \/ \E i, copy \in Jobs, k \in Keys : Replay(i, copy, k)
  BY <1>5, <1>6, <1>7, <1>8, <1>9, <1>11, <1>12
<1> QED
  BY <1>3, <1>4, <1>5, <1>10, <1>12 DEF Next

\* No request, however late, disturbs a job that was settled.
THEOREM SettledJobsStaySettled == Spec => SettledForever
BY SettledStep, TypeCorrect, LedgerAlwaysExplains, PTL DEF Spec, SettledForever

\* A live lease keeps its owner and its attempt until it is given back or lost.
THEOREM LeasesAreNotStolen == Spec => NoStolenLease
<1> DEFINE Kept == \A j \in Jobs :
                     jobs[j].lease > 0 /\ jobs'[j].state = "leased" =>
                       /\ jobs'[j].owner = jobs[j].owner
                       /\ jobs'[j].attempt = jobs[j].attempt
<1>1. TypeOK /\ LedgerExplainsJob /\ [Next]_vars => Kept
  <2> SUFFICES ASSUME TypeOK, LedgerExplainsJob, [Next]_vars,
                      NEW j \in Jobs, jobs[j].lease > 0, jobs'[j].state = "leased"
               PROVE  jobs'[j].owner = jobs[j].owner /\ jobs'[j].attempt = jobs[j].attempt
    OBVIOUS
  <2>1. jobs[j].state = "leased" /\ jobs[j] \in Job /\ jobs[j].lease # 0
    BY AttemptRange DEF LedgerExplainsJob, Explains
  <2>2. ASSUME NEW w \in Workers, NEW batch \in SUBSET Jobs, Claim(w, batch)
        PROVE  jobs'[j] = jobs[j]
    BY <2>1, <2>2 DEF Claim, Claimable, Expired, SweptJob
  <2>3. ASSUME NEW i \in Jobs, NEW w \in Workers, Heartbeat(w, i)
        PROVE  jobs'[j].owner = jobs[j].owner /\ jobs'[j].attempt = jobs[j].attempt
    BY <2>1, <2>3 DEF Heartbeat, TypeOK, Job
  <2>4. CASE Tick
    BY <2>1, <2>4 DEF Tick, Job
  <2>5. ASSUME NEW i \in Jobs, NEW w \in Workers, Complete(w, i)
        PROVE  jobs'[j] = jobs[j]
    <3>1. Released(jobs[i], "succeeded").state = "succeeded"
      BY AttemptRange, ReleasedFields
    <3> QED BY <2>5, <3>1 DEF Complete, TypeOK
  <2>6. ASSUME NEW i \in Jobs, NEW w \in Workers, NEW retryable \in BOOLEAN, NEW delay \in Delays,
               Fail(w, i, retryable, delay)
        PROVE  jobs'[j] = jobs[j]
    <3>1. Released(jobs[i], "dead_letter").state = "dead_letter"
          /\ [Released(jobs[i], "retry_wait") EXCEPT !.wait = delay].state = "retry_wait"
      BY AttemptRange DEF Released, Job
    <3> QED BY <2>6, <3>1 DEF Fail, TypeOK
  <2>7. ASSUME NEW i \in Jobs, ~Exists(i), NEW row, jobs' = [jobs EXCEPT ![i] = row]
        PROVE  jobs'[j] = jobs[j]
    BY <2>1, <2>7 DEF Exists, TypeOK
  <2>8. ASSUME NEW i \in Jobs, NEW k \in Keys, NEW delay \in Delays, Enqueue(i, k, delay)
        PROVE  jobs'[j] = jobs[j]
    BY <2>7, <2>8 DEF Enqueue
  <2>9. ASSUME NEW i \in Jobs, NEW copy \in Jobs, NEW k \in Keys, Replay(i, copy, k)
        PROVE  jobs'[j] = jobs[j]
    BY <2>7, <2>9 DEF Replay
  <2>10. ASSUME NEW i \in Jobs, Cancel(i)
         PROVE  jobs'[j] = jobs[j]
    <3>1. \A s : Released(jobs[i], s).state = s
      BY AttemptRange, ReleasedFields
    <3> QED BY <2>10, <3>1 DEF Cancel, TypeOK
  <2>11. CASE UNCHANGED vars
    BY <2>11 DEF vars
  <2> QED
    BY <2>2, <2>3, <2>4, <2>5, <2>6, <2>8, <2>9, <2>10, <2>11 DEF Next
<1> QED BY <1>1, TypeCorrect, LedgerAlwaysExplains, PTL DEF Spec, NoStolenLease

\* Neither a lease nor an outcome is ever taken from a job, whatever requests arrive.
THEOREM JobsAreNeverTaken == Spec => JobsAreKept
BY SettledJobsStaySettled, LeasesAreNotStolen DEF JobsAreKept

\* Rows, attempts and replays tell one story, for any number of jobs and workers.
THEOREM QueueIsSound == Spec => []QueueInvariant
BY TypeCorrect, LedgerAlwaysExplains, ReplaysAreOfGivenUpJobs, PTL DEF QueueInvariant

-----------------------------------------------------------------------------
\* What a row that its attempts explain is for the life cycle.
LEMMA AbstractOf ==
  ASSUME NEW row \in Job, NEW rows, Explains(rows, row)
  PROVE  /\ row.state = "absent" => Abstract(row) = Lifecycle!Unborn
         /\ row.state \in Settled => Abstract(row) = Lifecycle!Over(row.attempt)
         /\ row.lease > 0 =>
              row.state = "leased" /\ Abstract(row) = Lifecycle!Held(row.owner, row.attempt)
         /\ row.state \in {"queued", "leased", "retry_wait"} /\ row.lease = 0 =>
              Abstract(row) = Lifecycle!Waiting(row.attempt)
<1>1. row.lease \in Nat
  BY ConstantsAssumption DEF Job, Leases
<1>2. row.state = "absent" => row.attempt = 0
  BY DEF Explains
<1>3. row.lease > 0 => row.state = "leased"
  BY DEF Explains
<1>4. ~(row.lease > 0) <=> row.lease = 0
  BY <1>1
<1> QED
  BY <1>2, <1>3, <1>4
  DEF Abstract, Settled, Lifecycle!Unborn, Lifecycle!Over, Lifecycle!Held, Lifecycle!Waiting

\* What may follow each of them.
LEMMA SuccessorsOf ==
  ASSUME TypeOK, LedgerExplainsJob, NEW j \in Jobs
  PROVE  /\ jobs[j].state = "absent" => Lifecycle!Waiting(0) \in Lifecycle!Successors(j)
         /\ jobs[j].state \in {"queued", "leased", "retry_wait"} =>
              Lifecycle!Over(jobs[j].attempt) \in Lifecycle!Successors(j)
         /\ jobs[j].lease > 0 =>
              Lifecycle!Waiting(jobs[j].attempt) \in Lifecycle!Successors(j)
         /\ jobs[j].state \in {"queued", "leased", "retry_wait"} /\ jobs[j].lease = 0
              /\ jobs[j].attempt < MaxAttempts =>
              \A w \in Workers :
                Lifecycle!Held(w, jobs[j].attempt + 1) \in Lifecycle!Successors(j)
<1>1. jobs[j] \in Job /\ Explains(attempts[j], jobs[j]) /\ jobs[j].lease \in Nat
  BY AttemptRange DEF LedgerExplainsJob
<1> DEFINE job == [i \in Jobs |-> Abstract(jobs[i])]
<1>2. job[j] = Abstract(jobs[j])
  OBVIOUS
<1>3. job[j].attempt = jobs[j].attempt
  BY DEF Abstract
<1>4. /\ jobs[j].state = "absent" => job[j].phase = "absent"
      /\ jobs[j].lease > 0 => job[j].phase = "held"
      /\ jobs[j].state \in {"queued", "leased", "retry_wait"} /\ jobs[j].lease = 0 =>
           job[j].phase = "waiting"
  BY <1>1, <1>2, AbstractOf DEF Lifecycle!Unborn, Lifecycle!Held, Lifecycle!Waiting
<1>5. jobs[j].lease > 0 \/ jobs[j].lease = 0
  BY <1>1
<1> HIDE DEF job
<1> QED BY <1>3, <1>4, <1>5 DEF Lifecycle!Successors, job

\* Every job store step moves each job along its life cycle, or not at all.
LEMMA StepOfLifecycle ==
  TypeOK /\ LedgerExplainsJob /\ TypeOK' /\ LedgerExplainsJob' /\ [Next]_vars =>
    Lifecycle!LifecycleNext
<1> SUFFICES ASSUME TypeOK, LedgerExplainsJob, TypeOK', LedgerExplainsJob', [Next]_vars,
                    NEW j \in Jobs
             PROVE  \/ Abstract(jobs'[j]) = Abstract(jobs[j])
                    \/ Abstract(jobs'[j]) \in Lifecycle!Successors(j)
  BY DEF Lifecycle!LifecycleNext
<1> DEFINE Moves == \/ Abstract(jobs'[j]) = Abstract(jobs[j])
                    \/ Abstract(jobs'[j]) \in Lifecycle!Successors(j)
<1>1. /\ jobs[j] \in Job /\ Explains(attempts[j], jobs[j])
      /\ jobs[j].lease \in Nat /\ jobs[j].attempt \in Int
  BY AttemptRange DEF LedgerExplainsJob
<1>2. jobs'[j] \in Job /\ Explains(attempts'[j], jobs'[j])
  BY DEF TypeOK, LedgerExplainsJob
<1>3. ASSUME jobs'[j] = jobs[j] PROVE Moves
  BY <1>3
<1>4. ASSUME ~Exists(j), jobs'[j].state = "queued" PROVE Moves
  <2>1. jobs'[j].attempt = 0 /\ jobs'[j].lease = 0
    <3>1. jobs'[j].lease \in Nat
      BY <1>2, ConstantsAssumption DEF Job, Leases
    <3> QED BY <1>2, <1>4, <3>1 DEF Explains
  <2> QED BY <1>2, <1>4, <2>1, AbstractOf, SuccessorsOf DEF Exists
<1>5. ASSUME jobs[j].state \in {"queued", "leased", "retry_wait"},
             jobs'[j].state \in Settled, jobs'[j].attempt = jobs[j].attempt
      PROVE  Moves
  BY <1>2, <1>5, AbstractOf, SuccessorsOf
<1>6. ASSUME NEW w \in Workers, NEW batch \in SUBSET Jobs, Claim(w, batch) PROVE Moves
  <2>1. CASE j \in batch
    <3>1. /\ jobs[j].state \in {"queued", "leased", "retry_wait"} /\ jobs[j].lease = 0
          /\ jobs[j].attempt < MaxAttempts
      <4>1. Exists(j) /\ jobs[j].attempt < MaxAttempts
            /\ (jobs[j].state \in {"queued", "retry_wait"} \/ Expired(j))
        BY <1>6, <2>1 DEF Claim, Claimable
      <4> QED BY <1>1, <4>1 DEF Expired, Explains
    <3>2. /\ jobs'[j].owner = w /\ jobs'[j].lease = LeaseTicks
          /\ jobs'[j].attempt = jobs[j].attempt + 1
      BY <1>1, <1>6, <2>1 DEF Claim, LeasedJob, Job
    <3> QED BY <1>2, <3>1, <3>2, AbstractOf, SuccessorsOf, ConstantsAssumption
  <2>2. CASE j \notin batch /\ Expired(j) /\ jobs[j].attempt >= MaxAttempts
    <3>1. jobs'[j] = Released(jobs[j], "dead_letter")
      BY <1>6, <2>2 DEF Claim, SweptJob
    <3> QED BY <1>1, <1>5, <2>2, <3>1, ReleasedFields DEF Expired, Settled
  <2>3. CASE j \notin batch /\ ~(Expired(j) /\ jobs[j].attempt >= MaxAttempts)
    BY <1>3, <1>6, <2>3 DEF Claim, SweptJob
  <2> QED BY <2>1, <2>2, <2>3
<1>7. ASSUME NEW w \in Workers, NEW i \in Jobs, Heartbeat(w, i) PROVE Moves
  <2>1. CASE i = j
    <3>1. /\ jobs[j].lease > 0 /\ jobs'[j].lease > 0
          /\ jobs'[j].owner = jobs[j].owner /\ jobs'[j].attempt = jobs[j].attempt
      BY <1>1, <1>7, <2>1, ConstantsAssumption DEF Heartbeat, Holds, TypeOK, Job
    <3> QED BY <1>1, <1>2, <3>1, AbstractOf
  <2>2. CASE i # j
    BY <1>3, <1>7, <2>2 DEF Heartbeat, TypeOK
  <2> QED BY <2>1, <2>2
<1>8. ASSUME NEW w \in Workers, NEW i \in Jobs, Complete(w, i) PROVE Moves
  BY <1>1, <1>3, <1>5, <1>8, ReleasedFields DEF Complete, Holds, TypeOK, Settled
<1>9. ASSUME NEW w \in Workers, NEW i \in Jobs, NEW retryable \in BOOLEAN,
             NEW delay \in Delays, Fail(w, i, retryable, delay)
      PROVE  Moves
  <2>1. CASE i = j
    <3>1. jobs[j].state = "leased" /\ jobs[j].lease > 0
      BY <1>9, <2>1 DEF Fail, Holds
    <3>2. \/ jobs'[j] = [Released(jobs[j], "retry_wait") EXCEPT !.wait = delay]
          \/ jobs'[j] = Released(jobs[j], "dead_letter")
      BY <1>9, <2>1 DEF Fail, TypeOK
    <3>3. CASE jobs'[j] = Released(jobs[j], "dead_letter")
      BY <1>1, <1>5, <3>1, <3>3, ReleasedFields DEF Settled
    <3>4. CASE jobs'[j] = [Released(jobs[j], "retry_wait") EXCEPT !.wait = delay]
      <4>1. /\ jobs'[j].state = "retry_wait" /\ jobs'[j].lease = 0
            /\ jobs'[j].attempt = jobs[j].attempt
        BY <1>1, <3>4 DEF Released, Job
      <4> QED BY <1>2, <3>1, <4>1, AbstractOf, SuccessorsOf
    <3> QED BY <3>2, <3>3, <3>4
  <2>2. CASE i # j
    BY <1>3, <1>9, <2>2 DEF Fail, TypeOK
  <2> QED BY <2>1, <2>2
<1>10. ASSUME NEW i \in Jobs, Cancel(i) PROVE Moves
  <2>1. CASE i = j
    <3>1. jobs[j].state \in {"queued", "leased", "retry_wait"}
      BY <1>1, <1>10, <2>1 DEF Cancel, Exists, Job, JobStates
    <3> QED BY <1>1, <1>5, <1>10, <2>1, <3>1, ReleasedFields DEF Cancel, TypeOK, Settled
  <2>2. CASE i # j
    BY <1>3, <1>10, <2>2 DEF Cancel, TypeOK
  <2> QED BY <2>1, <2>2
<1>11. ASSUME NEW i \in Jobs, ~Exists(i), NEW k, NEW delay, NEW original,
              jobs' = [jobs EXCEPT ![i] = NewJob(k, delay, original)]
       PROVE  Moves
  BY <1>3, <1>4, <1>11 DEF NewJob, NoJob, TypeOK
<1>12. CASE Tick
  <2>1. /\ jobs'[j].state = jobs[j].state /\ jobs'[j].owner = jobs[j].owner
        /\ jobs'[j].attempt = jobs[j].attempt
        /\ jobs'[j].lease = Elapsed(jobs[j].lease)
    BY <1>1, <1>12 DEF Tick, Job
  <2>2. CASE jobs[j].lease = 0
    BY <2>1, <2>2 DEF Elapsed, Abstract
  <2>3. CASE jobs[j].lease = 1
    <3>1. jobs'[j].lease = 0 /\ jobs[j].lease > 0 /\ jobs[j].state = "leased"
      BY <1>1, <2>1, <2>3 DEF Elapsed, Explains
    <3> QED BY <1>2, <2>1, <3>1, AbstractOf, SuccessorsOf
  <2>4. CASE jobs[j].lease > 1
    <3>1. jobs'[j].lease > 0 /\ jobs[j].lease > 0
      BY <1>1, <2>1, <2>4 DEF Elapsed
    <3> QED BY <1>1, <1>2, <2>1, <3>1, AbstractOf
  <2> QED BY <1>1, <2>2, <2>3, <2>4
<1>13. CASE UNCHANGED vars
  BY <1>3, <1>13 DEF vars
<1>14. ASSUME NEW i \in Jobs, NEW k \in Keys, NEW delay \in Delays, Enqueue(i, k, delay)
       PROVE  Moves
  BY <1>11, <1>14 DEF Enqueue
<1>15. ASSUME NEW i \in Jobs, NEW copy \in Jobs, NEW k \in Keys, Replay(i, copy, k)
       PROVE  Moves
  BY <1>11, <1>15 DEF Replay
<1> QED BY <1>6, <1>7, <1>8, <1>9, <1>10, <1>12, <1>13, <1>14, <1>15 DEF Next

\* No interleaving of requests takes a job outside its life cycle: held by one
\* worker at a time, at most MaxAttempts times, and never again once settled.
THEOREM QueueImplementsLifecycle == Spec => ImplementsLifecycle
<1>1. Init => Lifecycle!LifecycleInit
  <2> SUFFICES ASSUME Init PROVE Lifecycle!LifecycleInit
    OBVIOUS
  <2>1. \A j \in Jobs : Abstract(jobs[j]) = Lifecycle!Unborn
    <3>1. ~(0 > 0)
      OBVIOUS
    <3>2. \A j \in Jobs : jobs[j] = NoJob
      BY DEF Init
    <3>3. Abstract(NoJob) = Lifecycle!Unborn
      BY <3>1 DEF Abstract, NoJob, Settled, Lifecycle!Unborn
    <3> QED BY <3>2, <3>3
  <2> QED BY <2>1 DEF Lifecycle!LifecycleInit
<1>2. /\ TypeOK /\ LedgerExplainsJob /\ TypeOK' /\ LedgerExplainsJob' /\ [Next]_vars
      => [Lifecycle!LifecycleNext]_([j \in Jobs |-> Abstract(jobs[j])])
  BY StepOfLifecycle
<1> QED
  BY <1>1, <1>2, TypeCorrect, LedgerAlwaysExplains, PTL
  DEF Spec, ImplementsLifecycle, Lifecycle!LifecycleSpec

-----------------------------------------------------------------------------
(* Any number of worker processes over the store.  An execution knows only *)
(* its worker and the lease of its last heartbeat; what keeps it alone is  *)
(* that its worker claims nothing else meanwhile, so a lease of that       *)
(* worker is this execution's own.                                         *)

\* What an awaited execution of w can rely on: its attempt is w's latest of the
\* job, and while its known lease runs the attempt was not lost to expiry; it was
\* given back, if at all, by a request that outlived its execution.
Backed(w, e) ==
  LET row == attempts[e.job][e.attempt] IN
  /\ row.worker = w /\ row.outcome # "none"
  /\ \A n \in AttemptNumbers : n > e.attempt =>
       attempts[e.job][n].outcome = "none" \/ attempts[e.job][n].worker # w
  /\ e.phase = "running" /\ e.held > 0 =>
       /\ row.outcome # "lease_expired"
       /\ row.outcome = "open" => jobs[e.job].lease >= e.held
       /\ ~LateRequests => row.outcome \in {"open", "cancelled"}

OnePerJob(w) == \A e, f \in exec[w] : e.job = f.job => e = f

\* A request was sent by an execution: a success only after its handler returned,
\* and unless requests may be late, the execution still awaits the answer.
Sent(r) ==
  /\ r.op = "complete" => <<r.worker, r.job>> \in returned
  /\ ~LateRequests => \E e \in exec[r.worker] : e.job = r.job /\ e.phase # "running"

\* Unless requests may be late, an execution has one request on its way.
OneRequest ==
  ~LateRequests =>
    \A r, q \in net : r.worker = q.worker /\ r.job = q.job => r = q

RuntimeInv ==
  /\ \A w \in Workers : OnePerJob(w)
  /\ \A w \in Workers : \A e \in exec[w] : Backed(w, e)
  /\ \A r \in net : Sent(r)
  /\ OneRequest
  /\ SuccessIsReal

-----------------------------------------------------------------------------
LEMMA ExecutionForms ==
  ASSUME NEW e \in Execution
  PROVE  /\ e.job \in Jobs /\ e.attempt \in AttemptNumbers
         /\ e.left \in Nat /\ e.held \in Nat
         /\ \A p \in Phases :
              LET f == [e EXCEPT !.phase = p] IN
              /\ f \in Execution /\ f.phase = p
              /\ f.job = e.job /\ f.attempt = e.attempt /\ f.held = e.held
         /\ LET f == [e EXCEPT !.held = LeaseTicks] IN
              /\ f \in Execution /\ f.phase = e.phase
              /\ f.job = e.job /\ f.attempt = e.attempt /\ f.held = LeaseTicks
         /\ Aged(e) \in Execution /\ Aged(e).phase = e.phase
         /\ Aged(e).job = e.job /\ Aged(e).attempt = e.attempt
         /\ Aged(e).held = Elapsed(e.held)
<1>1. e.left \in 0 .. TimeoutTicks /\ e.held \in 0 .. LeaseTicks
  BY DEF Execution
<1>2. /\ LeaseTicks \in 0 .. LeaseTicks
      /\ Elapsed(e.left) \in 0 .. TimeoutTicks /\ Elapsed(e.held) \in 0 .. LeaseTicks
  BY <1>1, ConstantsAssumption, RuntimeAssumption DEF Elapsed
<1>3. \A p \in Phases :
        LET f == [e EXCEPT !.phase = p] IN
        /\ f \in Execution /\ f.phase = p
        /\ f.job = e.job /\ f.attempt = e.attempt /\ f.held = e.held
  BY DEF Execution
<1>4. LET f == [e EXCEPT !.held = LeaseTicks] IN
        /\ f \in Execution /\ f.phase = e.phase
        /\ f.job = e.job /\ f.attempt = e.attempt /\ f.held = LeaseTicks
  BY <1>2 DEF Execution
<1>5. /\ Aged(e) \in Execution /\ Aged(e).phase = e.phase
      /\ Aged(e).job = e.job /\ Aged(e).attempt = e.attempt
      /\ Aged(e).held = Elapsed(e.held)
  BY <1>2 DEF Execution, Aged
<1>6. e.left \in Nat /\ e.held \in Nat
  BY <1>1, ConstantsAssumption, RuntimeAssumption
<1>7. e.job \in Jobs /\ e.attempt \in AttemptNumbers
  BY DEF Execution
<1> QED BY <1>3, <1>4, <1>5, <1>6, <1>7

LEMMA InPhaseType ==
  ASSUME NEW e \in Execution, NEW p \in Phases
  PROVE  InPhase(e, p) \in SUBSET Execution
BY ExecutionForms DEF InPhase

LEMMA RequestForms ==
  ASSUME NEW w \in Workers, NEW e \in Execution, NEW retryable \in BOOLEAN
  PROVE  /\ CompleteRequest(w, e) \in Request
         /\ FailRequest(w, e, retryable, MaxDelay) \in Request
         /\ Interrupted(w, e) \in Request
<1>1. 0 \in Delays /\ MaxDelay \in Delays
  BY ConstantsAssumption DEF Delays
<1> QED
  BY <1>1, ExecutionForms DEF CompleteRequest, FailRequest, Interrupted, Request

\* Whatever a worker or the network does, the store sees one of its own requests.
LEMMA StoreStep ==
  RuntimeTypeOK /\ [RuntimeNext]_allVars => [Next]_vars
<1> SUFFICES ASSUME RuntimeTypeOK, [RuntimeNext]_allVars PROVE [Next]_vars
  OBVIOUS
<1>1. ASSUME NEW j \in Jobs, NEW k \in Keys, Enqueue(j, k, 0) PROVE [Next]_vars
  BY <1>1, Members DEF Next
<1>2. ASSUME NEW j \in Jobs, Cancel(j) PROVE [Next]_vars
  BY <1>2 DEF Next
<1>3. ASSUME NEW w \in Workers, NEW batch \in Batches, NEW answered \in BOOLEAN,
             Poll(w, batch, answered)
      PROVE  [Next]_vars
  BY <1>3 DEF Poll, Batches, Next
<1>4. ASSUME NEW w \in Workers, NEW e \in exec[w], Beat(w, e)
      PROVE  [Next]_vars
  <2>1. e.job \in Jobs
    BY ExecutionForms DEF RuntimeTypeOK
  <2> QED BY <1>4, <2>1 DEF Beat, Next, vars
<1>5. ASSUME NEW r \in net, NEW answered \in BOOLEAN, Deliver(r, answered)
      PROVE  [Next]_vars
  <2>1. r.worker \in Workers /\ r.job \in Jobs /\ r.retryable \in BOOLEAN /\ r.delay \in Delays
    BY DEF RuntimeTypeOK, Request
  <2> QED BY <1>5, <2>1 DEF Deliver, Next, vars
<1>6. CASE Pass
  <2>1. CASE \E j \in Jobs : jobs[j].lease > 0 \/ jobs[j].wait > 0
    BY <1>6, <2>1 DEF Pass, Tick, Next
  <2>2. CASE ~\E j \in Jobs : jobs[j].lease > 0 \/ jobs[j].wait > 0
    <3>1. \A j \in Jobs : jobs[j] \in Job /\ jobs[j].lease \in Nat /\ jobs[j].wait \in Nat
      BY ConstantsAssumption DEF RuntimeTypeOK, TypeOK, Job, Leases, Delays
    <3>2. \A j \in Jobs : jobs[j].lease = 0 /\ jobs[j].wait = 0
      BY <2>2, <3>1
    <3>3. \A j \in Jobs :
            [jobs[j] EXCEPT !.lease = Elapsed(@), !.wait = Elapsed(@)] = jobs[j]
      BY <3>1, <3>2 DEF Elapsed, Job
    <3>4. jobs' = jobs
      BY <1>6, <3>3 DEF Pass, RuntimeTypeOK, TypeOK
    <3> QED BY <1>6, <3>4 DEF Pass, vars
  <2> QED BY <2>1, <2>2
<1>7. ASSUME UNCHANGED <<jobs, attempts>> PROVE [Next]_vars
  BY <1>7 DEF vars
<1> QED
  BY <1>1, <1>2, <1>3, <1>4, <1>5, <1>6, <1>7
  DEF RuntimeNext, HandlerReturns, HandlerThrows, TimeOut, GiveUp, Crash, allVars

-----------------------------------------------------------------------------
\* What a rejected request leaves behind, and what an answered one.
LEMMA RejectedType ==
  ASSUME RuntimeTypeOK, NEW r \in net, NEW rest \in SUBSET net, Rejected(r, rest)
  PROVE  exec' \in [Workers -> SUBSET Execution] /\ net' \subseteq Request
<1>1. r \in Request /\ r.worker \in Workers
  BY DEF RuntimeTypeOK, Request
<1>2. Awaiting(r) \subseteq exec[r.worker] /\ exec[r.worker] \subseteq Execution
  BY <1>1 DEF Awaiting, RuntimeTypeOK
<1>3. \A e \in Awaiting(r) : InPhase(e, "failing") \in SUBSET Execution
  BY <1>2, InPhaseType DEF Phases
<1>4. {Interrupted(r.worker, e) : e \in Awaiting(r)} \subseteq Request
  BY <1>1, <1>2, RequestForms
<1>5. UNION {InPhase(e, "failing") : e \in Awaiting(r)} \subseteq Execution
  BY <1>3
<1>6. exec' \in [Workers -> SUBSET Execution]
  BY <1>1, <1>2, <1>5 DEF Rejected, RuntimeTypeOK
<1>7. net' \subseteq Request
  BY <1>4 DEF Rejected, RuntimeTypeOK
<1> QED BY <1>6, <1>7

LEMMA ReplaceType ==
  ASSUME RuntimeTypeOK, NEW w \in Workers, NEW e, NEW new \in SUBSET Execution
  PROVE  Replace(w, e, new) \in [Workers -> SUBSET Execution]
BY DEF Replace, RuntimeTypeOK

\* Executions, requests and the store stay well formed.
LEMMA RuntimeTypeInductive ==
  RuntimeTypeOK /\ [RuntimeNext]_allVars => RuntimeTypeOK'
<1> SUFFICES ASSUME RuntimeTypeOK, [RuntimeNext]_allVars PROVE RuntimeTypeOK'
  OBVIOUS
<1> DEFINE Typed == /\ exec' \in [Workers -> SUBSET Execution]
                    /\ net' \subseteq Request
                    /\ returned' \subseteq Workers \X Jobs
<1>1. TypeOK'
  BY StoreStep, TypeInductive DEF RuntimeTypeOK
<1>2. CASE UNCHANGED runtimeVars
  BY <1>1, <1>2 DEF runtimeVars, RuntimeTypeOK
<1>3. ASSUME NEW w \in Workers, NEW batch \in Batches, NEW answered \in BOOLEAN,
             Poll(w, batch, answered)
      PROVE  Typed
  <2>1. ASSUME NEW j \in batch
        PROVE  [job |-> j, attempt |-> jobs[j].attempt + 1, phase |-> "running",
                left |-> TimeoutTicks, held |-> LeaseTicks] \in Execution
    <3>1. j \in Jobs /\ jobs[j].attempt < MaxAttempts
      BY <1>3 DEF Poll, Claim, Claimable
    <3>2. jobs[j].attempt + 1 \in AttemptNumbers
      BY <3>1, AttemptRange, ConstantsAssumption DEF RuntimeTypeOK, AttemptNumbers
    <3>3. TimeoutTicks \in 0 .. TimeoutTicks /\ LeaseTicks \in 0 .. LeaseTicks
      BY ConstantsAssumption, RuntimeAssumption
    <3> QED BY <3>1, <3>2, <3>3 DEF Execution, Phases
  <2> QED BY <1>3, <2>1 DEF Poll, RuntimeTypeOK
<1>4. ASSUME NEW w \in Workers, NEW e \in exec[w]
      PROVE  /\ Beat(w, e) => Typed
             /\ HandlerReturns(w, e) => Typed
             /\ \A retryable \in BOOLEAN : HandlerThrows(w, e, retryable, MaxDelay) => Typed
  <2>1. e \in Execution
    BY DEF RuntimeTypeOK
  <2>2. /\ {[e EXCEPT !.held = LeaseTicks]} \in SUBSET Execution
        /\ \A p \in Phases : InPhase(e, p) \in SUBSET Execution
    BY <2>1, ExecutionForms, InPhaseType
  <2>3. /\ Replace(w, e, {[e EXCEPT !.held = LeaseTicks]}) \in [Workers -> SUBSET Execution]
        /\ \A p \in Phases : Replace(w, e, InPhase(e, p)) \in [Workers -> SUBSET Execution]
    BY <2>2, ReplaceType
  <2>4. /\ CompleteRequest(w, e) \in Request /\ Interrupted(w, e) \in Request
        /\ \A retryable \in BOOLEAN : FailRequest(w, e, retryable, MaxDelay) \in Request
    BY <2>1, RequestForms
  <2>5. "failing" \in Phases /\ "completing" \in Phases /\ e.job \in Jobs
    BY <2>1, ExecutionForms DEF Phases
  <2>6. Beat(w, e) => Typed
    BY <2>3, <2>4, <2>5 DEF Beat, RuntimeTypeOK
  <2>7. HandlerReturns(w, e) => Typed
    BY <2>3, <2>4, <2>5 DEF HandlerReturns, RuntimeTypeOK
  <2>8. \A retryable \in BOOLEAN : HandlerThrows(w, e, retryable, MaxDelay) => Typed
    BY <2>3, <2>4, <2>5 DEF HandlerThrows, RuntimeTypeOK
  <2> QED BY <2>6, <2>7, <2>8
<1>5. ASSUME NEW r \in net, NEW flag \in BOOLEAN, Deliver(r, flag) PROVE Typed
  <2>1. CASE Rejected(r, net \ {r})
    BY <1>5, <2>1, RejectedType DEF Deliver, RuntimeTypeOK
  <2>2. CASE exec' = [exec EXCEPT ![r.worker] = @ \ Awaiting(r)] /\ net' = net \ {r}
    BY <1>5, <2>2 DEF Deliver, RuntimeTypeOK
  <2> QED BY <1>5, <2>1, <2>2 DEF Deliver
<1>6. ASSUME NEW r \in net, NEW flag \in BOOLEAN, GiveUp(r, flag) PROVE Typed
  <2>1. Rejected(r, IF flag THEN net ELSE net \ {r})
    BY <1>6 DEF GiveUp
  <2>2. (IF flag THEN net ELSE net \ {r}) \in SUBSET net
    OBVIOUS
  <2> QED BY <1>6, <2>1, <2>2, RejectedType DEF GiveUp, RuntimeTypeOK
<1>7. ASSUME NEW w \in Workers, NEW late \in BOOLEAN, Crash(w, late) PROVE Typed
  BY <1>7 DEF Crash, RuntimeTypeOK
<1>8. ASSUME Pass PROVE Typed
  <2>1. \A w \in Workers : \A e \in exec[w] : Aged(e) \in Execution
    BY ExecutionForms DEF RuntimeTypeOK
  <2> QED BY <1>8, <2>1 DEF Pass, RuntimeTypeOK
<1>9. Typed
  BY <1>2, <1>3, <1>4, <1>5, <1>6, <1>7, <1>8
  DEF RuntimeNext, TimeOut, allVars, runtimeVars, RuntimeTypeOK
<1> QED BY <1>1, <1>9 DEF RuntimeTypeOK

-----------------------------------------------------------------------------
\* An execution's attempt is the current one exactly while it is open, and the
\* lease of its worker, if there is one, is its own.
LEMMA CurrentAttempt ==
  ASSUME TypeOK, LedgerExplainsJob, NEW w \in Workers, NEW e \in Execution, Backed(w, e)
  PROVE  LET job == jobs[e.job] IN
         /\ e.attempt <= job.attempt
         /\ job.state \notin {"absent", "queued"}
         /\ Holds(w, e.job) =>
              e.attempt = job.attempt /\ attempts[e.job][e.attempt].outcome = "open"
         /\ attempts[e.job][e.attempt].outcome = "open" =>
              e.attempt = job.attempt /\ job.state = "leased" /\ job.owner = w
<1> DEFINE job == jobs[e.job]
<1>1. e.job \in Jobs /\ e.attempt \in AttemptNumbers
  BY ExecutionForms
<1>2. Explains(attempts[e.job], job)
  BY <1>1 DEF LedgerExplainsJob
<1>3. e.attempt \in Int /\ e.attempt >= 1 /\ job.attempt \in Int
  BY <1>1, AttemptRange DEF AttemptNumbers
<1> HIDE DEF job
<1>4. e.attempt <= job.attempt
  <2>1. attempts[e.job][e.attempt].outcome # "none"
    BY DEF Backed
  <2>2. e.attempt > job.attempt => attempts[e.job][e.attempt].outcome = "none"
    BY <1>1, <1>2 DEF Explains
  <2> QED BY <1>3, <2>1, <2>2
<1>5. job.state \notin {"absent", "queued"}
  <2>1. job.state \in {"absent", "queued"} => job.attempt = 0
    BY <1>2 DEF Explains
  <2> QED BY <1>3, <1>4, <2>1
<1>6. ASSUME Holds(w, e.job)
      PROVE  e.attempt = job.attempt /\ attempts[e.job][e.attempt].outcome = "open"
  <2>1. attempts[e.job][job.attempt].worker = w /\ attempts[e.job][job.attempt].outcome = "open"
    BY <1>2, <1>6 DEF Holds, Explains, job
  <2>2. job.attempt \in AttemptNumbers
    BY <1>1, <1>3, <1>4, AttemptRange DEF job
  <2> QED BY <1>3, <1>4, <2>1, <2>2 DEF Backed
<1>7. ASSUME attempts[e.job][e.attempt].outcome = "open"
      PROVE  e.attempt = job.attempt /\ job.state = "leased" /\ job.owner = w
  <2>1. e.attempt = job.attempt
    BY <1>1, <1>2, <1>3, <1>4, <1>7 DEF Explains
  <2>2. job.state = "leased"
    <3>1. job.state \in JobStates
      BY <1>1, AttemptRange DEF Job, job
    <3> QED BY <1>2, <1>3, <1>5, <1>7, <2>1, <3>1 DEF Explains, JobStates, Settled
  <2> QED BY <1>2, <2>1, <2>2 DEF Explains, Backed
<1> QED BY <1>4, <1>5, <1>6, <1>7 DEF job

\* The same execution a step later: it may have stopped running, or time passed.
Follows(f, e) ==
  /\ f.job = e.job /\ f.attempt = e.attempt /\ f.held = e.held
  /\ f.phase = "running" => e.phase = "running"

\* It stays backed when its attempts and the lease of its job are left alone ...
LEMMA BackedLeftAlone ==
  ASSUME NEW w \in Workers, NEW e \in Execution, Backed(w, e), NEW f \in Execution,
         Follows(f, e), attempts'[e.job] = attempts[e.job],
         jobs'[e.job].lease >= jobs[e.job].lease,
         jobs[e.job].lease \in Nat, jobs'[e.job].lease \in Nat
  PROVE  Backed(w, f)'
<1>1. e.held \in Nat
  BY ExecutionForms
<1> QED BY <1>1 DEF Backed, Follows

\* ... or when its attempt is closed, but not by expiry.
LEMMA BackedClosed ==
  ASSUME TypeOK, LedgerExplainsJob, NEW w \in Workers, NEW e \in Execution, Backed(w, e),
         NEW f \in Execution, Follows(f, e),
         NEW i \in Jobs, NEW outcome \in Closed \ {"lease_expired"},
         attempts' = [attempts EXCEPT ![i] = CloseAttempt(i, outcome)],
         \A j \in Jobs : j # i => jobs'[j] = jobs[j],
         ~LateRequests /\ f.phase = "running" /\ f.held > 0 =>
           i # e.job \/ outcome = "cancelled" \/ attempts[e.job][e.attempt].outcome # "open"
  PROVE  Backed(w, f)'
<1>1. e.job \in Jobs /\ e.attempt \in AttemptNumbers
  BY ExecutionForms
<1>2. \A n \in AttemptNumbers :
        /\ attempts'[e.job][n].worker = attempts[e.job][n].worker
        /\ attempts'[e.job][n].outcome # attempts[e.job][n].outcome =>
             i = e.job /\ attempts[e.job][n].outcome = "open" /\ attempts'[e.job][n].outcome = outcome
        /\ attempts'[e.job][n].outcome = "none" <=> attempts[e.job][n].outcome = "none"
  <2>1. outcome # "none" /\ "open" # "none"
    BY DEF Closed
  <2> QED BY <1>1, <2>1, CloseAttemptRows DEF TypeOK
<1>3. ASSUME attempts'[e.job][e.attempt].outcome = "open"
      PROVE  jobs'[e.job] = jobs[e.job] /\ attempts[e.job][e.attempt].outcome = "open"
  <2>1. outcome # "open"
    BY DEF Closed
  <2>2. attempts[e.job][e.attempt].outcome = "open"
    BY <1>1, <1>2, <1>3, <2>1
  <2>3. i # e.job
    <3> SUFFICES ASSUME i = e.job PROVE FALSE
      OBVIOUS
    <3>1. e.attempt = jobs[i].attempt
      BY <2>2, CurrentAttempt
    <3>2. attempts'[i] = CloseAttempt(i, outcome)
      BY DEF TypeOK
    <3>3. CloseAttempt(i, outcome)[e.attempt].outcome = outcome
      BY <1>1, <2>2, <3>1, CloseAttemptRows
    <3> QED BY <1>3, <2>1, <3>2, <3>3
  <2> QED BY <1>1, <2>2, <2>3
<1>4. outcome # "none"
  BY DEF Closed
<1> QED BY <1>1, <1>2, <1>3, <1>4 DEF Backed, Follows

\* ... or when another worker claims: an attempt whose lease runs is not swept.
LEMMA BackedThroughClaim ==
  ASSUME TypeOK, LedgerExplainsJob, NEW w \in Workers, NEW e \in Execution, Backed(w, e),
         NEW v \in Workers \ {w}, NEW batch \in SUBSET Jobs, Claim(v, batch)
  PROVE  Backed(w, e)'
<1> DEFINE j == e.job
           open == attempts[j][e.attempt].outcome = "open"
<1>1. j \in Jobs /\ e.attempt \in AttemptNumbers /\ e.held \in Nat
  BY ExecutionForms
<1>2. Explains(attempts[j], jobs[j]) /\ jobs[j].attempt \in Int /\ jobs[j].lease \in Nat
  BY <1>1, AttemptRange DEF LedgerExplainsJob
<1>3. \A n \in AttemptNumbers :
        /\ SweptAttempts(j)[n].worker = attempts[j][n].worker
        /\ SweptAttempts(j)[n].outcome # attempts[j][n].outcome =>
             Expired(j) /\ attempts[j][n].outcome = "open"
             /\ SweptAttempts(j)[n].outcome = "lease_expired"
        /\ SweptAttempts(j)[n].outcome = "none" <=> attempts[j][n].outcome = "none"
  BY <1>1, CloseAttemptRows DEF SweptAttempts, Closed
<1>4. /\ attempts'[j][e.attempt] = SweptAttempts(j)[e.attempt]
      /\ \A n \in AttemptNumbers :
           attempts'[j][n] = SweptAttempts(j)[n] \/ attempts'[j][n].worker = v
  <2>1. CASE j \in batch
    <3>1. attempts'[j] = [SweptAttempts(j) EXCEPT ![jobs[j].attempt + 1] =
                           [worker |-> v, outcome |-> "open"]]
      BY <1>1, <2>1 DEF Claim
    <3>2. SweptAttempts(j) \in [AttemptNumbers -> Attempt]
      BY <1>1, SweptType
    <3>3. e.attempt # jobs[j].attempt + 1
      BY <1>1, <1>2, CurrentAttempt DEF AttemptNumbers
    <3> QED BY <1>1, <3>1, <3>2, <3>3
  <2>2. CASE j \notin batch
    BY <1>1, <2>2 DEF Claim
  <2> QED BY <2>1, <2>2
<1>5. ASSUME open, jobs[j].lease > 0
      PROVE  jobs'[j] = jobs[j] /\ ~Expired(j)
  <2>1. jobs[j].state = "leased" /\ ~Expired(j)
    BY <1>5, CurrentAttempt DEF Expired
  <2>2. j \notin batch
    BY <2>1 DEF Claim, Claimable
  <2> QED BY <1>1, <2>1, <2>2 DEF Claim, SweptJob
<1>6. e.phase = "running" /\ e.held > 0 /\ open => jobs[j].lease > 0 /\ jobs[j].lease >= e.held
  BY <1>1, <1>2 DEF Backed
<1>7. e.phase = "running" /\ e.held > 0 =>
        attempts'[j][e.attempt].outcome = attempts[j][e.attempt].outcome
  BY <1>1, <1>3, <1>4, <1>5, <1>6
<1>8. attempts'[j][e.attempt].worker = w /\ attempts'[j][e.attempt].outcome # "none"
  BY <1>1, <1>3, <1>4 DEF Backed
<1>9. \A n \in AttemptNumbers : n > e.attempt =>
        attempts'[j][n].outcome = "none" \/ attempts'[j][n].worker # w
  BY <1>3, <1>4 DEF Backed
<1> QED BY <1>5, <1>6, <1>7, <1>8, <1>9 DEF Backed

-----------------------------------------------------------------------------
\* The execution that awaited r is done.
Answered(r, rest) ==
  exec' = [exec EXCEPT ![r.worker] = @ \ Awaiting(r)] /\ net' = rest

\* A rejected or answered request finds its execution, or nobody waits for it any more.
LEMMA RejectedCases ==
  ASSUME RuntimeTypeOK, RuntimeInv, NEW r \in net, NEW rest,
         Rejected(r, rest) \/ Answered(r, rest)
  PROVE  \/ exec' = exec /\ net' = rest
         \/ \E e \in exec[r.worker] :
              /\ e.job = r.job /\ e.phase # "running"
              /\ \/ /\ exec' = Replace(r.worker, e, InPhase(e, "failing"))
                    /\ net' = rest \cup {Interrupted(r.worker, e)}
                 \/ /\ exec' = Replace(r.worker, e, {})
                    /\ net' = rest
<1>1. r.worker \in Workers
  BY DEF RuntimeTypeOK, Request
<1>2. CASE Awaiting(r) = {}
  <2>1. exec' = [exec EXCEPT ![r.worker] = @]
    BY <1>2 DEF Rejected, Answered
  <2> QED BY <1>1, <1>2, <2>1 DEF Rejected, Answered, RuntimeTypeOK
<1>3. ASSUME NEW e \in Awaiting(r)
      PROVE  Awaiting(r) = {e} /\ e \in exec[r.worker] /\ e.job = r.job /\ e.phase # "running"
  BY <1>1, <1>3 DEF Awaiting, RuntimeInv, OnePerJob
<1>4. ASSUME NEW e \in Awaiting(r)
      PROVE  \/ /\ exec' = Replace(r.worker, e, InPhase(e, "failing"))
                /\ net' = rest \cup {Interrupted(r.worker, e)}
             \/ /\ exec' = Replace(r.worker, e, {})
                /\ net' = rest
  <2>1. Awaiting(r) = {e}
    BY <1>3
  <2>2. UNION {InPhase(f, "failing") : f \in Awaiting(r)} = InPhase(e, "failing")
    BY <2>1
  <2>3. {Interrupted(r.worker, f) : f \in Awaiting(r)} = {Interrupted(r.worker, e)}
    BY <2>1
  <2>4. exec[r.worker] \ Awaiting(r) = (exec[r.worker] \ {e}) \cup {}
    BY <2>1
  <2> QED BY <2>1, <2>2, <2>3, <2>4 DEF Rejected, Answered, Replace
<1> QED BY <1>2, <1>3, <1>4

\* An execution's replacement is the only one of its job.
LEMMA OneAfterReplace ==
  ASSUME RuntimeTypeOK, \A x \in Workers : OnePerJob(x),
         NEW w \in Workers, NEW e \in exec[w], NEW new, \A g \in new : g.job = e.job,
         \A g, h \in new : g = h,
         exec' = Replace(w, e, new)
  PROVE  \A x \in Workers : OnePerJob(x)'
BY DEF Replace, OnePerJob, RuntimeTypeOK

\* The requests on their way after one execution's step: those of other
\* executions, and at most one of its own.
LEMMA SentAfterStep ==
  ASSUME RuntimeTypeOK, RuntimeInv, returned \subseteq returned',
         NEW w \in Workers, NEW e \in exec[w],
         \A x \in Workers : \A f \in exec[x] : f \in exec'[x] \/ (x = w /\ f = e),
         \A r \in net' :
           \/ r \in net /\ (~LateRequests => ~(r.worker = w /\ r.job = e.job))
           \/ /\ r.worker = w /\ r.job = e.job
              /\ r.op = "complete" => <<w, e.job>> \in returned'
              /\ \E g \in exec'[w] : g.job = e.job /\ g.phase # "running",
         \A r, q \in net' :
           ~LateRequests /\ r.worker = w /\ r.job = e.job /\ q.worker = w /\ q.job = e.job
             => r = q
  PROVE  (\A r \in net : Sent(r))' /\ OneRequest'
<1>1. ASSUME NEW r \in net', r \in net, ~LateRequests => ~(r.worker = w /\ r.job = e.job)
      PROVE  Sent(r)'
  <2>1. Sent(r) /\ r.worker \in Workers
    BY <1>1 DEF RuntimeInv, RuntimeTypeOK, Request
  <2>2. ASSUME ~LateRequests PROVE \E f \in exec'[r.worker] : f.job = r.job /\ f.phase # "running"
    <3>1. PICK f \in exec[r.worker] : f.job = r.job /\ f.phase # "running"
      BY <2>1, <2>2 DEF Sent
    <3>2. f \in exec'[r.worker]
      BY <1>1, <2>1, <2>2, <3>1
    <3> QED BY <3>1, <3>2
  <2> QED BY <2>1, <2>2 DEF Sent
<1>2. ASSUME NEW r \in net', r.worker = w, r.job = e.job,
             r.op = "complete" => <<w, e.job>> \in returned',
             \E g \in exec'[w] : g.job = e.job /\ g.phase # "running"
      PROVE  Sent(r)'
  BY <1>2 DEF Sent
<1>3. (\A r \in net : Sent(r))'
  BY <1>1, <1>2
<1>4. OneRequest'
  BY DEF OneRequest, RuntimeInv
<1> QED BY <1>3, <1>4

\* A job succeeds only by a complete request, in the name of the worker whose
\* attempt is then the last.
LEMMA SuccessStep ==
  RuntimeTypeOK /\ LedgerExplainsJob /\ RuntimeInv /\ [RuntimeNext]_allVars => SuccessIsReal'
<1> SUFFICES ASSUME RuntimeTypeOK, LedgerExplainsJob, RuntimeInv, [RuntimeNext]_allVars,
                    NEW j \in Jobs, jobs'[j].state = "succeeded"
             PROVE  <<Last(j).worker, j>>' \in returned'
  BY DEF SuccessIsReal
<1>1. /\ jobs[j] \in Job /\ attempts[j] \in [AttemptNumbers -> Attempt]
      /\ Explains(attempts[j], jobs[j])
  BY DEF RuntimeTypeOK, TypeOK, LedgerExplainsJob
<1>2. returned \subseteq returned'
  BY DEF RuntimeNext, allVars, runtimeVars, Poll, Beat, HandlerReturns, HandlerThrows, TimeOut,
         Deliver, GiveUp, Crash, Pass
<1>3. CASE jobs[j].state = "succeeded"
  <2>1. jobs'[j] = [jobs[j] EXCEPT !.wait = jobs'[j].wait] /\ attempts'[j] = attempts[j]
    BY <1>3, SettledStep, StoreStep DEF RuntimeTypeOK, Settled
  <2>2. jobs'[j].attempt = jobs[j].attempt
    BY <1>1, <2>1 DEF Job
  <2> QED BY <1>2, <1>3, <2>1, <2>2 DEF Last, RuntimeInv, SuccessIsReal
<1>4. CASE jobs[j].state # "succeeded"
  <2>1. ASSUME NEW k \in Keys, NEW i \in Jobs, Enqueue(i, k, 0) PROVE FALSE
    BY <1>4, <2>1 DEF Enqueue, NewJob, NoJob, RuntimeTypeOK, TypeOK
  <2>2. ASSUME NEW i \in Jobs, Cancel(i) PROVE FALSE
    BY <1>4, <2>2, AttemptRange, ReleasedFields DEF Cancel, RuntimeTypeOK, TypeOK
  <2>3. ASSUME NEW w \in Workers, NEW batch \in SUBSET Jobs, Claim(w, batch) PROVE FALSE
    <3>1. LeasedJob(j, w).state = "leased" /\ Released(jobs[j], "dead_letter").state = "dead_letter"
      BY <1>1, ReleasedFields DEF LeasedJob, Job
    <3> QED BY <1>4, <2>3, <3>1 DEF Claim, SweptJob
  <2>4. ASSUME NEW w \in Workers, NEW e \in exec[w], Beat(w, e) PROVE FALSE
    <3>1. e.job \in Jobs
      BY ExecutionForms DEF RuntimeTypeOK
    <3> QED BY <1>1, <1>4, <2>4, <3>1 DEF Beat, Heartbeat, RuntimeTypeOK, TypeOK, Job
  <2>5. ASSUME Pass PROVE FALSE
    BY <1>1, <1>4, <2>5 DEF Pass, Job
  <2>6. ASSUME UNCHANGED <<jobs, attempts>> PROVE FALSE
    BY <1>4, <2>6
  <2>7. ASSUME NEW r \in net, NEW answered \in BOOLEAN, Deliver(r, answered)
        PROVE  <<Last(j).worker, j>>' \in returned'
    <3>1. r \in Request /\ r.job \in Jobs /\ r.worker \in Workers
      BY DEF RuntimeTypeOK, Request
    <3>2. Holds(r.worker, r.job)
      BY <2>6, <2>7 DEF Deliver
    <3>3. \A i \in Jobs : Released(jobs[i], "dead_letter").state = "dead_letter"
          /\ \A d \in Delays :
               [Released(jobs[i], "retry_wait") EXCEPT !.wait = d].state = "retry_wait"
      BY AttemptRange DEF Released, Job, RuntimeTypeOK
    <3>4. j = r.job /\ r.op = "complete"
      <4>1. CASE r.op = "complete"
        BY <1>4, <2>7, <3>1, <3>2, <4>1 DEF Deliver, Complete, RuntimeTypeOK, TypeOK
      <4>2. CASE r.op # "complete"
        <5>1. Fail(r.worker, r.job, r.retryable, r.delay) /\ r.delay \in Delays
          BY <2>7, <3>1, <3>2, <4>2 DEF Deliver, Request
        <5> QED BY <1>4, <3>1, <3>3, <5>1 DEF Fail, RuntimeTypeOK, TypeOK
      <4> QED BY <4>1, <4>2
    <3>5. Complete(r.worker, j)
      BY <2>7, <3>2, <3>4 DEF Deliver
    <3>6. jobs'[j].attempt = jobs[j].attempt /\ attempts'[j] = CloseAttempt(j, "succeeded")
      BY <1>1, <3>5, ReleasedFields DEF Complete, RuntimeTypeOK, TypeOK
    <3>7. jobs[j].attempt \in AttemptNumbers /\ attempts[j][jobs[j].attempt].worker = r.worker
      <4>1. jobs[j].state = "leased" /\ jobs[j].owner = r.worker
        BY <3>2, <3>4 DEF Holds
      <4>2. jobs[j].attempt > 0 /\ attempts[j][jobs[j].attempt].worker = r.worker
        <5>1. jobs[j].attempt # 0 /\ attempts[j][jobs[j].attempt].worker = jobs[j].owner
          BY <1>1, <4>1 DEF Explains
        <5> QED BY <4>1, <5>1, AttemptRange DEF RuntimeTypeOK
      <4> QED BY <4>2, AttemptRange DEF RuntimeTypeOK
    <3>8. Last(j)'.worker = r.worker
      BY <3>6, <3>7, CloseAttemptRows DEF Last, RuntimeTypeOK, Closed
    <3> QED BY <1>2, <3>4, <3>8 DEF RuntimeInv, Sent
  <2> QED
    BY <2>1, <2>2, <2>3, <2>4, <2>5, <2>6, <2>7
    DEF RuntimeNext, allVars, Poll, Batches, HandlerReturns, HandlerThrows, TimeOut, GiveUp, Crash
<1> QED BY <1>3, <1>4

LEMMA RuntimeInvInductive ==
  RuntimeTypeOK /\ RuntimeTypeOK' /\ LedgerExplainsJob /\ RuntimeInv /\ [RuntimeNext]_allVars
    => RuntimeInv'
<1> SUFFICES ASSUME RuntimeTypeOK, RuntimeTypeOK', LedgerExplainsJob, RuntimeInv,
                    [RuntimeNext]_allVars
             PROVE  /\ \A w \in Workers : OnePerJob(w)'
                    /\ \A w \in Workers : \A f \in exec'[w] : Backed(w, f)'
                    /\ (\A r \in net : Sent(r))'
                    /\ OneRequest'
  BY SuccessStep DEF RuntimeInv
<1> DEFINE One == \A w \in Workers : OnePerJob(w)'
           AllBacked == \A w \in Workers : \A f \in exec'[w] : Backed(w, f)'
           Outstanding == (\A r \in net : Sent(r))' /\ OneRequest'
<1>1. /\ TypeOK /\ TypeOK'
      /\ \A w \in Workers : exec[w] \subseteq Execution /\ exec'[w] \subseteq Execution
      /\ \A w \in Workers : OnePerJob(w) /\ \A e \in exec[w] : Backed(w, e)
      /\ \A j \in Jobs : jobs[j].lease \in Nat /\ jobs'[j].lease \in Nat
  <2>1. TypeOK /\ TypeOK'
    BY DEF RuntimeTypeOK
  <2>2. \A j \in Jobs : jobs[j].lease \in Leases /\ jobs'[j].lease \in Leases
    BY <2>1 DEF TypeOK, Job
  <2> QED BY <2>1, <2>2, ConstantsAssumption DEF RuntimeTypeOK, RuntimeInv, Leases
<1>2. ASSUME NEW w \in Workers, NEW e \in exec[w] PROVE Follows(e, e)
  BY DEF Follows
<1>3. ASSUME UNCHANGED runtimeVars PROVE One /\ Outstanding
  BY <1>3 DEF runtimeVars, RuntimeInv, OnePerJob, Sent, OneRequest
<1>4. ASSUME NEW w \in Workers, NEW e \in exec[w], NEW f \in Execution, Follows(f, e),
             attempts' = attempts, jobs'[e.job].lease >= jobs[e.job].lease
      PROVE  Backed(w, f)'
  <2>1. e \in Execution /\ e.job \in Jobs
    BY <1>1, ExecutionForms
  <2> QED BY <1>1, <1>4, <2>1, BackedLeftAlone
<1>5. ASSUME UNCHANGED <<jobs, attempts>>,
             \A w \in Workers : \A f \in exec'[w] : \E e \in exec[w] : Follows(f, e)
      PROVE  AllBacked
  <2> SUFFICES ASSUME NEW w \in Workers, NEW f \in exec'[w] PROVE Backed(w, f)'
    OBVIOUS
  <2>1. PICK e \in exec[w] : Follows(f, e)
    BY <1>5
  <2>2. jobs'[e.job].lease >= jobs[e.job].lease
    <3>1. e.job \in Jobs
      BY <1>1, ExecutionForms
    <3> QED BY <1>1, <1>5, <3>1
  <2> QED BY <1>1, <1>4, <1>5, <2>1, <2>2
<1>6. ASSUME NEW j \in Jobs, NEW k \in Keys, Enqueue(j, k, 0), UNCHANGED runtimeVars
      PROVE  AllBacked
  <2> SUFFICES ASSUME NEW w \in Workers, NEW e \in exec[w] PROVE Backed(w, e)'
    BY <1>6 DEF runtimeVars
  <2>1. e \in Execution /\ e.job \in Jobs
    BY <1>1, ExecutionForms
  <2>2. e.job # j
    BY <1>1, <1>6, <2>1, CurrentAttempt DEF Enqueue, Exists
  <2>3. jobs'[e.job] = jobs[e.job]
    BY <1>1, <1>6, <2>1, <2>2 DEF Enqueue, TypeOK
  <2> QED BY <1>1, <1>2, <1>4, <1>6, <2>1, <2>3 DEF Enqueue
<1>7. ASSUME NEW j \in Jobs, Cancel(j), UNCHANGED runtimeVars
      PROVE  AllBacked
  <2> SUFFICES ASSUME NEW w \in Workers, NEW e \in exec[w] PROVE Backed(w, e)'
    BY <1>7 DEF runtimeVars
  <2> QED BY <1>1, <1>2, <1>7, BackedClosed DEF Cancel, TypeOK, Closed
<1>8. ASSUME NEW w \in Workers, NEW batch \in Batches, NEW answered \in BOOLEAN,
             Poll(w, batch, answered)
      PROVE  One /\ AllBacked /\ Outstanding
  <2>1. /\ exec[w] = {} /\ Claim(w, batch) /\ UNCHANGED <<net, returned>>
        /\ \A v \in Workers : v # w => exec'[v] = exec[v]
        /\ \A f \in exec'[w] :
             /\ f.job \in batch /\ f.attempt = jobs[f.job].attempt + 1
             /\ f.phase = "running" /\ f.left = TimeoutTicks /\ f.held = LeaseTicks
        /\ \A f, g \in exec'[w] : f.job = g.job => f = g
    BY <1>8 DEF Poll, RuntimeTypeOK
  <2>2. One
    BY <1>1, <2>1 DEF OnePerJob
  <2>3. Outstanding
    <3>1. ASSUME NEW r \in net PROVE Sent(r)'
      <4>1. Sent(r) /\ r.worker \in Workers
        BY DEF RuntimeInv, RuntimeTypeOK, Request
      <4> QED BY <2>1, <4>1 DEF Sent
    <3> QED BY <2>1, <3>1 DEF RuntimeInv, OneRequest
  <2>4. ASSUME NEW f \in exec'[w] PROVE Backed(w, f)'
    <3> DEFINE j == f.job
    <3>1. j \in batch /\ j \in Jobs /\ f \in Execution /\ f.attempt \in AttemptNumbers
          /\ f.attempt = jobs[j].attempt + 1 /\ f.held = LeaseTicks
      BY <1>1, <2>1, ExecutionForms DEF Batches
    <3>2. /\ jobs'[j] = LeasedJob(j, w)
          /\ attempts'[j] = [SweptAttempts(j) EXCEPT ![f.attempt] =
                              [worker |-> w, outcome |-> "open"]]
      BY <2>1, <3>1 DEF Claim
    <3>3. SweptAttempts(j) \in [AttemptNumbers -> Attempt]
      BY <1>1, <3>1, SweptType
    <3>4. \A n \in AttemptNumbers : n > f.attempt => SweptAttempts(j)[n].outcome = "none"
      <4>1. Explains(attempts[j], jobs[j]) /\ jobs[j].attempt \in Int
        BY <1>1, <3>1, AttemptRange DEF LedgerExplainsJob
      <4>2. \A n \in AttemptNumbers :
              SweptAttempts(j)[n].outcome = "none" <=> attempts[j][n].outcome = "none"
        BY <1>1, <3>1, <4>1, SweepExplains
      <4>3. \A n \in AttemptNumbers : n > jobs[j].attempt <=> attempts[j][n].outcome = "none"
        BY <4>1 DEF Explains
      <4>4. \A n \in AttemptNumbers : n > f.attempt => n > jobs[j].attempt
        BY <3>1, <4>1 DEF AttemptNumbers
      <4> QED BY <4>2, <4>3, <4>4
    <3>5. jobs'[j].lease = LeaseTicks
      BY <1>1, <3>1, <3>2, AttemptRange DEF LeasedJob, Job
    <3>6. attempts'[j][f.attempt] = [worker |-> w, outcome |-> "open"]
      BY <3>1, <3>2, <3>3
    <3>7. \A n \in AttemptNumbers : n > f.attempt => attempts'[j][n].outcome = "none"
      <4>1. \A n \in AttemptNumbers : n > f.attempt => n # f.attempt
        BY <3>1 DEF AttemptNumbers
      <4> QED BY <3>2, <3>3, <3>4, <4>1
    <3>8. jobs'[j].lease >= f.held
      BY <3>1, <3>5, ConstantsAssumption
    <3> QED BY <3>6, <3>7, <3>8 DEF Backed
  <2>5. ASSUME NEW v \in Workers \ {w}, NEW e \in exec[v] PROVE Backed(v, e)'
    BY <1>1, <2>1, BackedThroughClaim DEF Batches
  <2>6. AllBacked
    BY <2>1, <2>4, <2>5
  <2> QED BY <2>2, <2>3, <2>6
<1>9. ASSUME NEW w \in Workers, NEW e \in exec[w], Beat(w, e), Holds(w, e.job)
      PROVE  One /\ AllBacked /\ Outstanding
  <2> DEFINE j == e.job
             g == [e EXCEPT !.held = LeaseTicks]
  <2>1. /\ e \in Execution /\ j \in Jobs /\ g \in Execution
        /\ g.job = j /\ g.attempt = e.attempt /\ g.phase = e.phase /\ g.held = LeaseTicks
    BY <1>1, ExecutionForms
  <2>2. /\ exec' = Replace(w, e, {g}) /\ UNCHANGED <<attempts, net, returned>>
        /\ jobs' = [jobs EXCEPT ![j].lease = LeaseTicks]
    BY <1>9 DEF Beat, Heartbeat
  <2> HIDE DEF g
  <2>3. One
    BY <1>1, <2>1, <2>2, OneAfterReplace
  <2>4. Outstanding
    <3>1. \A x \in Workers : \A f \in exec[x] :
            \E h \in exec'[x] : h.job = f.job /\ h.phase = f.phase
      BY <2>1, <2>2 DEF Replace, RuntimeTypeOK
    <3>2. ASSUME NEW r \in net PROVE Sent(r)'
      <4>1. Sent(r) /\ r.worker \in Workers
        BY DEF RuntimeInv, RuntimeTypeOK, Request
      <4>2. ASSUME ~LateRequests
            PROVE  \E h \in exec'[r.worker] : h.job = r.job /\ h.phase # "running"
        BY <3>1, <4>1, <4>2 DEF Sent
      <4> QED BY <2>2, <4>1, <4>2 DEF Sent
    <3> QED BY <2>2, <3>2 DEF RuntimeInv, OneRequest
  <2>5. jobs'[j].lease = LeaseTicks /\ \A i \in Jobs : i # j => jobs'[i] = jobs[i]
    BY <1>1, <2>1, <2>2, AttemptRange DEF TypeOK, Job
  <2>6. jobs[j].lease <= LeaseTicks
    <3>1. jobs[j].lease \in Leases
      BY <1>1, <2>1 DEF TypeOK, Job
    <3> QED BY <3>1, ConstantsAssumption DEF Leases
  <2>7. \A i \in Jobs : jobs'[i].lease >= jobs[i].lease
    BY <1>1, <2>5, <2>6
  <2>8. Backed(w, g)'
    <3>1. Backed(w, e) /\ attempts[j][e.attempt].outcome = "open"
      BY <1>1, <1>9, <2>1, CurrentAttempt
    <3>2. LeaseTicks >= LeaseTicks
      BY ConstantsAssumption
    <3> QED BY <2>1, <2>2, <2>5, <3>1, <3>2 DEF Backed
  <2>9. ASSUME NEW x \in Workers, NEW f \in exec[x] PROVE Backed(x, f)'
    <3>1. f \in Execution /\ f.job \in Jobs
      BY <1>1, ExecutionForms
    <3> QED BY <1>1, <1>2, <1>4, <2>2, <2>7, <3>1
  <2>10. \A x \in Workers : \A f \in exec'[x] : f \in exec[x] \/ (x = w /\ f = g)
    BY <2>2 DEF Replace, RuntimeTypeOK
  <2>11. AllBacked
    BY <2>8, <2>9, <2>10
  <2> QED BY <2>3, <2>4, <2>11
\* An execution stops running and sends its request.
<1>10. ASSUME NEW w \in Workers, NEW e \in exec[w], e.phase = "running",
              NEW p \in Phases \ {"running"}, NEW q,
              exec' = Replace(w, e, InPhase(e, p)), net' = net \cup {q},
              q.worker = w, q.job = e.job,
              q.op = "complete" => <<w, e.job>> \in returned',
              UNCHANGED <<jobs, attempts>>, returned \subseteq returned'
       PROVE  One /\ AllBacked /\ Outstanding
  <2> DEFINE g == [e EXCEPT !.phase = p]
  <2> e \in Execution
    BY <1>1
  <2>1. /\ g \in Execution
        /\ g.job = e.job /\ g.attempt = e.attempt /\ g.phase = p /\ g.held = e.held
    BY ExecutionForms
  <2>2. exec' = Replace(w, e, {g})
    BY <1>10 DEF InPhase
  <2> HIDE DEF g
  <2>3. One
    BY <1>1, <2>1, <2>2, OneAfterReplace
  <2>4. ~LateRequests => \A r \in net : ~(r.worker = w /\ r.job = e.job)
    BY <1>1, <1>10 DEF RuntimeInv, Sent, OnePerJob
  <2>5. Outstanding
    <3>1. /\ \A x \in Workers : \A f \in exec[x] : f \in exec'[x] \/ (x = w /\ f = e)
          /\ g \in exec'[w]
      BY <2>2 DEF Replace, RuntimeTypeOK
    <3>2. \A r \in net' :
            \/ r \in net /\ (~LateRequests => ~(r.worker = w /\ r.job = e.job))
            \/ /\ r.worker = w /\ r.job = e.job
               /\ r.op = "complete" => <<w, e.job>> \in returned'
               /\ \E h \in exec'[w] : h.job = e.job /\ h.phase # "running"
      BY <1>10, <2>1, <2>4, <3>1
    <3>3. \A r, t \in net' :
            ~LateRequests /\ r.worker = w /\ r.job = e.job /\ t.worker = w /\ t.job = e.job
              => r = t
      BY <1>10, <2>4
    <3> QED BY <1>10, <3>1, <3>2, <3>3, SentAfterStep
  <2>6. \A x \in Workers : \A f \in exec'[x] : \E h \in exec[x] : Follows(f, h)
    BY <1>10, <2>1, <2>2 DEF Replace, RuntimeTypeOK, Follows
  <2> QED BY <1>5, <1>10, <2>3, <2>5, <2>6
\* A request is rejected: it came too late, or was lost, and is perhaps still on its way.
<1>11. ASSUME NEW r \in net, NEW rest \in SUBSET net,
              Rejected(r, rest) \/ Answered(r, rest),
              rest = net \ {r} \/ (LateRequests /\ rest = net), UNCHANGED returned
       PROVE  /\ One /\ Outstanding
              /\ \A x \in Workers : \A f \in exec'[x] : \E h \in exec[x] : Follows(f, h)
  <2>1. r.worker \in Workers
    BY DEF RuntimeTypeOK, Request
  <2>2. CASE exec' = exec /\ net' = rest
    <3>1. One /\ \A x \in Workers : \A f \in exec'[x] : \E h \in exec[x] : Follows(f, h)
      BY <1>1, <1>2, <2>2 DEF OnePerJob
    <3> QED BY <1>11, <2>2, <3>1 DEF RuntimeInv, Sent, OneRequest
  <2>3. ASSUME NEW e \in exec[r.worker], e.job = r.job,
               NEW new, exec' = Replace(r.worker, e, new),
               NEW more, net' = rest \cup more,
               \/ new = InPhase(e, "failing") /\ more = {Interrupted(r.worker, e)}
               \/ new = {} /\ more = {}
        PROVE  /\ One /\ Outstanding
               /\ \A x \in Workers : \A f \in exec'[x] : \E h \in exec[x] : Follows(f, h)
    <3>1. e \in Execution /\ "failing" \in Phases
      BY <1>1, <2>1 DEF Phases
    <3>2. \A g \in new : Follows(g, e) /\ g.phase # "running"
      <4>1. LET g == [e EXCEPT !.phase = "failing"] IN Follows(g, e) /\ g.phase # "running"
        BY <3>1, ExecutionForms DEF Follows
      <4> QED BY <2>3, <4>1 DEF InPhase
    <3>3. \A g, h \in new : g = h
      BY <2>3 DEF InPhase
    <3>4. One
      BY <1>1, <2>1, <2>3, <3>2, <3>3, OneAfterReplace DEF Follows
    <3>5. ~LateRequests => \A q \in rest : ~(q.worker = r.worker /\ q.job = e.job)
      BY <1>11, <2>3 DEF RuntimeInv, OneRequest
    <3>6. \A q \in more : /\ q.worker = r.worker /\ q.job = e.job /\ q.op = "fail"
                          /\ \E g \in new : g.job = e.job /\ g.phase # "running"
      <4>1. LET q == Interrupted(r.worker, e) IN
              q.worker = r.worker /\ q.job = e.job /\ q.op = "fail"
        BY DEF Interrupted, FailRequest
      <4>2. more # {} => new # {}
        BY <2>3 DEF InPhase
      <4> QED BY <2>3, <3>2, <4>1, <4>2 DEF Follows
    <3>7. \A q, p \in more : q = p
      BY <2>3
    <3>8. Outstanding
      <4>1. /\ \A x \in Workers : \A f \in exec[x] : f \in exec'[x] \/ (x = r.worker /\ f = e)
            /\ \A g \in new : g \in exec'[r.worker]
        BY <2>1, <2>3 DEF Replace, RuntimeTypeOK
      <4>2. \A q \in net' :
              \/ q \in net /\ (~LateRequests => ~(q.worker = r.worker /\ q.job = e.job))
              \/ /\ q.worker = r.worker /\ q.job = e.job
                 /\ q.op = "complete" => <<r.worker, e.job>> \in returned'
                 /\ \E g \in exec'[r.worker] : g.job = e.job /\ g.phase # "running"
        BY <2>3, <3>5, <3>6, <4>1
      <4>3. \A p, q \in net' :
              ~LateRequests /\ p.worker = r.worker /\ p.job = e.job
                /\ q.worker = r.worker /\ q.job = e.job => p = q
        BY <2>3, <3>5, <3>7
      <4>4. returned \subseteq returned' /\ r.worker \in Workers /\ e \in exec[r.worker]
        BY <1>11, <2>1, <2>3
      <4> QED BY <4>1, <4>2, <4>3, <4>4, SentAfterStep
    <3>9. \A x \in Workers : \A f \in exec'[x] : \E h \in exec[x] : Follows(f, h)
      BY <1>2, <2>1, <2>3, <3>2 DEF Replace, RuntimeTypeOK
    <3> QED BY <3>4, <3>8, <3>9
  <2>4. rest = rest \cup {}
    OBVIOUS
  <2>5. \/ exec' = exec /\ net' = rest
        \/ \E e \in exec[r.worker] :
             /\ e.job = r.job /\ e.phase # "running"
             /\ \/ /\ exec' = Replace(r.worker, e, InPhase(e, "failing"))
                   /\ net' = rest \cup {Interrupted(r.worker, e)}
                \/ /\ exec' = Replace(r.worker, e, {})
                   /\ net' = rest
    BY <1>11, RejectedCases
  <2> QED BY <2>2, <2>3, <2>4, <2>5
<1>12. ASSUME NEW r \in net, NEW answered \in BOOLEAN, Deliver(r, answered)
       PROVE  One /\ AllBacked /\ Outstanding
  <2>1. Rejected(r, net \ {r}) \/ Answered(r, net \ {r})
    BY <1>12 DEF Deliver, Answered
  <2>2. /\ One /\ Outstanding
        /\ \A x \in Workers : \A f \in exec'[x] : \E h \in exec[x] : Follows(f, h)
    <3>1. net \ {r} \in SUBSET net /\ UNCHANGED returned
      BY <1>12 DEF Deliver
    <3> QED BY <1>11, <2>1, <3>1
  <2>3. CASE UNCHANGED <<jobs, attempts>>
    BY <1>5, <2>2, <2>3
  <2>4. CASE Holds(r.worker, r.job)
    <3>1. r.worker \in Workers /\ r.job \in Jobs
      BY DEF RuntimeTypeOK, Request
    <3>2. PICK outcome \in Closed \ {"lease_expired"} :
            attempts' = [attempts EXCEPT ![r.job] = CloseAttempt(r.job, outcome)]
      BY <1>12, <2>4 DEF Deliver, Complete, Fail, Closed
    <3>3. \A j \in Jobs : j # r.job => jobs'[j] = jobs[j]
      BY <1>1, <1>12, <2>4, <3>1 DEF Deliver, Complete, Fail, TypeOK
    <3>4. ASSUME NEW x \in Workers, NEW f \in exec'[x] PROVE Backed(x, f)'
      <4>1. PICK h \in exec[x] : Follows(f, h)
        BY <2>2, <3>4
      <4>2. h \in Execution /\ f \in Execution /\ Backed(x, h)
        BY <1>1
      <4>3. ASSUME ~LateRequests, f.phase = "running", r.job = h.job
            PROVE  attempts[h.job][h.attempt].outcome # "open"
        <5>1. x # r.worker
          <6>1. PICK e \in exec[r.worker] : e.job = r.job /\ e.phase # "running"
            BY <4>3 DEF RuntimeInv, Sent
          <6> QED BY <1>1, <3>1, <4>1, <4>3, <6>1 DEF OnePerJob, Follows
        <5>2. jobs[h.job].owner = r.worker
          BY <2>4, <4>3 DEF Holds
        <5> QED BY <1>1, <4>2, <5>1, <5>2, CurrentAttempt
      <4> QED BY <1>1, <3>1, <3>2, <3>3, <4>1, <4>2, <4>3, BackedClosed
    <3> QED BY <2>2, <3>4
  <2> QED BY <1>12, <2>2, <2>3, <2>4 DEF Deliver
<1>13. ASSUME NEW r \in net, NEW late \in BOOLEAN, GiveUp(r, late)
       PROVE  One /\ AllBacked /\ Outstanding
  <2>1. PICK rest \in SUBSET net :
          Rejected(r, rest) /\ (rest = net \ {r} \/ (LateRequests /\ rest = net))
    BY <1>13 DEF GiveUp
  <2>2. UNCHANGED <<jobs, attempts, returned>>
    BY <1>13 DEF GiveUp
  <2> QED BY <1>5, <1>11, <2>1, <2>2
<1>14. ASSUME NEW w \in Workers, NEW late \in BOOLEAN, Crash(w, late)
       PROVE  One /\ AllBacked /\ Outstanding
  <2>1. /\ \A x \in Workers : exec'[x] = IF x = w THEN {} ELSE exec[x]
        /\ net' \subseteq net /\ UNCHANGED <<jobs, attempts, returned>>
        /\ ~LateRequests => \A r \in net' : r.worker # w
    BY <1>14 DEF Crash, RuntimeTypeOK
  <2>2. One
    BY <1>1, <2>1 DEF OnePerJob
  <2>3. AllBacked
    BY <1>2, <1>5, <2>1
  <2>4. ASSUME NEW r \in net' PROVE Sent(r)'
    <3>1. Sent(r) /\ r.worker \in Workers
      BY <2>1 DEF RuntimeInv, RuntimeTypeOK, Request
    <3> QED BY <2>1, <3>1 DEF Sent
  <2>5. Outstanding
    BY <2>1, <2>4 DEF OneRequest, RuntimeInv
  <2> QED BY <2>2, <2>3, <2>5
<1>15. ASSUME Pass PROVE One /\ AllBacked /\ Outstanding
  <2>1. /\ \A w \in Workers : exec'[w] = {Aged(e) : e \in exec[w]}
        /\ \A j \in Jobs : jobs'[j] = [jobs[j] EXCEPT !.lease = Elapsed(@), !.wait = Elapsed(@)]
        /\ UNCHANGED <<attempts, net, returned>>
    BY <1>15 DEF Pass
  <2>2. ASSUME NEW w \in Workers, NEW e \in exec[w]
        PROVE  /\ e \in Execution /\ e.job \in Jobs /\ e.held \in Nat /\ Aged(e) \in exec'[w]
               /\ Aged(e).job = e.job /\ Aged(e).attempt = e.attempt
               /\ Aged(e).phase = e.phase /\ Aged(e).held = Elapsed(e.held)
    <3>1. exec'[w] = {Aged(d) : d \in exec[w]}
      BY <2>1
    <3>2. e \in Execution
      BY <1>1
    <3> QED BY <3>1, <3>2, ExecutionForms
  <2>3. ASSUME NEW w \in Workers, NEW f \in exec'[w]
        PROVE  \E e \in exec[w] : f = Aged(e)
    <3>1. exec'[w] = {Aged(e) : e \in exec[w]}
      BY <2>1
    <3> QED BY <3>1
  <2>4. One
    BY <1>1, <2>2, <2>3 DEF OnePerJob
  <2>5. ASSUME NEW r \in net PROVE Sent(r)'
    <3>1. Sent(r) /\ r.worker \in Workers
      BY DEF RuntimeInv, RuntimeTypeOK, Request
    <3>2. ASSUME ~LateRequests
          PROVE  \E h \in exec'[r.worker] : h.job = r.job /\ h.phase # "running"
      BY <2>2, <3>1, <3>2 DEF Sent
    <3> QED BY <2>1, <3>1, <3>2 DEF Sent
  <2>6. Outstanding
    BY <2>1, <2>5 DEF RuntimeInv, OneRequest
  <2>7. ASSUME NEW w \in Workers, NEW e \in exec[w] PROVE Backed(w, Aged(e))'
    <3>1. jobs'[e.job].lease = Elapsed(jobs[e.job].lease) /\ jobs[e.job].lease \in Nat
      <4>1. e.job \in Jobs /\ jobs[e.job] \in Job
        BY <1>1, <2>2, AttemptRange
      <4> QED BY <1>1, <2>1, <4>1 DEF Job
    <3>2. /\ Aged(e).held > 0 => e.held > 0
          /\ jobs[e.job].lease >= e.held => jobs'[e.job].lease >= Aged(e).held
      BY <2>2, <3>1 DEF Elapsed
    <3>3. Backed(w, e) /\ attempts' = attempts
      BY <1>1, <2>1
    <3> QED BY <2>2, <3>2, <3>3 DEF Backed
  <2>8. AllBacked
    BY <2>3, <2>7
  <2> QED BY <2>4, <2>6, <2>8
<1>16. ASSUME NEW w \in Workers, NEW e \in exec[w],
              \/ Beat(w, e) \/ HandlerReturns(w, e)
              \/ \E retryable \in BOOLEAN : HandlerThrows(w, e, retryable, MaxDelay)
       PROVE  One /\ AllBacked /\ Outstanding
  <2>1. CASE HandlerReturns(w, e)
    <3>1. LET q == CompleteRequest(w, e) IN
            q.worker = w /\ q.job = e.job /\ q.op = "complete"
      BY DEF CompleteRequest
    <3>2. "completing" \in Phases \ {"running"}
      BY DEF Phases
    <3> QED BY <1>10, <2>1, <3>1, <3>2 DEF HandlerReturns
  <2>2. ASSUME NEW retryable \in BOOLEAN, e.phase = "running",
               exec' = Replace(w, e, InPhase(e, "failing")),
               net' = net \cup {FailRequest(w, e, retryable, MaxDelay)},
               UNCHANGED <<jobs, attempts, returned>>
        PROVE  One /\ AllBacked /\ Outstanding
    <3>1. LET q == FailRequest(w, e, retryable, MaxDelay) IN
            q.worker = w /\ q.job = e.job /\ q.op # "complete"
      BY DEF FailRequest
    <3>2. "failing" \in Phases \ {"running"}
      BY DEF Phases
    <3> QED BY <1>10, <2>2, <3>1, <3>2
  <2>3. ASSUME NEW retryable \in BOOLEAN, HandlerThrows(w, e, retryable, MaxDelay)
        PROVE  One /\ AllBacked /\ Outstanding
    BY <2>2, <2>3 DEF HandlerThrows
  <2>4. CASE Beat(w, e) /\ ~Holds(w, e.job)
    BY <2>2, <2>4 DEF Beat, Interrupted
  <2> QED BY <1>9, <1>16, <2>1, <2>3, <2>4
<1>17. ASSUME UNCHANGED allVars PROVE One /\ AllBacked /\ Outstanding
  BY <1>2, <1>3, <1>5, <1>17 DEF allVars, runtimeVars
<1> HIDE DEF One, AllBacked, Outstanding
<1>18. One /\ AllBacked /\ Outstanding
  BY <1>3, <1>6, <1>7, <1>8, <1>12, <1>13, <1>14, <1>15, <1>16, <1>17 DEF RuntimeNext, TimeOut
<1> QED BY <1>18 DEF One, AllBacked, Outstanding

-----------------------------------------------------------------------------
LEMMA RuntimeInitially == RuntimeInit => RuntimeTypeOK /\ LedgerExplainsJob /\ RuntimeInv
<1> SUFFICES ASSUME RuntimeInit PROVE RuntimeTypeOK /\ LedgerExplainsJob /\ RuntimeInv
  OBVIOUS
<1>1. RuntimeTypeOK
  BY Members DEF RuntimeInit, RuntimeTypeOK, Init, TypeOK, NoJob, NoAttempt, Job, Attempt
<1>2. LedgerExplainsJob
  BY InitIInv DEF RuntimeInit
<1>3. SuccessIsReal
  BY DEF RuntimeInit, Init, NoJob, SuccessIsReal
<1>4. RuntimeInv
  BY <1>3 DEF RuntimeInit, RuntimeInv, OnePerJob, OneRequest
<1> QED BY <1>1, <1>2, <1>4

\* The workers' executions and requests, and the history of the store they act on,
\* are consistent in every state.
THEOREM RuntimeAlwaysConsistent ==
  RuntimeSpec => [](RuntimeTypeOK /\ LedgerExplainsJob /\ RuntimeInv)
<1> DEFINE Inv == RuntimeTypeOK /\ LedgerExplainsJob /\ RuntimeInv
<1>1. Inv /\ [RuntimeNext]_allVars => Inv'
  <2> SUFFICES ASSUME Inv, [RuntimeNext]_allVars PROVE Inv'
    OBVIOUS
  <2>1. RuntimeTypeOK'
    BY RuntimeTypeInductive
  <2>2. LedgerExplainsJob'
    BY StoreStep, LedgerInductive DEF RuntimeTypeOK
  <2>3. RuntimeInv'
    BY <2>1, RuntimeInvInductive
  <2> QED BY <2>1, <2>2, <2>3
<1> QED BY <1>1, RuntimeInitially, PTL DEF RuntimeSpec

\* Two executions with a live lease on one job: the earlier attempt was given back,
\* which takes a late request.
LEMMA ConsistentIsExclusive ==
  RuntimeTypeOK /\ LedgerExplainsJob /\ RuntimeInv => ExclusiveWhileHeld
<1> SUFFICES ASSUME RuntimeTypeOK, LedgerExplainsJob, RuntimeInv,
                    NEW w \in Workers, NEW v \in Workers, NEW e \in exec[w], NEW f \in exec[v],
                    e.job = f.job, e.phase = "running", f.phase = "running",
                    e.held > 0, f.held > 0, <<w, e>> # <<v, f>>
             PROVE  /\ LateRequests /\ w # v
                    /\ \E given \in {e, f} : attempts[e.job][given.attempt].outcome = "retry"
  BY DEF ExclusiveWhileHeld
<1>1. /\ TypeOK /\ e \in Execution /\ f \in Execution /\ Backed(w, e) /\ Backed(v, f)
      /\ e.job \in Jobs
  BY ExecutionForms DEF RuntimeTypeOK, RuntimeInv
<1>2. w # v
  BY DEF RuntimeInv, OnePerJob
<1>3. e.attempt # f.attempt
  BY <1>1, <1>2 DEF Backed
<1>4. /\ e.attempt \in Int /\ f.attempt \in Int /\ jobs[e.job].attempt \in Int
      /\ e.attempt <= jobs[e.job].attempt /\ f.attempt <= jobs[e.job].attempt
      /\ e.attempt \in AttemptNumbers /\ f.attempt \in AttemptNumbers
  <2>1. e.attempt \in AttemptNumbers /\ f.attempt \in AttemptNumbers
        /\ jobs[e.job].attempt \in Int
    BY <1>1, AttemptRange, ExecutionForms
  <2>2. e.attempt <= jobs[e.job].attempt
    BY <1>1, CurrentAttempt
  <2>3. f.attempt <= jobs[e.job].attempt
    BY <1>1, CurrentAttempt
  <2> QED BY <2>1, <2>2, <2>3 DEF AttemptNumbers
<1>5. PICK given \in {e, f} : given.attempt < jobs[e.job].attempt
  BY <1>3, <1>4
<1>6. attempts[e.job][given.attempt].outcome \in {"retry", "lease_expired"}
  BY <1>1, <1>4, <1>5 DEF LedgerExplainsJob, Explains
<1>7. attempts[e.job][given.attempt].outcome = "retry" /\ LateRequests
  BY <1>1, <1>6 DEF Backed
<1> QED BY <1>2, <1>7

\* Whatever is lost, late or crashes, no handler shares its job with another while
\* both know their lease to be live, unless a late request of one of them gave its
\* attempt back; where requests are never late, none ever does.
THEOREM HandlersAreExclusive == RuntimeSpec => []RuntimeInvariant
<1>1. RuntimeTypeOK /\ LedgerExplainsJob /\ RuntimeInv => RuntimeInvariant
  BY ConsistentIsExclusive DEF RuntimeInvariant
<1> QED BY <1>1, RuntimeAlwaysConsistent, PTL

\* A job that succeeded was returned by a handler of the worker of its last attempt.
THEOREM SuccessIsAlwaysReal == RuntimeSpec => []SuccessIsReal
<1>1. RuntimeTypeOK /\ LedgerExplainsJob /\ RuntimeInv => SuccessIsReal
  BY DEF RuntimeInv
<1> QED BY <1>1, RuntimeAlwaysConsistent, PTL

\* The worker processes never make the store do anything but serve its requests:
\* what is proved of the queue holds with them.
THEOREM WorkersUseTheQueue == RuntimeSpec => Spec
<1>1. RuntimeInit => Init
  BY DEF RuntimeInit
<1>2. RuntimeTypeOK /\ [RuntimeNext]_allVars => [Next]_vars
  BY StoreStep
<1> QED BY <1>1, <1>2, RuntimeAlwaysConsistent, PTL DEF Spec, RuntimeSpec

-----------------------------------------------------------------------------
(* The store: rows of provider events.                                     *)

LEMMA EventMembers ==
  /\ 0 \in EventLeases /\ EventTicks \in EventLeases /\ EventTicks > 0
  /\ 0 \in EventDelays
  /\ 0 \in EventAttemptCounts /\ 1 \in EventAttemptCounts
  /\ Terminal \subseteq EventStates
  /\ {"absent", "received", "processing"} \subseteq EventStates
BY EventAssumption DEF EventLeases, EventDelays, EventAttemptCounts, EventStates

LEMMA ClaimedRow ==
  ASSUME NEW row \in Event, NEW t \in EventTokens, row.attempts < EventAttempts
  PROVE  /\ Claimed(row, t) \in Event
         /\ Claimed(row, t).state = "processing"
         /\ Claimed(row, t).token = t
         /\ Claimed(row, t).verified = row.verified
         /\ Claimed(row, t).attempts = row.attempts + 1
<1>1. row.attempts \in EventAttemptCounts /\ row.attempts + 1 \in EventAttemptCounts
  BY EventAssumption DEF Event, EventAttemptCounts
<1> QED BY <1>1, EventMembers DEF Claimed, Event

LEMMA FinishedRow ==
  ASSUME NEW row \in Event, NEW s \in EventStates, NEW d \in EventDelays
  PROVE  /\ Finished(row, s, d) \in Event
         /\ Finished(row, s, d).state = s
         /\ Finished(row, s, d).token = Null
         /\ Finished(row, s, d).verified = row.verified
         /\ Finished(row, s, d).attempts = row.attempts
BY EventMembers DEF Finished, Event

LEMMA ElapsedRow ==
  ASSUME NEW row \in Event
  PROVE  /\ ElapsedEvent(row) \in Event
         /\ ElapsedEvent(row).state = row.state
         /\ ElapsedEvent(row).token = row.token
         /\ ElapsedEvent(row).verified = row.verified
         /\ ElapsedEvent(row).attempts = row.attempts
<1>1. row.lease \in EventLeases /\ row.wait \in EventDelays
  BY DEF Event
<1>2. (IF row.lease = 0 THEN 0 ELSE row.lease - 1) \in EventLeases
  BY <1>1, EventAssumption DEF EventLeases
<1>3. (IF row.wait = 0 THEN 0 ELSE row.wait - 1) \in EventDelays
  BY <1>1, EventAssumption DEF EventDelays
<1> QED BY <1>2, <1>3 DEF ElapsedEvent, Event

LEMMA NewRow ==
  ASSUME NEW p \in Payloads, NEW v \in BOOLEAN
  PROVE  /\ NewEvent(p, v) \in Event
         /\ NewEvent(p, v).token = Null
         /\ NewEvent(p, v).verified = v
         /\ NewEvent(p, v).attempts = 0
BY EventMembers DEF NewEvent, NoEvent, Event

LEMMA StateOfRow ==
  ASSUME NEW row \in Event, NEW s \in EventStates
  PROVE  /\ [row EXCEPT !.state = s] \in Event
         /\ [row EXCEPT !.state = s].state = s
         /\ [row EXCEPT !.state = s].token = row.token
         /\ [row EXCEPT !.state = s].verified = row.verified
         /\ [row EXCEPT !.state = s].attempts = row.attempts
BY DEF Event

LEMMA RecordedRow ==
  ASSUME NEW p \in Payloads, NEW v \in BOOLEAN, NEW s \in {"rejected", "received"}
  PROVE  /\ [NewEvent(p, v) EXCEPT !.state = s] \in Event
         /\ [NewEvent(p, v) EXCEPT !.state = s].state = s
         /\ [NewEvent(p, v) EXCEPT !.state = s].token = Null
         /\ [NewEvent(p, v) EXCEPT !.state = s].verified = v
<1>1. s \in EventStates
  BY EventMembers DEF Terminal
<1> DEFINE row == NewEvent(p, v)
<1>2. row \in Event /\ row.token = Null /\ row.verified = v
  BY NewRow
<1> HIDE DEF row
<1>3. [row EXCEPT !.state = s] \in Event /\ [row EXCEPT !.state = s].state = s
      /\ [row EXCEPT !.state = s].token = row.token
      /\ [row EXCEPT !.state = s].verified = row.verified
  BY <1>1, <1>2, StateOfRow
<1>4. QED BY <1>2, <1>3 DEF row

-----------------------------------------------------------------------------
(* The inductive invariant: what a row owes to the grants of its event.    *)

RowOK(row, e, given) ==
  /\ row \in Event
  /\ row.state = "processing" <=> row.token # Null
  /\ row.state \in {"received", "processing"} => row.verified
  /\ \A g \in given :
       g.event = e =>
         /\ row.state # "absent"
         /\ row.verified
         /\ g.attempt <= row.attempts
         /\ row.token = g.token => g.attempt = row.attempts

GrantType == [event : Events, token : EventTokens, attempt : EventAttemptCounts]

EventInv ==
  /\ DOMAIN events = Events /\ events = [e \in Events |-> events[e]]
  /\ grants \subseteq GrantType
  /\ \A e \in Events : RowOK(events[e], e, grants)

LEMMA EventInvImplies ==
  EventInv => EventTypeOK /\ TokenIsLatestGrant /\ UnverifiedNeverGranted
<1> SUFFICES ASSUME EventInv PROVE EventTypeOK /\ TokenIsLatestGrant /\ UnverifiedNeverGranted
  OBVIOUS
<1>1. EventTypeOK
  BY DEF EventInv, RowOK, EventTypeOK, GrantType
<1>2. TokenIsLatestGrant
  BY DEF EventInv, RowOK, TokenIsLatestGrant
<1>3. UnverifiedNeverGranted
  BY DEF EventInv, RowOK, UnverifiedNeverGranted, GrantType
<1> QED BY <1>1, <1>2, <1>3

LEMMA EventInvInitially == EventInit => EventInv
<1> SUFFICES ASSUME EventInit PROVE EventInv
  OBVIOUS
<1>1. NoEvent \in Event /\ NoEvent.state = "absent" /\ NoEvent.token = Null
  BY EventMembers DEF NoEvent, Event
<1> QED BY <1>1 DEF EventInit, EventInv, RowOK

\* A step that changes one row and grants nothing.
LEMMA RowStep ==
  ASSUME EventInv, NEW e \in Events, NEW row,
         RowOK(row, e, grants), events' = [events EXCEPT ![e] = row], UNCHANGED grants
  PROVE  EventInv'
<1>1. \A f \in Events : events'[f] = IF f = e THEN row ELSE events[f]
  BY DEF EventInv
<1>2. DOMAIN events' = Events /\ events' = [f \in Events |-> events'[f]]
  BY DEF EventInv
<1> QED BY <1>1, <1>2 DEF EventInv

\* A step that grants a claim of one event under a fresh token.
LEMMA GrantStep ==
  ASSUME EventInv, NEW e \in Events, NEW t \in EventTokens, Fresh(t), NEW row \in Event,
         row.attempts < EventAttempts, row.verified,
         \A g \in grants : g.event = e => g.attempt <= row.attempts,
         events' = [events EXCEPT ![e] = Claimed(row, t)],
         grants' = grants \cup {[event |-> e, token |-> t, attempt |-> row.attempts + 1]}
  PROVE  EventInv'
<1> DEFINE grant == [event |-> e, token |-> t, attempt |-> row.attempts + 1]
           after == Claimed(row, t)
<1>1. row.attempts \in EventAttemptCounts /\ row.attempts + 1 \in EventAttemptCounts
  BY EventAssumption DEF Event, EventAttemptCounts
<1>2. /\ after \in Event /\ after.state = "processing" /\ after.token = t
      /\ after.verified /\ after.attempts = row.attempts + 1
  BY ClaimedRow
<1>3. /\ grant \in GrantType /\ grant.event = e /\ grant.token = t
      /\ grant.attempt = row.attempts + 1
  BY <1>1 DEF GrantType
<1>4. grants' = grants \cup {grant} /\ events' = [events EXCEPT ![e] = after]
  OBVIOUS
<1> HIDE DEF grant, after
<1>5. grants' \subseteq GrantType
  BY <1>3, <1>4 DEF EventInv
<1>6. RowOK(after, e, grants')
  <2>1. t # Null
    BY EventAssumption
  <2>2. \A g \in grants : g.event = e => g.attempt <= row.attempts + 1 /\ g.token # t
    BY <1>1 DEF Fresh, EventInv, GrantType, EventAttemptCounts
  <2> QED BY <1>2, <1>3, <1>4, <1>1, <2>1, <2>2 DEF RowOK, EventAttemptCounts
<1>7. ASSUME NEW f \in Events, f # e
      PROVE  RowOK(events[f], f, grants')
  BY <1>3, <1>4, <1>7 DEF RowOK, EventInv
<1>8. \A f \in Events : events'[f] = IF f = e THEN after ELSE events[f]
  BY <1>4 DEF EventInv
<1>9. DOMAIN events' = Events /\ events' = [f \in Events |-> events'[f]]
  BY <1>4 DEF EventInv
<1> QED BY <1>5, <1>6, <1>7, <1>8, <1>9 DEF EventInv

LEMMA EventInvInductive == EventInv /\ [EventNext]_eventVars => EventInv'
<1> SUFFICES ASSUME EventInv, [EventNext]_eventVars PROVE EventInv'
  OBVIOUS
<1>0. \A e \in Events : events[e] \in Event /\ RowOK(events[e], e, grants)
  BY DEF EventInv, RowOK
<1>1. ASSUME NEW e \in Events, NEW p \in Payloads, NEW t \in EventTokens, ClaimNew(e, p, t)
      PROVE  EventInv'
  <2>1. \A g \in grants : g.event # e
    BY <1>0, <1>1 DEF ClaimNew, RowOK
  <2>2. NewEvent(p, TRUE) \in Event /\ NewEvent(p, TRUE).verified = TRUE
        /\ NewEvent(p, TRUE).attempts = 0
    BY NewRow
  <2>3. grants' = grants \cup {[event |-> e, token |-> t,
                                attempt |-> NewEvent(p, TRUE).attempts + 1]}
    <3>1. grants' = grants \cup {[event |-> e, token |-> t, attempt |-> 1]}
      BY <1>1 DEF ClaimNew
    <3>2. ASSUME NEW n, n = 0
          PROVE  n + 1 = 1
      BY <3>2
    <3>3. NewEvent(p, TRUE).attempts + 1 = 1
      BY <2>2, <3>2
    <3> HIDE DEF NewEvent
    <3> QED BY <3>1, <3>3
  <2>4. 0 < EventAttempts
    BY EventAssumption
  <2>5. events' = [events EXCEPT ![e] = Claimed(NewEvent(p, TRUE), t)] /\ Fresh(t)
    BY <1>1 DEF ClaimNew
  <2> HIDE DEF NewEvent
  <2> QED BY <2>1, <2>2, <2>3, <2>4, <2>5, GrantStep
<1>2. ASSUME NEW e \in Events, NEW p \in Payloads, NEW v \in BOOLEAN, NEW t \in EventTokens,
             Reclaim(e, p, v, t)
      PROVE  EventInv'
  <2>1. events[e].state \in {"received", "processing"}
    BY <1>2 DEF Reclaim, Lapsed, Due
  <2>2. events[e].verified /\ events[e].attempts < EventAttempts
    BY <1>0, <1>2, <2>1, EventAssumption DEF RowOK, Reclaim, Exhausted, Event, EventAttemptCounts
  <2>3. \A g \in grants : g.event = e => g.attempt <= events[e].attempts
    BY <1>0 DEF RowOK
  <2> QED BY <1>0, <1>2, <2>2, <2>3, GrantStep DEF Reclaim
<1>3. ASSUME NEW e \in Events, NEW s \in Terminal \cup {"received"}, NEW d \in EventDelays,
             events[e].state \in {"received", "processing"},
             events' = [events EXCEPT ![e] = Finished(@, s, d)], UNCHANGED grants
      PROVE  EventInv'
  <2>1. s \in EventStates /\ s \notin {"absent", "processing"}
    BY EventMembers DEF Terminal
  <2>2. RowOK(Finished(events[e], s, d), e, grants)
    <3>1. events[e].verified /\ Null \notin EventTokens
      BY <1>0, <1>3, EventAssumption DEF RowOK
    <3>2. \A g \in grants : g.token # Null
      BY EventAssumption DEF EventInv, GrantType
    <3> QED BY <1>0, <2>1, <3>1, <3>2, FinishedRow DEF RowOK
  <2>3. events' = [events EXCEPT ![e] = Finished(events[e], s, d)]
    BY <1>3
  <2> QED BY <1>3, <2>2, <2>3, RowStep
<1>4. \A e \in Events : events[e].wait \in EventDelays
  BY <1>0 DEF Event
<1>5. ASSUME NEW e \in Events, NEW p \in Payloads, NEW v \in BOOLEAN,
             ClaimExhausted(e, p, v)
      PROVE  EventInv'
  BY <1>3, <1>4, <1>5 DEF ClaimExhausted, Lapsed, Due, Terminal
<1>6. ASSUME NEW e \in Events, NEW t \in EventTokens, FinishProcessed(e, t) \/ FinishFailed(e, t)
      PROVE  EventInv'
  BY <1>3, <1>4, <1>6 DEF FinishProcessed, FinishFailed, HoldsEvent, Terminal
<1>7. ASSUME NEW e \in Events, NEW t \in EventTokens, NEW d \in EventDelays, FinishRetry(e, t, d)
      PROVE  EventInv'
  <2>1. CASE Exhausted(e)
    BY <1>3, <1>4, <1>7, <2>1 DEF FinishRetry, HoldsEvent, Terminal
  <2>2. CASE ~Exhausted(e)
    <3>1. /\ events' = [events EXCEPT ![e] = Finished(@, "received", d)]
          /\ events[e].state = "processing" /\ UNCHANGED grants
      BY <1>7, <2>2 DEF FinishRetry, HoldsEvent
    <3> QED BY <1>3, <3>1
  <2> QED BY <2>1, <2>2
<1>8. ASSUME NEW e \in Events, NEW p \in Payloads, RecordRejected(e, p) \/ RecordReceived(e, p)
      PROVE  EventInv'
  <2>1. \A g \in grants : g.event # e
    BY <1>0, <1>8 DEF RecordRejected, RecordReceived, RowOK
  <2>2. RowOK([NewEvent(p, FALSE) EXCEPT !.state = "rejected"], e, grants)
    BY <2>1, RecordedRow DEF RowOK
  <2>3. RowOK([NewEvent(p, TRUE) EXCEPT !.state = "received"], e, grants)
    BY <2>1, RecordedRow DEF RowOK
  <2> QED BY <1>8, <2>2, <2>3, RowStep DEF RecordRejected, RecordReceived
<1>9. ASSUME NEW e \in Events, NEW s \in {"processed", "failed"}, Mark(e, s)
      PROVE  EventInv'
  <2>1. s \in EventStates
    BY EventMembers DEF Terminal
  <2>2. events[e].token = Null
    BY <1>0, <1>9 DEF Mark, RowOK
  <2>3. RowOK([events[e] EXCEPT !.state = s], e, grants)
    BY <1>0, <2>1, <2>2, StateOfRow DEF RowOK
  <2>4. events' = [events EXCEPT ![e] = [events[e] EXCEPT !.state = s]] /\ UNCHANGED grants
    BY <1>9 DEF Mark
  <2> QED BY <2>3, <2>4, RowStep
<1>10. CASE EventTick
  <2>1. \A e \in Events : events'[e] = ElapsedEvent(events[e])
    BY <1>10 DEF EventTick
  <2>2. \A e \in Events : RowOK(ElapsedEvent(events[e]), e, grants)
    BY <1>0, ElapsedRow DEF RowOK
  <2>3. DOMAIN events' = Events /\ events' = [e \in Events |-> events'[e]]
    BY <1>10 DEF EventTick
  <2>4. grants' = grants
    BY <1>10 DEF EventTick
  <2> QED BY <2>1, <2>2, <2>3, <2>4 DEF EventInv
<1>11. CASE UNCHANGED eventVars
  BY <1>11 DEF eventVars, EventInv
<1> QED
  BY <1>1, <1>2, <1>5, <1>6, <1>7, <1>8, <1>9, <1>10, <1>11 DEF EventNext

LEMMA EventInvAlways == EventSpec => []EventInv
BY EventInvInitially, EventInvInductive, PTL DEF EventSpec

-----------------------------------------------------------------------------
\* Rows keep their type and the table's check constraint.
THEOREM EventTypeCorrect == EventSpec => []EventTypeOK
BY EventInvAlways, EventInvImplies, PTL

\* Every holder but the last has been fenced off by the token's rotation.
THEOREM TokensAreFenced == EventSpec => []TokenIsLatestGrant
BY EventInvAlways, EventInvImplies, PTL

\* An event whose signature did not verify is never handed to a handler.
THEOREM OnlyVerifiedEventsAreGranted == EventSpec => []UnverifiedNeverGranted
BY EventInvAlways, EventInvImplies, PTL

\* What an operation of the store does to the row of another event, and to a
\* row whose outcome is fixed: nothing.
LEMMA OutcomeStep ==
  ASSUME EventInv, [EventNext]_eventVars, NEW f \in Events, events[f].state \in Terminal
  PROVE  events'[f].state = events[f].state
<1>1. events[f].state \notin {"absent", "received", "processing"}
  BY DEF Terminal
<1>2. DOMAIN events = Events
  BY DEF EventInv
<1>3. CASE EventTick
  BY <1>3, ElapsedRow DEF EventTick, EventInv, RowOK
<1>4. CASE UNCHANGED eventVars
  BY <1>4 DEF eventVars
<1>5. ASSUME NEW e \in Events, NEW p \in Payloads,
             RecordRejected(e, p) \/ RecordReceived(e, p)
             \/ (\E v \in BOOLEAN : ClaimExhausted(e, p, v))
      PROVE  events'[f].state = events[f].state
  <2>1. e # f
    BY <1>1, <1>5 DEF RecordRejected, RecordReceived, ClaimExhausted, Lapsed, Due
  <2> QED BY <1>2, <1>5, <2>1 DEF RecordRejected, RecordReceived, ClaimExhausted
<1>6. ASSUME NEW e \in Events, NEW p \in Payloads, NEW t \in EventTokens,
             ClaimNew(e, p, t) \/ (\E v \in BOOLEAN : Reclaim(e, p, v, t))
      PROVE  events'[f].state = events[f].state
  <2>1. e # f
    BY <1>1, <1>6 DEF ClaimNew, Reclaim, Lapsed, Due
  <2> QED BY <1>2, <1>6, <2>1 DEF ClaimNew, Reclaim
<1>7. ASSUME NEW e \in Events, NEW t \in EventTokens,
             FinishProcessed(e, t) \/ FinishFailed(e, t)
             \/ (\E d \in EventDelays : FinishRetry(e, t, d))
      PROVE  events'[f].state = events[f].state
  <2>1. e # f
    BY <1>1, <1>7 DEF FinishProcessed, FinishFailed, FinishRetry, HoldsEvent
  <2> QED BY <1>2, <1>7, <2>1 DEF FinishProcessed, FinishFailed, FinishRetry
<1>8. ASSUME NEW e \in Events, NEW s \in {"processed", "failed"}, Mark(e, s)
      PROVE  events'[f].state = events[f].state
  <2>1. e # f
    BY <1>1, <1>8 DEF Mark
  <2> QED BY <1>2, <1>8, <2>1 DEF Mark
<1> QED BY <1>3, <1>4, <1>5, <1>6, <1>7, <1>8 DEF EventNext

\* No handler is given an event while an earlier claim of it is alive.
THEOREM LiveClaimsExclude == EventSpec => OneLiveClaim
<1> DEFINE Given(G, e) == {g \in G : g.event = e}
           Excluded == \A e \in Events : Given(grants', e) # Given(grants, e)
                         => events[e].state # "processing" \/ events[e].lease = 0
<1>1. [EventNext]_eventVars => Excluded
  <2> SUFFICES ASSUME [EventNext]_eventVars PROVE Excluded
    OBVIOUS
  <2>1. CASE UNCHANGED grants
    BY <2>1
  <2>2. ASSUME NEW e \in Events, NEW g, g.event = e, grants' = grants \cup {g},
               events[e].state # "processing" \/ events[e].lease = 0
        PROVE  Excluded
    BY <2>2
  <2>3. ASSUME NEW e \in Events, NEW p \in Payloads, NEW t \in EventTokens, ClaimNew(e, p, t)
        PROVE  Excluded
    <3>1. grants' = grants \cup {[event |-> e, token |-> t, attempt |-> 1]}
      BY <2>3 DEF ClaimNew
    <3>2. events[e].state # "processing"
      BY <2>3 DEF ClaimNew
    <3> HIDE DEF Excluded
    <3> QED BY <2>2, <3>1, <3>2
  <2>4. ASSUME NEW e \in Events, NEW p \in Payloads, NEW t \in EventTokens, NEW v \in BOOLEAN,
               Reclaim(e, p, v, t)
        PROVE  Excluded
    <3>1. grants' = grants \cup
            {[event |-> e, token |-> t, attempt |-> events[e].attempts + 1]}
      BY <2>4 DEF Reclaim
    <3>2. events[e].state # "processing" \/ events[e].lease = 0
      BY <2>4 DEF Reclaim, Lapsed, Due
    <3> HIDE DEF Excluded
    <3> QED BY <2>2, <3>1, <3>2
  <2> HIDE DEF Excluded
  <2> QED
    BY <2>1, <2>3, <2>4 DEF EventNext, eventVars, RecordRejected, RecordReceived,
       ClaimExhausted, FinishProcessed, FinishFailed, FinishRetry, Mark, EventTick
<1> QED BY <1>1, PTL DEF EventSpec, OneLiveClaim

\* The outcome of an event is final.
THEOREM OutcomesAreFinal == EventSpec => OutcomeIsFinal
<1>1. EventInv /\ [EventNext]_eventVars =>
        \A e \in Events : events[e].state \in Terminal => events'[e].state = events[e].state
  BY OutcomeStep
<1> QED BY <1>1, EventInvAlways, PTL DEF EventSpec, OutcomeIsFinal

\* Neither a claim nor an outcome is ever taken from an event.
THEOREM EventsAreNeverTaken == EventSpec => EventsAreKept
BY LiveClaimsExclude, OutcomesAreFinal DEF EventsAreKept

\* The token of an event fences all but its latest claim, and only verified events are
\* claimed.
THEOREM EventsAreSound == EventSpec => []EventsInvariant
BY EventTypeCorrect, TokensAreFenced, OnlyVerifiedEventsAreGranted, PTL DEF EventsInvariant

-----------------------------------------------------------------------------
(* The handlers.                                                           *)

(***************************************************************************)
(* The inductive invariant.  What a handler knows of its claim is old: the *)
(* row may have moved on.  It is tied to the history of grants instead:    *)
(* each handler carries a grant of its event, no two carry the same token, *)
(* and the steps it has done are in effect.                                *)
(***************************************************************************)
Busy(r) == handling[r].phase # "idle"

CarriesGrant(r) ==
  /\ \E g \in grants : g.event = handling[r].event /\ g.token = handling[r].token
  /\ handling[r].step <= applied[handling[r].event]

OwnToken(r, s) == handling[r].token = handling[s].token => r = s

IntakeInv ==
  /\ EventInv
  /\ handling \in [Requests -> Handling]
  /\ applied \in [Events -> 0 .. Steps]
  /\ acked \subseteq Events
  /\ \A r \in Requests : Busy(r) => CarriesGrant(r)
  /\ \A r, s \in Requests : Busy(r) /\ Busy(s) => OwnToken(r, s)
  /\ \A e \in Events : events[e].state = "processed" => applied[e] = Steps
  /\ \A e \in acked : events[e].state = "processed"

LEMMA IntakeInvImplies == IntakeInv => IntakeInvariant
<1> SUFFICES ASSUME IntakeInv PROVE IntakeInvariant
  OBVIOUS
<1>1. IntakeTypeOK
  BY EventInvImplies DEF IntakeInv, IntakeTypeOK
<1>2. AckIsEarned
  BY DEF IntakeInv, AckIsEarned
<1>3. LeasedHandlersExclude
  BY DEF IntakeInv, LeasedHandlersExclude, HoldsEvent, Busy, OwnToken
<1> QED BY <1>1, <1>2, <1>3 DEF IntakeInvariant

LEMMA IdleForm == Idle \in Handling /\ Idle.phase = "idle"
BY StepsAssumption DEF Idle, Handling

LEMMA IntakeInvInitially == IntakeInit => IntakeInv
<1> SUFFICES ASSUME IntakeInit PROVE IntakeInv
  OBVIOUS
<1>1. EventInv
  BY EventInvInitially DEF IntakeInit
<1>2. \A r \in Requests : handling[r] = Idle
  BY DEF IntakeInit
<1>3. \A e \in Events : events[e].state # "processed"
  BY DEF IntakeInit, EventInit, NoEvent
<1>4. handling \in [Requests -> Handling] /\ applied \in [Events -> 0 .. Steps]
  BY IdleForm, StepsAssumption DEF IntakeInit
<1>5. acked = {}
  BY DEF IntakeInit
<1> QED BY <1>1, <1>2, <1>3, <1>4, <1>5, IdleForm DEF IntakeInv, Busy

LEMMA BusyForm ==
  ASSUME IntakeInv, NEW r \in Requests, Busy(r)
  PROVE  /\ handling[r] \in Handling
         /\ handling[r].event \in Events /\ handling[r].token \in EventTokens
         /\ CarriesGrant(r)
BY DEF IntakeInv, CarriesGrant, EventInv, GrantType

\* A step of a handler is a request to the store, or none.
LEMMA HandlerStep == IntakeInv /\ [IntakeNext]_intakeVars => [EventNext]_eventVars
<1> SUFFICES ASSUME IntakeInv, [IntakeNext]_intakeVars PROVE [EventNext]_eventVars
  OBVIOUS
<1>0. TheBody \in Payloads /\ TRUE \in BOOLEAN /\ EventDelay \in EventDelays
  BY PayloadsAssumption, EventAssumption DEF TheBody, EventDelays
<1>1. ASSUME NEW r \in Requests, NEW e \in Events, Receive(r, e)
      PROVE  EventNext
  BY <1>0, <1>1 DEF Receive, EventNext
<1>2. ASSUME NEW e \in Events, ReceiveExhausted(e)
      PROVE  EventNext
  BY <1>0, <1>2 DEF ReceiveExhausted, EventNext
<1>3. ASSUME NEW r \in Requests, Finish(r)
      PROVE  [EventNext]_eventVars
  <2>1. handling[r].event \in Events /\ handling[r].token \in EventTokens
    BY <1>3, BusyForm DEF Finish, Busy
  <2> QED BY <1>3, <2>1 DEF Finish, EventNext, eventVars
<1>4. ASSUME NEW r \in Requests, FinishFailing(r)
      PROVE  [EventNext]_eventVars
  <2>1. handling[r].event \in Events /\ handling[r].token \in EventTokens
    BY <1>4, BusyForm DEF FinishFailing, Busy
  <2> QED BY <1>0, <1>4, <2>1 DEF FinishFailing, EventNext, eventVars
<1>5. ASSUME NEW r \in Requests, Apply(r) \/ ApplyFails(r) \/ Die(r)
      PROVE  UNCHANGED eventVars
  BY <1>5 DEF Apply, ApplyFails, Die, eventVars
<1>6. ASSUME NEW e \in Events, ReceiveDuplicate(e)
      PROVE  UNCHANGED eventVars
  BY <1>6 DEF ReceiveDuplicate, eventVars
<1>7. CASE IntakeTick
  BY <1>7 DEF IntakeTick, EventNext
<1>8. CASE UNCHANGED intakeVars
  BY <1>8 DEF intakeVars, eventVars
<1> QED
  BY <1>1, <1>2, <1>3, <1>4, <1>5, <1>6, <1>7, <1>8 DEF IntakeNext

\* A handler that comes back to idle, or stays as it is, disturbs nobody.
LEMMA HandlersLeave ==
  ASSUME IntakeInv, EventInv', [EventNext]_eventVars, NEW r \in Requests,
         handling' = handling \/ handling' = [handling EXCEPT ![r] = Idle],
         UNCHANGED <<grants, applied>>, acked' \subseteq Events,
         \A e \in Events : events'[e].state = "processed" => applied[e] = Steps,
         \A e \in acked' : events'[e].state = "processed"
  PROVE  IntakeInv'
<1>1. handling' \in [Requests -> Handling]
  BY IdleForm DEF IntakeInv
<1>2. \A s \in Requests : Busy(s)' => Busy(s) /\ handling'[s] = handling[s]
  BY IdleForm DEF IntakeInv, Busy
<1>3. \A s \in Requests : Busy(s)' => CarriesGrant(s)'
  BY <1>2 DEF IntakeInv, CarriesGrant
<1>4. \A s, q \in Requests : Busy(s)' /\ Busy(q)' => OwnToken(s, q)'
  BY <1>2 DEF IntakeInv, OwnToken
<1> QED BY <1>1, <1>3, <1>4 DEF IntakeInv

\* A claim: one more grant, one more busy handler that alone carries it.
LEMMA HandlerClaims ==
  ASSUME IntakeInv, EventInv', NEW r \in Requests, NEW e \in Events, Receive(r, e)
  PROVE  IntakeInv'
<1>1. PICK t \in EventTokens :
        /\ ClaimNew(e, TheBody, t) \/ Reclaim(e, TheBody, TRUE, t)
        /\ handling' = [handling EXCEPT ![r] =
             [phase |-> "applying", event |-> e, token |-> t, step |-> 0]]
  BY DEF Receive
<1>2. /\ handling' \in [Requests -> Handling]
      /\ handling'[r].event = e /\ handling'[r].token = t /\ handling'[r].step = 0
      /\ \A s \in Requests \ {r} : handling'[s] = handling[s]
  BY <1>1, StepsAssumption DEF IntakeInv, Handling
<1>3. \A s \in Requests : Busy(s) => handling[s].token # t
  BY <1>1, BusyForm DEF ClaimNew, Reclaim, Fresh, CarriesGrant
<1>4. grants \subseteq grants' /\ \E g \in grants' : g.event = e /\ g.token = t
  <2>1. PICK n : grants' = grants \cup {[event |-> e, token |-> t, attempt |-> n]}
    BY <1>1 DEF ClaimNew, Reclaim
  <2> DEFINE grant == [event |-> e, token |-> t, attempt |-> n]
  <2>2. grant.event = e /\ grant.token = t /\ grants' = grants \cup {grant}
    BY <2>1
  <2> HIDE DEF grant
  <2> QED BY <2>2
<1>5. applied' = applied /\ acked' = acked
  BY DEF Receive
<1>6. ASSUME NEW s \in Requests, Busy(s)'
      PROVE  CarriesGrant(s)'
  <2>1. CASE s = r
    <3>1. 0 <= applied[e]
      BY DEF IntakeInv
    <3> QED BY <1>2, <1>4, <1>5, <2>1, <3>1 DEF CarriesGrant
  <2>2. CASE s # r
    BY <1>2, <1>4, <1>5, <1>6, <2>2 DEF IntakeInv, CarriesGrant, Busy
  <2> QED BY <2>1, <2>2
<1>7. ASSUME NEW s \in Requests, NEW q \in Requests, Busy(s)', Busy(q)'
      PROVE  OwnToken(s, q)'
  BY <1>2, <1>3, <1>7 DEF IntakeInv, OwnToken, Busy
<1>8. /\ \A f \in Events \ {e} : events'[f] = events[f]
      /\ events'[e].state = "processing" /\ events[e].state # "processed"
  <2>1. events[e] \in Event /\ DOMAIN events = Events
    BY DEF IntakeInv, EventInv, RowOK
  <2>2. NewEvent(TheBody, TRUE) \in Event
    BY PayloadsAssumption, NewRow DEF TheBody
  <2>3. \A row \in Event : Claimed(row, t).state = "processing"
    BY DEF Claimed, Event
  <2> QED BY <1>1, <2>1, <2>2, <2>3 DEF ClaimNew, Reclaim, Lapsed, Due
<1>9. /\ \A f \in Events : events'[f].state = "processed" => applied'[f] = Steps
      /\ \A f \in acked' : events'[f].state = "processed"
  BY <1>5, <1>8 DEF IntakeInv
<1> QED BY <1>2, <1>5, <1>6, <1>7, <1>9 DEF IntakeInv

\* A step that takes effect, or fails, moves its own handler on.
LEMMA HandlerApplies ==
  ASSUME IntakeInv, EventInv', NEW r \in Requests, Apply(r) \/ ApplyFails(r)
  PROVE  IntakeInv'
<1> DEFINE e == handling[r].event
<1>1. Busy(r) /\ handling[r].phase = "applying" /\ handling[r].step < Steps
  BY DEF Apply, ApplyFails, Busy
<1>2. handling[r] \in Handling /\ e \in Events /\ CarriesGrant(r)
  BY <1>1, BusyForm
<1>3. /\ handling[r].step \in 0 .. Steps /\ handling[r].step + 1 \in 0 .. Steps
      /\ applied[e] \in 0 .. Steps
  BY <1>1, <1>2, StepsAssumption DEF IntakeInv, Handling
<1>4. /\ handling' \in [Requests -> Handling]
      /\ handling'[r].event = e /\ handling'[r].token = handling[r].token
      /\ \/ handling'[r].step = handling[r].step
         \/ Apply(r) /\ handling'[r].step = handling[r].step + 1
      /\ \A s \in Requests \ {r} : handling'[s] = handling[s]
  <2>1. CASE Apply(r)
    BY <1>2, <1>3, <2>1 DEF Apply, IntakeInv, Handling
  <2>2. CASE ApplyFails(r)
    BY <1>2, <1>3, <2>2 DEF ApplyFails, IntakeInv, Handling
  <2> QED BY <2>1, <2>2
<1>5. /\ applied' \in [Events -> 0 .. Steps]
      /\ \A f \in Events : applied[f] <= applied'[f]
      /\ Apply(r) => handling[r].step + 1 <= applied'[e]
  <2>1. CASE Apply(r)
    <3>1. applied' = [applied EXCEPT ![e] =
                        IF @ < handling[r].step + 1 THEN handling[r].step + 1 ELSE @]
      BY <2>1 DEF Apply
    <3>2. \A f \in Events : applied[f] \in 0 .. Steps
      BY DEF IntakeInv
    <3> QED BY <1>2, <1>3, <2>1, <3>1, <3>2, StepsAssumption DEF IntakeInv
  <2>2. CASE ApplyFails(r)
    <3>1. applied' = applied /\ ~Apply(r)
      BY <1>2, <1>3, <2>2, <1>1 DEF Apply, ApplyFails, IntakeInv, Handling
    <3> QED BY <3>1, StepsAssumption DEF IntakeInv
  <2> QED BY <2>1, <2>2
<1>6. events' = events /\ grants' = grants /\ acked' = acked
  BY DEF Apply, ApplyFails
<1>7. \A s \in Requests : Busy(s)' => Busy(s)
  BY <1>1, <1>4 DEF Busy
<1>8. ASSUME NEW s \in Requests, Busy(s)'
      PROVE  CarriesGrant(s)'
  <2>1. Busy(s) /\ handling[s].event \in Events /\ handling[s] \in Handling
    BY <1>7, <1>8, BusyForm
  <2>2. /\ handling[s].step \in Int /\ applied[handling[s].event] \in Int
        /\ applied'[handling[s].event] \in Int
        /\ handling[s].step <= applied[handling[s].event]
    BY <2>1, <1>5, StepsAssumption, BusyForm DEF IntakeInv, Handling, CarriesGrant
  <2>3. handling[s].step <= applied'[handling[s].event]
    BY <2>1, <2>2, <1>5
  <2>4. handling'[s].event = handling[s].event /\ handling'[s].token = handling[s].token
    BY <1>4
  <2>5. handling'[s].step <= applied'[handling[s].event]
    BY <1>4, <1>5, <2>3
  <2>6. \E g \in grants : g.event = handling[s].event /\ g.token = handling[s].token
    BY <2>1, BusyForm DEF CarriesGrant
  <2> QED BY <1>6, <2>4, <2>5, <2>6 DEF CarriesGrant
<1>9. \A s, q \in Requests : Busy(s)' /\ Busy(q)' => OwnToken(s, q)'
  BY <1>4, <1>7 DEF IntakeInv, OwnToken
<1>10. \A f \in Events : events'[f].state = "processed" => applied'[f] = Steps
  BY <1>5, <1>6, StepsAssumption DEF IntakeInv
<1>11. acked' \subseteq Events /\ \A f \in acked' : events'[f].state = "processed"
  BY <1>6 DEF IntakeInv
<1> HIDE DEF e
<1> QED BY <1>4, <1>5, <1>8, <1>9, <1>10, <1>11 DEF IntakeInv

\* Finishing a claim is the only way an event of these handlers is processed.
LEMMA HandlerFinishes ==
  ASSUME IntakeInv, EventInv', NEW r \in Requests, Finish(r)
  PROVE  IntakeInv'
<1> DEFINE e == handling[r].event
           t == handling[r].token
<1>1. Busy(r) /\ handling[r].step = Steps
  BY DEF Finish, Busy
<1>2. e \in Events /\ t \in EventTokens /\ CarriesGrant(r)
  BY <1>1, BusyForm
<1>3. applied[e] = Steps
  BY <1>1, <1>2, StepsAssumption DEF IntakeInv, CarriesGrant
<1>4. events[e] \in Event /\ DOMAIN events = Events
  BY <1>2 DEF IntakeInv, EventInv, RowOK
<1>5. [EventNext]_eventVars
  BY HandlerStep DEF IntakeNext
<1>6. handling' = [handling EXCEPT ![r] = Idle] /\ applied' = applied
  BY DEF Finish
<1>7. CASE FinishProcessed(e, t) /\ acked' \in {acked, acked \cup {e}}
  <2>1. /\ \A f \in Events \ {e} : events'[f] = events[f]
        /\ events'[e].state = "processed" /\ grants' = grants
    BY <1>2, <1>4, <1>7 DEF FinishProcessed, Finished, Event
  <2>2. \A f \in Events : events'[f].state = "processed" => applied[f] = Steps
    BY <1>3, <2>1 DEF IntakeInv
  <2>3. acked' \subseteq Events /\ \A f \in acked' : events'[f].state = "processed"
    BY <1>2, <1>7, <2>1 DEF IntakeInv
  <2> QED BY <1>5, <1>6, <2>1, <2>2, <2>3, HandlersLeave
<1>8. CASE UNCHANGED <<events, grants, acked>>
  <2>1. \A f \in Events : events'[f].state = "processed" => applied[f] = Steps
    BY <1>8 DEF IntakeInv
  <2>2. acked' \subseteq Events /\ \A f \in acked' : events'[f].state = "processed"
    BY <1>8 DEF IntakeInv
  <2> QED BY <1>5, <1>6, <1>8, <2>1, <2>2, HandlersLeave
<1> QED BY <1>7, <1>8 DEF Finish

\* No other request to the store makes an event processed, or takes that from one.
LEMMA HandlerGivesBack ==
  ASSUME IntakeInv, EventInv', NEW r \in Requests, FinishFailing(r) \/ Die(r)
  PROVE  IntakeInv'
<1>1. [EventNext]_eventVars
  BY HandlerStep DEF IntakeNext
<1>2. handling' = [handling EXCEPT ![r] = Idle] /\ UNCHANGED <<grants, applied, acked>>
  BY DEF FinishFailing, Die, FinishRetry
<1>3. \A f \in Events : events'[f].state = "processed" => events[f].state = "processed"
  <2>1. CASE UNCHANGED events
    BY <2>1
  <2>2. CASE FinishFailing(r) /\ FinishRetry(handling[r].event, handling[r].token, EventDelay)
    <3>1. handling[r].event \in Events /\ events[handling[r].event] \in Event
          /\ DOMAIN events = Events
      BY <2>2, BusyForm DEF FinishFailing, Busy, IntakeInv, EventInv, RowOK
    <3> QED BY <2>2, <3>1 DEF FinishRetry, Finished, Event
  <2> QED BY <2>1, <2>2 DEF FinishFailing, Die
<1>4. \A f \in acked' : f \in Events /\ events[f].state \in Terminal /\ events[f].state = "processed"
  BY <1>2 DEF IntakeInv, Terminal
<1>5. \A f \in acked' : events'[f].state = "processed"
  BY <1>1, <1>4, OutcomeStep DEF IntakeInv
<1>6. \A f \in Events : events'[f].state = "processed" => applied[f] = Steps
  BY <1>3 DEF IntakeInv
<1> QED BY <1>1, <1>2, <1>4, <1>5, <1>6, HandlersLeave

\* A request that is answered without a claim, or the passing of time.
LEMMA StoreMovesAlone ==
  ASSUME IntakeInv, EventInv', [EventNext]_eventVars,
         UNCHANGED <<handling, applied, grants>>, acked' \in SUBSET Events,
         \A f \in Events : events'[f].state = "processed" => events[f].state = "processed",
         \A f \in acked' : events[f].state = "processed"
  PROVE  IntakeInv'
<1>1. \A f \in acked' : f \in Events /\ events[f].state \in Terminal
  BY DEF Terminal
<1>2. \A f \in acked' : events'[f].state = "processed"
  BY <1>1, OutcomeStep DEF IntakeInv
<1>3. \A f \in Events : events'[f].state = "processed" => applied'[f] = Steps
  BY DEF IntakeInv
<1>4. \A r \in Requests : (Busy(r)' <=> Busy(r)) /\ (CarriesGrant(r)' <=> CarriesGrant(r))
  BY DEF Busy, CarriesGrant
<1>5. \A r, s \in Requests : OwnToken(r, s)' <=> OwnToken(r, s)
  BY DEF OwnToken
<1> QED BY <1>2, <1>3, <1>4, <1>5 DEF IntakeInv

LEMMA IntakeInvInductive == IntakeInv /\ [IntakeNext]_intakeVars => IntakeInv'
<1> SUFFICES ASSUME IntakeInv, [IntakeNext]_intakeVars PROVE IntakeInv'
  OBVIOUS
<1>1. [EventNext]_eventVars /\ EventInv
  BY HandlerStep DEF IntakeInv
<1>2. EventInv'
  BY <1>1, EventInvInductive
<1>3. \A e \in Events : events[e] \in Event
  BY DEF IntakeInv, EventInv, RowOK
<1>4. ASSUME NEW e \in Events, ReceiveExhausted(e)
      PROVE  IntakeInv'
  <2>1. \A f \in Events : events'[f].state = "processed" => events[f].state = "processed"
    <3>1. events' = [events EXCEPT ![e] = Finished(events[e], "failed", events[e].wait)]
      BY <1>4 DEF ReceiveExhausted, ClaimExhausted
    <3> QED BY <1>1, <1>3, <3>1 DEF EventInv, Finished, Event
  <2>2. UNCHANGED <<handling, applied, grants, acked>>
    BY <1>4 DEF ReceiveExhausted, ClaimExhausted
  <2> QED BY <1>1, <1>2, <2>1, <2>2, StoreMovesAlone DEF IntakeInv
<1>5. ASSUME NEW e \in Events, ReceiveDuplicate(e)
      PROVE  IntakeInv'
  BY <1>1, <1>2, <1>5, StoreMovesAlone DEF ReceiveDuplicate, IntakeInv
<1>6. CASE IntakeTick
  <2>1. \A f \in Events : events'[f].state = events[f].state
    BY <1>3, <1>6, ElapsedRow DEF IntakeTick, EventTick
  <2>2. UNCHANGED <<handling, applied, grants, acked>>
    BY <1>6 DEF IntakeTick, EventTick
  <2> QED BY <1>1, <1>2, <2>1, <2>2, StoreMovesAlone DEF IntakeInv
<1>7. CASE UNCHANGED intakeVars
  BY <1>1, <1>2, <1>7, StoreMovesAlone DEF intakeVars, IntakeInv
<1> QED
  BY <1>2, <1>4, <1>5, <1>6, <1>7, HandlerClaims, HandlerApplies, HandlerFinishes,
     HandlerGivesBack DEF IntakeNext

LEMMA IntakeInvAlways == IntakeSpec => []IntakeInv
BY IntakeInvInitially, IntakeInvInductive, PTL DEF IntakeSpec

-----------------------------------------------------------------------------
\* A provider is told that an event was handled only after every effect of it was
\* applied, and two handlers whose leases run never handle one event: whatever
\* handlers die, fail or come late.
THEOREM AcknowledgementsAreEarned == IntakeSpec => []IntakeInvariant
BY IntakeInvAlways, IntakeInvImplies, PTL

\* The handlers are callers of the store as it was proved about: what holds of
\* provider events for any callers holds under the handlers.
THEOREM HandlersUseTheStore == IntakeSpec => EventSpec
<1>1. IntakeInit => EventInit
  BY DEF IntakeInit
<1> QED BY <1>1, IntakeInvAlways, HandlerStep, PTL DEF IntakeSpec, EventSpec
=============================================================================
