---------------------------- MODULE DurableJobs ----------------------------
(***************************************************************************)
(* The durable job queue of the phone gateway: the tables private.jobs and *)
(* private.job_attempts and the service RPCs that change them, each RPC    *)
(* being one transaction and so one action.                                *)
(*                                                                         *)
(* The RPCs trust no caller: any worker identity may send any of them at   *)
(* any time, which covers delayed, duplicated and reordered requests.      *)
(* WorkerRuntime adds the worker process that sends them.                  *)
(*                                                                         *)
(* A timestamp that the code only ever compares with now() is modelled by  *)
(* the time left until it: "lease_expires_at > now()" is "lease > 0" and   *)
(* "available_at <= now()" is "wait = 0"; Tick lets time pass.             *)
(***************************************************************************)
EXTENDS Integers, FiniteSets

CONSTANTS
  Jobs,          \* row identities of private.jobs
  Keys,          \* idempotency keys, unique per (tenant, job type)
  Types,         \* job types
  TypeOf,        \* the job type (and tenant) a key belongs to
  Workers,       \* worker identities
  Capabilities,  \* the job types each worker may claim
  MaxAttempts,   \* jobs.max_attempts
  LeaseTicks,    \* p_lease_seconds
  MaxDelay,      \* longest retry delay or deferred availability
  Limit,         \* p_limit, the size of one claim batch
  None           \* SQL null

ASSUME ConstantsAssumption ==
  /\ TypeOf \in [Keys -> Types]
  /\ Capabilities \in [Workers -> SUBSET Types]
  /\ MaxAttempts \in Nat \ {0}
  /\ LeaseTicks \in Nat \ {0}
  /\ MaxDelay \in Nat
  /\ Limit \in Nat \ {0}
  /\ None \notin Workers
  /\ None \notin Keys
  /\ None \notin Jobs

VARIABLES
  jobs,      \* private.jobs, "absent" when the row was never inserted
  attempts   \* private.job_attempts, keyed by (job_id, attempt_number)

vars == <<jobs, attempts>>

Settled == {"succeeded", "dead_letter", "cancelled"}
JobStates == {"absent", "queued", "leased", "retry_wait"} \cup Settled
Closed == {"succeeded", "retry", "dead_letter", "cancelled", "lease_expired"}
AttemptNumbers == 1 .. MaxAttempts
AttemptCounts == 0 .. MaxAttempts
Leases == 0 .. LeaseTicks
Delays == 0 .. MaxDelay
Nullable(S) == S \cup {None}

Job == [state : JobStates, key : Nullable(Keys), attempt : AttemptCounts,
        owner : Nullable(Workers), lease : Leases, wait : Delays,
        replayOf : Nullable(Jobs)]
Attempt == [worker : Nullable(Workers), outcome : Closed \cup {"none", "open"}]

NoJob == [state |-> "absent", key |-> None, attempt |-> 0, owner |-> None,
          lease |-> 0, wait |-> 0, replayOf |-> None]
NoAttempt == [worker |-> None, outcome |-> "none"]

TypeOK ==
  /\ jobs \in [Jobs -> Job]
  /\ attempts \in [Jobs -> [AttemptNumbers -> Attempt]]

Init ==
  /\ jobs = [j \in Jobs |-> NoJob]
  /\ attempts = [j \in Jobs |-> [n \in AttemptNumbers |-> NoAttempt]]

-----------------------------------------------------------------------------
Exists(j) == jobs[j].state # "absent"
Free(k) == \A j \in Jobs : jobs[j].key # k
\* Mutant: a lease is taken for expired while it runs.
ExpiredWhileLeased(j) == jobs[j].state = "leased"

Expired(j) == jobs[j].state = "leased" /\ jobs[j].lease = 0

\* Mutants: the fence without the lease, and without the owner.
HoldsWithoutLease(w, j) == jobs[j].state = "leased" /\ jobs[j].owner = w
HoldsAnyWorker(w, j) == jobs[j].state = "leased" /\ jobs[j].lease > 0

\* The fence of heartbeat, complete and fail: a live lease of this worker.
Holds(w, j) ==
  /\ jobs[j].state = "leased"
  /\ jobs[j].owner = w
  /\ jobs[j].lease > 0

NewJob(k, delay, original) ==
  [NoJob EXCEPT !.state = "queued", !.key = k, !.wait = delay, !.replayOf = original]

\* The row once its lease is given up, in state s.
Released(job, s) == [job EXCEPT !.state = s, !.owner = None, !.lease = 0]

\* The attempts of j with its current one closed, if it is still open.
CloseAttempt(j, outcome) ==
  [n \in AttemptNumbers |->
     IF n = jobs[j].attempt /\ attempts[j][n].outcome = "open"
     THEN [attempts[j][n] EXCEPT !.outcome = outcome]
     ELSE attempts[j][n]]

\* civya_service_enqueue_job: ON CONFLICT DO NOTHING makes a second request
\* with the same key a read.
Enqueue(j, k, delay) ==
  /\ ~Exists(j) /\ Free(k)
  /\ jobs' = [jobs EXCEPT ![j] = NewJob(k, delay, None)]
  /\ UNCHANGED attempts

\* Mutant: the attempts are not counted against max_attempts.
ClaimableWithoutLimit(w) ==
  {j \in Jobs :
     /\ Exists(j)
     /\ TypeOf[jobs[j].key] \in Capabilities[w]
     /\ \/ jobs[j].state \in {"queued", "retry_wait"} /\ jobs[j].wait = 0
        \/ Expired(j)}

Claimable(w) ==
  {j \in Jobs :
     /\ Exists(j)
     /\ TypeOf[jobs[j].key] \in Capabilities[w]
     /\ jobs[j].attempt < MaxAttempts
     /\ \/ jobs[j].state \in {"queued", "retry_wait"} /\ jobs[j].wait = 0
        \/ Expired(j)}

\* Mutant: a lease that expires on the last attempt is not swept.
SweptJobKept(j) == jobs[j]

\* Every expired lease loses its attempt, whatever the job's type; a lease that
\* expired on the last attempt dead-letters the job.
SweptJob(j) ==
  IF Expired(j) /\ jobs[j].attempt >= MaxAttempts
  THEN Released(jobs[j], "dead_letter")
  ELSE jobs[j]

\* Mutant: a lost attempt stays open.
SweptAttemptsForgotten(j) == attempts[j]

SweptAttempts(j) ==
  IF Expired(j) THEN CloseAttempt(j, "lease_expired") ELSE attempts[j]

LeasedJob(j, w) ==
  [jobs[j] EXCEPT !.state = "leased", !.attempt = @ + 1, !.owner = w, !.lease = LeaseTicks]

\* civya_service_claim_jobs.  The batch is ordered by priority and cut at
\* p_limit, but FOR UPDATE SKIP LOCKED drops the rows other transactions hold,
\* so any claimable batch within the limit may come back, the empty one too.
Claim(w, batch) ==
  /\ batch \subseteq Claimable(w)
  /\ jobs' = [j \in Jobs |-> IF j \in batch THEN LeasedJob(j, w) ELSE SweptJob(j)]
  /\ attempts' = [j \in Jobs |->
       IF j \in batch
       THEN [SweptAttempts(j) EXCEPT ![jobs[j].attempt + 1] = [worker |-> w, outcome |-> "open"]]
       ELSE SweptAttempts(j)]

\* civya_service_heartbeat_job, when it returns true.
Heartbeat(w, j) ==
  /\ Holds(w, j)
  /\ jobs' = [jobs EXCEPT ![j].lease = LeaseTicks]
  /\ UNCHANGED attempts

\* civya_service_complete_job.
Complete(w, j) ==
  /\ Holds(w, j)
  /\ jobs' = [jobs EXCEPT ![j] = Released(@, "succeeded")]
  /\ attempts' = [attempts EXCEPT ![j] = CloseAttempt(j, "succeeded")]

\* civya_service_fail_job: retry while attempts are left, else dead-letter.
Fail(w, j, retryable, delay) ==
  /\ Holds(w, j)
  /\ LET retry == retryable /\ jobs[j].attempt < MaxAttempts IN
     /\ jobs' = [jobs EXCEPT ![j] =
          IF retry THEN [Released(@, "retry_wait") EXCEPT !.wait = delay]
                   ELSE Released(@, "dead_letter")]
     /\ attempts' = [attempts EXCEPT ![j] =
          CloseAttempt(j, IF retry THEN "retry" ELSE "dead_letter")]

\* Mutant: a settled job may be cancelled.
CancelSettled(j) ==
  /\ Exists(j) /\ jobs[j].state # "cancelled"
  /\ jobs' = [jobs EXCEPT ![j] = Released(@, "cancelled")]
  /\ attempts' = [attempts EXCEPT ![j] = CloseAttempt(j, "cancelled")]

\* civya_service_cancel_job, by a tenant admin who gives a reason.
Cancel(j) ==
  /\ Exists(j) /\ jobs[j].state \notin Settled
  /\ jobs' = [jobs EXCEPT ![j] = Released(@, "cancelled")]
  /\ attempts' = [attempts EXCEPT ![j] = CloseAttempt(j, "cancelled")]

\* civya_service_replay_job: a fresh copy under a new key, the old row untouched.
Replay(j, copy, k) ==
  /\ jobs[j].state \in {"dead_letter", "cancelled"}
  /\ ~Exists(copy) /\ Free(k) /\ TypeOf[k] = TypeOf[jobs[j].key]
  /\ jobs' = [jobs EXCEPT ![copy] = NewJob(k, 0, j)]
  /\ UNCHANGED attempts

\* One unit of time.
Elapsed(n) == IF n = 0 THEN 0 ELSE n - 1
Tick ==
  /\ \E j \in Jobs : jobs[j].lease > 0 \/ jobs[j].wait > 0
  /\ jobs' = [j \in Jobs |->
       [jobs[j] EXCEPT !.lease = Elapsed(@), !.wait = Elapsed(@)]]
  /\ UNCHANGED attempts

Next ==
  \/ \E j \in Jobs, k \in Keys, delay \in Delays : Enqueue(j, k, delay)
  \/ \E w \in Workers, batch \in {b \in SUBSET Jobs : Cardinality(b) <= Limit} : Claim(w, batch)
  \/ \E w \in Workers, j \in Jobs : Heartbeat(w, j) \/ Complete(w, j)
  \/ \E w \in Workers, j \in Jobs, retryable \in BOOLEAN, delay \in Delays :
       Fail(w, j, retryable, delay)
  \/ \E j \in Jobs : Cancel(j)
  \/ \E j, copy \in Jobs, k \in Keys : Replay(j, copy, k)
  \/ Tick

Spec == Init /\ [][Next]_vars
-----------------------------------------------------------------------------
(***************************************************************************)
(* Properties.                                                             *)
(***************************************************************************)
Last(j) == attempts[j][jobs[j].attempt]

\* What the attempt rows of a job say about the state of its row.
Explains(rows, job) ==
  LET last == rows[job.attempt] IN
  /\ \A n \in AttemptNumbers :
       /\ n > job.attempt <=> rows[n].outcome = "none"
       /\ n < job.attempt => rows[n].outcome \in {"retry", "lease_expired"}
  /\ job.lease > 0 => job.state = "leased" /\ last.outcome = "open"
  /\ job.state \in {"absent", "queued"} => job.attempt = 0
  /\ job.attempt = 0 => job.state \in {"absent", "queued", "cancelled"}
  /\ job.state = "leased" =>
       last.worker = job.owner /\ last.outcome \in {"open", "lease_expired"}
  /\ job.state = "retry_wait" => last.outcome = "retry"
  /\ job.state = "succeeded" => last.outcome = "succeeded"
  /\ job.state = "dead_letter" => last.outcome \in {"dead_letter", "lease_expired"}
  /\ job.state = "cancelled" /\ job.attempt > 0 =>
       last.outcome \in {"cancelled", "retry", "lease_expired"}

\* The two tables tell one story, although claim, heartbeat, complete, fail,
\* cancel and the expiry sweep each update both: attempt rows exist exactly for
\* the attempts counted, every attempt but the last ended in a retry or a lost
\* lease, a live lease has one open attempt of its owner, and the last
\* attempt's outcome is the one that explains the job's state.
LedgerExplainsJob == \A j \in Jobs : Explains(attempts[j], jobs[j])

\* A replay is linked to a job that was given up and stays given up, of the same
\* type and under another key; so a late completion can never leave both the
\* original and its replay successful.
ReplayIsOfGivenUpJob ==
  \A j \in Jobs : jobs[j].replayOf # None =>
    LET original == jobs[jobs[j].replayOf] IN
    /\ original.state \in {"dead_letter", "cancelled"}
    /\ TypeOf[original.key] = TypeOf[jobs[j].key]
    /\ original.key # jobs[j].key

\* The rows are well-formed, their attempts explain them, and replays copy what was
\* given up.
QueueInvariant == TypeOK /\ LedgerExplainsJob /\ ReplayIsOfGivenUpJob

\* A settled job and its attempts never change again, whichever late, duplicated
\* or concurrent request still arrives; only a replay, a new row, runs again.
SettledForever ==
  [][\A j \in Jobs : jobs[j].state \in Settled =>
       /\ jobs'[j] = [jobs[j] EXCEPT !.wait = jobs'[j].wait]
       /\ attempts'[j] = attempts[j]]_vars

\* An attempt that was closed keeps its worker and its outcome: a worker whose
\* lease was swept cannot turn its lost attempt into a success afterwards.
HistoryKept ==
  [][\A j \in Jobs, n \in AttemptNumbers :
       attempts[j][n].outcome \in Closed => attempts'[j][n] = attempts[j][n]]_vars

\* A job changes hands only after the previous lease ran out or was given back:
\* the worker of a live lease is never replaced under it.
NoStolenLease ==
  [][\A j \in Jobs :
       jobs[j].lease > 0 /\ jobs'[j].state = "leased" =>
         /\ jobs'[j].owner = jobs[j].owner
         /\ jobs'[j].attempt = jobs[j].attempt]_vars

\* Neither a lease nor an outcome is ever taken from a job.
JobsAreKept == SettledForever /\ NoStolenLease

-----------------------------------------------------------------------------
(***************************************************************************)
(* The queue implements JobLifecycle: a job is held exactly while a lease  *)
(* runs, and one whose lease ran out waits to be claimed or swept.         *)
(***************************************************************************)
Abstract(row) ==
  [phase   |-> CASE row.state = "absent" -> "absent"
                 [] row.state \in Settled -> "settled"
                 [] row.lease > 0 -> "held"
                 [] OTHER -> "waiting",
   holder  |-> IF row.lease > 0 THEN row.owner ELSE None,
   attempt |-> row.attempt]

Lifecycle == INSTANCE JobLifecycle WITH job <- [j \in Jobs |-> Abstract(jobs[j])]

\* No interleaving of claims, sweeps, retries, cancellations and late requests
\* takes a job outside its life cycle: held by one worker at a time, at most
\* MaxAttempts times, and never again once settled.
ImplementsLifecycle == Lifecycle!LifecycleSpec
=============================================================================
