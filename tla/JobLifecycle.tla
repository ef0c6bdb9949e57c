---------------------------- MODULE JobLifecycle ----------------------------
(***************************************************************************)
(* What the durable job queue promises to the code that runs its jobs,     *)
(* with rows, leases and clocks left out: a job waits, is held by one       *)
(* worker at a time and at most MaxAttempts times, and once settled stays  *)
(* settled.  DurableJobs implements it; the models of job handlers build   *)
(* on it.                                                                  *)
(***************************************************************************)
EXTENDS Integers

CONSTANTS
  Jobs,         \* jobs
  Workers,      \* whoever may hold one
  MaxAttempts,  \* jobs.max_attempts
  None          \* nobody

VARIABLE job    \* phase, holder and number of attempts of each job

Unborn == [phase |-> "absent", holder |-> None, attempt |-> 0]
Waiting(n) == [phase |-> "waiting", holder |-> None, attempt |-> n]
Held(w, n) == [phase |-> "held", holder |-> w, attempt |-> n]
Over(n) == [phase |-> "settled", holder |-> None, attempt |-> n]

\* What may become of a job in one step.
Successors(j) ==
  LET n == job[j].attempt IN
  CASE job[j].phase = "absent"  -> {Waiting(0)}
    [] job[j].phase = "waiting" ->
         {Over(n)} \cup {h \in {Held(w, n + 1) : w \in Workers} : n < MaxAttempts}
    [] job[j].phase = "held"    -> {Waiting(n), Over(n)}
    [] OTHER                    -> {}

LifecycleInit == job = [j \in Jobs |-> Unborn]

\* One step may move several jobs: a batch is claimed, leases lapse together.
LifecycleNext ==
  \A j \in Jobs : job'[j] = job[j] \/ job'[j] \in Successors(j)

LifecycleSpec == LifecycleInit /\ [][LifecycleNext]_job
=============================================================================
