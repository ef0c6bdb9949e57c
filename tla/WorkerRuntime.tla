--------------------------- MODULE WorkerRuntime ---------------------------
(***************************************************************************)
(* The worker process over the job store: FoundationWorker polls, runs one *)
(* handler per claimed job under a timeout and a heartbeat, and settles    *)
(* the job with a complete or a fail request.                              *)
(*                                                                         *)
(* Requests travel over a network that may lose them, lose the answer, or  *)
(* deliver them after the worker stopped waiting.  A worker may crash and  *)
(* come back under the same identity.                                      *)
(***************************************************************************)
EXTENDS DurableJobs

CONSTANTS
  TimeoutTicks,   \* jobs.timeout_seconds
  LateRequests    \* may a request outlive the wait for its answer?

ASSUME RuntimeAssumption ==
  /\ TimeoutTicks \in Nat \ {0}
  /\ LateRequests \in BOOLEAN
  /\ MaxDelay > 0

VARIABLES
  exec,      \* the executions each process awaits
  net,       \* complete and fail requests on their way to the store
  returned   \* history: the <<worker, job>> whose handler returned a result

runtimeVars == <<exec, net, returned>>
allVars == <<jobs, attempts, exec, net, returned>>

\* Where an awaited execution is: its handler runs, or it awaits an answer.
Phases == {"running", "completing", "failing"}
Execution ==
  [job : Jobs, attempt : AttemptNumbers, phase : Phases,
   left : 0 .. TimeoutTicks,   \* until controller.abort("job_timeout")
   held : 0 .. LeaseTicks]     \* lease known from the last renewal that returned true
Request ==
  [op : {"complete", "fail"}, worker : Workers, job : Jobs,
   attempt : AttemptNumbers,   \* names the awaiting connection, not sent
   retryable : BOOLEAN, delay : Delays]

RuntimeTypeOK ==
  /\ TypeOK
  /\ exec \in [Workers -> SUBSET Execution]
  /\ net \subseteq Request
  /\ returned \subseteq Workers \X Jobs

RuntimeInit ==
  /\ Init
  /\ exec = [w \in Workers |-> {}]
  /\ net = {}
  /\ returned = {}

-----------------------------------------------------------------------------
CompleteRequest(w, e) ==
  [op |-> "complete", worker |-> w, job |-> e.job, attempt |-> e.attempt,
   retryable |-> FALSE, delay |-> 0]
FailRequest(w, e, retryable, delay) ==
  [op |-> "fail", worker |-> w, job |-> e.job, attempt |-> e.attempt,
   retryable |-> retryable, delay |-> delay]

\* RetryableJobError("worker_interrupted", 15s) and the unclassified error (30s)
\* are both a retryable failure with a delay.
Interrupted(w, e) == FailRequest(w, e, TRUE, MaxDelay)

Replace(w, e, new) == [exec EXCEPT ![w] = (@ \ {e}) \cup new]
InPhase(e, phase) == {[e EXCEPT !.phase = phase]}

\* Mutant: a poll does not wait for the previous batch.
PollOverlapping(w, batch, answered) ==
  /\ Claim(w, batch)
  /\ exec' = [exec EXCEPT ![w] =
       IF ~answered THEN @
       ELSE @ \cup {[job |-> j, attempt |-> jobs[j].attempt + 1, phase |-> "running",
                     left |-> TimeoutTicks, held |-> LeaseTicks] : j \in batch}]
  /\ UNCHANGED <<net, returned>>

\* poll(): only once the previous batch is settled.  The claim may take effect
\* in the store although its answer never arrives.
Poll(w, batch, answered) ==
  /\ exec[w] = {}
  /\ Claim(w, batch)
  /\ exec' = [exec EXCEPT ![w] =
       IF ~answered THEN {}
       ELSE {[job |-> j, attempt |-> jobs[j].attempt + 1, phase |-> "running",
              left |-> TimeoutTicks, held |-> LeaseTicks] : j \in batch}]
  /\ UNCHANGED <<net, returned>>

\* The heartbeat timer; it runs until the execution is settled.  false means the
\* lease is lost and aborts the execution, which only a running one notices.
Beat(w, e) ==
  /\ e \in exec[w]
  /\ IF Holds(w, e.job)
     THEN /\ Heartbeat(w, e.job)
          /\ exec' = Replace(w, e, {[e EXCEPT !.held = LeaseTicks]})
          /\ UNCHANGED <<net, returned>>
     ELSE /\ e.phase = "running"
          /\ exec' = Replace(w, e, InPhase(e, "failing"))
          /\ net' = net \cup {Interrupted(w, e)}
          /\ UNCHANGED <<jobs, attempts, returned>>

HandlerReturns(w, e) ==
  /\ e \in exec[w] /\ e.phase = "running"
  /\ exec' = Replace(w, e, InPhase(e, "completing"))
  /\ net' = net \cup {CompleteRequest(w, e)}
  /\ returned' = returned \cup {<<w, e.job>>}
  /\ UNCHANGED <<jobs, attempts>>

\* Also the abort of the race with the signal: a failed heartbeat request or the
\* shutdown of the process interrupt a running handler at any time.
HandlerThrows(w, e, retryable, delay) ==
  /\ e \in exec[w] /\ e.phase = "running"
  /\ exec' = Replace(w, e, InPhase(e, "failing"))
  /\ net' = net \cup {FailRequest(w, e, retryable, delay)}
  /\ UNCHANGED <<jobs, attempts, returned>>

TimeOut(w, e) == e.left = 0 /\ HandlerThrows(w, e, TRUE, MaxDelay)

\* The execution, if any, that awaits the answer to r.
Awaiting(r) ==
  {e \in exec[r.worker] :
     /\ e.job = r.job /\ e.attempt = r.attempt
     /\ e.phase = IF r.op = "complete" THEN "completing" ELSE "failing"}

\* Mutant: after a failed fail request the execution is still awaited.
RejectedAwaited(r, rest) ==
  IF r.op = "complete"
  THEN /\ exec' = [exec EXCEPT ![r.worker] =
            (@ \ Awaiting(r)) \cup UNION {InPhase(e, "failing") : e \in Awaiting(r)}]
       /\ net' = rest \cup {Interrupted(r.worker, e) : e \in Awaiting(r)}
  ELSE exec' = exec /\ net' = rest

\* complete() rejected: the catch block sends a retryable failure.  fail()
\* rejected: "resolved by the database lease-expiry path".
Rejected(r, rest) ==
  IF r.op = "complete"
  THEN /\ exec' = [exec EXCEPT ![r.worker] =
            (@ \ Awaiting(r)) \cup UNION {InPhase(e, "failing") : e \in Awaiting(r)}]
       /\ net' = rest \cup {Interrupted(r.worker, e) : e \in Awaiting(r)}
  ELSE /\ exec' = [exec EXCEPT ![r.worker] = @ \ Awaiting(r)]
       /\ net' = rest

\* The store serves a request; the answer may be lost on the way back.
Deliver(r, answered) ==
  /\ r \in net
  /\ UNCHANGED returned
  /\ IF Holds(r.worker, r.job)
     THEN /\ IF r.op = "complete" THEN Complete(r.worker, r.job)
             ELSE Fail(r.worker, r.job, r.retryable, r.delay)
          /\ IF answered
             THEN /\ exec' = [exec EXCEPT ![r.worker] = @ \ Awaiting(r)]
                  /\ net' = net \ {r}
             ELSE Rejected(r, net \ {r})
     ELSE Rejected(r, net \ {r}) /\ UNCHANGED <<jobs, attempts>>

\* The transport fails before the store answered; the request is lost, or only late.
GiveUp(r, late) ==
  /\ r \in net /\ Awaiting(r) # {}
  /\ late => LateRequests
  /\ Rejected(r, IF late THEN net ELSE net \ {r})
  /\ UNCHANGED <<jobs, attempts, returned>>

Crash(w, late) ==
  /\ exec[w] # {}
  /\ late => LateRequests
  /\ exec' = [exec EXCEPT ![w] = {}]
  /\ net' = IF late THEN net ELSE {r \in net : r.worker # w}
  /\ UNCHANGED <<jobs, attempts, returned>>

\* One unit of time, for the timers of an execution too.
Aged(e) == [e EXCEPT !.left = Elapsed(@), !.held = Elapsed(@)]

Pass ==
  /\ \/ \E j \in Jobs : jobs[j].lease > 0 \/ jobs[j].wait > 0
     \/ \E w \in Workers : \E e \in exec[w] : e.left > 0 \/ e.held > 0
  /\ jobs' = [j \in Jobs |-> [jobs[j] EXCEPT !.lease = Elapsed(@), !.wait = Elapsed(@)]]
  /\ exec' = [w \in Workers |-> {Aged(e) : e \in exec[w]}]
  /\ UNCHANGED <<attempts, net, returned>>

Batches == {b \in SUBSET Jobs : Cardinality(b) <= Limit}

RuntimeNext ==
  \/ \E j \in Jobs, k \in Keys : Enqueue(j, k, 0) /\ UNCHANGED runtimeVars
  \/ \E j \in Jobs : Cancel(j) /\ UNCHANGED runtimeVars
  \/ \E w \in Workers, batch \in Batches, answered \in BOOLEAN : Poll(w, batch, answered)
  \/ \E w \in Workers : \E e \in exec[w] :
       \/ Beat(w, e)
       \/ HandlerReturns(w, e)
       \/ \E retryable \in BOOLEAN : HandlerThrows(w, e, retryable, MaxDelay)
       \/ TimeOut(w, e)
  \/ \E r \in net : \E flag \in BOOLEAN : Deliver(r, flag) \/ GiveUp(r, flag)
  \/ \E w \in Workers, late \in BOOLEAN : Crash(w, late)
  \/ Pass

RuntimeSpec == RuntimeInit /\ [][RuntimeNext]_allVars

\* Time passes, timers fire, a request is answered or given up, and a worker
\* that is idle polls until it gets each job it may claim.  A handler need not
\* return, a heartbeat need not be sent, nothing need be cancelled.
Fairness ==
  /\ WF_allVars(Pass)
  /\ \A w \in Workers :
       /\ WF_allVars(\E e \in exec[w] : TimeOut(w, e))
       /\ WF_allVars(\E r \in net, flag \in BOOLEAN :
                       r.worker = w /\ (Deliver(r, flag) \/ GiveUp(r, flag)))
       /\ WF_allVars(Poll(w, {}, TRUE))
       /\ \A j \in Jobs :
            WF_allVars(\E batch \in Batches : j \in batch /\ Poll(w, batch, TRUE))

FairRuntimeSpec == RuntimeSpec /\ Fairness

-----------------------------------------------------------------------------
\* A job is marked succeeded only when the handler of its last attempt's worker
\* has returned for it, however many of that worker's requests arrived late.
SuccessIsReal ==
  \A j \in Jobs : jobs[j].state = "succeeded" => <<Last(j).worker, j>> \in returned

\* Two handlers never run for one job while both know their lease to be live, except
\* that the store fences a request by its worker and not by its attempt: a worker's
\* late request of an earlier attempt may give its present attempt back under it.
\* No lease ever runs out, and no other worker's request takes it, while it is
\* known to be live.
ExclusiveWhileHeld ==
  \A w, v \in Workers : \A e \in exec[w], f \in exec[v] :
    /\ e.job = f.job
    /\ e.phase = "running" /\ f.phase = "running"
    /\ e.held > 0 /\ f.held > 0
    /\ <<w, e>> # <<v, f>>
    => /\ LateRequests /\ w # v
       /\ \E given \in {e, f} : attempts[e.job][given.attempt].outcome = "retry"

\* Its state is well-formed, and a job is handled once at a time.
RuntimeInvariant == RuntimeTypeOK /\ ExclusiveWhileHeld

\* Whatever crashes, hangs or gets lost, every job reaches a settled state.
EveryJobSettles ==
  \A j \in Jobs :
    jobs[j].state \in {"queued", "leased", "retry_wait"} ~> jobs[j].state \in Settled

\* One hanging handler never keeps its worker from polling again, although
\* poll() awaits the whole batch.
WorkerPollsAgain == \A w \in Workers : []<>(exec[w] = {})
=============================================================================
