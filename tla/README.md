# Civya phone gateway: TLA+ models and proofs

This directory holds a formal model of the services behind the Civya voice
preview (`src/work/civya-human-voice-preview/`, called `C/` below): TLA+ modules
translated from the TypeScript services and from the SQL functions they call,
TLC configurations that check them on small instances, and TLAPS proofs that
hold for all values of the constants. Nearly every decision that matters in
this system is taken inside a database function (`C/supabase/migrations/`) and
relied upon by a process that may die, be retried or run twice, so the models
follow that line: one module per ledger, and one module per process that
composes the ledgers it writes.

## 1. The system

| Part | Where | State it keeps | Operations | Talks to | Model |
|---|---|---|---|---|---|
| Durable job queue | migration 0011 | `private.jobs`, `private.job_attempts` | enqueue, claim (with sweep), heartbeat, complete, fail, cancel, replay | workers, outbox | `DurableJobs` |
| Foundation worker | `workers/runtime.ts` | the executions of one batch, their timers and abort signals | poll, run, heartbeat, time out, settle | job queue | `WorkerRuntime` |
| Outbox | migrations 0011, 0021 | `private.outbox_events` | append, dispatch | job queue | in `ReminderDelivery` |
| External operations ledger | migrations 0011, 0026 | `private.external_operations` | legacy reserve and finish; claim and finish under a lease and a token; receipt | reminder handler, payment handoff | `ExternalOperations` |
| Provider event inbox | migrations 0011, 0017 | `private.provider_events` | claim, finish, legacy record and mark | webhook handlers | `ProviderEvents` |
| Webhook handlers | `app/api/webhooks/twilio`, call control | none of their own | claim, effects, finish, acknowledge | inbox, everything their effects touch | `WebhookIntake` |
| Reminder delivery | migration 0021, `lib/reminders` | `reminders`, `communication_deliveries`, receipts, suppressions | schedule, dispatch, prepare, send, mark, cancel, STOP, receipt | outbox, jobs, external operations, carrier | `ReminderDelivery` |
| Payment handoff | `lib/integrations/payment-handoff.server.ts`, migrations 0014, 0015 | `hosted_handoff_sessions`, `handoff_events`, `secure_link_tokens` | create, launch, return, webhook, reconcile | external operations, inbox, provider | `PaymentHandoff` |
| Call control, admission | `services/call-control/openai-sip.ts` | pending calls, active calls, socket per call | webhook, accept, attach, monitor, close | inbox, call sessions, realtime provider | `CallAdmission` |
| Call control, conversation | same file, phone-turn client | response queue, in-flight latch, generations, pending effect, outcome | realtime events, turns, lookups, effects | realtime provider, phone-turn API | `CallConversation` |
| Phone turn ledger | `app/api/internal/phone/turn`, migration 202607170001 | phone turns with a lease | claim, finish, fail | conversation engine | `PhoneTurns` |
| Secure links, channel sessions | migration 0015 | link tokens, channel sessions, call sessions | issue, consume, revoke, control, checkpoint | call control, payments | payment links only |
| Workflow engine | migrations 0014, 0018, 0024 | workflow instances, evidence, transitions, exceptions | start, record evidence, advance, reverse, raise | cases, staff | `Workflow` |
| Entitlements and case claim | migrations 0013, 0016, 0023, 0027 | proofs, entitlements, bound handoffs, links, choices, requests for assistance | verify, claim, renew, move, choose, approve, revoke | County verifier, staff | `CaseAccess` |
| Outcome kernel | migration 0009 | snapshots, definitions, matches, verdicts, projection | ingest, register, match, reconcile | sources | `OutcomeKernel` |
| Audit chain and archive | migration 0012 | audit events with a hash chain, archives | append, archive, purge, verify | everything | `AuditChain` |
| Browser realtime client | `lib/realtime/client.ts` | connection, turn, queue and tool state | connect, speak, interrupt, reconnect, close | realtime provider, turn API | `VoiceClient` |
| Reconciliation checkpoints | migration 0015, `lib/reconciliation` | checkpoint rows | advance | jobs | planned |
| Retention, source ingestion | migration 0007, `lib/source` | retention runs, deletion jobs | prepare, delete, complete, ingest | outbox, storage | planned |
| Conversations, bootstrap, rate limits | migration 0008, `lib/platform`, `lib/conversation` | conversations, turns, grants, counters | append turn, transfer case, take token | web client | planned |
| Document uploads | `lib/documents` | upload records, stored objects | grant, finalize, remove | storage | planned |
| Rules, cache, telemetry, pages, adapters | `lib/eligibility`, `lib/cache`, `lib/telemetry`, `app/` | little or none | request-response code and pure functions | | none |

What is hard here, and what the properties are about:

* **Processes that outlive their right to act.** A worker that lost its lease, a
  handler that ignores its abort signal and a killed webhook request go on, or
  come back, while another process has the same work in hand.
* **Effects that must not be repeated.** The carrier has no idempotency key; the
  payment provider has one; the inbox sees every provider event several times.
* **Requests that arrive late or whose answer is lost.** A settled job, a finished
  operation and a marked event must not change again.
* **Independent writers of one row.** Receipts, cancellations, STOPs, revocations
  and the worker's own outcome all write the reminder and its delivery; links,
  choices, staff and the resident all write who may open a case.
* **Read, await, write.** Payment visits and deliveries, workflow requests and
  webhooks of calls read a row, await other calls, and act on what they had read.
* **Conversation under interruption.** Speech, transcripts, lookups, tools and
  provider responses are handled by callbacks and awaits that overlap, in the
  gateway for a phone call and in the browser for a voice session.
* **Ledgers that must be whole.** Verdicts supersede verdicts, audit events chain
  on audit events, workflow actions follow each other, while evidence arrives in
  any order and definitions change.

The hazards are listed one by one, at their source lines, in `PROJECT.json`.

## 2. Modules and how they correspond to the code

| Module | Models | Composes |
|---|---|---|
| `DurableJobs` | the job RPCs of migration 0011 as atomic steps on rows and attempts | |
| `JobLifecycle` | what the queue promises: absent, waiting, held, settled, with bounded attempts | abstract specification |
| `WorkerRuntime` | `FoundationWorker` and its requests to the store | `DurableJobs` |
| `ExternalOperations` | the operation ledger of 0011 and 0026 | |
| `ProviderEvents` | the provider event inbox of 0011 and 0017 | |
| `WebhookIntake` | the claim, effects, finish, acknowledge protocol of the webhook handlers | `ProviderEvents` |
| `ReminderDelivery` | migration 0021 and `createReminderDeliveryHandler`, one step per RPC | `ExternalOperations`, `JobLifecycle` |
| `PaymentHandoff` | `payment-handoff.server.ts`, one step per awaited call | `ExternalOperations`, `ProviderEvents` |
| `CallAdmission` | `OpenAISipController` from the webhook of a call to the end of its socket | |
| `CallConversation` | one attached call: realtime events, response queue, lookups, recoveries, effects | `Subsequences` |
| `Subsequences` | `Array.prototype.filter`, written so that it can be reasoned about | |
| `PhoneTurns` | the phone turn ledger of 202607170001 and the route that serves turns | |
| `VoiceClient` | one voice session of the browser | `Subsequences` |
| `Workflow` | the governed workflow of 0014, 0018 and 0024 | |
| `CaseAccess` | who may open which case of a production tenant | |
| `OutcomeKernel` | snapshots, matches, definitions and verdicts of 0009 | |
| `AuditChain` | the chained events, archives and cleanups of 0012 | |
| `MCLedgers`, `MCProcesses`, `MCServices`, `MCPaymentHandoff`, `MCWorkflow` | model values, symmetry, bounds and small data for TLC | those above |
| `ProcessesProofs`, `ClaimLedgersProofs`, `PaymentHandoffProofs`, `OutcomeAuditProofs`, `ServicesProofs`, `CallConversationProofs`, `ResidentsProofs`, `SubsequencesProofs` | theorems, section 5 | the modules they are named for; `ProcessesProofs` is about `DurableJobs`, `WorkerRuntime`, `ProviderEvents` and `WebhookIntake`, `ServicesProofs` about `CallAdmission` and `Workflow`, `ClaimLedgersProofs` about `ExternalOperations`, `ReminderDelivery` and `PhoneTurns`, `OutcomeAuditProofs` about `OutcomeKernel` and `AuditChain`, `ResidentsProofs` about `VoiceClient` and `CaseAccess` |

A database function is one atomic step: each runs in one transaction, under
`for update` row locks. A process is a sequence of such steps, one for every
awaited call, so that everything else may happen between two of them. Rows that
do not exist yet are in state `absent`. Leases and delays count down in ticks
that any module's clock action lets pass; a tick may come at any moment, so the
lengths only say which expirations can be told apart.

**DurableJobs.** `jobs[j]` is the row and `attempts[j]` the sequence of its
attempt rows. `Enqueue`, `Claim`, `Heartbeat`, `Complete`, `Fail`, `Cancel` and
`Replay` are the RPCs. `Claim` contains the sweep the function does first: expired
leases are closed as attempts and returned, or given up at the last attempt; then
up to `Limit` claimable jobs of the worker's capabilities are leased. The order
in which jobs are picked, payloads and priorities are left out: a claim may take
any admissible batch.

**WorkerRuntime.** `exec[w]` holds the executions the process awaits. A poll is
possible only when the last batch is settled (`Promise.allSettled`). `Beat` is the
heartbeat timer, `TimeOut` the abort after `timeout_seconds`, `HandlerReturns` and
`HandlerThrows` the race of the handler with its signal. Complete and fail
requests are messages in `net`: the store may serve them, lose the answer, lose
the request, and with `LateRequests` serve them after the worker stopped waiting
or died. A crash empties the process.

**ExternalOperations.** `ops[o]` is the row and `granted` the history of claims
handed out. `Acquire`, `Abandon` and `ClaimIsBusy` are the branches of
`claim_external_operation`; an operation whose claim ran out is abandoned as
`failed_unknown` and never given to somebody else. `Reserve` and `FinishLegacy`
are the older functions, which payments still use.

**ProviderEvents, WebhookIntake.** `ClaimNew`, `ClaimAgain`, `ClaimExhausted` and
the refusals are the branches of `claim_provider_event`; the three finishes need
the latest token. In `WebhookIntake` a request claims, applies its effects in
`Steps` steps, finishes and acknowledges; it may die between any two of these,
and a provider repeats what was not acknowledged. What the effects are is not
part of this module, only that they are applied step by step and may be applied
again by a later request.

**ReminderDelivery.** One reminder names its delivery, outbox event, job and
operation. Every branch of `prepare_reminder_delivery`, of the claim, of the send
and of the marking is an action; `caught` says whether an exception is inside the
`try` that turns it into `failed_unknown`. The job follows `JobLifecycle`, which
`DurableJobs` is proved to implement, so that the composition stays small. The
history variable `withdrawn` collects the reminders that were cancelled, opted
out of or revoked while no execution had prepared them. A receipt tells of
acceptance, failure or delivery, or of any `other` status, which leaves reminder and
delivery as they are and still settles the operation as succeeded (0021:832-834,
:881-890).

**PaymentHandoff.** Create requests, browser visits and evidence deliveries are
processes with a `phase`, one action per awaited call, each carrying the row
version and state it read. The request digest of the create operation covers the
return URL and with it the instant of the request, which is why `Hashes` is the
clock. Amounts, currencies and control totals are the verdict an evidence carries;
its `revision` is the provider's order of statuses, which the code stores with the
event and never compares.

**CallAdmission.** An action is a stretch of JavaScript between two awaits with the
effect of the call it waited for. `requests[r]` is `handleWebhook`, `sockets[s]` a
socket with what its closures hold, `active` and `pending` are the two maps, whose
sizes are compared with the capacity. The inbox is its row per call; the provider
accepts, rejects and ends calls and closes sockets at any time. The hourly rate of
public callers is one nondeterministic refusal; the maximum duration is one of the
reasons for a socket to close. The lease of a webhook's claim may run out at any moment
(`Lapse`), also while its request awaits an attach or the accept, and the next delivery
is then claimed beside it: `overtaken` remembers the calls this happened to.

**CallConversation.** The record `call` is `ActiveCall`; every handler of
`handleRealtimeEvent`, and every continuation after an await, is an operator from
one such record to the next, because JavaScript runs it to its end before anything
else. `chain` is `turnChain`: its head is the turn whose `processTranscript` runs,
`asking` while it awaits a phone turn; `lookups` are the pending
`handleOfficialLookup`s; `applying` is the effect `applyEffectAfterSpeech` awaits.
`seq` and `gen` are `inputSequence` and `interruptionGeneration`. A sent
`response.create` is the field `created`, which the provider takes over in the same
step. The provider is external: it generates one response at a time, plays it,
cancels both when the caller speaks (a text-only recovery may survive that),
transcribes items in any order, and its events arrive in order but after any
delay, which is where the races are. What the caller says, wording and locales are
left out, and so is the kill switch, which is an environment variable of the
process; a transcript becomes any route `processTranscript` may choose for it.

**PhoneTurns.** `turns[u]` is the row of an idempotency key, `handlers[h]` a request
in the route. `TurnNew`, `TurnReclaim`, `TurnExhausted` and `TurnReplay` are the
branches of `claim_phone_turn`; a turn in hand (409) and a key used for another
body change nothing. `FinishTurn` fences by token and lease, `FailTurn` by the
token only. Between the two a request resolves its answer, which is another one
in every attempt and therefore named by the token of its claim. `answered` keeps
every answer that went out with status 200. The caller's client
(`phone-turn-client.ts`) gives up after 12 seconds and the lease lasts 20, so a
repetition may find the first attempt still at work.

**VoiceClient.** The record `voice` is the client object and its line, built the same
way as `call`: what a callback, a timer or a continuation does is an operator from
one record to the next. `queue`, `creating` and `request` are the three places a
response can be in (`responseQueue`, the request that awaits its acknowledgement,
the active one); `after` is `afterResponseId`; `turns[t]` the timers and flags of a
turn. A reconnect builds a new transport while everything that awaited the old one
still comes back. `fetchWithTimeout` hands on an abort only until the headers of an
answer are there, and does not notice one from before it began: the phases `fetching` and
`reading` of `connect` and `reconnect` are what is aborted and what is not. A reconnect
that goes on after the end sets up a peer, finds the abort and leaves it there: a
`stranded` channel. `said` and `tries` are history.

**Workflow.** `instance[i]` is the row, `actions[k]` the ledger row of an idempotency
key. `Advance` is the unlocked read of `civya_service_advance_governed_workflow`,
`Commit` what its locked callees do with the request; a replay and a reversal are
branches of it. `Raise` is the exception function with its two branches. A
definition is a constant graph, evidence two sequences in the order of arrival.

**CaseAccess.** One action per database transaction. Verification is the look for a
committed receipt (`Verify`, with the answer of the County's verifier) and one of
the finalizing functions (`FinalizeClaim`, `FinalizeDirect`, `FinalizeLink`), which
do in one step all the rows the transaction writes. `Approve` is the decision of
staff with the move or binding it contains; a step that the code would roll back is
not enabled.

**OutcomeKernel.** Rows are sequences in the order of insertion and refer by index to
what they supersede. `Ingest`, `Register`, `SetParcel`, `RecordMatch` and
`Reconcile` are the functions with their guards; a payload is the parcel it names
and what its other fields say of the outcome.

**AuditChain.** A hash stands for what it was computed from: a row is the sequence of
events from the first to its own. So a chain verifies when the rows are the
prefixes of the head. A cleanup of a sandbox reads and commits in two steps.

Type invariants of the composed modules are checked together with their safety
invariants: `RuntimeInvariant`, `IntakeInvariant`, `RecordsInvariant`,
`ConversationInvariant`, `TurnsInvariant`, `AdmissionInvariant`,
`WorkflowInvariant`, `ReminderInvariant`, `VoiceInvariant`, `AccessInvariant`,
`OutcomeInvariant` and `AuditInvariant` are such conjunctions.

## 3. Runs

Parts that do not interact are put side by side in one MC module, with a variable that
says which of them a behaviour moves. Such a run explores the sum of their state
spaces, not the product.

| Run | Instance | What it shows |
|---|---|---|
| `ledgers` | queue: 2 jobs, 2 workers of different capabilities, 3 attempts in all; inbox: 2 events, 4 tokens of any age; turns: 2, 2 requests, 2 attempts; outcome: 1 case, 2 snapshots, 3 decisions, 3 verdicts; audit: 5 events (3 in a sandbox), 2 archives; workers: 2 processes, 1 job, 3 attempts, late requests; access: 2 accounts, 2 cases, 2 proofs, 1 link, 1 request for assistance; admission: 1 call, 2 requests, 2 sockets, 2 claims that may lapse | rows and ledgers agree, leases and outcomes are not taken away, the queue implements `JobLifecycle`; only the latest token acts; a turn has one answer; verdicts are one chain of evidence; the audit chain verifies and archives have no gap; no two handlers run one job but for a late request; entitlements are of owners, one case is active, ownership moves by a live link only; nothing leaks from the maps of calls, and what is settled was served |
| `processes` | 2 workers with 1 job, 2 attempts, late requests; 1 event, 2 requests, 3 tokens; 1 payment, 2 deliveries of 2 webhook events; 1 reminder, 2 executions that may lose their job; 1 call in either mode, 2 audio items, 3 events in flight, limits of 1 and 2 | what begins ends, nobody is held up, the latch of a call is always released; success is real, acknowledged means processed; responses never collide, effects follow their announcement played to the end, questions answered are the latest |
| `services` | 1 payment with 2 deliveries of 3 pieces of evidence and 2 visits, or with 2 create requests at 3 instants, kills; 1 voice session in either mode, 2 turns, 1 reconnect, 2 responses; 1 workflow of 4 edges, 2 clients, 3 keys; 2 operations, of 2 owners, 2 digests, 4 tokens; 1 reminder, 2 executions, 2 attempts, all faults | the official state follows the evidence, each piece once, and a handoff is backed by a hosted session and a settled operation; after the end of a voice session nobody has its microphone or transport but for an await the code does not stop, approved speech is kept and said once, no turn is forgotten; the action ledger explains the workflow, completion is proven and final; an effect is granted once and its proven outcome stays; one message at most goes out, a withdrawn one does not, and the rows tell what happened |
| `reminder_crash` | 1 reminder, 1 execution, crashes, expected to fail | a crash after the claim can leave a send without any outcome |
| `reminder_receipts` | 1 reminder, 1 attempt, no faults, expected to fail | a failure the carrier reported is overwritten by the worker's own mark |
| `payment_revision` | a posting and its reversal, 1 delivery at a time, expected to fail | the older evidence, delivered last, decides |
| `voice_waits` | 1 session, authoritative mode, expected to fail | after a reconnect a queued response waits for one that is gone |
| `voice_stop` | 1 session without reconnects, expected to fail | a connect that reads a body keeps the microphone after the stop |
| `access_lapse` | 2 methods, expected to fail | a lapsed entitlement cannot be renewed |
| `admission_capacity` | 2 calls, 2 requests, capacity 1, expected to fail | two webhooks that overlap are both served |
| `workflow_exceptions` | 1 workflow, 1 client, expected to fail | a repeated staff action resolves a later exception |
| `audit_purge` | a sandbox, expected to fail | a cleanup leaves a chain that does not verify |

**Bounds.** Two of each actor is what every hazard needs: one that is in the way
of the other. Three attempts let an attempt be neither the first nor the last, and
a request of the first arrive under the second. A lease of two ticks tells apart a
fresh, an ageing and an expired lease. The MC modules add the following.

`MCLedgers`: tokens, which are alike, are taken in one order (`TakenInOrder`).
`JobsStep` allows three attempts among the two jobs together, and `WorkersStep` has
one of the jobs only. `OutcomeStep` writes snapshots and definitions before the
first match and lets one snapshot name no parcel and one decision accept nothing:
orders among rows that do not refer to each other are not told apart by the
properties. `AuditStep` writes three events in a sandbox. `AccessStep` lets a request
for assistance leave room for one verification beside it. Two sockets of a call let an
attempt be made while an earlier socket closes or still opens; in `AdmissionStep` the
process stops only while no claim has lapsed under a request (a claim that lapses before
or after a stop, and a crash at any time, are there).

`MCProcesses`: a reminder sees receipts of one kind, and a STOP or a revocation but not
both (`OneChange`). Two audio items are one question and one interruption of it, or one
item whose failure is reported twice (`OneLeft`); three events in flight hold an
interruption with the cancelled response and one more that is late; with limits of
one turn, one prompt and two recoveries each of them is reached.

`MCServices`: the three pieces of evidence are a posting, its later reversal and an inconclusive status,
so that each order of each pair of kinds occurs. The payment is explored in two
scenarios: in `evidence` one request, which nothing kills, makes the handoff before any
evidence is delivered, and visits and deliveries follow; in `requests` two requests
race, are killed and are repeated while at most one visit and no delivery happens.
`MaxTime` bounds the clock of payments at three instants, enough for a link to expire
between two requests. A voice session has one turn where the account step is taken or
where the provider answers by itself, and where both hold no reconnect happens or is due.
Exceptions are raised under two of the three keys. The payment and the reminder have each
a row of one operation ledger, as in the code; `OperationsStep` moves those two rows freely,
with the tokens in one order and two of the three digests, which `PaymentAssumption` ties to
the clock. The claim of an operation lasts one tick, since nothing renews it. `ReminderStep`
has receipts of two kinds at most, of the four there are, and a STOP or a revocation but not
both. There is one reminder; a STOP that is known only from another reminder to the same
contact is therefore not exercised. Accounts, requests, visits and turns of one kind
are symmetric; no property of a run that uses symmetry is a liveness property.

Deadlock checking is off where the system rightly stops: all jobs settled, all
events finished, all links used.

## 4. Liveness and fairness

`WhatBeginsEnds`, `NobodyIsHeldUp` and `LatchIsReleased` of `processes` speak of five
parts; the module states the fairness of each, for the behaviours that move it:

* Workers: weak fairness of the clock, of the timeout of an execution, of a request
  being answered or given up, and of an idle worker claiming a job it may claim.
  These are the timers of `executeJob`, the transport's own timeout and the polling
  loop. Nothing is assumed of handlers or heartbeats.
* Intake: a provider repeats what was not acknowledged. Twilio and the realtime
  provider repeat only for a while; the model assumes long enough. A handler may
  die every time: `attempts` then settles the event.
* Payments: unprocessed webhooks are repeated, strongly fair because a repetition
  is possible only while no other delivery is in the way.
* Reminders: executions proceed, waiting jobs are taken, leases run out and the
  outbox is dispatched. No code in the repository enqueues the dispatch job: that is
  a duty of the deployment (`README.md:80`), and the list of hazards has it (at
  `lib/jobs/worker-operations.ts:6`). Deferrals are excluded because each uses up an
  attempt of the job, so that a reminder deferred often enough is given up and stays
  scheduled; crashes are excluded, see `reminder_crash`. A receipt of an `other` status
  settles the operation and leaves the rows queued, or failed_unknown, for good when
  no further receipt comes: it counts as an end.
* Calls: events are delivered, generation and playback end, and awaited requests
  return, since `AbortSignal.timeout` and the abort timers bound every one of them.
  Nothing is assumed of the caller, who need never speak.

## 5. Proofs

`tlapm` proves the following for all values of the constants that satisfy the named
assumptions: any number of jobs, workers, events, requests, cases, rows, and any
lease, delay and bound.

**Queue (`ProcessesProofs`).** `TypeCorrect`, `LedgerAlwaysExplains`,
`ReplaysAreOfGivenUpJobs` (together `QueueIsSound`, the property the run checks),
`ClosedAttemptsAreFinal`, `SettledJobsStaySettled` and `LeasesAreNotStolen` (the last
two together `JobsAreNeverTaken`). `TypeOK` is inductive. `LedgerExplainsJob` is
inductive given `TypeOK`: it relates the state of a row to all of its attempt rows,
so each action changes both sides at once. The action properties follow from it, one
step per action. `QueueImplementsLifecycle` is the refinement of `JobLifecycle`: a
step of the store changes one row or sweeps several, and `StepOfLifecycle` shows each
row's change to be one the abstract specification allows, or none.

**Workers (`ProcessesProofs`).** `WorkersUseTheQueue` shows that the processes take
only steps of the queue, so that all of the above holds under them.
`HandlersAreExclusive` and `SuccessIsAlwaysReal` are about what a process knows. The
inductive invariant `RuntimeInv` ties each awaited execution to the attempt row it was
given: it is its worker's latest of that job, and while the lease the process knows
runs, the row was not lost to expiry. It needs, besides, that a worker has one
execution per job and that a request in flight comes from an execution that made it.
The first statement of exclusiveness was false, and the attempt to prove it showed why:
a fail request names its worker and not its attempt, so one that outlives its execution
gives back a *later* attempt of the same worker while its handler runs, and another
worker may then claim the job. The property now says exactly that, and the run has the
three attempts that this takes.

**Operations (`ClaimLedgersProofs`).** `OpTypeCorrect`, `GrantsBackClaims`,
`OperationsAreNeverReassigned` (together `OperationsAreSound`) and
`ProvenOutcomesAreFinal`. That an effect is granted once is not inductive; the invariant
adds that a row which is still `planned` was granted to nobody and that a claim on a row
is among the grants.

**Inbox and webhooks (`ProcessesProofs`).** `EventTypeCorrect`,
`TokensAreFenced`, `OnlyVerifiedEventsAreGranted` (together `EventsAreSound`),
`LiveClaimsExclude` and `OutcomesAreFinal` (together `EventsAreNeverTaken`). The invariant
`EventInv` is a conjunction per row: its token is that of its newest grant, grants count
its attempts, and only verified rows have grants. On it rests `AcknowledgementsAreEarned`:
what a handler knows of its claim is old, so `IntakeInv` ties it to the history of grants
instead of the row; each handler carries a grant of its event, no two the same token, and
the steps it did are in effect. A finish that the store accepts is then one of a handler
that did them all. `HandlersUseTheStore` is the refinement of the store's specification.

**Reminders (`ClaimLedgersProofs`).** `RemindersTellTheTruth` and
`RemindersAreSentOnceAndWanted`, under `ReminderConstants` (an operation for each job, a
worker is never null, there is an owner and a request; TLC evaluates it in `services`). An
execution that lost its job runs on, so the job protects nothing; what does is that it
holds the only grant of its operation. `ReminderInv` says of every execution that may
still finish (`HasClaim`) that its grant is on record, that no other has the same reminder
(`ClaimsUnique`), that before the answer of the carrier nothing was sent and the operation
is not proven, and that the outcome it finishes with is what the carrier did (`ExecOK`). Of
the rows it says, beside what `ReminderInvariant` promises (`Told`), that a receipt settles the
operation and that a failure recorded for a message that went out came from a receipt, which
the row shows (`SentOK`). Receipts of an `other` status are the reason that
`OutcomeIsBacked` allows a row marked failed_unknown beside a succeeded operation when they
are all that came: the code leaves it so. A withdrawn reminder is in no
execution's hands and cannot be prepared again, since entitlement does not come back in
the model, nor is a STOP undone, and a cancelled row stays (`WithdrawnOK`).
`RemindersUseTheLedger` and
`ReminderJobsFollowTheQueue` show that delivery takes only steps of the ledger of operations
and of `JobLifecycle`; since `DurableJobs` implements the latter, the two compose.

**Phone turns (`ClaimLedgersProofs`).** `TurnsHaveOneAnswer`. What was answered is what the
row keeps only because completed rows are never claimed again; the invariant `TurnInv`
says so per row (a row in hand has no answer, its token and a completed row's answer are
those of its last grant), and that a request in hand names its claim. Each action rewrites
one row at most, so the lemmas `OneRow` and `NoRow` carry the proof, and each action has
only to show that the new row is backed by a grant.

**Payments (`PaymentHandoffProofs`).** `AuthorityIsEvidence`, `RecordsAreSound` and
`HandoffsAreBacked`, for any number of create requests, visits and deliveries and any finite
evidence. No lock is held across an await here, so the invariant `PaymentInv` says what each
request can still rely on: a create request in a late phase, that the operation succeeded,
the handoff exists and its link was issued (`CreateOK`); a visit, that it alone consumed its
link, and, if it may launch, that it read a pending payment (`VisitOK`); a delivery, that the
state it read is the row's while the row has the version it read, and that evidence it is
about to mark was recorded (`DeliveryOK`). `Grows` lists what no step takes back, so that a
step has to be examined only for its own request. `AuthorityFollowsEvidence` says that the
official state is the verdict of some conclusive evidence on record, and of the newest as long
as evidence was recorded in the order of its revisions; without that condition it is
`NewestDecides`, which the code does not keep (section 6). It is not inductive:
inconclusive evidence and a browser visit write the state back that they read, and only
`DeliveryOK` and the version make that the state there is. That versions stay in their range
is a pigeonhole argument over the log (`LogFits`). `PaymentKeepsTheLedger` and
`PaymentKeepsTheInbox` show that the payment takes only steps of the operations ledger and of
the event inbox.

**Outcome kernel (`OutcomeAuditProofs`).** `KernelIsSound` and `ChainsAreSound`. The
inductive invariant `KernelInv` says that rows refer to earlier rows of their kind and case
(`RowsRefer`), that a row is superseded by one row at most and of a case and source one
decision is current (`OneCurrent`), that windows of editions are apart, and of each case
that its verdicts form a chain ending in the projection (`ChainOK`) which comes from a
matched record of its parcel (`OfTheCase`). `ChainIsSound` alone is not inductive: that a
new verdict's evidence is not older needs that the projection is the newest of the chain,
and that the match it rests on was not superseded.

**Audit chain (`OutcomeAuditProofs`).** `AuditIsSound`. `StoreInv` holds in any tenant, also
while a cleanup rebuilds a sandbox; `ProductionInv` says that in production the rows are
the prefixes of the head, that the head lists all events in order, and that archives are
consecutive ranges. The model's `ChainOf` (the sorted chain of some events) and the greatest
number of a set are `CHOOSE`s; that there is something to choose is proved by counting the
members below each (`RankIsBijective`, `GreatestForm`), because induction over data is out
of the prover's reach.

**Workflow (`ServicesProofs`).** `WorkflowIsSound` and `CompletionIsFinal`. What a workflow
promises compares its state with the actions on record, but a request reads the row before
it locks it. `WorkflowInv` says of every row (`RowOK`) that its actions, finitely many,
explain its state and its version, that a row in a terminal state was either never moved or
completed, and that a completed one has an action that proves it; that events are received
once and evidence is of received events (`EvidenceIsReceived`); and of a request in flight
(`RequestOK`) that the row has not gone back behind the version it expects and that, while
the row has that version still, the actor that was checked is permitted now. The last part
is why a check made before the lock suffices: a request that read an older row is refused by
the version it carries.

**Calls (`ServicesProofs`).** `AdmissionIsSound` and `SettledCallsAreServed`. Neither map says
which request or socket an entry is for, so that `AdmissionInv` ties them together: a request
knows its call and the socket it awaits, which is of that call, not attached and, until the
process stops, not closing (`RequestKnows`); a socket that opens or is open serves its call
already or is awaited by a request (`SocketServes`). The second is what makes it right to
acknowledge a repeated webhook because the call has an open socket: the request that awaits
that socket would hold the claim too, and a claim that did not lapse under its request has one
holder (`ClaimsExclude`). Where one did (`overtaken`), the socket that is taken for attached
had at least opened, which is all the code knows; `Answered`, and with it `SettledIsServed`,
says so. No theorem assumes that claims outlive their requests.

**Conversation (`CallConversationProofs`).** `ConversationHolds`, `EffectsAreAnnounced` and
`AnswersAreCurrent`. That responses never collide and that what holds the queue back will
release it cannot be shown of the call's record alone: the reason may be a task the provider
is generating, a lookup, or an event on the wire. `ConversationIInv` relates the four.
`LatchOf` says who holds the latch while one is held: the task that the provider generates or
whose end is on the wire, a lookup of that same task, or an effect that waits for its
announcement; and that there is no second one. `QueueSound`, `ActiveSound` and
`LookupsSound` order the questions and recoveries by the inputs they belong to, the active
one before the queued, all of them before the inputs that still wait in the chain; of a
recovery there is one. That order is what makes the answer the latest question's:
an older question leaves the queue when a newer input is heard. `Voiced` follows an announcement
along the wire: seen from the place where its response ends, the audio is still to stop or
to be cut short, and whatever stops it first had played it to its end, unless the caller
speaks before; the effect that waits for it is released by that and by nothing else. The
steps are proved in two halves, as the code runs them: what a handler leaves (`Outcome`),
and what reaches the provider of what it sent (`HandledKeeps`).

**Voice (`ResidentsProofs`).** `VoiceIsSound`, and from it `VoiceInvariantHolds`,
`SpeechIsKeptHolds` and `NothingIsDroppedHolds`. Approved speech is copied from the queue to
the request under way and back (a lost connection queues it again), so that "in one
place" (`Apart`) and "not again once it is said" (`Unsaid`) need each other, and need to
know which speech can still be asked for: `Fresh` for the opening and the resumption,
`TurnFresh` for answers. A turn that posts has not been answered, a transcript on its way
is the turn's only one, and the turn does not post before it comes. `LineOK` is about the events in flight. `InTurn`
says what response will be active after each of them, so that a response that begins finds
none active and the end that arrives is that of the active one. Every step is proved as
`Keeps`: the session is sound after it, and what was owed to the resident is still on its
way, was said, or the session is over; `NothingIsDropped` is the second half, `TurnsGoOn`
needs both. `TurnsGoOn` speaks of the production mode, where a turn has a timer, a request
under way or an answer that is owed. In a direct mode a turn is settled by its transcript and by
a response of the provider's own; that neither is forgotten is `DirectTurnsSettle`, which
is checked and not proved. What a session may keep after its end is what the code does not stop:
the microphone, while `connect` still reads a body (it is stopped at `client.ts:294`), and the
peer of a reconnect that did, which stays because nobody has the client any more
(`app/page.tsx:1746`). Nearly every step may also end the session, which is `DisconnectKeeps`
for all of them. `Boxed` is the type of the client with its field types named: the steps that
only set fields are proved against the names, which the provers do an order of magnitude faster.

**Subsequences (`SubsequencesProofs`).** The provers know nothing of `SelectSeq`, which the
library defines by recursion, and both clients filter their queues. `Subsequence(s, keep)`
takes the places to keep, and the place of each by how many come before it; that this is a
bijection (`RankIsBijective`) is proved from the cardinality of finite sets, and
`SubsequenceForm` concludes that a filtered sequence has exactly the members that pass, in
their order.

**Case access (`ResidentsProofs`).** `AccessIsOwned` and `OwnershipStays`. That a standing
entitlement is of the account its case belongs to is not inductive: the account of a case is
found through its resident, so that binding a resident or moving a case changes it for rows
that no step touches. `AccessInv` adds `BindingOK` (an account has one resident; the resident
inserted for an account is bound to no other account, and a resident with a case moved to it
is bound), which makes the first claim of a case safe: its resident is one the case was
staged with and had no account, so no standing row is of that case. `FollowKeeps` is the
heart of it: whichever account has the other cases of the new resident, a case that changes
hands leaves no standing row behind, takes no second active case with it and binds its
resident to the follower. `RowsOK` and `NamesOK` say that names (of receipts, choices and
approvals) are keys of the same account and case; keys never leave the table, so that names
outlive every later step.

Assumptions are the named `ASSUME`s of the modules: bounds are natural numbers, positive
where the code's are; model values for null differ from the values of a column; there is at
least one payload (`PayloadsAssumption`). TLC evaluates them in every run.

A second finding of the proof attempts: TLA+ does not order the arms of `CASE`, so that two
guards that overlap leave the value open, although TLC takes the first. Where the code is a
chain of `if`s whose conditions overlap (`OutcomeKernel.Result`,
`ReminderDelivery.AfterReceipt`, `CallConversation.ResponseDone` and `Tools`) the model is
now `IF ... ELSE IF`, in the order of the code.

Checked by TLC only: liveness (`WhatBeginsEnds`, `NobodyIsHeldUp`, `LatchIsReleased`), since
fairness and `ENABLED` are out of the prover's reach, and `DirectTurnsSettle`, which would
need an invariant over the provider's own responses on the line. Every other safety invariant
and every action property that a passing run checks is stated by a theorem.

## 6. Where the code and its documents differ

The nine runs that are expected to fail state what a document or comment promises and show
the code doing otherwise; their findings quote both sides:

* `reminder_crash`: a send whose process crashed never comes to an outcome.
* `reminder_receipts`: a failure receipt that overtakes the worker's own mark is overwritten
  with accepted (migration 0021:729), against `supabase/README.md:63-64`.
* `payment_revision`: conclusive evidence is applied in the order of its arrival
  (`payment-handoff.server.ts:637`), where `docs/runbooks/payment-handoff.md:154` speaks of the
  order of authoritative revisions, and :119 of no stale complete state against newer evidence.
* `voice_stop`: a stop does not end a `connect` that is reading a body, which keeps the live
  microphone until its next look at the abort (`client.ts:1874`, `:293`), against
  `client.ts:310` and `docs/county-demo-release-gates.md:59`.
* `admission_capacity`: the capacity is compared before an await and counted after it
  (`openai-sip.ts:329`, `:355`).
* `workflow_exceptions`: a replay of a staff action resolves the exceptions open now
  (migration 0018:570).
* `voice_waits`: after a reconnect, what was queued behind the lost response waits for it
  without bound (`client.ts:652`).
* `access_lapse`: a lapsed entitlement is never marked expired and refuses every later proof
  (migration 0013:421).
* `audit_purge`: the trigger that guards audit rows discards the rebuild of a cleanup
  (migration 0012:161).

Seen while modelling, without a run of their own:

* A late fail request of an earlier attempt gives back a later attempt of the same worker
  (`civya_service_fail_job`, migration 0011:374; section 5).
* A payment create request repeated at another instant has another digest and is
  refused (`payment-handoff.server.ts:337`), where
  `docs/runbooks/payment-handoff.md:151` promises the same logical result.
* A resident who returns after the verdict uses up the return link and gets an
  error (`:569`), where line 116 announces an advisory answer.
* A reminder cancelled between its preparation and its send stands as cancelled
  while the carrier has the message (migration 0021:442), against
  `app/case/[caseId]/page.tsx:125`.
* A receipt whose status tells neither acceptance, failure nor delivery (canceled,
  scheduled, read) leaves the reminder as it is, queued or failed_unknown, and settles its
  operation as succeeded (migration 0021:832-834, `:881-890`).
* The claim of a call's webhook has a lease of 30 s (`openai-sip.ts:277`) that is not renewed,
  while an attach may take 11 s (`:482`), an accept 10 s (`:1181`) and another attach 11 s. A
  claim made after it lapsed that finds the first one's socket open but not yet attached takes
  it for served (`:438`) and acknowledges the call; if the session then does not connect, the
  call is not offered again. `SettledIsServed` excepts this case by name (`Answered`).
* A lookup that fails, or whose call was invalid, answers generally even when a
  newer question has superseded its own (`openai-sip.ts:797-803`, `:853-863`); only
  the successful one compares (`:821`). `AnswersMatchLatestSpeech` therefore speaks
  of the first response to a question.
* After `speech_started` released the latch nothing flushes the queue (`:572`): a
  queued announcement waits until the next turn is done.
* A transcription failure reported twice supersedes the question asked since
  (`:594`).
* A reconnect that starts while `connect` still awaits its channel aborts it, whose catch
  stops the microphone the reconnect relies on (`client.ts:578-580`): the session resumes
  deaf. After a reconnect that lost an automatic response before its created event, a later
  response is bound to the turn before its own (`:1632`): `DirectTurnsSettle` leaves out the
  turns that wait for one after a lost connection. A reconnect that goes on after the end
  leaves its peer, channel and audio element behind (`:447-449`, `:500`).
* An account whose active case is moved away keeps an inactive one that no path activates;
  assistance by a link for an account with an active case is always rolled back (0016:1341);
  finalizing answers from the old receipt when the key conflicts, also if its entitlement
  was revoked (`lib/platform/repository.ts:91-101`).
* A verdict stays projected when its match is superseded, until a next reconciliation comes
  to a result (an inconclusive one leaves it as well), against `docs/outcome-verification-standard.md:26`.
* A snapshot of a conversation is read in several queries (`repository.ts:531`) and may be
  torn, where `HOW-IT-WORKS.md:98` speaks of one authoritative state.
* `removeUnrecordedDocumentUpload` checks and then removes (`repository.ts:1074-1084`): a
  finalize in between records a document whose object is then gone.
* Retention: queue rows stay stuck after ten attempts, and an account queued as an orphan
  that signs in again is deleted with its new resident and case (migration 0007).

## 7. Not modelled, and the plan

Left out for good: pages, static configuration, telemetry, the answer cache
(similarity over embeddings), provider adapters that only build requests. Left out of
the modelled parts: sandbox tenants except for the audit chain, delegations, the recovery
of accounts, the kill switch inside a running call, `persistence.server.ts`, which nothing
uses. The models stand for the SQL functions as much as for the TypeScript around them.

Planned, in this order:

1. `Conversations`: turns appended and committed under idempotency keys, transfer grants,
   rate limits, uploads and their removal.
2. Retention and reconciliation checkpoints, whose jobs run on the queue.
3. Secure links and channel sessions beyond payments; source ingestion.
4. The pure rules (eligibility, routing, intake) as operators against a reference.
