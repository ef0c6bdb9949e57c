--------------------------- MODULE PaymentHandoff ---------------------------
(***************************************************************************)
(* One hosted payment (lib/integrations/payment-handoff.server.ts): the    *)
(* provider session is created through an external operation, recorded as  *)
(* a hosted handoff and offered to the resident by two single-use links;   *)
(* browser visits and authoritative evidence (webhooks, reconciliation)    *)
(* are then recorded as handoff events under an optimistic row version.    *)
(*                                                                         *)
(* Every create request repeats one logical request: the same tenant, case *)
(* and idempotency key.  The provider is contracted to be idempotent, so    *)
(* all of them get one session and one session reference.  A request that  *)
(* throws or is killed just stops.                                         *)
(***************************************************************************)
EXTENDS ExternalOperations, FiniteSets, Sequences

CONSTANTS
  Creates,     \* create requests
  Visits,      \* browser requests for a launch or a return link
  Deliveries,  \* webhook requests and reconciliation runs
  Evidence,    \* verified evidence: id, source, verdict and source revision
  MaxTime,     \* bound of the clock
  LinkTime,    \* MAX_LINK_MS
  Kills        \* the requests that may be killed

Verdicts == {"pending", "confirmed", "failed"}   \* "pending": evidence that is not conclusive

ASSUME PaymentAssumption ==
  /\ "create" \in Ops /\ Hashes = 0 .. MaxTime
  /\ MaxTime \in Nat /\ LinkTime \in Nat \ {0} /\ Kills \subseteq {"create", "delivery"}
  /\ IsFiniteSet(Evidence)
  /\ \A e \in Evidence :
       /\ e.source \in {"provider_webhook", "reconciliation"}
       /\ e.verdict \in Verdicts /\ e.revision \in Nat

VARIABLES
  now,         \* the clock
  creating,    \* create requests in progress
  hosted,      \* the provider has a session
  handoff,     \* public.hosted_handoff_sessions
  log,         \* public.handoff_events
  links,       \* private.secure_link_tokens
  visits,      \* browser requests in progress
  deliveries,  \* evidence being reconciled
  events, grants   \* private.provider_events

creationVars == <<ops, granted, creating, hosted>>
inboxVars == <<events, grants>>
paymentVars ==
  <<now, ops, granted, creating, hosted, handoff, log, links, visits, deliveries, events, grants>>

Ids == {e.id : e \in Evidence}
Inbox == INSTANCE ProviderEvents WITH
  Events <- Ids, Payloads <- {"body"}, EventAttempts <- 1, EventTicks <- 1, EventDelay <- 0,
  EventTokens <- {}, Null <- Nil

Kinds == {"launch", "return"}
NoCreate == [phase |-> "idle", at |-> 0, seen |-> "absent", outcome |-> "none"]
NoHandoff == [exists |-> FALSE, browser |-> "created", state |-> "pending",
              version |-> 1, expires |-> 0]
NoLink == [state |-> "none", at |-> 0]
NoVisit == [phase |-> "idle", kind |-> "none", version |-> 0, state |-> "pending"]
NoDelivery == [phase |-> "idle", evidence |-> Nil, version |-> 0, state |-> "pending",
               browser |-> "created", seen |-> "absent"]

\* What is recorded: the visits of the browser, and evidence.
BrowserEvent(kind) ==
  [source |-> "browser", id |-> kind, verdict |-> "pending", revision |-> 0]
Entries == Evidence \cup {BrowserEvent(kind) : kind \in Kinds}

BrowserStates == {"created", "opened", "returned"}
Versions == 1 .. 1 + Cardinality(Evidence) + Cardinality(Kinds)

CreatePhases ==
  {"idle", "begin", "call", "settle", "handoff", "done", "failed", "refused"} \cup Kinds
Creation == [phase : CreatePhases, at : 0 .. MaxTime, seen : OpStates,
             outcome : {"none", "failed_unknown"} \cup Proven]
Handoff == [exists : BOOLEAN, browser : BrowserStates, state : Verdicts,
            version : Versions, expires : 0 .. MaxTime + LinkTime]
Link == [state : {"none", "live", "consumed"}, at : 0 .. MaxTime]
Visit == [phase : {"idle", "consumed", "loaded", "answered", "failed"},
          kind : Kinds \cup {"none"}, version : Versions \cup {0}, state : Verdicts]
Delivery == [phase : {"idle", "found", "resolved", "recorded"}, evidence : Evidence \cup {Nil},
             version : Versions \cup {0}, state : Verdicts, browser : BrowserStates,
             seen : {"absent", "received", "processed"}]

PaymentTypeOK ==
  /\ now \in 0 .. MaxTime
  /\ OpTypeOK
  /\ Inbox!EventTypeOK
  /\ creating \in [Creates -> Creation]
  /\ hosted \in BOOLEAN
  /\ handoff \in Handoff
  /\ log \in Seq(Entries)
  /\ links \in [Kinds -> Link]
  /\ visits \in [Visits -> Visit]
  /\ deliveries \in [Deliveries -> Delivery]

PaymentInit ==
  /\ now = 0
  /\ OpInit
  /\ Inbox!EventInit
  /\ creating = [c \in Creates |-> NoCreate]
  /\ hosted = FALSE
  /\ handoff = NoHandoff
  /\ log = <<>>
  /\ links = [k \in Kinds |-> NoLink]
  /\ visits = [v \in Visits |-> NoVisit]
  /\ deliveries = [d \in Deliveries |-> NoDelivery]

-----------------------------------------------------------------------------
(* createProductionPaymentHandoff.                                         *)
Op == "create"
Phase(c, phase) == creating' = [creating EXCEPT ![c].phase = phase]

\* The request digest covers the return URL, which seals now + MAX_LINK_MS: it
\* stands for the instant the request was made.
CreateReserve(c) ==
  /\ creating[c].phase = "idle"
  /\ \/ /\ Reserve(Op, now)
        /\ creating' = [creating EXCEPT ![c] =
             [NoCreate EXCEPT !.phase = "begin", !.at = now, !.seen = "planned"]]
     \/ /\ ops[Op].state # "absent"
        /\ UNCHANGED <<ops, granted>>
        /\ creating' = [creating EXCEPT ![c] =
             [NoCreate EXCEPT !.at = now, !.seen = ops[Op].state,
                !.phase = IF ops[Op].sha # now THEN "refused"
                          ELSE CASE ops[Op].state = "failed_terminal" -> "failed"
                                 [] ops[Op].state = "succeeded" -> "call"
                                 [] OTHER -> "begin"]]
  /\ UNCHANGED <<now, hosted, handoff, log, links, visits, deliveries, inboxVars>>

\* A terminal operation takes a second finish only with the outcome it has.
FinishCreation(s) ==
  \/ FinishLegacy(Op, s)
  \/ s \in Proven /\ ops[Op].state = s /\ UNCHANGED <<ops, granted>>
FinishRaises(s) == ops[Op].state \in Proven \ {s}

CreateBegin(c) ==
  /\ creating[c].phase = "begin"
  /\ \/ FinishCreation("in_flight") /\ Phase(c, "call")
     \/ FinishRaises("in_flight") /\ Phase(c, "failed") /\ UNCHANGED <<ops, granted>>
  /\ UNCHANGED <<now, hosted, handoff, log, links, visits, deliveries, inboxVars>>

\* The provider answers with its one session; or it is never known whether it
\* has one; or its answer is not acceptable.
CreateCall(c) ==
  /\ creating[c].phase = "call"
  /\ \E outcome \in Proven \cup {"failed_unknown"} :
       /\ creating' = [creating EXCEPT ![c].outcome = outcome, ![c].phase = "settle"]
       /\ hosted' \in IF outcome = "succeeded" THEN {TRUE} ELSE {hosted, TRUE}
  /\ UNCHANGED <<now, ops, granted, handoff, log, links, visits, deliveries, inboxVars>>

\* Mutant: an error of the finish is ignored.
CreateSettleRegardless(c) ==
  LET outcome == creating[c].outcome
      next == IF outcome = "succeeded" THEN "handoff" ELSE "failed"
  IN /\ creating[c].phase = "settle"
     /\ IF creating[c].seen = "succeeded" THEN UNCHANGED <<ops, granted>>
        ELSE FinishCreation(outcome) \/ (FinishRaises(outcome) /\ UNCHANGED <<ops, granted>>)
     /\ Phase(c, next)
     /\ UNCHANGED <<now, hosted, handoff, log, links, visits, deliveries, inboxVars>>

\* An operation found succeeded is not finished again.
CreateSettle(c) ==
  LET outcome == creating[c].outcome
      next == IF outcome = "succeeded" THEN "handoff" ELSE "failed"
  IN /\ creating[c].phase = "settle"
     /\ IF creating[c].seen = "succeeded"
        THEN Phase(c, next) /\ UNCHANGED <<ops, granted>>
        ELSE \/ FinishCreation(outcome) /\ Phase(c, next)
             \/ FinishRaises(outcome) /\ Phase(c, "failed") /\ UNCHANGED <<ops, granted>>
     /\ UNCHANGED <<now, hosted, handoff, log, links, visits, deliveries, inboxVars>>

CreateHandoff(c) ==
  /\ creating[c].phase = "handoff"
  /\ handoff' = IF handoff.exists THEN handoff
                ELSE [NoHandoff EXCEPT !.exists = TRUE, !.expires = creating[c].at + LinkTime]
  /\ Phase(c, "return")
  /\ UNCHANGED <<now, ops, granted, hosted, log, links, visits, deliveries, inboxVars>>

\* The return link, then the launch link; the token, sealed with the expiry, is
\* the same for requests of the same instant.
CreateLink(c) ==
  LET kind == creating[c].phase
      next == IF kind = "return" THEN "launch" ELSE "done"
      issued == creating[c].at + LinkTime > now
                /\ (links[kind].state = "none" \/ links[kind].at = creating[c].at)
  IN /\ kind \in Kinds
     /\ IF issued
        THEN /\ links' = IF links[kind].state = "none"
                         THEN [links EXCEPT ![kind] = [state |-> "live", at |-> creating[c].at]]
                         ELSE links
             /\ Phase(c, next)
        ELSE UNCHANGED links /\ Phase(c, "failed")
     /\ UNCHANGED <<now, ops, granted, hosted, handoff, log, visits, deliveries, inboxVars>>

\* The request is killed; its caller may make it again.
CreateDies(c) ==
  /\ "create" \in Kills
  /\ creating[c].phase \notin {"idle", "done", "refused"}
  /\ creating' = [creating EXCEPT ![c] = NoCreate]
  /\ UNCHANGED <<now, ops, granted, hosted, handoff, log, links, visits, deliveries, inboxVars>>

-----------------------------------------------------------------------------
(* civya_service_record_handoff_event: it raises, finds a duplicate, or    *)
(* records the event and moves the row on.                                 *)
Recorded(source, id) ==
  \E n \in DOMAIN log : log[n].source = source /\ log[n].id = id

\* Mutant: the row version is not compared.
RecordRaisesUnversioned(source, version, state) ==
  source = "browser" /\ (state # handoff.state \/ state \in {"confirmed", "failed"})

RecordRaises(source, version, state) ==
  \/ handoff.version # version
  \/ source = "browser" /\ state # handoff.state
  \/ state \in {"confirmed", "failed"} /\ source = "browser"

\* Mutant: events are not deduplicated.
RecordEventTwice(entry, version, browser, state) ==
  /\ ~RecordRaises(entry.source, version, state)
  /\ log' = Append(log, entry)
  /\ handoff' = [handoff EXCEPT !.browser = browser, !.state = state, !.version = @ + 1]

RecordEvent(entry, version, browser, state) ==
  /\ ~RecordRaises(entry.source, version, state)
  /\ IF Recorded(entry.source, entry.id)
     THEN UNCHANGED <<log, handoff>>
     ELSE /\ log' = Append(log, entry)
          /\ handoff' = [handoff EXCEPT !.browser = browser, !.state = state, !.version = @ + 1]

\* consumeProductionPaymentLaunch and consumeProductionPaymentReturn.  The
\* resident has the launch link once the create request returned it, and comes
\* back from the provider's page with the return link.
VisitConsume(v, kind) ==
  /\ visits[v].phase = "idle"
  /\ IF kind = "launch" THEN \E c \in Creates : creating[c].phase = "done"
     ELSE \E u \in Visits : visits[u].kind = "launch" /\ visits[u].phase = "answered"
  /\ links[kind].state = "live" /\ links[kind].at + LinkTime > now
  /\ links' = [links EXCEPT ![kind].state = "consumed"]
  /\ visits' = [visits EXCEPT ![v] = [NoVisit EXCEPT !.phase = "consumed", !.kind = kind]]
  /\ UNCHANGED <<now, creationVars, handoff, log, deliveries, inboxVars>>

VisitLoad(v) ==
  /\ visits[v].phase = "consumed"
  /\ LET active == handoff.expires > now /\ handoff.state = "pending" IN
     visits' = [visits EXCEPT ![v] =
       [@ EXCEPT !.phase = IF visits[v].kind = "launch" /\ ~active THEN "failed" ELSE "loaded",
                 !.version = handoff.version, !.state = handoff.state]]
  /\ UNCHANGED <<now, creationVars, handoff, log, links, deliveries, inboxVars>>

VisitRecord(v) ==
  LET visit == visits[v]
      browser == IF visit.kind = "launch" THEN "opened" ELSE "returned"
  IN /\ visit.phase = "loaded"
     /\ \/ /\ RecordEvent(BrowserEvent(visit.kind), visit.version, browser, visit.state)
           /\ visits' = [visits EXCEPT ![v].phase = "answered"]
        \/ /\ RecordRaises("browser", visit.version, visit.state)
           /\ visits' = [visits EXCEPT ![v].phase = "failed"]
           /\ UNCHANGED <<log, handoff>>
     /\ UNCHANGED <<now, creationVars, links, deliveries, inboxVars>>

-----------------------------------------------------------------------------
(* reconcileVerifiedPaymentEvidence.  A delivery that throws is over; the  *)
(* provider, or the next reconciliation, brings the evidence again.        *)
Stopped(d) == deliveries' = [deliveries EXCEPT ![d] = NoDelivery]

DeliveryFind(d, e) ==
  /\ deliveries[d].phase = "idle" /\ handoff.exists
  /\ deliveries' = [deliveries EXCEPT ![d] =
       [NoDelivery EXCEPT !.evidence = e, !.version = handoff.version, !.state = handoff.state,
          !.browser = handoff.browser,
          !.phase = IF e.source = "provider_webhook" THEN "found" ELSE "resolved"]]
  /\ UNCHANGED <<now, creationVars, handoff, log, links, visits, inboxVars>>

\* Mutant: a duplicate is taken for processed.
DeliveryInboxDuplicate(d) ==
  LET id == deliveries[d].evidence.id IN
  /\ deliveries[d].phase = "found"
  /\ IF events[id].state = "absent" THEN Inbox!RecordReceived(id, "body")
     ELSE UNCHANGED inboxVars
  /\ deliveries' = [deliveries EXCEPT ![d] =
       [@ EXCEPT !.phase = "resolved",
                 !.seen = IF events[id].state = "absent" THEN "received" ELSE "processed"]]
  /\ UNCHANGED <<now, creationVars, handoff, log, links, visits>>

DeliveryInbox(d) ==
  LET id == deliveries[d].evidence.id IN
  /\ deliveries[d].phase = "found"
  /\ IF events[id].state = "absent" THEN Inbox!RecordReceived(id, "body")
     ELSE UNCHANGED inboxVars
  /\ deliveries' = [deliveries EXCEPT ![d] =
       [@ EXCEPT !.phase = "resolved", !.seen = events'[id].state]]
  /\ UNCHANGED <<now, creationVars, handoff, log, links, visits>>

\* Conclusive evidence decides; other evidence keeps the state that was found.
DeliveryRecord(d) ==
  LET delivery == deliveries[d]
      e == delivery.evidence
      next == IF e.verdict = "pending" THEN delivery.state ELSE e.verdict
  IN /\ delivery.phase = "resolved"
     /\ \/ /\ RecordEvent(e, delivery.version, delivery.browser, next)
           /\ IF e.source = "provider_webhook" /\ delivery.seen # "processed"
              THEN deliveries' = [deliveries EXCEPT ![d].phase = "recorded"]
              ELSE Stopped(d)
        \/ RecordRaises(e.source, delivery.version, next) /\ Stopped(d) /\ UNCHANGED <<log, handoff>>
     /\ UNCHANGED <<now, creationVars, links, visits, inboxVars>>

\* Mutant: the event is marked before its evidence is recorded.
DeliveryMarkEarly(d) ==
  LET id == deliveries[d].evidence.id IN
  /\ deliveries[d].phase \in {"resolved", "recorded"} /\ events[id].state = "received"
  /\ Inbox!Mark(id, "processed")
  /\ Stopped(d)
  /\ UNCHANGED <<now, creationVars, handoff, log, links, visits>>

DeliveryMark(d) ==
  LET id == deliveries[d].evidence.id IN
  /\ deliveries[d].phase = "recorded"
  /\ Inbox!Mark(id, "processed") \/ (events[id].state # "received" /\ UNCHANGED inboxVars)
  /\ Stopped(d)
  /\ UNCHANGED <<now, creationVars, handoff, log, links, visits>>

DeliveryDies(d) ==
  /\ "delivery" \in Kills
  /\ deliveries[d].phase # "idle"
  /\ Stopped(d)
  /\ UNCHANGED <<now, creationVars, handoff, log, links, visits, inboxVars>>

TimePasses ==
  /\ now < MaxTime
  /\ now' = now + 1
  /\ UNCHANGED <<creationVars, handoff, log, links, visits, deliveries, inboxVars>>

Create(c) ==
  CreateReserve(c) \/ CreateBegin(c) \/ CreateCall(c) \/ CreateSettle(c)
    \/ CreateHandoff(c) \/ CreateLink(c)
Deliver(d) == DeliveryInbox(d) \/ DeliveryRecord(d) \/ DeliveryMark(d)

PaymentNext ==
  \/ \E c \in Creates : Create(c) \/ CreateDies(c)
  \/ \E v \in Visits :
       (\E kind \in Kinds : VisitConsume(v, kind)) \/ VisitLoad(v) \/ VisitRecord(v)
  \/ \E d \in Deliveries :
       (\E e \in Evidence : DeliveryFind(d, e)) \/ Deliver(d) \/ DeliveryDies(d)
  \/ TimePasses

PaymentSpec == PaymentInit /\ [][PaymentNext]_paymentVars

\* The provider repeats a webhook that was not processed, its repeats find a
\* handler now and then, and a delivery in progress goes on.
PaymentFairness ==
  /\ \A d \in Deliveries : WF_paymentVars(Deliver(d))
  /\ \A e \in Evidence :
       SF_paymentVars(events[e.id].state # "processed" /\ \E d \in Deliveries : DeliveryFind(d, e))

FairPaymentSpec == PaymentSpec /\ PaymentFairness
-----------------------------------------------------------------------------
Conclusive == {n \in DOMAIN log : log[n].verdict # "pending"}

\* "Duplicate/out-of-order webhook: deduplicated and ordered by authoritative
\* revision/rule", and "never preserve a stale complete state against newer
\* authoritative evidence" (docs/runbooks/payment-handoff.md): the official state
\* is the verdict of evidence that no recorded evidence is newer than.
NewestDecides ==
  Conclusive # {} =>
    \E n \in Conclusive :
      handoff.state = log[n].verdict /\ \A m \in Conclusive : log[m].revision <= log[n].revision

\* Conclusive evidence came in the order of its revisions.
InOrder == \A m, n \in Conclusive : m < n => log[m].revision <= log[n].revision

\* The official state is always that of some conclusive evidence, and of the newest
\* as long as the evidence comes in order: neither a browser visit nor inconclusive
\* evidence, which both write back the state they read before their awaits, undoes
\* what came in between.
AuthorityFollowsEvidence ==
  /\ IF Conclusive = {} THEN handoff.state = "pending"
     ELSE \E n \in Conclusive : handoff.state = log[n].verdict
  /\ InOrder => NewestDecides

\* Repeated and concurrent deliveries of one event, and webhook and
\* reconciliation runs beside them, are recorded once each, and the row moves
\* on exactly once for each of them.
EventsAppliedOnce ==
  /\ \A m, n \in DOMAIN log :
       log[m].source = log[n].source /\ log[m].id = log[n].id => m = n
  /\ handoff.version = 1 + Len(log)

\* A provider event is marked processed only when its evidence was recorded,
\* wherever the deliveries of it were killed.
ProcessedIsRecorded ==
  \A e \in Evidence :
    events[e.id].state = "processed" => Recorded("provider_webhook", e.id)

\* A resident is sent to the payment page at most once, on record, and never
\* after the payment was decided.
LaunchPrecedesVerdict ==
  /\ \A u, v \in Visits :
       visits[u].kind = "launch" /\ visits[u].phase = "answered"
         => /\ Recorded("browser", "launch")
            /\ visits[v].kind = "launch" /\ visits[v].phase = "answered" => u = v
  /\ \A m, n \in DOMAIN log :
       log[n].source = "browser" /\ log[n].id = "launch" /\ m < n => m \notin Conclusive

\* The rows are well-formed, each event is applied once, before it is processed, and
\* after the one launch of the payment.
RecordsInvariant ==
  PaymentTypeOK /\ EventsAppliedOnce /\ ProcessedIsRecorded /\ LaunchPrecedesVerdict

\* A handoff is offered for a session that the provider has and the operation
\* ledger says succeeded, also when requests for it race, fail or are killed;
\* a request that returns a launch URL has issued both links.
HandoffIsBacked ==
  /\ handoff.exists => hosted /\ ops[Op].state = "succeeded"
  /\ \A k \in Kinds : links[k].state # "none" => handoff.exists
  /\ \A c \in Creates :
       creating[c].phase = "done" => \A k \in Kinds : links[k].state # "none"

\* Every webhook event that was taken in is processed in the end, though the
\* handlers that race for the row version make each other fail.
TakenInIsProcessed ==
  \A e \in Evidence : events[e.id].state = "received" ~> events[e.id].state = "processed"
=============================================================================
