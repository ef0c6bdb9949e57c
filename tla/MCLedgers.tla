----------------------------- MODULE MCLedgers ------------------------------
(***************************************************************************)
(* The rows that several parties write: the job queue, with one key of     *)
(* each of two types, one of them only claimable by the first worker, and  *)
(* a key for a replay; events that come in and turns of a call (two of     *)
(* each, with as many claims in all as there are tokens); the outcome of   *)
(* one case of a county source; the audit chain of a tenant; two worker    *)
(* processes and one job with three attempts; the access of two accounts   *)
(* to two cases; and, which holds its rows in memory, the admission of a   *)
(* call.  They share nothing, so a behaviour moves one of them.            *)
(***************************************************************************)
EXTENDS WorkerRuntime, ProviderEvents, PhoneTurns, OutcomeKernel, AuditChain, CaseAccess,
        CallAdmission, TLC

CONSTANTS r1, r2, a, b, w1, w2, k1, k2, k3, t1, t2, t3, t4, c1, c2, Nil

VARIABLE ledger   \* the one that moves

ledgersVars ==
  <<vars, eventVars, turnVars, outcomeVars, auditVars, runtimeVars, accessVars,
    admissionVars, ledger>>

LedgersInit ==
  /\ RuntimeInit /\ EventInit /\ TurnInit /\ OutcomeInit /\ AuditInit /\ AccessInit
  /\ AdmissionInit
  /\ ledger \in {"jobs", "events", "turns", "outcome", "audit", "workers", "access",
                 "admission"}
  /\ ledger # "audit" => environment = "production"
  /\ ledger # "outcome" => parcel = [c \in Subjects |-> Nil]

\* Tokens are alike: they are taken in this order.
TakenInOrder(tokens) == tokens \in {{}, {t1}, {t1, t2}, {t1, t2, t3}, {t1, t2, t3, t4}}

EventsStep == EventNext /\ TakenInOrder({g.token : g \in grants'})
TurnsStep == TurnNext /\ TakenInOrder({c.token : c \in claimed'})

\* Snapshots are numbered in the order of their times, all but one name the parcel;
\* they, then the definitions, are there before the first match; one decision at
\* most accepts nothing; a parcel is moved only where a decision is there to see it.
OutcomeStep ==
  /\ OutcomeNext
  /\ \A n \in DOMAIN snapshots' : n > 1 => snapshots'[n - 1].at <= snapshots'[n].at
  /\ Cardinality({n \in DOMAIN snapshots' : snapshots'[n].parcel = Nil}) <= 1
  /\ snapshots' # snapshots => Registered = {}
  /\ editions' # editions => decisions = <<>>
  /\ parcel' # parcel => decisions # <<>>
  /\ Cardinality({n \in DOMAIN decisions' : decisions'[n].decision # "accepted"}) <= 1

\* In a sandbox fewer events are written than in production.
AuditStep == AuditNext /\ (environment = "sandbox" => written' <= 3)

\* Three attempts in all, which one job may have.
JobsStep == Next /\ jobs'[r1].attempt + jobs'[r2].attempt <= 3

\* With a third attempt a request of the first may arrive under the second.
WorkersStep ==
  /\ RuntimeNext
  /\ Cardinality({j \in Jobs : Exists(j)}') <= 1 /\ \A j \in Jobs : jobs'[j].key \in {k1, None}

\* A request for assistance leaves room for one verification beside it.
AccessStep ==
  AccessNext /\ (asks' # <<>> =>
    Cardinality({k \in DOMAIN entitled' : k.kind # "staff"}) + Cardinality(verified') <= 1)

\* A process stops only while no claim has lapsed under a request.
AdmissionStep == AdmissionNext /\ (process' = "stopping" => overtaken' = {})

\* A step of one ledger, where the others stand still.
Alone(name, A, others) == ledger = name /\ A /\ UNCHANGED others

LedgersNext ==
  /\ UNCHANGED ledger
  /\ \/ /\ Alone("jobs", JobsStep, <<eventVars, turnVars, outcomeVars, auditVars>>)
        /\ UNCHANGED <<runtimeVars, accessVars, admissionVars>>
     \/ /\ Alone("workers", WorkersStep, <<eventVars, turnVars, outcomeVars, auditVars>>)
        /\ UNCHANGED <<accessVars, admissionVars>>
     \/ /\ Alone("events", EventsStep, <<turnVars, outcomeVars, auditVars, accessVars>>)
        /\ UNCHANGED <<vars, runtimeVars, admissionVars>>
     \/ /\ Alone("turns", TurnsStep, <<eventVars, outcomeVars, auditVars, accessVars>>)
        /\ UNCHANGED <<vars, runtimeVars, admissionVars>>
     \/ /\ Alone("outcome", OutcomeStep, <<eventVars, turnVars, auditVars, accessVars>>)
        /\ UNCHANGED <<vars, runtimeVars, admissionVars>>
     \/ /\ Alone("audit", AuditStep, <<eventVars, turnVars, outcomeVars, accessVars>>)
        /\ UNCHANGED <<vars, runtimeVars, admissionVars>>
     \/ /\ Alone("access", AccessStep, <<eventVars, turnVars, outcomeVars, auditVars>>)
        /\ UNCHANGED <<vars, runtimeVars, admissionVars>>
     \/ /\ Alone("admission", AdmissionStep, <<eventVars, turnVars, outcomeVars, auditVars>>)
        /\ UNCHANGED <<vars, runtimeVars, accessVars>>

LedgersSpec == LedgersInit /\ [][LedgersNext]_ledgersVars

MCTypeOf == k1 :> "deliver" @@ k2 :> "purge" @@ k3 :> "deliver"
MCCapabilities == w1 :> {"deliver", "purge"} @@ w2 :> {"deliver"}
MCTerms ==
  {[source |-> "county", from |-> w[1], to |-> w[2], reversible |-> TRUE] :
     w \in {<<1, 2>>, <<1, 3>>, <<2, 3>>}}
MCSymmetry == Permutations({r1, r2}) \cup Permutations({a, b})
=============================================================================
