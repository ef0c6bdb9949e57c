----------------------------- MODULE AuditChain -----------------------------
(***************************************************************************)
(* The audit chain of a tenant: every event is inserted with the hash of   *)
(* the event before it, under a lock on the head of the chain, and ranges  *)
(* of the chain are archived by checkpoints. A sandbox may purge events;   *)
(* what is left is to be chained anew.                                     *)
(*                                                                         *)
(* A hash stands for all that it was computed from: the events from the    *)
(* first of the chain to its own, in order. So a row is that sequence; its *)
(* length is the sequence number, without its last event it is the hash    *)
(* the row follows. Events are numbered as they are written, and their     *)
(* contents, which never change, are left out. A request for an archive    *)
(* that is repeated under its key changes nothing: keys are left out.      *)
(***************************************************************************)
EXTENDS Integers, FiniteSets, Sequences

CONSTANTS
  MaxEvents,    \* bound on the events that are written
  MaxArchives,  \* bound on checkpoints
  Objects,      \* what an archive may be stored as: a reference and its hash
  NoObject

ASSUME AuditAssumption == {MaxEvents, MaxArchives} \subseteq Nat /\ NoObject \notin Objects

VARIABLES
  environment,  \* tenants.environment: a production tenant or a sandbox
  rows,         \* audit_events of the tenant
  head,         \* audit_chain_heads: the chain it was computed from
  written,      \* events written so far
  purging,      \* what a cleanup has read, between its reading and its commit
  archives      \* audit_archive_checkpoints, in the order of the requests

auditVars == <<environment, rows, head, written, purging, archives>>

Ids == 1 .. MaxEvents
Chains == UNION {[1 .. n -> Ids] : n \in 0 .. MaxEvents}
Newest(chain) == chain[Len(chain)]

\* The chain of some events in the order of their creation.
ChainOf(ids) ==
  CHOOSE chain \in [1 .. Cardinality(ids) -> ids] :
    \A m, n \in DOMAIN chain : m < n => chain[m] < chain[n]

NoPurge == [gone |-> {}, chain |-> <<>>, open |-> FALSE]

Archive == [from : Ids, through : Ids, hash : Chains, count : Nat,
            state : {"queued", "verified"}, object : Objects \cup {NoObject}]

AuditInit ==
  /\ environment \in {"production", "sandbox"}
  /\ rows = {} /\ head = <<>> /\ written = 0
  /\ purging = NoPurge /\ archives = <<>>

\* civya_chain_audit_event: the next event goes on the head. Sequence numbers are
\* unique in a tenant, so the insert, and the operation around it, fails otherwise.
Written(chain) == \E row \in rows : Len(row) = Len(chain)

OnHead(chain) == rows' = rows \cup {chain} /\ head' = chain /\ written' = written + 1

Record ==
  /\ written < MaxEvents
  /\ LET chain == Append(head, written + 1) IN ~Written(chain) /\ OnHead(chain)
  /\ UNCHANGED <<environment, purging, archives>>

-----------------------------------------------------------------------------
(* Archives.                                                               *)

Verified == {i \in DOMAIN archives : archives[i].state = "verified"}
Greatest(set) == CHOOSE n \in set : \A m \in set : m <= n
VerifiedTo == Greatest({0} \cup {archives[i].through : i \in Verified})

\* Mutant: the range starts behind the last request, verified or not.
StartBehindRequests == Greatest({0} \cup {archives[i].through : i \in DOMAIN archives}) + 1

\* The first event that no verified archive has.
Start == VerifiedTo + 1

\* civya_service_request_audit_archive: from the end of what is verified through
\* the event asked for, which no other checkpoint ends with. The request is an
\* event of the chain itself.
RequestArchive(through) ==
  /\ Len(archives) < MaxArchives /\ written < MaxEvents
  /\ Start <= through
  /\ \A i \in DOMAIN archives : archives[i].through # through
  /\ \E row \in rows :
       /\ Len(row) = through
       /\ archives' = Append(archives,
            [from |-> Start, through |-> through, hash |-> row,
             count |-> Cardinality({r \in rows : Len(r) \in Start .. through}),
             state |-> "queued", object |-> NoObject])
  /\ LET chain == Append(head, written + 1) IN ~Written(chain) /\ OnHead(chain)
  /\ UNCHANGED <<environment, purging>>

\* civya_service_complete_audit_archive; repeated for the object that is stored it
\* changes nothing, for another it is refused.
CompleteArchive(i, object) ==
  /\ written < MaxEvents
  /\ archives[i].state = "queued"
  /\ archives' = [archives EXCEPT ![i].state = "verified", ![i].object = object]
  /\ LET chain == Append(head, written + 1) IN ~Written(chain) /\ OnHead(chain)
  /\ UNCHANGED <<environment, purging>>

-----------------------------------------------------------------------------
(* The cleanup of a sandbox, in one transaction that does not lock the     *)
(* head before it writes it.                                               *)

\* civya_prepare_retention_cleanup deletes, and the rebuild reads what it will
\* leave, in the order of creation, and computes its chain.
PurgeReads(gone) ==
  /\ environment = "sandbox" /\ ~purging.open
  /\ gone \subseteq rows
  /\ purging' = [gone |-> gone, open |-> TRUE,
                 chain |-> ChainOf({Newest(r) : r \in rows \ gone})]
  /\ UNCHANGED <<environment, rows, head, written, archives>>

\* The rebuild writes the head. Its updates of the rows reach a trigger that
\* returns the old row for them (:148-165), so that they change nothing.
PurgeCommits ==
  /\ purging.open
  /\ rows' = rows \ purging.gone
  /\ head' = purging.chain
  /\ purging' = NoPurge
  /\ UNCHANGED <<environment, written, archives>>

AuditNext ==
  \/ Record
  \/ \E through \in Ids : RequestArchive(through)
  \/ \E i \in DOMAIN archives, object \in Objects : CompleteArchive(i, object)
  \/ \E gone \in SUBSET rows : PurgeReads(gone)
  \/ PurgeCommits

AuditSpec == AuditInit /\ [][AuditNext]_auditVars

-----------------------------------------------------------------------------
AuditTypeOK ==
  /\ environment \in {"production", "sandbox"}
  /\ rows \subseteq Chains /\ head \in Chains /\ written \in 0 .. MaxEvents
  /\ purging \in [gone : SUBSET Chains, chain : Chains, open : BOOLEAN]
  /\ archives \in Seq(Archive)

\* civya_service_verify_audit_chain answers valid: the rows, in the order of their
\* numbers, are the chain that ends in the head.
Verifies == rows = {SubSeq(head, 1, n) : n \in 1 .. Len(head)}

\* In production every event that was written is in the chain, in its order,
\* whatever was archived in between.
ProductionKeepsAll ==
  environment = "production" => Verifies /\ head = [n \in 1 .. written |-> n]

\* The verified archives of a production tenant have no gap: each event up to the
\* end of the last one is in one of them, each is its range of the chain in full.
ArchivesHaveNoGap ==
  environment = "production" =>
    /\ \A n \in 1 .. VerifiedTo : \E i \in Verified : n \in archives[i].from .. archives[i].through
    /\ \A i \in DOMAIN archives :
         /\ archives[i].hash = SubSeq(head, 1, archives[i].through)
         /\ archives[i].count = archives[i].through - archives[i].from + 1

\* "Rebuild the remaining synthetic chain after the sandbox-only retention function
\* removes expired history" (0012:298-299; foundation-runtime-tests.mjs:183-186): a
\* cleanup that no other event meets leaves a chain that verifies.
CleanupRebuilds ==
  [][PurgeCommits /\ Verifies /\ purging.chain = ChainOf({Newest(r) : r \in rows \ purging.gone})
       => Verifies']_auditVars

AuditInvariant == AuditTypeOK /\ ProductionKeepsAll /\ ArchivesHaveNoGap

=============================================================================
