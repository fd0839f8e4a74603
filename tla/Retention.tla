----------------------------- MODULE Retention -----------------------------
(***************************************************************************)
(* Audit events that carry an idempotency key, and their physical          *)
(* retention: append_audit_event() (shared/control_plane/                  *)
(* audit_event_store.py) and the purge of old events (retention_store.py), *)
(* statement by statement on PostgreSQL.  Reads see committed rows; a      *)
(* SELECT ... FOR UPDATE waits for a lock on the row it looks for; the     *)
(* foreign key of an INSERT waits for the company row, which a purge holds *)
(* FOR UPDATE from its first statement to its commit.                      *)
(***************************************************************************)
EXTENDS Integers, FiniteSets

CONSTANTS
    Keys,        \* idempotency keys of audit events
    Carrying,    \* the keys whose event carries a domain event to the outbox
    Appenders,   \* sessions that append audit events
    Purgers,     \* requests to POST /retention with dry_run = false
    RequestIds,  \* their Idempotency-Key headers
    Sizes        \* their batch sizes

ASSUME RetentionAssumption ==
    /\ Keys # {} /\ RequestIds # {}
    /\ Carrying \subseteq Keys /\ Sizes \subseteq Nat \ {0}

None == "none"

VARIABLES
    event,    \* per key: its audit row and the outbox row correlated with it
    tombs,    \* keys with an AuditRetentionTombstone
    runs,     \* per request id: the batch size of its RetentionRun, or 0
    app,      \* per appender: pc and key
    purge,    \* per purger: pc, its command, the rows it has locked, its answer
    evidence, \* the run that is being completed: pc, and the events it has listed
    named,    \* keys whose event an evidence artifact names
    emitted   \* history, per key: domain events committed for it, at most 2

auditVars == <<event, tombs, runs, app, purge, evidence, named, emitted>>

Absent == [stored |-> FALSE, old |-> FALSE, outbox |-> None]
NoAppend == [pc |-> "idle", key |-> CHOOSE k \in Keys : TRUE]
NoPurge == [pc |-> "idle", id |-> CHOOSE i \in RequestIds : TRUE, size |-> 0,
            rows |-> {}, answer |-> None]

AuditInit ==
    /\ event = [k \in Keys |-> Absent] /\ tombs = {}
    /\ runs = [i \in RequestIds |-> 0]
    /\ app = [p \in Appenders |-> NoAppend] /\ purge = [q \in Purgers |-> NoPurge]
    /\ evidence = [pc |-> "idle", rows |-> {}] /\ named = {}
    /\ emitted = [k \in Keys |-> 0]

Purging(q) == purge[q].pc \in {"lookup", "select", "apply"}

\* mutant: the purge locks no company row
CompanyIgnored(q) == TRUE

\* mutant: FOR NO KEY UPDATE, which foreign keys do not wait for
CompanyKeyShared(q) == \A other \in Purgers \ {q} : ~Purging(other)

\* Nobody else holds the company row: FOR UPDATE, or by a foreign key.
CompanyFree(q) ==
    /\ \A other \in Purgers \ {q} : ~Purging(other)
    /\ \A p \in Appenders : app[p].pc # "inserted"
    /\ evidence.pc = "idle"

NoPurgeRuns == \A q \in Purgers : ~Purging(q)

Step(p, where) == app' = [app EXCEPT ![p].pc = where]

-----------------------------------------------------------------------------
\* append_audit_event()

Append(p, k) ==
    /\ app[p].pc = "idle"
    /\ app' = [app EXCEPT ![p] = [pc |-> "first", key |-> k]]
    /\ UNCHANGED <<event, tombs, runs, purge, evidence, named, emitted>>

\* _get_retained_audit(): a receipt answers the append.
ReadReceipt(p) ==
    /\ app[p].pc = "first"
    /\ Step(p, IF app[p].key \in tombs THEN "idle" ELSE "select")
    /\ UNCHANGED <<event, tombs, runs, purge, evidence, named, emitted>>

\* _get_audit_by_idempotency(): a row under a purge is waited for, and one that
\* is found stays locked to the end of the transaction.
SelectRow(p) ==
    /\ app[p].pc = "select"
    /\ \A q \in Purgers : app[p].key \notin purge[q].rows
    /\ \A o \in Appenders \ {p} : ~(app[o].pc = "found" /\ app[o].key = app[p].key)
    /\ Step(p, IF event[app[p].key].stored THEN "found" ELSE "again")
    /\ UNCHANGED <<event, tombs, runs, purge, evidence, named, emitted>>

\* mutant: the receipts are not read again
SkipSecondRead(p) ==
    /\ app[p].pc = "again" /\ Step(p, "insert")
    /\ UNCHANGED <<event, tombs, runs, purge, evidence, named, emitted>>

ReadReceiptAgain(p) ==
    /\ app[p].pc = "again"
    /\ Step(p, IF app[p].key \in tombs THEN "idle" ELSE "insert")
    /\ UNCHANGED <<event, tombs, runs, purge, evidence, named, emitted>>

\* The INSERT: waits for the company row, and for another insert of the key;
\* the unique constraint refuses a second row.
InsertRow(p) ==
    /\ app[p].pc = "insert" /\ NoPurgeRuns
    /\ \A o \in Appenders : ~(app[o].pc = "inserted" /\ app[o].key = app[p].key)
    /\ Step(p, IF event[app[p].key].stored THEN "idle" ELSE "inserted")
    /\ UNCHANGED <<event, tombs, runs, purge, evidence, named, emitted>>

CommitAppend(p) ==
    /\ app[p].pc \in {"found", "inserted"} /\ Step(p, "idle")
    /\ LET k == app[p].key
           new == app[p].pc = "inserted"
       IN  /\ event' = IF new
                       THEN [event EXCEPT ![k] = [Absent EXCEPT !.stored = TRUE,
                                !.outbox = IF k \in Carrying THEN "pending" ELSE None]]
                       ELSE event
           /\ emitted' = IF new /\ emitted[k] < 2
                         THEN [emitted EXCEPT ![k] = @ + 1] ELSE emitted
    /\ UNCHANGED <<tombs, runs, purge, evidence, named>>

\* The command fails after its audit event.
RollBackAppend(p) ==
    /\ app[p].pc \in {"found", "inserted"} /\ Step(p, "idle")
    /\ UNCHANGED <<event, tombs, runs, purge, evidence, named, emitted>>

-----------------------------------------------------------------------------
\* RetentionUseCase.execute() and SqlAlchemyRetentionStore.apply()

Request(q, i, size) ==
    /\ purge[q].pc = "idle"
    /\ purge' = [purge EXCEPT ![q] = [NoPurge EXCEPT !.pc = "lock", !.id = i, !.size = size]]
    /\ UNCHANGED <<event, tombs, runs, app, evidence, named, emitted>>

LockCompany(q) ==
    /\ purge[q].pc = "lock" /\ CompanyFree(q)
    /\ purge' = [purge EXCEPT ![q].pc = "lookup"]
    /\ UNCHANGED <<event, tombs, runs, app, evidence, named, emitted>>

Answer(q, answer) ==
    purge' = [purge EXCEPT ![q].pc = "done", ![q].rows = {}, ![q].answer = answer]

\* The id was used before: its receipt, or a conflict if the command differs.
Lookup(q) ==
    /\ purge[q].pc = "lookup"
    /\ LET used == runs[purge[q].id]
       IN  IF used = 0
           THEN purge' = [purge EXCEPT ![q].pc = "select"]
           ELSE Answer(q, IF used = purge[q].size THEN "receipt" ELSE "conflict")
    /\ UNCHANGED <<event, tombs, runs, app, evidence, named, emitted>>

\* mutant: an undelivered outbox row does not keep its event
EligibleUndelivered(k) == event[k].stored /\ event[k].old /\ k \notin named

Eligible(k) ==
    /\ event[k].stored /\ event[k].old /\ k \notin named
    /\ event[k].outbox # "pending"

\* FOR UPDATE SKIP LOCKED, oldest first up to the batch size.
SelectRows(q) ==
    /\ purge[q].pc = "select"
    /\ LET locked == {app[p].key : p \in {x \in Appenders : app[x].pc = "found"}}
                         \cup UNION {purge[o].rows : o \in Purgers}
           free == {k \in Keys : Eligible(k)} \ locked
       IN  \E rows \in SUBSET free :
              /\ Cardinality(rows) <= purge[q].size
              /\ Cardinality(rows) < purge[q].size => rows = free
              /\ purge' = [purge EXCEPT ![q].pc = "apply", ![q].rows = rows]
    /\ UNCHANGED <<event, tombs, runs, app, evidence, named, emitted>>

\* Receipts for the rows, which go with their published outbox rows, and the
\* request's own receipt, whose primary key is its id; then the commit.
Apply(q) ==
    /\ purge[q].pc = "apply"
    /\ IF runs[purge[q].id] # 0
       THEN Answer(q, "error") /\ UNCHANGED <<event, tombs, runs>>
       ELSE /\ Answer(q, "receipt")
            /\ event' = [k \in Keys |-> IF k \in purge[q].rows THEN Absent ELSE event[k]]
            /\ tombs' = tombs \cup purge[q].rows
            /\ runs' = [runs EXCEPT ![purge[q].id] = purge[q].size]
    /\ UNCHANGED <<app, evidence, named, emitted>>

\* The transaction of a purge fails and leaves nothing; the request may be sent again.
RollBackPurge(q) ==
    /\ Purging(q)
    /\ purge' = [purge EXCEPT ![q] = NoPurge]
    /\ UNCHANGED <<event, tombs, runs, app, evidence, named, emitted>>

\* The client has its answer; it may repeat the request.
EndRequest(q) ==
    /\ purge[q].pc = "done"
    /\ purge' = [purge EXCEPT ![q] = NoPurge]
    /\ UNCHANGED <<event, tombs, runs, app, evidence, named, emitted>>

-----------------------------------------------------------------------------
\* The retention period passes; no transaction lasts that long.
Age(k) ==
    /\ event[k].stored /\ ~event[k].old
    /\ \A p \in Appenders : app[p].pc = "idle" \/ app[p].key # k
    /\ event' = [event EXCEPT ![k].old = TRUE]
    /\ UNCHANGED <<tombs, runs, app, purge, evidence, named, emitted>>

\* A dispatcher has delivered the outbox row.
Deliver(k) ==
    /\ event[k].outbox = "pending"
    /\ event' = [event EXCEPT ![k].outbox = "published"]
    /\ UNCHANGED <<tombs, runs, app, purge, evidence, named, emitted>>

-----------------------------------------------------------------------------
\* create_run_evidence_artifact(): the audit events of the run are listed, after
\* the completion's own audit row has referred to the company ...
ListEvents ==
    /\ evidence.pc = "idle" /\ NoPurgeRuns
    /\ \E rows \in SUBSET {k \in Keys : event[k].stored} :
          evidence' = [pc |-> "listed", rows |-> rows]
    /\ UNCHANGED <<event, tombs, runs, app, purge, named, emitted>>

\* ... and the artifact that names them is committed.
CommitEvidence ==
    /\ evidence.pc = "listed"
    /\ evidence' = [pc |-> "idle", rows |-> {}] /\ named' = named \cup evidence.rows
    /\ UNCHANGED <<event, tombs, runs, app, purge, emitted>>

AuditNext ==
    \/ \E p \in Appenders :
          \/ \E k \in Keys : Append(p, k)
          \/ ReadReceipt(p) \/ SelectRow(p) \/ ReadReceiptAgain(p) \/ InsertRow(p)
          \/ CommitAppend(p) \/ RollBackAppend(p)
    \/ \E q \in Purgers :
          \/ \E i \in RequestIds, size \in Sizes : Request(q, i, size)
          \/ LockCompany(q) \/ Lookup(q) \/ SelectRows(q) \/ Apply(q)
          \/ RollBackPurge(q) \/ EndRequest(q)
    \/ \E k \in Keys : Age(k) \/ Deliver(k)
    \/ ListEvents \/ CommitEvidence

AuditSpec == AuditInit /\ [][AuditNext]_auditVars

-----------------------------------------------------------------------------
\* An idempotency key brings its audit event, and the domain event in the
\* outbox, into being once, also when its row has been purged since.
EmittedOnce == \A k \in Keys : emitted[k] <= 1

\* The audit events an evidence artifact names are still there, also when a purge
\* runs while the artifact is being made.
EvidenceIsKept == \A k \in named : event[k].stored

\* A purge removes no outbox row that is yet to be delivered.
PendingIsKept == [][\A k \in Keys : event[k].outbox = "pending" => event'[k].outbox # None]_auditVars

\* Retries of a purge, overlapping ones included, never fail at the database:
\* the first one purges, the others return its receipt.
RetryIsAnswered == \A q \in Purgers : purge[q].answer # "error"
=============================================================================
