----------------------------- MODULE Knowledge -----------------------------
(***************************************************************************)
(* One knowledge pointer under concurrent commands: revisions and the      *)
(* owner's deletion (shared/control_plane/knowledge_use_cases.py,          *)
(* knowledge_store.py), each a read and a later conditional UPDATE, and    *)
(* the purge of expired and deleted pointers (retention_store.py).  An     *)
(* UPDATE waits for a lock on the row, tests its WHERE clause on the       *)
(* committed row, and keeps the lock to the end of its transaction.  Who   *)
(* may revise, the reader roles and the source artifact are left out.      *)
(***************************************************************************)
EXTENDS Integers

CONSTANTS
    Sessions,    \* requests in progress
    MaxVersion   \* bound: no revision is made of this version

ASSUME KnowledgeAssumption == MaxVersion \in Nat \ {0}

Expiries == {"none", "future", "past"}   \* retention_until

VARIABLES
    row,        \* exists, version, deleted ("no", "recent", "old"), expiry
    tombstone,  \* a KnowledgeTombstone for the pointer is stored
    session,    \* per session: pc, the command, and the record it has read
    purger,     \* "idle", or "locked" while a purge has the row
    revisions,  \* history, per version: revisions of it that were committed
    collided    \* history: a second tombstone was inserted

pointerVars == <<row, tombstone, session, purger, revisions, collided>>

Published(expiry) == [exists |-> TRUE, version |-> 1, deleted |-> "no", expiry |-> expiry]
Resting == [pc |-> "idle", op |-> "revise", read |-> Published("none"), expiry |-> "none"]

\* create_knowledge() has published the pointer, under a fresh id.
PointerInit ==
    /\ \E expiry \in {"none", "future"} : row = Published(expiry)
    /\ tombstone = FALSE /\ purger = "idle" /\ collided = FALSE
    /\ session = [s \in Sessions |-> Resting]
    /\ revisions = [v \in 1..MaxVersion |-> 0]

IsAccessible(r) == r.exists /\ r.deleted = "no" /\ r.expiry # "past"

Locked == purger = "locked" \/ \E s \in Sessions : session[s].pc = "updated"

\* get_knowledge() and revise() or tombstone() of the record: an inaccessible
\* pointer, or one that is not at expected_version, ends the request.
Read(s, op, expiry) ==
    /\ session[s].pc = "idle" /\ IsAccessible(row)
    /\ IF op = "revise" THEN row.version < MaxVersion ELSE expiry = "none"
    /\ session' = [session EXCEPT ![s] = [pc |-> "read", op |-> op, read |-> row,
                                          expiry |-> expiry]]
    /\ UNCHANGED <<row, tombstone, purger, revisions, collided>>

\* mutant: the UPDATE tests that the pointer is not deleted, not its version
AnyVersion(s) == row.exists /\ row.deleted = "no"

\* mutant: the UPDATE tests the version, which a deletion keeps
AlsoDeleted(s) == row.exists /\ row.version = session[s].read.version

Matches(s) ==
    /\ row.exists /\ row.version = session[s].read.version /\ row.deleted = "no"

Update(s) ==
    /\ session[s].pc = "read" /\ ~Locked
    /\ session' = [session EXCEPT ![s] = IF Matches(s) THEN [@ EXCEPT !.pc = "updated"]
                                                       ELSE Resting]
    /\ UNCHANGED <<row, tombstone, purger, revisions, collided>>

\* The values of the record that was read, deleted_at included.
CommitRevision(s) ==
    /\ session[s].pc = "updated" /\ session[s].op = "revise"
    /\ row' = [session[s].read EXCEPT !.version = @ + 1, !.expiry = session[s].expiry]
    /\ revisions' = [revisions EXCEPT ![session[s].read.version] = @ + 1]
    /\ session' = [session EXCEPT ![s] = Resting]
    /\ UNCHANGED <<tombstone, purger, collided>>

CommitDeletion(s) ==
    /\ session[s].pc = "updated" /\ session[s].op = "delete"
    /\ row' = [row EXCEPT !.deleted = "recent"]
    /\ tombstone' = TRUE /\ collided' = (collided \/ tombstone)
    /\ session' = [session EXCEPT ![s] = Resting]
    /\ UNCHANGED <<purger, revisions>>

RollBack(s) ==
    /\ session[s].pc = "updated"
    /\ session' = [session EXCEPT ![s] = Resting]
    /\ UNCHANGED <<row, tombstone, purger, revisions, collided>>

-----------------------------------------------------------------------------
\* SqlAlchemyRetentionStore.apply(): FOR UPDATE SKIP LOCKED of the pointers that
\* have expired or were deleted long ago ...
SelectExpired ==
    /\ purger = "idle" /\ ~Locked
    /\ row.exists /\ (row.expiry = "past" \/ row.deleted = "old")
    /\ purger' = "locked"
    /\ UNCHANGED <<row, tombstone, session, revisions, collided>>

\* mutant: the purge inserts a tombstone without looking for one
PurgeBlindly ==
    /\ purger = "locked" /\ purger' = "idle"
    /\ tombstone' = TRUE /\ collided' = (collided \/ tombstone)
    /\ row' = [row EXCEPT !.exists = FALSE]
    /\ UNCHANGED <<session, revisions>>

\* mutant: the purge removes an expired pointer without a tombstone
PurgeSilently ==
    /\ purger = "locked" /\ purger' = "idle"
    /\ row' = [row EXCEPT !.exists = FALSE]
    /\ UNCHANGED <<tombstone, session, revisions, collided>>

\* ... and their removal, with a tombstone unless there is one.
Purge ==
    /\ purger = "locked" /\ purger' = "idle"
    /\ tombstone' = TRUE
    /\ row' = [row EXCEPT !.exists = FALSE]
    /\ UNCHANGED <<session, revisions, collided>>

\* The transaction of the purge fails.
ReleasePointer ==
    /\ purger = "locked" /\ purger' = "idle"
    /\ UNCHANGED <<row, tombstone, session, revisions, collided>>

-----------------------------------------------------------------------------
\* retention_until passes; the deletion grows older than the audit cutoff.
Expire ==
    /\ row.expiry = "future" /\ row' = [row EXCEPT !.expiry = "past"]
    /\ UNCHANGED <<tombstone, session, purger, revisions, collided>>

GrowOld ==
    /\ row.deleted = "recent" /\ \A s \in Sessions : session[s].pc = "idle"
    /\ row' = [row EXCEPT !.deleted = "old"]
    /\ UNCHANGED <<tombstone, session, purger, revisions, collided>>

PointerNext ==
    \/ \E s \in Sessions :
          \/ \E op \in {"revise", "delete"}, expiry \in Expiries : Read(s, op, expiry)
          \/ Update(s) \/ CommitRevision(s) \/ CommitDeletion(s) \/ RollBack(s)
    \/ SelectExpired \/ Purge \/ ReleasePointer \/ Expire \/ GrowOld

PointerSpec == PointerInit /\ [][PointerNext]_pointerVars

-----------------------------------------------------------------------------
\* A version is revised once: of two revisions of the same version one is
\* refused, and no accepted access policy is overwritten unseen.
RevisedOnce == \A v \in 1..MaxVersion : revisions[v] <= 1

\* A pointer with a tombstone is never accessible again, whatever revision was
\* under way when it was deleted or purged.
TombstonedIsGone == tombstone => ~IsAccessible(row)

\* A pointer that was deleted or removed has left a tombstone.
GoneLeavesTombstone == (~row.exists \/ row.deleted # "no") => tombstone

\* Deletion and purge never insert two tombstones of one pointer, which would
\* fail the transaction and every purge after it.
OneTombstone == ~collided
=============================================================================
