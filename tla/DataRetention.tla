--------------------------- MODULE DataRetention ---------------------------
(***************************************************************************)
(* The retention transaction whole: SqlAlchemyRetentionStore.apply()       *)
(* purges audit events (Retention) and knowledge pointers (Knowledge)      *)
(* together, and one failure undoes both.  The commands on a pointer       *)
(* append an audit event before they commit, which refers to the company   *)
(* row and so waits for a purge.                                           *)
(***************************************************************************)
EXTENDS Retention, Knowledge

vars == <<auditVars, pointerVars>>

Init == AuditInit /\ PointerInit

\* The pointer is among the batch, or others fill it.
SelectBoth(q) == SelectRows(q) /\ (SelectExpired \/ UNCHANGED pointerVars)

\* Audit rows and pointer go in one commit, or neither does.
ApplyBoth(q) ==
    /\ Apply(q)
    /\ IF purger = "idle" THEN UNCHANGED pointerVars
       ELSE IF purge'[q].answer = "receipt" THEN Purge ELSE ReleasePointer

\* mutant: the removal of the pointer is committed by itself
RollBackAuditOnly(q) ==
    /\ RollBackPurge(q)
    /\ IF purger = "locked" THEN Purge ELSE UNCHANGED pointerVars

RollBackBoth(q) ==
    /\ RollBackPurge(q)
    /\ IF purger = "locked" THEN ReleasePointer ELSE UNCHANGED pointerVars

PurgeStep ==
    \E q \in Purgers :
        \/ /\ \/ \E i \in RequestIds, size \in Sizes : Request(q, i, size)
              \/ LockCompany(q) \/ Lookup(q) \/ EndRequest(q)
           /\ UNCHANGED pointerVars
        \/ SelectBoth(q) \/ ApplyBoth(q) \/ RollBackBoth(q)

AuditStep ==
    /\ \/ \E p \in Appenders :
             \/ \E k \in Keys : Append(p, k)
             \/ ReadReceipt(p) \/ SelectRow(p) \/ ReadReceiptAgain(p) \/ InsertRow(p)
             \/ CommitAppend(p) \/ RollBackAppend(p)
       \/ \E k \in Keys : Age(k) \/ Deliver(k)
       \/ ListEvents \/ CommitEvidence
    /\ UNCHANGED pointerVars

PointerStep ==
    /\ \/ \E s \in Sessions :
             \/ \E op \in {"revise", "delete"}, expiry \in Expiries : Read(s, op, expiry)
             \/ Update(s) \/ RollBack(s)
             \/ NoPurgeRuns /\ (CommitRevision(s) \/ CommitDeletion(s))
       \/ Expire \/ GrowOld
    /\ UNCHANGED auditVars

Next == PurgeStep \/ AuditStep \/ PointerStep

Spec == Init /\ [][Next]_vars

-----------------------------------------------------------------------------
\* What a purge removes, audit events or pointer, goes in the commit that stores
\* the receipt of its request: nothing is gone for which a retry would not find a
\* receipt, wherever the transaction fails.
RemovalIsReceipted ==
    [][(tombs' # tombs \/ row.exists # row'.exists) =>
          \E i \in RequestIds : runs[i] = 0 /\ runs'[i] # 0]_vars
=============================================================================
