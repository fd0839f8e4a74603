------------------------- MODULE WorkItemLifecycle -------------------------
(***************************************************************************)
(* The work-item status machine of shared/control_plane/domain/work_item.py *)
(* as constant operators, shared by every module that moves a work item.   *)
(***************************************************************************)

WorkItemStatus == {"queued", "ready", "running", "blocked", "awaiting_approval",
                   "completed", "failed", "cancelled"}

\* The statuses the explicit close command may ask for.
WORK_ITEM_CLOSE_STATUSES == {"completed", "failed", "cancelled"}

\* The statuses in which an execution claim is refused as work_item_closed.
ClosedStatuses == {"completed", "cancelled"}

VALID_TRANSITIONS ==
  [s \in WorkItemStatus |->
     CASE s = "queued"    -> WorkItemStatus \ {"queued"}
       [] s = "ready"     -> WorkItemStatus \ {"queued", "ready"}
       [] s = "running"   -> WorkItemStatus \ {"queued", "ready", "running"}
       [] s = "blocked"   -> WorkItemStatus \ {"queued", "blocked"}
       [] s = "awaiting_approval" -> WorkItemStatus \ {"queued", "awaiting_approval"}
       [] s = "completed" -> WorkItemStatus \ {"queued", "completed"}
       [] s = "failed"    -> {"running", "awaiting_approval", "cancelled"}
       [] OTHER           -> {}]

\* transition_to(target): asking for the current status is accepted and does nothing.
CanTransition(from, to) == to = from \/ to \in VALID_TRANSITIONS[from]
=============================================================================
