-------------------- MODULE ExecutionGovernanceInvariant --------------------
(***************************************************************************)
(* The inductive invariant of ExecutionGovernance, the shapes its steps    *)
(* have, the proof that every step keeps the types, and what the steps do  *)
(* to leases, runs, reservations and usage, row by row.                    *)
(***************************************************************************)
EXTENDS ExecutionGovernance, TLAPS

-----------------------------------------------------------------------------
(* Rows                                                                    *)

\* A handler that is claiming or running an execution holds a Request.
LEMMA RequestType ==
  ASSUME TypeOK, NEW p \in Procs, proc[p].pc \in {"claiming", "claimed", "executing"}
  PROVE  proc[p] \in Request
<1>1. proc[p] \in Request \cup Command \cup {Idle}  BY DEF TypeOK
<1>2. proc[p] \in Command => proc[p].pc \in {"command", "reassign"}  BY DEF Command
<1>3. proc[p] = Idle => proc[p].pc = "idle"  BY DEF Idle
<1> QED  BY <1>1, <1>2, <1>3

\* A handler of a status command holds a Command.
LEMMA CommandType ==
  ASSUME TypeOK, NEW p \in Procs, proc[p].pc \in {"command", "reassign"}
  PROVE  proc[p] \in Command
<1>1. proc[p] \in Request \cup Command \cup {Idle}  BY DEF TypeOK
<1>2. proc[p] \in Request => proc[p].pc \in {"claiming", "claimed", "executing"}
  BY DEF Request
<1>3. proc[p] = Idle => proc[p].pc = "idle"  BY DEF Idle
<1> QED  BY <1>1, <1>2, <1>3

\* A lease with a state is a row of the lease table.
LEMMA LeaseType ==
  ASSUME TypeOK, NEW k \in Keys, lease[k].state # "none"
  PROVE  lease[k] \in LeaseRow
BY DEF TypeOK, LeaseRow, NoLease

\* A run with a status is a row of the run table.
LEMMA RunType ==
  ASSUME TypeOK, NEW k \in Keys, run[k].status # "none"
  PROVE  run[k] \in RunRow
BY DEF TypeOK, RunRow, NoRun

\* Changing the state or the expiry of a lease row gives a lease row.
LEMMA LeaseUpdate ==
  ASSUME NEW l \in LeaseRow, NEW s \in ActiveLeaseStates \cup TerminalLeaseStates,
         NEW t \in Nat
  PROVE  /\ [l EXCEPT !.state = s] \in LeaseRow
         /\ [l EXCEPT !.state = s, !.expires = t] \in LeaseRow
BY Zenon DEF LeaseRow

\* Changing fields of a work item gives a work item.
LEMMA WorkUpdate ==
  ASSUME NEW r \in WorkRow, NEW s \in WorkItemStatus, NEW o \in Agents \cup {None},
         NEW k \in Keys \cup {None}
  PROVE  /\ [r EXCEPT !.status = s] \in WorkRow
         /\ [r EXCEPT !.acceptance = k] \in WorkRow
         /\ [r EXCEPT !.status = s, !.owner = o] \in WorkRow
         /\ [r EXCEPT !.status = s, !.acceptance = k] \in WorkRow
BY Zenon DEF WorkRow

\* The rows that a claim inserts are an approval row and a lease row.
LEMMA NewRows ==
  ASSUME TypeOK, NEW k \in Keys, NEW i \in Intent
  PROVE  /\ [status |-> "pending", key |-> k, intent |-> i,
             expires |-> now + ApprovalTerm, consumed |-> None] \in ApprovalRow
         /\ [state |-> "running", intent |-> i, expires |-> now + LeaseTerm,
             control |-> "resume"] \in LeaseRow
<1>1. now + ApprovalTerm \in Nat /\ now + LeaseTerm \in Nat
  BY ConstantsAssumption DEF TypeOK
<1> QED  BY <1>1 DEF ApprovalRow, LeaseRow, ActiveLeaseStates, ControlActions

\* The ceiling a lease reserved is a natural number.
LEMMA AmountType ==
  ASSUME TypeOK, NEW k \in Keys, lease[k].state # "none"
  PROVE  Amount(k) \in Nat
BY LeaseType, ConstantsAssumption DEF Amount, LeaseRow, Intent

-----------------------------------------------------------------------------
(* The inductive invariant                                                 *)

InFlight(p) == proc[p].pc \in {"claimed", "executing"}

\* A handler past its claim is the only one on its key; its lease may have been
\* taken from it, but not settled as succeeded, and until it dispatches nobody has
\* called the executor.
HandlersOwnKeys ==
  \A p \in Procs : InFlight(p) =>
    /\ lease[proc[p].key].state \in {"running", "recovery_required", "failed"}
    /\ proc[p].pc = "claimed" => effects[proc[p].key] = 0
    /\ \A o \in Procs : InFlight(o) /\ proc[o].key = proc[p].key => o = p

\* Leases, run records and executor calls of a key.
RunsFollowLeases ==
  \A k \in Keys :
    /\ lease[k].state = "none" => effects[k] = 0
    /\ lease[k].state = "none" <=> run[k].status = "none"
    /\ lease[k].state = "running" => run[k].status = "running"
    /\ run[k].status = "running" => Active(k)
    /\ run[k].status = "succeeded" <=> lease[k].state = "succeeded"
    /\ effects[k] <= 1

\* Reservations are made with the run and charged when the run ends.
MoneyFollowsRuns ==
  \A k \in Keys, b \in Budgets :
    /\ lease[k].state = "none" => resv[k][b] = "none"
    /\ run[k].status = "running" => resv[k][b] # "settled"
    /\ run[k].status \in {"succeeded", "failed", "cancelled"} => resv[k][b] # "reserved"
    /\ Len(usage[k][b]) = IF resv[k][b] = "settled" THEN 1 ELSE 0

\* An acceptance names a run with business output; a completed item has one, of
\* its latest run.
AcceptancesHold ==
  \A w \in Works :
    /\ work[w].acceptance # None =>
         run[work[w].acceptance] = [status |-> "succeeded", business |-> TRUE]
    /\ work[w].status = "completed" => Accepted(w)

\* ApprovalBinding in terms of row states, and an approval is consumed only once it
\* is approved.
ApprovalsHold ==
  /\ \A ap \in Approvals : approval[ap].status = "pending" => approval[ap].consumed = None
  /\ \A k \in Keys : lease[k].state # "none" /\ RequiresApproval(lease[k].intent) =>
       \E ap \in Approvals : approval[ap].status # "none" /\ approval[ap].consumed = k
  /\ \A ap \in Approvals : approval[ap].status # "none" /\ approval[ap].consumed # None =>
       /\ approval[ap].status = "approved"
       /\ approval[ap].consumed = approval[ap].key
       /\ lease[approval[ap].key].state # "none"
       /\ approval[ap].intent = lease[approval[ap].key].intent

IndInv ==
  /\ TypeOK
  /\ HandlersOwnKeys
  /\ RunsFollowLeases
  /\ MoneyFollowsRuns
  /\ AcceptancesHold
  /\ ApprovalsHold
  /\ OneRunningPerResource

-----------------------------------------------------------------------------
(* Shapes of steps                                                         *)

\* Every way a wakeup concludes is Conclude with some terminal outcome.
Conclusion(p) ==
  \E state \in TerminalLeaseStates, cost \in Nat, row \in RunRow,
     target \in {"blocked", "failed", "cancelled"} :
    /\ InFlight(p)
    /\ row.status # "running"
    /\ row.status = "succeeded" <=> state = "succeeded"
    /\ Conclude(p, state, cost, row, target)

\* Succeed, OverrunCeiling, Fail and Terminate are conclusions.
LEMMA ConclusionShape ==
  ASSUME TypeOK, NEW p \in Procs,
         Succeed(p) \/ OverrunCeiling(p) \/ Fail(p) \/ Terminate(p)
  PROVE  Conclusion(p)
<1>1. InFlight(p)  BY DEF Succeed, OverrunCeiling, Fail, Terminate, Executing, InFlight
<1>2. proc[p] \in Request  BY <1>1, RequestType DEF InFlight
<1>3. proc[p].key \in Keys  BY <1>2 DEF Request
<1>4. ASSUME NEW state, NEW cost, NEW row, NEW target,
             Conclude(p, state, cost, row, target)
      PROVE  Amount(proc[p].key) \in Nat
  BY <1>3, <1>4, AmountType DEF Conclude
<1>5. CASE Succeed(p)
  <2>1. PICK cost \in Costs, business \in BOOLEAN :
          Conclude(p, "succeeded", cost, [status |-> "succeeded", business |-> business], "blocked")
    BY <1>5 DEF Succeed
  <2>2. cost \in Nat  BY ConstantsAssumption
  <2>3. [status |-> "succeeded", business |-> business] \in RunRow  BY DEF RunRow, RunStatus
  <2> QED  BY <1>1, <2>1, <2>2, <2>3 DEF Conclusion, TerminalLeaseStates
<1>6. CASE OverrunCeiling(p)
  <2>1. PICK cost \in Costs :
          Conclude(p, "failed", cost, [status |-> "failed", business |-> FALSE], "failed")
    BY <1>6 DEF OverrunCeiling
  <2>2. cost \in Nat  BY ConstantsAssumption
  <2>3. [status |-> "failed", business |-> FALSE] \in RunRow  BY DEF RunRow, RunStatus
  <2> QED  BY <1>1, <2>1, <2>2, <2>3 DEF Conclusion, TerminalLeaseStates
<1>7. CASE Fail(p)
  <2>1. Conclude(p, "failed", Amount(proc[p].key), [status |-> "failed", business |-> FALSE], "failed")
    BY <1>7 DEF Fail
  <2>2. Amount(proc[p].key) \in Nat  BY <2>1, <1>4
  <2>3. [status |-> "failed", business |-> FALSE] \in RunRow  BY DEF RunRow, RunStatus
  <2> QED  BY <1>1, <2>1, <2>2, <2>3 DEF Conclusion, TerminalLeaseStates
<1>8. CASE Terminate(p)
  <2>1. Conclude(p, "failed", Amount(proc[p].key), [status |-> "cancelled", business |-> FALSE], "cancelled")
    BY <1>8 DEF Terminate
  <2>2. Amount(proc[p].key) \in Nat  BY <2>1, <1>4
  <2>3. [status |-> "cancelled", business |-> FALSE] \in RunRow  BY DEF RunRow, RunStatus
  <2> QED  BY <1>1, <2>1, <2>2, <2>3 DEF Conclusion, TerminalLeaseStates
<1> QED  BY <1>5, <1>6, <1>7, <1>8

\* A step that changes none of the tables of an execution and lets no handler
\* past its claim.
Quiet ==
  /\ UNCHANGED <<work, latest, lease, resv, usage, run, approval, effects>>
  /\ now' \in {now, now + 1}
  /\ agent' \in [Agents -> [status: AgentStatus, cfg: Cfgs]]
  /\ proc' \in [Procs -> Request \cup Command \cup {Idle}]
  /\ \A p \in Procs : proc'[p].pc \in {"claimed", "executing"} => proc'[p] = proc[p]

\* A step that moves a work item through update_work_item_status.
WorkMoved(p) ==
  /\ \E w \in Works, target \in WorkItemStatus, owner \in Agents \cup {None} :
       MutationAllowed(w, target) /\ work' = Mutated(w, target, owner)
  /\ Done(p)
  /\ UNCHANGED <<now, latest, agent, lease, resv, usage, run, approval, effects>>

\* A handler that becomes idle, while nobody else's changes.
LEMMA DoneShape ==
  ASSUME TypeOK, NEW p \in Procs, Done(p)
  PROVE  /\ proc' \in [Procs -> Request \cup Command \cup {Idle}]
         /\ \A o \in Procs : proc'[o].pc \in {"claimed", "executing"} =>
              o # p /\ proc'[o] = proc[o]
BY DEF TypeOK, Done, Idle

\* A handler that begins is not past its claim, and nothing else changes.
LEMMA BeginShape ==
  ASSUME TypeOK, NEW p \in Procs, NEW r \in Request \cup Command,
         r.pc \notin {"claimed", "executing"},
         proc' = [proc EXCEPT ![p] = r],
         UNCHANGED <<now, work, latest, agent, lease, resv, usage, run, approval, effects>>
  PROVE  Quiet
BY DEF TypeOK, Quiet

\* A handler that ends without writing a table is quiet.
LEMMA DoneIsQuiet ==
  ASSUME TypeOK, NEW p \in Procs, Done(p),
         UNCHANGED <<now, work, latest, agent, lease, resv, usage, run, approval, effects>>
  PROVE  Quiet
BY DoneShape DEF TypeOK, Quiet

\* Receiving a work-item run request is quiet.
LEMMA BeginRunShape ==
  ASSUME TypeOK, NEW p \in Procs, NEW w \in Works, NEW a \in Agents, NEW k \in RunKeys,
         BeginRun(p, w, a, k)
  PROVE  Quiet
<1> DEFINE i == [agent |-> a, work |-> w, cfg |-> agent[a].cfg,
                 owner |-> work[w].owner, acceptance |-> work[w].acceptance]
           r == [pc |-> "claiming", kind |-> "run", key |-> k, intent |-> i]
           c == [pc |-> "command", work |-> w, target |-> "failed", owner |-> a]
<1>0. work[w] \in WorkRow  BY DEF TypeOK
<1>1. i \in Intent  BY <1>0 DEF TypeOK, Intent, WorkRow
<1>2. r \in Request  BY <1>1 DEF Request, Keys
<1>3. c \in Command  BY DEF Command, WorkItemStatus
<1>4. CASE agent[a].status = "active"
  <2>1. proc' = [proc EXCEPT ![p] = r]  BY <1>4 DEF BeginRun
  <2> HIDE DEF r
  <2>2. r.pc \notin {"claimed", "executing"}  BY DEF r
  <2> QED  BY Zenon, <1>2, <2>1, <2>2, BeginShape DEF BeginRun
<1>5. CASE agent[a].status # "active"
  <2>1. proc' = [proc EXCEPT ![p] = c]  BY <1>5 DEF BeginRun
  <2> HIDE DEF c
  <2>2. c.pc \notin {"claimed", "executing"}  BY DEF c
  <2> QED  BY Zenon, <1>3, <2>1, <2>2, BeginShape DEF BeginRun
<1> QED  BY <1>4, <1>5

\* Receiving an agent wake is quiet.
LEMMA BeginWakeShape ==
  ASSUME TypeOK, NEW p \in Procs, NEW w \in Works \cup {None}, NEW a \in Agents,
         NEW k \in WakeKeys, BeginWake(p, w, a, k)
  PROVE  Quiet
<1> DEFINE i == [agent |-> a, work |-> w, cfg |-> agent[a].cfg,
                 owner |-> None, acceptance |-> None]
           r == [pc |-> "claiming", kind |-> "wake", key |-> k, intent |-> i]
<1>1. i \in Intent  BY DEF TypeOK, Intent
<1>2. r \in Request  BY <1>1 DEF Request, Keys
<1>3. proc' = [proc EXCEPT ![p] = r]  BY DEF BeginWake
<1>4. r.pc \notin {"claimed", "executing"}  OBVIOUS
<1> HIDE DEF r
<1> QED  BY Zenon, <1>2, <1>3, <1>4, BeginShape DEF BeginWake

\* Receiving a status command is quiet.
LEMMA BeginCommandShape ==
  ASSUME TypeOK, NEW p \in Procs, NEW w \in Works, NEW target \in WorkItemStatus,
         NEW owner \in Agents \cup {None}, NEW pc \in {"command", "reassign"},
         BeginCommand(p, pc, w, target, owner)
  PROVE  Quiet
<1> DEFINE c == [pc |-> pc, work |-> w, target |-> target, owner |-> owner]
<1>1. c \in Command  BY DEF Command
<1>2. proc' = [proc EXCEPT ![p] = c]  BY DEF BeginCommand
<1>3. c.pc \notin {"claimed", "executing"}  OBVIOUS
<1> HIDE DEF c
<1> QED  BY Zenon, <1>1, <1>2, <1>3, BeginShape DEF BeginCommand

\* A step of a status command is quiet or moves its work item.
LEMMA WorkCommandShape ==
  ASSUME TypeOK, NEW p \in Procs, WorkCommand(p)
  PROVE  Quiet \/ WorkMoved(p)
<1>1. ASSUME NEW w \in Works, UpdateStatus(p, w)  PROVE Quiet
  <2>1. PICK target \in RequestedStatuses, owner \in Owners \cup {None} :
          BeginCommand(p, "command", w, target, owner)
    BY <1>1 DEF UpdateStatus
  <2> QED  BY <2>1, BeginCommandShape, ConstantsAssumption
<1>2. ASSUME NEW w \in Works, Reassign(p, w)  PROVE Quiet
  <2>1. PICK owner \in Owners : BeginCommand(p, "reassign", w, work[w].status, owner)
    BY <1>2 DEF Reassign
  <2>2. work[w].status \in WorkItemStatus  BY DEF TypeOK, WorkRow
  <2> QED  BY <2>1, <2>2, BeginCommandShape, ConstantsAssumption
<1>3. ASSUME NEW w \in Works, BlockOrClose(p, w)  PROVE Quiet
  <2>1. PICK target \in RequestedStatuses : BeginCommand(p, "command", w, target, work[w].owner)
    BY <1>3 DEF BlockOrClose
  <2>2. work[w].owner \in Agents \cup {None}  BY DEF TypeOK, WorkRow
  <2> QED  BY <2>1, <2>2, BeginCommandShape, ConstantsAssumption
<1>4. CASE CommandApplied(p)
  <2>1. proc[p] \in Command  BY <1>4, CommandType DEF CommandApplied
  <2>2. /\ proc[p].work \in Works
        /\ proc[p].target \in WorkItemStatus
        /\ proc[p].owner \in Agents \cup {None}
    BY <2>1 DEF Command
  <2> QED  BY Zenon, <1>4, <2>2 DEF CommandApplied, WorkMoved
<1>5. CASE CommandRefused(p)
  BY <1>5, DoneIsQuiet DEF CommandRefused
<1> QED  BY <1>1, <1>2, <1>3, <1>4, <1>5 DEF WorkCommand

\* A replayed claim is quiet or moves its work item.
LEMMA ReplayShape ==
  ASSUME TypeOK, NEW p \in Procs, ClaimReplayed(p)
  PROVE  Quiet \/ WorkMoved(p)
<1> DEFINE q == proc[p]
           w == q.intent.work
           target == IF run[q.key].status = "succeeded" THEN "blocked" ELSE "failed"
<1>1. q \in Request  BY RequestType DEF ClaimReplayed, Claiming
<1>2. q.intent \in Intent  BY <1>1 DEF Request
<1>3. q.intent.agent \in Agents /\ w \in Works \cup {None}  BY <1>2 DEF Intent
<1>4. Done(p) /\ UNCHANGED <<now, latest, agent, lease, resv, usage, run, approval, effects>>
  BY DEF ClaimReplayed
<1>5. CASE q.kind = "run" /\ MutationAllowed(w, target)
  <2>1. work' = Mutated(w, target, q.intent.agent)  BY <1>5 DEF ClaimReplayed
  <2>2. target \in WorkItemStatus  BY DEF WorkItemStatus
  <2> HIDE DEF target
  <2>3. CASE w \in Works
    BY Zenon, <1>3, <1>4, <1>5, <2>1, <2>2, <2>3 DEF WorkMoved
  <2>4. CASE w = None
    <3>1. w \notin Works  BY <2>4, ConstantsAssumption
    <3>2. work' = work  BY <2>1, <3>1 DEF Mutated, TypeOK
    <3> QED  BY <1>4, <3>2, DoneIsQuiet
  <2> QED  BY <1>3, <2>3, <2>4
<1>6. CASE ~(q.kind = "run" /\ MutationAllowed(w, target))
  <2>1. work' = work  BY <1>6 DEF ClaimReplayed
  <2> QED  BY <1>4, <2>1, DoneIsQuiet
<1> QED  BY <1>5, <1>6

\* Every step of the system is quiet or one of the steps that touch an execution.
LEMMA StepShapes ==
  ASSUME TypeOK, [Next]_vars
  PROVE  \/ Quiet
         \/ \E p \in Procs : \/ ClaimBlocked(p)
                             \/ ClaimAwaitsApproval(p)
                             \/ ClaimGranted(p)
                             \/ WorkMoved(p)
                             \/ Dispatch(p)
                             \/ Conclusion(p)
                             \/ MarkUncertain(p)
         \/ \E k \in Keys : Recover(k) \/ \E action \in ControlActions : RequestControl(k, action)
         \/ \E w \in Works, accepted \in BOOLEAN : Review(w, accepted)
         \/ \E ap \in Approvals, approved \in BOOLEAN : ResolveApproval(ap, approved)
<1>1. CASE UNCHANGED vars  BY <1>1 DEF vars, Quiet, TypeOK
<1>2. ASSUME NEW p \in Procs, NEW w \in Works, NEW a \in Agents, NEW k \in RunKeys,
             BeginRun(p, w, a, k)
      PROVE  Quiet
  BY <1>2, BeginRunShape
<1>3. ASSUME NEW p \in Procs, NEW w \in Works \cup {None}, NEW a \in Agents,
             NEW k \in WakeKeys, BeginWake(p, w, a, k)
      PROVE  Quiet
  BY <1>3, BeginWakeShape
<1>4. ASSUME NEW p \in Procs, ClaimDenied(p) \/ ConclusionRefused(p) \/ Crash(p)
      PROVE  Quiet
  BY Zenon, <1>4, DoneIsQuiet DEF ClaimDenied, ConclusionRefused, Crash
<1>5. ASSUME NEW a \in Agents, NEW role \in Roles, UpdateAgent(a, role)  PROVE Quiet
  BY <1>5, ConstantsAssumption DEF UpdateAgent, Quiet, TypeOK
<1>6. CASE Tick  BY <1>6 DEF Tick, Quiet, TypeOK
<1> QED
  BY Zenon, <1>1, <1>2, <1>3, <1>4, <1>5, <1>6, ReplayShape, WorkCommandShape, ConclusionShape
     DEF Next, Claim, Execution

-----------------------------------------------------------------------------
(* Types                                                                   *)

\* Settling a lease keeps the row types of leases, reservations and usage.
LEMMA SettleType ==
  ASSUME TypeOK, NEW k \in Keys, NEW cost \in Nat, NEW state \in TerminalLeaseStates,
         lease[k].state # "none", Settle(k, cost, state)
  PROVE  /\ lease' \in [Keys -> LeaseRow \cup {NoLease}]
         /\ resv' \in [Keys -> [Budgets -> {"none", "reserved", "settled"}]]
         /\ usage' \in [Keys -> [Budgets -> Seq(UsageRow)]]
<1>1. [lease[k] EXCEPT !.state = state] \in LeaseRow
  BY Zenon, LeaseType, LeaseUpdate
<1>2. lease' = [lease EXCEPT ![k] = [lease[k] EXCEPT !.state = state]]
  BY DEF Settle, TypeOK
<1>3. lease' \in [Keys -> LeaseRow \cup {NoLease}]
  BY <1>1, <1>2 DEF TypeOK
<1>4. resv' \in [Keys -> [Budgets -> {"none", "reserved", "settled"}]]
  BY DEF Settle, TypeOK
<1>5. [cost |-> cost, at |-> now] \in UsageRow  BY DEF UsageRow, TypeOK
<1>6. \A b \in Budgets : Append(usage[k][b], [cost |-> cost, at |-> now]) \in Seq(UsageRow)
  BY <1>5 DEF TypeOK
<1>7. usage' \in [Keys -> [Budgets -> Seq(UsageRow)]]
  BY <1>6 DEF Settle, TypeOK
<1> QED  BY <1>3, <1>4, <1>7

\* update_work_item_status keeps the row type of work items.
LEMMA MutatedType ==
  ASSUME TypeOK, NEW w \in Works, NEW target \in WorkItemStatus,
         NEW owner \in Agents \cup {None}, work' = Mutated(w, target, owner)
  PROVE  work' \in [Works -> WorkRow]
<1> DEFINE o == IF owner = None THEN work[w].owner ELSE owner
           r == [work[w] EXCEPT !.status = target, !.owner = o]
<1>1. work[w] \in WorkRow  BY DEF TypeOK
<1>2. o \in Agents \cup {None}  BY <1>1 DEF WorkRow
<1>3. r \in WorkRow  BY Zenon, <1>1, <1>2, WorkUpdate
<1>4. work' = [work EXCEPT ![w] = r]  BY Zenon DEF Mutated, TypeOK
<1> QED  BY <1>3, <1>4 DEF TypeOK

\* Every step keeps the row types.
LEMMA TypeStep ==
  ASSUME IndInv, [Next]_vars
  PROVE  TypeOK'
<1> USE DEF IndInv
<1>1. CASE Quiet  BY <1>1 DEF Quiet, TypeOK
<1>2. ASSUME NEW p \in Procs, ClaimBlocked(p)  PROVE TypeOK'
  <2>1. PICK k \in Keys : lease' = IF lease[k].state = "running" /\ Expired(k)
                             THEN [lease EXCEPT ![k].state = "recovery_required"] ELSE lease
    <3>1. proc[p] \in Request  BY <1>2, RequestType DEF ClaimBlocked, Claiming
    <3>2. Blocking(proc[p]) \subseteq Keys  BY <3>1 DEF Blocking, ActiveOn, Request
    <3> QED  BY Zenon, <1>2, <3>2 DEF ClaimBlocked
  <2>2. lease' \in [Keys -> LeaseRow \cup {NoLease}]
    <3>1. CASE lease[k].state = "running" /\ Expired(k)
      <4>1. [lease[k] EXCEPT !.state = "recovery_required"] \in LeaseRow
        BY Zenon, <3>1, LeaseType, LeaseUpdate DEF ActiveLeaseStates
      <4> QED  BY <2>1, <3>1, <4>1 DEF TypeOK
    <3> QED  BY <2>1, <3>1 DEF TypeOK
  <2> QED  BY <1>2, <2>2, DoneShape DEF ClaimBlocked, TypeOK
<1>3. ASSUME NEW p \in Procs, ClaimAwaitsApproval(p)  PROVE TypeOK'
  <2>1. proc[p] \in Request  BY <1>3, RequestType DEF ClaimAwaitsApproval, Claiming
  <2>2. proc[p].key \in Keys /\ proc[p].intent \in Intent  BY <2>1 DEF Request
  <2>3. approval' \in [Approvals -> ApprovalRow \cup {NoApproval}]
    <3>1. [status |-> "pending", key |-> proc[p].key, intent |-> proc[p].intent,
           expires |-> now + ApprovalTerm, consumed |-> None] \in ApprovalRow
      BY Zenon, <2>2, NewRows
    <3> QED  BY Zenon, <1>3, <3>1 DEF ClaimAwaitsApproval, TypeOK
  <2>4. work' \in [Works -> WorkRow]
    <3> DEFINE w == proc[p].intent.work
    <3>1. CASE w \in Works
      <4>1. w # None  BY <3>1, ConstantsAssumption
      <4>2. "awaiting_approval" \in WorkItemStatus  BY DEF WorkItemStatus
      <4>3. [work[w] EXCEPT !.status = "awaiting_approval"] \in WorkRow
        BY Zenon, <3>1, <4>2, WorkUpdate DEF TypeOK
      <4> QED  BY Zenon, <1>3, <4>1, <4>3 DEF ClaimAwaitsApproval, TypeOK
    <3>2. CASE w = None  BY <1>3, <3>2 DEF ClaimAwaitsApproval, TypeOK
    <3> QED  BY Zenon, <2>2, <3>1, <3>2 DEF Intent
  <2> QED  BY <1>3, <2>3, <2>4, DoneShape DEF ClaimAwaitsApproval, TypeOK
<1>4. ASSUME NEW p \in Procs, ClaimGranted(p)  PROVE TypeOK'
  <2> DEFINE q == proc[p]
  <2>1. q \in Request  BY Zenon, <1>4, RequestType DEF ClaimGranted, Claiming
  <2>2. q.key \in Keys /\ q.intent \in Intent  BY <2>1 DEF Request
  <2>3. lease' \in [Keys -> LeaseRow \cup {NoLease}]
    <3>1. [state |-> "running", intent |-> q.intent, expires |-> now + LeaseTerm,
           control |-> "resume"] \in LeaseRow
      BY Zenon, <2>2, NewRows
    <3> QED  BY Zenon, <1>4, <3>1 DEF ClaimGranted, TypeOK
  <2>4. resv' \in [Keys -> [Budgets -> {"none", "reserved", "settled"}]]
    BY Zenon, <1>4 DEF ClaimGranted, TypeOK
  <2>5. run' \in [Keys -> RunRow \cup {NoRun}]
    BY Zenon, <1>4 DEF ClaimGranted, TypeOK, RunRow, RunStatus
  <2>6. /\ work' \in [Works -> WorkRow]
        /\ latest' \in [Works -> Keys \cup {None}]
    <3> DEFINE w == q.intent.work
    <3>1. CASE w \in Works
      <4>1. w # None  BY <3>1, ConstantsAssumption
      <4>2. "running" \in WorkItemStatus  BY DEF WorkItemStatus
      <4>3. [work[w] EXCEPT !.status = "running", !.acceptance = None] \in WorkRow
        BY Zenon, <3>1, <4>2, WorkUpdate DEF TypeOK
      <4>4. /\ work' = [work EXCEPT ![w] =
                          [work[w] EXCEPT !.status = "running", !.acceptance = None]]
            /\ latest' = [latest EXCEPT ![w] = q.key]
        BY Zenon, <1>4, <3>1, <4>1 DEF ClaimGranted, TypeOK
      <4> QED  BY Zenon, <2>2, <4>3, <4>4 DEF TypeOK
    <3>2. CASE w = None  BY <1>4, <3>2 DEF ClaimGranted, TypeOK
    <3> QED  BY <2>2, <3>1, <3>2 DEF Intent
  <2>7. approval' \in [Approvals -> ApprovalRow \cup {NoApproval}]
    <3>1. ASSUME NEW ap \in Approved(q)  PROVE [approval[ap] EXCEPT !.consumed = q.key] \in ApprovalRow
      <4>1. approval[ap] \in ApprovalRow
        <5>1. ap \in Approvals /\ approval[ap].status = "approved"  BY DEF Approved, ApprovalsFor
        <5>2. NoApproval.status # "approved"  BY DEF NoApproval
        <5> QED  BY Zenon, <5>1, <5>2 DEF TypeOK
      <4> QED  BY <2>2, <4>1 DEF ApprovalRow
    <3>2. Approved(q) \subseteq Approvals  BY DEF Approved, ApprovalsFor
    <3>3. CASE RequiresApproval(q.intent)
      <4>1. PICK ap \in Approved(q) : approval' = [approval EXCEPT ![ap].consumed = q.key]
        BY Zenon, <1>4, <3>3 DEF ClaimGranted
      <4> QED  BY <3>1, <3>2, <4>1 DEF TypeOK
    <3>4. CASE ~RequiresApproval(q.intent)  BY Zenon, <1>4, <3>4 DEF ClaimGranted, TypeOK
    <3> QED  BY <3>3, <3>4
  <2>8. proc' \in [Procs -> Request \cup Command \cup {Idle}]
    <3>1. [q EXCEPT !.pc = "claimed"] \in Request  BY <2>1 DEF Request
    <3> QED  BY Zenon, <1>4, <3>1 DEF ClaimGranted, TypeOK
  <2> QED  BY Zenon, <1>4, <2>3, <2>4, <2>5, <2>6, <2>7, <2>8 DEF ClaimGranted, TypeOK
<1>5. ASSUME NEW p \in Procs, WorkMoved(p)  PROVE TypeOK'
  BY Zenon, <1>5, MutatedType, DoneShape DEF WorkMoved, TypeOK
<1>6. ASSUME NEW p \in Procs, Dispatch(p)  PROVE TypeOK'
  <2>1. proc[p] \in Request  BY <1>6, RequestType DEF Dispatch
  <2>2. [proc[p] EXCEPT !.pc = "executing"] \in Request  BY <2>1 DEF Request
  <2>3. effects' \in [Keys -> Nat]
    <3>1. proc[p].key \in Keys  BY <2>1 DEF Request
    <3>2. effects[proc[p].key] + 1 \in Nat  BY <3>1 DEF TypeOK
    <3> QED  BY Zenon, <1>6, <3>2 DEF Dispatch, TypeOK
  <2>4. proc' \in [Procs -> Request \cup Command \cup {Idle}]
    BY <1>6, <2>2 DEF Dispatch, TypeOK
  <2> QED  BY <1>6, <2>3, <2>4 DEF Dispatch, TypeOK
<1>7. ASSUME NEW p \in Procs, Conclusion(p)  PROVE TypeOK'
  <2>1. PICK state \in TerminalLeaseStates, cost \in Nat, row \in RunRow,
             target \in {"blocked", "failed", "cancelled"} :
          InFlight(p) /\ Conclude(p, state, cost, row, target)
    BY <1>7 DEF Conclusion
  <2>2. proc[p] \in Request  BY <2>1, RequestType DEF InFlight
  <2>3. /\ proc[p].key \in Keys
        /\ proc[p].intent.agent \in Agents
        /\ proc[p].intent.work \in Works \cup {None}
    BY <2>2 DEF Request, Intent
  <2>4. work' \in [Works -> WorkRow]
    <3>1. target \in WorkItemStatus  BY DEF WorkItemStatus
    <3>2. CASE proc[p].kind = "run"
      <4>1. work' = Mutated(proc[p].intent.work, target, proc[p].intent.agent)
        BY Zenon, <2>1, <3>2 DEF Conclude
      <4>2. CASE proc[p].intent.work \in Works  BY Zenon, <2>3, <3>1, <4>1, <4>2, MutatedType
      <4>3. CASE proc[p].intent.work \notin Works  BY Zenon, <4>1, <4>3 DEF Mutated, TypeOK
      <4> QED  BY <4>2, <4>3
    <3>3. CASE proc[p].kind # "run"  BY <2>1, <3>3 DEF Conclude, TypeOK
    <3> QED  BY <3>2, <3>3
  <2>5. run' \in [Keys -> RunRow \cup {NoRun}]  BY Zenon, <2>1 DEF Conclude, TypeOK
  <2>6. Settle(proc[p].key, cost, state) /\ lease[proc[p].key].state = "running"
    BY Zenon, <2>1 DEF Conclude
  <2>7. Done(p) /\ UNCHANGED <<now, latest, agent, approval, effects>>  BY Zenon, <2>1 DEF Conclude
  <2> QED  BY Zenon, <2>3, <2>4, <2>5, <2>6, <2>7, SettleType, DoneShape DEF TypeOK
<1>8. ASSUME NEW p \in Procs, MarkUncertain(p)  PROVE TypeOK'
  <2> DEFINE k == proc[p].key
  <2>1. k \in Keys  BY <1>8, RequestType DEF MarkUncertain, Executing, Request
  <2>2. lease[k] \in LeaseRow
    BY <1>8, <2>1, LeaseType DEF MarkUncertain, Executing, HandlersOwnKeys, InFlight
  <2>3. now \in Nat  BY DEF TypeOK
  <2>4. [lease[k] EXCEPT !.state = "recovery_required", !.expires = now] \in LeaseRow
    BY Zenon, <2>2, <2>3, LeaseUpdate DEF ActiveLeaseStates
  <2>5. lease' \in [Keys -> LeaseRow \cup {NoLease}]
    BY Zenon, <1>8, <2>1, <2>4 DEF MarkUncertain, TypeOK
  <2> QED  BY Zenon, <1>8, <2>5, DoneShape DEF MarkUncertain, TypeOK
<1>9. ASSUME NEW k \in Keys, Recover(k)  PROVE TypeOK'
  <2>1. lease[k].state # "none"  BY <1>9 DEF Recover, Active, ActiveLeaseStates
  <2>2. lease[k].intent.work \in Works \cup {None}  BY <2>1, LeaseType DEF LeaseRow, Intent
  <2>3. Amount(k) \in Nat  BY <2>1, AmountType
  <2>4. Settle(k, Amount(k), "failed")  BY <1>9 DEF Recover
  <2>5. run' \in [Keys -> RunRow \cup {NoRun}]
    <3>1. CASE run[k].status = "running"
      <4>1. [run[k] EXCEPT !.status = "failed"] \in RunRow
        BY <3>1, RunType DEF RunRow, RunStatus
      <4> QED  BY <1>9, <3>1, <4>1 DEF Recover, TypeOK
    <3> QED  BY <1>9, <3>1 DEF Recover, TypeOK
  <2>6. work' \in [Works -> WorkRow]
    <3> DEFINE w == lease[k].intent.work
    <3>1. CASE w \in Works
      <4>1. w # None  BY <3>1, ConstantsAssumption
      <4>2. "failed" \in WorkItemStatus  BY DEF WorkItemStatus
      <4>3. [work[w] EXCEPT !.status = "failed"] \in WorkRow
        BY Zenon, <3>1, <4>2, WorkUpdate DEF TypeOK
      <4> QED  BY Zenon, <1>9, <4>1, <4>3 DEF Recover, TypeOK
    <3>2. CASE w = None  BY <1>9, <3>2 DEF Recover, TypeOK
    <3> QED  BY <2>2, <3>1, <3>2
  <2> QED  BY Zenon, <1>9, <2>1, <2>3, <2>4, <2>5, <2>6, SettleType DEF Recover, TypeOK, TerminalLeaseStates
<1>10. ASSUME NEW k \in Keys, NEW action \in ControlActions, RequestControl(k, action)
       PROVE  TypeOK'
  <2>1. lease[k] \in LeaseRow  BY <1>10, LeaseType DEF RequestControl
  <2>2. [lease[k] EXCEPT !.control = action] \in LeaseRow  BY <2>1 DEF LeaseRow
  <2>3. lease' \in [Keys -> LeaseRow \cup {NoLease}]
    BY <1>10, <2>2 DEF RequestControl, TypeOK
  <2> QED  BY <1>10, <2>3 DEF RequestControl, TypeOK
<1>11. ASSUME NEW w \in Works, NEW accepted \in BOOLEAN, Review(w, accepted)
       PROVE  TypeOK'
  <2> DEFINE a == IF accepted THEN latest[w] ELSE None
  <2>1. a \in Keys \cup {None}  BY DEF TypeOK
  <2>a. work[w] \in WorkRow /\ "blocked" \in WorkItemStatus  BY DEF TypeOK, WorkItemStatus
  <2> HIDE DEF a
  <2>2. [work[w] EXCEPT !.acceptance = a] \in WorkRow  BY Zenon, <2>1, <2>a, WorkUpdate
  <2>3. work' = [work EXCEPT ![w] = [work[w] EXCEPT !.acceptance = a]]
    BY <1>11 DEF Review, TypeOK, a
  <2>4. work' \in [Works -> WorkRow]  BY <2>2, <2>3 DEF TypeOK
  <2> QED  BY <1>11, <2>4 DEF Review, TypeOK
<1>12. ASSUME NEW ap \in Approvals, NEW approved \in BOOLEAN, ResolveApproval(ap, approved)
       PROVE  TypeOK'
  <2>1. approval[ap] \in ApprovalRow  BY <1>12 DEF ResolveApproval, TypeOK, NoApproval
  <2>2. \A s \in {"approved", "rejected"} : [approval[ap] EXCEPT !.status = s] \in ApprovalRow
    BY <2>1 DEF ApprovalRow
  <2>3. approval' \in [Approvals -> ApprovalRow \cup {NoApproval}]
    BY Zenon, <1>12, <2>2 DEF ResolveApproval, TypeOK
  <2> QED  BY <1>12, <2>3 DEF ResolveApproval, TypeOK
<1> QED
  BY Zenon, StepShapes, <1>1, <1>2, <1>3, <1>4, <1>5, <1>6, <1>7, <1>8, <1>9, <1>10, <1>11, <1>12

-----------------------------------------------------------------------------
(* What the steps that touch an execution do, row by row                   *)

\* Everything but the row of one key stays in the tables of executions.
OthersKept(k) ==
  \A j \in Keys \ {k} : /\ lease'[j] = lease[j]
                        /\ run'[j] = run[j]
                        /\ resv'[j] = resv[j]
                        /\ usage'[j] = usage[j]

\* A row is absent exactly when its state is "none".
LEMMA RowKinds ==
  /\ \A l \in LeaseRow \cup {NoLease} : l = NoLease <=> l.state = "none"
  /\ \A r \in RunRow \cup {NoRun} : r = NoRun <=> r.status = "none"
  /\ \A a \in ApprovalRow \cup {NoApproval} : a = NoApproval <=> a.status = "none"
<1>1. \A l \in LeaseRow : l.state # "none"
  BY DEF LeaseRow, ActiveLeaseStates, TerminalLeaseStates
<1>2. \A r \in RunRow : r.status # "none"  BY DEF RunRow, RunStatus
<1>3. \A a \in ApprovalRow : a.status # "none"  BY DEF ApprovalRow
<1> QED  BY <1>1, <1>2, <1>3 DEF NoLease, NoRun, NoApproval

\* What a claim that is granted writes.
LEMMA GrantedEffect ==
  ASSUME TypeOK, NEW p \in Procs, ClaimGranted(p)
  PROVE  /\ proc[p].key \in Keys /\ proc[p].intent \in Intent
         /\ lease[proc[p].key].state = "none"
         /\ lease'[proc[p].key].state = "running"
         /\ lease'[proc[p].key].intent = proc[p].intent
         /\ run'[proc[p].key] = [status |-> "running", business |-> FALSE]
         /\ \A b \in Budgets : resv'[proc[p].key][b] \in {"none", "reserved"}
         /\ OthersKept(proc[p].key) /\ usage' = usage /\ effects' = effects
         /\ proc'[p].pc = "claimed" /\ proc'[p].key = proc[p].key
         /\ \A o \in Procs \ {p} : proc'[o] = proc[o]
<1> DEFINE k == proc[p].key
<1>1. proc[p] \in Request  BY RequestType DEF ClaimGranted, Claiming
<1>2. k \in Keys /\ proc[p].intent \in Intent  BY <1>1 DEF Request
<1>3. lease[k].state = "none"
  <2>1. lease[k] = NoLease  BY Zenon DEF ClaimGranted, Admissible
  <2>2. NoLease.state = "none"  BY DEF NoLease
  <2> QED  BY Zenon, <2>1, <2>2
<1>4. lease'[k] = [state |-> "running", intent |-> proc[p].intent,
                   expires |-> now + LeaseTerm, control |-> "resume"]
  BY <1>2 DEF ClaimGranted, TypeOK
<1>5. run'[k] = [status |-> "running", business |-> FALSE]
  BY <1>2 DEF ClaimGranted, TypeOK
<1>6. \A b \in Budgets : resv'[k][b] \in {"none", "reserved"}
  BY <1>2 DEF ClaimGranted, TypeOK
<1>7. OthersKept(k) /\ usage' = usage /\ effects' = effects
  BY DEF OthersKept, ClaimGranted, TypeOK
<1>8. proc'[p] = [proc[p] EXCEPT !.pc = "claimed"]  BY DEF ClaimGranted, TypeOK
<1>9. proc'[p].pc = "claimed" /\ proc'[p].key = k  BY <1>1, <1>8 DEF Request
<1>10. \A o \in Procs \ {p} : proc'[o] = proc[o]  BY DEF ClaimGranted, TypeOK
<1>11. lease'[k].state = "running" /\ lease'[k].intent = proc[p].intent  BY <1>4
<1> QED  BY Zenon, <1>2, <1>3, <1>5, <1>6, <1>7, <1>9, <1>10, <1>11

\* What settling a lease writes.
LEMMA SettleEffect ==
  ASSUME TypeOK, NEW k \in Keys, NEW cost \in Nat, NEW state \in TerminalLeaseStates,
         lease[k].state # "none", Settle(k, cost, state)
  PROVE  /\ lease'[k].state = state /\ lease'[k].intent = lease[k].intent
         /\ \A j \in Keys \ {k} : /\ lease'[j] = lease[j]
                                  /\ resv'[j] = resv[j]
                                  /\ usage'[j] = usage[j]
         /\ \A b \in Budgets :
              /\ resv[k][b] # "settled"
              /\ resv'[k][b] = IF resv[k][b] = "reserved" THEN "settled" ELSE resv[k][b]
              /\ Len(usage'[k][b]) =
                   IF resv[k][b] = "reserved" THEN Len(usage[k][b]) + 1 ELSE Len(usage[k][b])
<1>1. lease[k] \in LeaseRow  BY LeaseType
<1>2. lease'[k] = [lease[k] EXCEPT !.state = state]  BY DEF Settle, TypeOK
<1>3. lease'[k].state = state /\ lease'[k].intent = lease[k].intent
  BY <1>1, <1>2 DEF LeaseRow
<1>4. \A j \in Keys \ {k} : /\ lease'[j] = lease[j]
                            /\ resv'[j] = resv[j]
                            /\ usage'[j] = usage[j]
  BY DEF Settle, TypeOK
<1>5. ASSUME NEW b \in Budgets
      PROVE  /\ resv[k][b] # "settled"
             /\ resv'[k][b] = IF resv[k][b] = "reserved" THEN "settled" ELSE resv[k][b]
             /\ Len(usage'[k][b]) =
                  IF resv[k][b] = "reserved" THEN Len(usage[k][b]) + 1 ELSE Len(usage[k][b])
  <2>1. usage'[k][b] = IF resv[k][b] = "reserved"
                       THEN Append(usage[k][b], [cost |-> cost, at |-> now]) ELSE usage[k][b]
    BY DEF Settle, TypeOK
  <2>2. [cost |-> cost, at |-> now] \in UsageRow  BY DEF UsageRow, TypeOK
  <2>3. usage[k][b] \in Seq(UsageRow)  BY DEF TypeOK
  <2>4. resv[k][b] # "settled"  BY DEF Settle
  <2>5. resv'[k][b] = IF resv[k][b] = "reserved" THEN "settled" ELSE resv[k][b]
    BY DEF Settle, TypeOK
  <2>6. Len(Append(usage[k][b], [cost |-> cost, at |-> now])) = Len(usage[k][b]) + 1
    BY <2>2, <2>3
  <2> QED  BY <2>1, <2>4, <2>5, <2>6
<1> QED  BY <1>3, <1>4, <1>5

\* What concluding a wakeup writes.
LEMMA ConclusionEffect ==
  ASSUME TypeOK, NEW p \in Procs, Conclusion(p)
  PROVE  /\ proc[p].key \in Keys
         /\ InFlight(p)
         /\ lease[proc[p].key].state = "running"
         /\ lease'[proc[p].key].state \in TerminalLeaseStates
         /\ lease'[proc[p].key].intent = lease[proc[p].key].intent
         /\ run'[proc[p].key].status \in {"succeeded", "failed", "cancelled"}
         /\ run'[proc[p].key].status = "succeeded" <=> lease'[proc[p].key].state = "succeeded"
         /\ OthersKept(proc[p].key) /\ effects' = effects /\ Done(p)
         /\ \A b \in Budgets :
              /\ resv[proc[p].key][b] # "settled"
              /\ resv'[proc[p].key][b] = IF resv[proc[p].key][b] = "reserved"
                                         THEN "settled" ELSE resv[proc[p].key][b]
              /\ Len(usage'[proc[p].key][b]) =
                   IF resv[proc[p].key][b] = "reserved"
                   THEN Len(usage[proc[p].key][b]) + 1 ELSE Len(usage[proc[p].key][b])
<1> DEFINE k == proc[p].key
<1>1. PICK state \in TerminalLeaseStates, cost \in Nat, row \in RunRow,
           target \in {"blocked", "failed", "cancelled"} :
        /\ InFlight(p)
        /\ row.status # "running"
        /\ row.status = "succeeded" <=> state = "succeeded"
        /\ Conclude(p, state, cost, row, target)
  BY DEF Conclusion
<1>2. proc[p] \in Request  BY <1>1, RequestType DEF InFlight
<1>3. k \in Keys  BY <1>2 DEF Request
<1>4. lease[k].state = "running" /\ Settle(k, cost, state)  BY <1>1 DEF Conclude
<1>5. run'[k] = row /\ \A j \in Keys \ {k} : run'[j] = run[j]
  BY <1>1, <1>3 DEF Conclude, TypeOK
<1>6. row.status \in {"succeeded", "failed", "cancelled"}  BY <1>1 DEF RunRow, RunStatus
<1>7. effects' = effects /\ Done(p)  BY Zenon, <1>1 DEF Conclude
<1> HIDE DEF k
<1> QED  BY Zenon, <1>1, <1>3, <1>4, <1>5, <1>6, <1>7, SettleEffect DEF OthersKept, k

\* What recovering an abandoned lease writes.
LEMMA RecoverEffect ==
  ASSUME TypeOK, NEW k \in Keys, Recover(k)
  PROVE  /\ Active(k)
         /\ lease'[k].state = "failed" /\ lease'[k].intent = lease[k].intent
         /\ run[k].status = "running" => run'[k].status = "failed"
         /\ run[k].status # "running" => run'[k] = run[k]
         /\ OthersKept(k) /\ effects' = effects /\ proc' = proc
         /\ \A b \in Budgets :
              /\ resv[k][b] # "settled"
              /\ resv'[k][b] = IF resv[k][b] = "reserved" THEN "settled" ELSE resv[k][b]
              /\ Len(usage'[k][b]) =
                   IF resv[k][b] = "reserved" THEN Len(usage[k][b]) + 1 ELSE Len(usage[k][b])
<1>1. Active(k) /\ Settle(k, Amount(k), "failed") /\ effects' = effects /\ proc' = proc
  BY DEF Recover
<1>2. lease[k].state # "none"  BY <1>1 DEF Active, ActiveLeaseStates
<1>3. Amount(k) \in Nat /\ "failed" \in TerminalLeaseStates
  BY <1>2, AmountType DEF TerminalLeaseStates
<1>4. \A j \in Keys \ {k} : run'[j] = run[j]  BY DEF Recover, TypeOK
<1>5. run[k].status # "running" => run'[k] = run[k]  BY DEF Recover
<1>6. run[k].status = "running" => run'[k].status = "failed"
  <2>1. SUFFICES ASSUME run[k].status = "running"  PROVE run'[k].status = "failed"  OBVIOUS
  <2>2. run[k] \in RunRow  BY <2>1, RunType
  <2>3. run'[k] = [run[k] EXCEPT !.status = "failed"]  BY <2>1 DEF Recover, TypeOK
  <2> QED  BY <2>2, <2>3 DEF RunRow
<1> QED  BY Zenon, <1>1, <1>2, <1>3, <1>4, <1>5, <1>6, SettleEffect DEF OthersKept

\* A lease stays as it is, but for its control action, or is taken from its runner.
LeaseKeptOrLost(k) ==
  /\ lease'[k].state = "none" <=> lease[k].state = "none"
  /\ lease'[k].state = "succeeded" <=> lease[k].state = "succeeded"
  /\ lease[k].state # "none" => lease'[k].intent = lease[k].intent
  /\ lease'[k].state \in {lease[k].state, "recovery_required"}

\* Replacing one lease row by one that keeps its intent and is in the same state, or
\* needs recovery, leaves every lease kept or lost.
LEMMA LeaseReplaced ==
  ASSUME TypeOK, NEW k \in Keys, lease[k].state \notin {"none", "succeeded"},
         NEW r \in LeaseRow, lease' = [lease EXCEPT ![k] = r],
         r.intent = lease[k].intent, r.state \in {lease[k].state, "recovery_required"}
  PROVE  \A j \in Keys : LeaseKeptOrLost(j)
BY DEF TypeOK, LeaseKeptOrLost

\* The steps that write leases only.
LEMMA LeaseEffect ==
  ASSUME TypeOK, HandlersOwnKeys,
         \/ \E p \in Procs : ClaimBlocked(p) \/ MarkUncertain(p)
         \/ \E k \in Keys, action \in ControlActions : RequestControl(k, action)
  PROVE  /\ UNCHANGED <<work, latest, resv, usage, run, approval, effects>>
         /\ (\E p \in Procs : Done(p)) \/ proc' = proc
         /\ \A k \in Keys : LeaseKeptOrLost(k)
<1>1. ASSUME NEW p \in Procs, ClaimBlocked(p)  PROVE \A j \in Keys : LeaseKeptOrLost(j)
  <2>1. proc[p] \in Request  BY <1>1, RequestType DEF ClaimBlocked, Claiming
  <2>2. proc[p].key \in Keys  BY <2>1 DEF Request
  <2>3. PICK k \in Blocking(proc[p]) :
          lease' = IF lease[k].state = "running" /\ Expired(k)
                   THEN [lease EXCEPT ![k].state = "recovery_required"] ELSE lease
    BY Zenon, <1>1 DEF ClaimBlocked
  <2>4. k \in Keys  BY <2>2, <2>3 DEF Blocking, ActiveOn
  <2> DEFINE r == [lease[k] EXCEPT !.state = "recovery_required"]
  <2>5. CASE lease[k].state = "running" /\ Expired(k)
    <3>1. lease[k] \in LeaseRow  BY <2>4, <2>5, LeaseType
    <3>2. r \in LeaseRow /\ r.intent = lease[k].intent /\ r.state = "recovery_required"
      BY <3>1 DEF LeaseRow, ActiveLeaseStates
    <3>3. lease' = [lease EXCEPT ![k] = r]  BY <2>3, <2>4, <2>5 DEF TypeOK
    <3> HIDE DEF r
    <3> QED  BY Zenon, <2>4, <2>5, <3>2, <3>3, LeaseReplaced
  <2>6. CASE lease' = lease  BY <2>6 DEF LeaseKeptOrLost
  <2> QED  BY <2>3, <2>5, <2>6
<1>2. ASSUME NEW p \in Procs, MarkUncertain(p)  PROVE \A j \in Keys : LeaseKeptOrLost(j)
  <2> DEFINE k == proc[p].key
             r == [lease[k] EXCEPT !.state = "recovery_required", !.expires = now]
  <2>1. InFlight(p)  BY Zenon, <1>2 DEF MarkUncertain, Executing, InFlight
  <2>2. proc[p] \in Request  BY <2>1, RequestType DEF InFlight
  <2>3. k \in Keys  BY <2>2 DEF Request
  <2>4. lease[k].state \notin {"none", "succeeded"}  BY <2>1 DEF HandlersOwnKeys
  <2>5. lease[k] \in LeaseRow  BY <2>3, <2>4, LeaseType
  <2>6. now \in Nat  BY DEF TypeOK
  <2>7. r \in LeaseRow /\ r.intent = lease[k].intent /\ r.state = "recovery_required"
    BY Zenon, <2>5, <2>6 DEF LeaseRow, ActiveLeaseStates
  <2>8. lease' = [lease EXCEPT ![k] = r]  BY Zenon, <1>2, <2>3 DEF MarkUncertain, TypeOK
  <2> HIDE DEF r, k
  <2> QED  BY Zenon, <2>3, <2>4, <2>7, <2>8, LeaseReplaced
<1>3. ASSUME NEW k \in Keys, NEW action \in ControlActions, RequestControl(k, action)
      PROVE  \A j \in Keys : LeaseKeptOrLost(j)
  <2> DEFINE r == [lease[k] EXCEPT !.control = action]
  <2>1. lease[k].state = "running"  BY Zenon, <1>3 DEF RequestControl
  <2>2. lease[k] \in LeaseRow  BY <2>1, LeaseType
  <2>3. r \in LeaseRow /\ r.intent = lease[k].intent /\ r.state = lease[k].state
    BY <2>2 DEF LeaseRow
  <2>4. lease' = [lease EXCEPT ![k] = r]  BY Zenon, <1>3 DEF RequestControl, TypeOK
  <2> HIDE DEF r
  <2> QED  BY Zenon, <2>1, <2>3, <2>4, LeaseReplaced
<1>4. /\ UNCHANGED <<work, latest, resv, usage, run, approval, effects>>
      /\ (\E p \in Procs : Done(p)) \/ proc' = proc
  BY Zenon DEF ClaimBlocked, MarkUncertain, RequestControl
<1> QED  BY <1>1, <1>2, <1>3, <1>4
=============================================================================
