------------------------- MODULE ExecutionGovernance -------------------------
(***************************************************************************)
(* Governed execution of work items and agent wakeups by the control plane: *)
(* shared/control_plane/execution_store.py (claim, settle, recover),       *)
(* agent_runner.py (one wakeup), work_item_execution_use_cases.py (a       *)
(* work-item run), work_item_store.py (status commands), outcome_store.py  *)
(* (artifact review) and approval_gate.py (approval decisions).            *)
(*                                                                         *)
(* One company is modelled.  Every database transaction is one action:     *)
(* claims, status commands and reviews hold the company row lock from      *)
(* their first locked read to their commit, settlement and recovery hold   *)
(* the lease row lock.  Whatever a handler reads before its lock is a step *)
(* of its own, and the value it carries across is kept in proc[p].         *)
(*                                                                         *)
(* execution_id is the hash of the company and the idempotency key, and a  *)
(* lease is created together with one fresh run_id, so a key stands for    *)
(* its lease, its run and the run's evidence artifact.  intent_hash is     *)
(* modelled by the tuple of its inputs, so two intents are equal exactly   *)
(* when their hashes are.                                                  *)
(***************************************************************************)
EXTENDS WorkItemLifecycle, Integers, Sequences, FiniteSets, FiniteSetsExt

CONSTANTS
  Works,            \* work items of the company
  Agents,           \* agent roles of the company
  RunKeys,          \* idempotency keys of work-item run and retry requests
  WakeKeys,         \* run ids drawn by agent wakes, which send no key of their own
  Procs,            \* request handlers that are in progress at the same time
  Budgets,          \* active budget policies
  Approvals,        \* approval_requests rows
  Cfgs,             \* configurations (adapter, permissions, ceiling) of an agent role
  Authorized,       \* configurations that authorize_adapter accepts
  Adapter,          \* adapter type of a configuration
  Ceiling,          \* max_cost_usd of a configuration
  Costs,            \* costs an executor may report
  Limit,            \* limit_usd of a budget policy
  Scope,            \* agent or work item a policy is limited to; None: the company
  Payable,          \* configurations whose own policy is active and whose model
                    \* is on the allowlist of every policy
  Deps,             \* dependencies of a work item
  ApprovalRequired, \* work items with approval_required
  Escalated,        \* configurations whose escalation policy requires approval
  RequestedStatuses,\* statuses that update, block and close requests ask for
  Owners,           \* agents that update and reassign requests name as owner
  Roles,            \* statuses and configurations that agent roles are given
  InitialStatuses,  \* statuses a work item may be created with
  InitialOwners,    \* owner_agent_id a work item may be created with
  LeaseTerm,        \* the 1000 seconds of a lease, in clock ticks
  ApprovalTerm,     \* the 24 hours of an execution approval, in clock ticks
  Period,           \* length of a budget period, in clock ticks
  MaxNow,           \* bound on the clock
  None              \* an absent value

Keys == RunKeys \cup WakeKeys

AdapterTypes == {"builtin", "http", "process"}
AgentStatus == {"active", "paused"}

ASSUME ConstantsAssumption ==
  /\ RunKeys \cap WakeKeys = {}
  /\ Works \cap Agents = {}
  /\ None \notin Works \cup Agents \cup Keys
  /\ Authorized \subseteq Cfgs
  /\ Adapter \in [Cfgs -> AdapterTypes]
  /\ Ceiling \in [Cfgs -> Nat]
  /\ \A c \in Cfgs : Adapter[c] = "builtin" => c \in Authorized /\ Ceiling[c] = 0
  /\ Costs \subseteq Nat
  /\ Limit \in [Budgets -> Nat]
  /\ Scope \in [Budgets -> Agents \cup Works \cup {None}]
  /\ Payable \subseteq Cfgs /\ Escalated \subseteq Cfgs
  /\ Deps \in [Works -> SUBSET Works]
  /\ ApprovalRequired \subseteq Works
  /\ RequestedStatuses \subseteq WorkItemStatus
  /\ Owners \subseteq Agents
  /\ Roles \subseteq [status: AgentStatus, cfg: Cfgs]
  /\ InitialStatuses \subseteq WorkItemStatus \ {"completed"}
  /\ InitialOwners \subseteq Agents \cup {None}
  /\ LeaseTerm \in Nat \ {0} /\ ApprovalTerm \in Nat \ {0} /\ Period \in Nat \ {0}
  /\ MaxNow \in Nat

\* The tables hold finitely many executions, so that their amounts can be summed.
ASSUME FiniteKeys == IsFiniteSet(Keys)

VARIABLES
  now,       \* wall clock
  work,      \* control_plane_work_items
  latest,    \* the run that ORDER BY started_at DESC LIMIT 1 finds for a work item
  agent,     \* control_plane_agent_roles
  lease,     \* control_plane_execution_leases
  resv,      \* control_plane_execution_reservations
  usage,     \* control_plane_budget_usage rows, grouped by run and budget
  run,       \* control_plane_agent_runs
  approval,  \* control_plane_approval_requests
  proc,      \* request handlers in progress
  effects    \* how often the external executor was called for a run

vars == <<now, work, latest, agent, lease, resv, usage, run, approval, proc, effects>>

-----------------------------------------------------------------------------
(* Rows                                                                    *)

TerminalLeaseStates == {"succeeded", "failed"}
ActiveLeaseStates == {"running", "recovery_required"}
RunStatus == {"running", "succeeded", "failed", "cancelled"}
ControlActions == {"pause", "resume", "terminate"}

\* The inputs of intent_hash: the role configuration and, for a work-item run,
\* the owner and the acceptance metadata embedded in the payload.
Intent == [agent: Agents, work: Works \cup {None}, cfg: Cfgs,
           owner: Agents \cup {None}, acceptance: Keys \cup {None}]

NoLease == [state |-> "none"]
NoRun == [status |-> "none"]
NoApproval == [status |-> "none"]
Idle == [pc |-> "idle"]

WorkRow == [status: WorkItemStatus, owner: Agents \cup {None},
            acceptance: Keys \cup {None}]
LeaseRow == [state: ActiveLeaseStates \cup TerminalLeaseStates, intent: Intent,
             expires: Nat, control: ControlActions]
RunRow == [status: RunStatus, business: BOOLEAN]
UsageRow == [cost: Nat, at: Nat]
ApprovalRow == [status: {"pending", "approved", "rejected"}, key: Keys,
                intent: Intent, expires: Nat, consumed: Keys \cup {None}]
Request == [pc: {"claiming", "claimed", "executing"}, kind: {"run", "wake"},
            key: Keys, intent: Intent]
Command == [pc: {"command", "reassign"}, work: Works, target: WorkItemStatus,
            owner: Agents \cup {None}]

TypeOK ==
  /\ now \in Nat
  /\ work \in [Works -> WorkRow]
  /\ latest \in [Works -> Keys \cup {None}]
  /\ agent \in [Agents -> [status: AgentStatus, cfg: Cfgs]]
  /\ lease \in [Keys -> LeaseRow \cup {NoLease}]
  /\ resv \in [Keys -> [Budgets -> {"none", "reserved", "settled"}]]
  /\ usage \in [Keys -> [Budgets -> Seq(UsageRow)]]
  /\ run \in [Keys -> RunRow \cup {NoRun}]
  /\ approval \in [Approvals -> ApprovalRow \cup {NoApproval}]
  /\ proc \in [Procs -> Request \cup Command \cup {Idle}]
  /\ effects \in [Keys -> Nat]

Init ==
  /\ now = 0
  /\ work \in [Works -> [status: InitialStatuses, owner: InitialOwners, acceptance: {None}]]
  /\ latest = [w \in Works |-> None]
  /\ agent \in [Agents -> Roles]
  /\ lease = [k \in Keys |-> NoLease]
  /\ resv = [k \in Keys |-> [b \in Budgets |-> "none"]]
  /\ usage = [k \in Keys |-> [b \in Budgets |-> <<>>]]
  /\ run = [k \in Keys |-> NoRun]
  /\ approval = [a \in Approvals |-> NoApproval]
  /\ proc = [p \in Procs |-> Idle]
  /\ effects = [k \in Keys |-> 0]

-----------------------------------------------------------------------------
(* Queries                                                                 *)

\* resource_id: "work:<id>", or "agent:<id>" without a work item.
Resource(i) == IF i.work = None THEN i.agent ELSE i.work

Active(k) == lease[k].state \in ActiveLeaseStates
ActiveOn(r) == {k \in Keys : Active(k) /\ Resource(lease[k].intent) = r}
Expired(k) == lease[k].expires <= now

\* amount_usd of the reservations of a lease.
Amount(k) == Ceiling[lease[k].intent.cfg]

\* The active policies whose scope covers an execution.
Selected(i) == {b \in Budgets : Scope[b] \in {None, i.agent, i.work}}

period_start(t) == (t \div Period) * Period

\* The cost of a usage row, as far as it counts for the present period.
PeriodCost(u) == IF u.at >= period_start(now) THEN u.cost ELSE 0

Consumed(b) ==
  SumFunction([k \in Keys |->
    SumFunction([i \in DOMAIN usage[k][b] |-> PeriodCost(usage[k][b][i])])])

Reserved(b) ==
  SumFunction([k \in Keys |-> IF resv[k][b] = "reserved" THEN Amount(k) ELSE 0])

\* require_accepted: the recorded acceptance is for the latest run.
Accepted(w) == work[w].acceptance # None /\ work[w].acceptance = latest[w]

-----------------------------------------------------------------------------
(* A request reads its work item and its agent role                        *)

\* run_work_item_with_agent: POST /work-items/{id}/run and /retry.
BeginRun(p, w, a, k) ==
  /\ proc[p] = Idle
  /\ proc' = [proc EXCEPT ![p] =
       IF agent[a].status = "active"
       THEN [pc |-> "claiming", kind |-> "run", key |-> k,
             intent |-> [agent |-> a, work |-> w, cfg |-> agent[a].cfg,
                         owner |-> work[w].owner, acceptance |-> work[w].acceptance]]
       ELSE \* agent_not_runnable is reported by failing the work item
            [pc |-> "command", work |-> w, target |-> "failed", owner |-> a]]
  /\ UNCHANGED <<now, work, latest, agent, lease, resv, usage, run, approval, effects>>

\* wake_agent_definition: POST /agents/{id}/wake, with or without a work item.
\* The key is a run id nobody has used.
BeginWake(p, w, a, k) ==
  /\ proc[p] = Idle
  /\ agent[a].status = "active"
  /\ lease[k] = NoLease
  /\ \A o \in Procs : proc[o] \in Request => proc[o].key # k
  /\ \A ap \in Approvals : approval[ap] # NoApproval => approval[ap].key # k
  /\ proc' = [proc EXCEPT ![p] =
       [pc |-> "claiming", kind |-> "wake", key |-> k,
        intent |-> [agent |-> a, work |-> w, cfg |-> agent[a].cfg,
                    owner |-> None, acceptance |-> None]]]
  /\ UNCHANGED <<now, work, latest, agent, lease, resv, usage, run, approval, effects>>

-----------------------------------------------------------------------------
(* The claim transaction, under the company lock                           *)

Claiming(p) == proc[p].pc = "claiming"
Done(p) == proc' = [proc EXCEPT ![p] = Idle]

\* authorize_adapter on the locked role, and the caller's snapshot is current.
Configured(i) ==
  /\ agent[i.agent].status = "active"
  /\ agent[i.agent].cfg \in Authorized
  /\ agent[i.agent].cfg = i.cfg

SameIntent(q) == lease[q.key].intent = q.intent

\* The unsettled leases that refuse this claim: the one under its own key or,
\* when the key is new, those on its resource.
Blocking(q) ==
  IF lease[q.key] = NoLease THEN ActiveOn(Resource(q.intent))
  ELSE {k \in {q.key} : Active(k) /\ SameIntent(q)}

\* Mutant of Admissible: the resource is not checked for another lease.
AdmissibleAnyResource(q) ==
  /\ Configured(q.intent)
  /\ lease[q.key] = NoLease
  /\ q.intent.work # None =>
       /\ work[q.intent.work].status \notin ClosedStatuses
       /\ \A d \in Deps[q.intent.work] : work[d].status = "completed"

\* Mutant of Admissible: a settled key is claimed afresh instead of replayed.
AdmissibleUsedKey(q) ==
  /\ Configured(q.intent)
  /\ ActiveOn(Resource(q.intent)) = {}
  /\ q.intent.work # None =>
       /\ work[q.intent.work].status \notin ClosedStatuses
       /\ \A d \in Deps[q.intent.work] : work[d].status = "completed"

\* Mutant of Admissible: a dependency that merely ran counts as delivered.
AdmissibleUnaccepted(q) ==
  /\ Configured(q.intent)
  /\ lease[q.key] = NoLease
  /\ ActiveOn(Resource(q.intent)) = {}
  /\ q.intent.work # None =>
       /\ work[q.intent.work].status \notin ClosedStatuses
       /\ \A d \in Deps[q.intent.work] : work[d].status \in {"completed", "blocked"}

\* Nothing before the approval step refuses the claim.
Admissible(q) ==
  /\ Configured(q.intent)
  /\ lease[q.key] = NoLease
  /\ ActiveOn(Resource(q.intent)) = {}
  /\ q.intent.work # None =>
       /\ work[q.intent.work].status \notin ClosedStatuses
       /\ \A d \in Deps[q.intent.work] : work[d].status = "completed"

RequiresApproval(i) == i.work \in ApprovalRequired \/ i.cfg \in Escalated

\* Mutant of ApprovalsFor: an approval is looked up by key alone.
ApprovalsForKey(q, s) ==
  {ap \in Approvals : /\ approval[ap].status = s
                      /\ approval[ap].key = q.key
                      /\ approval[ap].expires > now}

ApprovalsFor(q, s) ==
  {ap \in Approvals : /\ approval[ap].status = s
                      /\ approval[ap].key = q.key
                      /\ approval[ap].intent = q.intent
                      /\ approval[ap].expires > now}

Approved(q) == {ap \in ApprovalsFor(q, "approved") : approval[ap].consumed = None}

\* Mutant of Affordable: only past usage counts against the limit.
AffordableUnreserved(i) ==
  /\ Ceiling[i.cfg] > 0 => Selected(i) # {}
  /\ i.cfg \in Payable
  /\ \A b \in Selected(i) : Consumed(b) + Ceiling[i.cfg] <= Limit[b]

\* Every selected policy has room for the ceiling; a priced execution needs one.
Affordable(i) ==
  /\ Ceiling[i.cfg] > 0 => Selected(i) # {}
  /\ i.cfg \in Payable
  /\ \A b \in Selected(i) : Consumed(b) + Reserved(b) + Ceiling[i.cfg] <= Limit[b]

\* ExecutionDenied with nothing but an audit record.
ClaimDenied(p) ==
  LET q == proc[p] IN
  /\ Claiming(p)
  /\ \/ ~Configured(q.intent)
     \/ lease[q.key] # NoLease /\ ~SameIntent(q)
     \/ /\ lease[q.key] = NoLease
        /\ Blocking(q) = {}
        /\ ~Admissible(q)
     \/ /\ Admissible(q)
        /\ RequiresApproval(q.intent) => Approved(q) # {}
        /\ ~Affordable(q.intent)
  /\ Done(p)
  /\ UNCHANGED <<now, work, latest, agent, lease, resv, usage, run, approval, effects>>

\* An unsettled lease refuses the claim; _mark_abandoned flags it when it expired.
ClaimBlocked(p) ==
  LET q == proc[p] IN
  /\ Claiming(p)
  /\ Configured(q.intent)
  /\ \E k \in Blocking(q) :
       lease' = IF lease[k].state = "running" /\ Expired(k)
                THEN [lease EXCEPT ![k].state = "recovery_required"] ELSE lease
  /\ Done(p)
  /\ UNCHANGED <<now, work, latest, agent, resv, usage, run, approval, effects>>

\* No usable approval: ask for one unless one is pending, park the work item.
ClaimAwaitsApproval(p) ==
  LET q == proc[p] IN
  /\ Claiming(p)
  /\ Admissible(q)
  /\ RequiresApproval(q.intent)
  /\ Approved(q) = {}
  /\ IF ApprovalsFor(q, "pending") # {} THEN UNCHANGED approval
     ELSE \E ap \in Approvals :
            /\ approval[ap] = NoApproval
            /\ approval' = [approval EXCEPT ![ap] =
                 [status |-> "pending", key |-> q.key, intent |-> q.intent,
                  expires |-> now + ApprovalTerm, consumed |-> None]]
  /\ work' = IF q.intent.work = None THEN work
             ELSE [work EXCEPT ![q.intent.work].status = "awaiting_approval"]
  /\ Done(p)
  /\ UNCHANGED <<now, latest, agent, lease, resv, usage, run, effects>>

\* Lease, reservations, consumed approval, RUNNING work item and RUNNING run
\* are committed together, before the executor is called.
ClaimGranted(p) ==
  LET q == proc[p]
      k == q.key
      w == q.intent.work
  IN
  /\ Claiming(p)
  /\ Admissible(q)
  /\ Affordable(q.intent)
  /\ IF RequiresApproval(q.intent)
     THEN \E ap \in Approved(q) : approval' = [approval EXCEPT ![ap].consumed = k]
     ELSE UNCHANGED approval
  /\ lease' = [lease EXCEPT ![k] =
       [state |-> "running", intent |-> q.intent,
        expires |-> now + LeaseTerm, control |-> "resume"]]
  /\ resv' = [resv EXCEPT ![k] =
       [b \in Budgets |-> IF b \in Selected(q.intent) THEN "reserved" ELSE "none"]]
  /\ run' = [run EXCEPT ![k] = [status |-> "running", business |-> FALSE]]
  /\ IF w = None THEN UNCHANGED <<work, latest>>
     ELSE /\ work' = [work EXCEPT ![w].status = "running", ![w].acceptance = None]
          /\ latest' = [latest EXCEPT ![w] = k]
  /\ proc' = [proc EXCEPT ![p].pc = "claimed"]
  /\ UNCHANGED <<now, agent, usage, effects>>

\* Mutant of MutationAllowed: status commands ignore a lease on the work item.
MutationUnguarded(w, target) ==
  /\ CanTransition(work[w].status, target)
  /\ target = "completed" => Accepted(w)

\* update_work_item_status accepts the target: no unsettled lease on the item,
\* a legal transition, and an accepted artifact of the latest run to complete it.
MutationAllowed(w, target) ==
  /\ ActiveOn(w) = {}
  /\ CanTransition(work[w].status, target)
  /\ target = "completed" => Accepted(w)

\* update_work_item_status: the status, and the owner when one is given.
Mutated(w, target, owner) ==
  [work EXCEPT ![w].status = target,
               ![w].owner = IF owner = None THEN @ ELSE owner]

\* The key was settled before with the same intent: no executor call, but
\* run_work_item_with_agent reports the old run's status on the work item.
ClaimReplayed(p) ==
  LET q == proc[p]
      w == q.intent.work
      target == IF run[q.key].status = "succeeded" THEN "blocked" ELSE "failed"
  IN
  /\ Claiming(p)
  /\ Configured(q.intent)
  /\ lease[q.key].state \in TerminalLeaseStates
  /\ SameIntent(q)
  /\ IF q.kind = "run" /\ MutationAllowed(w, target)
     THEN work' = Mutated(w, target, q.intent.agent)
     ELSE UNCHANGED work
  /\ Done(p)
  /\ UNCHANGED <<now, latest, agent, lease, resv, usage, run, approval, effects>>

-----------------------------------------------------------------------------
(* The executor call and the transaction that concludes it                 *)

\* _execute_adapter reaches the executor; builtin calls nothing outside.
Dispatch(p) ==
  LET q == proc[p] IN
  /\ q.pc = "claimed"
  /\ proc' = [proc EXCEPT ![p].pc = "executing"]
  /\ effects' = IF Adapter[q.intent.cfg] = "builtin" THEN effects
                ELSE [effects EXCEPT ![q.key] = @ + 1]
  /\ UNCHANGED <<now, work, latest, agent, lease, resv, usage, run, approval>>

\* Mutant of Settle: reservations that were settled before are charged again.
SettleAgain(k, cost, state) ==
  /\ lease' = [lease EXCEPT ![k].state = state]
  /\ resv' = [resv EXCEPT ![k] =
       [b \in Budgets |-> IF @[b] = "none" THEN "none" ELSE "settled"]]
  /\ usage' = [usage EXCEPT ![k] =
       [b \in Budgets |-> IF resv[k][b] = "none" THEN @[b]
                          ELSE Append(@[b], [cost |-> cost, at |-> now])]]

\* settle: every reservation is charged and the lease leaves its active state.
Settle(k, cost, state) ==
  /\ \A b \in Budgets : resv[k][b] # "settled"
  /\ lease' = [lease EXCEPT ![k].state = state]
  /\ resv' = [resv EXCEPT ![k] =
       [b \in Budgets |-> IF @[b] = "reserved" THEN "settled" ELSE @[b]]]
  /\ usage' = [usage EXCEPT ![k] =
       [b \in Budgets |-> IF resv[k][b] = "reserved"
                          THEN Append(@[b], [cost |-> cost, at |-> now]) ELSE @[b]]]

\* The final status update of a work-item run passes its checks once the run's
\* own lease is settled.  A wake does not touch the work item.
Reportable(q, target) ==
  q.kind = "run" => /\ ActiveOn(q.intent.work) \ {q.key} = {}
                    /\ CanTransition(work[q.intent.work].status, target)

\* Mutant of Conclude: a runner that lost its lease still records its outcome.
ConcludeLate(p, state, cost, runRow, target) ==
  LET q == proc[p] IN
  /\ IF lease[q.key].state = "running" THEN Settle(q.key, cost, state)
     ELSE UNCHANGED <<lease, resv, usage>>
  /\ Reportable(q, target)
  /\ run' = [run EXCEPT ![q.key] = runRow]
  /\ work' = IF q.kind = "run" THEN Mutated(q.intent.work, target, q.intent.agent) ELSE work
  /\ Done(p)
  /\ UNCHANGED <<now, latest, agent, approval, effects>>

\* The concluding transaction of a wakeup: settlement, run status, work item.
Conclude(p, state, cost, runRow, target) ==
  LET q == proc[p] IN
  /\ lease[q.key].state = "running"
  /\ Reportable(q, target)
  /\ Settle(q.key, cost, state)
  /\ run' = [run EXCEPT ![q.key] = runRow]
  /\ work' = IF q.kind = "run" THEN Mutated(q.intent.work, target, q.intent.agent) ELSE work
  /\ Done(p)
  /\ UNCHANGED <<now, latest, agent, approval, effects>>

\* The statuses a work item may be left in by a run, by adapter type.
Targets(c) == {"blocked"} \cup (IF Adapter[c] = "builtin" THEN {} ELSE {"failed"})
                         \cup (IF Adapter[c] = "process" THEN {"cancelled"} ELSE {})

Executing(p) == proc[p].pc = "executing"
External(p) == Adapter[proc[p].intent.cfg] # "builtin"

\* The executor reports success within its ceiling (an estimate is raised to it).
\* Output that is only "recorded" is not business output.
Succeed(p) ==
  /\ Executing(p)
  /\ \E cost \in Costs, business \in BOOLEAN :
       /\ cost <= Amount(proc[p].key)
       /\ business => External(p)
       /\ Conclude(p, "succeeded", cost, [status |-> "succeeded", business |-> business], "blocked")

\* The reported cost is above the ceiling: charged in full, the run fails.
OverrunCeiling(p) ==
  /\ Executing(p) /\ External(p)
  /\ \E cost \in Costs :
       /\ cost > Amount(proc[p].key)
       /\ Conclude(p, "failed", cost, [status |-> "failed", business |-> FALSE], "failed")

\* A refused endpoint, a 4xx, a failed or timed-out process: the ceiling is charged.
Fail(p) ==
  /\ proc[p].pc \in {"claimed", "executing"} /\ External(p)
  /\ Conclude(p, "failed", Amount(proc[p].key), [status |-> "failed", business |-> FALSE], "failed")

\* The process poll loop sees a terminate request.
Terminate(p) ==
  /\ Executing(p) /\ Adapter[proc[p].intent.cfg] = "process"
  /\ lease[proc[p].key].control = "terminate"
  /\ Conclude(p, "failed", Amount(proc[p].key),
              [status |-> "cancelled", business |-> FALSE], "cancelled")

\* A 5xx, a transport error or an unreadable answer: mark_uncertain looks at
\* the lease's owner only, whatever state the lease is in.
MarkUncertain(p) ==
  /\ Executing(p) /\ Adapter[proc[p].intent.cfg] = "http"
  /\ lease' = [lease EXCEPT ![proc[p].key].state = "recovery_required",
                            ![proc[p].key].expires = now]
  /\ Done(p)
  /\ UNCHANGED <<now, work, latest, agent, resv, usage, run, approval, effects>>

\* settle or the final status update raises: the transaction is rolled back.
ConclusionRefused(p) ==
  LET q == proc[p] IN
  /\ q.pc \in {"claimed", "executing"}
  /\ \/ lease[q.key].state # "running"
     \/ \E target \in Targets(q.intent.cfg) : ~Reportable(q, target)
     \/ \E b \in Budgets : resv[q.key][b] = "settled"
  /\ Done(p)
  /\ UNCHANGED <<now, work, latest, agent, lease, resv, usage, run, approval, effects>>

\* The handler dies, or its client disconnects; nothing uncommitted survives.
Crash(p) ==
  /\ proc[p] # Idle
  /\ Done(p)
  /\ UNCHANGED <<now, work, latest, agent, lease, resv, usage, run, approval, effects>>

-----------------------------------------------------------------------------
(* Operators                                                               *)

\* Mutant of Recover: the run record is left open.
RecoverLeaseOnly(k) ==
  /\ Active(k)
  /\ Expired(k)
  /\ Settle(k, Amount(k), "failed")
  /\ UNCHANGED <<now, work, latest, agent, run, approval, proc, effects>>

\* Mutant of Recover: the run ends in a status the run table does not know.
RecoverAbandoned(k) ==
  /\ Active(k)
  /\ Expired(k)
  /\ Settle(k, Amount(k), "failed")
  /\ run' = [run EXCEPT ![k].status = "abandoned"]
  /\ UNCHANGED <<now, work, latest, agent, approval, proc, effects>>

\* recover: an expired, unsettled lease is settled at its ceiling as failed.
Recover(k) ==
  LET w == lease[k].intent.work IN
  /\ Active(k)
  /\ Expired(k)
  /\ w # None => CanTransition(work[w].status, "failed")
  /\ Settle(k, Amount(k), "failed")
  /\ run' = IF run[k].status = "running"
            THEN [run EXCEPT ![k].status = "failed"] ELSE run
  /\ work' = IF w = None THEN work ELSE [work EXCEPT ![w].status = "failed"]
  /\ UNCHANGED <<now, latest, agent, approval, proc, effects>>

\* request_control: the role's present adapter must be a process.
RequestControl(k, action) ==
  /\ lease[k].state = "running"
  /\ Adapter[agent[lease[k].intent.agent].cfg] = "process"
  /\ lease' = [lease EXCEPT ![k].control = action]
  /\ UNCHANGED <<now, work, latest, agent, resv, usage, run, approval, proc, effects>>

\* update, block, close and reassign read the work item before the company lock.
BeginCommand(p, pc, w, target, owner) ==
  /\ proc[p] = Idle
  /\ CanTransition(work[w].status, target)
  /\ proc' = [proc EXCEPT ![p] =
       [pc |-> pc, work |-> w, target |-> target, owner |-> owner]]
  /\ UNCHANGED <<now, work, latest, agent, lease, resv, usage, run, approval, effects>>

\* PATCH /work-items/{id}/status
UpdateStatus(p, w) ==
  \E target \in RequestedStatuses, owner \in Owners \cup {None} :
    BeginCommand(p, "command", w, target, owner)

\* reassign_work_item sends back the status it read.
Reassign(p, w) ==
  \E owner \in Owners : BeginCommand(p, "reassign", w, work[w].status, owner)

\* block_work_item and close_work_item send back the owner they read.
BlockOrClose(p, w) ==
  \E target \in RequestedStatuses \cap ({"blocked"} \cup WORK_ITEM_CLOSE_STATUSES) :
    BeginCommand(p, "command", w, target, work[w].owner)

\* The locked half of a status command.
CommandApplied(p) ==
  LET c == proc[p] IN
  /\ c.pc \in {"command", "reassign"}
  /\ MutationAllowed(c.work, c.target)
  /\ work' = Mutated(c.work, c.target, c.owner)
  /\ Done(p)
  /\ UNCHANGED <<now, latest, agent, lease, resv, usage, run, approval, effects>>

CommandRefused(p) ==
  LET c == proc[p] IN
  /\ c.pc \in {"command", "reassign"}
  /\ ~MutationAllowed(c.work, c.target)
  /\ Done(p)
  /\ UNCHANGED <<now, work, latest, agent, lease, resv, usage, run, approval, effects>>

\* Mutant of Review: output that was only recorded is accepted as evidence.
ReviewRecorded(w, accepted) ==
  /\ work[w].status \notin ClosedStatuses
  /\ latest[w] # None
  /\ run[latest[w]].status = "succeeded"
  /\ work' = [work EXCEPT ![w].acceptance = IF accepted THEN latest[w] ELSE None]
  /\ UNCHANGED <<now, latest, agent, lease, resv, usage, run, approval, proc, effects>>

\* SqlAlchemyOutcomeStore.review of the evidence artifact of the latest run.
Review(w, accepted) ==
  /\ work[w].status \notin ClosedStatuses
  /\ latest[w] # None
  /\ run[latest[w]].status = "succeeded"
  /\ run[latest[w]].business
  /\ work' = [work EXCEPT ![w].acceptance = IF accepted THEN latest[w] ELSE None]
  /\ UNCHANGED <<now, latest, agent, lease, resv, usage, run, approval, proc, effects>>

\* ApprovalGate.approve refuses an expired request; reject does not look.
ResolveApproval(ap, approved) ==
  /\ approval[ap].status = "pending"
  /\ approved => approval[ap].expires > now
  /\ approval' = [approval EXCEPT ![ap].status = IF approved THEN "approved" ELSE "rejected"]
  /\ UNCHANGED <<now, work, latest, agent, lease, resv, usage, run, proc, effects>>

\* PATCH /agents/{id}/status and PUT /agents/{id}
UpdateAgent(a, role) ==
  /\ agent' = [agent EXCEPT ![a] = role]
  /\ UNCHANGED <<now, work, latest, lease, resv, usage, run, approval, proc, effects>>

Tick ==
  /\ now < MaxNow
  /\ now' = now + 1
  /\ UNCHANGED <<work, latest, agent, lease, resv, usage, run, approval, proc, effects>>

-----------------------------------------------------------------------------

Claim(p) == \/ ClaimDenied(p)
            \/ ClaimBlocked(p)
            \/ ClaimAwaitsApproval(p)
            \/ ClaimGranted(p)
            \/ ClaimReplayed(p)

Execution(p) == \/ Dispatch(p)
                \/ Succeed(p)
                \/ OverrunCeiling(p)
                \/ Fail(p)
                \/ Terminate(p)
                \/ MarkUncertain(p)
                \/ ConclusionRefused(p)
                \/ Crash(p)

WorkCommand(p) == \/ \E w \in Works : \/ UpdateStatus(p, w)
                                      \/ Reassign(p, w)
                                      \/ BlockOrClose(p, w)
                  \/ CommandApplied(p)
                  \/ CommandRefused(p)

Next ==
  \/ \E p \in Procs :
       \/ \E w \in Works, a \in Agents, k \in RunKeys : BeginRun(p, w, a, k)
       \/ \E w \in Works \cup {None}, a \in Agents, k \in WakeKeys : BeginWake(p, w, a, k)
       \/ Claim(p)
       \/ Execution(p)
       \/ WorkCommand(p)
  \/ \E k \in Keys : Recover(k) \/ \E action \in ControlActions : RequestControl(k, action)
  \/ \E w \in Works, accepted \in BOOLEAN : Review(w, accepted)
  \/ \E ap \in Approvals, approved \in BOOLEAN : ResolveApproval(ap, approved)
  \/ \E a \in Agents, role \in Roles : UpdateAgent(a, role)
  \/ Tick

Spec == Init /\ [][Next]_vars

-----------------------------------------------------------------------------
(* Properties                                                              *)

\* At most one execution of a work item (or of an agent without one) runs under a
\* valid lease: claim refuses a resource that has an unsettled lease, in whatever
\* order claims, abandonment, recovery and late answers are committed.
OneRunningPerResource ==
  \A j, k \in Keys :
    /\ lease[j].state = "running"
    /\ lease[k].state = "running"
    /\ Resource(lease[j].intent) = Resource(lease[k].intent)
    => j = k

\* An idempotency key reaches the external executor at most once, over all
\* replays, crashes and recoveries, and only after its lease and its RUNNING run
\* were committed (the checkpoint before _execute_adapter).
ExecutorCalledOnce ==
  \A k \in Keys : /\ effects[k] <= 1
                  /\ effects[k] = 1 => lease[k] # NoLease /\ run[k] # NoRun

\* Every reservation is charged exactly once: usage rows exist exactly for settled
\* reservations, one each; a lease that is over holds no money back, and a running
\* one has not been charged.
ChargedExactlyOnce ==
  \A k \in Keys, b \in Budgets :
    /\ Len(usage[k][b]) = IF resv[k][b] = "settled" THEN 1 ELSE 0
    /\ lease[k].state \in TerminalLeaseStates => resv[k][b] # "reserved"
    /\ lease[k].state = "running" => resv[k][b] # "settled"

\* What an executor reported above its declared ceiling.
Excess(k, cost) == IF cost > Amount(k) THEN cost - Amount(k) ELSE 0

Overrun(b) ==
  SumFunction([k \in Keys |->
    SumFunction([i \in DOMAIN usage[k][b] |-> Excess(k, PeriodCost(usage[k][b][i]))])])

\* What a policy was charged in its period and holds reserved stays within its limit,
\* except for what executors reported above their declared ceiling: concurrent claims
\* never overbook a policy (the admission check of _claim).
BudgetBound ==
  \A b \in Budgets : Consumed(b) + Reserved(b) <= Limit[b] + Overrun(b)

\* A completed work item carries the acceptance of its latest run, and that run
\* succeeded with business output: no order of runs, reviews, closes, replays and
\* recoveries completes a work item on the evidence of an older run.
CompletedIsAccepted ==
  \A w \in Works : work[w].status = "completed" =>
    /\ work[w].acceptance # None
    /\ work[w].acceptance = latest[w]
    /\ run[latest[w]] = [status |-> "succeeded", business |-> TRUE]

\* A work item is first executed only after every dependency had a run that ended in
\* business output: readiness is not lost between the request and its claim.
StartedAfterDependencies ==
  \A w \in Works : latest[w] # None =>
    \A d \in Deps[w] : \E k \in Keys :
      /\ lease[k] # NoLease
      /\ lease[k].intent.work = d
      /\ run[k] = [status |-> "succeeded", business |-> TRUE]

\* A lease that needed approval consumed one approval, given for that key, that
\* configuration and that input, and no approval is consumed by another key.
ApprovalBinding ==
  /\ \A k \in Keys : (lease[k] # NoLease /\ RequiresApproval(lease[k].intent)) =>
       \E ap \in Approvals : approval[ap] # NoApproval /\ approval[ap].consumed = k
  /\ \A ap \in Approvals : (approval[ap] # NoApproval /\ approval[ap].consumed # None) =>
       LET k == approval[ap].consumed IN
       /\ approval[ap].status = "approved"
       /\ approval[ap].key = k
       /\ lease[k] # NoLease
       /\ approval[ap].intent = lease[k].intent

\* The run record and the lease tell the same story: a run is open only while its
\* lease is unsettled, and it succeeded exactly when its lease did.
RunAgreesWithLease ==
  \A k \in Keys :
    /\ lease[k] = NoLease <=> run[k] = NoRun
    /\ run[k].status = "running" => Active(k)
    /\ run[k].status = "succeeded" <=> lease[k].state = "succeeded"

\* While a work item's lease is running, the item is RUNNING and that run is its
\* latest: no status command, review, replay or recovery of another lease moves it.
RunningLeaseHoldsWork ==
  \A k \in Keys : lease[k].state = "running" /\ lease[k].intent.work # None =>
    /\ work[lease[k].intent.work].status = "running"
    /\ latest[lease[k].intent.work] = k

\* A run that is over is never rewritten, so a late answer of a runner whose lease
\* was recovered by an operator cannot revive or overwrite the recorded outcome.
TerminalRunsStay ==
  [][\A k \in Keys : run[k].status \notin {"none", "running"} => run'[k] = run[k]]_vars

\* The abstract ledger, read off the run records, reservations and usage rows.
Ledger == INSTANCE ExecutionLedger WITH
  outcome <- [k \in Keys |-> run[k].status],
  held <- [k \in Keys |-> {b \in Budgets : resv[k][b] # "none"}],
  charges <- [k \in Keys |-> [b \in Budgets |-> Len(usage[k][b])]]

\* Claims, settlements, late answers, crashes and recoveries of a key together are
\* one start and one conclusion that charges every reserved budget once.
ImplementsLedger == Ledger!LedgerSpec

\* An abandoned lease can be reconciled: an operator's recover finds its reservations
\* unsettled and may fail the work item, which frees the item for a retry.
AbandonedIsRecoverable ==
  \A k \in Keys : Active(k) /\ Expired(k) =>
    /\ \A b \in Budgets : resv[k][b] # "settled"
    /\ lease[k].intent.work # None =>
         CanTransition(work[lease[k].intent.work].status, "failed")

\* Reassigning a work item changes its owner and leaves its status alone.
ReassignKeepsStatus ==
  [][\A p \in Procs : (proc[p].pc = "reassign" /\ proc'[p] = Idle) =>
       work'[proc[p].work].status = work[proc[p].work].status]_vars

\* Repeating a request whose key was already settled repeats its answer and leaves
\* the work item as it is.
ReplayLeavesWork ==
  [][\A p \in Procs : (Claiming(p) /\ lease[proc[p].key].state \in TerminalLeaseStates
                        /\ proc'[p] = Idle) => work' = work]_vars
=============================================================================
