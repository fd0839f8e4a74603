\* One http agent and one work item: two requests race through claim, execution,
\* uncertain answers, abandonment, recovery, review and status commands.
CONSTANTS
  None = None  a1 = a1  b1 = b1  b2 = b2  w1 = w1  w2 = w2
  k1 = k1  k2 = k2  n1 = n1  p1 = p1  p2 = p2  http = http
  process = process  builtin = builtin  ap1 = ap1  ap2 = ap2
  Works = {w1}
  Agents = {a1}
  RunKeys = {k1, k2}
  WakeKeys = {}
  Procs = {p1, p2}
  Budgets = {b1}
  Approvals = {}
  Cfgs = {http}
  Authorized = {http}
  Payable = {http}
  Escalated = {}
  Adapter <- MCAdapter
  Ceiling <- UnitCeiling
  Costs = {1, 2}
  Limit <- MCLimit
  Scope <- MCScope
  Deps <- NoDeps
  ApprovalRequired = {}
  RequestedStatuses = {"completed", "cancelled"}
  Owners = {a1}
  Roles <- AllRoles
  InitialStatuses = {"ready"}
  InitialOwners = {a1}
  LeaseTerm = 1
  ApprovalTerm = 1
  Period = 2
  MaxNow = 2
SPECIFICATION Spec
SYMMETRY Sym
CHECK_DEADLOCK FALSE
INVARIANTS
  TypeOK
  OneRunningPerResource
  ExecutorCalledOnce
  ChargedExactlyOnce
  CompletedIsAccepted
  RunAgreesWithLease
  RunningLeaseHoldsWork
PROPERTIES
  TerminalRunsStay
