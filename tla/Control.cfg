\* A process executor under operator control: pause, resume and terminate requests,
\* abandonment, recovery and cancellation by an operator.
CONSTANTS
  None = None  a1 = a1  b1 = b1  b2 = b2  w1 = w1  w2 = w2
  k1 = k1  k2 = k2  n1 = n1  p1 = p1  p2 = p2  http = http
  process = process  builtin = builtin  ap1 = ap1  ap2 = ap2
  Works = {w1}
  Agents = {a1}
  RunKeys = {k1}
  WakeKeys = {n1}
  Procs = {p1, p2}
  Budgets = {b1}
  Approvals = {}
  Cfgs = {process}
  Authorized = {process}
  Payable = {process}
  Escalated = {}
  Adapter <- MCAdapter
  Ceiling <- UnitCeiling
  Costs = {1}
  Limit <- MCLimit
  Scope <- MCScope
  Deps <- NoDeps
  ApprovalRequired = {}
  RequestedStatuses = {"blocked", "cancelled"}
  Owners = {}
  Roles <- ActiveRoles
  InitialStatuses = {"ready"}
  InitialOwners = {None}
  LeaseTerm = 1
  ApprovalTerm = 1
  Period = 2
  MaxNow = 1
SPECIFICATION Spec
SYMMETRY Sym
CHECK_DEADLOCK FALSE
INVARIANTS
  AbandonedIsRecoverable
