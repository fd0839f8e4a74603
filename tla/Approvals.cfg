\* A work item that needs approval and a role whose escalation policy does: the role is
\* reconfigured while requests wait, approvals expire, and a key is sent again.
CONSTANTS
  None = None  a1 = a1  b1 = b1  b2 = b2  w1 = w1  w2 = w2
  k1 = k1  k2 = k2  n1 = n1  p1 = p1  p2 = p2  http = http
  process = process  builtin = builtin  ap1 = ap1  ap2 = ap2
  Works = {w1}
  Agents = {a1}
  RunKeys = {k1}
  WakeKeys = {n1}
  Procs = {p1, p2}
  Budgets = {}
  Approvals = {ap1, ap2}
  Cfgs = {http, builtin}
  Authorized = {http, builtin}
  Payable = {http, builtin}
  Escalated = {builtin}
  Adapter <- MCAdapter
  Ceiling <- NoCeiling
  Costs = {0}
  Limit <- MCLimit
  Scope <- MCScope
  Deps <- NoDeps
  ApprovalRequired = {w1}
  RequestedStatuses = {}
  Owners = {}
  Roles <- ActiveRoles
  InitialStatuses = {"ready"}
  InitialOwners = {a1}
  LeaseTerm = 1
  ApprovalTerm = 1
  Period = 2
  MaxNow = 1
SPECIFICATION Spec
SYMMETRY Sym
CHECK_DEADLOCK FALSE
INVARIANTS
  ApprovalBinding
