------------------------ MODULE MCExecutionGovernance ------------------------
(***************************************************************************)
(* Instances of ExecutionGovernance for TLC.                               *)
(***************************************************************************)
EXTENDS ExecutionGovernance, TLC

CONSTANTS a1, b1, b2, w1, w2, k1, k2, n1, p1, p2, http, process, builtin, ap1, ap2

\* A configuration is named after its adapter.
MCAdapter == [c \in Cfgs |-> CASE c = http -> "http"
                               [] c = process -> "process"
                               [] c = builtin -> "builtin"]

\* A ceiling of one unit, or executors that cost nothing.
UnitCeiling == [c \in Cfgs |-> IF c = builtin THEN 0 ELSE 1]
NoCeiling == [c \in Cfgs |-> 0]

\* b1 covers the company and b2 the work item w1.
MCLimit == [b \in Budgets |-> IF b = b1 THEN 2 ELSE 1]
MCScope == [b \in Budgets |-> IF b = b1 THEN None ELSE w1]

NoDeps == [w \in Works |-> {}]

\* w2 waits for w1.
Chain == [w \in Works |-> IF w = w2 THEN {w1} ELSE {}]

\* Roles that are active, and roles that operators also pause.
ActiveRoles == [status: {"active"}, cfg: Cfgs]
AllRoles == [status: AgentStatus, cfg: Cfgs]

\* Keys of one kind, handlers and approval rows are interchangeable.
Sym == Permutations(RunKeys) \cup Permutations(Procs) \cup Permutations(Approvals)
=============================================================================
