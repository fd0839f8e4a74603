--------------------------- MODULE ExecutionLedger ---------------------------
(***************************************************************************)
(* What governed execution promises for one idempotency key: the execution *)
(* starts once, holding a set of budgets, and concludes once, charging each *)
(* budget it holds one time and no other budget.  Nothing is said of       *)
(* leases, handlers, clocks or work items.                                 *)
(***************************************************************************)
EXTENDS Naturals

CONSTANTS Keys, Budgets

VARIABLES
  outcome,  \* of each key: "none", "running" or how it ended
  held,     \* the budgets reserved for the key when it started
  charges   \* how often each budget was charged for the key

ledgerVars == <<outcome, held, charges>>

Outcomes == {"succeeded", "failed", "cancelled"}

LedgerInit ==
  /\ outcome = [k \in Keys |-> "none"]
  /\ held = [k \in Keys |-> {}]
  /\ charges = [k \in Keys |-> [b \in Budgets |-> 0]]

Start(k) ==
  /\ outcome[k] = "none"
  /\ outcome' = [outcome EXCEPT ![k] = "running"]
  /\ \E S \in SUBSET Budgets : held' = [held EXCEPT ![k] = S]
  /\ UNCHANGED charges

Finish(k) ==
  /\ outcome[k] = "running"
  /\ \E o \in Outcomes : outcome' = [outcome EXCEPT ![k] = o]
  /\ charges' = [charges EXCEPT ![k] = [b \in Budgets |-> IF b \in held[k] THEN 1 ELSE 0]]
  /\ UNCHANGED held

LedgerNext == \E k \in Keys : Start(k) \/ Finish(k)

LedgerSpec == LedgerInit /\ [][LedgerNext]_ledgerVars
=============================================================================
