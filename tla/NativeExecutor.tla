--------------------------- MODULE NativeExecutor ----------------------------
(***************************************************************************)
(* The owner-local native executor: shared/app/native_executor.py over the *)
(* receipt ledger of shared/infra/native_executor_store.py, called by the  *)
(* http adapter of shared/control_plane/agent_runner.py.  A call is one    *)
(* POST as it arrives at the runtime; the network may deliver a request    *)
(* twice, or lose its answer, and another request may reuse a run id.      *)
(* request_digest is modelled by the request itself, so digests are equal  *)
(* exactly when requests are.  Requests that execute refuses before the    *)
(* ledger (company, key, action, trace) leave no state and are left out.   *)
(***************************************************************************)
EXTENDS Naturals, FiniteSets

CONSTANTS
  Calls,     \* requests that arrive at the runtime
  Runs,      \* run ids
  Requests,  \* request bodies
  None       \* no row

States == {"running", "uncertain", "recorded", "failed"}

ASSUME ExecutorAssumption == None \notin [request: Requests, state: States]

VARIABLES
  ledger,    \* receipt row of a run id
  pc,        \* where a call is in execute
  run,       \* run_id of a call
  request,   \* body of a call
  outcome,   \* status of the handler's result, while a call carries it
  invoked,   \* calls whose handler was invoked
  verdict    \* what the control plane's adapter makes of the answer

vars == <<ledger, pc, run, request, outcome, invoked, verdict>>

Completed == {"recorded", "failed"}
Verdicts == Completed \cup {"refused", "uncertain", "none"}

TypeOK ==
  /\ ledger \in [Runs -> [request: Requests, state: States] \cup {None}]
  /\ pc \in [Calls -> {"new", "claim", "handle", "complete", "doubt", "done"}]
  /\ run \in [Calls -> Runs] /\ request \in [Calls -> Requests]
  /\ outcome \in [Calls -> Completed]
  /\ invoked \subseteq Calls
  /\ verdict \in [Calls -> Verdicts]

Init ==
  /\ ledger = [r \in Runs |-> None]
  /\ pc = [k \in Calls |-> "new"]
  /\ run \in [Calls -> Runs] /\ request \in [Calls -> Requests]
  /\ outcome = [k \in Calls |-> "recorded"]
  /\ invoked = {}
  /\ verdict = [k \in Calls |-> "none"]

\* the request reaches the runtime
Arrive(k) ==
  /\ pc[k] = "new"
  /\ pc' = [pc EXCEPT ![k] = "claim"]
  /\ UNCHANGED <<ledger, run, request, outcome, invoked, verdict>>

Answer(k, v) ==
  /\ pc' = [pc EXCEPT ![k] = "done"]
  /\ verdict' = [verdict EXCEPT ![k] = v]

\* claim, the run id is new: the intent is committed before any effect.  A
\* failure at the commit answers 500 although the row may be there.
ClaimNew(k) ==
  /\ pc[k] = "claim" /\ ledger[run[k]] = None
  /\ ledger' = [ledger EXCEPT ![run[k]] = [request |-> request[k], state |-> "running"]]
  /\ \/ pc' = [pc EXCEPT ![k] = "handle"] /\ UNCHANGED verdict
     \/ Answer(k, "uncertain")
  /\ UNCHANGED <<run, request, outcome, invoked>>

\* mutant: a receipt that is still running is taken over
ClaimTakenResumes(k) ==
  /\ pc[k] = "claim" /\ ledger[run[k]] # None
  /\ IF ledger[run[k]].state = "running" /\ ledger[run[k]].request = request[k]
     THEN pc' = [pc EXCEPT ![k] = "handle"] /\ UNCHANGED verdict
     ELSE Answer(k, "uncertain")
  /\ UNCHANGED <<ledger, run, request, outcome, invoked>>

\* mutant: a completed receipt is replayed without comparing digests
ClaimTakenAnyDigest(k) ==
  /\ pc[k] = "claim" /\ ledger[run[k]] # None
  /\ Answer(k, IF ledger[run[k]].state \in Completed THEN ledger[run[k]].state ELSE "uncertain")
  /\ UNCHANGED <<ledger, run, request, outcome, invoked>>

\* mutant: a receipt that is not completed is a conflict
ClaimTakenConflicts(k) ==
  /\ pc[k] = "claim" /\ ledger[run[k]] # None
  /\ LET row == ledger[run[k]] IN
     Answer(k, IF row.state \in Completed /\ row.request = request[k]
               THEN row.state ELSE "refused")
  /\ UNCHANGED <<ledger, run, request, outcome, invoked>>

\* claim, the run id is taken: a completed receipt of the same request is
\* replayed, of another request it is a conflict (409); otherwise 503
ClaimTaken(k) ==
  /\ pc[k] = "claim" /\ ledger[run[k]] # None
  /\ LET row == ledger[run[k]] IN
     Answer(k, CASE row.state \notin Completed -> "uncertain"
                 [] row.state \in Completed /\ row.request = request[k] -> row.state
                 [] OTHER -> "refused")
  /\ UNCHANGED <<ledger, run, request, outcome, invoked>>

\* the handler returns a result; or it raises, is cancelled, times out or returns
\* what cannot be encoded, perhaps after business effects
Handle(k) ==
  /\ pc[k] = "handle"
  /\ invoked' = invoked \cup {k}
  /\ \/ /\ \E s \in Completed : outcome' = [outcome EXCEPT ![k] = s]
        /\ pc' = [pc EXCEPT ![k] = "complete"]
     \/ /\ pc' = [pc EXCEPT ![k] = "doubt"]
        /\ UNCHANGED outcome
  /\ UNCHANGED <<ledger, run, request, verdict>>

\* mutant: updates are not conditional on the running state
OwnsAnyState(k) == ledger[run[k]] # None /\ ledger[run[k]].request = request[k]

Owns(k) ==
  /\ ledger[run[k]] # None
  /\ ledger[run[k]].request = request[k] /\ ledger[run[k]].state = "running"

\* complete: the update of a running row of this request.  It may fail, or
\* commit and report a failure.
Complete(k) ==
  /\ pc[k] = "complete"
  /\ \/ /\ Owns(k)
        /\ ledger' = [ledger EXCEPT ![run[k]].state = outcome[k]]
        /\ \/ Answer(k, outcome[k])
           \/ pc' = [pc EXCEPT ![k] = "doubt"] /\ UNCHANGED verdict
     \/ /\ pc' = [pc EXCEPT ![k] = "doubt"]
        /\ UNCHANGED <<ledger, verdict>>
  /\ UNCHANGED <<run, request, outcome, invoked>>

\* mutant: the row gets a state that no reader knows
MarkUncertainUnknown(k) ==
  /\ pc[k] = "doubt"
  /\ Owns(k) /\ ledger' = [ledger EXCEPT ![run[k]].state = "unknown"]
  /\ Answer(k, "uncertain")
  /\ UNCHANGED <<run, request, outcome, invoked>>

\* mark_uncertain, best effort within five seconds, and the 503 answer
MarkUncertain(k) ==
  /\ pc[k] = "doubt"
  /\ \/ Owns(k) /\ ledger' = [ledger EXCEPT ![run[k]].state = "uncertain"]
     \/ UNCHANGED ledger
  /\ Answer(k, "uncertain")
  /\ UNCHANGED <<run, request, outcome, invoked>>

\* the process dies or the connection breaks: a TransportError for the adapter.
\* A handler that has been reached may have had effects.
Break(k) ==
  /\ pc[k] \in {"new", "claim", "handle", "complete", "doubt"}
  /\ \/ UNCHANGED invoked
     \/ pc[k] = "handle" /\ invoked' = invoked \cup {k}
  /\ Answer(k, "uncertain")
  /\ UNCHANGED <<ledger, run, request, outcome>>

\* the answer of a call that is done is lost on its way to the adapter
LoseAnswer(k) ==
  /\ pc[k] = "done"
  /\ verdict' = [verdict EXCEPT ![k] = "uncertain"]
  /\ UNCHANGED <<ledger, pc, run, request, outcome, invoked>>

Next ==
  \E k \in Calls :
    \/ Arrive(k) \/ ClaimNew(k) \/ ClaimTaken(k) \/ Handle(k) \/ Complete(k)
    \/ MarkUncertain(k) \/ Break(k) \/ LoseAnswer(k)

Spec == Init /\ [][Next]_vars

-----------------------------------------------------------------------------
\* The handler is invoked at most once for a run id, however often the request
\* arrives and wherever an earlier call stopped.
InvokedOnce ==
  \A j, k \in invoked : run[j] = run[k] => j = k

\* Every completed answer for a run id is the one receipt of the one invocation
\* that was made for that very request.
AnswersAgree ==
  \A k \in Calls : verdict[k] \in Completed =>
    /\ ledger[run[k]] = [request |-> request[k], state |-> verdict[k]]
    /\ \E j \in invoked : run[j] = run[k] /\ request[j] = request[k]

\* What the adapter takes as a definitive refusal (409) is one: no call with that
\* body has invoked the handler under that run id, and none will.
RefusedIsFinal ==
  [][\A k \in Calls : verdict[k] = "refused" =>
       \A j \in invoked' : run[j] = run[k] => request[j] # request[k]]_vars

\* A completed receipt is immutable, and an uncertain one is never completed
\* behind the operator's back.
ReceiptIsFinal ==
  [][\A r \in Runs : ledger[r] # None /\ ledger[r].state # "running" =>
       ledger'[r] = ledger[r]]_vars
=============================================================================
