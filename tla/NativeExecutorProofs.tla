------------------------ MODULE NativeExecutorProofs -------------------------
(***************************************************************************)
(* What NativeExecutor promises, for every number of calls, run ids and    *)
(* request bodies.  The inductive invariant says who may act for a receipt *)
(* row: a call that claimed it (its own request is in the row) and no      *)
(* other call of that run id.                                              *)
(***************************************************************************)
EXTENDS NativeExecutor, TLAPS

\* calls that inserted the row of their run id
Claimed(k) == pc[k] \in {"handle", "complete", "doubt"} \/ k \in invoked

RowOfClaim ==
  \A k \in Calls : Claimed(k) =>
    ledger[run[k]] # None /\ ledger[run[k]].request = request[k]

OneClaim ==
  \A j, k \in Calls : Claimed(j) /\ Claimed(k) /\ run[j] = run[k] => j = k

\* a result exists only after the handler ran
ResultOfHandler ==
  \A k \in Calls : pc[k] \in {"complete", "doubt"} => k \in invoked

CompletedByHandler ==
  \A r \in Runs : ledger[r] # None /\ ledger[r].state \in Completed =>
    \E j \in invoked : run[j] = r /\ request[j] = ledger[r].request

VerdictOfReceipt ==
  \A k \in Calls :
    /\ verdict[k] \in Completed => ledger[run[k]] = [request |-> request[k], state |-> verdict[k]]
    /\ verdict[k] = "refused" =>
         ledger[run[k]] # None /\ ledger[run[k]].request # request[k]

IInv ==
  /\ TypeOK /\ RowOfClaim /\ OneClaim /\ ResultOfHandler
  /\ CompletedByHandler /\ VerdictOfReceipt

\* The ledger starts empty and no handler has run.
LEMMA InitEstablishes == Init => IInv
  BY ExecutorAssumption
  DEF Init, IInv, TypeOK, RowOfClaim, OneClaim, ResultOfHandler, CompletedByHandler,
      VerdictOfReceipt, Claimed, Completed, Verdicts

\* Every step keeps the types of the state.
LEMMA TypeStep == ASSUME TypeOK, [Next]_vars PROVE TypeOK'
<1>1. CASE UNCHANGED vars BY <1>1 DEF TypeOK, vars
<1>2. ASSUME NEW k \in Calls, Arrive(k) PROVE TypeOK'
  BY <1>2 DEF TypeOK, Arrive
<1>3. ASSUME NEW k \in Calls, ClaimNew(k) PROVE TypeOK'
  BY <1>3 DEF TypeOK, ClaimNew, Answer, States, Verdicts, Completed
<1>4. ASSUME NEW k \in Calls, ClaimTaken(k) PROVE TypeOK'
  <2>1. PICK v \in Verdicts : Answer(k, v)
    BY <1>4 DEF ClaimTaken, Verdicts, Completed
  <2> QED BY <1>4, <2>1 DEF TypeOK, ClaimTaken, Answer
<1>5. ASSUME NEW k \in Calls, Handle(k) PROVE TypeOK'
  BY <1>5 DEF TypeOK, Handle, Completed
<1>6. ASSUME NEW k \in Calls, Complete(k) PROVE TypeOK'
  BY <1>6 DEF TypeOK, Complete, Answer, Owns, States, Verdicts, Completed
<1>7. ASSUME NEW k \in Calls, MarkUncertain(k) PROVE TypeOK'
  BY <1>7 DEF TypeOK, MarkUncertain, Answer, Owns, States, Verdicts
<1>8. ASSUME NEW k \in Calls, Break(k) PROVE TypeOK'
  BY <1>8 DEF TypeOK, Break, Answer, Verdicts
<1>9. ASSUME NEW k \in Calls, LoseAnswer(k) PROVE TypeOK'
  BY <1>9 DEF TypeOK, LoseAnswer, Verdicts
<1> QED BY <1>1, <1>2, <1>3, <1>4, <1>5, <1>6, <1>7, <1>8, <1>9 DEF Next

\* A row, once inserted, keeps the request it was inserted for, and leaves the
\* running state at most once.
LEMMA RowStep ==
  ASSUME TypeOK, [Next]_vars, NEW r \in Runs, ledger[r] # None
  PROVE  /\ ledger'[r] # None
         /\ ledger'[r].request = ledger[r].request
         /\ ledger[r].state # "running" => ledger'[r] = ledger[r]
<1>1. CASE UNCHANGED ledger BY <1>1
<1>2. ASSUME NEW k \in Calls, ClaimNew(k)
      PROVE  ledger'[r] = ledger[r]
  BY <1>2 DEF ClaimNew, TypeOK
<1>3. ASSUME NEW k \in Calls, NEW s \in States, Owns(k),
             ledger' = [ledger EXCEPT ![run[k]].state = s]
      PROVE  /\ ledger'[r] # None
             /\ ledger'[r].request = ledger[r].request
             /\ ledger[r].state # "running" => ledger'[r] = ledger[r]
  BY <1>3, ExecutorAssumption DEF Owns, TypeOK
<1>4. ASSUME NEW k \in Calls, Complete(k), ~ UNCHANGED ledger
      PROVE  Owns(k) /\ \E s \in States : ledger' = [ledger EXCEPT ![run[k]].state = s]
  BY <1>4 DEF Complete, TypeOK, States, Completed
<1>5. ASSUME NEW k \in Calls, MarkUncertain(k), ~ UNCHANGED ledger
      PROVE  Owns(k) /\ \E s \in States : ledger' = [ledger EXCEPT ![run[k]].state = s]
  BY <1>5 DEF MarkUncertain, States
<1>6. UNCHANGED ledger \/ \E k \in Calls : ClaimNew(k) \/ Complete(k) \/ MarkUncertain(k)
  BY DEF Next, vars, Arrive, ClaimTaken, Handle, Break, LoseAnswer
<1> QED BY Zenon, <1>1, <1>2, <1>3, <1>4, <1>5, <1>6

\* The identity of a call never changes, and a call claims a run id only when its
\* row is inserted.
LEMMA ClaimStep ==
  ASSUME TypeOK, ResultOfHandler, [Next]_vars
  PROVE  /\ run' = run /\ request' = request
         /\ \A k \in Calls : Claimed(k)' =>
              \/ Claimed(k)
              \/ ClaimNew(k) /\ \A j \in Calls \ {k} : Claimed(j)' <=> Claimed(j)
<1>1. run' = run /\ request' = request
  BY Zenon DEF Next, vars, Arrive, ClaimNew, ClaimTaken, Handle, Complete, MarkUncertain,
         Break, LoseAnswer
<1>2. CASE UNCHANGED vars BY <1>1, <1>2 DEF vars, Claimed
<1>3. ASSUME NEW k \in Calls, ClaimNew(k), NEW j \in Calls \ {k} PROVE Claimed(j)' <=> Claimed(j)
  BY <1>3 DEF ClaimNew, Answer, Claimed, TypeOK
<1>4. ASSUME NEW k \in Calls, NEW j \in Calls, Claimed(j)',
             \/ Arrive(k) \/ ClaimTaken(k) \/ Handle(k) \/ Complete(k)
             \/ MarkUncertain(k) \/ Break(k) \/ LoseAnswer(k)
      PROVE  Claimed(j)
  BY <1>4 DEF Claimed, TypeOK, Arrive, ClaimTaken, Handle, Complete, MarkUncertain,
              Break, LoseAnswer, Answer
<1>5. ASSUME NEW k \in Calls, ClaimNew(k), NEW j \in Calls, Claimed(j)', ~ Claimed(j)
      PROVE  j = k
  BY <1>3, <1>5
<1> QED BY <1>1, <1>2, <1>3, <1>4, <1>5 DEF Next

\* Every step preserves the invariant.
LEMMA StepPreserves == ASSUME IInv, [Next]_vars PROVE IInv'
<1> USE DEF IInv
<1>1. TypeOK' BY TypeStep
<1>2. run' = run /\ request' = request BY ClaimStep
<1>3. ASSUME NEW k \in Calls, ClaimNew(k)
      PROVE  /\ ledger[run[k]] = None
             /\ ledger'[run[k]] = [request |-> request[k], state |-> "running"]
             /\ ledger'[run[k]].state = "running"
  BY <1>3 DEF ClaimNew, TypeOK
<1>4. ASSUME NEW k \in Calls, ClaimNew(k)
      PROVE  ledger'[run[k]] # None /\ ledger'[run[k]].request = request[k]
  <2>1. [request |-> request[k], state |-> "running"] \in [request: Requests, state: States]
    BY DEF TypeOK, States
  <2>2. [request |-> request[k], state |-> "running"] # None
    BY <2>1, ExecutorAssumption
  <2>3. [request |-> request[k], state |-> "running"].request = request[k] OBVIOUS
  <2> HIDE DEF IInv
  <2> QED BY Zenon, <1>3, <1>4, <2>2, <2>3
<1>5. RowOfClaim'
  <2> SUFFICES ASSUME NEW k \in Calls, Claimed(k)'
               PROVE  ledger'[run[k]] # None /\ ledger'[run[k]].request = request[k]
    BY <1>2 DEF RowOfClaim
  <2>1. CASE Claimed(k)
    <3>1. run[k] \in Runs /\ ledger[run[k]] # None /\ ledger[run[k]].request = request[k]
      BY <2>1 DEF RowOfClaim, TypeOK
    <3> QED BY <3>1, RowStep
  <2>2. CASE ClaimNew(k) BY <2>2, <1>4
  <2> QED BY <2>1, <2>2, ClaimStep
<1>6. OneClaim'
  <2> SUFFICES ASSUME NEW j \in Calls, NEW k \in Calls, Claimed(j)', Claimed(k)', run[j] = run[k]
               PROVE  j = k
    BY <1>2 DEF OneClaim
  <2>1. CASE Claimed(j) /\ Claimed(k) BY <2>1 DEF OneClaim
  <2>2. ASSUME NEW i \in Calls, NEW l \in Calls, ClaimNew(i), Claimed(l), run[l] = run[i]
        PROVE  FALSE
    BY Zenon, <2>2, <1>3 DEF RowOfClaim
  <2>3. CASE ~ Claimed(j) /\ j # k
    <3>1. ClaimNew(j) /\ Claimed(k) BY <2>3, ClaimStep
    <3> QED BY <3>1, <2>2
  <2>4. CASE ~ Claimed(k) /\ j # k
    <3>1. ClaimNew(k) /\ Claimed(j) BY <2>4, ClaimStep
    <3> QED BY <3>1, <2>2
  <2> QED BY <2>1, <2>3, <2>4
<1>7. ResultOfHandler'
  BY Zenon DEF ResultOfHandler, TypeOK, Next, vars, Arrive, ClaimNew, ClaimTaken, Handle, Complete,
         MarkUncertain, Break, LoseAnswer, Answer
<1>8. invoked \subseteq invoked'
  BY Zenon DEF Next, vars, Arrive, ClaimNew, ClaimTaken, Handle, Complete, MarkUncertain, Break, LoseAnswer
<1>9. CompletedByHandler'
  <2> SUFFICES ASSUME NEW r \in Runs, ledger'[r] # None, ledger'[r].state \in Completed
               PROVE  \E j \in invoked' : run[j] = r /\ request[j] = ledger'[r].request
    BY <1>2 DEF CompletedByHandler
  <2>1. CASE ledger'[r] = ledger[r] BY <2>1, <1>8 DEF CompletedByHandler
  <2>2. ASSUME NEW k \in Calls, ClaimNew(k) PROVE ledger'[r] = ledger[r]
    <3>1. CASE r = run[k] 
      <4>1. ledger'[run[k]].state = "running" BY Zenon, <2>2, <1>3
      <4> QED BY <3>1, <4>1 DEF Completed
    <3>2. CASE r # run[k] BY <2>2, <3>2 DEF ClaimNew, TypeOK
    <3> QED BY <3>1, <3>2
  <2>3. ASSUME NEW k \in Calls, MarkUncertain(k) PROVE ledger'[r] = ledger[r]
    BY <2>3 DEF MarkUncertain, Owns, TypeOK, Completed
  <2>4. ASSUME NEW k \in Calls, Complete(k), ledger'[r] # ledger[r]
        PROVE  k \in invoked /\ run[k] = r /\ request[k] = ledger'[r].request
    BY <2>4 DEF Complete, Owns, TypeOK, ResultOfHandler
  <2>5. UNCHANGED ledger \/ \E k \in Calls : ClaimNew(k) \/ Complete(k) \/ MarkUncertain(k)
    BY DEF Next, vars, Arrive, ClaimTaken, Handle, Break, LoseAnswer
  <2> QED BY <2>1, <2>2, <2>3, <2>4, <2>5, <1>8
<1>10. VerdictOfReceipt'
  <2> SUFFICES ASSUME NEW k \in Calls
               PROVE  /\ verdict'[k] \in Completed =>
                           ledger'[run[k]] = [request |-> request[k], state |-> verdict'[k]]
                      /\ verdict'[k] = "refused" =>
                           ledger'[run[k]] # None /\ ledger'[run[k]].request # request[k]
    BY <1>2 DEF VerdictOfReceipt
  <2>1. CASE verdict'[k] = verdict[k]
    <3>1. run[k] \in Runs BY DEF TypeOK
    <3>2. CASE verdict[k] \in Completed
      <4>1. ledger[run[k]] = [request |-> request[k], state |-> verdict[k]]
        BY <3>2 DEF VerdictOfReceipt
      <4>2. ledger[run[k]] # None /\ ledger[run[k]].state # "running"
        BY <4>1, <3>2, ExecutorAssumption DEF TypeOK, Completed, States
      <4> QED BY <2>1, <3>1, <4>1, <4>2, RowStep, <3>2 DEF Completed
    <3>3. CASE verdict[k] = "refused"
      <4>1. ledger[run[k]] # None /\ ledger[run[k]].request # request[k]
        BY Zenon, <3>3 DEF VerdictOfReceipt
      <4> QED BY <2>1, <3>1, <4>1, RowStep, <3>3 DEF Completed
    <3> QED BY <2>1, <3>2, <3>3
  <2>2. CASE verdict'[k] \in {"uncertain", "none"} BY <2>2 DEF Completed
  <2>3. CASE ClaimTaken(k) BY <2>3, ExecutorAssumption DEF ClaimTaken, Answer, TypeOK, Completed, States
  <2>4. CASE Complete(k) /\ verdict'[k] # verdict[k]
    BY <2>4, ExecutorAssumption DEF Complete, Answer, Owns, TypeOK, Completed, States
  <2>5. ASSUME verdict'[k] # verdict[k], verdict'[k] \notin {"uncertain", "none"}
        PROVE  ClaimTaken(k) \/ Complete(k)
    <3>1. ASSUME NEW j \in Calls, NEW v, verdict' = [verdict EXCEPT ![j] = v]
          PROVE  j = k /\ v \notin {"uncertain", "none"}
      BY <2>5, <3>1 DEF TypeOK
    <3>2. ASSUME NEW j \in Calls, ClaimTaken(j) \/ Complete(j)  PROVE j = k
      BY Zenon, <2>5, <3>1, <3>2 DEF ClaimTaken, Complete, Answer
    <3>3. ASSUME NEW j \in Calls, ClaimNew(j) \/ MarkUncertain(j) \/ Break(j) \/ LoseAnswer(j)
          PROVE  FALSE
      <4>1. verdict' = [verdict EXCEPT ![j] = "uncertain"]
        BY Zenon, <2>5, <3>3 DEF ClaimNew, MarkUncertain, Break, LoseAnswer, Answer
      <4> QED BY <3>1, <4>1
    <3>4. \E j \in Calls : \/ ClaimTaken(j) \/ Complete(j) \/ ClaimNew(j) \/ MarkUncertain(j)
                         \/ Break(j) \/ LoseAnswer(j)
      BY Zenon, <2>5 DEF Next, vars, Arrive, Handle
    <3> QED BY Zenon, <3>2, <3>3, <3>4
  <2> QED BY <2>1, <2>2, <2>3, <2>4, <2>5
<1> QED BY <1>1, <1>5, <1>6, <1>7, <1>9, <1>10

\* The invariant holds in every reachable state.
LEMMA Invariant == Spec => []IInv
<1>1. IInv /\ UNCHANGED vars => IInv' BY StepPreserves
<1> QED BY InitEstablishes, StepPreserves, <1>1, PTL DEF Spec

-----------------------------------------------------------------------------
\* TypeOK: calls that break off anywhere, repeat or conflict leave a ledger of whole
\* rows, each with a request and a state of the state machine.
THEOREM TypeCorrect == Spec => []TypeOK
<1>1. IInv => TypeOK BY DEF IInv
<1> QED BY Invariant, <1>1, PTL

\* InvokedOnce: however often a request arrives and wherever an earlier call broke
\* off, the handler runs at most once for a run id (the insert of claim decides).
THEOREM HandlerRunsOnce == Spec => []InvokedOnce
<1>1. IInv => InvokedOnce
  BY DEF IInv, TypeOK, OneClaim, Claimed, InvokedOnce
<1> QED BY Invariant, <1>1, PTL

\* AnswersAgree: all completed answers for a run id are the one receipt of the one
\* invocation made for that request.
THEOREM OneReceipt == Spec => []AnswersAgree
<1>1. ASSUME IInv, NEW k \in Calls, verdict[k] \in Completed
      PROVE  /\ ledger[run[k]] = [request |-> request[k], state |-> verdict[k]]
             /\ \E j \in invoked : run[j] = run[k] /\ request[j] = request[k]
  <2>1. ledger[run[k]] = [request |-> request[k], state |-> verdict[k]]
    BY <1>1 DEF IInv, VerdictOfReceipt
  <2>2. run[k] \in Runs /\ ledger[run[k]] # None /\ ledger[run[k]].state \in Completed
    BY <1>1, <2>1, ExecutorAssumption DEF IInv, TypeOK, Completed, States
  <2> QED BY <1>1, <2>1, <2>2 DEF IInv, CompletedByHandler
<1>2. IInv => AnswersAgree BY <1>1 DEF AnswersAgree
<1> QED BY Invariant, <1>2, PTL

\* ReceiptIsFinal: no step changes a receipt that has left the running state.
THEOREM ReceiptsAreFinal == Spec => ReceiptIsFinal
<1>1. ASSUME IInv, [Next]_vars
      PROVE  \A r \in Runs : ledger[r] # None /\ ledger[r].state # "running" =>
               ledger'[r] = ledger[r]
  BY <1>1, RowStep DEF IInv
<1>2. IInv /\ [Next]_vars =>
        [\A r \in Runs : ledger[r] # None /\ ledger[r].state # "running" =>
           ledger'[r] = ledger[r]]_vars
  BY <1>1
<1> QED BY Invariant, <1>2, PTL DEF Spec, ReceiptIsFinal

\* RefusedIsFinal: a request that was refused with a conflict never has its handler
\* invoked under that run id, before or after.
THEOREM RefusalIsFinal == Spec => RefusedIsFinal
<1>1. ASSUME IInv, IInv', [Next]_vars
      PROVE  \A k \in Calls : verdict[k] = "refused" =>
               \A j \in invoked' : run[j] = run[k] => request[j] # request[k]
  <2> SUFFICES ASSUME NEW k \in Calls, verdict[k] = "refused", NEW j \in invoked', run[j] = run[k]
               PROVE  request[j] # request[k]
    OBVIOUS
  <2>1. ledger[run[k]] # None /\ ledger[run[k]].request # request[k] /\ run[k] \in Runs
    BY Zenon, <1>1 DEF IInv, VerdictOfReceipt, TypeOK
  <2>2. ledger'[run[k]].request # request[k]
    BY <1>1, <2>1, RowStep DEF IInv
  <2>3. j \in Calls /\ ledger'[run'[j]].request = request'[j]
    BY <1>1 DEF IInv, RowOfClaim, Claimed, TypeOK
  <2> QED BY <1>1, <2>2, <2>3, ClaimStep DEF IInv
<1>2. IInv /\ IInv' /\ [Next]_vars =>
        [\A k \in Calls : verdict[k] = "refused" =>
           \A j \in invoked' : run[j] = run[k] => request[j] # request[k]]_vars
  BY <1>1
<1> QED BY Invariant, <1>2, PTL DEF Spec, RefusedIsFinal
=============================================================================
