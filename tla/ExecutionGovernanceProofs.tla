--------------------- MODULE ExecutionGovernanceProofs ----------------------
(***************************************************************************)
(* The execution tables of ExecutionGovernance implement the ledger, and   *)
(* what an execution holds while its run is open, for every value of the   *)
(* constants: its work item, which no other step moves and an operator can *)
(* always fail, and the dependencies that were delivered before it         *)
(* started.                                                                *)
(***************************************************************************)
EXTENDS ExecutionGovernanceSteps

-----------------------------------------------------------------------------
(* The execution tables implement the ledger                               *)

\* A settlement that concludes an open run is the ledger's Finish.
LEMMA SettlementFinishes ==
  ASSUME IndInv, NEW k \in Keys, run[k].status = "running", Charged(k), OthersKept(k),
         run'[k].status \in {"succeeded", "failed", "cancelled"}
  PROVE  Ledger!Finish(k)
<1>1. \A b \in Budgets : resv[k][b] \in {"none", "reserved"} /\ Len(usage[k][b]) = 0
  <2> SUFFICES ASSUME NEW b \in Budgets
               PROVE  resv[k][b] \in {"none", "reserved"} /\ Len(usage[k][b]) = 0
    OBVIOUS
  <2>1. resv[k][b] \in {"none", "reserved", "settled"}  BY DEF IndInv, TypeOK
  <2>2. resv[k][b] # "settled"  BY DEF Charged
  <2>3. Len(usage[k][b]) = IF resv[k][b] = "settled" THEN 1 ELSE 0
    BY DEF IndInv, MoneyFollowsRuns
  <2> QED  BY <2>1, <2>2, <2>3
<1>2. \A b \in Budgets : /\ resv'[k][b] # "none" <=> resv[k][b] # "none"
                         /\ Len(usage'[k][b]) = IF resv[k][b] # "none" THEN 1 ELSE 0
  <2> SUFFICES ASSUME NEW b \in Budgets
               PROVE  /\ resv'[k][b] # "none" <=> resv[k][b] # "none"
                      /\ Len(usage'[k][b]) = IF resv[k][b] # "none" THEN 1 ELSE 0
    OBVIOUS
  <2>1. CASE resv[k][b] = "reserved"
    <3>1. resv'[k][b] = "settled" /\ Len(usage'[k][b]) = Len(usage[k][b]) + 1
      BY <2>1 DEF Charged
    <3>2. Len(usage[k][b]) = 0  BY <1>1
    <3> QED  BY <2>1, <3>1, <3>2
  <2>2. CASE resv[k][b] = "none"  BY <1>1, <2>2 DEF Charged
  <2> QED  BY <1>1, <2>1, <2>2
<1>3. [j \in Keys |-> run'[j].status] =
        [[j \in Keys |-> run[j].status] EXCEPT ![k] = run'[k].status]
  BY Zenon DEF OthersKept
<1>4. [j \in Keys |-> {b \in Budgets : resv'[j][b] # "none"}] =
        [j \in Keys |-> {b \in Budgets : resv[j][b] # "none"}]
  <2>1. \A j \in Keys, b \in Budgets : resv'[j][b] # "none" <=> resv[j][b] # "none"
    BY <1>2 DEF OthersKept
  <2> QED  BY <2>1
<1>5. [j \in Keys |-> [b \in Budgets |-> Len(usage'[j][b])]] =
        [[j \in Keys |-> [b \in Budgets |-> Len(usage[j][b])]] EXCEPT ![k] =
           [b \in Budgets |-> IF b \in {c \in Budgets : resv[k][c] # "none"} THEN 1 ELSE 0]]
  <2>1. \A b \in Budgets : Len(usage'[k][b]) =
          IF b \in {c \in Budgets : resv[k][c] # "none"} THEN 1 ELSE 0
    BY <1>2
  <2> DEFINE row == [b \in Budgets |->
                      IF b \in {c \in Budgets : resv[k][c] # "none"} THEN 1 ELSE 0]
             old(j) == [b \in Budgets |-> Len(usage[j][b])]
             new(j) == [b \in Budgets |-> Len(usage'[j][b])]
  <2>2. new(k) = row  BY <2>1
  <2>3. \A j \in Keys \ {k} : new(j) = old(j)  BY DEF OthersKept
  <2> HIDE DEF row, old, new
  <2>4. [j \in Keys |-> new(j)] = [[j \in Keys |-> old(j)] EXCEPT ![k] = row]
    BY Zenon, <2>2, <2>3
  <2> QED  BY <2>4 DEF row, old, new
<1> QED  BY Zenon, <1>3, <1>4, <1>5 DEF Ledger!Finish, Ledger!Outcomes

\* A granted claim is the ledger's Start.
LEMMA GrantStarts ==
  ASSUME IndInv, NEW p \in Procs, ClaimGranted(p)
  PROVE  \E k \in Keys : Ledger!Start(k)
<1> DEFINE k == proc[p].key
           S == {b \in Budgets : resv'[k][b] # "none"}
<1>1. /\ k \in Keys /\ lease[k].state = "none"
      /\ run'[k] = [status |-> "running", business |-> FALSE]
      /\ OthersKept(k) /\ usage' = usage
  BY GrantedEffect DEF IndInv
<1>2. run[k].status = "none" /\ run'[k].status = "running"
  BY <1>1 DEF IndInv, RunsFollowLeases
<1> HIDE DEF k
<1>3. [j \in Keys |-> run'[j].status] =
        [[j \in Keys |-> run[j].status] EXCEPT ![k] = "running"]
  BY Zenon, <1>1, <1>2 DEF OthersKept
<1>4. [j \in Keys |-> {b \in Budgets : resv'[j][b] # "none"}] =
        [[j \in Keys |-> {b \in Budgets : resv[j][b] # "none"}] EXCEPT ![k] = S]
  BY Zenon, <1>1 DEF OthersKept
<1>5. S \in SUBSET Budgets  OBVIOUS
<1> HIDE DEF S
<1> QED  BY Zenon, <1>1, <1>2, <1>3, <1>4, <1>5 DEF Ledger!Start

\* Every step of the execution tables is a step of the ledger or leaves it alone.
LEMMA LedgerStep == IndInv /\ [Next]_vars => [Ledger!LedgerNext]_(Ledger!ledgerVars)
<1> SUFFICES ASSUME IndInv, [Next]_vars
             PROVE  [Ledger!LedgerNext]_(Ledger!ledgerVars)
  OBVIOUS
<1>1. CASE LeasesKept  BY <1>1 DEF LeasesKept, Ledger!ledgerVars
<1>2. ASSUME NEW p \in Procs, ClaimGranted(p)  PROVE Ledger!LedgerNext
  BY <1>2, GrantStarts DEF Ledger!LedgerNext
<1>3. ASSUME NEW k \in Keys, Settled(k), run[k].status = "running"  PROVE Ledger!LedgerNext
  BY Zenon, <1>3, SettlementFinishes DEF Settled, Ledger!LedgerNext
<1>4. ASSUME NEW k \in Keys, Settled(k), run[k].status # "running"
      PROVE  UNCHANGED Ledger!ledgerVars
  <2>1. run[k].status # "none"
    BY <1>4 DEF Settled, IndInv, RunsFollowLeases, Active, ActiveLeaseStates
  <2>2. run[k].status \in RunStatus  BY <2>1, RunType DEF IndInv, RunRow
  <2>3. \A b \in Budgets : resv[k][b] # "reserved"
    BY <1>4, <2>2 DEF IndInv, MoneyFollowsRuns, RunStatus
  <2>4. \A j \in Keys : run'[j].status = run[j].status
    BY <1>4 DEF Settled, OthersKept
  <2>5. \A j \in Keys, b \in Budgets : /\ resv'[j][b] = resv[j][b]
                                       /\ Len(usage'[j][b]) = Len(usage[j][b])
    BY <1>4, <2>3 DEF Settled, Charged, OthersKept
  <2> QED  BY <2>4, <2>5 DEF Ledger!ledgerVars
<1> QED  BY Zenon, RowShapes, <1>1, <1>2, <1>3, <1>4

\* The claim, settle and recover transactions implement the ledger: one start and one
\* conclusion per key, and one charge for every budget the key holds.
THEOREM Refinement == Spec => ImplementsLedger
<1>1. Init => Ledger!LedgerInit
  BY DEF Init, NoRun, Ledger!LedgerInit
<1> QED  BY <1>1, LedgerStep, Invariance, PTL DEF Spec, ImplementsLedger, Ledger!LedgerSpec

-----------------------------------------------------------------------------
(* The work item of an execution                                           *)

OpenRun(k) == run[k].status = "running"

\* Every execution of an HTTP adapter is charged to some policy: a company-wide
\* policy is enough, and a priced execution is refused without one.
HttpIsCovered == \A i \in Intent : Adapter[i.cfg] = "http" => Selected(i) # {}

\* The latest run of a work item is a run of that item.
LatestOfItem ==
  \A w \in Works : latest[w] # None =>
    lease[latest[w]].state # "none" /\ lease[latest[w]].intent.work = w

\* A handler past its claim works on the intent its lease was granted for.
HandlersKeepIntent ==
  \A p \in Procs : InFlight(p) => proc[p].intent = lease[proc[p].key].intent

\* A lease has a reservation, or had one, with every policy that covers it.
ReservedWithSelected ==
  \A k \in Keys : lease[k].state # "none" =>
    \A b \in Selected(lease[k].intent) : resv[k][b] # "none"

\* A lease that is unsettled although its run is over was reopened by mark_uncertain.
ReopenedIsHttp ==
  \A k \in Keys : Active(k) /\ ~OpenRun(k) => Adapter[lease[k].intent.cfg] = "http"

\* A resource has at most one open run.
OneOpenRun ==
  \A j, k \in Keys :
    OpenRun(j) /\ OpenRun(k) /\ Resource(lease[j].intent) = Resource(lease[k].intent) => j = k

\* An open run is the latest of its work item, which is RUNNING; only the recovery of
\* a reopened lease that holds no reservation can fail the item meanwhile.
OpenRunHoldsItem ==
  \A k \in Keys : OpenRun(k) /\ lease[k].intent.work # None =>
    /\ latest[lease[k].intent.work] = k
    /\ \/ work[lease[k].intent.work].status = "running"
       \/ ~HttpIsCovered /\ work[lease[k].intent.work].status = "failed"

HoldInv ==
  /\ LatestOfItem
  /\ HandlersKeepIntent
  /\ ReservedWithSelected
  /\ ReopenedIsHttp
  /\ OneOpenRun
  /\ OpenRunHoldsItem

\* A run is opened by the claim of its key only.
LEMMA OpenedByClaim ==
  ASSUME IndInv, [Next]_vars, NEW k \in Keys, OpenRun(k)', ~OpenRun(k)
  PROVE  \E p \in Procs : ClaimGranted(p) /\ proc[p].key = k
<1>1. ~LeasesKept  BY DEF LeasesKept, OpenRun
<1>2. ASSUME NEW p \in Procs, ClaimGranted(p)  PROVE proc[p].key = k
  <2>1. OthersKept(proc[p].key)  BY Zenon, <1>2, GrantedEffect DEF IndInv
  <2> QED  BY <2>1 DEF OthersKept, OpenRun
<1>3. ASSUME NEW j \in Keys, Settled(j)  PROVE FALSE
  BY <1>3 DEF Settled, OthersKept, OpenRun
<1> QED  BY Zenon, RowShapes, <1>1, <1>2, <1>3

\* An open run's lease is unsettled, on the run's work item.
LEMMA OpenRunIsActive ==
  ASSUME IndInv, NEW k \in Keys, OpenRun(k)
  PROVE  /\ Active(k)
         /\ lease[k].state # "none"
         /\ lease[k].intent \in Intent
         /\ lease[k].intent.work \in Works \cup {None}
<1>1. Active(k)  BY DEF OpenRun, IndInv, RunsFollowLeases
<1>2. lease[k].state # "none"  BY <1>1 DEF Active, ActiveLeaseStates
<1>3. lease[k] \in LeaseRow  BY <1>2, LeaseType DEF IndInv
<1> QED  BY <1>1, <1>2, <1>3 DEF LeaseRow, Intent

\* No claim is granted, or parked, and no status command applied, on the work item of
\* an open run.
LEMMA OpenRunExcludes ==
  ASSUME IndInv, NEW k \in Keys, OpenRun(k), NEW w \in Works, lease[k].intent.work = w
  PROVE  /\ k \in ActiveOn(w)
         /\ \A q \in Request : Admissible(q) => q.intent.work # w
<1>1. w # None  BY ConstantsAssumption
<1>2. Resource(lease[k].intent) = w  BY <1>1 DEF Resource
<1>3. k \in ActiveOn(w)  BY <1>2, OpenRunIsActive DEF ActiveOn
<1>4. ASSUME NEW q \in Request, Admissible(q), q.intent.work = w  PROVE FALSE
  <2>1. Resource(q.intent) = w  BY <1>1, <1>4 DEF Resource
  <2>2. ActiveOn(Resource(q.intent)) = {}  BY Zenon, <1>4 DEF Admissible
  <2> QED  BY <1>3, <2>1, <2>2
<1> QED  BY <1>3, <1>4

\* Recovering a lease fails the item of another open run only if the recovered lease
\* was reopened and holds no reservation, so that an HTTP adapter runs uncovered.
LEMMA RecoveryIsAlone ==
  ASSUME IndInv, HoldInv, NEW k \in Keys, OpenRun(k), NEW j \in Keys, j # k, Recover(j),
         lease[j].intent.work = lease[k].intent.work, lease[k].intent.work \in Works
  PROVE  ~HttpIsCovered
<1>1. Active(j) /\ \A b \in Budgets : resv[j][b] # "settled"
  BY Zenon, RecoverEffect DEF IndInv
<1>2. lease[j].state # "none"  BY <1>1 DEF Active, ActiveLeaseStates
<1>3. lease[j] \in LeaseRow  BY <1>2, LeaseType DEF IndInv
<1>4. lease[j].intent \in Intent  BY <1>3 DEF LeaseRow
<1>5. ~OpenRun(j)
  <2>1. Resource(lease[j].intent) = Resource(lease[k].intent)
    BY ConstantsAssumption DEF Resource
  <2> QED  BY <2>1 DEF HoldInv, OneOpenRun
<1>6. Adapter[lease[j].intent.cfg] = "http"  BY <1>1, <1>5 DEF HoldInv, ReopenedIsHttp
<1>7. run[j].status \in {"succeeded", "failed", "cancelled"}
  <2>1. run[j].status # "none"  BY <1>2 DEF IndInv, RunsFollowLeases
  <2>2. run[j] \in RunRow  BY <2>1, RunType DEF IndInv
  <2> QED  BY <1>5, <2>2 DEF OpenRun, RunRow, RunStatus
<1>8. \A b \in Budgets : resv[j][b] # "reserved"
  BY <1>7 DEF IndInv, MoneyFollowsRuns
<1>9. \A b \in Budgets : resv[j][b] = "none"
  BY <1>1, <1>8 DEF IndInv, TypeOK
<1>10. \A b \in Selected(lease[j].intent) : resv[j][b] # "none"
  BY Zenon, <1>2 DEF HoldInv, ReservedWithSelected
<1>11. Selected(lease[j].intent) = {}  BY <1>9, <1>10 DEF Selected
<1> QED  BY <1>4, <1>6, <1>11 DEF HttpIsCovered

\* While a run stays open, its item keeps its latest run and its status, but for the
\* recovery of a reopened lease.
LEMMA ItemKept ==
  ASSUME IndInv, HoldInv, [Next]_vars, NEW k \in Keys, OpenRun(k), OpenRun(k)',
         NEW w \in Works, lease[k].intent.work = w
  PROVE  /\ latest'[w] = latest[w]
         /\ \/ work'[w].status = work[w].status
            \/ ~HttpIsCovered /\ work'[w].status = "failed"
<1> DEFINE Kept == /\ latest'[w] = latest[w]
                   /\ \/ work'[w].status = work[w].status
                      \/ ~HttpIsCovered /\ work'[w].status = "failed"
<1>0. k \in ActiveOn(w) /\ \A q \in Request : Admissible(q) => q.intent.work # w
  BY OpenRunExcludes
<1>w. w # None /\ TypeOK  BY ConstantsAssumption DEF IndInv
<1>t. work \in [Works -> WorkRow] /\ latest \in [Works -> Keys \cup {None}]
  BY <1>w DEF TypeOK
<1>1. ASSUME NEW p \in Procs, ClaimAwaitsApproval(p)  PROVE Kept
  <2>1. proc[p] \in Request  BY <1>1, <1>w, RequestType DEF ClaimAwaitsApproval, Claiming
  <2>2. proc[p].intent.work # w  BY Zenon, <1>0, <1>1, <2>1 DEF ClaimAwaitsApproval
  <2>3. latest' = latest
    BY <1>1 DEF ClaimAwaitsApproval
  <2>4. work' = work \/ work' = [work EXCEPT ![proc[p].intent.work].status = "awaiting_approval"]
    BY Zenon, <1>1 DEF ClaimAwaitsApproval
  <2> QED  BY <1>t, <2>2, <2>3, <2>4
<1>2. ASSUME NEW p \in Procs, ClaimGranted(p)  PROVE Kept
  <2>1. proc[p] \in Request  BY <1>2, <1>w, RequestType DEF ClaimGranted, Claiming
  <2>2. proc[p].intent.work # w  BY Zenon, <1>0, <1>2, <2>1 DEF ClaimGranted
  <2>3. \/ work' = work /\ latest' = latest
        \/ /\ work' = [work EXCEPT ![proc[p].intent.work].status = "running",
                                   ![proc[p].intent.work].acceptance = None]
           /\ latest' = [latest EXCEPT ![proc[p].intent.work] = proc[p].key]
    BY Zenon, <1>2 DEF ClaimGranted
  <2> QED  BY <1>t, <2>2, <2>3
<1>3. ASSUME NEW p \in Procs, WorkMoved(p)  PROVE Kept
  <2>1. PICK v \in Works, target \in WorkItemStatus, owner \in Agents \cup {None} :
          MutationAllowed(v, target) /\ work' = Mutated(v, target, owner)
    BY <1>3 DEF WorkMoved
  <2>2. v # w  BY <1>0, <2>1 DEF MutationAllowed
  <2>3. work'[w] = work[w]  BY <1>t, <2>1, <2>2 DEF Mutated
  <2> QED  BY <1>3, <2>3 DEF WorkMoved
<1>4. ASSUME NEW p \in Procs, Conclusion(p)  PROVE Kept
  <2>1. PICK target \in {"blocked", "failed", "cancelled"} :
          /\ latest' = latest /\ Reportable(proc[p], target)
          /\ work' = IF proc[p].kind = "run"
                     THEN Mutated(proc[p].intent.work, target, proc[p].intent.agent) ELSE work
    BY <1>4 DEF Conclusion, Conclude
  <2>2. proc[p].key # k
    BY <1>4, <1>w, ConclusionEffect DEF OpenRun
  <2>3. CASE proc[p].kind = "run"
    <3>1. ActiveOn(proc[p].intent.work) \ {proc[p].key} = {}  BY <2>1, <2>3 DEF Reportable
    <3>2. proc[p].intent.work # w  BY <1>0, <2>2, <3>1
    <3>3. work'[w] = work[w]  BY <1>t, <2>1, <2>3, <3>2 DEF Mutated
    <3> QED  BY <2>1, <3>3
  <2>4. CASE proc[p].kind # "run"  BY <2>1, <2>4
  <2> QED  BY <2>3, <2>4
<1>5. ASSUME NEW j \in Keys, Recover(j)  PROVE Kept
  <2>1. j # k
    BY <1>5, <1>w, RecoverEffect DEF OpenRun
  <2>2. latest' = latest  BY <1>5 DEF Recover
  <2>3. work' = work \/ work' = [work EXCEPT ![lease[j].intent.work].status = "failed"]
    BY Zenon, <1>5 DEF Recover
  <2>4. CASE lease[j].intent.work = w
    <3>1. ~HttpIsCovered  BY Zenon, <1>5, <2>1, <2>4, RecoveryIsAlone
    <3>2. work[w] \in WorkRow  BY <1>t
    <3> QED  BY <1>t, <2>2, <2>3, <2>4, <3>1, <3>2 DEF WorkRow
  <2>5. CASE lease[j].intent.work # w  BY <1>t, <2>2, <2>3, <2>5
  <2> QED  BY <2>4, <2>5
<1>6. ASSUME NEW v \in Works, NEW accepted \in BOOLEAN, Review(v, accepted)  PROVE Kept
  <2>1. latest' = latest
    BY <1>6 DEF Review
  <2>2. PICK a : work' = [work EXCEPT ![v].acceptance = a]  BY Zenon, <1>6 DEF Review
  <2>3. work[w] \in WorkRow  BY <1>t
  <2> QED  BY <1>t, <2>1, <2>2, <2>3 DEF WorkRow
<1>7. ASSUME \/ \E p \in Procs : ClaimBlocked(p) \/ MarkUncertain(p)
             \/ \E j \in Keys, action \in ControlActions : RequestControl(j, action)
      PROVE  Kept
  BY Zenon, <1>7, LeaseEffect DEF IndInv
<1>8. ASSUME \/ Quiet \/ \E p \in Procs : Dispatch(p)
             \/ \E ap \in Approvals, approved \in BOOLEAN : ResolveApproval(ap, approved)
      PROVE  Kept
  BY Zenon, <1>8 DEF Quiet, Dispatch, ResolveApproval
<1> HIDE DEF Kept
<1>9. Kept  BY Zenon, <1>w, StepShapes, <1>1, <1>2, <1>3, <1>4, <1>5, <1>6, <1>7, <1>8
<1> QED  BY <1>9 DEF Kept

\* Only a granted claim makes another run the latest of a work item.
LEMMA LatestMoves ==
  ASSUME IndInv, [Next]_vars
  PROVE  latest' = latest \/ \E p \in Procs : ClaimGranted(p)
BY RowShapes DEF LeasesKept, Settled

\* LatestOfItem is kept.
LEMMA LatestStep ==
  ASSUME IndInv, HoldInv, [Next]_vars
  PROVE  LatestOfItem'
<1>1. \A k \in Keys : lease[k].state # "none" =>
        lease'[k].state # "none" /\ lease'[k].intent = lease[k].intent
  BY Zenon, IntentsStay
<1>2. ASSUME NEW w \in Works, latest'[w] # None, latest'[w] = latest[w]
      PROVE  lease'[latest'[w]].state # "none" /\ lease'[latest'[w]].intent.work = w
  <2>1. latest[w] \in Keys  BY <1>2 DEF IndInv, TypeOK
  <2>2. lease[latest[w]].state # "none" /\ lease[latest[w]].intent.work = w
    BY Zenon, <1>2 DEF HoldInv, LatestOfItem
  <2> QED  BY Zenon, <1>1, <1>2, <2>1, <2>2
<1>3. ASSUME NEW w \in Works, latest'[w] # None, NEW p \in Procs, ClaimGranted(p)
      PROVE  lease'[latest'[w]].state # "none" /\ lease'[latest'[w]].intent.work = w
  <2>1. CASE w # proc[p].intent.work
    <3>1. latest'[w] = latest[w]  BY Zenon, <1>3, <2>1, GrantedItem DEF IndInv
    <3> QED  BY <1>2, <1>3, <3>1
  <2>2. CASE w = proc[p].intent.work
    <3>1. latest'[w] = proc[p].key  BY Zenon, <1>3, <2>2, GrantedItem DEF IndInv
    <3>2. /\ lease'[proc[p].key].state = "running"
          /\ lease'[proc[p].key].intent = proc[p].intent
      BY Zenon, <1>3, GrantedEffect DEF IndInv
    <3> QED  BY <2>2, <3>1, <3>2
  <2> QED  BY <2>1, <2>2
<1> QED  BY <1>2, <1>3, LatestMoves DEF LatestOfItem

\* HandlersKeepIntent is kept.
LEMMA HandlersIntentStep ==
  ASSUME IndInv, HoldInv, [Next]_vars
  PROVE  HandlersKeepIntent'
<1>1. ASSUME NEW p \in Procs, InFlight(p)', proc'[p] = proc[p]
      PROVE  proc'[p].intent = lease'[proc'[p].key].intent
  <2>1. InFlight(p)  BY <1>1 DEF InFlight
  <2>2. proc[p] \in Request  BY <2>1, RequestType DEF InFlight, IndInv
  <2>3. proc[p].key \in Keys /\ lease[proc[p].key].state # "none"
    BY <2>1, <2>2 DEF Request, IndInv, HandlersOwnKeys
  <2>4. lease'[proc[p].key].intent = lease[proc[p].key].intent
    BY Zenon, <2>3, IntentsStay
  <2> QED  BY <1>1, <2>1, <2>4 DEF HoldInv, HandlersKeepIntent
<1>2. ASSUME NEW o \in Procs, InFlight(o)', NEW p \in Procs, ClaimGranted(p)
      PROVE  proc'[o].intent = lease'[proc'[o].key].intent
  <2>1. CASE o = p
    <3>1. /\ lease'[proc[p].key].intent = proc[p].intent
          /\ proc'[p].key = proc[p].key
      BY Zenon, <1>2, GrantedEffect DEF IndInv
    <3>2. proc'[p].intent = proc[p].intent  BY Zenon, <1>2, GrantedItem DEF IndInv
    <3> QED  BY <2>1, <3>1, <3>2
  <2>2. CASE o # p
    <3>1. \A x \in Procs \ {p} : proc'[x] = proc[x]
      BY Zenon, <1>2, GrantedEffect DEF IndInv
    <3>2. proc'[o] = proc[o]  BY <2>2, <3>1
    <3> QED  BY <1>1, <1>2, <3>2
  <2> QED  BY <2>1, <2>2
<1>3. ASSUME NEW o \in Procs, InFlight(o)', NEW p \in Procs, Dispatch(p)
      PROVE  proc'[o].intent = lease'[proc'[o].key].intent
  <2>1. InFlight(p)  BY <1>3 DEF Dispatch, InFlight
  <2>2. proc[p] \in Request  BY <2>1, RequestType DEF InFlight, IndInv
  <2>3. proc' = [proc EXCEPT ![p].pc = "executing"] /\ lease' = lease  BY <1>3 DEF Dispatch
  <2>4. proc'[o].intent = proc[o].intent /\ proc'[o].key = proc[o].key
    BY <2>2, <2>3 DEF IndInv, TypeOK, Request
  <2>5. InFlight(o)
    BY <1>3, <2>1, <2>3 DEF InFlight, IndInv, TypeOK
  <2> QED  BY <2>3, <2>4, <2>5 DEF HoldInv, HandlersKeepIntent
<1>4. ASSUME NEW o \in Procs, InFlight(o)',
             \/ (\E p \in Procs : Done(p)) \/ proc' = proc
             \/ Quiet
             \/ \E p \in Procs : ClaimAwaitsApproval(p) \/ WorkMoved(p)
             \/ \E w \in Works, accepted \in BOOLEAN : Review(w, accepted)
             \/ \E ap \in Approvals, approved \in BOOLEAN : ResolveApproval(ap, approved)
      PROVE  proc'[o].intent = lease'[proc'[o].key].intent
  <2>1. proc'[o].pc \in {"claimed", "executing"}  BY <1>4 DEF InFlight
  <2>2. proc'[o] = proc[o]  BY Zenon, <1>4, <2>1, DoneShape, Untouched DEF IndInv
  <2> QED  BY <1>1, <1>4, <2>2
<1>5. ASSUME \/ \E p \in Procs : ClaimBlocked(p) \/ MarkUncertain(p)
             \/ \E j \in Keys, action \in ControlActions : RequestControl(j, action)
      PROVE  (\E p \in Procs : Done(p)) \/ proc' = proc
  BY Zenon, <1>5, LeaseEffect DEF IndInv
<1>6. ASSUME NEW p \in Procs, Conclusion(p)  PROVE Done(p)
  BY Zenon, <1>6, ConclusionEffect DEF IndInv
<1>7. ASSUME NEW k \in Keys, Recover(k)  PROVE proc' = proc  BY <1>7 DEF Recover
<1>8. ASSUME NEW o \in Procs, InFlight(o)'
      PROVE  proc'[o].intent = lease'[proc'[o].key].intent
  BY Zenon, StepShapes, <1>2, <1>3, <1>4, <1>5, <1>6, <1>7, <1>8 DEF IndInv
<1> QED  BY <1>8 DEF HandlersKeepIntent

\* A lease is created by the claim of its key only.
LEMMA GrantedByClaim ==
  ASSUME IndInv, [Next]_vars, NEW k \in Keys, lease'[k].state # "none", lease[k].state = "none"
  PROVE  \E p \in Procs : ClaimGranted(p) /\ proc[p].key = k
<1>1. ~LeasesKept  BY DEF LeasesKept, LeaseKeptOrLost
<1>2. ASSUME NEW p \in Procs, ClaimGranted(p)  PROVE proc[p].key = k
  <2>1. OthersKept(proc[p].key)  BY Zenon, <1>2, GrantedEffect DEF IndInv
  <2> QED  BY <2>1 DEF OthersKept
<1>3. ASSUME NEW j \in Keys, Settled(j)  PROVE FALSE
  BY <1>3 DEF Settled, OthersKept, Active, ActiveLeaseStates
<1> QED  BY Zenon, RowShapes, <1>1, <1>2, <1>3

\* ReservedWithSelected is kept: reservations are settled, never dropped.
LEMMA ReservedStep ==
  ASSUME IndInv, HoldInv, [Next]_vars
  PROVE  ReservedWithSelected'
<1>1. ASSUME NEW k \in Keys, NEW b \in Budgets, resv[k][b] # "none"  PROVE resv'[k][b] # "none"
  <2>1. CASE LeasesKept  BY <1>1, <2>1 DEF LeasesKept
  <2>2. ASSUME NEW p \in Procs, ClaimGranted(p)  PROVE resv'[k] = resv[k]
    <3>1. lease[proc[p].key].state = "none" /\ OthersKept(proc[p].key)
      BY Zenon, <2>2, GrantedEffect DEF IndInv
    <3>2. lease[k].state # "none"  BY <1>1 DEF IndInv, MoneyFollowsRuns
    <3> QED  BY <3>1, <3>2 DEF OthersKept
  <2>3. ASSUME NEW j \in Keys, Settled(j)  PROVE resv'[k][b] # "none"
    BY <1>1, <2>3 DEF Settled, Charged, OthersKept
  <2> QED  BY Zenon, RowShapes, <1>1, <2>1, <2>2, <2>3
<1>2. ASSUME NEW k \in Keys, lease'[k].state # "none", NEW b \in Selected(lease'[k].intent)
       PROVE  resv'[k][b] # "none"
  <2>0. b \in Budgets  BY DEF Selected
  <2>1. CASE lease[k].state # "none"
    <3>1. lease'[k].intent = lease[k].intent  BY Zenon, <2>1, IntentsStay
    <3>2. resv[k][b] # "none"
      BY Zenon, <1>2, <2>1, <3>1 DEF HoldInv, ReservedWithSelected
    <3> QED  BY <1>1, <2>0, <3>2
  <2>2. CASE lease[k].state = "none"
    <3>2. PICK p \in Procs : ClaimGranted(p) /\ proc[p].key = k
      BY Zenon, <1>2, <2>2, GrantedByClaim
    <3>3. lease'[k].intent = proc[p].intent  BY Zenon, <3>2, GrantedEffect DEF IndInv
    <3>4. resv'[k][b] = "reserved"
      BY Zenon, <1>2, <2>0, <3>2, <3>3, GrantedItem DEF IndInv
    <3> QED  BY <3>4
  <2> QED  BY <2>1, <2>2
<1> QED  BY <1>2 DEF ReservedWithSelected

\* A run is closed together with its lease.
LEMMA ClosedWithLease ==
  ASSUME IndInv, [Next]_vars, NEW k \in Keys, OpenRun(k), ~OpenRun(k)'
  PROVE  ~Active(k)'
<1>1. ~LeasesKept  BY DEF LeasesKept, OpenRun
<1>2. ASSUME NEW p \in Procs, ClaimGranted(p)  PROVE FALSE
  <2>1. /\ run'[proc[p].key] = [status |-> "running", business |-> FALSE]
        /\ OthersKept(proc[p].key)
    BY Zenon, <1>2, GrantedEffect DEF IndInv
  <2> QED  BY <2>1 DEF OthersKept, OpenRun
<1>3. ASSUME NEW j \in Keys, Settled(j)  PROVE ~Active(k)'
  BY <1>3 DEF Settled, OthersKept, OpenRun, Active, ActiveLeaseStates, TerminalLeaseStates
<1> QED  BY Zenon, RowShapes, <1>1, <1>2, <1>3

\* Only mark_uncertain reopens a lease that was settled.
LEMMA ReopenedByLateAnswer ==
  ASSUME IndInv, [Next]_vars, NEW k \in Keys, lease[k].state # "none", ~Active(k), Active(k)'
  PROVE  \E p \in Procs : MarkUncertain(p) /\ proc[p].key = k
<1> USE DEF Active
<1>1. lease'[k] # lease[k]  OBVIOUS
<1>2. ASSUME NEW p \in Procs, ClaimGranted(p)  PROVE FALSE
  BY Zenon, <1>1, <1>2, GrantedEffect DEF IndInv, OthersKept
<1>3. ASSUME NEW p \in Procs, Conclusion(p)  PROVE FALSE
  <2>1. lease[proc[p].key].state = "running" /\ OthersKept(proc[p].key)
    BY Zenon, <1>3, ConclusionEffect DEF IndInv
  <2> QED  BY <1>1, <2>1 DEF OthersKept, ActiveLeaseStates
<1>4. ASSUME NEW j \in Keys, Recover(j)  PROVE FALSE
  BY Zenon, <1>1, <1>4, RecoverEffect DEF IndInv, OthersKept
<1>5. ASSUME NEW p \in Procs, ClaimBlocked(p)  PROVE FALSE
  <2>1. PICK j \in Blocking(proc[p]) :
          lease' = IF lease[j].state = "running" /\ Expired(j)
                   THEN [lease EXCEPT ![j].state = "recovery_required"] ELSE lease
    BY Zenon, <1>5 DEF ClaimBlocked
  <2>2. j # k  BY <1>1, <2>1 DEF ActiveLeaseStates
  <2> QED  BY <1>1, <2>1, <2>2 DEF IndInv, TypeOK
<1>6. ASSUME NEW p \in Procs, MarkUncertain(p), proc[p].key # k  PROVE FALSE
  BY <1>1, <1>6 DEF MarkUncertain, IndInv, TypeOK
<1>7. ASSUME NEW j \in Keys, NEW action \in ControlActions, RequestControl(j, action)  PROVE FALSE
  <2>1. j # k  BY <1>7 DEF RequestControl, ActiveLeaseStates
  <2> QED  BY <1>1, <1>7, <2>1 DEF RequestControl, IndInv, TypeOK
<1>8. ASSUME \/ Quiet
             \/ \E p \in Procs : ClaimAwaitsApproval(p) \/ WorkMoved(p)
             \/ \E w \in Works, accepted \in BOOLEAN : Review(w, accepted)
             \/ \E ap \in Approvals, approved \in BOOLEAN : ResolveApproval(ap, approved)
      PROVE  FALSE
  BY Zenon, <1>1, <1>8, Untouched DEF IndInv
<1>9. ASSUME NEW p \in Procs, Dispatch(p)  PROVE FALSE  BY <1>1, <1>9 DEF Dispatch
<1> QED  BY Zenon, StepShapes, <1>2, <1>3, <1>4, <1>5, <1>6, <1>7, <1>8, <1>9 DEF IndInv

\* ReopenedIsHttp is kept.
LEMMA ReopenedStep ==
  ASSUME IndInv, HoldInv, [Next]_vars
  PROVE  ReopenedIsHttp'
<1>1. SUFFICES ASSUME NEW k \in Keys, Active(k)', ~OpenRun(k)'
               PROVE  Adapter[lease'[k].intent.cfg] = "http"
  BY DEF ReopenedIsHttp
<1>2. CASE lease[k].state = "none"
  <2>1. lease'[k].state # "none"  BY <1>1 DEF Active, ActiveLeaseStates
  <2>2. PICK p \in Procs : ClaimGranted(p) /\ proc[p].key = k
    BY Zenon, <1>2, <2>1, GrantedByClaim
  <2>3. run'[k] = [status |-> "running", business |-> FALSE]
    BY Zenon, <2>2, GrantedEffect DEF IndInv
  <2> QED  BY <1>1, <2>3 DEF OpenRun
<1>3. CASE lease[k].state # "none"
  <2>1. lease'[k].intent = lease[k].intent  BY Zenon, <1>3, IntentsStay
  <2>2. CASE Active(k)
    <3>1. ~OpenRun(k)  BY Zenon, <1>1, ClosedWithLease
    <3> QED  BY <2>1, <2>2, <3>1 DEF HoldInv, ReopenedIsHttp
  <2>3. CASE ~Active(k)
    <3>1. PICK p \in Procs : MarkUncertain(p) /\ proc[p].key = k
      BY Zenon, <1>1, <1>3, <2>3, ReopenedByLateAnswer
    <3>2. InFlight(p) /\ Adapter[proc[p].intent.cfg] = "http"
      BY <3>1 DEF MarkUncertain, Executing, InFlight
    <3>3. proc[p].intent = lease[k].intent
      BY <3>1, <3>2 DEF HoldInv, HandlersKeepIntent
    <3> QED  BY <2>1, <3>2, <3>3
  <2> QED  BY <2>2, <2>3
<1> QED  BY <1>2, <1>3

\* OneOpenRun is kept: the claim finds the lease of an open run on its resource.
LEMMA OneOpenStep ==
  ASSUME IndInv, HoldInv, [Next]_vars
  PROVE  OneOpenRun'
<1>1. ASSUME NEW j \in Keys, NEW k \in Keys, OpenRun(j)', OpenRun(k),
             Resource(lease'[j].intent) = Resource(lease'[k].intent)
      PROVE  j = k
  <2>0. Active(k) /\ lease[k].state # "none"  BY Zenon, <1>1, OpenRunIsActive
  <2>1. lease'[k].intent = lease[k].intent  BY Zenon, <2>0, IntentsStay
  <2>2. CASE OpenRun(j)
    <3>1. lease[j].state # "none"  BY Zenon, <2>2, OpenRunIsActive
    <3>2. lease'[j].intent = lease[j].intent  BY Zenon, <3>1, IntentsStay
    <3> QED  BY Zenon, <1>1, <2>1, <2>2, <3>2 DEF HoldInv, OneOpenRun
  <2>3. CASE ~OpenRun(j)
    <3>1. PICK p \in Procs : ClaimGranted(p) /\ proc[p].key = j
      BY Zenon, <1>1, <2>3, OpenedByClaim
    <3>2. lease'[j].intent = proc[p].intent  BY Zenon, <3>1, GrantedEffect DEF IndInv
    <3>3. ActiveOn(Resource(proc[p].intent)) = {}
      BY <3>1, GrantedItem DEF IndInv, Admissible
    <3>4. k \in ActiveOn(Resource(proc[p].intent))
      BY <1>1, <2>0, <2>1, <3>2 DEF ActiveOn
    <3> QED  BY <3>3, <3>4
  <2> QED  BY <2>2, <2>3
<1>2. ASSUME NEW j \in Keys, NEW k \in Keys, OpenRun(j)', OpenRun(k)', ~OpenRun(j), ~OpenRun(k)
      PROVE  j = k
  <2>1. PICK p \in Procs : ClaimGranted(p) /\ proc[p].key = j
    BY Zenon, <1>2, OpenedByClaim
  <2>2. OthersKept(j)  BY Zenon, <2>1, GrantedEffect DEF IndInv
  <2> QED  BY <1>2, <2>2 DEF OthersKept, OpenRun
<1>3. SUFFICES ASSUME NEW j \in Keys, NEW k \in Keys, OpenRun(j)', OpenRun(k)',
                      Resource(lease'[j].intent) = Resource(lease'[k].intent)
               PROVE  j = k
  BY DEF OneOpenRun, Resource
<1> QED  BY Zenon, <1>1, <1>2, <1>3

\* OpenRunHoldsItem is kept.
LEMMA OpenRunStep ==
  ASSUME IndInv, HoldInv, [Next]_vars
  PROVE  OpenRunHoldsItem'
<1>1. SUFFICES ASSUME NEW k \in Keys, OpenRun(k)', lease'[k].intent.work # None
               PROVE  /\ latest'[lease'[k].intent.work] = k
                      /\ \/ work'[lease'[k].intent.work].status = "running"
                         \/ /\ ~HttpIsCovered
                            /\ work'[lease'[k].intent.work].status = "failed"
  BY DEF OpenRunHoldsItem, HttpIsCovered, Selected
<1>2. CASE OpenRun(k)
  <2> DEFINE w == lease[k].intent.work
  <2>1. lease[k].state # "none" /\ w \in Works \cup {None}  BY Zenon, <1>2, OpenRunIsActive
  <2>2. lease'[k].intent = lease[k].intent  BY Zenon, <2>1, IntentsStay
  <2>3. w \in Works  BY <1>1, <2>1, <2>2
  <2>4. /\ latest'[w] = latest[w]
        /\ \/ work'[w].status = work[w].status
           \/ ~HttpIsCovered /\ work'[w].status = "failed"
    BY Zenon, <1>1, <1>2, <2>3, ItemKept
  <2>5. /\ latest[w] = k
        /\ work[w].status = "running" \/ (~HttpIsCovered /\ work[w].status = "failed")
    BY Zenon, <1>1, <1>2, <2>2 DEF HoldInv, OpenRunHoldsItem
  <2> QED  BY Zenon, <2>2, <2>4, <2>5
<1>3. CASE ~OpenRun(k)
  <2>1. PICK p \in Procs : ClaimGranted(p) /\ proc[p].key = k
    BY Zenon, <1>1, <1>3, OpenedByClaim
  <2>2. lease'[k].intent = proc[p].intent /\ proc[p].intent \in Intent
    BY Zenon, <2>1, GrantedEffect DEF IndInv
  <2>3. proc[p].intent.work \in Works  BY <1>1, <2>2 DEF Intent
  <2>4. work'[proc[p].intent.work].status = "running" /\ latest'[proc[p].intent.work] = k
    BY Zenon, <2>1, <2>3, GrantedItem DEF IndInv
  <2> QED  BY Zenon, <2>2, <2>4
<1> QED  BY <1>2, <1>3

\* HoldInv holds initially, and every step keeps it.
LEMMA InitHoldInv == Init => HoldInv
<1> SUFFICES ASSUME Init  PROVE HoldInv  OBVIOUS
<1>1. \A k \in Keys : lease[k].state = "none" /\ run[k].status = "none"
  BY DEF Init, NoLease, NoRun
<1>2. \A w \in Works : latest[w] = None  BY DEF Init
<1>3. \A p \in Procs : proc[p].pc = "idle"  BY DEF Init, Idle
<1>4. LatestOfItem  BY <1>2 DEF LatestOfItem
<1>5. HandlersKeepIntent  BY <1>3 DEF HandlersKeepIntent, InFlight
<1>6. ReservedWithSelected  BY <1>1 DEF ReservedWithSelected
<1>7. ReopenedIsHttp  BY <1>1 DEF ReopenedIsHttp, Active, ActiveLeaseStates
<1>8. OneOpenRun /\ OpenRunHoldsItem  BY <1>1 DEF OneOpenRun, OpenRunHoldsItem, OpenRun
<1> QED  BY <1>4, <1>5, <1>6, <1>7, <1>8 DEF HoldInv

(* Every step keeps HoldInv: what a lease holds, and which runs are still open. *)
LEMMA HoldInvStep == IndInv /\ HoldInv /\ [Next]_vars => HoldInv'
BY LatestStep, HandlersIntentStep, ReservedStep, ReopenedStep, OneOpenStep, OpenRunStep DEF HoldInv

\* The inductive invariant of what an execution holds.
THEOREM HoldInvariance == Spec => []HoldInv
BY InitHoldInv, HoldInvStep, Invariance, PTL DEF Spec

\* RunningLeaseHoldsWork, for every company whose HTTP executions are charged to some
\* policy: an execution under a valid lease has its work item, however claims, status
\* commands, reviews, replays, late answers and recoveries are interleaved.
THEOREM LeaseHoldsWork == HttpIsCovered => (Spec => []RunningLeaseHoldsWork)
<1>1. SUFFICES ASSUME HttpIsCovered  PROVE Spec => []RunningLeaseHoldsWork  OBVIOUS
<1>2. IndInv /\ HoldInv => RunningLeaseHoldsWork
  <2>1. SUFFICES ASSUME IndInv, HoldInv, NEW k \in Keys, lease[k].state = "running",
                        lease[k].intent.work # None
                 PROVE  /\ work[lease[k].intent.work].status = "running"
                        /\ latest[lease[k].intent.work] = k
    BY DEF RunningLeaseHoldsWork
  <2>2. OpenRun(k)  BY <2>1 DEF IndInv, RunsFollowLeases, OpenRun
  <2> QED  BY Zenon, <1>1, <2>1, <2>2 DEF HoldInv, OpenRunHoldsItem
<1> QED  BY <1>2, HoldInvariance, Invariance, PTL

\* A run whose executor was lost can be reconciled: once its lease has expired, recover
\* finds its reservations unsettled and may fail its work item.
OpenRunIsRecoverable ==
  \A k \in Keys : OpenRun(k) =>
    /\ Active(k)
    /\ \A b \in Budgets : resv[k][b] # "settled"
    /\ lease[k].intent.work # None =>
         CanTransition(work[lease[k].intent.work].status, "failed")

\* OpenRunIsRecoverable holds without any assumption on adapters and policies: no order
\* of steps strands a run that is still open.
THEOREM OpenRunsAreRecoverable == Spec => []OpenRunIsRecoverable
<1>1. IndInv /\ HoldInv => OpenRunIsRecoverable
  <2>1. SUFFICES ASSUME IndInv, HoldInv, NEW k \in Keys, OpenRun(k)
                 PROVE  /\ Active(k)
                        /\ \A b \in Budgets : resv[k][b] # "settled"
                        /\ lease[k].intent.work # None =>
                             CanTransition(work[lease[k].intent.work].status, "failed")
    BY DEF OpenRunIsRecoverable
  <2>2. Active(k)  BY Zenon, <2>1, OpenRunIsActive
  <2>3. \A b \in Budgets : resv[k][b] # "settled"
    BY <2>1 DEF IndInv, MoneyFollowsRuns, OpenRun
  <2>4. ASSUME lease[k].intent.work # None
        PROVE  CanTransition(work[lease[k].intent.work].status, "failed")
    <3>1. work[lease[k].intent.work].status \in {"running", "failed"}
      BY Zenon, <2>1, <2>4 DEF HoldInv, OpenRunHoldsItem
    <3> QED  BY Zenon, <3>1 DEF CanTransition, VALID_TRANSITIONS, WorkItemStatus
  <2> QED  BY <2>2, <2>3, <2>4
<1> QED  BY <1>1, HoldInvariance, Invariance, PTL

\* AbandonedIsRecoverable, for every company without HTTP adapters: only a late
\* uncertain answer over HTTP can reopen a lease that recover then refuses.
THEOREM AbandonedAreRecoverable ==
  (\A c \in Cfgs : Adapter[c] # "http") => (Spec => []AbandonedIsRecoverable)
<1>1. SUFFICES ASSUME \A c \in Cfgs : Adapter[c] # "http"
               PROVE  Spec => []AbandonedIsRecoverable
  OBVIOUS
<1>2. IndInv /\ HoldInv /\ OpenRunIsRecoverable => AbandonedIsRecoverable
  <2>1. SUFFICES ASSUME IndInv, HoldInv, OpenRunIsRecoverable, NEW k \in Keys, Active(k)
                 PROVE  OpenRun(k)
    BY DEF AbandonedIsRecoverable, OpenRunIsRecoverable
  <2>2. lease[k].state # "none"  BY <2>1 DEF Active, ActiveLeaseStates
  <2>3. lease[k] \in LeaseRow  BY <2>1, <2>2, LeaseType DEF IndInv
  <2>4. lease[k].intent.cfg \in Cfgs  BY <2>3 DEF LeaseRow, Intent
  <2> QED  BY <1>1, <2>1, <2>4 DEF HoldInv, ReopenedIsHttp
<1> QED  BY <1>2, HoldInvariance, Invariance, OpenRunsAreRecoverable, PTL

-----------------------------------------------------------------------------
(* The dependencies of a work item                                         *)

\* A work item was delivered by some run of its own.
Delivered(d) ==
  \E k \in Keys : /\ lease[k].state # "none"
                  /\ lease[k].intent.work = d
                  /\ run[k] = [status |-> "succeeded", business |-> TRUE]

\* A delivered item stays delivered, and a completed one is delivered.
LEMMA DeliveredStays ==
  ASSUME IndInv, [Next]_vars, NEW d \in Works, Delivered(d)
  PROVE  Delivered(d)'
<1>1. PICK k \in Keys : /\ lease[k].state # "none"
                        /\ lease[k].intent.work = d
                        /\ run[k] = [status |-> "succeeded", business |-> TRUE]
  BY DEF Delivered
<1>2. lease'[k].state # "none" /\ lease'[k].intent = lease[k].intent
  BY Zenon, <1>1, IntentsStay
<1>3. run[k].status \notin {"none", "running"}  BY <1>1
<1>4. run'[k] = run[k]  BY Zenon, <1>3, RunsStay
<1> QED  BY <1>1, <1>2, <1>4 DEF Delivered

(* A work item that is completed has a delivered result: the status is written when
   the acceptance of its latest run is. *)
LEMMA CompletedIsDelivered ==
  ASSUME IndInv, HoldInv, NEW d \in Works, work[d].status = "completed"
  PROVE  Delivered(d)
<1>1. Accepted(d)  BY DEF IndInv, AcceptancesHold
<1>2. latest[d] # None /\ work[d].acceptance = latest[d] /\ latest[d] \in Keys
  BY <1>1 DEF Accepted, IndInv, TypeOK
<1>3. run[latest[d]] = [status |-> "succeeded", business |-> TRUE]
  BY Zenon, <1>2 DEF IndInv, AcceptancesHold
<1>4. lease[latest[d]].state # "none" /\ lease[latest[d]].intent.work = d
  BY Zenon, <1>2 DEF HoldInv, LatestOfItem
<1> QED  BY <1>2, <1>3, <1>4 DEF Delivered

\* Every dependency of a work item that was ever executed is delivered.
DependenciesDelivered ==
  \A w \in Works : latest[w] # None => \A d \in Deps[w] : Delivered(d)

(* A work item gets its first run only when each of its dependencies is delivered, and
   a delivered item stays so. *)
LEMMA DependenciesStep ==
  ASSUME IndInv, HoldInv, DependenciesDelivered, [Next]_vars
  PROVE  DependenciesDelivered'
<1>1. SUFFICES ASSUME NEW w \in Works, latest'[w] # None, NEW d \in Deps[w]
               PROVE  Delivered(d)'
  BY DEF DependenciesDelivered
<1>2. d \in Works  BY ConstantsAssumption
<1>3. CASE latest'[w] = latest[w]
  <2>1. Delivered(d)  BY Zenon, <1>1, <1>3 DEF DependenciesDelivered
  <2> QED  BY Zenon, <1>2, <2>1, DeliveredStays
<1>4. ASSUME NEW p \in Procs, ClaimGranted(p), latest'[w] # latest[w]  PROVE Delivered(d)'
  <2>1. proc[p].intent.work = w  BY Zenon, <1>4, GrantedItem DEF IndInv
  <2>2. Admissible(proc[p])  BY Zenon, <1>4, GrantedItem DEF IndInv
  <2>3. w # None  BY ConstantsAssumption
  <2>4. work[d].status = "completed"  BY <2>1, <2>2, <2>3 DEF Admissible
  <2>5. Delivered(d)  BY Zenon, <1>2, <2>4, CompletedIsDelivered
  <2> QED  BY Zenon, <1>2, <2>5, DeliveredStays
<1> QED  BY <1>3, <1>4, LatestMoves

\* StartedAfterDependencies: whatever happens between a request and its claim, a work
\* item is executed only after every dependency was delivered by a run of its own.
THEOREM DependenciesComeFirst == Spec => []StartedAfterDependencies
<1>1. Init => DependenciesDelivered  BY DEF Init, DependenciesDelivered
<1>2. IndInv /\ HoldInv /\ DependenciesDelivered /\ [Next]_vars => DependenciesDelivered'
  BY DependenciesStep
<1>3. IndInv /\ DependenciesDelivered => StartedAfterDependencies
  <2>1. SUFFICES ASSUME IndInv, DependenciesDelivered
                 PROVE  StartedAfterDependencies
    OBVIOUS
  <2>2. \A k \in Keys : lease[k].state # "none" => lease[k] # NoLease  BY DEF NoLease
  <2> QED  BY Zenon, <2>1, <2>2 DEF DependenciesDelivered, Delivered, StartedAfterDependencies
<1> QED  BY <1>1, <1>2, <1>3, HoldInvariance, Invariance, PTL DEF Spec
=============================================================================
