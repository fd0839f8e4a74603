---------------------- MODULE ExecutionGovernanceSteps ----------------------
(***************************************************************************)
(* Every step of ExecutionGovernance keeps the inductive invariant, so     *)
(* that it holds in every reachable state, and what follows from it: the   *)
(* theorems about leases, runs, charges, acceptances and approvals, for    *)
(* every set of work items, agents, keys, handlers, budgets and approvals. *)
(***************************************************************************)
EXTENDS ExecutionGovernanceInvariant

-----------------------------------------------------------------------------
(* Each part of the invariant is kept                                      *)

\* A step that writes no table of an execution: it moves a work item, asks for or
\* resolves an approval, reviews, or is quiet.
LEMMA Untouched ==
  ASSUME TypeOK,
         \/ Quiet
         \/ \E p \in Procs : ClaimAwaitsApproval(p) \/ WorkMoved(p)
         \/ \E w \in Works, accepted \in BOOLEAN : Review(w, accepted)
         \/ \E ap \in Approvals, approved \in BOOLEAN : ResolveApproval(ap, approved)
  PROVE  /\ UNCHANGED <<latest, lease, resv, usage, run, effects>>
         /\ \A p \in Procs : proc'[p].pc \in {"claimed", "executing"} => proc'[p] = proc[p]
BY Zenon, DoneShape DEF Quiet, ClaimAwaitsApproval, WorkMoved, Review, ResolveApproval

\* HandlersOwnKeys is kept.
LEMMA HandlersStep ==
  ASSUME IndInv, TypeOK', [Next]_vars
  PROVE  HandlersOwnKeys'
<1> USE DEF InFlight
<1>1. CASE \/ Quiet
           \/ \E p \in Procs : ClaimAwaitsApproval(p) \/ WorkMoved(p)
           \/ \E w \in Works, accepted \in BOOLEAN : Review(w, accepted)
           \/ \E ap \in Approvals, approved \in BOOLEAN : ResolveApproval(ap, approved)
  <2>1. /\ UNCHANGED <<latest, lease, resv, usage, run, effects>>
        /\ \A p \in Procs : proc'[p].pc \in {"claimed", "executing"} => proc'[p] = proc[p]
    BY <1>1, Untouched DEF IndInv
  <2> QED  BY <2>1 DEF IndInv, HandlersOwnKeys
<1>2. CASE \/ \E p \in Procs : ClaimBlocked(p) \/ MarkUncertain(p)
           \/ \E k \in Keys, action \in ControlActions : RequestControl(k, action)
  <2>1. /\ effects' = effects
        /\ \A k \in Keys : LeaseKeptOrLost(k)
        /\ (\E p \in Procs : Done(p)) \/ proc' = proc
    BY <1>2, LeaseEffect DEF IndInv
  <2>2. \A p \in Procs : proc'[p].pc \in {"claimed", "executing"} => proc'[p] = proc[p]
    BY <2>1, DoneShape DEF IndInv
  <2>3. \A p \in Procs : InFlight(p) => proc[p].key \in Keys
    BY RequestType DEF IndInv, Request
  <2> QED  BY <2>1, <2>2, <2>3 DEF IndInv, HandlersOwnKeys, LeaseKeptOrLost
<1>3. ASSUME NEW p \in Procs, ClaimGranted(p)  PROVE HandlersOwnKeys'
  <2> DEFINE k == proc[p].key
  <2>1. /\ k \in Keys
        /\ lease[k].state = "none" /\ lease'[k].state = "running"
        /\ OthersKept(k) /\ effects' = effects
        /\ proc'[p].pc = "claimed" /\ proc'[p].key = k
        /\ \A o \in Procs \ {p} : proc'[o] = proc[o]
    BY <1>3, GrantedEffect DEF IndInv
  <2>2. effects[k] = 0  BY <2>1 DEF IndInv, RunsFollowLeases
  <2>3. \A o \in Procs : InFlight(o) => proc[o].key # k /\ proc[o].key \in Keys
    BY Zenon, <2>1, RequestType DEF IndInv, HandlersOwnKeys, Request
  <2> HIDE DEF k
  <2>4. ASSUME NEW o \in Procs, InFlight(o)'
        PROVE  /\ lease'[proc'[o].key].state \in {"running", "recovery_required", "failed"}
               /\ proc'[o].pc = "claimed" => effects'[proc'[o].key] = 0
    <3>1. CASE o = p  BY <2>1, <2>2, <3>1
    <3>2. CASE o # p
      <4>1. proc'[o] = proc[o] /\ InFlight(o)  BY <2>1, <2>4, <3>2
      <4>2. lease'[proc[o].key] = lease[proc[o].key]  BY <2>1, <2>3, <4>1 DEF OthersKept
      <4> QED  BY <2>1, <4>1, <4>2 DEF IndInv, HandlersOwnKeys
    <3> QED  BY <3>1, <3>2
  <2>5. ASSUME NEW n \in Procs, NEW o \in Procs, InFlight(n)', InFlight(o)',
               proc'[o].key = proc'[n].key
        PROVE  o = n
    <3>1. \A m \in Procs \ {p} : InFlight(m)' => InFlight(m) /\ proc'[m].key # k
      BY <2>1, <2>3
    <3>2. CASE n # p /\ o # p
      <4>1. InFlight(n) /\ InFlight(o) /\ proc[o].key = proc[n].key  BY <2>1, <2>5, <3>2
      <4> QED  BY <4>1 DEF IndInv, HandlersOwnKeys
    <3> QED  BY <2>1, <2>5, <3>1, <3>2
  <2> QED  BY <2>4, <2>5 DEF HandlersOwnKeys
<1>4. ASSUME NEW p \in Procs, Dispatch(p)  PROVE HandlersOwnKeys'
  <2> DEFINE k == proc[p].key
  <2>1. proc[p] \in Request  BY <1>4, RequestType DEF Dispatch, IndInv
  <2>2. proc'[p] = [proc[p] EXCEPT !.pc = "executing"]  BY <1>4 DEF Dispatch, IndInv, TypeOK
  <2>3. InFlight(p) /\ proc'[p].pc = "executing" /\ proc'[p].key = k
    BY <1>4, <2>1, <2>2 DEF Request, Dispatch
  <2>4. \A o \in Procs \ {p} : proc'[o] = proc[o]  BY <1>4 DEF Dispatch, IndInv, TypeOK
  <2>5. lease' = lease /\ \A j \in Keys \ {k} : effects'[j] = effects[j]
    BY <1>4 DEF Dispatch, IndInv, TypeOK
  <2>6. \A o \in Procs \ {p} : InFlight(o) => proc[o].key # k /\ proc[o].key \in Keys
    BY <2>3, RequestType DEF IndInv, HandlersOwnKeys, Request
  <2> HIDE DEF k
  <2>7. ASSUME NEW o \in Procs, InFlight(o)'
        PROVE  /\ lease'[proc'[o].key].state \in {"running", "recovery_required", "failed"}
               /\ proc'[o].pc = "claimed" => effects'[proc'[o].key] = 0
    <3>1. InFlight(o) /\ proc'[o].key = proc[o].key  BY <2>3, <2>4, <2>7 DEF k
    <3>2. proc'[o].pc = "claimed" => o # p /\ proc[o].pc = "claimed"  BY <2>3, <2>4
    <3> QED  BY <2>5, <2>6, <3>1, <3>2 DEF IndInv, HandlersOwnKeys
  <2>8. ASSUME NEW n \in Procs, NEW o \in Procs, InFlight(n)', InFlight(o)',
               proc'[o].key = proc'[n].key
        PROVE  o = n
    <3>1. \A m \in Procs : InFlight(m)' => InFlight(m) /\ proc'[m].key = proc[m].key
      BY <2>3, <2>4 DEF k
    <3>2. InFlight(n) /\ InFlight(o) /\ proc[o].key = proc[n].key  BY <2>8, <3>1
    <3> QED  BY <3>2 DEF IndInv, HandlersOwnKeys
  <2> QED  BY <2>7, <2>8 DEF HandlersOwnKeys
<1>5. ASSUME NEW p \in Procs, Conclusion(p)  PROVE HandlersOwnKeys'
  <2> DEFINE k == proc[p].key
  <2>1. InFlight(p) /\ OthersKept(k) /\ effects' = effects /\ Done(p)
    BY Zenon, <1>5, ConclusionEffect DEF IndInv
  <2>2. \A o \in Procs : proc'[o].pc \in {"claimed", "executing"} => o # p /\ proc'[o] = proc[o]
    BY <2>1, DoneShape DEF IndInv
  <2>3. \A o \in Procs \ {p} : InFlight(o) => proc[o].key # k /\ proc[o].key \in Keys
    BY Zenon, <2>1, RequestType DEF IndInv, HandlersOwnKeys, Request
  <2> HIDE DEF k
  <2>4. \A o \in Procs : InFlight(o)' => /\ InFlight(o) /\ proc'[o] = proc[o]
                                        /\ lease'[proc[o].key] = lease[proc[o].key]
    BY Zenon, <2>1, <2>2, <2>3 DEF OthersKept
  <2> QED  BY <2>1, <2>4 DEF IndInv, HandlersOwnKeys
<1>6. ASSUME NEW k \in Keys, Recover(k)  PROVE HandlersOwnKeys'
  <2>1. lease'[k].state = "failed" /\ OthersKept(k) /\ effects' = effects /\ proc' = proc
    BY <1>6, RecoverEffect DEF IndInv
  <2>2. \A o \in Procs : InFlight(o) => proc[o].key \in Keys
    BY RequestType DEF IndInv, Request
  <2> QED  BY Zenon, <2>1, <2>2 DEF IndInv, HandlersOwnKeys, OthersKept
<1> QED  BY StepShapes, <1>1, <1>2, <1>3, <1>4, <1>5, <1>6 DEF IndInv

\* Every reservation of a lease is charged, once.
Charged(k) ==
  \A b \in Budgets :
    /\ resv[k][b] # "settled"
    /\ resv'[k][b] = IF resv[k][b] = "reserved" THEN "settled" ELSE resv[k][b]
    /\ Len(usage'[k][b]) =
         IF resv[k][b] = "reserved" THEN Len(usage[k][b]) + 1 ELSE Len(usage[k][b])

\* A lease is settled, by its runner or by an operator; an open run ends with it.
Settled(k) ==
  /\ Active(k)
  /\ lease'[k].state \in TerminalLeaseStates /\ lease'[k].intent = lease[k].intent
  /\ run[k].status = "running" =>
       /\ run'[k].status \in {"succeeded", "failed", "cancelled"}
       /\ run'[k].status = "succeeded" <=> lease'[k].state = "succeeded"
  /\ run[k].status # "running" => run'[k] = run[k] /\ lease'[k].state = "failed"
  /\ Charged(k)
  /\ OthersKept(k)
  /\ UNCHANGED <<latest, effects>>

\* No lease is granted or settled, and nothing else of an execution is written.
LeasesKept ==
  /\ \A k \in Keys : LeaseKeptOrLost(k)
  /\ UNCHANGED <<latest, resv, usage, run>>
  /\ effects' = effects \/ \E p \in Procs : Dispatch(p)

\* What a step does to the tables of executions: it grants a lease, settles one, or
\* keeps them.
LEMMA RowShapes ==
  ASSUME IndInv, [Next]_vars
  PROVE  LeasesKept \/ (\E p \in Procs : ClaimGranted(p)) \/ (\E k \in Keys : Settled(k))
<1>1. ASSUME NEW p \in Procs, Conclusion(p)  PROVE proc[p].key \in Keys /\ Settled(proc[p].key)
  <2> DEFINE k == proc[p].key
  <2>1. /\ k \in Keys
        /\ lease[k].state = "running"
        /\ lease'[k].state \in TerminalLeaseStates /\ lease'[k].intent = lease[k].intent
        /\ run'[k].status \in {"succeeded", "failed", "cancelled"}
        /\ run'[k].status = "succeeded" <=> lease'[k].state = "succeeded"
        /\ OthersKept(k) /\ effects' = effects
    BY Zenon, <1>1, ConclusionEffect DEF IndInv
  <2>2. Charged(k)  BY Zenon, <1>1, ConclusionEffect DEF IndInv, Charged
  <2>3. latest' = latest  BY <1>1 DEF Conclusion, Conclude
  <2> HIDE DEF k
  <2>4. Active(k) /\ run[k].status = "running"
    BY <2>1 DEF Active, ActiveLeaseStates, IndInv, RunsFollowLeases
  <2>5. Settled(k)  BY Zenon, <2>1, <2>2, <2>3, <2>4 DEF Settled
  <2> QED  BY <2>1, <2>5 DEF k
<1>2. ASSUME NEW k \in Keys, Recover(k)  PROVE Settled(k)
  <2>1. /\ Active(k)
        /\ lease'[k].state = "failed" /\ lease'[k].intent = lease[k].intent
        /\ run[k].status = "running" => run'[k].status = "failed"
        /\ run[k].status # "running" => run'[k] = run[k]
        /\ OthersKept(k) /\ effects' = effects
    BY Zenon, <1>2, RecoverEffect DEF IndInv
  <2>2. Charged(k)  BY Zenon, <1>2, RecoverEffect DEF IndInv, Charged
  <2>3. latest' = latest  BY <1>2 DEF Recover
  <2> QED  BY <2>1, <2>2, <2>3 DEF Settled, TerminalLeaseStates
<1>3. ASSUME \/ \E p \in Procs : ClaimBlocked(p) \/ MarkUncertain(p)
             \/ \E k \in Keys, action \in ControlActions : RequestControl(k, action)
      PROVE  LeasesKept
  BY Zenon, <1>3, LeaseEffect DEF IndInv, LeasesKept
<1>4. lease' = lease => \A k \in Keys : LeaseKeptOrLost(k)  BY DEF LeaseKeptOrLost
<1>5. ASSUME \/ Quiet
             \/ \E p \in Procs : ClaimAwaitsApproval(p) \/ WorkMoved(p)
             \/ \E w \in Works, accepted \in BOOLEAN : Review(w, accepted)
             \/ \E ap \in Approvals, approved \in BOOLEAN : ResolveApproval(ap, approved)
      PROVE  LeasesKept
  BY Zenon, <1>4, <1>5, Untouched DEF IndInv, LeasesKept
<1>6. ASSUME NEW p \in Procs, Dispatch(p)  PROVE LeasesKept
  BY Zenon, <1>4, <1>6 DEF Dispatch, LeasesKept
<1> QED  BY Zenon, StepShapes, <1>1, <1>2, <1>3, <1>5, <1>6 DEF IndInv

\* RunsFollowLeases is kept.
LEMMA RunsStep ==
  ASSUME IndInv, [Next]_vars
  PROVE  RunsFollowLeases'
<1>1. ASSUME LeasesKept, effects' = effects  PROVE RunsFollowLeases'
  BY <1>1 DEF LeasesKept, LeaseKeptOrLost, IndInv, RunsFollowLeases, Active, ActiveLeaseStates
<1>2. ASSUME NEW p \in Procs, ClaimGranted(p)  PROVE RunsFollowLeases'
  <2> DEFINE k == proc[p].key
  <2>1. /\ k \in Keys
        /\ lease[k].state = "none" /\ lease'[k].state = "running"
        /\ run'[k] = [status |-> "running", business |-> FALSE]
        /\ OthersKept(k) /\ effects' = effects
    BY Zenon, <1>2, GrantedEffect DEF IndInv
  <2>2. run'[k].status = "running"  BY <2>1
  <2> HIDE DEF k
  <2> QED  BY <2>1, <2>2 DEF IndInv, RunsFollowLeases, OthersKept, Active, ActiveLeaseStates
<1>3. ASSUME NEW p \in Procs, Dispatch(p)  PROVE RunsFollowLeases'
  <2> DEFINE k == proc[p].key
  <2>1. proc[p] \in Request  BY <1>3, RequestType DEF Dispatch, IndInv
  <2>2. k \in Keys  BY <2>1 DEF Request
  <2>3. effects[k] = 0 /\ lease[k].state # "none"
    BY <1>3 DEF Dispatch, IndInv, HandlersOwnKeys, InFlight
  <2>4. effects'[k] \in {0, 1}  BY <1>3, <2>2, <2>3 DEF Dispatch, IndInv, TypeOK
  <2>5. UNCHANGED <<lease, run>> /\ \A j \in Keys \ {k} : effects'[j] = effects[j]
    BY <1>3 DEF Dispatch, IndInv, TypeOK
  <2> HIDE DEF k
  <2> QED  BY <2>2, <2>3, <2>4, <2>5 DEF IndInv, RunsFollowLeases, Active
<1>4. ASSUME NEW k \in Keys, Settled(k)  PROVE RunsFollowLeases'
  BY <1>4 DEF Settled, IndInv, RunsFollowLeases, OthersKept, Active, ActiveLeaseStates,
              TerminalLeaseStates
<1> QED  BY Zenon, RowShapes, <1>1, <1>2, <1>3, <1>4 DEF LeasesKept

\* MoneyFollowsRuns is kept.
LEMMA MoneyStep ==
  ASSUME IndInv, [Next]_vars
  PROVE  MoneyFollowsRuns'
<1>1. ASSUME LeasesKept  PROVE MoneyFollowsRuns'
  BY <1>1 DEF LeasesKept, LeaseKeptOrLost, IndInv, MoneyFollowsRuns
<1>2. ASSUME NEW p \in Procs, ClaimGranted(p)  PROVE MoneyFollowsRuns'
  <2> DEFINE k == proc[p].key
  <2>1. /\ k \in Keys
        /\ lease[k].state = "none" /\ lease'[k].state = "running"
        /\ run'[k] = [status |-> "running", business |-> FALSE]
        /\ \A b \in Budgets : resv'[k][b] \in {"none", "reserved"}
        /\ OthersKept(k) /\ usage' = usage
    BY Zenon, <1>2, GrantedEffect DEF IndInv
  <2>2. run'[k].status = "running"  BY <2>1
  <2> HIDE DEF k
  <2> QED  BY <2>1, <2>2 DEF IndInv, MoneyFollowsRuns, OthersKept
<1>3. ASSUME NEW k \in Keys, Settled(k)  PROVE MoneyFollowsRuns'
  <2>1. ASSUME NEW j \in Keys, NEW b \in Budgets
        PROVE  /\ lease'[j].state = "none" => resv'[j][b] = "none"
               /\ run'[j].status = "running" => resv'[j][b] # "settled"
               /\ run'[j].status \in {"succeeded", "failed", "cancelled"} =>
                    resv'[j][b] # "reserved"
               /\ Len(usage'[j][b]) = IF resv'[j][b] = "settled" THEN 1 ELSE 0
    <3>1. Len(usage[j][b]) = IF resv[j][b] = "settled" THEN 1 ELSE 0
      BY DEF IndInv, MoneyFollowsRuns
    <3>2. CASE j = k
      <4>1. run'[k].status # "running" /\ lease'[k].state # "none"
        BY <1>3 DEF Settled, TerminalLeaseStates
      <4>2. resv'[k][b] # "reserved"  BY <1>3 DEF Settled, Charged
      <4>3. Len(usage'[k][b]) = IF resv'[k][b] = "settled" THEN 1 ELSE 0
        BY <1>3, <3>1, <3>2 DEF Settled, Charged
      <4> QED  BY Zenon, <3>2, <4>1, <4>2, <4>3
    <3>3. CASE j # k  BY <1>3, <3>3 DEF Settled, IndInv, MoneyFollowsRuns, OthersKept
    <3> QED  BY <3>2, <3>3
  <2> QED  BY <2>1 DEF MoneyFollowsRuns
<1> QED  BY Zenon, RowShapes, <1>1, <1>2, <1>3

\* OneRunningPerResource is kept: only a granted claim makes a lease running, and it
\* found no unsettled lease on its resource.
LEMMA OneRunningStep ==
  ASSUME IndInv, [Next]_vars
  PROVE  OneRunningPerResource'
<1>1. SUFFICES ASSUME NEW p \in Procs, ClaimGranted(p)  PROVE OneRunningPerResource'
  <2>1. CASE \A k \in Keys : lease'[k].state = "running" =>
               lease[k].state = "running" /\ lease'[k].intent = lease[k].intent
    BY <2>1 DEF IndInv, OneRunningPerResource, Resource
  <2>2. CASE LeasesKept  BY <2>1, <2>2 DEF LeasesKept, LeaseKeptOrLost
  <2>3. ASSUME NEW k \in Keys, Settled(k)  PROVE OneRunningPerResource'
    BY <2>1, <2>3 DEF Settled, OthersKept, TerminalLeaseStates
  <2> QED  BY Zenon, RowShapes, <1>1, <2>2, <2>3
<1> DEFINE k == proc[p].key
           i == proc[p].intent
<1>2. k \in Keys /\ lease'[k].intent = i /\ OthersKept(k)
  BY Zenon, <1>1, GrantedEffect DEF IndInv
<1>3. ActiveOn(Resource(i)) = {}  BY Zenon, <1>1 DEF ClaimGranted, Admissible
<1>4. \A j \in Keys : lease[j].state = "running" => Resource(lease[j].intent) # Resource(i)
  BY <1>3 DEF ActiveOn, Active, ActiveLeaseStates
<1> HIDE DEF k, i
<1>5. ASSUME NEW j \in Keys, NEW l \in Keys,
             lease'[j].state = "running", lease'[l].state = "running",
             Resource(lease'[j].intent) = Resource(lease'[l].intent)
      PROVE  j = l
  <2>1. CASE j # k /\ l # k
    BY Zenon, <1>2, <1>5, <2>1 DEF OthersKept, IndInv, OneRunningPerResource
  <2>2. CASE j = k /\ l # k  BY <1>2, <1>4, <1>5, <2>2 DEF OthersKept
  <2>3. CASE j # k /\ l = k  BY <1>2, <1>4, <1>5, <2>3 DEF OthersKept
  <2> QED  BY <2>1, <2>2, <2>3
<1> QED  BY <1>5 DEF OneRunningPerResource, Resource

\* A run that is over is never rewritten.
LEMMA RunsStay ==
  ASSUME IndInv, [Next]_vars
  PROVE  \A k \in Keys : run[k].status \notin {"none", "running"} => run'[k] = run[k]
<1>1. SUFFICES ASSUME NEW k \in Keys, run[k].status \notin {"none", "running"}
               PROVE  run'[k] = run[k]
  OBVIOUS
<1>2. CASE LeasesKept  BY <1>2 DEF LeasesKept
<1>3. ASSUME NEW p \in Procs, ClaimGranted(p)  PROVE run'[k] = run[k]
  <2>1. lease[proc[p].key].state = "none" /\ OthersKept(proc[p].key)
    BY Zenon, <1>3, GrantedEffect DEF IndInv
  <2>2. lease[k].state # "none"  BY <1>1 DEF IndInv, RunsFollowLeases
  <2> QED  BY <2>1, <2>2 DEF OthersKept
<1>4. ASSUME NEW j \in Keys, Settled(j)  PROVE run'[k] = run[k]
  BY <1>1, <1>4 DEF Settled, OthersKept
<1> QED  BY Zenon, RowShapes, <1>2, <1>3, <1>4

-----------------------------------------------------------------------------
(* Work items and approvals                                                *)

\* How a step may change a work item's acceptance and complete it.
WorkKept(w) ==
  /\ \/ work'[w].acceptance \in {work[w].acceptance, None}
     \/ /\ work'[w].acceptance = latest[w]
        /\ run[latest[w]].status = "succeeded" /\ run[latest[w]].business
  /\ work'[w].status = "completed" =>
       /\ work'[w].acceptance = work[w].acceptance
       /\ latest'[w] = latest[w]
       /\ work[w].status = "completed" \/ Accepted(w)

\* Replacing one work item's row.
LEMMA WorkReplaced ==
  ASSUME TypeOK, NEW w \in Works, NEW r, work' = [work EXCEPT ![w] = r],
         \A v \in Works \ {w} : latest'[v] = latest[v],
         \/ r.acceptance \in {work[w].acceptance, None}
         \/ /\ r.acceptance = latest[w]
            /\ run[latest[w]].status = "succeeded" /\ run[latest[w]].business,
         r.status = "completed" => /\ r.acceptance = work[w].acceptance
                                   /\ latest'[w] = latest[w]
                                   /\ work[w].status = "completed" \/ Accepted(w)
  PROVE  \A v \in Works : WorkKept(v)
BY DEF TypeOK, WorkKept

\* update_work_item_status writes a status and an owner.
LEMMA MutatedKept ==
  ASSUME TypeOK, NEW w \in Works, NEW target \in WorkItemStatus,
         NEW owner \in Agents \cup {None}, work' = Mutated(w, target, owner),
         target = "completed" => Accepted(w), latest' = latest
  PROVE  \A v \in Works : WorkKept(v)
<1> DEFINE o == IF owner = None THEN work[w].owner ELSE owner
           r == [work[w] EXCEPT !.status = target, !.owner = o]
<1>1. work[w] \in WorkRow  BY DEF TypeOK
<1>2. r.status = target /\ r.acceptance = work[w].acceptance  BY <1>1 DEF WorkRow
<1>3. work' = [work EXCEPT ![w] = r]  BY Zenon DEF Mutated, TypeOK
<1> HIDE DEF r
<1> QED  BY Zenon, <1>2, <1>3, WorkReplaced

\* Every step keeps work items in this sense.
LEMMA WorkEffect ==
  ASSUME TypeOK, HandlersOwnKeys, [Next]_vars
  PROVE  \A w \in Works : WorkKept(w)
<1>1. CASE work' = work /\ latest' = latest
  BY <1>1 DEF WorkKept
<1>2. ASSUME NEW p \in Procs, ClaimAwaitsApproval(p)  PROVE \A w \in Works : WorkKept(w)
  <2> DEFINE w == proc[p].intent.work
             r == [work[w] EXCEPT !.status = "awaiting_approval"]
  <2>1. latest' = latest  BY <1>2 DEF ClaimAwaitsApproval
  <2>2. w \in Works \cup {None}
    BY <1>2, RequestType DEF ClaimAwaitsApproval, Claiming, Request, Intent
  <2>3. CASE w \in Works
    <3>1. work[w] \in WorkRow /\ w # None  BY <2>3, ConstantsAssumption DEF TypeOK
    <3>2. r.status = "awaiting_approval" /\ r.acceptance = work[w].acceptance
      BY <3>1 DEF WorkRow
    <3>3. work' = [work EXCEPT ![w] = r]  BY <1>2, <2>3, <3>1 DEF ClaimAwaitsApproval, TypeOK
    <3> HIDE DEF r, w
    <3> QED  BY Zenon, <2>1, <2>3, <3>2, <3>3, WorkReplaced
  <2>4. CASE w = None  BY <1>1, <1>2, <2>1, <2>4 DEF ClaimAwaitsApproval
  <2> QED  BY <2>2, <2>3, <2>4
<1>3. ASSUME NEW p \in Procs, ClaimGranted(p)  PROVE \A w \in Works : WorkKept(w)
  <2> DEFINE w == proc[p].intent.work
             r == [work[w] EXCEPT !.status = "running", !.acceptance = None]
  <2>1. w \in Works \cup {None}
    BY Zenon, <1>3, RequestType DEF ClaimGranted, Claiming, Request, Intent
  <2>2. CASE w \in Works
    <3>1. work[w] \in WorkRow /\ w # None  BY <2>2, ConstantsAssumption DEF TypeOK
    <3>2. r.status = "running" /\ r.acceptance = None  BY <3>1 DEF WorkRow
    <3>3. work' = [work EXCEPT ![w] = r]  BY Zenon, <1>3, <2>2, <3>1 DEF ClaimGranted, TypeOK
    <3>4. \A v \in Works \ {w} : latest'[v] = latest[v]
      <4>1. latest' = [latest EXCEPT ![w] = proc[p].key]  BY Zenon, <1>3, <3>1 DEF ClaimGranted
      <4>2. latest \in [Works -> Keys \cup {None}]  BY DEF TypeOK
      <4> HIDE DEF w
      <4> QED  BY <4>1, <4>2
    <3> HIDE DEF r, w
    <3> QED  BY Zenon, <2>2, <3>2, <3>3, <3>4, WorkReplaced
  <2>3. CASE w = None  BY <1>1, <1>3, <2>3 DEF ClaimGranted
  <2> QED  BY <2>1, <2>2, <2>3
<1>4. ASSUME NEW p \in Procs, WorkMoved(p)  PROVE \A w \in Works : WorkKept(w)
  <2>1. PICK w \in Works, target \in WorkItemStatus, owner \in Agents \cup {None} :
          MutationAllowed(w, target) /\ work' = Mutated(w, target, owner)
    BY <1>4 DEF WorkMoved
  <2>2. latest' = latest /\ (target = "completed" => Accepted(w))
    BY <1>4, <2>1 DEF WorkMoved, MutationAllowed
  <2> QED  BY <2>1, <2>2, MutatedKept
<1>5. ASSUME NEW p \in Procs, Conclusion(p)  PROVE \A w \in Works : WorkKept(w)
  <2> DEFINE q == proc[p]
             w == q.intent.work
  <2>1. PICK target \in {"blocked", "failed", "cancelled"} :
          /\ InFlight(p) /\ latest' = latest
          /\ work' = IF q.kind = "run" THEN Mutated(w, target, q.intent.agent) ELSE work
    BY <1>5 DEF Conclusion, Conclude
  <2>2. q \in Request  BY <2>1, RequestType DEF InFlight
  <2>3. q.intent.agent \in Agents /\ w \in Works \cup {None}  BY <2>2 DEF Request, Intent
  <2>4. target \in WorkItemStatus /\ target # "completed"  BY DEF WorkItemStatus
  <2>5. CASE work' = Mutated(w, target, q.intent.agent) /\ w \in Works
    BY <2>1, <2>3, <2>4, <2>5, MutatedKept
  <2>6. CASE work' = Mutated(w, target, q.intent.agent) /\ w = None
    <3>1. w \notin Works  BY <2>6, ConstantsAssumption
    <3>2. work' = work  BY <2>6, <3>1 DEF Mutated, TypeOK
    <3> QED  BY <1>1, <2>1, <3>2
  <2> QED  BY <1>1, <2>1, <2>3, <2>5, <2>6
<1>6. ASSUME NEW k \in Keys, Recover(k)  PROVE \A w \in Works : WorkKept(w)
  <2> DEFINE w == lease[k].intent.work
             r == [work[w] EXCEPT !.status = "failed"]
  <2>1. latest' = latest  BY <1>6 DEF Recover
  <2>2. w \in Works \cup {None}
    BY <1>6, LeaseType DEF Recover, Active, ActiveLeaseStates, LeaseRow, Intent
  <2>3. CASE w \in Works
    <3>1. work[w] \in WorkRow /\ w # None  BY <2>3, ConstantsAssumption DEF TypeOK
    <3>2. r.status = "failed" /\ r.acceptance = work[w].acceptance  BY <3>1 DEF WorkRow
    <3>3. work' = [work EXCEPT ![w] = r]  BY <1>6, <2>3, <3>1 DEF Recover, TypeOK
    <3> HIDE DEF r, w
    <3> QED  BY Zenon, <2>1, <2>3, <3>2, <3>3, WorkReplaced
  <2>4. CASE w = None  BY <1>1, <1>6, <2>1, <2>4 DEF Recover
  <2> QED  BY <2>2, <2>3, <2>4
<1>7. ASSUME NEW w \in Works, NEW accepted \in BOOLEAN, Review(w, accepted)
      PROVE  \A v \in Works : WorkKept(v)
  <2> DEFINE a == IF accepted THEN latest[w] ELSE None
             r == [work[w] EXCEPT !.acceptance = a]
  <2>1. work[w] \in WorkRow  BY DEF TypeOK
  <2>2. r.status = work[w].status /\ r.acceptance = a  BY <2>1 DEF WorkRow
  <2>3. work' = [work EXCEPT ![w] = r]  BY <1>7 DEF Review, TypeOK
  <2>4. work[w].status # "completed"
    BY <1>7 DEF Review, ClosedStatuses, WORK_ITEM_CLOSE_STATUSES
  <2>5. latest' = latest /\ run[latest[w]].status = "succeeded" /\ run[latest[w]].business
    BY <1>7 DEF Review
  <2>6. a \in {latest[w], None}  OBVIOUS
  <2> HIDE DEF r, a
  <2> QED  BY Zenon, <2>2, <2>3, <2>4, <2>5, <2>6, WorkReplaced
<1>8. CASE \/ \E p \in Procs : ClaimBlocked(p) \/ MarkUncertain(p)
           \/ \E k \in Keys, action \in ControlActions : RequestControl(k, action)
  BY <1>1, <1>8, LeaseEffect
<1>9. CASE \/ Quiet \/ \E p \in Procs : Dispatch(p)
           \/ \E ap \in Approvals, approved \in BOOLEAN : ResolveApproval(ap, approved)
  BY <1>1, <1>9 DEF Quiet, Dispatch, ResolveApproval
<1> QED  BY StepShapes, <1>2, <1>3, <1>4, <1>5, <1>6, <1>7, <1>8, <1>9

\* AcceptancesHold is kept.
LEMMA AcceptancesStep ==
  ASSUME IndInv, TypeOK', [Next]_vars
  PROVE  AcceptancesHold'
<1> DEFINE good == [status |-> "succeeded", business |-> TRUE]
<1>1. \A w \in Works : WorkKept(w)  BY WorkEffect DEF IndInv
<1>2. \A k \in Keys : run[k] = good => run'[k] = good
  BY RunsStay
<1>3. \A k \in Keys : run[k].status = "succeeded" /\ run[k].business => run[k] = good
  <2>1. SUFFICES ASSUME NEW k \in Keys, run[k].status = "succeeded", run[k].business
                 PROVE  run[k] = good
    OBVIOUS
  <2>2. run[k] \in RunRow  BY <2>1, RunType DEF IndInv
  <2> QED  BY Zenon, <2>1, <2>2 DEF RunRow
<1> HIDE DEF good
<1>4. ASSUME NEW w \in Works, work'[w].acceptance # None
      PROVE  run'[work'[w].acceptance] = good
  <2>1. work'[w].acceptance \in Keys  BY <1>4 DEF TypeOK, WorkRow
  <2>2. CASE work'[w].acceptance = work[w].acceptance
    BY <1>2, <1>4, <2>1, <2>2 DEF IndInv, AcceptancesHold, good
  <2>3. CASE /\ work'[w].acceptance = latest[w]
             /\ run[latest[w]].status = "succeeded" /\ run[latest[w]].business
    BY <1>2, <1>3, <2>1, <2>3
  <2> QED  BY <1>1, <1>4, <2>2, <2>3 DEF WorkKept
<1>5. ASSUME NEW w \in Works, work'[w].status = "completed"  PROVE Accepted(w)'
  BY <1>1, <1>5 DEF WorkKept, IndInv, AcceptancesHold, Accepted
<1> QED  BY <1>4, <1>5 DEF AcceptancesHold, good

\* A step that leaves the approvals alone and every lease's intent.
LEMMA ApprovalsKept ==
  ASSUME IndInv, approval' = approval,
         \A k \in Keys : /\ lease'[k].state = "none" <=> lease[k].state = "none"
                         /\ lease[k].state # "none" => lease'[k].intent = lease[k].intent
  PROVE  ApprovalsHold'
<1>1. \A ap \in Approvals : approval[ap].status # "none" => approval[ap].key \in Keys
  <2>1. SUFFICES ASSUME NEW ap \in Approvals, approval[ap].status # "none"
                 PROVE  approval[ap].key \in Keys
    OBVIOUS
  <2>2. approval[ap] \in ApprovalRow  BY <2>1 DEF IndInv, TypeOK, NoApproval
  <2> QED  BY <2>2 DEF ApprovalRow
<1> QED  BY <1>1 DEF IndInv, ApprovalsHold, RequiresApproval

\* ApprovalsHold is kept.
LEMMA ApprovalsStep ==
  ASSUME IndInv, TypeOK', [Next]_vars
  PROVE  ApprovalsHold'
<1>1. CASE \/ Quiet
           \/ \E p \in Procs : WorkMoved(p) \/ Dispatch(p)
           \/ \E w \in Works, accepted \in BOOLEAN : Review(w, accepted)
  <2>1. UNCHANGED <<approval, lease>>  BY <1>1 DEF Quiet, WorkMoved, Dispatch, Review
  <2> QED  BY <2>1, ApprovalsKept
<1>2. CASE \/ \E p \in Procs : ClaimBlocked(p) \/ MarkUncertain(p)
           \/ \E k \in Keys, action \in ControlActions : RequestControl(k, action)
  <2>1. approval' = approval /\ \A k \in Keys : LeaseKeptOrLost(k)
    BY <1>2, LeaseEffect DEF IndInv
  <2> QED  BY <2>1, ApprovalsKept DEF LeaseKeptOrLost
<1>3. ASSUME NEW p \in Procs, Conclusion(p)  PROVE ApprovalsHold'
  <2>1. approval' = approval  BY <1>3 DEF Conclusion, Conclude
  <2>2. /\ lease[proc[p].key].state = "running"
        /\ lease'[proc[p].key].state \in TerminalLeaseStates
        /\ lease'[proc[p].key].intent = lease[proc[p].key].intent
        /\ OthersKept(proc[p].key)
    BY Zenon, <1>3, ConclusionEffect DEF IndInv
  <2> QED  BY <2>1, <2>2, ApprovalsKept DEF OthersKept, TerminalLeaseStates
<1>4. ASSUME NEW k \in Keys, Recover(k)  PROVE ApprovalsHold'
  <2>1. approval' = approval  BY <1>4 DEF Recover
  <2>2. /\ Active(k) /\ lease'[k].state = "failed"
        /\ lease'[k].intent = lease[k].intent /\ OthersKept(k)
    BY <1>4, RecoverEffect DEF IndInv
  <2> QED  BY Zenon, <2>1, <2>2, ApprovalsKept DEF OthersKept, Active, ActiveLeaseStates
<1>5. ASSUME NEW ap \in Approvals, NEW approved \in BOOLEAN, ResolveApproval(ap, approved)
      PROVE  ApprovalsHold'
  <2>1. approval[ap] \in ApprovalRow /\ approval[ap].consumed = None /\ lease' = lease
    BY <1>5 DEF IndInv, TypeOK, NoApproval, ApprovalsHold, ResolveApproval
  <2>2. PICK s \in {"approved", "rejected"} :
          approval' = [approval EXCEPT ![ap] = [approval[ap] EXCEPT !.status = s]]
    BY Zenon, <1>5 DEF ResolveApproval, IndInv, TypeOK
  <2>3. approval'[ap] = [approval[ap] EXCEPT !.status = s]  BY <2>2 DEF IndInv, TypeOK
  <2>4. approval'[ap].consumed = None /\ approval'[ap].status = s
    BY <2>1, <2>3 DEF ApprovalRow
  <2>5. \A b \in Approvals \ {ap} : approval'[b] = approval[b]  BY <2>2 DEF IndInv, TypeOK
  <2>6. None \notin Keys  BY ConstantsAssumption
  <2> QED  BY SMTT(30), <2>1, <2>4, <2>5, <2>6 DEF IndInv, ApprovalsHold, RequiresApproval
<1>6. ASSUME NEW p \in Procs, ClaimAwaitsApproval(p)  PROVE ApprovalsHold'
  <2>1. lease' = lease  BY <1>6 DEF ClaimAwaitsApproval
  <2>2. CASE approval' = approval  BY <2>1, <2>2, ApprovalsKept
  <2>3. CASE \E ap \in Approvals :
               /\ approval[ap] = NoApproval
               /\ approval' = [approval EXCEPT ![ap] =
                    [status |-> "pending", key |-> proc[p].key, intent |-> proc[p].intent,
                     expires |-> now + ApprovalTerm, consumed |-> None]]
    <3>1. PICK ap \in Approvals :
            /\ approval[ap] = NoApproval
            /\ approval' = [approval EXCEPT ![ap] =
                 [status |-> "pending", key |-> proc[p].key, intent |-> proc[p].intent,
                  expires |-> now + ApprovalTerm, consumed |-> None]]
      BY Zenon, <2>3
    <3>2. approval[ap].status = "none"
      <4>1. NoApproval.status = "none"  BY DEF NoApproval
      <4> QED  BY Zenon, <3>1, <4>1
    <3>3. approval'[ap] =
            [status |-> "pending", key |-> proc[p].key, intent |-> proc[p].intent,
             expires |-> now + ApprovalTerm, consumed |-> None]
      BY Zenon, <3>1 DEF IndInv, TypeOK
    <3>4. approval'[ap].status = "pending" /\ approval'[ap].consumed = None  BY SMTT(30), <3>3
    <3>5. \A b \in Approvals \ {ap} : approval'[b] = approval[b]  BY Zenon, <3>1 DEF IndInv, TypeOK
    <3>6. ASSUME NEW b \in Approvals
          PROVE  /\ approval'[b].status = "pending" => approval'[b].consumed = None
                 /\ approval'[b].status # "none" /\ approval'[b].consumed # None =>
                      /\ approval'[b].status = "approved"
                      /\ approval'[b].consumed = approval'[b].key
                      /\ lease[approval'[b].key].state # "none"
                      /\ approval'[b].intent = lease[approval'[b].key].intent
      <4>1. CASE b = ap  BY <3>4, <4>1
      <4>2. CASE b # ap  BY <3>5, <4>2 DEF IndInv, ApprovalsHold
      <4> QED  BY Zenon, <4>1, <4>2
    <3>7. ASSUME NEW j \in Keys, lease[j].state # "none", RequiresApproval(lease[j].intent)
          PROVE  \E b \in Approvals : approval'[b].status # "none" /\ approval'[b].consumed = j
      <4>1. PICK b \in Approvals : approval[b].status # "none" /\ approval[b].consumed = j
        BY <3>7 DEF IndInv, ApprovalsHold
      <4> QED  BY <3>2, <3>5, <4>1
    <3> QED  BY Zenon, <2>1, <3>6, <3>7 DEF ApprovalsHold, RequiresApproval
  <2> QED  BY <1>6, <2>2, <2>3 DEF ClaimAwaitsApproval
<1>7. ASSUME NEW p \in Procs, ClaimGranted(p)  PROVE ApprovalsHold'
  <2> DEFINE q == proc[p]
             k == q.key
  <2>1. /\ k \in Keys /\ lease[k].state = "none" /\ lease'[k].state = "running"
        /\ lease'[k].intent = q.intent /\ OthersKept(k)
    BY Zenon, <1>7, GrantedEffect DEF IndInv
  <2>2. \A ap \in Approvals : approval[ap].status # "none" =>
          /\ approval[ap] \in ApprovalRow
          /\ approval[ap].key \in Keys
    <3>1. SUFFICES ASSUME NEW ap \in Approvals, approval[ap].status # "none"
                   PROVE  approval[ap] \in ApprovalRow /\ approval[ap].key \in Keys
      OBVIOUS
    <3>2. approval[ap] \in ApprovalRow  BY <3>1 DEF IndInv, TypeOK, NoApproval
    <3> QED  BY <3>2 DEF ApprovalRow
  <2>3. \A ap \in Approvals : approval[ap].status # "none" /\ approval[ap].consumed # None =>
          approval[ap].key # k
    BY <2>1 DEF IndInv, ApprovalsHold
  <2>4. CASE RequiresApproval(q.intent)
    <3>1. PICK ap \in Approved(q) : approval' = [approval EXCEPT ![ap].consumed = k]
      BY Zenon, <1>7, <2>4 DEF ClaimGranted
    <3>2. /\ ap \in Approvals
          /\ approval[ap].status = "approved" /\ approval[ap].key = k
          /\ approval[ap].intent = q.intent
      BY <3>1 DEF Approved, ApprovalsFor
    <3>3. approval[ap] \in ApprovalRow  BY <2>2, <3>2
    <3>4. approval'[ap] = [approval[ap] EXCEPT !.consumed = k]
      BY <3>1, <3>2 DEF IndInv, TypeOK
    <3>5. /\ approval'[ap].status = "approved" /\ approval'[ap].key = k
          /\ approval'[ap].intent = q.intent /\ approval'[ap].consumed = k
      BY <3>2, <3>3, <3>4 DEF ApprovalRow
    <3>6. \A b \in Approvals \ {ap} : approval'[b] = approval[b]
      BY <3>1, <3>2 DEF IndInv, TypeOK
    <3> HIDE DEF k, q
    <3>7. ASSUME NEW j \in Keys, lease'[j].state # "none", RequiresApproval(lease'[j].intent)
          PROVE  \E b \in Approvals : approval'[b].status # "none" /\ approval'[b].consumed = j
      <4>1. CASE j = k  BY <3>2, <3>5, <4>1
      <4>2. CASE j # k
        <5>1. PICK b \in Approvals : approval[b].status # "none" /\ approval[b].consumed = j
          BY Zenon, <2>1, <3>7, <4>2 DEF OthersKept, IndInv, ApprovalsHold
        <5>2. b # ap
          <6>1. j # None  BY ConstantsAssumption
          <6> QED  BY <2>3, <3>2, <5>1, <6>1
        <5> QED  BY <3>6, <5>1, <5>2
      <4> QED  BY <4>1, <4>2
    <3>8. ASSUME NEW b \in Approvals
          PROVE  /\ approval'[b].status = "pending" => approval'[b].consumed = None
                 /\ approval'[b].status # "none" /\ approval'[b].consumed # None =>
                      /\ approval'[b].status = "approved"
                      /\ approval'[b].consumed = approval'[b].key
                      /\ lease'[approval'[b].key].state # "none"
                      /\ approval'[b].intent = lease'[approval'[b].key].intent
      <4>1. CASE b = ap  BY Zenon, <2>1, <3>5, <4>1
      <4>2. CASE b # ap
        <5>1. approval'[b] = approval[b]  BY Zenon, <3>6, <4>2
        <5>2. /\ approval[b].status = "pending" => approval[b].consumed = None
              /\ approval[b].status # "none" /\ approval[b].consumed # None =>
                   /\ approval[b].status = "approved"
                   /\ approval[b].consumed = approval[b].key
                   /\ lease[approval[b].key].state # "none"
                   /\ approval[b].intent = lease[approval[b].key].intent
          BY Zenon DEF IndInv, ApprovalsHold
        <5>3. approval[b].status # "none" /\ approval[b].consumed # None =>
                lease'[approval[b].key] = lease[approval[b].key]
          BY <2>1, <2>2, <2>3 DEF OthersKept
        <5> QED  BY Zenon, <5>1, <5>2, <5>3
      <4> QED  BY Zenon, <4>1, <4>2
    <3> QED  BY Zenon, <3>7, <3>8 DEF ApprovalsHold, RequiresApproval
  <2>5. CASE ~RequiresApproval(q.intent)
    <3>1. approval' = approval  BY Zenon, <1>7, <2>5 DEF ClaimGranted
    <3> HIDE DEF k, q
    <3>2. ASSUME NEW j \in Keys, lease'[j].state # "none", RequiresApproval(lease'[j].intent)
          PROVE  \E b \in Approvals : approval'[b].status # "none" /\ approval'[b].consumed = j
      <4>1. j # k  BY <2>1, <2>5, <3>2
      <4> QED  BY Zenon, <2>1, <3>1, <3>2, <4>1 DEF OthersKept, IndInv, ApprovalsHold
    <3>3. ASSUME NEW b \in Approvals
          PROVE  /\ approval'[b].status = "pending" => approval'[b].consumed = None
                 /\ approval'[b].status # "none" /\ approval'[b].consumed # None =>
                      /\ approval'[b].status = "approved"
                      /\ approval'[b].consumed = approval'[b].key
                      /\ lease'[approval'[b].key].state # "none"
                      /\ approval'[b].intent = lease'[approval'[b].key].intent
      <4>1. /\ approval[b].status = "pending" => approval[b].consumed = None
            /\ approval[b].status # "none" /\ approval[b].consumed # None =>
                 /\ approval[b].status = "approved"
                 /\ approval[b].consumed = approval[b].key
                 /\ lease[approval[b].key].state # "none"
                 /\ approval[b].intent = lease[approval[b].key].intent
        BY Zenon DEF IndInv, ApprovalsHold
      <4>2. approval[b].status # "none" /\ approval[b].consumed # None =>
              lease'[approval[b].key] = lease[approval[b].key]
        BY <2>1, <2>2, <2>3 DEF OthersKept
      <4> QED  BY Zenon, <3>1, <4>1, <4>2
    <3> QED  BY <3>2, <3>3 DEF ApprovalsHold, RequiresApproval
  <2> QED  BY <2>4, <2>5
<1> QED  BY StepShapes, <1>1, <1>2, <1>3, <1>4, <1>5, <1>6, <1>7 DEF IndInv

\* No step changes what a lease was granted for.
LEMMA IntentsStay ==
  ASSUME IndInv, [Next]_vars
  PROVE  \A k \in Keys : lease[k].state # "none" =>
           lease'[k].state # "none" /\ lease'[k].intent = lease[k].intent
<1>1. SUFFICES ASSUME NEW k \in Keys, lease[k].state # "none"
               PROVE  lease'[k].state # "none" /\ lease'[k].intent = lease[k].intent
  OBVIOUS
<1>2. CASE LeasesKept  BY <1>1, <1>2 DEF LeasesKept, LeaseKeptOrLost
<1>3. ASSUME NEW p \in Procs, ClaimGranted(p)  PROVE lease'[k] = lease[k]
  <2>1. lease[proc[p].key].state = "none" /\ OthersKept(proc[p].key)
    BY Zenon, <1>3, GrantedEffect DEF IndInv
  <2> QED  BY <1>1, <2>1 DEF OthersKept
<1>4. ASSUME NEW j \in Keys, Settled(j)
      PROVE  lease'[k].state # "none" /\ lease'[k].intent = lease[k].intent
  BY <1>1, <1>4 DEF Settled, OthersKept, TerminalLeaseStates
<1> QED  BY Zenon, RowShapes, <1>1, <1>2, <1>3, <1>4

\* What a granted claim writes about its work item, its handler and its policies.
LEMMA GrantedItem ==
  ASSUME TypeOK, NEW p \in Procs, ClaimGranted(p)
  PROVE  /\ proc[p] \in Request /\ Admissible(proc[p]) /\ Affordable(proc[p].intent)
         /\ proc'[p].intent = proc[p].intent
         /\ \A b \in Budgets : resv'[proc[p].key][b] =
              IF b \in Selected(proc[p].intent) THEN "reserved" ELSE "none"
         /\ \A w \in Works : w # proc[p].intent.work =>
              work'[w] = work[w] /\ latest'[w] = latest[w]
         /\ proc[p].intent.work \in Works =>
              /\ work'[proc[p].intent.work].status = "running"
              /\ latest'[proc[p].intent.work] = proc[p].key
<1> DEFINE k == proc[p].key
           w == proc[p].intent.work
<1>1. proc[p] \in Request /\ Admissible(proc[p]) /\ Affordable(proc[p].intent)
  BY RequestType DEF ClaimGranted, Claiming
<1>2. k \in Keys  BY <1>1 DEF Request
<1>3. proc'[p].intent = proc[p].intent
  <2>1. proc'[p] = [proc[p] EXCEPT !.pc = "claimed"]  BY DEF ClaimGranted, TypeOK
  <2> QED  BY <1>1, <2>1 DEF Request
<1>4. resv'[k] = [b \in Budgets |-> IF b \in Selected(proc[p].intent) THEN "reserved" ELSE "none"]
  BY <1>2 DEF ClaimGranted, TypeOK
<1>5. \/ w = None /\ work' = work /\ latest' = latest
      \/ /\ w # None
         /\ work' = [work EXCEPT ![w].status = "running", ![w].acceptance = None]
         /\ latest' = [latest EXCEPT ![w] = k]
  BY Zenon DEF ClaimGranted
<1>6. work \in [Works -> WorkRow] /\ latest \in [Works -> Keys \cup {None}] /\ None \notin Works
  BY ConstantsAssumption DEF TypeOK
<1> HIDE DEF k, w
<1>7. \A v \in Works : v # w => work'[v] = work[v] /\ latest'[v] = latest[v]
  BY <1>5, <1>6
<1>8. ASSUME w \in Works  PROVE work'[w].status = "running" /\ latest'[w] = k
  <2>1. work[w] \in WorkRow  BY <1>6, <1>8
  <2> QED  BY <1>5, <1>6, <1>8, <2>1 DEF WorkRow
<1> QED  BY Zenon, <1>1, <1>3, <1>4, <1>7, <1>8 DEF k, w

-----------------------------------------------------------------------------
(* Theorems                                                                *)

\* The invariant holds initially: no lease, run or approval exists yet.
LEMMA InitIndInv == Init => IndInv
<1> SUFFICES ASSUME Init PROVE IndInv  OBVIOUS
<1>1. TypeOK
  <2>1. work \in [Works -> WorkRow]
    BY ConstantsAssumption DEF Init, WorkRow
  <2>2. agent \in [Agents -> [status: AgentStatus, cfg: Cfgs]]
    BY ConstantsAssumption DEF Init
  <2>3. usage \in [Keys -> [Budgets -> Seq(UsageRow)]]
    <3>1. <<>> \in Seq(UsageRow)  OBVIOUS
    <3> QED  BY <3>1 DEF Init
  <2> QED  BY <2>1, <2>2, <2>3 DEF Init, TypeOK
<1>2. \A k \in Keys : lease[k].state = "none" /\ run[k].status = "none" /\ effects[k] = 0
  BY DEF Init, NoLease, NoRun
<1>3. HandlersOwnKeys  BY DEF Init, Idle, HandlersOwnKeys, InFlight
<1>4. RunsFollowLeases  BY <1>2 DEF RunsFollowLeases
<1>5. MoneyFollowsRuns
  <2>1. \A k \in Keys, b \in Budgets : resv[k][b] = "none" /\ usage[k][b] = <<>>
    BY DEF Init
  <2> QED  BY <1>2, <2>1 DEF MoneyFollowsRuns
<1>6. AcceptancesHold
  <2>1. \A w \in Works : work[w].acceptance = None /\ work[w].status # "completed"
    BY ConstantsAssumption DEF Init
  <2> QED  BY <2>1 DEF AcceptancesHold
<1>7. ApprovalsHold
  <2>1. \A ap \in Approvals : approval[ap].status = "none"  BY DEF Init, NoApproval
  <2> QED  BY <1>2, <2>1 DEF ApprovalsHold
<1>8. OneRunningPerResource  BY <1>2 DEF OneRunningPerResource
<1> QED  BY <1>1, <1>3, <1>4, <1>5, <1>6, <1>7, <1>8 DEF IndInv

\* Every step keeps the invariant.
LEMMA IndInvStep == IndInv /\ [Next]_vars => IndInv'
<1> SUFFICES ASSUME IndInv, [Next]_vars PROVE IndInv'  OBVIOUS
<1>1. TypeOK'  BY TypeStep DEF IndInv
<1> QED  BY <1>1, HandlersStep, RunsStep, MoneyStep, AcceptancesStep, ApprovalsStep,
            OneRunningStep DEF IndInv

\* The invariant holds in every reachable state.
THEOREM Invariance == Spec => []IndInv
BY InitIndInv, IndInvStep, PTL DEF Spec

\* Every table keeps its row types, whatever the constants are.
THEOREM TypeCorrect == Spec => []TypeOK
<1>1. IndInv => TypeOK  BY DEF IndInv
<1> QED  BY <1>1, Invariance, PTL

\* claim never lets two executions of one work item, or of one agent without a work
\* item, hold a valid lease together.
THEOREM MutualExclusion == Spec => []OneRunningPerResource
<1>1. IndInv => OneRunningPerResource  BY DEF IndInv
<1> QED  BY <1>1, Invariance, PTL

\* An idempotency key reaches the external executor at most once, after its
\* checkpoint.
THEOREM AtMostOnce == Spec => []ExecutorCalledOnce
<1>1. IndInv => ExecutorCalledOnce
  BY DEF IndInv, RunsFollowLeases, ExecutorCalledOnce, NoLease, NoRun
<1> QED  BY <1>1, Invariance, PTL

\* Every reservation is charged exactly once, when its lease is settled.
THEOREM ExactCharges == Spec => []ChargedExactlyOnce
<1>1. IndInv => ChargedExactlyOnce
  <2> SUFFICES ASSUME IndInv, NEW k \in Keys, NEW b \in Budgets
               PROVE  /\ Len(usage[k][b]) = IF resv[k][b] = "settled" THEN 1 ELSE 0
                      /\ lease[k].state \in TerminalLeaseStates => resv[k][b] # "reserved"
                      /\ lease[k].state = "running" => resv[k][b] # "settled"
    BY DEF ChargedExactlyOnce
  <2>1. run[k].status \in {"none", "running", "succeeded", "failed", "cancelled"}
    <3>1. run[k].status # "none" => run[k].status \in RunStatus
      BY RunType DEF IndInv, RunRow
    <3> QED  BY <3>1 DEF RunStatus
  <2> QED  BY <2>1 DEF IndInv, RunsFollowLeases, MoneyFollowsRuns, Active, ActiveLeaseStates,
                       TerminalLeaseStates
<1> QED  BY <1>1, Invariance, PTL

\* A completed work item carries the acceptance of its latest run, which succeeded
\* with business output.
THEOREM CompletionIsAccepted == Spec => []CompletedIsAccepted
<1>1. IndInv => CompletedIsAccepted
  BY DEF IndInv, AcceptancesHold, CompletedIsAccepted, Accepted
<1> QED  BY <1>1, Invariance, PTL

\* A run is open only while its lease is unsettled, and succeeded exactly when its
\* lease did.
THEOREM RunsAgree == Spec => []RunAgreesWithLease
<1>1. IndInv => RunAgreesWithLease
  <2> SUFFICES ASSUME IndInv, NEW k \in Keys
               PROVE  /\ lease[k] = NoLease <=> run[k] = NoRun
                      /\ run[k].status = "running" => Active(k)
                      /\ run[k].status = "succeeded" <=> lease[k].state = "succeeded"
    BY DEF RunAgreesWithLease
  <2>1. lease[k] \in LeaseRow \cup {NoLease} /\ run[k] \in RunRow \cup {NoRun}
    BY DEF IndInv, TypeOK
  <2>2. lease[k] = NoLease <=> run[k] = NoRun
    BY <2>1, RowKinds DEF IndInv, RunsFollowLeases
  <2> QED  BY <2>2 DEF IndInv, RunsFollowLeases
<1> QED  BY <1>1, Invariance, PTL

\* A lease that needed approval consumed exactly the approval given for its key and
\* its intent.
THEOREM ApprovalsBind == Spec => []ApprovalBinding
<1>1. IndInv => ApprovalBinding
  <2> SUFFICES ASSUME IndInv PROVE ApprovalBinding  OBVIOUS
  <2>1. \A k \in Keys : lease[k] = NoLease <=> lease[k].state = "none"
    BY RowKinds DEF IndInv, TypeOK
  <2>2. \A ap \in Approvals : approval[ap] = NoApproval <=> approval[ap].status = "none"
    BY RowKinds DEF IndInv, TypeOK
  <2>3. \A ap \in Approvals : approval[ap].status # "none" => approval[ap].key \in Keys
    <3>1. SUFFICES ASSUME NEW ap \in Approvals, approval[ap].status # "none"
                   PROVE  approval[ap].key \in Keys
      OBVIOUS
    <3>2. approval[ap] \in ApprovalRow  BY <3>1 DEF IndInv, TypeOK, NoApproval
    <3> QED  BY <3>2 DEF ApprovalRow
  <2> QED  BY SMTT(30), <2>1, <2>2, <2>3 DEF IndInv, ApprovalsHold, ApprovalBinding
<1> QED  BY <1>1, Invariance, PTL

\* A run that is over is never rewritten, by a late answer or otherwise.
THEOREM RunsAreFinal == Spec => TerminalRunsStay
<1>1. IndInv /\ [Next]_vars =>
        [\A k \in Keys : run[k].status \notin {"none", "running"} => run'[k] = run[k]]_vars
  BY RunsStay
<1> QED  BY <1>1, Invariance, PTL DEF Spec, TerminalRunsStay
=============================================================================
