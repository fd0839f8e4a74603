----------------------- MODULE EvolutionReleaseProofs -----------------------
(***************************************************************************)
(* Theorems about EvolutionRelease, for every set of proposals, versions,  *)
(* overlapping requests and commands: the control plane never runs ahead   *)
(* of the runtime, no live step is applied by two commands, one command of *)
(* a deployment can be accepted at a time, and the skill always has one    *)
(* active version.                                                         *)
(***************************************************************************)
EXTENDS EvolutionRelease, TLAPS

-----------------------------------------------------------------------------
(* The inductive invariant. *)

(* A command that something refers to is a command of a deployment. *)
IssuedInUse == \A c \in Commands : InUse(c) => issued[c].proposal \in Proposals

(* An open request carries a command. *)
RequestsCarry == \A r \in Requests : request[r] # Idle => request[r].command \in Commands

(* A pending row holds a command of its own proposal and action. *)
RowsHold ==
    \A p \in Proposals : row[p].state = "pending" =>
        /\ row[p].command \in Commands
        /\ issued[row[p].command] = [proposal |-> p, action |-> row[p].action]

(* A command that can still be accepted is the one its deployment's row holds. *)
LiveIsHeld == \A c \in Commands : Live(c) => Owns(issued[c].proposal, c)

(* A receipt names a state that its release has reached. *)
ReceiptsHold ==
    \A c \in Commands : receipt[c] # "none" =>
        /\ receipt[c] = TargetStates[issued[c].action]
        /\ Stage(receipt[c]) <= Stage(release[issued[c].proposal])

IndInv ==
    /\ TypeOK
    /\ IssuedInUse
    /\ RequestsCarry
    /\ RowsHold
    /\ LiveIsHeld
    /\ ReceiptsHold
    /\ LedgerIsNotAhead
    /\ AppliedOnce
    /\ OneActiveVersion

-----------------------------------------------------------------------------
(* Tables. *)

(* What the runtime's transition gives: the target of the action, further on than
   before unless a shadow is repeated. *)
LEMMA TransitionRises ==
    ASSUME NEW s \in Released \cup {"none"}, NEW a \in Actions, Transition(s, a) # "none"
    PROVE  /\ Transition(s, a) = TargetStates[a]
           /\ TargetStates[a] \in Released
           /\ Stage(s) <= Stage(TargetStates[a])
           /\ a # "shadow" => Stage(s) < Stage(TargetStates[a])
<1>1. CASE a = "shadow"
  BY <1>1 DEF Transition, TargetStates, Stage, Released
<1>2. CASE a = "canary"
  BY <1>2 DEF Transition, TargetStates, Stage, Released
<1>3. CASE a = "promote"
  BY <1>3 DEF Transition, TargetStates, Stage, Released
<1>4. CASE a = "rollback"
  BY <1>4 DEF Transition, TargetStates, Stage, Released
<1> QED  BY <1>1, <1>2, <1>3, <1>4 DEF Actions

(* The stages are numbers, and a target is a released state. *)
LEMMA StageType ==
    /\ \A s \in Released \cup {"none"} : Stage(s) \in 0 .. 4
    /\ \A a \in Actions : TargetStates[a] \in Released /\ TargetStates[a] # "none"
BY DEF Stage, Released, Actions, TargetStates

(* No action is allowed on a pending row. *)
LEMMA PendingAllowsNothing ==
    ASSUME NEW s, NEW a, a \in AllowedActions(s)
    PROVE  s # "pending"
BY DEF AllowedActions

(* The rows of the tables. *)
LEMMA ConstantRows ==
    /\ NoRow \in Rows /\ Idle \in RequestRows
    /\ 0 \notin Commands /\ Idle.command = 0
BY ReleaseAssumption DEF NoRow, Idle, Rows, RequestRows, Actions

-----------------------------------------------------------------------------
(* The shapes of the steps. *)

(* No request carries a command but the one it carried or one that a row holds. *)
Carried ==
    /\ request' \in [Requests -> RequestRows]
    /\ \A r \in Requests : \/ request'[r] = Idle
                           \/ request[r] # Idle /\ request'[r].command = request[r].command
                           \/ \E p \in Proposals : Owns(p, request'[r].command)

(* The types of what the invariant says nothing else about. *)
RestTyped ==
    /\ rollout \in [Proposals -> RolloutStates]
    /\ approval \in [Proposals -> [Actions \ {"shadow"} -> {"none", "pending", "approved"}]]
    /\ lapsed \subseteq Commands
    /\ experiment \in [Proposals -> {"none", "running", "promoted", "rolled_back"}]
    /\ promoted \in [Versions -> Nat]
    /\ guard \in [active : Versions, baseline : Versions]
    /\ rollbacks \in 0 .. MaxRollbacks

(* No deployment and no release moves. *)
Quiet ==
    /\ Carried
    /\ RestTyped'
    /\ expired \subseteq expired' /\ expired' \subseteq Commands
    /\ UNCHANGED <<row, issued, receipt, release, skill>>

(* prepare runs on a row that holds no command, or one whose hour is over. *)
Prepared(r, p, a, existing) ==
    /\ Issue(r, p, a, existing) \/ AskApproval(r, p, a, existing)
    /\ existing \in Rows /\ existing.state # "pending"
    /\ existing.acked = row[p].acked /\ existing.command \in {0, row[p].command}
    /\ \A c \in Commands : Owns(p, c) => c \in expired
    /\ UNCHANGED <<rollout, runtimeVars, guardVars>>

(* A receipt is acknowledged. *)
Moved(p, c) ==
    /\ Owns(p, c) /\ receipt[c] # "none"
    /\ row' = [row EXCEPT ![p].state = receipt[c], ![p].acked = receipt[c]]
    /\ Carried
    /\ RestTyped'
    /\ UNCHANGED <<issued, expired, receipt, release, skill>>

(* A command is applied. *)
Applied(c, p, a) ==
    /\ issued[c].proposal = p /\ issued[c].action = a
    /\ Transition(release[p], a) # "none"
    /\ release' = [release EXCEPT ![p] = Transition(release[p], a)]
    /\ receipt' = [receipt EXCEPT ![c] = Transition(release[p], a)]
    /\ skill' = SkillAfter(p, a)
    /\ a = "promote" => skill[Baseline[p]] = "active"
    /\ Undoes(p, a) => skill[Candidate[p]] = "active"
    /\ Carried
    /\ RestTyped'
    /\ UNCHANGED <<row, issued, expired>>

(* The guard concludes an experiment or restores a version, and takes releases back. *)
Retreated ==
    /\ release' \in [Proposals -> Released \cup {"none"}]
    /\ \A p \in Proposals : Stage(release[p]) <= Stage(release'[p])
    /\ \/ skill' = skill
       \/ \E v, w \in Versions : /\ skill[v] = "active"
                                 /\ skill[w] = "retired"
                                 /\ skill' = [skill EXCEPT ![v] = "retired", ![w] = "active"]
    /\ RestTyped'
    /\ UNCHANGED <<row, issued, expired, request, receipt>>

(* One request changes. *)
LEMMA OneCarried ==
    ASSUME TypeOK, NEW r \in Requests, NEW q \in RequestRows,
           \/ q = Idle
           \/ request[r] # Idle /\ q.command = request[r].command
           \/ \E p \in Proposals : Owns(p, q.command),
           request' = [request EXCEPT ![r] = q]
    PROVE  Carried
<1>1. request \in [Requests -> RequestRows]  BY DEF TypeOK
<1>2. request' \in [Requests -> RequestRows]  BY <1>1
<1>3. ASSUME NEW o \in Requests
      PROVE  \/ request'[o] = Idle
             \/ request[o] # Idle /\ request'[o].command = request[o].command
             \/ \E p \in Proposals : Owns(p, request'[o].command)
  <2>1. CASE o = r
    <3>1. request'[o] = q  BY <1>1, <2>1
    <3> QED  BY <2>1, <3>1
  <2>2. CASE o # r
    <3>1. request'[o] = request[o]  BY <1>1, <2>2
    <3> QED  BY <3>1
  <2> QED  BY <2>1, <2>2
<1> QED  BY <1>2, <1>3 DEF Carried

(* A step that changes one request only. *)
LEMMA RequestStep ==
    ASSUME IndInv, NEW r \in Requests, NEW q \in RequestRows,
           \/ q = Idle
           \/ request[r] # Idle /\ q.command = request[r].command
           \/ \E p \in Proposals : Owns(p, q.command),
           request' = [request EXCEPT ![r] = q],
           UNCHANGED <<row, rollout, approval, issued, lapsed, expired>>,
           UNCHANGED runtimeVars, UNCHANGED guardVars
    PROVE  Quiet
<1>1. TypeOK  BY DEF IndInv
<1>2. Carried  BY Zenon, <1>1, OneCarried
<1>3. RestTyped'  BY Zenon, <1>1 DEF TypeOK, RestTyped, runtimeVars, guardVars
<1>4. expired' = expired /\ expired \subseteq Commands  BY <1>1 DEF TypeOK
<1> QED  BY <1>2, <1>3, <1>4 DEF Quiet, runtimeVars

(* The receiver's answer. *)
LEMMA AnsweredStep ==
    ASSUME IndInv, NEW r \in Requests, NEW ok \in BOOLEAN, Answered(r, ok), request[r] # Idle
    PROVE  Carried
<1> DEFINE q == IF request[r].pc = "answer" /\ ok
                THEN [request[r] EXCEPT !.pc = "ack", !.server = "none"] ELSE Idle
<1>1. request \in [Requests -> RequestRows]  BY DEF IndInv, TypeOK
<1>2. request[r] \in RequestRows  BY <1>1
<1>3. q \in RequestRows /\ (q = Idle \/ q.command = request[r].command)
  <2>1. CASE request[r].pc = "answer" /\ ok  BY Zenon, <1>2, <2>1 DEF RequestRows
  <2>2. CASE ~(request[r].pc = "answer" /\ ok)
    <3>1. q = Idle  BY <2>2
    <3> QED  BY <3>1, ConstantRows
  <2> QED  BY <2>1, <2>2
<1>4. request' = [request EXCEPT ![r] = q]  BY <1>1 DEF Answered
<1> HIDE DEF q
<1> QED  BY Zenon, <1>3, <1>4, OneCarried DEF IndInv

(* A request that is not idle in its client or its server part is open. *)
LEMMA OpenRequest ==
    ASSUME IndInv, NEW r \in Requests, request[r].pc # "idle" \/ request[r].server # "none"
    PROVE  /\ request[r] # Idle /\ request[r] \in RequestRows
           /\ request[r].command \in Commands
           /\ issued[request[r].command] \in CommandRows
<1>1. request[r] # Idle /\ request[r] \in RequestRows  BY DEF IndInv, TypeOK, Idle
<1>2. request[r].command \in Commands  BY <1>1 DEF IndInv, RequestsCarry
<1>3. issued[request[r].command].proposal \in Proposals
  BY <1>2 DEF IndInv, IssuedInUse, InUse
<1>4. issued[request[r].command] \in CommandRows \cup {NoCommand}
  BY <1>2 DEF IndInv, TypeOK
<1>5. issued[request[r].command] \in CommandRows
  BY <1>3, <1>4 DEF CommandRows, NoCommand, Actions
<1> QED  BY <1>1, <1>2, <1>5

(* A request that gets the stored command again. *)
LEMMA AgainShape ==
    ASSUME IndInv, NEW r \in Requests, NEW p \in Proposals, NEW kind,
           kind \in {"release", "recover", "reconcile"}, row[p].state = "pending",
           request' = [request EXCEPT ![r] = [pc |-> "lookup", kind |-> kind,
                                              command |-> row[p].command, server |-> "none"]],
           UNCHANGED <<row, rollout, approval, issued, lapsed, expired>>,
           UNCHANGED runtimeVars, UNCHANGED guardVars
    PROVE  Quiet
<1> DEFINE q == [pc |-> "lookup", kind |-> kind, command |-> row[p].command, server |-> "none"]
<1>1. row[p].command \in Commands  BY Zenon DEF IndInv, RowsHold
<1>2. q \in RequestRows /\ q.command = row[p].command  BY <1>1 DEF RequestRows
<1>3. Owns(p, q.command)  BY <1>2 DEF Owns
<1>4. request' = [request EXCEPT ![r] = q]  OBVIOUS
<1> HIDE DEF q
<1> QED  BY Zenon, <1>2, <1>3, <1>4, RequestStep

(* Open reads the command of a pending row. *)
LEMMA OpenShape ==
    ASSUME IndInv, NEW r \in Requests, NEW p \in Proposals, NEW k \in {"recover", "reconcile"},
           Open(r, p, k)
    PROVE  Quiet
BY Zenon, AgainShape DEF Open, controlVars

(* Lookup moves one request on, or ends it. *)
LEMMA LookupShape ==
    ASSUME IndInv, NEW r \in Requests, Lookup(r)
    PROVE  Quiet
<1> DEFINE found == receipt[request[r].command] # "none"
           kind == request[r].kind
           q == CASE found -> [request[r] EXCEPT !.pc = "ack", !.kind = "release"]
                  [] ~found /\ kind = "release" ->
                       [request[r] EXCEPT !.pc = "answer", !.server = "sent"]
                  [] ~found /\ kind = "recover" ->
                       [request[r] EXCEPT !.pc = "recover", !.kind = "release"]
                  [] OTHER -> Idle
<1>1. request[r] # Idle /\ request[r] \in RequestRows  BY OpenRequest DEF Lookup
<1>2. request \in [Requests -> RequestRows]  BY DEF IndInv, TypeOK
<1>3. request' = [request EXCEPT ![r] = q]  BY <1>2 DEF Lookup
<1>4. q \in RequestRows /\ (q = Idle \/ q.command = request[r].command)
  <2>1. CASE found  BY Zenon, <1>1, <2>1 DEF RequestRows
  <2>2. CASE ~found /\ kind = "release"  BY Zenon, <1>1, <2>2 DEF RequestRows
  <2>3. CASE ~found /\ kind = "recover"  BY Zenon, <1>1, <2>3 DEF RequestRows
  <2>4. CASE ~found /\ kind \notin {"release", "recover"}
    <3>1. q = Idle  BY <2>4
    <3> QED  BY <3>1, ConstantRows
  <2> QED  BY <2>1, <2>2, <2>3, <2>4
<1>5. UNCHANGED <<row, rollout, approval, issued, lapsed, expired>>
  BY DEF Lookup, controlVars
<1>6. UNCHANGED runtimeVars /\ UNCHANGED guardVars  BY DEF Lookup
<1> HIDE DEF q
<1> QED  BY Zenon, <1>1, <1>3, <1>4, <1>5, <1>6, RequestStep

(* GiveUp ends a request, or leaves what it sent to the receiver. *)
LEMMA GiveUpShape ==
    ASSUME IndInv, NEW r \in Requests, GiveUp(r)
    PROVE  Quiet
<1> DEFINE q == IF request[r].server = "none" THEN Idle ELSE [request[r] EXCEPT !.pc = "gone"]
<1>1. request[r] # Idle /\ request[r] \in RequestRows  BY OpenRequest DEF GiveUp
<1>2. request \in [Requests -> RequestRows]  BY DEF IndInv, TypeOK
<1>3. request' = [request EXCEPT ![r] = q]  BY <1>2 DEF GiveUp
<1>4. q \in RequestRows /\ (q = Idle \/ q.command = request[r].command)
  <2>1. CASE request[r].server = "none"  BY <2>1, ConstantRows
  <2>2. CASE request[r].server # "none"  BY <1>1, <2>2 DEF RequestRows
  <2> QED  BY <2>1, <2>2
<1>5. UNCHANGED <<row, rollout, approval, issued, lapsed, expired>>
  BY DEF GiveUp, controlVars
<1>6. UNCHANGED runtimeVars /\ UNCHANGED guardVars  BY DEF GiveUp
<1> HIDE DEF q
<1> QED  BY Zenon, <1>1, <1>3, <1>4, <1>5, <1>6, RequestStep

(* A transaction of the receiver moves on. *)
LEMMA ServerShape ==
    ASSUME IndInv, NEW r \in Requests, NEW s \in {"applying", "checked"},
           request[r].server # "none", request' = [request EXCEPT ![r].server = s]
    PROVE  Carried
<1> DEFINE q == [request[r] EXCEPT !.server = s]
<1>1. request[r] # Idle /\ request[r] \in RequestRows  BY OpenRequest
<1>2. request \in [Requests -> RequestRows]  BY DEF IndInv, TypeOK
<1>3. request' = [request EXCEPT ![r] = q]  BY <1>2
<1>4. q \in RequestRows /\ q.command = request[r].command  BY <1>1 DEF RequestRows
<1> HIDE DEF q
<1> QED  BY Zenon, <1>1, <1>3, <1>4, OneCarried DEF IndInv

(* Requests move, and nothing else does. *)
LEMMA CarriedShape ==
    ASSUME IndInv, Carried, UNCHANGED <<row, rollout, approval, issued, lapsed, expired>>,
           UNCHANGED runtimeVars, UNCHANGED guardVars
    PROVE  Quiet
<1>1. TypeOK  BY DEF IndInv
<1>2. RestTyped'  BY Zenon, <1>1 DEF TypeOK, RestTyped, runtimeVars, guardVars
<1>3. expired' = expired /\ expired \subseteq Commands  BY <1>1 DEF TypeOK
<1> QED  BY <1>2, <1>3 DEF Quiet, runtimeVars

(* Receive, Check and Abort move one transaction on, or answer. *)
LEMMA ReceiverShape ==
    ASSUME IndInv, NEW r \in Requests, Receive(r) \/ Check(r) \/ Abort(r)
    PROVE  Quiet
<1>1. request[r].server # "none"  BY Zenon DEF Receive, Check, Abort
<1>2. request[r] # Idle  BY <1>1, OpenRequest
<1>3. \/ \E ok \in BOOLEAN : Answered(r, ok)
      \/ \E s \in {"applying", "checked"} : request' = [request EXCEPT ![r].server = s]
  BY Zenon DEF Receive, Check, Abort
<1>4. Carried  BY Zenon, <1>1, <1>2, <1>3, AnsweredStep, ServerShape
<1>5. UNCHANGED <<row, rollout, approval, issued, lapsed, expired>>
  BY Zenon DEF Receive, Check, Abort, controlVars
<1>6. UNCHANGED runtimeVars /\ UNCHANGED guardVars  BY Zenon DEF Receive, Check, Abort
<1> QED  BY Zenon, <1>4, <1>5, <1>6, CarriedShape

(* Release resends the stored command or prepares a new one. *)
LEMMA ReleaseShape ==
    ASSUME IndInv, NEW r \in Requests, NEW p \in Proposals, NEW a \in Asked, Release(r, p, a)
    PROVE  Quiet \/ Prepared(r, p, a, row[p])
<1>1. CASE Asks(p, a)
  <2>1. request' = [request EXCEPT ![r] = [pc |-> "lookup", kind |-> "release",
                                           command |-> row[p].command, server |-> "none"]]
    BY <1>1 DEF Release
  <2>2. UNCHANGED <<row, rollout, approval, issued, lapsed, expired>>
    BY <1>1 DEF Release
  <2>3. UNCHANGED runtimeVars /\ UNCHANGED guardVars  BY DEF Release
  <2>4. row[p].state = "pending"  BY <1>1 DEF Asks
  <2> QED  BY Zenon, <2>1, <2>2, <2>3, <2>4, AgainShape
<1>2. CASE ~Asks(p, a)
  <2>1. /\ a \in AllowedActions(row[p].state)
        /\ Issue(r, p, a, row[p]) \/ AskApproval(r, p, a, row[p])
    BY <1>2 DEF Release, Prepare
  <2>2. row[p].state # "pending"  BY Zenon, <2>1, PendingAllowsNothing
  <2>3. row[p] \in Rows  BY DEF IndInv, TypeOK
  <2>4. UNCHANGED <<rollout, runtimeVars, guardVars>>  BY DEF Release
  <2> QED  BY <2>1, <2>2, <2>3, <2>4 DEF Prepared, Owns
<1> QED  BY <1>1, <1>2

(* RecoverExpired prepares the step again, or only ends the request. *)
LEMMA RecoverShape ==
    ASSUME IndInv, NEW r \in Requests, RecoverExpired(r)
    PROVE  \/ Quiet
           \/ \E p \in Proposals, a \in Actions, existing \in Rows : Prepared(r, p, a, existing)
<1> DEFINE c == request[r].command
           p == issued[c].proposal
           a == issued[c].action
           restored == IF row[p].acked = "none" THEN NoRow
                       ELSE [row[p] EXCEPT !.state = row[p].acked]
<1>1. request[r] # Idle /\ c \in Commands /\ issued[c] \in CommandRows
  BY Zenon, OpenRequest DEF RecoverExpired
<1>2. p \in Proposals /\ a \in Actions  BY <1>1 DEF CommandRows
<1>3. row[p] \in Rows  BY <1>2 DEF IndInv, TypeOK
<1>4. UNCHANGED <<rollout, runtimeVars, guardVars>>  BY DEF RecoverExpired
<1>5. CASE Recoverable(c)
  <2>1. /\ a \in AllowedActions(restored.state)
        /\ Issue(r, p, a, restored) \/ AskApproval(r, p, a, restored)
    BY Zenon, <1>5 DEF RecoverExpired, Prepare
  <2>2. restored.state # "pending"  BY Zenon, <2>1, PendingAllowsNothing
  <2>3. /\ restored \in Rows /\ restored.acked = row[p].acked
        /\ restored.command \in {0, row[p].command}
    <3>1. CASE row[p].acked = "none"
      <4>1. restored = NoRow  BY <3>1
      <4>2. NoRow.acked = "none" /\ NoRow.command = 0  BY DEF NoRow
      <4> HIDE DEF restored
      <4> QED  BY <3>1, <4>1, <4>2, ConstantRows
    <3>2. CASE row[p].acked # "none"  BY Zenon, <1>3, <3>2 DEF Rows
    <3> QED  BY Zenon, <3>1, <3>2
  <2>4. \A d \in Commands : Owns(p, d) => d \in expired  BY <1>5 DEF Recoverable, Owns
  <2> HIDE DEF restored, p, a
  <2>5. Prepared(r, p, a, restored)  BY Zenon, <1>4, <2>1, <2>2, <2>3, <2>4 DEF Prepared
  <2> QED  BY Zenon, <1>2, <2>3, <2>5
<1>6. CASE ~Recoverable(c)
  <2>1. request' = [request EXCEPT ![r] = Idle] /\ UNCHANGED <<row, approval, issued, expired, lapsed>>
    BY <1>6 DEF RecoverExpired
  <2>2. Idle \in RequestRows  BY ConstantRows
  <2>3. Carried  BY Zenon, <2>1, <2>2, OneCarried DEF IndInv
  <2> QED  BY <1>4, <2>1, <2>3, CarriedShape
<1> QED  BY <1>5, <1>6

(* Acknowledge moves the row to the state of the receipt, or only ends the request. *)
LEMMA AcknowledgeShape ==
    ASSUME IndInv, NEW r \in Requests, Acknowledge(r)
    PROVE  Quiet \/ \E p \in Proposals, c \in Commands : Moved(p, c)
<1> DEFINE c == request[r].command
           p == issued[c].proposal
           target == TargetStates[issued[c].action]
           ok == /\ Owns(p, c)
                 /\ receipt[c] = target
                 /\ rollout[p] = target \/ target \in RolloutTransitions(rollout[p])
<1>1. request[r] # Idle /\ c \in Commands /\ issued[c] \in CommandRows
  BY Zenon, OpenRequest DEF Acknowledge
<1>2. p \in Proposals /\ target \in Released /\ target # "none"
  BY <1>1, StageType DEF CommandRows
<1>3. request' = [request EXCEPT ![r] = Idle]  BY Zenon DEF Acknowledge
<1>4. Idle \in RequestRows  BY ConstantRows
<1>5. Carried  BY Zenon, <1>3, <1>4, OneCarried DEF IndInv
<1>6. UNCHANGED <<approval, issued, expired, lapsed>> /\ UNCHANGED runtimeVars /\ UNCHANGED guardVars
  BY Zenon DEF Acknowledge
<1>7. CASE ok
  <2>1. /\ row' = [row EXCEPT ![p].state = target, ![p].acked = target]
        /\ rollout' = [rollout EXCEPT ![p] = target]
    BY Zenon, <1>7 DEF Acknowledge
  <2>2. rollout' \in [Proposals -> RolloutStates]
    BY Zenon, <1>2, <2>1 DEF IndInv, TypeOK, RolloutStates
  <2>3. RestTyped'
    BY Zenon, <1>6, <2>2 DEF IndInv, TypeOK, RestTyped, runtimeVars, guardVars
  <2>4. receipt[c] = target /\ Owns(p, c)  BY <1>7
  <2> HIDE DEF target, p, c
  <2>5. Moved(p, c)
    BY <1>2, <1>5, <1>6, <2>1, <2>3, <2>4 DEF Moved, runtimeVars
  <2> QED  BY Zenon, <1>1, <1>2, <2>5
<1>8. CASE ~ok
  <2>1. UNCHANGED <<row, rollout>>  BY Zenon, <1>8 DEF Acknowledge
  <2> QED  BY <1>5, <1>6, <2>1, CarriedShape
<1> QED  BY <1>7, <1>8

(* promoted_at stays a rank. *)
LEMMA StampType ==
    ASSUME TypeOK, NEW v \in Versions
    PROVE  Stamp(v) \in [Versions -> Nat]
<1> DEFINE S == {u \in Versions : Stamped(u)} \cup {v}
<1>1. S \in SUBSET Versions  OBVIOUS
<1>3. Cardinality(S) \in Nat  BY Zenon, <1>1, ReleaseAssumption
<1> HIDE DEF S
<1>4. promoted \in [Versions -> Nat]  BY DEF TypeOK
<1>5. ASSUME NEW w \in Versions, Stamped(v), promoted[w] > promoted[v]
      PROVE  promoted[w] - 1 \in Nat
  BY <1>4, <1>5 DEF Stamped
<1> QED  BY <1>3, <1>4, <1>5 DEF Stamp, S

(* Commit applies the command, or only answers. *)
LEMMA CommitShape ==
    ASSUME IndInv, NEW r \in Requests, NEW passes \in BOOLEAN, Commit(r, passes)
    PROVE  \/ Quiet
           \/ \E c \in Commands, p \in Proposals, a \in Actions : Applied(c, p, a)
<1> DEFINE c == request[r].command
           p == issued[c].proposal
           a == issued[c].action
<1>1. request[r] # Idle /\ c \in Commands /\ issued[c] \in CommandRows
  BY Zenon, OpenRequest DEF Commit
<1>2. p \in Proposals /\ a \in Actions  BY <1>1 DEF CommandRows
<1>3. UNCHANGED controlVars /\ UNCHANGED expired /\ UNCHANGED guardVars  BY Zenon DEF Commit
<1>4. CASE Applicable(p, a, passes)
  <2>1. /\ release' = [release EXCEPT ![p] = Transition(release[p], a)]
        /\ receipt' = [receipt EXCEPT ![c] = Transition(release[p], a)]
        /\ skill' = SkillAfter(p, a)
        /\ promoted' = IF a = "promote" THEN Stamp(Candidate[p]) ELSE promoted
        /\ Answered(r, TRUE)
    <3>1. release' = [release EXCEPT ![p] = Transition(@, a)]  BY Zenon, <1>4 DEF Commit
    <3>2. release \in [Proposals -> Released \cup {"none"}]  BY DEF IndInv, TypeOK
    <3> QED  BY Zenon, <1>2, <1>4, <3>1, <3>2 DEF Commit
  <2>2. /\ Transition(release[p], a) # "none"
        /\ a = "promote" => skill[Baseline[p]] = "active"
        /\ Undoes(p, a) => skill[Candidate[p]] = "active"
    BY Zenon, <1>4 DEF Applicable, Undoes
  <2>3. Carried  BY Zenon, <1>1, <2>1, AnsweredStep
  <2>4. experiment' \in [Proposals -> {"none", "running", "promoted", "rolled_back"}]
    <3>1. experiment \in [Proposals -> {"none", "running", "promoted", "rolled_back"}]
      BY DEF IndInv, TypeOK
    <3> QED  BY Zenon, <1>2, <1>4, <3>1 DEF Commit
  <2>5. promoted' \in [Versions -> Nat]
    <3>1. Candidate[p] \in Versions /\ promoted \in [Versions -> Nat]
      BY <1>2, ReleaseAssumption DEF IndInv, TypeOK
    <3> QED  BY <2>1, <3>1, StampType DEF IndInv
  <2>6. RestTyped'
    BY Zenon, <1>3, <2>4, <2>5 DEF IndInv, TypeOK, RestTyped, controlVars, guardVars
  <2>7. UNCHANGED <<row, issued, expired>>  BY <1>3 DEF controlVars
  <2> HIDE DEF c, p, a
  <2>8. Applied(c, p, a)
    BY Zenon, <2>1, <2>2, <2>3, <2>6, <2>7 DEF Applied, c, p, a
  <2> QED  BY Zenon, <1>1, <1>2, <2>8
<1>5. CASE ~Applicable(p, a, passes)
  <2>1. Answered(r, FALSE) /\ UNCHANGED <<release, skill, promoted, experiment, receipt>>
    BY Zenon, <1>5 DEF Commit
  <2>2. Carried  BY Zenon, <1>1, <2>1, AnsweredStep
  <2> QED  BY <1>3, <2>1, <2>2, CarriedShape DEF controlVars, runtimeVars
<1> QED  BY <1>4, <1>5

(* The steps of operators and time move no deployment. *)
LEMMA OperatorShape ==
    ASSUME IndInv,
           \/ \E p \in Proposals, a \in Actions \ {"shadow"} : Resolve(p, a) \/ Lapse(p, a)
           \/ \E c \in Commands : Expire(c)
           \/ \E p \in Proposals, s \in Edited : UpdateRollout(p, s)
           \/ \E v, w \in Versions : GuardReads(v, w)
           \/ GuardForgets
    PROVE  Quiet
<1>0. TypeOK  BY DEF IndInv
<1>1. request' = request /\ UNCHANGED <<row, issued, receipt, release, skill>>
      /\ UNCHANGED <<experiment, promoted>>
  BY DEF Resolve, Lapse, Expire, UpdateRollout, GuardReads, GuardForgets, controlVars, runtimeVars
<1>2. Carried  BY <1>0, <1>1 DEF TypeOK, Carried
<1>3. expired \subseteq expired' /\ expired' \subseteq Commands
  BY <1>0 DEF TypeOK, Resolve, Lapse, Expire, UpdateRollout, GuardReads, GuardForgets
<1>4. RestTyped'
  <2>1. ASSUME NEW p \in Proposals, NEW a \in Actions \ {"shadow"}, Resolve(p, a) \/ Lapse(p, a)
        PROVE  RestTyped'
    <3>1. PICK answer \in {"approved", "none"} : approval' = [approval EXCEPT ![p][a] = answer]
      BY <2>1 DEF Resolve, Lapse
    <3>2. approval' \in [Proposals -> [Actions \ {"shadow"} -> {"none", "pending", "approved"}]]
      BY Zenon, <1>0, <3>1 DEF TypeOK
    <3>3. lapsed' \subseteq Commands  BY <1>0, <2>1 DEF TypeOK, Resolve, Lapse
    <3>4. UNCHANGED <<rollout, guard, rollbacks>>  BY <2>1 DEF Resolve, Lapse, guardVars
    <3> QED  BY Zenon, <1>0, <1>1, <3>2, <3>3, <3>4 DEF TypeOK, RestTyped
  <2>2. ASSUME NEW c \in Commands, Expire(c)  PROVE RestTyped'
    BY Zenon, <1>0, <1>1, <2>2 DEF Expire, TypeOK, RestTyped, controlVars, guardVars
  <2>3. ASSUME NEW p \in Proposals, NEW s \in Edited, UpdateRollout(p, s)  PROVE RestTyped'
    <3>1. s \in RolloutStates
      BY <2>3 DEF UpdateRollout, RolloutTransitions, RolloutStates, Released
    <3> QED  BY Zenon, <1>0, <1>1, <2>3, <3>1 DEF UpdateRollout, TypeOK, RestTyped, guardVars
  <2>4. ASSUME NEW v \in Versions, NEW w \in Versions, GuardReads(v, w)  PROVE RestTyped'
    <3>1. rollbacks' \in 0 .. MaxRollbacks
      BY <1>0, <2>4, ReleaseAssumption DEF GuardReads, TypeOK
    <3>2. guard' \in [active : Versions, baseline : Versions]
      BY <2>4, ReleaseAssumption DEF GuardReads, NoGuard
    <3>3. UNCHANGED <<rollout, approval, lapsed>>  BY <2>4 DEF GuardReads, controlVars
    <3> QED  BY Zenon, <1>0, <1>1, <3>1, <3>2, <3>3 DEF TypeOK, RestTyped
  <2>5. CASE GuardForgets
    <3>1. rollbacks' \in 0 .. MaxRollbacks  BY <2>5, ReleaseAssumption DEF GuardForgets
    <3>2. UNCHANGED <<rollout, approval, lapsed, guard>>  BY <2>5 DEF GuardForgets, controlVars
    <3> QED  BY Zenon, <1>0, <1>1, <3>1, <3>2 DEF TypeOK, RestTyped
  <2> QED  BY Zenon, <2>1, <2>2, <2>3, <2>4, <2>5
<1> QED  BY <1>1, <1>2, <1>3, <1>4 DEF Quiet

(* The guard only takes releases back. *)
LEMMA GuardShape ==
    ASSUME IndInv, GuardSwaps \/ \E p \in Proposals : Conclude(p)
    PROVE  Retreated
<1>0. TypeOK  BY DEF IndInv
<1>1. release \in [Proposals -> Released \cup {"none"}]  BY <1>0 DEF TypeOK
<1>2. \A s \in Released \cup {"none"} : Stage(s) <= Stage(s) /\ Stage(s) <= Stage("rolled_back")
  BY DEF Stage, Released
<1>3. ASSUME NEW p \in Proposals, Conclude(p)  PROVE Retreated
  <2>1. \A q \in Proposals : release'[q] \in {release[q], "rolled_back"}
    BY <1>1, <1>3 DEF Conclude
  <2>2. release' \in [Proposals -> Released \cup {"none"}]
    BY <1>1, <1>3 DEF Conclude, Released
  <2>3. \A q \in Proposals : Stage(release[q]) <= Stage(release'[q])
    BY <1>1, <1>2, <2>1
  <2>4. experiment' \in [Proposals -> {"none", "running", "promoted", "rolled_back"}]
    BY <1>0, <1>3 DEF Conclude, TypeOK
  <2>5. RestTyped'
    BY Zenon, <1>0, <1>3, <2>4 DEF Conclude, TypeOK, RestTyped, controlVars, guardVars
  <2> QED  BY <1>3, <2>2, <2>3, <2>5 DEF Conclude, Retreated, controlVars
<1>4. CASE GuardSwaps
  <2>1. guard \in [active : Versions, baseline : Versions]  BY <1>0 DEF TypeOK
  <2>2. guard.active \in Versions /\ guard.baseline \in Versions  BY <2>1
  <2>3. /\ UNCHANGED controlVars /\ UNCHANGED <<expired, request, receipt, rollbacks>>
        /\ guard' = NoGuard
    BY <1>4 DEF GuardSwaps
  <2>4. guard' \in [active : Versions, baseline : Versions]  BY <2>3, ReleaseAssumption DEF NoGuard
  <2>5. CASE Current(guard.active, guard.baseline)
    <3>1. /\ skill' = [skill EXCEPT ![guard.active] = "retired", ![guard.baseline] = "active"]
          /\ promoted' = Stamp(guard.baseline)
          /\ release' = [p \in Proposals |-> IF p \in ActiveReleases THEN "rolled_back" ELSE release[p]]
          /\ experiment' = [p \in Proposals |-> IF p \in ActiveReleases THEN "rolled_back" ELSE experiment[p]]
      BY <1>4, <2>5 DEF GuardSwaps
    <3>2. release' \in [Proposals -> Released \cup {"none"}]  BY <1>1, <3>1 DEF Released
    <3>3. \A p \in Proposals : release'[p] \in {release[p], "rolled_back"}  BY <3>1
    <3>4. \A p \in Proposals : Stage(release[p]) <= Stage(release'[p])  BY <1>1, <1>2, <3>3
    <3>5. promoted' \in [Versions -> Nat]  BY <1>0, <2>2, <3>1, StampType
    <3>6. experiment' \in [Proposals -> {"none", "running", "promoted", "rolled_back"}]
      BY <1>0, <3>1 DEF TypeOK
    <3>7. RestTyped'
      BY Zenon, <1>0, <2>3, <2>4, <3>5, <3>6 DEF TypeOK, RestTyped, controlVars
    <3>8. skill[guard.active] = "active" /\ skill[guard.baseline] = "retired"  BY <2>5 DEF Current
    <3>9. \E v, w \in Versions : /\ skill[v] = "active" /\ skill[w] = "retired"
                                 /\ skill' = [skill EXCEPT ![v] = "retired", ![w] = "active"]
      BY Zenon, <2>2, <3>1, <3>8
    <3> QED  BY Zenon, <2>3, <3>2, <3>4, <3>7, <3>9 DEF Retreated, controlVars
  <2>6. CASE ~Current(guard.active, guard.baseline)
    <3>1. UNCHANGED <<skill, promoted, release, experiment>>  BY <1>4, <2>6 DEF GuardSwaps
    <3>2. RestTyped'  BY Zenon, <1>0, <2>3, <2>4, <3>1 DEF TypeOK, RestTyped, controlVars
    <3> QED  BY <1>1, <1>2, <2>3, <3>1, <3>2 DEF Retreated, controlVars
  <2> QED  BY <2>5, <2>6
<1> QED  BY <1>3, <1>4

(* Every step has one of these shapes. *)
LEMMA StepShapes ==
    ASSUME IndInv, [Next]_vars
    PROVE  \/ Quiet
           \/ \E r \in Requests, p \in Proposals, a \in Actions, existing \in Rows :
                  Prepared(r, p, a, existing)
           \/ \E p \in Proposals, c \in Commands : Moved(p, c)
           \/ \E c \in Commands, p \in Proposals, a \in Actions : Applied(c, p, a)
           \/ Retreated
<1>1. ASSUME NEW r \in Requests, NEW p \in Proposals, NEW a \in Asked, Release(r, p, a)
      PROVE  \/ Quiet
             \/ \E b \in Actions, existing \in Rows : Prepared(r, p, b, existing)
  <2>1. a \in Actions /\ row[p] \in Rows  BY ReleaseAssumption DEF Actions, IndInv, TypeOK
  <2> QED  BY Zenon, <1>1, <2>1, ReleaseShape
<1>2. ASSUME UNCHANGED vars  PROVE Quiet
  <2>1. Carried  BY <1>2 DEF IndInv, TypeOK, Carried, vars
  <2>2. UNCHANGED <<row, rollout, approval, issued, lapsed, expired>>
        /\ UNCHANGED runtimeVars /\ UNCHANGED guardVars
    BY <1>2 DEF vars, controlVars
  <2> QED  BY <2>1, <2>2, CarriedShape
<1>3. CASE \E r \in Requests, p \in Proposals, k \in {"recover", "reconcile"} : Open(r, p, k)
  BY Zenon, <1>3, OpenShape
<1>4. CASE \E r \in Requests : Lookup(r)  BY Zenon, <1>4, LookupShape
<1>5. CASE \E r \in Requests : RecoverExpired(r)  BY Zenon, <1>5, RecoverShape
<1>6. CASE \E r \in Requests : Acknowledge(r)  BY Zenon, <1>6, AcknowledgeShape
<1>7. CASE \E r \in Requests : GiveUp(r)  BY Zenon, <1>7, GiveUpShape
<1>8. CASE \E r \in Requests : Receive(r) \/ Check(r) \/ Abort(r)
  BY Zenon, <1>8, ReceiverShape
<1>9. CASE \E r \in Requests, passes \in BOOLEAN : Commit(r, passes)
  BY Zenon, <1>9, CommitShape
<1>10. CASE \/ \E p \in Proposals, a \in Actions \ {"shadow"} : Resolve(p, a) \/ Lapse(p, a)
            \/ \E c \in Commands : Expire(c)
            \/ \E p \in Proposals, s \in Edited : UpdateRollout(p, s)
            \/ \E v, w \in Versions : GuardReads(v, w)
            \/ GuardForgets
  BY Zenon, <1>10, OperatorShape
<1>11. CASE GuardSwaps \/ \E p \in Proposals : Conclude(p)  BY Zenon, <1>11, GuardShape
<1>12. CASE Next
  BY Zenon, <1>12, <1>1, <1>3, <1>4, <1>5, <1>6, <1>7, <1>8, <1>9, <1>10, <1>11 DEF Next
<1> QED  BY Zenon, <1>2, <1>12

-----------------------------------------------------------------------------
(* Every step keeps the invariant. *)

(* A command that prepare takes is in use nowhere. *)
LEMMA FreshIsUnused ==
    ASSUME Unused # {}
    PROVE  /\ Fresh \in Commands /\ receipt[Fresh] = "none"
           /\ \A p \in Proposals : row[p].command # Fresh
           /\ \A r \in Requests : request[r].command # Fresh
<1>1. Fresh \in Unused  BY DEF Fresh
<1> QED  BY <1>1 DEF Unused, InUse

(* A row and a request get a new command; others keep what they refer to. *)
Renewed(r, p, a) ==
    /\ Unused # {}
    /\ row'[p].state = "pending" /\ row'[p].command = Fresh /\ row'[p].action = a
    /\ request'[r].command = Fresh /\ request'[r] # Idle
    /\ issued'[Fresh] = [proposal |-> p, action |-> a]
    /\ \A c \in Commands \ {Fresh} :
           receipt[c] # "none" \/ c \in Referenced(p, r) => issued'[c] = issued[c]
    /\ \A c \in Referenced(p, r) \ {Fresh} : c \in expired => c \in expired'

(* A row waits for an approval, without a command of its own. *)
Denied(r, p) ==
    /\ row'[p].state # "pending" /\ row'[p].command \in {0, row[p].command}
    /\ request'[r] = Idle
    /\ issued' = issued /\ expired' = expired

(* What prepare writes: a new command in one row and one request, or a row without
   its command; no other row or request loses its own. *)
LEMMA PreparedEffect ==
    ASSUME IndInv, NEW r \in Requests, NEW p \in Proposals, NEW a \in Actions, NEW existing \in Rows,
           Prepared(r, p, a, existing)
    PROVE  /\ TypeOK'
           /\ \A q \in Proposals \ {p} : row'[q] = row[q]
           /\ \A o \in Requests \ {r} : request'[o] = request[o]
           /\ row'[p].acked = row[p].acked
           /\ UNCHANGED <<receipt, release, skill>>
           /\ Renewed(r, p, a) \/ Denied(r, p)
<1>0. TypeOK  BY DEF IndInv
<1>1. /\ row \in [Proposals -> Rows] /\ request \in [Requests -> RequestRows]
      /\ existing \in Rows /\ existing.acked = row[p].acked
      /\ existing.acked \in Released \cup {"none"}
  BY <1>0 DEF TypeOK, Prepared, Rows
<1>2. UNCHANGED <<rollout, receipt, release, skill, experiment, promoted, guard, rollbacks>>
  BY DEF Prepared, runtimeVars, guardVars
<1>3. CASE Issue(r, p, a, existing)
  <2> DEFINE n == [state |-> "pending", action |-> a, command |-> Fresh, acked |-> existing.acked]
             q == [pc |-> "lookup", kind |-> "release", command |-> Fresh, server |-> "none"]
  <2>1. Unused # {} /\ approval' = approval  BY <1>3 DEF Issue
  <2>2. Fresh \in Commands  BY <2>1, FreshIsUnused
  <2>3. n \in Rows /\ q \in RequestRows  BY <1>1, <2>2 DEF Rows, RequestRows
  <2>4. row' = [row EXCEPT ![p] = n] /\ request' = [request EXCEPT ![r] = q]
    BY <1>3 DEF Issue
  <2>5. /\ n.state = "pending" /\ n.command = Fresh /\ n.action = a /\ n.acked = existing.acked
        /\ q.command = Fresh /\ q # Idle
    BY DEF Idle
  <2>6. /\ issued'[Fresh] = [proposal |-> p, action |-> a]
        /\ \A c \in Commands \ {Fresh} :
               receipt[c] # "none" \/ c \in Referenced(p, r) => issued'[c] = issued[c]
    BY <1>3, <2>2 DEF Issue
  <2>7. issued' \in [Commands -> CommandRows \cup {NoCommand}]
    <3>1. [proposal |-> p, action |-> a] \in CommandRows  BY DEF CommandRows
    <3> QED  BY <1>0, <1>3, <3>1 DEF Issue, TypeOK
  <2>8. /\ expired' \subseteq Commands /\ lapsed' \subseteq Commands
        /\ \A c \in Referenced(p, r) \ {Fresh} : c \in expired => c \in expired'
    BY <1>0, <1>3 DEF Issue, TypeOK
  <2> HIDE DEF n, q
  <2>9. row' \in [Proposals -> Rows] /\ request' \in [Requests -> RequestRows]
    BY <1>1, <2>3, <2>4
  <2>10. TypeOK'  BY Zenon, <1>0, <1>2, <2>1, <2>7, <2>8, <2>9 DEF TypeOK
  <2>11. /\ row'[p] = n /\ request'[r] = q
         /\ \A s \in Proposals \ {p} : row'[s] = row[s]
         /\ \A o \in Requests \ {r} : request'[o] = request[o]
    BY <1>1, <2>4
  <2>12. Renewed(r, p, a)  BY <2>1, <2>5, <2>6, <2>8, <2>11 DEF Renewed
  <2> QED  BY <1>1, <1>2, <2>5, <2>10, <2>11, <2>12
<1>4. CASE AskApproval(r, p, a, existing)
  <2>1. /\ approval' = [approval EXCEPT ![p][a] = "pending"] /\ a # "shadow"
        /\ row' = [row EXCEPT ![p] = existing] /\ request' = [request EXCEPT ![r] = Idle]
        /\ UNCHANGED <<issued, expired, lapsed>>
    BY <1>4 DEF AskApproval, ApprovalStands
  <2>2. approval' \in [Proposals -> [Actions \ {"shadow"} -> {"none", "pending", "approved"}]]
    BY Zenon, <1>0, <2>1 DEF TypeOK
  <2>3. row' \in [Proposals -> Rows] /\ request' \in [Requests -> RequestRows]
    BY <1>1, <2>1, ConstantRows
  <2>4. TypeOK'  BY Zenon, <1>0, <1>2, <2>1, <2>2, <2>3 DEF TypeOK
  <2>5. /\ row'[p] = existing /\ request'[r] = Idle
        /\ \A s \in Proposals \ {p} : row'[s] = row[s]
        /\ \A o \in Requests \ {r} : request'[o] = request[o]
    BY <1>1, <2>1
  <2>6. existing.state # "pending" /\ existing.command \in {0, row[p].command}  BY DEF Prepared
  <2>7. Denied(r, p)  BY <2>1, <2>5, <2>6 DEF Denied
  <2> QED  BY <1>1, <1>2, <2>4, <2>5, <2>7
<1> QED  BY Zenon, <1>3, <1>4 DEF Prepared

(* The types, in the other shapes. *)
LEMMA TypeKept ==
    ASSUME IndInv, \/ Quiet \/ Retreated
                   \/ \E p \in Proposals, c \in Commands : Moved(p, c)
                   \/ \E c \in Commands, p \in Proposals, a \in Actions : Applied(c, p, a)
    PROVE  TypeOK'
<1>0. TypeOK  BY DEF IndInv
<1>1. CASE Quiet  BY Zenon, <1>0, <1>1 DEF Quiet, Carried, RestTyped, TypeOK
<1>2. ASSUME NEW p \in Proposals, NEW c \in Commands, Moved(p, c)  PROVE TypeOK'
  <2>1. row \in [Proposals -> Rows] /\ receipt[c] \in Released  BY <1>0, <1>2 DEF TypeOK, Moved
  <2>2. row[p] \in Rows  BY <2>1
  <2>3. [row[p] EXCEPT !.state = receipt[c], !.acked = receipt[c]] \in Rows  BY Zenon, <2>1, <2>2 DEF Rows
  <2>4. row' = [row EXCEPT ![p] = [row[p] EXCEPT !.state = receipt[c], !.acked = receipt[c]]]
    BY Zenon, <1>2, <2>1 DEF Moved
  <2>5. row' \in [Proposals -> Rows]  BY <2>1, <2>3, <2>4
  <2> QED  BY Zenon, <1>0, <1>2, <2>5 DEF Moved, Carried, RestTyped, TypeOK
<1>3. ASSUME NEW c \in Commands, NEW p \in Proposals, NEW a \in Actions, Applied(c, p, a)
      PROVE  TypeOK'
  <2>1. release[p] \in Released \cup {"none"}  BY <1>0 DEF TypeOK
  <2>2. Transition(release[p], a) \in Released  BY SMTT(30), <1>3, <2>1, TransitionRises DEF Applied
  <2>3. /\ release' \in [Proposals -> Released \cup {"none"}]
        /\ receipt' \in [Commands -> Released \cup {"none"}]
    BY <1>0, <1>3, <2>2 DEF Applied, TypeOK
  <2>4. skill' \in [Versions -> {"candidate", "active", "retired"}]
    BY Zenon, <1>0, <1>3 DEF Applied, SkillAfter, TypeOK
  <2>5. expired' \subseteq Commands /\ UNCHANGED <<row, issued>>  BY <1>0, <1>3 DEF Applied, TypeOK
  <2>6. RestTyped' /\ request' \in [Requests -> RequestRows]  BY Zenon, <1>3 DEF Applied, Carried
  <2> QED  BY Zenon, <1>0, <2>3, <2>4, <2>5, <2>6 DEF RestTyped, TypeOK
<1>4. CASE Retreated
  <2>1. skill' \in [Versions -> {"candidate", "active", "retired"}]
    BY <1>0, <1>4 DEF Retreated, TypeOK
  <2> QED  BY Zenon, <1>0, <1>4, <2>1 DEF Retreated, RestTyped, TypeOK
<1> QED  BY Zenon, <1>1, <1>2, <1>3, <1>4

(* A command that a request carries after such a step was carried, or held by a row. *)
LEMMA CarriedBefore ==
    ASSUME IndInv, Carried, NEW r \in Requests, NEW c \in Commands, request'[r].command = c
    PROVE  /\ request'[r] # Idle
           /\ (\E o \in Requests : request[o].command = c) \/ \E p \in Proposals : Owns(p, c)
<1>1. request'[r] # Idle  BY ConstantRows
<1> QED  BY <1>1 DEF Carried

(* Open requests carry commands. *)
LEMMA CarriedCommands ==
    ASSUME IndInv, Carried
    PROVE  RequestsCarry'
<1> SUFFICES ASSUME NEW r \in Requests, request'[r] # Idle  PROVE request'[r].command \in Commands
  BY DEF RequestsCarry
<1>1. CASE request[r] # Idle /\ request'[r].command = request[r].command
  BY <1>1 DEF IndInv, RequestsCarry
<1>2. ASSUME NEW p \in Proposals, Owns(p, request'[r].command)
      PROVE  request'[r].command \in Commands
  BY Zenon, <1>2 DEF IndInv, RowsHold, Owns
<1> QED  BY <1>1, <1>2 DEF Carried

(* So every step keeps it. *)
LEMMA RequestsStep ==
    ASSUME IndInv, [Next]_vars
    PROVE  RequestsCarry'
<1>1. ASSUME NEW r \in Requests, NEW p \in Proposals, NEW a \in Actions, NEW existing \in Rows,
             Prepared(r, p, a, existing)
      PROVE  RequestsCarry'
  <2>1. /\ \A o \in Requests \ {r} : request'[o] = request[o]
        /\ (Unused # {} /\ request'[r].command = Fresh) \/ request'[r] = Idle
    BY Zenon, <1>1, PreparedEffect DEF Renewed, Denied
  <2> QED  BY <2>1, FreshIsUnused DEF IndInv, RequestsCarry
<1>2. CASE Carried  BY Zenon, <1>2, CarriedCommands
<1>3. CASE Retreated  BY <1>3 DEF Retreated, IndInv, RequestsCarry
<1> QED  BY Zenon, StepShapes, <1>1, <1>2, <1>3 DEF Quiet, Moved, Applied

(* What the shapes without a new command have in common: a command in use was in
   use, and is what it was. *)
LEMMA InUseBefore ==
    ASSUME IndInv, issued' = issued, NEW c \in Commands,
           Carried \/ request' = request,
           \A p \in Proposals : row'[p].command \in {0, row[p].command},
           receipt'[c] # "none" => InUse(c), InUse(c)'
    PROVE  InUse(c)
<1>1. CASE receipt'[c] # "none"  BY <1>1
<1>2. ASSUME NEW p \in Proposals, row'[p].command = c  PROVE InUse(c)
  BY <1>2, ConstantRows DEF InUse
<1>3. ASSUME NEW r \in Requests, request'[r].command = c  PROVE InUse(c)
  <2>1. CASE Carried  BY <1>3, <2>1, CarriedBefore DEF InUse, Owns
  <2>2. CASE request' = request  BY <1>3, <2>2 DEF InUse
  <2> QED  BY <2>1, <2>2
<1> QED  BY <1>1, <1>2, <1>3 DEF InUse

(* A command in use belongs to a deployment. *)
LEMMA IssuedStep ==
    ASSUME IndInv, [Next]_vars
    PROVE  IssuedInUse'
<1>0. SUFFICES ASSUME NEW c \in Commands, InUse(c)'  PROVE issued'[c].proposal \in Proposals
  BY DEF IssuedInUse
<1>1. ASSUME InUse(c), issued' = issued  PROVE issued'[c].proposal \in Proposals
  BY <1>1 DEF IndInv, IssuedInUse
<1>2. CASE Quiet
  BY <1>0, <1>1, <1>2, InUseBefore DEF Quiet, InUse
<1>3. CASE Retreated
  BY <1>0, <1>1, <1>3, InUseBefore DEF Retreated, InUse
<1>4. ASSUME NEW p \in Proposals, NEW d \in Commands, Moved(p, d)
      PROVE  issued'[c].proposal \in Proposals
  <2>1. row \in [Proposals -> Rows]  BY DEF IndInv, TypeOK
  <2>2. \A q \in Proposals : row'[q].command = row[q].command
    BY <1>4, <2>1 DEF Moved, Rows
  <2> QED  BY Zenon, <1>0, <1>1, <1>4, <2>2, InUseBefore DEF Moved, InUse
<1>5. ASSUME NEW d \in Commands, NEW p \in Proposals, NEW a \in Actions, Applied(d, p, a)
      PROVE  issued'[c].proposal \in Proposals
  <2>1. CASE c = d  BY <1>5, <2>1 DEF Applied
  <2>2. CASE c # d
    <3>1. receipt'[c] = receipt[c]  BY <1>5, <2>2 DEF Applied, IndInv, TypeOK
    <3> QED  BY <1>0, <1>1, <1>5, <3>1, InUseBefore DEF Applied, InUse
  <2> QED  BY <2>1, <2>2
<1>6. ASSUME NEW r \in Requests, NEW p \in Proposals, NEW a \in Actions, NEW existing \in Rows,
             Prepared(r, p, a, existing)
      PROVE  issued'[c].proposal \in Proposals
  <2>1. /\ \A q \in Proposals \ {p} : row'[q] = row[q]
        /\ \A o \in Requests \ {r} : request'[o] = request[o]
        /\ receipt' = receipt
    BY Zenon, <1>6, PreparedEffect
  <2>2. CASE Renewed(r, p, a)
    <3>1. CASE c = Fresh  BY <2>2, <3>1 DEF Renewed
    <3>2. CASE c # Fresh
      <4>1. receipt[c] # "none" \/ c \in Referenced(p, r)
        BY <1>0, <2>1, <2>2, <3>2 DEF InUse, Referenced, Renewed
      <4>2. InUse(c)  BY <4>1 DEF InUse, Referenced
      <4> QED  BY <2>2, <3>2, <4>1, <4>2 DEF IndInv, IssuedInUse, Renewed
    <3> QED  BY <3>1, <3>2
  <2>3. CASE Denied(r, p)
    <3>1. InUse(c)  BY <1>0, <2>1, <2>3, ConstantRows DEF InUse, Denied
    <3> QED  BY <1>1, <2>3, <3>1 DEF Denied
  <2> QED  BY Zenon, <1>6, <2>2, <2>3, PreparedEffect
<1> QED  BY Zenon, StepShapes, <1>2, <1>3, <1>4, <1>5, <1>6

(* Pending rows hold commands of their own. *)
LEMMA RowsStep ==
    ASSUME IndInv, [Next]_vars
    PROVE  RowsHold'
<1>0. SUFFICES ASSUME NEW q \in Proposals, row'[q].state = "pending"
               PROVE  /\ row'[q].command \in Commands
                      /\ issued'[row'[q].command] = [proposal |-> q, action |-> row'[q].action]
  BY DEF RowsHold
<1>1. ASSUME row'[q] = row[q], issued' = issued
      PROVE  /\ row'[q].command \in Commands
             /\ issued'[row'[q].command] = [proposal |-> q, action |-> row'[q].action]
  BY <1>0, <1>1 DEF IndInv, RowsHold
<1>2. CASE Quiet \/ Retreated \/ \E c \in Commands, p \in Proposals, a \in Actions : Applied(c, p, a)
  BY <1>1, <1>2 DEF Quiet, Retreated, Applied
<1>3. ASSUME NEW p \in Proposals, NEW c \in Commands, Moved(p, c)
      PROVE  row'[q] = row[q] /\ issued' = issued
  <2>1. row \in [Proposals -> Rows] /\ receipt[c] # "pending"
    BY DEF IndInv, TypeOK, Released
  <2>2. p = q => row'[q].state = receipt[c]  BY <1>3, <2>1 DEF Moved, Rows
  <2>3. p # q  BY <1>0, <2>1, <2>2
  <2> QED  BY <1>3, <2>1, <2>3 DEF Moved
<1>4. ASSUME NEW r \in Requests, NEW p \in Proposals, NEW a \in Actions, NEW existing \in Rows,
             Prepared(r, p, a, existing)
      PROVE  /\ row'[q].command \in Commands
             /\ issued'[row'[q].command] = [proposal |-> q, action |-> row'[q].action]
  <2>1. \A s \in Proposals \ {p} : row'[s] = row[s]  BY Zenon, <1>4, PreparedEffect
  <2>2. CASE Renewed(r, p, a)
    <3>1. CASE q = p  BY <2>2, <3>1, FreshIsUnused DEF Renewed
    <3>2. CASE q # p
      <4>1. row'[q] = row[q]  BY <2>1, <3>2
      <4>2. /\ row[q].command \in Commands
            /\ issued[row[q].command] = [proposal |-> q, action |-> row[q].action]
        BY <1>0, <4>1 DEF IndInv, RowsHold
      <4>3. row[q].command # Fresh  BY <2>2, FreshIsUnused DEF Renewed
      <4>4. row[q].command \in Referenced(p, r)  BY <3>2 DEF Referenced
      <4> QED  BY <2>2, <4>1, <4>2, <4>3, <4>4 DEF Renewed
    <3> QED  BY <3>1, <3>2
  <2>3. CASE Denied(r, p)
    <3>1. q # p  BY <1>0, <2>3 DEF Denied
    <3> QED  BY <1>1, <2>1, <2>3, <3>1 DEF Denied
  <2> QED  BY Zenon, <1>4, <2>2, <2>3, PreparedEffect
<1> QED  BY Zenon, StepShapes, <1>1, <1>2, <1>3, <1>4

(* A command that can be accepted after a step could be before, or is the new one. *)
LEMMA LiveStep ==
    ASSUME IndInv, [Next]_vars
    PROVE  LiveIsHeld'
<1>0. SUFFICES ASSUME NEW c \in Commands, Live(c)'  PROVE Owns(issued[c].proposal, c)'
  BY DEF LiveIsHeld
<1>1. /\ c \notin expired' /\ receipt'[c] = "none"
      /\ \/ \E q \in Proposals : row'[q].state = "pending" /\ row'[q].command = c
         \/ \E r \in Requests : request'[r].command = c
  BY <1>0 DEF Live, Owns
<1>2. Live(c) => Owns(issued[c].proposal, c)  BY DEF IndInv, LiveIsHeld
<1>3. ASSUME c \notin expired, receipt[c] = "none", row' = row, Carried \/ request' = request
      PROVE  Live(c)
  <2>1. CASE Carried
    <3>1. ASSUME NEW r \in Requests, request'[r].command = c  PROVE Live(c)
      BY <1>3, <2>1, <3>1, CarriedBefore DEF Live
    <3> QED  BY <1>1, <1>3, <3>1 DEF Live, Owns
  <2>2. CASE request' = request  BY <1>1, <1>3, <2>2 DEF Live, Owns
  <2> QED  BY <1>3, <2>1, <2>2
<1>4. CASE Quiet \/ Retreated
  <2>1. /\ c \notin expired /\ receipt[c] = "none" /\ row' = row /\ issued' = issued
        /\ Carried \/ request' = request
    BY <1>1, <1>4 DEF Quiet, Retreated
  <2> QED  BY <1>2, <1>3, <2>1 DEF Owns
<1>5. ASSUME NEW d \in Commands, NEW p \in Proposals, NEW a \in Actions, Applied(d, p, a)
      PROVE  Owns(issued[c].proposal, c)'
  <2>0. receipt \in [Commands -> Released \cup {"none"}] /\ release[p] \in Released \cup {"none"}
    BY DEF IndInv, TypeOK
  <2>1. c # d => receipt'[c] = receipt[c]  BY <1>5, <2>0 DEF Applied
  <2>2. c # d  BY <1>1, <1>5, <2>0 DEF Applied
  <2>3. c \notin expired /\ receipt[c] = "none" /\ row' = row /\ issued' = issued /\ Carried
    BY <1>1, <1>5, <2>1, <2>2 DEF Applied
  <2> QED  BY <1>2, <1>3, <2>3 DEF Owns
<1>6. ASSUME NEW p \in Proposals, NEW d \in Commands, Moved(p, d)
      PROVE  Owns(issued[c].proposal, c)'
  <2>1. /\ c \notin expired /\ receipt[c] = "none" /\ issued' = issued /\ Carried
        /\ Owns(p, d) /\ receipt[d] # "none"
    BY <1>1, <1>6 DEF Moved
  <2>2. row \in [Proposals -> Rows] /\ receipt[d] \in Released  BY <2>1 DEF IndInv, TypeOK
  <2>3. \A q \in Proposals \ {p} : row'[q] = row[q]  BY <1>6, <2>2 DEF Moved
  <2>4. row'[p].state # "pending"  BY <1>6, <2>2 DEF Moved, Rows, Released
  <2>5. ASSUME NEW q \in Proposals, row'[q].state = "pending", row'[q].command = c
        PROVE  Live(c)
    BY <2>1, <2>3, <2>4, <2>5 DEF Live, Owns
  <2>6. ASSUME NEW r \in Requests, request'[r].command = c  PROVE Live(c)
    BY <2>1, <2>6, CarriedBefore DEF Live
  <2>7. Owns(issued[c].proposal, c)  BY <1>1, <1>2, <2>5, <2>6
  <2>8. issued[c].proposal # p  BY <2>1, <2>7 DEF Owns
  <2>9. InUse(c)  BY SMTT(30), <1>1, <2>1, <2>3, <2>4, CarriedBefore DEF InUse, Owns
  <2>10. issued[c].proposal \in Proposals  BY <2>9 DEF IndInv, IssuedInUse
  <2> QED  BY <2>1, <2>3, <2>7, <2>8, <2>10 DEF Owns
<1>7. ASSUME NEW r \in Requests, NEW p \in Proposals, NEW a \in Actions, NEW existing \in Rows,
             Prepared(r, p, a, existing)
      PROVE  Owns(issued[c].proposal, c)'
  <2>1. /\ \A q \in Proposals \ {p} : row'[q] = row[q]
        /\ \A o \in Requests \ {r} : request'[o] = request[o]
        /\ receipt' = receipt
    BY Zenon, <1>7, PreparedEffect
  <2>2. \A d \in Commands : Owns(p, d) => d \in expired  BY <1>7 DEF Prepared
  <2>3. ASSUME c \notin expired, c \in Referenced(p, r), issued'[c] = issued[c],
               \/ \E q \in Proposals \ {p} : Owns(q, c)
               \/ \E o \in Requests : request[o].command = c
        PROVE  Owns(issued[c].proposal, c)'
    <3>1. Live(c)  BY <1>1, <2>1, <2>3 DEF Live
    <3>2. Owns(issued[c].proposal, c)  BY <1>2, <3>1
    <3>3. issued[c].proposal # p  BY <2>2, <2>3, <3>2
    <3>4. InUse(c)  BY <2>3 DEF InUse, Owns
    <3>5. issued[c].proposal \in Proposals  BY <3>4 DEF IndInv, IssuedInUse
    <3> QED  BY <2>1, <2>3, <3>2, <3>3, <3>5 DEF Owns
  <2>4. CASE Renewed(r, p, a)
    <3>1. CASE c = Fresh  BY SMTT(30), <2>4, <3>1 DEF Renewed, Owns
    <3>2. CASE c # Fresh
      <4>1. \/ \E q \in Proposals \ {p} : Owns(q, c)
            \/ \E o \in Requests \ {r} : request[o].command = c
        BY <1>1, <2>1, <2>4, <3>2 DEF Renewed, Owns
      <4>2. c \in Referenced(p, r)  BY <4>1 DEF Referenced, Owns
      <4>3. c \notin expired /\ issued'[c] = issued[c]  BY <1>1, <2>4, <3>2, <4>2 DEF Renewed
      <4> QED  BY <2>3, <4>1, <4>2, <4>3
    <3> QED  BY <3>1, <3>2
  <2>5. CASE Denied(r, p)
    <3>1. \/ \E q \in Proposals \ {p} : Owns(q, c)
          \/ \E o \in Requests \ {r} : request[o].command = c
      BY <1>1, <2>1, <2>5, ConstantRows DEF Denied, Owns
    <3>2. c \in Referenced(p, r)  BY <3>1 DEF Referenced, Owns
    <3>3. c \notin expired /\ issued'[c] = issued[c]  BY <1>1, <2>5 DEF Denied
    <3> QED  BY <2>3, <3>1, <3>2, <3>3
  <2> QED  BY Zenon, <1>7, <2>4, <2>5, PreparedEffect
<1> QED  BY Zenon, StepShapes, <1>4, <1>5, <1>6, <1>7

(* No release goes back a stage, and a command with a receipt stays what it was. *)
LEMMA ReleasesRise ==
    ASSUME IndInv, [Next]_vars
    PROVE  /\ \A p \in Proposals : Stage(release[p]) <= Stage(release'[p])
           /\ \A c \in Commands : receipt[c] # "none" => issued'[c] = issued[c]
           /\ \/ receipt' = receipt
              \/ \E c \in Commands, p \in Proposals, a \in Actions : Applied(c, p, a)
<1>0. release \in [Proposals -> Released \cup {"none"}]  BY DEF IndInv, TypeOK
<1>1. \A p \in Proposals : Stage(release[p]) \in 0 .. 4  BY <1>0, StageType
<1>2. CASE Quiet \/ \E p \in Proposals, c \in Commands : Moved(p, c)
  <2>1. UNCHANGED <<issued, receipt, release>>  BY Zenon, <1>2 DEF Quiet, Moved
  <2> QED  BY <1>1, <2>1
<1>3. CASE Retreated  BY <1>3 DEF Retreated
<1>4. ASSUME NEW c \in Commands, NEW p \in Proposals, NEW a \in Actions, Applied(c, p, a)
      PROVE  issued' = issued /\ \A q \in Proposals : Stage(release[q]) <= Stage(release'[q])
  <2>1. /\ Transition(release[p], a) = TargetStates[a]
        /\ Stage(release[p]) <= Stage(TargetStates[a])
    BY <1>0, <1>4, TransitionRises DEF Applied
  <2>2. release' = [release EXCEPT ![p] = TargetStates[a]]  BY Zenon, <1>4, <2>1 DEF Applied
  <2>3. ASSUME NEW q \in Proposals  PROVE Stage(release[q]) <= Stage(release'[q])
    <3>1. CASE q = p
      <4>1. release'[q] = TargetStates[a]  BY <1>0, <2>2, <3>1
      <4> QED  BY <2>1, <3>1, <4>1
    <3>2. CASE q # p
      <4>1. release'[q] = release[q]  BY <1>0, <2>2, <3>2
      <4> QED  BY <1>1, <4>1
    <3> QED  BY <3>1, <3>2
  <2> QED  BY <1>4, <2>3 DEF Applied
<1>5. ASSUME NEW r \in Requests, NEW p \in Proposals, NEW a \in Actions, NEW existing \in Rows,
             Prepared(r, p, a, existing)
      PROVE  /\ \A q \in Proposals : Stage(release[q]) <= Stage(release'[q])
             /\ \A c \in Commands : receipt[c] # "none" => issued'[c] = issued[c]
             /\ receipt' = receipt
  <2>1. UNCHANGED <<receipt, release>>  BY Zenon, <1>5, PreparedEffect
  <2>2. CASE Renewed(r, p, a)
    <3>1. \A c \in Commands : receipt[c] # "none" => issued'[c] = issued[c]
      BY <2>2, FreshIsUnused DEF Renewed
    <3> QED  BY <1>1, <2>1, <3>1
  <2>3. CASE Denied(r, p)
    <3>1. issued' = issued  BY Zenon, <2>3 DEF Denied
    <3> QED  BY <1>1, <2>1, <3>1
  <2> QED  BY Zenon, <1>5, <2>2, <2>3, PreparedEffect
<1> QED  BY Zenon, StepShapes, <1>2, <1>3, <1>4, <1>5 DEF Quiet, Moved, Retreated

(* Receipts stay true. *)
LEMMA ReceiptsStep ==
    ASSUME IndInv, TypeOK', [Next]_vars
    PROVE  ReceiptsHold'
<1>0. SUFFICES ASSUME NEW c \in Commands, receipt'[c] # "none"
               PROVE  /\ receipt'[c] = TargetStates[issued'[c].action]
                      /\ Stage(receipt'[c]) <= Stage(release'[issued'[c].proposal])
  BY Zenon DEF ReceiptsHold
<1>1. ASSUME receipt'[c] = receipt[c]
      PROVE  /\ receipt'[c] = TargetStates[issued'[c].action]
             /\ Stage(receipt'[c]) <= Stage(release'[issued'[c].proposal])
  <2> DEFINE p == issued[c].proposal
  <2>1. receipt[c] # "none" /\ issued'[c] = issued[c]  BY <1>0, <1>1, ReleasesRise
  <2>2. p \in Proposals  BY <2>1 DEF IndInv, IssuedInUse, InUse
  <2>3. /\ receipt[c] = TargetStates[issued[c].action]
        /\ Stage(receipt[c]) <= Stage(release[p])
    BY <2>1 DEF IndInv, ReceiptsHold
  <2>4. Stage(release[p]) <= Stage(release'[p])  BY <2>2, ReleasesRise
  <2>5. /\ receipt[c] \in Released \cup {"none"} /\ release[p] \in Released \cup {"none"}
        /\ release'[p] \in Released \cup {"none"}
    BY SMTT(30), <2>2 DEF IndInv, TypeOK
  <2>6. Stage(receipt[c]) \in 0 .. 4 /\ Stage(release[p]) \in 0 .. 4 /\ Stage(release'[p]) \in 0 .. 4
    BY <2>5, StageType
  <2> HIDE DEF p
  <2>7. Stage(receipt[c]) <= Stage(release'[p])  BY <2>3, <2>4, <2>6
  <2> QED  BY <1>1, <2>1, <2>3, <2>7 DEF p
<1>2. ASSUME NEW d \in Commands, NEW p \in Proposals, NEW a \in Actions, Applied(d, p, a)
      PROVE  /\ receipt'[c] = TargetStates[issued'[c].action]
             /\ Stage(receipt'[c]) <= Stage(release'[issued'[c].proposal])
  <2>0. /\ release \in [Proposals -> Released \cup {"none"}]
        /\ receipt \in [Commands -> Released \cup {"none"}]
    BY DEF IndInv, TypeOK
  <2>1. CASE c # d
    <3>1. receipt'[c] = receipt[c]  BY <1>2, <2>0, <2>1 DEF Applied
    <3> QED  BY <1>1, <3>1
  <2>2. CASE c = d
    <3>1. Transition(release[p], a) = TargetStates[a]  BY Zenon, <1>2, <2>0, TransitionRises DEF Applied
    <3>2. /\ receipt'[c] = TargetStates[a] /\ release'[p] = TargetStates[a]
          /\ issued'[c].proposal = p /\ issued'[c].action = a
      BY Zenon, <1>2, <2>0, <2>2, <3>1 DEF Applied
    <3>3. Stage(TargetStates[a]) <= Stage(TargetStates[a])  BY StageType
    <3> QED  BY <3>2, <3>3
  <2> QED  BY <2>1, <2>2
<1> QED  BY Zenon, <1>1, <1>2, ReleasesRise

(* The control plane follows the runtime. *)
LEMMA LedgerStep ==
    ASSUME IndInv, TypeOK', [Next]_vars
    PROVE  LedgerIsNotAhead'
<1>0. SUFFICES ASSUME NEW q \in Proposals  PROVE Stage(row'[q].acked) <= Stage(release'[q])
  BY DEF LedgerIsNotAhead
<1>1. /\ Stage(row[q].acked) \in 0 .. 4 /\ Stage(release[q]) \in 0 .. 4
      /\ Stage(release'[q]) \in 0 .. 4 /\ Stage(row[q].acked) <= Stage(release[q])
      /\ Stage(release[q]) <= Stage(release'[q])
  <2>1. row[q] \in Rows /\ release[q] \in Released \cup {"none"}
        /\ release'[q] \in Released \cup {"none"}
    BY DEF IndInv, TypeOK
  <2>2. row[q].acked \in Released \cup {"none"}  BY <2>1 DEF Rows
  <2> QED  BY Zenon, <2>1, <2>2, StageType, ReleasesRise DEF IndInv, LedgerIsNotAhead
<1>2. ASSUME row'[q].acked = row[q].acked  PROVE Stage(row'[q].acked) <= Stage(release'[q])
  <2>1. Stage(row'[q].acked) = Stage(row[q].acked)  BY Zenon, <1>2
  <2>2. Stage(row[q].acked) <= Stage(release'[q])  BY <1>1
  <2> QED  BY <2>1, <2>2
<1>3. CASE Quiet \/ Retreated \/ \E c \in Commands, p \in Proposals, a \in Actions : Applied(c, p, a)
  BY <1>2, <1>3 DEF Quiet, Retreated, Applied
<1>4. ASSUME NEW r \in Requests, NEW p \in Proposals, NEW a \in Actions, NEW existing \in Rows,
             Prepared(r, p, a, existing)
      PROVE  row'[q].acked = row[q].acked
  <2>1. row'[p].acked = row[p].acked /\ \A s \in Proposals \ {p} : row'[s] = row[s]
    BY Zenon, <1>4, PreparedEffect
  <2> QED  BY <2>1
<1>5. ASSUME NEW p \in Proposals, NEW c \in Commands, Moved(p, c)
      PROVE  Stage(row'[q].acked) <= Stage(release'[q])
  <2>0. row \in [Proposals -> Rows]  BY DEF IndInv, TypeOK
  <2>1. CASE q # p
    <3>1. row'[q] = row[q]  BY <1>5, <2>0, <2>1 DEF Moved
    <3> QED  BY <1>2, <3>1
  <2>2. CASE q = p
    <3>1. row'[q].acked = receipt[c]  BY <1>5, <2>0, <2>2 DEF Moved, Rows
    <3>2. issued[c].proposal = q
      <4>1. row[q].state = "pending" /\ row[q].command = c  BY <1>5, <2>2 DEF Moved, Owns
      <4>2. issued[c] = [proposal |-> q, action |-> row[q].action]
        BY Zenon, <4>1 DEF IndInv, RowsHold
      <4> QED  BY <4>2
    <3>3. Stage(receipt[c]) <= Stage(release[q])  BY <1>5, <3>2 DEF Moved, IndInv, ReceiptsHold
    <3>4. release'[q] = release[q]  BY <1>5 DEF Moved
    <3> QED  BY <3>1, <3>3, <3>4
  <2> QED  BY <2>1, <2>2
<1> QED  BY Zenon, StepShapes, <1>2, <1>3, <1>4, <1>5

(* A step of a release that was applied is not applied again. *)
LEMMA OnceStep ==
    ASSUME IndInv, [Next]_vars
    PROVE  AppliedOnce'
<1>0. SUFFICES ASSUME NEW c \in Commands, NEW d \in Commands, c # d,
                      receipt'[c] # "none", receipt'[d] # "none", issued'[c] = issued'[d]
               PROVE  issued'[c].action = "shadow"
  BY DEF AppliedOnce
<1>1. ASSUME receipt' = receipt  PROVE issued'[c].action = "shadow"
  BY Zenon, <1>0, <1>1, ReleasesRise DEF IndInv, AppliedOnce
<1>2. ASSUME NEW e \in Commands, NEW p \in Proposals, NEW a \in Actions, Applied(e, p, a)
      PROVE  issued'[c].action = "shadow"
  <2>0. receipt \in [Commands -> Released \cup {"none"}]
        /\ release[p] \in Released \cup {"none"} /\ issued' = issued
    BY Zenon, <1>2 DEF IndInv, TypeOK, Applied
  <2>1. \A x \in Commands \ {e} : receipt'[x] = receipt[x]  BY Zenon, <1>2, <2>0 DEF Applied
  <2>2. ASSUME NEW x \in Commands \ {e}, receipt[x] # "none", issued[x] = issued[e]
        PROVE  a = "shadow"
    <3>1. issued[x].proposal = p /\ issued[x].action = a  BY <1>2, <2>2 DEF Applied
    <3>2. receipt[x] = TargetStates[a] /\ Stage(receipt[x]) <= Stage(release[p])
      BY <2>2, <3>1 DEF IndInv, ReceiptsHold
    <3>3. a # "shadow" => Stage(release[p]) < Stage(TargetStates[a])
      BY <1>2, <2>0, TransitionRises DEF Applied
    <3>4. Stage(release[p]) \in 0 .. 4 /\ Stage(TargetStates[a]) \in 0 .. 4
      BY <2>0, StageType
    <3> QED  BY <3>2, <3>3, <3>4
  <2>3. issued[e].action = a  BY Zenon, <1>2 DEF Applied
  <2>4. CASE c = e  BY <1>0, <2>0, <2>1, <2>2, <2>3, <2>4
  <2>5. CASE d = e  BY <1>0, <2>0, <2>1, <2>2, <2>3, <2>5
  <2>6. CASE c # e /\ d # e  BY <1>0, <2>0, <2>1, <2>6 DEF IndInv, AppliedOnce
  <2> QED  BY <2>4, <2>5, <2>6
<1> QED  BY Zenon, <1>1, <1>2, ReleasesRise

(* A swap of the active version with another keeps one active version. *)
LEMMA Swapped ==
    ASSUME TypeOK, OneActiveVersion, NEW v \in Versions, NEW w \in Versions, v # w,
           skill[v] = "active", skill' = [skill EXCEPT ![v] = "retired", ![w] = "active"]
    PROVE  OneActiveVersion'
<1>1. skill \in [Versions -> {"candidate", "active", "retired"}]  BY DEF TypeOK
<1>2. \A u \in Versions : skill[u] = "active" <=> u = v  BY DEF OneActiveVersion
<1>3. \A u \in Versions : skill'[u] = "active" <=> u = w  BY <1>1, <1>2
<1>4. {u \in Versions : skill'[u] = "active"} = {w}  BY Zenon, <1>3
<1> QED  BY Zenon, <1>4 DEF OneActiveVersion

(* There is always one active version. *)
LEMMA ActiveStep ==
    ASSUME IndInv, [Next]_vars
    PROVE  OneActiveVersion'
<1>0. TypeOK /\ OneActiveVersion  BY DEF IndInv
<1>1. ASSUME skill' = skill  PROVE OneActiveVersion'  BY <1>0, <1>1 DEF OneActiveVersion
<1>2. CASE Quiet \/ \E p \in Proposals, c \in Commands : Moved(p, c)
  BY Zenon, <1>1, <1>2 DEF Quiet, Moved
<1>3. ASSUME NEW r \in Requests, NEW p \in Proposals, NEW a \in Actions, NEW existing \in Rows,
             Prepared(r, p, a, existing)
      PROVE  skill' = skill
  BY Zenon, <1>3, PreparedEffect
<1>4. ASSUME NEW v \in Versions, NEW w \in Versions, skill[v] = "active", skill[w] = "retired",
             skill' = [skill EXCEPT ![v] = "retired", ![w] = "active"]
      PROVE  OneActiveVersion'
  BY Zenon, <1>0, <1>4, Swapped
<1>5. ASSUME NEW c \in Commands, NEW p \in Proposals, NEW a \in Actions, Applied(c, p, a)
      PROVE  OneActiveVersion'
  <2>1. /\ Baseline[p] \in Versions /\ Candidate[p] \in Versions /\ Baseline[p] # Candidate[p]
    BY ReleaseAssumption
  <2>2. CASE a = "promote"
    <3>1. skill[Baseline[p]] = "active" /\ skill' = SkillAfter(p, a)  BY <1>5, <2>2 DEF Applied
    <3>2. ~Undoes(p, a)  BY <2>2 DEF Undoes
    <3>3. skill' = [skill EXCEPT ![Baseline[p]] = "retired", ![Candidate[p]] = "active"]
      BY <2>2, <3>1, <3>2 DEF SkillAfter
    <3> QED  BY Zenon, <1>0, <2>1, <3>1, <3>3, Swapped
  <2>3. CASE a # "promote" /\ Undoes(p, a)
    <3>1. /\ skill[Candidate[p]] = "active"
          /\ skill' = [skill EXCEPT ![Candidate[p]] = "retired", ![Baseline[p]] = "active"]
      BY <1>5, <2>3 DEF Applied, SkillAfter
    <3> QED  BY Zenon, <1>0, <2>1, <3>1, Swapped
  <2>4. CASE a # "promote" /\ ~Undoes(p, a)
    <3>1. skill' = skill  BY <1>5, <2>4 DEF Applied, SkillAfter
    <3> QED  BY <1>1, <3>1
  <2> QED  BY <2>2, <2>3, <2>4
<1>6. CASE Retreated  BY Zenon, <1>1, <1>4, <1>6 DEF Retreated
<1> QED  BY Zenon, StepShapes, <1>1, <1>2, <1>3, <1>5, <1>6

-----------------------------------------------------------------------------
(* Theorems. *)

(* Nothing is released yet, and the seed is active. *)
LEMMA InitIndInv == Init => IndInv
<1> SUFFICES ASSUME Init  PROVE IndInv  OBVIOUS
<1>1. /\ \A p \in Proposals : row[p] = NoRow /\ release[p] = "none"
      /\ \A r \in Requests : request[r] = Idle
      /\ \A c \in Commands : receipt[c] = "none"
  BY DEF Init
<1>2. NoRow.state = "none" /\ NoRow.command = 0 /\ NoRow.acked = "none"  BY DEF NoRow
<1>3. TypeOK
  <2>1. /\ row \in [Proposals -> Rows] /\ request \in [Requests -> RequestRows]
        /\ issued \in [Commands -> CommandRows \cup {NoCommand}]
    BY ConstantRows DEF Init
  <2>2. /\ skill \in [Versions -> {"candidate", "active", "retired"}]
        /\ guard \in [active : Versions, baseline : Versions] /\ rollbacks \in 0 .. MaxRollbacks
    BY ReleaseAssumption DEF Init, NoGuard
  <2> QED  BY <2>1, <2>2 DEF Init, TypeOK, RolloutStates
<1>4. \A c \in Commands : ~InUse(c) /\ ~Live(c)
  BY <1>1, <1>2, ConstantRows DEF InUse, Live, Owns
<1>5. IssuedInUse /\ LiveIsHeld /\ ReceiptsHold /\ AppliedOnce
  BY <1>1, <1>4 DEF IssuedInUse, LiveIsHeld, ReceiptsHold, AppliedOnce
<1>6. RequestsCarry /\ RowsHold  BY <1>1, <1>2 DEF RequestsCarry, RowsHold
<1>7. LedgerIsNotAhead  BY <1>1, <1>2 DEF LedgerIsNotAhead, Stage
<1>8. OneActiveVersion
  <2>1. {w \in Versions : skill[w] = "active"} = {Seed}  BY ReleaseAssumption DEF Init
  <2> QED  BY <2>1, ReleaseAssumption DEF OneActiveVersion
<1> QED  BY <1>3, <1>5, <1>6, <1>7, <1>8 DEF IndInv

(* Every step keeps the invariant. *)
LEMMA IndInvStep == IndInv /\ [Next]_vars => IndInv'
<1> SUFFICES ASSUME IndInv, [Next]_vars  PROVE IndInv'  OBVIOUS
<1>1. TypeOK'  BY Zenon, StepShapes, TypeKept, PreparedEffect
<1> QED  BY <1>1, IssuedStep, RequestsStep, RowsStep, LiveStep, ReceiptsStep, LedgerStep, OnceStep,
            ActiveStep DEF IndInv

(* The invariant holds in every reachable state. *)
THEOREM Invariance == Spec => []IndInv
BY InitIndInv, IndInvStep, PTL DEF Spec

(* Every row, request and counter keeps its type. *)
THEOREM TypeCorrect == Spec => []TypeOK
<1>1. IndInv => TypeOK  BY DEF IndInv
<1> QED  BY <1>1, Invariance, PTL

(* With answers lost, commands sent again and requests overlapping, acknowledge never
   records a step that the runtime has not taken. *)
THEOREM NotAhead == Spec => []LedgerIsNotAhead
<1>1. IndInv => LedgerIsNotAhead  BY DEF IndInv
<1> QED  BY <1>1, Invariance, PTL

(* apply takes no live step of a release for two commands. *)
THEOREM StepsAreAppliedOnce == Spec => []AppliedOnce
<1>1. IndInv => AppliedOnce  BY DEF IndInv
<1> QED  BY <1>1, Invariance, PTL

(* recover_expired_pending never leaves two commands of a deployment that the
   receiver would accept. *)
THEOREM CommandsDoNotCompete == Spec => []OneLiveCommand
<1>1. IndInv => OneLiveCommand
  BY DEF IndInv, LiveIsHeld, OneLiveCommand, Owns
<1> QED  BY <1>1, Invariance, PTL

(* Releases, rollbacks and the guard leave the skill with exactly one active version. *)
THEOREM OneVersionServes == Spec => []OneActiveVersion
<1>1. IndInv => OneActiveVersion  BY DEF IndInv
<1> QED  BY <1>1, Invariance, PTL
=============================================================================
