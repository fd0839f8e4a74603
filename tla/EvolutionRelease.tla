-------------------------- MODULE EvolutionRelease --------------------------
(***************************************************************************)
(* The release of an evolved skill: the control plane's deployment row     *)
(* and its three operator requests (release, recover, reconcile), the      *)
(* signed HTTP command, the evolution runtime that applies it under row    *)
(* locks, and the guard that restores a baseline on its own.               *)
(*                                                                         *)
(*   shared/control_plane/evolution_deployment_store.py                    *)
(*   shared/control_plane/api_routes/evolution_releases.py                 *)
(*   shared/evolution/db/release_store.py, repository.py                   *)
(*   shared/evolution/evolution_guard.py                                   *)
(*                                                                         *)
(* A proposal stands for its frozen snapshot and its one deployment.  A    *)
(* command identifier is recycled once nothing can refer to it, so that    *)
(* recovering the same step again and again stays within a finite model.   *)
(***************************************************************************)
EXTENDS Naturals, FiniteSets

CONSTANTS
    Proposals,      \* evolution proposals of one skill
    Versions,       \* the versions of the skill
    Seed,           \* the version that is active at the start
    Baseline,       \* the frozen baseline version of every proposal
    Candidate,      \* the frozen candidate version of every proposal
    Requests,       \* operator requests that can be open at the same time
    Asked,          \* the release actions operators ask for
    Commands,       \* command identifiers, 1 .. n
    Edited,         \* the rollout states operators set by hand
    MaxRollbacks    \* the guard's rollbacks per day

ASSUME ReleaseAssumption ==
    /\ Seed \in Versions
    /\ Baseline \in [Proposals -> Versions]
    /\ Candidate \in [Proposals -> Versions]
    /\ \A p \in Proposals : Baseline[p] # Candidate[p]
    /\ Asked \subseteq {"shadow", "canary", "promote", "rollback"}
    /\ Commands \subseteq Nat \ {0}
    /\ \A vs \in SUBSET Versions : Cardinality(vs) \in Nat   \* finitely many versions
    /\ MaxRollbacks \in Nat

VARIABLES
    row,            \* control plane: the deployment row of a proposal
    rollout,        \* control plane: the proposal's rollout state
    approval,       \* control plane: the approval of each live action
    issued,         \* control plane: what every command asks for
    expired,        \* commands whose hour is over, on either side
    lapsed,         \* commands whose approval is over
    request,        \* the open operator requests
    release,        \* runtime: the release ledger
    skill,          \* runtime: the status of every version
    experiment,     \* runtime: the canary experiment of a release
    receipt,        \* runtime: the stored answer to every command
    promoted,       \* runtime: the rank of a version's promoted_at, 0 without one
    guard,          \* guard: the versions it read before its swap
    rollbacks       \* guard: the 24-hour counter

controlVars == <<row, rollout, approval, issued, lapsed>>
runtimeVars == <<release, skill, experiment, receipt, promoted>>
guardVars == <<guard, rollbacks>>
vars == <<controlVars, expired, request, runtimeVars, guardVars>>

Actions == {"shadow", "canary", "promote", "rollback"}
Released == {"shadow", "canary", "active", "rolled_back"}
RolloutStates == Released \cup {"proposed", "rejected"}

Rows == [state : Released \cup {"none", "pending"}, action : Actions,
         command : Commands \cup {0}, acked : Released \cup {"none"}]
CommandRows == [proposal : Proposals, action : Actions]
RequestRows == [pc : {"idle", "lookup", "recover", "answer", "ack", "gone"},
                kind : {"release", "recover", "reconcile"}, command : Commands \cup {0},
                server : {"none", "sent", "applying", "checked"}]

NoCommand == [proposal |-> "none", action |-> "shadow"]
NoRow == [state |-> "none", action |-> "shadow", command |-> 0, acked |-> "none"]
Idle == [pc |-> "idle", kind |-> "release", command |-> 0, server |-> "none"]
NoGuard == [active |-> Seed, baseline |-> Seed]

-----------------------------------------------------------------------------
(* The lifecycle tables both sides consult. *)

TargetStates == [shadow |-> "shadow", canary |-> "canary",
                 promote |-> "active", rollback |-> "rolled_back"]

AllowedActions(state) ==
    CASE state = "none"   -> {"shadow"}
      [] state = "shadow" -> {"canary", "rollback"}
      [] state = "canary" -> {"promote", "rollback"}
      [] state = "active" -> {"rollback"}
      [] OTHER            -> {}

RolloutTransitions(state) ==
    CASE state = "proposed" -> {"shadow", "canary", "rejected"}
      [] state = "shadow"   -> {"canary", "rolled_back"}
      [] state = "canary"   -> {"active", "rolled_back"}
      [] state = "active"   -> {"rolled_back"}
      [] OTHER              -> {}

(* Mutant: a canary is as idempotent as a shadow. *)
TransitionRepeats(state, action) ==
    CASE action = "shadow" /\ state \in {"none", "shadow"}                -> "shadow"
      [] action = "canary" /\ state \in {"shadow", "canary"}              -> "canary"
      [] action = "promote" /\ state = "canary"                           -> "active"
      [] action = "rollback" /\ state \in {"shadow", "canary", "active"}  -> "rolled_back"
      [] OTHER                                                            -> "none"

(* The runtime's transition of a release, "none" where it raises. *)
Transition(state, action) ==
    CASE action = "shadow" /\ state \in {"none", "shadow"}                -> "shadow"
      [] action = "canary" /\ state = "shadow"                            -> "canary"
      [] action = "promote" /\ state = "canary"                           -> "active"
      [] action = "rollback" /\ state \in {"shadow", "canary", "active"}  -> "rolled_back"
      [] OTHER                                                            -> "none"

-----------------------------------------------------------------------------
(* Command identifiers. *)

InUse(c) ==
    \/ receipt[c] # "none"
    \/ \E p \in Proposals : row[p].command = c
    \/ \E r \in Requests : request[r].command = c

Unused == {c \in Commands : ~InUse(c)}

(* The commands that others than row p and request r refer to. *)
Referenced(p, r) ==
    {row[q].command : q \in Proposals \ {p}} \cup {request[o].command : o \in Requests \ {r}}

Fresh == CHOOSE c \in Unused : TRUE

Pair(c) == {Baseline[issued[c].proposal], Candidate[issued[c].proposal]}

(* The skill rows a command needs are locked by another transaction. *)
Locked(r) ==
    \E o \in Requests \ {r} :
        /\ request[o].server \in {"applying", "checked"}
        /\ Pair(request[o].command) \cap Pair(request[r].command) # {}

-----------------------------------------------------------------------------
Init ==
    /\ row = [p \in Proposals |-> NoRow]
    /\ rollout = [p \in Proposals |-> "proposed"]
    /\ approval = [p \in Proposals |-> [a \in Actions \ {"shadow"} |-> "none"]]
    /\ issued = [c \in Commands |-> NoCommand]
    /\ expired = {}
    /\ lapsed = {}
    /\ request = [r \in Requests |-> Idle]
    /\ release = [p \in Proposals |-> "none"]
    /\ skill = [v \in Versions |-> IF v = Seed THEN "active" ELSE "candidate"]
    /\ experiment = [p \in Proposals |-> "none"]
    /\ receipt = [c \in Commands |-> "none"]
    /\ promoted = [v \in Versions |-> 0]
    /\ guard = NoGuard
    /\ rollbacks = 0

-----------------------------------------------------------------------------
(* The control plane. *)

ApprovalStands(p, a) == a # "shadow" => approval[p][a] = "approved"

(* prepare, last part: a new command is stored in the pending row. *)
Issue(r, p, a, existing) ==
    /\ ApprovalStands(p, a)
    /\ Unused # {}
    /\ issued' = [c \in Commands |->
           IF c = Fresh THEN [proposal |-> p, action |-> a]
           ELSE IF receipt[c] # "none" \/ c \in Referenced(p, r) THEN issued[c] ELSE NoCommand]
    /\ expired' = expired \cap (Referenced(p, r) \ {Fresh})
    /\ lapsed' = lapsed \cap (Referenced(p, r) \ {Fresh})
    /\ row' = [row EXCEPT ![p] = [state |-> "pending", action |-> a,
                                  command |-> Fresh, acked |-> existing.acked]]
    /\ request' = [request EXCEPT ![r] = [pc |-> "lookup", kind |-> "release",
                                          command |-> Fresh, server |-> "none"]]
    /\ UNCHANGED approval

(* Mutant: the approval is stored with a status no reader knows. *)
AskApprovalUnknown(r, p, a, existing) ==
    /\ ~ApprovalStands(p, a)
    /\ approval' = [approval EXCEPT ![p][a] = "requested"]
    /\ row' = [row EXCEPT ![p] = existing]
    /\ request' = [request EXCEPT ![r] = Idle]
    /\ UNCHANGED <<issued, expired, lapsed>>

(* prepare, without an approval: one is asked for, and what the transaction
   has done so far is committed by checkpoint() before the request is denied. *)
AskApproval(r, p, a, existing) ==
    /\ ~ApprovalStands(p, a)
    /\ approval' = [approval EXCEPT ![p][a] = "pending"]
    /\ row' = [row EXCEPT ![p] = existing]
    /\ request' = [request EXCEPT ![r] = Idle]
    /\ UNCHANGED <<issued, expired, lapsed>>

Prepare(r, p, a, existing) ==
    /\ a \in AllowedActions(existing.state)
    /\ Issue(r, p, a, existing) \/ AskApproval(r, p, a, existing)

Asks(p, a) == row[p].state = "pending" /\ row[p].action = a

(* POST .../release: a pending request for the same action gets the stored
   command again, unless it or its approval is over. *)
Release(r, p, a) ==
    /\ request[r] = Idle
    /\ \/ /\ Asks(p, a)
          /\ row[p].command \notin expired
          /\ a # "shadow" => row[p].command \notin lapsed
          /\ request' = [request EXCEPT ![r] = [pc |-> "lookup", kind |-> "release",
                                                command |-> row[p].command, server |-> "none"]]
          /\ UNCHANGED <<row, approval, issued, expired, lapsed>>
       \/ ~Asks(p, a) /\ Prepare(r, p, a, row[p])
    /\ UNCHANGED <<rollout, runtimeVars, guardVars>>

(* POST .../recover and .../reconcile: read the pending command, unlocked. *)
Open(r, p, kind) ==
    /\ request[r] = Idle
    /\ row[p].state = "pending"
    /\ request' = [request EXCEPT ![r] = [pc |-> "lookup", kind |-> kind,
                                          command |-> row[p].command, server |-> "none"]]
    /\ UNCHANGED <<controlVars, expired, runtimeVars, guardVars>>

(* gateway.lookup: the receiver takes the command's skill-row locks before it
   reports a receipt or a 404.  A release then posts the command (gateway.apply). *)
Lookup(r) ==
    LET found == receipt[request[r].command] # "none"
        kind == request[r].kind
    IN  /\ request[r].pc = "lookup"
        /\ ~Locked(r)
        /\ request' = [request EXCEPT ![r] =
               CASE found -> [@ EXCEPT !.pc = "ack", !.kind = "release"]
                 [] ~found /\ kind = "release" -> [@ EXCEPT !.pc = "answer", !.server = "sent"]
                 [] ~found /\ kind = "recover" -> [@ EXCEPT !.pc = "recover", !.kind = "release"]
                 [] OTHER -> Idle]
        /\ UNCHANGED <<controlVars, expired, runtimeVars, guardVars>>

Owns(p, c) == row[p].state = "pending" /\ row[p].command = c

(* Mutant: a command is reissued before its hour is over. *)
RecoverableEarly(c) ==
    LET p == issued[c].proposal
    IN  /\ Owns(p, c)
        /\ row[p].acked = "none" => issued[c].action = "shadow"
        /\ row[p].acked # "rolled_back"

Recoverable(c) ==
    LET p == issued[c].proposal
    IN  /\ Owns(p, c)
        /\ c \in expired
        /\ row[p].acked = "none" => issued[c].action = "shadow"
        /\ row[p].acked # "rolled_back"

(* recover_expired_pending: the row still holds the command, and the hour is
   over; the last acknowledged state is restored and prepare runs again. *)
RecoverExpired(r) ==
    LET c == request[r].command
        p == issued[c].proposal
        restored == IF row[p].acked = "none" THEN NoRow
                    ELSE [row[p] EXCEPT !.state = row[p].acked]
    IN  /\ request[r].pc = "recover"
        /\ \/ /\ Recoverable(c)
              /\ Prepare(r, p, issued[c].action, restored)
           \/ /\ ~Recoverable(c)
              /\ request' = [request EXCEPT ![r] = Idle]
              /\ UNCHANGED <<row, approval, issued, expired, lapsed>>
        /\ UNCHANGED <<rollout, runtimeVars, guardVars>>

(* acknowledge: a compare-and-swap on the stored command; the proposal's
   rollout state has to be able to follow, or everything is rolled back. *)
Acknowledge(r) ==
    LET c == request[r].command
        p == issued[c].proposal
        target == TargetStates[issued[c].action]
    IN  /\ request[r].pc = "ack"
        /\ request' = [request EXCEPT ![r] = Idle]
        /\ IF /\ Owns(p, c)
              /\ receipt[c] = target
              /\ rollout[p] = target \/ target \in RolloutTransitions(rollout[p])
           THEN /\ row' = [row EXCEPT ![p].state = target, ![p].acked = target]
                /\ rollout' = [rollout EXCEPT ![p] = target]
           ELSE UNCHANGED <<row, rollout>>
        /\ UNCHANGED <<approval, issued, expired, lapsed, runtimeVars, guardVars>>

(* A transport error, a timeout or a restart ends the request; what it sent
   stays with the receiver. *)
GiveUp(r) ==
    /\ request[r].pc \notin {"idle", "gone"}
    /\ request' = [request EXCEPT ![r] = IF @.server = "none" THEN Idle
                                         ELSE [@ EXCEPT !.pc = "gone"]]
    /\ UNCHANGED <<controlVars, expired, runtimeVars, guardVars>>

-----------------------------------------------------------------------------
(* Operators and time. *)

(* How far a release has come. *)
Stage(state) ==
    CASE state = "none" -> 0 [] state = "shadow" -> 1 [] state = "canary" -> 2
      [] state = "active" -> 3 [] state = "rolled_back" -> 4

(* The approval of a step that was acknowledged is not read again. *)
Ahead(p, a) == Stage(row[p].acked) < Stage(TargetStates[a])

Resolve(p, a) ==
    /\ Ahead(p, a) /\ approval[p][a] = "pending"
    /\ \E answer \in {"approved", "none"} : approval' = [approval EXCEPT ![p][a] = answer]
    /\ UNCHANGED <<row, rollout, issued, lapsed, expired, request, runtimeVars, guardVars>>

(* The 24 hours of an approval are over, also for the commands that carry it. *)
Lapse(p, a) ==
    /\ Ahead(p, a) /\ approval[p][a] # "none"
    /\ approval' = [approval EXCEPT ![p][a] = "none"]
    /\ lapsed' = lapsed \cup {c \in Commands : Owns(p, c) /\ row[p].action = a}
    /\ UNCHANGED <<row, rollout, issued, expired, request, runtimeVars, guardVars>>

(* The hour of a command is over. *)
Expire(c) ==
    /\ \/ \E p \in Proposals : Owns(p, c)
       \/ \E r \in Requests : request[r].command = c
    /\ c \notin expired
    /\ expired' = expired \cup {c}
    /\ UNCHANGED <<controlVars, request, runtimeVars, guardVars>>

(* PATCH .../status: the rollout state is edited without a release. *)
UpdateRollout(p, target) ==
    /\ target \in RolloutTransitions(rollout[p])
    /\ rollout' = [rollout EXCEPT ![p] = target]
    /\ UNCHANGED <<row, approval, issued, lapsed, expired, request, runtimeVars, guardVars>>

-----------------------------------------------------------------------------
(* The runtime that owns the skill. *)

(* What the client does with the receiver's answer. *)
Answered(r, ok) ==
    request' = [request EXCEPT ![r] = IF @.pc = "answer" /\ ok
                                      THEN [@ EXCEPT !.pc = "ack", !.server = "none"]
                                      ELSE Idle]

(* Mutant: the receipt is stored by a transaction of its own, before the rows
   it speaks of have changed. *)
ReceiveRecordsFirst(r) ==
    LET c == request[r].command
    IN  /\ request[r].server = "sent"
        /\ receipt[c] = "none" /\ c \notin expired /\ ~Locked(r)
        /\ request' = [request EXCEPT ![r].server = "applying"]
        /\ receipt' = [receipt EXCEPT ![c] = TargetStates[issued[c].action]]
        /\ UNCHANGED <<controlVars, expired, release, skill, experiment, promoted, guardVars>>

(* verify_command, and the look for a stored answer, before and again under the
   locks of the skill rows. *)
Receive(r) ==
    LET c == request[r].command
    IN  /\ request[r].server = "sent"
        /\ \/ c \in expired /\ Answered(r, FALSE)
           \/ c \notin expired /\ receipt[c] # "none" /\ Answered(r, TRUE)
           \/ /\ c \notin expired /\ receipt[c] = "none" /\ ~Locked(r)
              /\ request' = [request EXCEPT ![r].server = "applying"]
        /\ UNCHANGED <<controlVars, expired, runtimeVars, guardVars>>

(* A canary looks for another canary of the skill, in rows it has not locked. *)
Check(r) ==
    LET c == request[r].command
        rivals == {q \in Proposals \ {issued[c].proposal} : release[q] = "canary"}
    IN  /\ request[r].server = "applying"
        /\ IF issued[c].action = "canary" /\ rivals # {}
           THEN Answered(r, FALSE)
           ELSE request' = [request EXCEPT ![r].server = "checked"]
        /\ UNCHANGED <<controlVars, expired, runtimeVars, guardVars>>

(* What the rest of apply requires of the locked rows; the scores recorded so
   far pass the promotion gate or do not. *)
Applicable(p, a, passes) ==
    LET base == skill[Baseline[p]]
        cand == skill[Candidate[p]]
    IN  /\ Transition(release[p], a) # "none"
        /\ (a = "shadow" /\ release[p] = "none") =>
               base = "active" /\ cand \in {"candidate", "shadow", "retired"}
        /\ a = "canary" =>
               /\ experiment[p] = "none" => base = "active"
               /\ experiment[p] \in {"none", "running"}
        /\ a = "promote" =>
               /\ passes /\ experiment[p] = "running"
               /\ base = "active" /\ cand \in {"candidate", "shadow"}
        /\ (a = "rollback" /\ release[p] = "active") =>
               cand = "active" /\ base = "retired"

Stamped(v) == promoted[v] > 0

(* promoted_at = now: the version ranks last, the ranks stay 1 .. n. *)
Stamp(v) ==
    [w \in Versions |->
        CASE w = v -> Cardinality({u \in Versions : Stamped(u)} \cup {v})
          [] w # v /\ Stamped(v) /\ promoted[w] > promoted[v] -> promoted[w] - 1
          [] OTHER -> promoted[w]]

Undoes(p, a) == a = "rollback" /\ release[p] = "active"

(* Mutant: a promotion leaves the baseline active. *)
SkillAfterNoRetire(p, a) ==
    CASE a = "promote" -> [skill EXCEPT ![Candidate[p]] = "active"]
      [] Undoes(p, a) -> [skill EXCEPT ![Candidate[p]] = "retired", ![Baseline[p]] = "active"]
      [] OTHER -> skill

(* The skill rows that apply writes. *)
SkillAfter(p, a) ==
    CASE a = "promote" -> [skill EXCEPT ![Baseline[p]] = "retired", ![Candidate[p]] = "active"]
      [] Undoes(p, a) -> [skill EXCEPT ![Candidate[p]] = "retired", ![Baseline[p]] = "active"]
      [] OTHER -> skill

(* apply commits: the release, the skill rows, the experiment and the receipt
   change together, or the transaction is rolled back and the command refused. *)
Commit(r, passes) ==
    LET c == request[r].command
        p == issued[c].proposal
        a == issued[c].action
    IN  /\ request[r].server = "checked"
        /\ \/ /\ Applicable(p, a, passes)
              /\ release' = [release EXCEPT ![p] = Transition(@, a)]
              /\ skill' = SkillAfter(p, a)
              /\ promoted' = IF a = "promote" THEN Stamp(Candidate[p]) ELSE promoted
              /\ experiment' = [experiment EXCEPT ![p] =
                     CASE a = "canary" -> "running"
                       [] a = "promote" -> "promoted"
                       [] a = "rollback" /\ release[p] = "canary" /\ @ = "running" -> "rolled_back"
                       [] Undoes(p, a) /\ @ = "promoted" -> "rolled_back"
                       [] OTHER -> @]
              /\ receipt' = [receipt EXCEPT ![c] = Transition(release[p], a)]
              /\ Answered(r, TRUE)
           \/ /\ ~Applicable(p, a, passes)
              /\ Answered(r, FALSE)
              /\ UNCHANGED <<release, skill, promoted, experiment, receipt>>
        /\ UNCHANGED <<controlVars, expired, guardVars>>

(* The runtime stops or its database fails: the transaction is rolled back. *)
Abort(r) ==
    /\ request[r].server # "none"
    /\ Answered(r, FALSE)
    /\ UNCHANGED <<controlVars, expired, runtimeVars, guardVars>>

(* check_experiment finds the candidate degraded and concludes the canary. *)
Conclude(p) ==
    /\ experiment[p] = "running"
    /\ experiment' = [experiment EXCEPT ![p] = "rolled_back"]
    /\ release' = [release EXCEPT ![p] = IF @ = "canary" THEN "rolled_back" ELSE @]
    /\ UNCHANGED <<controlVars, expired, request, skill, receipt, promoted, guardVars>>

-----------------------------------------------------------------------------
(* The guard. *)

Retired == {v \in Versions : skill[v] = "retired"}

(* get_previous_active: the latest promoted_at first, versions without one last. *)
Previous(v) == v \in Retired /\ \A w \in Retired : promoted[w] <= promoted[v]

(* check, up to its swap: a regression of the active, once promoted version. *)
GuardReads(v, w) ==
    /\ guard = NoGuard
    /\ skill[v] = "active" /\ Stamped(v)
    /\ rollbacks' = IF rollbacks < MaxRollbacks THEN rollbacks + 1 ELSE rollbacks
    /\ guard' = IF rollbacks < MaxRollbacks /\ Previous(w)
                THEN [active |-> v, baseline |-> w]
                ELSE NoGuard
    /\ UNCHANGED <<controlVars, expired, request, runtimeVars>>

ActiveReleases == {p \in Proposals : release[p] = "active"}

(* rollback_skill_if_current, under the locks of every row of the skill. *)
Current(v, w) ==
    /\ skill[v] = "active"
    /\ skill[w] = "retired"
    /\ Cardinality(ActiveReleases) <= 1
    /\ \A p \in ActiveReleases : Candidate[p] = v /\ Baseline[p] = w

GuardSwaps ==
    /\ guard # NoGuard
    /\ \A r \in Requests : request[r].server \notin {"applying", "checked"}
    /\ IF Current(guard.active, guard.baseline)
       THEN /\ skill' = [skill EXCEPT ![guard.active] = "retired", ![guard.baseline] = "active"]
            /\ promoted' = Stamp(guard.baseline)
            /\ release' = [p \in Proposals |-> IF p \in ActiveReleases THEN "rolled_back" ELSE release[p]]
            /\ experiment' = [p \in Proposals |-> IF p \in ActiveReleases THEN "rolled_back" ELSE experiment[p]]
       ELSE UNCHANGED <<skill, promoted, release, experiment>>
    /\ guard' = NoGuard
    /\ UNCHANGED <<controlVars, expired, request, receipt, rollbacks>>

(* The counter's 24 hours are over. *)
GuardForgets ==
    /\ rollbacks > 0
    /\ rollbacks' = 0
    /\ UNCHANGED <<controlVars, expired, request, runtimeVars, guard>>

-----------------------------------------------------------------------------
Next ==
    \/ \E r \in Requests, p \in Proposals, a \in Asked : Release(r, p, a)
    \/ \E r \in Requests, p \in Proposals, k \in {"recover", "reconcile"} : Open(r, p, k)
    \/ \E r \in Requests : Lookup(r)
    \/ \E r \in Requests : RecoverExpired(r)
    \/ \E r \in Requests : Acknowledge(r)
    \/ \E r \in Requests : GiveUp(r)
    \/ \E r \in Requests : Receive(r)
    \/ \E r \in Requests : Check(r)
    \/ \E r \in Requests, passes \in BOOLEAN : Commit(r, passes)
    \/ \E r \in Requests : Abort(r)
    \/ \E p \in Proposals, a \in Actions \ {"shadow"} : Resolve(p, a)
    \/ \E p \in Proposals, a \in Actions \ {"shadow"} : Lapse(p, a)
    \/ \E c \in Commands : Expire(c)
    \/ \E p \in Proposals, s \in Edited : UpdateRollout(p, s)
    \/ \E p \in Proposals : Conclude(p)
    \/ \E v, w \in Versions : GuardReads(v, w)
    \/ GuardSwaps
    \/ GuardForgets

Spec == Init /\ [][Next]_vars

-----------------------------------------------------------------------------
(* The states of the rows on both sides, of the open requests and of the guard:
   every status a handler writes is one its readers know. *)
TypeOK ==
    /\ row \in [Proposals -> Rows]
    /\ rollout \in [Proposals -> RolloutStates]
    /\ approval \in [Proposals -> [Actions \ {"shadow"} -> {"none", "pending", "approved"}]]
    /\ issued \in [Commands -> CommandRows \cup {NoCommand}]
    /\ expired \subseteq Commands
    /\ lapsed \subseteq Commands
    /\ request \in [Requests -> RequestRows]
    /\ release \in [Proposals -> Released \cup {"none"}]
    /\ skill \in [Versions -> {"candidate", "active", "retired"}]
    /\ experiment \in [Proposals -> {"none", "running", "promoted", "rolled_back"}]
    /\ receipt \in [Commands -> Released \cup {"none"}]
    /\ promoted \in [Versions -> Nat]
    /\ guard \in [active : Versions, baseline : Versions]
    /\ rollbacks \in 0 .. MaxRollbacks

(* The control plane never acknowledges a step the runtime has not taken, with
   answers lost, commands sent again and requests overlapping (acknowledge). *)
LedgerIsNotAhead == \A p \in Proposals : Stage(row[p].acked) <= Stage(release[p])

(* No live step of a release is applied by two commands, however often it is
   retried or recovered (release_store.apply). *)
AppliedOnce ==
    \A c, d \in Commands :
        (/\ c # d
         /\ receipt[c] # "none" /\ receipt[d] # "none"
         /\ issued[c] = issued[d])
        => issued[c].action = "shadow"

(* Releases, rollbacks and the guard's restores, whose reads are stale by the time of
   the swap, never leave the skill without an active version or with two
   (release_store.apply, rollback_skill_if_current). *)
OneActiveVersion == \E v \in Versions : {w \in Versions : skill[w] = "active"} = {v}

(* Some row or request can still send the command, and the receiver would accept it. *)
Live(c) ==
    /\ c \notin expired /\ receipt[c] = "none"
    /\ \/ \E p \in Proposals : Owns(p, c)
       \/ \E r \in Requests : request[r].command = c

(* The receiver would never accept either of two commands of one deployment:
   recovery reissues a step only when the first command is refused, however
   requests that still carry it overlap (recover_expired_pending).  A command
   the receiver accepted before its hour ended is not counted. *)
OneLiveCommand ==
    \A c, d \in Commands :
        Live(c) /\ Live(d) /\ c # d => issued[c].proposal # issued[d].proposal
=============================================================================
