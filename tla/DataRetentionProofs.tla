------------------------ MODULE DataRetentionProofs ------------------------
(***************************************************************************)
(* What Retention promises for every number of keys, appenders, purges and *)
(* retries, what Knowledge promises for every number of sessions and       *)
(* versions, and that the retention transaction whole (DataRetention)      *)
(* keeps what both promise and removes nothing without its receipt.        *)
(***************************************************************************)
EXTENDS DataRetention, TLAPS

-----------------------------------------------------------------------------
(* Retention.  The invariant says what each transaction may rely on between
   its statements: an append that found neither row nor receipt, a purge that
   holds the company row and has chosen its rows, and a completion that has
   listed its evidence. *)

AppendPlaces == {"idle", "first", "select", "found", "again", "insert", "inserted"}
PurgePlaces == {"idle", "lock", "lookup", "select", "apply", "done"}

StateType ==
    /\ event \in [Keys -> [stored: BOOLEAN, old: BOOLEAN, outbox: {None, "pending", "published"}]]
    /\ tombs \subseteq Keys /\ named \subseteq Keys
    /\ runs \in [RequestIds -> Nat]
    /\ app \in [Appenders -> [pc: AppendPlaces, key: Keys]]
    /\ purge \in [Purgers -> [pc: PurgePlaces, id: RequestIds, size: Nat, rows: SUBSET Keys,
                              answer: {None, "receipt", "conflict", "error"}]]
    /\ evidence \in [pc: {"idle", "listed"}, rows: SUBSET Keys]
    /\ emitted \in [Keys -> Nat]

\* A key that was emitted has its row or its receipt.
Accounted ==
    \A k \in Keys :
        /\ event[k].stored \/ event[k] = Absent
        /\ emitted[k] = IF event[k].stored \/ k \in tombs THEN 1 ELSE 0

\* A key that an append did not find has not grown old since, and so was not
\* purged since; and one append inserts it.
AppendSafe ==
    \A p \in Appenders :
        /\ app[p].pc \in {"again", "insert", "inserted"} =>
               ~(event[app[p].key].stored /\ event[app[p].key].old)
        /\ app[p].pc \in {"insert", "inserted"} => app[p].key \notin tombs
        /\ app[p].pc = "inserted" => ~event[app[p].key].stored
        /\ \A o \in Appenders :
               app[p].pc = "inserted" /\ app[o].pc = "inserted" /\ app[o].key = app[p].key => o = p

\* One purge at a time holds the company row, no insert or evidence with it.
PurgeAlone ==
    \A q \in Purgers : Purging(q) =>
        /\ \A o \in Purgers : Purging(o) => o = q
        /\ \A p \in Appenders : app[p].pc # "inserted"
        /\ evidence.pc = "idle"

PurgeSafe ==
    \A q \in Purgers :
        /\ purge[q].pc \in {"select", "apply"} => runs[purge[q].id] = 0
        /\ purge[q].pc # "apply" => purge[q].rows = {}
        /\ \A k \in purge[q].rows :
               event[k].stored /\ event[k].old /\ event[k].outbox # "pending" /\ k \notin named
        /\ purge[q].answer # "error"

EvidenceSafe ==
    /\ evidence.pc = "idle" => evidence.rows = {}
    /\ \A k \in evidence.rows \cup named : event[k].stored

IInv == StateType /\ Accounted /\ AppendSafe /\ PurgeAlone /\ PurgeSafe /\ EvidenceSafe

-----------------------------------------------------------------------------
\* The values the state starts from and returns to have their types.
LEMMA RestingTypes ==
    /\ Absent \in [stored: BOOLEAN, old: BOOLEAN, outbox: {None, "pending", "published"}]
    /\ ~Absent.stored /\ ~Absent.old /\ Absent.outbox = None
    /\ NoAppend \in [pc: AppendPlaces, key: Keys] /\ NoAppend.pc = "idle"
    /\ NoPurge \in [pc: PurgePlaces, id: RequestIds, size: Nat, rows: SUBSET Keys,
                    answer: {None, "receipt", "conflict", "error"}]
    /\ NoPurge.pc = "idle" /\ NoPurge.rows = {} /\ NoPurge.answer = None
<1>1. (CHOOSE k \in Keys : TRUE) \in Keys /\ (CHOOSE i \in RequestIds : TRUE) \in RequestIds
  BY RetentionAssumption
<1> QED BY <1>1 DEF Absent, NoAppend, NoPurge, AppendPlaces, PurgePlaces

\* Nothing is stored, emitted or under way at first.
LEMMA InitEstablishes == AuditInit => IInv
<1> SUFFICES ASSUME AuditInit PROVE IInv OBVIOUS
<1>1. StateType
  BY RestingTypes DEF AuditInit, StateType
<1>2. Accounted BY RestingTypes DEF AuditInit, Accounted
<1>3. AppendSafe BY RestingTypes DEF AuditInit, AppendSafe
<1>4. PurgeAlone /\ PurgeSafe BY RestingTypes DEF AuditInit, PurgeAlone, PurgeSafe, Purging, None
<1>5. EvidenceSafe BY DEF AuditInit, EvidenceSafe
<1> QED BY <1>1, <1>2, <1>3, <1>4, <1>5 DEF IInv

\* A statement of an append before its commit, or its rollback.
LEMMA AppendSteps ==
    ASSUME IInv, NEW p \in Appenders,
           \/ \E k \in Keys : Append(p, k)
           \/ ReadReceipt(p) \/ SelectRow(p) \/ ReadReceiptAgain(p) \/ InsertRow(p)
           \/ RollBackAppend(p)
    PROVE  IInv'
<1> DEFINE k == app[p].key
<1>1. UNCHANGED <<event, tombs, runs, purge, evidence, named, emitted>>
  BY DEF Append, ReadReceipt, SelectRow, ReadReceiptAgain, InsertRow, RollBackAppend
<1>2. app \in [Appenders -> [pc: AppendPlaces, key: Keys]] BY DEF IInv, StateType
<1>3. /\ app' \in [Appenders -> [pc: AppendPlaces, key: Keys]]
      /\ \A o \in Appenders \ {p} : app'[o] = app[o]
      /\ app'[p].pc \in {"again", "insert", "inserted"} => app'[p].key = k
  BY <1>2 DEF Append, ReadReceipt, SelectRow, ReadReceiptAgain, InsertRow, RollBackAppend, Step,
              AppendPlaces
<1>4. StateType' /\ Accounted' /\ PurgeSafe' /\ EvidenceSafe'
  <2>1. StateType' BY <1>1, <1>3 DEF IInv, StateType
  <2>2. Accounted' BY <1>1 DEF IInv, Accounted
  <2>3. PurgeSafe' BY <1>1 DEF IInv, PurgeSafe
  <2>4. EvidenceSafe' BY <1>1 DEF IInv, EvidenceSafe
  <2> QED BY <2>1, <2>2, <2>3, <2>4
<1>5. /\ app'[p].pc = "again" => ~event[k].stored
      /\ app'[p].pc = "insert" => app[p].pc = "again" /\ k \notin tombs
      /\ app'[p].pc = "inserted" =>
           /\ app[p].pc = "insert" /\ ~event[k].stored /\ NoPurgeRuns
           /\ \A o \in Appenders : ~(app[o].pc = "inserted" /\ app[o].key = k)
  BY <1>2 DEF Append, ReadReceipt, SelectRow, ReadReceiptAgain, InsertRow, RollBackAppend, Step
<1>6. AppendSafe'
  <2>1. ASSUME NEW o \in Appenders
        PROVE  /\ app'[o].pc \in {"again", "insert", "inserted"} =>
                    ~(event[app'[o].key].stored /\ event[app'[o].key].old)
               /\ app'[o].pc \in {"insert", "inserted"} => app'[o].key \notin tombs
               /\ app'[o].pc = "inserted" => ~event[app'[o].key].stored
    <3>1. CASE o = p BY <3>1, <1>3, <1>5 DEF IInv, AppendSafe
    <3>2. CASE o # p BY <3>2, <1>3 DEF IInv, AppendSafe
    <3> QED BY <3>1, <3>2
  <2>2. ASSUME NEW o \in Appenders, NEW r \in Appenders, app'[o].pc = "inserted",
               app'[r].pc = "inserted", app'[o].key = app'[r].key
        PROVE  o = r
    BY <1>3, <1>5, <2>2 DEF IInv, AppendSafe
  <2> QED BY <1>1, <2>1, <2>2 DEF AppendSafe
<1>7. PurgeAlone'
  <2>1. \A q \in Purgers : Purging(q)' <=> Purging(q) BY <1>1 DEF Purging
  <2>2. CASE app'[p].pc # "inserted" BY <1>1, <1>3, <2>1, <2>2 DEF IInv, PurgeAlone
  <2>3. CASE app'[p].pc = "inserted" BY <1>5, <2>1, <2>3 DEF PurgeAlone, NoPurgeRuns
  <2> QED BY <2>2, <2>3
<1> QED BY <1>4, <1>6, <1>7 DEF IInv

\* The commit of an append: a new key comes into being.
LEMMA CommitAppendStep ==
    ASSUME IInv, NEW p \in Appenders, CommitAppend(p)
    PROVE  IInv'
<1> DEFINE k == app[p].key
           new == [Absent EXCEPT !.stored = TRUE,
                       !.outbox = IF k \in Carrying THEN "pending" ELSE None]
<1>1. UNCHANGED <<tombs, runs, purge, evidence, named>> BY DEF CommitAppend
<1>2. /\ app \in [Appenders -> [pc: AppendPlaces, key: Keys]] /\ k \in Keys
      /\ event \in [Keys -> [stored: BOOLEAN, old: BOOLEAN, outbox: {None, "pending", "published"}]]
      /\ emitted \in [Keys -> Nat]
  BY DEF IInv, StateType
<1>3. /\ app' \in [Appenders -> [pc: AppendPlaces, key: Keys]]
      /\ app'[p].pc = "idle" /\ \A o \in Appenders \ {p} : app'[o] = app[o]
  BY <1>2 DEF CommitAppend, Step, AppendPlaces
<1>4. CASE app[p].pc = "found"
  <2>1. UNCHANGED <<event, emitted>> BY <1>4 DEF CommitAppend
  <2>2. StateType' /\ Accounted' BY <1>1, <1>3, <2>1 DEF IInv, StateType, Accounted
  <2>3. AppendSafe' BY <1>1, <1>3, <2>1 DEF IInv, AppendSafe
  <2>4. PurgeAlone' BY <1>1, <1>3, <2>1 DEF IInv, PurgeAlone, Purging
  <2>5. PurgeSafe' /\ EvidenceSafe' BY <1>1, <2>1 DEF IInv, PurgeSafe, EvidenceSafe
  <2> QED BY <2>2, <2>3, <2>4, <2>5 DEF IInv
<1>5. CASE app[p].pc = "inserted"
  <2>1. /\ k \notin tombs /\ ~event[k].stored /\ emitted[k] = 0
        /\ \A q \in Purgers : ~Purging(q)
    BY <1>2, <1>5 DEF IInv, AppendSafe, Accounted, PurgeAlone
  <2>2. event' = [event EXCEPT ![k] = new] /\ emitted' = [emitted EXCEPT ![k] = @ + 1]
    BY <1>2, <1>5, <2>1 DEF CommitAppend
  <2>3. /\ new \in [stored: BOOLEAN, old: BOOLEAN, outbox: {None, "pending", "published"}]
        /\ new.stored /\ ~new.old
    BY Zenon DEF Absent, None
  <2>4. StateType' BY <1>1, <1>2, <1>3, <2>2, <2>3 DEF IInv, StateType
  <2>5. Accounted' BY <1>1, <1>2, <2>1, <2>2, <2>3 DEF IInv, Accounted
  <2>6. AppendSafe'
    <3>1. ASSUME NEW o \in Appenders, app'[o].pc = "inserted" PROVE app'[o].key # k
      BY <1>3, <1>5, <3>1 DEF IInv, AppendSafe
    <3>2. ~(event'[k].stored /\ event'[k].old) /\ \A j \in Keys \ {k} : event'[j] = event[j]
      BY <1>2, <2>2, <2>3
    <3>3. \A o \in Appenders : app'[o].key \in Keys BY <1>3
    <3> HIDE DEF k, new
    <3> QED BY <1>1, <1>3, <3>1, <3>2, <3>3 DEF IInv, AppendSafe
  <2>7. PurgeAlone' BY <1>1, <2>1 DEF PurgeAlone, Purging
  <2>8. PurgeSafe' BY <1>1, <1>2, <2>1 DEF IInv, PurgeSafe, Purging
  <2>9. EvidenceSafe' BY <1>1, <1>2, <2>2, <2>3 DEF IInv, StateType, EvidenceSafe
  <2> QED BY <2>4, <2>5, <2>6, <2>7, <2>8, <2>9 DEF IInv
<1> QED BY <1>4, <1>5 DEF CommitAppend

\* An answer ends the purge and gives up its rows.
LEMMA AnswerStep ==
    ASSUME StateType, NEW q \in Purgers, NEW a \in {"receipt", "conflict"}, Answer(q, a)
    PROVE  /\ purge' \in [Purgers -> [pc: PurgePlaces, id: RequestIds, size: Nat, rows: SUBSET Keys,
                                      answer: {None, "receipt", "conflict", "error"}]]
           /\ purge'[q].pc = "done" /\ purge'[q].rows = {} /\ purge'[q].answer = a
           /\ \A o \in Purgers \ {q} : purge'[o] = purge[o]
<1> DEFINE end == [purge[q] EXCEPT !.pc = "done", !.rows = {}, !.answer = a]
<1>1. purge' = [purge EXCEPT ![q] = end] BY Zenon DEF Answer, StateType
<1>2. /\ end \in [pc: PurgePlaces, id: RequestIds, size: Nat, rows: SUBSET Keys,
                  answer: {None, "receipt", "conflict", "error"}]
      /\ end.pc = "done" /\ end.rows = {} /\ end.answer = a
  BY Zenon DEF StateType, PurgePlaces
<1> HIDE DEF end
<1> QED BY <1>1, <1>2 DEF StateType

\* A statement of a purge before its commit, or the end of its request.
LEMMA PurgeSteps ==
    ASSUME IInv, NEW q \in Purgers,
           \/ \E i \in RequestIds, size \in Sizes : Request(q, i, size)
           \/ LockCompany(q) \/ Lookup(q) \/ SelectRows(q) \/ RollBackPurge(q) \/ EndRequest(q)
    PROVE  IInv'
<1> DEFINE Command == [pc: PurgePlaces, id: RequestIds, size: Nat, rows: SUBSET Keys,
                       answer: {None, "receipt", "conflict", "error"}]
<1>1. UNCHANGED <<event, tombs, runs, app, evidence, named, emitted>>
  BY Zenon DEF Request, LockCompany, Lookup, SelectRows, RollBackPurge, EndRequest
<1>2. purge \in [Purgers -> Command] BY DEF IInv, StateType
<1>3. ASSUME /\ purge' \in [Purgers -> Command]
             /\ \A o \in Purgers \ {q} : purge'[o] = purge[o]
             /\ Purging(q)' => Purging(q) \/ CompanyFree(q)
             /\ purge'[q].pc \in {"select", "apply"} => runs[purge'[q].id] = 0
             /\ purge'[q].pc # "apply" => purge'[q].rows = {}
             /\ \A k \in purge'[q].rows : event[k].stored /\ event[k].old
                  /\ event[k].outbox # "pending" /\ k \notin named
             /\ purge'[q].answer # "error"
      PROVE  IInv'
  <2>1. StateType' /\ Accounted' /\ AppendSafe' /\ EvidenceSafe'
    BY <1>1, <1>3 DEF IInv, StateType, Accounted, AppendSafe, EvidenceSafe
  <2>2. \A o \in Purgers \ {q} : Purging(o)' <=> Purging(o) BY <1>3 DEF Purging
  <2>3. PurgeAlone' BY <1>1, <1>3, <2>2 DEF IInv, PurgeAlone, CompanyFree
  <2>4. PurgeSafe' BY <1>1, <1>3 DEF IInv, PurgeSafe
  <2> QED BY <2>1, <2>3, <2>4 DEF IInv
<1>4. ASSUME NEW i \in RequestIds, NEW size \in Sizes, Request(q, i, size) PROVE IInv'
  <2>1. size \in Nat BY RetentionAssumption
  <2> DEFINE command == [NoPurge EXCEPT !.pc = "lock", !.id = i, !.size = size]
  <2>2. /\ command \in Command /\ command.pc = "lock" /\ command.rows = {}
        /\ command.answer = None
    BY Zenon, <2>1, RestingTypes DEF PurgePlaces
  <2>3. purge' = [purge EXCEPT ![q] = command] BY Zenon, <1>4 DEF Request
  <2> HIDE DEF command, Command
  <2> QED BY <1>2, <1>3, <2>2, <2>3 DEF Purging, None
<1>5. CASE RollBackPurge(q) \/ EndRequest(q)
  <2>1. purge' = [purge EXCEPT ![q] = NoPurge] BY <1>5 DEF RollBackPurge, EndRequest
  <2> QED BY <1>2, <1>3, <2>1, RestingTypes DEF Purging, None
<1>6. CASE LockCompany(q)
  BY <1>2, <1>3, <1>6 DEF LockCompany, Purging, IInv, PurgeSafe, PurgePlaces
<1>7. CASE Lookup(q)
  <2>1. CASE runs[purge[q].id] = 0
    <3>1. purge[q].pc = "lookup" /\ purge' = [purge EXCEPT ![q].pc = "select"]
      BY <1>7, <2>1 DEF Lookup
    <3>2. /\ purge' \in [Purgers -> Command] /\ purge'[q].pc = "select"
          /\ purge'[q].id = purge[q].id /\ purge'[q].rows = purge[q].rows
          /\ purge'[q].answer = purge[q].answer
          /\ \A o \in Purgers \ {q} : purge'[o] = purge[o]
      BY <1>2, <3>1 DEF PurgePlaces
    <3> HIDE DEF Command
    <3> QED BY <1>3, <2>1, <3>1, <3>2 DEF Purging, IInv, PurgeSafe
  <2>2. CASE runs[purge[q].id] # 0
    <3>1. PICK a \in {"receipt", "conflict"} : Answer(q, a) BY <1>7, <2>2 DEF Lookup
    <3>2. /\ purge' \in [Purgers -> Command] /\ purge'[q].pc = "done"
          /\ purge'[q].rows = {} /\ purge'[q].answer # "error"
          /\ \A o \in Purgers \ {q} : purge'[o] = purge[o]
      BY <3>1, AnswerStep DEF IInv
    <3> HIDE DEF Command
    <3> QED BY <1>3, <3>2 DEF Purging
  <2> QED BY <2>1, <2>2
<1>8. CASE SelectRows(q)
  <2>1. PICK rows \in SUBSET {k \in Keys : Eligible(k)} :
          purge' = [purge EXCEPT ![q].pc = "apply", ![q].rows = rows]
    BY Zenon, <1>8 DEF SelectRows
  <2>2. \A k \in rows : event[k].stored /\ event[k].old /\ event[k].outbox # "pending" /\ k \notin named
    BY <2>1 DEF Eligible
  <2>3. purge[q].pc = "select" BY <1>8 DEF SelectRows
  <2>4. /\ purge' \in [Purgers -> Command] /\ purge'[q].pc = "apply"
        /\ purge'[q].id = purge[q].id /\ purge'[q].rows = rows
        /\ purge'[q].answer = purge[q].answer
        /\ \A o \in Purgers \ {q} : purge'[o] = purge[o]
    BY Zenon, <1>2, <2>1 DEF PurgePlaces
  <2> HIDE DEF Command
  <2> QED BY <1>3, <2>2, <2>3, <2>4 DEF Purging, IInv, PurgeSafe
<1> QED BY <1>4, <1>5, <1>6, <1>7, <1>8

\* The commit of a purge: its rows leave receipts.
LEMMA ApplyStep ==
    ASSUME IInv, NEW q \in Purgers, Apply(q)
    PROVE  IInv'
<1> DEFINE rows == purge[q].rows
           Command == [pc: PurgePlaces, id: RequestIds, size: Nat, rows: SUBSET Keys,
                       answer: {None, "receipt", "conflict", "error"}]
<1>1. /\ StateType /\ purge \in [Purgers -> Command] /\ rows \subseteq Keys
      /\ purge[q].pc = "apply" /\ Purging(q) /\ runs[purge[q].id] = 0
  BY DEF IInv, StateType, PurgeSafe, Apply, Purging
<1>2. /\ Answer(q, "receipt")
      /\ event' = [k \in Keys |-> IF k \in rows THEN Absent ELSE event[k]]
      /\ tombs' = tombs \cup rows
      /\ runs' = [runs EXCEPT ![purge[q].id] = purge[q].size]
      /\ UNCHANGED <<app, evidence, named, emitted>>
  BY <1>1 DEF Apply
<1>3. /\ purge' \in [Purgers -> Command] /\ purge'[q].pc = "done"
      /\ purge'[q].rows = {} /\ purge'[q].answer = "receipt"
      /\ \A o \in Purgers \ {q} : purge'[o] = purge[o]
  BY <1>1, <1>2, AnswerStep
<1>4. /\ \A k \in rows : event[k].stored /\ event[k].old /\ k \notin named
      /\ \A o \in Purgers \ {q} : ~Purging(o)
      /\ evidence.pc = "idle" /\ evidence.rows = {}
      /\ \A p \in Appenders : app[p].pc # "inserted"
  BY <1>1 DEF IInv, PurgeSafe, PurgeAlone, EvidenceSafe
<1>5. runs' \in [RequestIds -> Nat] /\ purge[q].id \in RequestIds BY <1>1, <1>2 DEF StateType
<1> HIDE DEF Command
<1>6. StateType'
  <2>1. event' \in [Keys -> [stored: BOOLEAN, old: BOOLEAN, outbox: {None, "pending", "published"}]]
    BY <1>1, <1>2, RestingTypes DEF StateType
  <2> QED BY <1>1, <1>2, <1>3, <1>5, <2>1 DEF StateType, Command
<1>7. Accounted' BY <1>2, <1>4, RestingTypes DEF IInv, Accounted
<1>8. AppendSafe'
  <2>1. \A p \in Appenders : app[p].key \in Keys BY <1>1 DEF StateType
  <2>2. ASSUME NEW p \in Appenders, app[p].pc \in {"again", "insert"}
        PROVE  app[p].key \notin rows
    BY <1>4, <2>1, <2>2 DEF IInv, AppendSafe
  <2> HIDE DEF rows
  <2> QED BY <1>2, <1>4, <2>1, <2>2 DEF IInv, AppendSafe
<1>9. PurgeAlone' BY <1>3, <1>4 DEF PurgeAlone, Purging
<1>10. PurgeSafe'
  <2>1. \A o \in Purgers \ {q} : purge'[o].pc \notin {"select", "apply"} BY <1>3, <1>4 DEF Purging
  <2> QED BY <1>3, <2>1 DEF IInv, PurgeSafe
<1>11. EvidenceSafe' BY <1>1, <1>2, <1>4 DEF IInv, StateType, EvidenceSafe
<1> QED BY <1>6, <1>7, <1>8, <1>9, <1>10, <1>11 DEF IInv

\* Time passes, a message is delivered, evidence is listed and committed.
LEMMA OtherSteps ==
    ASSUME IInv, (\E k \in Keys : Age(k) \/ Deliver(k)) \/ ListEvents \/ CommitEvidence
    PROVE  IInv'
<1>1. StateType BY DEF IInv
<1>2. ASSUME NEW k \in Keys, Age(k) PROVE IInv'
  <2>1. /\ UNCHANGED <<tombs, runs, app, purge, evidence, named, emitted>>
        /\ event[k].stored /\ event' = [event EXCEPT ![k].old = TRUE]
        /\ \A p \in Appenders : app[p].pc = "idle" \/ app[p].key # k
    BY <1>2 DEF Age
  <2>2. /\ event' \in [Keys -> [stored: BOOLEAN, old: BOOLEAN, outbox: {None, "pending", "published"}]]
        /\ \A j \in Keys \ {k} : event'[j] = event[j]
        /\ event'[k].stored /\ event'[k].old /\ event'[k].outbox = event[k].outbox
    BY Zenon, <1>1, <2>1 DEF StateType
  <2>3. StateType' /\ Accounted' BY <2>1, <2>2 DEF IInv, StateType, Accounted
  <2>4. AppendSafe' BY <1>1, <2>1, <2>2 DEF IInv, StateType, AppendSafe
  <2>5. PurgeAlone' BY <2>1 DEF IInv, PurgeAlone, Purging
  <2>6. PurgeSafe' BY <1>1, <2>1, <2>2 DEF IInv, StateType, PurgeSafe
  <2>7. EvidenceSafe' BY <1>1, <2>1, <2>2 DEF IInv, StateType, EvidenceSafe
  <2> QED BY <2>3, <2>4, <2>5, <2>6, <2>7 DEF IInv
<1>3. ASSUME NEW k \in Keys, Deliver(k) PROVE IInv'
  <2>1. /\ UNCHANGED <<tombs, runs, app, purge, evidence, named, emitted>>
        /\ event[k].outbox = "pending" /\ event' = [event EXCEPT ![k].outbox = "published"]
    BY <1>3 DEF Deliver
  <2>2. /\ event' \in [Keys -> [stored: BOOLEAN, old: BOOLEAN, outbox: {None, "pending", "published"}]]
        /\ \A j \in Keys : event'[j].stored = event[j].stored /\ event'[j].old = event[j].old
        /\ \A j \in Keys : event'[j].outbox = "pending" => event[j].outbox = "pending"
        /\ \A j \in Keys \ {k} : event'[j] = event[j]
    BY <1>1, <2>1 DEF StateType
  <2>3. event[k].stored BY <2>1, RestingTypes DEF IInv, Accounted, None
  <2>4. StateType' /\ Accounted' BY <2>1, <2>2, <2>3 DEF IInv, StateType, Accounted
  <2>5. AppendSafe' BY <1>1, <2>1, <2>2 DEF IInv, StateType, AppendSafe
  <2>6. PurgeAlone' BY <2>1 DEF IInv, PurgeAlone, Purging
  <2>7. PurgeSafe' BY <1>1, <2>1, <2>2 DEF IInv, StateType, PurgeSafe
  <2>8. EvidenceSafe' BY <1>1, <2>1, <2>2 DEF IInv, StateType, EvidenceSafe
  <2> QED BY <2>4, <2>5, <2>6, <2>7, <2>8 DEF IInv
<1>4. ASSUME ListEvents PROVE IInv'
  <2>1. /\ UNCHANGED <<event, tombs, runs, app, purge, named, emitted>> /\ NoPurgeRuns
        /\ \E rows \in SUBSET {k \in Keys : event[k].stored} : evidence' = [pc |-> "listed", rows |-> rows]
    BY <1>4 DEF ListEvents
  <2>2. StateType' /\ EvidenceSafe' BY <2>1 DEF IInv, StateType, EvidenceSafe
  <2>3. Accounted' /\ AppendSafe' BY <2>1 DEF IInv, Accounted, AppendSafe
  <2>4. PurgeAlone' /\ PurgeSafe' BY <2>1 DEF IInv, PurgeAlone, PurgeSafe, NoPurgeRuns, Purging
  <2> QED BY <2>2, <2>3, <2>4 DEF IInv
<1>5. ASSUME CommitEvidence PROVE IInv'
  <2>1. /\ UNCHANGED <<event, tombs, runs, app, purge, emitted>> /\ evidence.pc = "listed"
        /\ evidence' = [pc |-> "idle", rows |-> {}] /\ named' = named \cup evidence.rows
    BY <1>5 DEF CommitEvidence
  <2>2. StateType' /\ EvidenceSafe' BY <2>1 DEF IInv, StateType, EvidenceSafe
  <2>3. Accounted' /\ AppendSafe' BY <2>1 DEF IInv, Accounted, AppendSafe
  <2>4. \A q \in Purgers : ~Purging(q) BY <2>1 DEF IInv, PurgeAlone
  <2>5. PurgeAlone' BY <2>1, <2>4 DEF PurgeAlone, Purging
  <2>6. PurgeSafe' BY <2>1, <2>4 DEF IInv, PurgeSafe, Purging
  <2> QED BY <2>2, <2>3, <2>5, <2>6 DEF IInv
<1> QED BY <1>2, <1>3, <1>4, <1>5

\* The invariant holds in every reachable state.
LEMMA Invariant == AuditSpec => []IInv
<1>1. ASSUME IInv, UNCHANGED auditVars PROVE IInv'
  BY <1>1 DEF auditVars, IInv, StateType, Accounted, AppendSafe, PurgeAlone, PurgeSafe, EvidenceSafe, Purging
<1>2. IInv /\ [AuditNext]_auditVars => IInv'
  BY <1>1, AppendSteps, CommitAppendStep, PurgeSteps, ApplyStep, OtherSteps DEF AuditNext
<1> QED BY InitEstablishes, <1>2, PTL DEF AuditSpec

-----------------------------------------------------------------------------
\* EmittedOnce: append_audit_event() emits the domain event of an idempotency key
\* once, also when the append waited for a purge of its row.
THEOREM KeysEmitOnce == AuditSpec => []EmittedOnce
<1>1. IInv => EmittedOnce BY DEF IInv, Accounted, EmittedOnce
<1> QED BY Invariant, <1>1, PTL

\* EvidenceIsKept: no purge removes an audit event that an evidence artifact names.
THEOREM EvidenceStays == AuditSpec => []EvidenceIsKept
<1>1. IInv => EvidenceIsKept BY DEF IInv, EvidenceSafe, EvidenceIsKept
<1> QED BY Invariant, <1>1, PTL

\* RetryIsAnswered: a retried purge never fails at the key of its receipt.
THEOREM RetriesAreAnswered == AuditSpec => []RetryIsAnswered
<1>1. IInv => RetryIsAnswered BY DEF IInv, PurgeSafe, RetryIsAnswered
<1> QED BY Invariant, <1>1, PTL

\* PendingIsKept: no step removes an outbox row that is yet to be delivered.
THEOREM PendingStays == AuditSpec => PendingIsKept
<1>1. ASSUME IInv, [AuditNext]_auditVars, NEW k \in Keys, event[k].outbox = "pending"
      PROVE  event'[k].outbox # None
  <2>1. StateType /\ event[k].stored
    BY <1>1, RestingTypes DEF IInv, Accounted, None
  <2>2. CASE UNCHANGED event BY <1>1, <2>2 DEF None
  <2>3. ASSUME NEW p \in Appenders, CommitAppend(p) PROVE event'[k] = event[k]
    BY <1>1, <2>1, <2>3 DEF CommitAppend, IInv, AppendSafe, StateType
  <2>4. ASSUME NEW q \in Purgers, Apply(q) PROVE event'[k] = event[k]
    BY <1>1, <2>4 DEF Apply, IInv, PurgeSafe
  <2>5. ASSUME NEW j \in Keys, Age(j) \/ Deliver(j) PROVE event'[k].outbox # None
    <3>1. CASE Age(j) BY <1>1, <2>1, <3>1 DEF Age, StateType, None
    <3>2. CASE Deliver(j) BY <1>1, <2>1, <3>2 DEF Deliver, StateType, None
    <3> QED BY <2>5, <3>1, <3>2
  <2>6. \/ UNCHANGED event
        \/ \E p \in Appenders : CommitAppend(p)
        \/ \E q \in Purgers : Apply(q)
        \/ \E j \in Keys : Age(j) \/ Deliver(j)
    BY Zenon, <1>1 DEF AuditNext, auditVars, Append, ReadReceipt, SelectRow, ReadReceiptAgain, InsertRow,
                RollBackAppend, Request, LockCompany, Lookup, SelectRows, RollBackPurge, EndRequest, ListEvents,
                CommitEvidence
  <2> QED BY <1>1, <2>2, <2>3, <2>4, <2>5, <2>6 DEF None
<1>2. IInv /\ [AuditNext]_auditVars =>
        [\A k \in Keys : event[k].outbox = "pending" => event'[k].outbox # None]_auditVars
  BY <1>1
<1> QED BY Invariant, <1>2, PTL DEF AuditSpec, PendingIsKept

-----------------------------------------------------------------------------
(* Knowledge.  The invariant says what a session may rely on from its
   conditional UPDATE to its commit: nobody else has the row, it is still the
   version that was read, and it has no tombstone. *)

Pointers == [exists: BOOLEAN, version: 1..MaxVersion, deleted: {"no", "recent", "old"},
             expiry: Expiries]
Requests == [pc: {"idle", "read", "updated"}, op: {"revise", "delete"}, read: Pointers,
             expiry: Expiries]

PointerType ==
    /\ row \in Pointers /\ session \in [Sessions -> Requests]
    /\ tombstone \in BOOLEAN /\ collided \in BOOLEAN /\ purger \in {"idle", "locked"}
    /\ revisions \in [1..MaxVersion -> Nat]

\* Each version before the current one was revised once.
RevisedUpToNow == \A v \in 1..MaxVersion : revisions[v] = IF v < row.version THEN 1 ELSE 0

\* A tombstone and an inaccessible row go together.
TombstoneIffGone == tombstone <=> ~row.exists \/ row.deleted # "no"

\* One transaction has the row, in the version that it read.
UpdateHoldsRow ==
    \A s \in Sessions :
        /\ session[s].pc # "idle" =>
               /\ session[s].read.exists /\ session[s].read.deleted = "no"
               /\ session[s].op = "revise" => session[s].read.version < MaxVersion
        /\ session[s].pc = "updated" =>
               /\ purger = "idle" /\ Matches(s)
               /\ \A t \in Sessions : session[t].pc = "updated" => t = s

PointerIInv ==
    PointerType /\ RevisedUpToNow /\ TombstoneIffGone /\ UpdateHoldsRow /\ ~collided

\* A session at rest has its type.
LEMMA RestingType == Resting \in Requests /\ Resting.pc = "idle"
  BY KnowledgeAssumption DEF Resting, Requests, Pointers, Published, Expiries

\* The published pointer satisfies the invariant.
LEMMA PointerInitEstablishes == PointerInit => PointerIInv
<1> SUFFICES ASSUME PointerInit PROVE PointerIInv OBVIOUS
<1>1. PICK expiry \in {"none", "future"} : row = Published(expiry) BY DEF PointerInit
<1>2. row \in Pointers /\ row.exists /\ row.version = 1 /\ row.deleted = "no"
  BY <1>1, KnowledgeAssumption DEF Published, Pointers, Expiries
<1>3. PointerType BY Zenon, <1>2, RestingType DEF PointerInit, PointerType
<1>4. RevisedUpToNow BY <1>2 DEF PointerInit, RevisedUpToNow
<1>5. TombstoneIffGone /\ ~collided BY <1>2 DEF PointerInit, TombstoneIffGone
<1>6. UpdateHoldsRow BY RestingType DEF PointerInit, UpdateHoldsRow
<1> QED BY <1>3, <1>4, <1>5, <1>6 DEF PointerIInv

\* Reads, conditional updates and rollbacks change the session only.
LEMMA SessionSteps ==
    ASSUME PointerIInv, NEW s \in Sessions,
           \/ \E op \in {"revise", "delete"}, expiry \in Expiries : Read(s, op, expiry)
           \/ Update(s) \/ RollBack(s)
    PROVE  PointerIInv'
<1>1. UNCHANGED <<row, tombstone, purger, revisions, collided>> BY DEF Read, Update, RollBack
<1>2. PointerType BY DEF PointerIInv
<1>3. ASSUME session' \in [Sessions -> Requests],
             \A t \in Sessions \ {s} : session'[t] = session[t],
             session'[s].pc # "idle" =>
               /\ session'[s].read.exists /\ session'[s].read.deleted = "no"
               /\ session'[s].op = "revise" => session'[s].read.version < MaxVersion,
             session'[s].pc = "updated" =>
               /\ ~Locked /\ row.exists /\ row.version = session'[s].read.version
               /\ row.deleted = "no"
      PROVE  PointerIInv'
  <2>1. PointerType' /\ RevisedUpToNow' /\ TombstoneIffGone' /\ ~collided'
    BY <1>1, <1>3 DEF PointerIInv, PointerType, RevisedUpToNow, TombstoneIffGone
  <2>2. session'[s].pc = "updated" => purger = "idle" /\ \A t \in Sessions : session[t].pc # "updated"
    BY <1>2, <1>3 DEF Locked, PointerType
  <2>3. UpdateHoldsRow' BY <1>1, <1>3, <2>2 DEF PointerIInv, UpdateHoldsRow, Matches
  <2> QED BY <2>1, <2>3 DEF PointerIInv
<1>4. ASSUME session' = [session EXCEPT ![s] = Resting] PROVE PointerIInv'
  BY <1>2, <1>3, <1>4, RestingType DEF PointerType
<1>5. ASSUME NEW op \in {"revise", "delete"}, NEW expiry \in Expiries, Read(s, op, expiry) PROVE PointerIInv'
  <2> DEFINE request == [pc |-> "read", op |-> op, read |-> row, expiry |-> expiry]
  <2>1. request \in Requests BY <1>2 DEF PointerType, Requests
  <2>2. /\ session' = [session EXCEPT ![s] = request]
        /\ row.exists /\ row.deleted = "no" /\ (op = "revise" => row.version < MaxVersion)
    BY <1>5 DEF Read, IsAccessible
  <2> QED BY <1>2, <1>3, <2>1, <2>2 DEF PointerType
<1>6. CASE Update(s) /\ Matches(s)
  <2>1. /\ ~Locked /\ session[s].pc = "read"
        /\ session' = [session EXCEPT ![s].pc = "updated"]
    BY <1>2, <1>6 DEF Update, PointerType
  <2>2. /\ session' \in [Sessions -> Requests] /\ \A t \in Sessions \ {s} : session'[t] = session[t]
        /\ session'[s].read = session[s].read /\ session'[s].op = session[s].op
    BY <1>2, <2>1 DEF PointerType, Requests
  <2> QED BY <1>3, <1>6, <2>1, <2>2 DEF PointerIInv, UpdateHoldsRow, Matches
<1>7. CASE Update(s) /\ ~Matches(s) BY <1>4, <1>7 DEF Update
<1>8. CASE RollBack(s) BY <1>4, <1>8 DEF RollBack
<1> QED BY <1>5, <1>6, <1>7, <1>8

\* The commit of a revision or of a deletion, which holds the row.
LEMMA CommitSteps ==
    ASSUME PointerIInv, NEW s \in Sessions, CommitRevision(s) \/ CommitDeletion(s)
    PROVE  PointerIInv'
<1>1. /\ PointerType /\ session[s].pc = "updated"
      /\ session' = [session EXCEPT ![s] = Resting] /\ UNCHANGED purger
  BY DEF PointerIInv, CommitRevision, CommitDeletion
<1>2. /\ purger = "idle" /\ row.exists /\ row.deleted = "no" /\ ~tombstone
      /\ row.version = session[s].read.version
      /\ session[s].read.exists /\ session[s].read.deleted = "no"
      /\ \A t \in Sessions : session[t].pc = "updated" => t = s
  BY <1>1 DEF PointerIInv, UpdateHoldsRow, Matches, TombstoneIffGone
<1>3. /\ session' \in [Sessions -> Requests] /\ \A t \in Sessions \ {s} : session'[t] = session[t]
      /\ \A t \in Sessions : session'[t].pc # "updated"
      /\ session'[s].pc = "idle"
  BY <1>1, <1>2, RestingType DEF PointerType
<1>4. UpdateHoldsRow' BY <1>3 DEF PointerIInv, UpdateHoldsRow
<1>5. CASE CommitRevision(s)
  <2> DEFINE old == session[s].read
             new == [old EXCEPT !.version = @ + 1, !.expiry = session[s].expiry]
  <2>1. /\ row' = new /\ revisions' = [revisions EXCEPT ![old.version] = @ + 1]
        /\ UNCHANGED <<tombstone, collided>> /\ session[s].op = "revise"
    BY <1>5 DEF CommitRevision
  <2>2. old \in Pointers /\ session[s].expiry \in Expiries /\ old.version < MaxVersion
    BY <1>1, <2>1 DEF PointerIInv, PointerType, Requests, UpdateHoldsRow
  <2>3. /\ new \in Pointers /\ new.exists = old.exists /\ new.deleted = old.deleted
        /\ new.version = old.version + 1
    <3>1. old.version + 1 \in 1..MaxVersion BY <2>2, KnowledgeAssumption DEF Pointers
    <3> HIDE DEF old
    <3> QED BY Zenon, <2>2, <3>1 DEF Pointers
  <2>4. old.version \in 1..MaxVersion /\ revisions \in [1..MaxVersion -> Nat]
    BY <1>1, <2>2 DEF Pointers, PointerType
  <2> HIDE DEF new, old
  <2>5. PointerType' BY <1>1, <1>3, <2>1, <2>3, <2>4 DEF PointerType
  <2>6. RevisedUpToNow'
    BY <1>2, <2>1, <2>3, <2>4, KnowledgeAssumption DEF PointerIInv, RevisedUpToNow, old
  <2>7. TombstoneIffGone' BY <1>2, <2>1, <2>3 DEF TombstoneIffGone, old
  <2> QED BY <1>4, <2>1, <2>5, <2>6, <2>7 DEF PointerIInv
<1>6. CASE CommitDeletion(s)
  <2>1. /\ row' = [row EXCEPT !.deleted = "recent"] /\ tombstone' = TRUE
        /\ collided' = (collided \/ tombstone) /\ UNCHANGED revisions
    BY <1>6 DEF CommitDeletion
  <2>2. row' \in Pointers /\ row'.version = row.version /\ row'.deleted = "recent"
    BY <1>1, <2>1 DEF PointerType, Pointers
  <2>3. ~collided' BY Zenon, <1>2, <2>1 DEF PointerIInv
  <2>4. PointerType' BY <1>1, <1>3, <2>1, <2>2, <2>3 DEF PointerType
  <2>5. RevisedUpToNow' BY <2>1, <2>2 DEF PointerIInv, RevisedUpToNow
  <2>6. TombstoneIffGone' BY <2>1, <2>2 DEF TombstoneIffGone
  <2> QED BY <1>4, <2>3, <2>4, <2>5, <2>6 DEF PointerIInv
<1> QED BY <1>5, <1>6

\* The purge, and time.
LEMMA RowSteps == 
    ASSUME PointerIInv, SelectExpired \/ Purge \/ ReleasePointer \/ Expire \/ GrowOld
    PROVE  PointerIInv'
<1>1. PointerType /\ UNCHANGED <<session, revisions, collided>>
  BY DEF PointerIInv, SelectExpired, Purge, ReleasePointer, Expire, GrowOld
<1>2. CASE SelectExpired
  <2>1. UNCHANGED <<row, tombstone>> /\ purger' = "locked" /\ \A s \in Sessions : session[s].pc # "updated"
    BY <1>2 DEF SelectExpired, Locked
  <2>2. UpdateHoldsRow' BY <1>1, <2>1 DEF PointerIInv, UpdateHoldsRow
  <2> QED BY <1>1, <2>1, <2>2 DEF PointerIInv, PointerType, RevisedUpToNow, TombstoneIffGone
<1>3. CASE Purge
  <2>1. purger = "locked" /\ purger' = "idle" /\ tombstone' = TRUE /\ row' = [row EXCEPT !.exists = FALSE]
    BY <1>3 DEF Purge
  <2>2. row' \in Pointers /\ row'.version = row.version /\ ~row'.exists
    BY Zenon, <1>1, <2>1 DEF PointerType, Pointers
  <2>3. \A s \in Sessions : session[s].pc # "updated" BY <2>1 DEF PointerIInv, UpdateHoldsRow
  <2>4. UpdateHoldsRow' BY <1>1, <2>3 DEF PointerIInv, UpdateHoldsRow
  <2> QED BY <1>1, <2>1, <2>2, <2>4 DEF PointerIInv, PointerType, RevisedUpToNow, TombstoneIffGone
<1>4. CASE Expire
  <2>1. UNCHANGED <<tombstone, purger>> /\ row' = [row EXCEPT !.expiry = "past"]
    BY <1>4 DEF Expire
  <2>2. /\ row' \in Pointers /\ row'.version = row.version /\ row'.exists = row.exists
        /\ row'.deleted = row.deleted
    BY <1>1, <2>1 DEF PointerType, Pointers, Expiries
  <2>3. UpdateHoldsRow' BY <1>1, <2>1, <2>2 DEF PointerIInv, UpdateHoldsRow, Matches
  <2> QED BY <1>1, <2>1, <2>2, <2>3 DEF PointerIInv, PointerType, RevisedUpToNow, TombstoneIffGone
<1>5. CASE GrowOld
  <2>1. /\ UNCHANGED <<tombstone, purger>> /\ row.deleted = "recent"
        /\ row' = [row EXCEPT !.deleted = "old"] /\ \A s \in Sessions : session[s].pc = "idle"
    BY <1>5 DEF GrowOld
  <2>2. row' \in Pointers /\ row'.version = row.version /\ row'.exists = row.exists /\ row'.deleted = "old"
    BY <1>1, <2>1 DEF PointerType, Pointers
  <2>3. UpdateHoldsRow' BY <1>1, <2>1 DEF UpdateHoldsRow
  <2> QED BY <1>1, <2>1, <2>2, <2>3 DEF PointerIInv, PointerType, RevisedUpToNow, TombstoneIffGone
<1>6. CASE ReleasePointer
  <2>1. UNCHANGED <<row, tombstone>> /\ purger' = "idle" BY <1>6 DEF ReleasePointer
  <2>2. UpdateHoldsRow' BY <1>1, <2>1 DEF PointerIInv, UpdateHoldsRow, Matches
  <2> QED BY <1>1, <2>1, <2>2 DEF PointerIInv, PointerType, RevisedUpToNow, TombstoneIffGone
<1> QED BY <1>2, <1>3, <1>4, <1>5, <1>6

\* The invariant holds in every reachable state.
LEMMA PointerInvariant == PointerSpec => []PointerIInv
<1>1. ASSUME PointerIInv, UNCHANGED pointerVars PROVE PointerIInv'
  BY <1>1 DEF pointerVars, PointerIInv, PointerType, RevisedUpToNow, TombstoneIffGone, UpdateHoldsRow, Matches
<1>2. PointerIInv /\ [PointerNext]_pointerVars => PointerIInv'
  BY <1>1, SessionSteps, CommitSteps, RowSteps DEF PointerNext
<1> QED BY PointerInitEstablishes, <1>2, PTL DEF PointerSpec

-----------------------------------------------------------------------------
\* RevisedOnce: the conditional UPDATE accepts one revision of a version.
THEOREM VersionsAreRevisedOnce == PointerSpec => []RevisedOnce
<1>1. PointerIInv => RevisedOnce
  BY DEF PointerIInv, RevisedUpToNow, RevisedOnce
<1> QED BY PointerInvariant, <1>1, PTL

\* TombstonedIsGone: a revision that was under way never revives a pointer that was
\* deleted or purged.
THEOREM TombstonedStaysGone == PointerSpec => []TombstonedIsGone
<1>1. PointerIInv => TombstonedIsGone
  BY DEF PointerIInv, TombstoneIffGone, TombstonedIsGone, IsAccessible
<1> QED BY PointerInvariant, <1>1, PTL

\* GoneLeavesTombstone: no pointer disappears without a tombstone.
THEOREM GoneHasTombstone == PointerSpec => []GoneLeavesTombstone
<1>1. PointerIInv => GoneLeavesTombstone
  BY DEF PointerIInv, TombstoneIffGone, GoneLeavesTombstone
<1> QED BY PointerInvariant, <1>1, PTL

\* OneTombstone: deletion and purge never collide on the tombstone's key.
THEOREM TombstonesDoNotCollide == PointerSpec => []OneTombstone
<1>1. PointerIInv => OneTombstone BY DEF PointerIInv, OneTombstone
<1> QED BY PointerInvariant, <1>1, PTL
-----------------------------------------------------------------------------
\* Every step of the retention transaction is a step of the audit log or leaves it
\* alone, and a step of the pointer or leaves it alone.
LEMMA StepsAreParts ==
    ASSUME [Next]_vars
    PROVE  [AuditNext]_auditVars /\ [PointerNext]_pointerVars
<1>1. CASE UNCHANGED vars BY <1>1 DEF vars
<1>2. CASE AuditStep BY <1>2 DEF AuditStep, AuditNext
<1>3. CASE PointerStep BY <1>3 DEF PointerStep, PointerNext
<1>4. CASE PurgeStep
  <2>1. PICK q \in Purgers :
          \/ /\ \/ \E i \in RequestIds, size \in Sizes : Request(q, i, size)
                \/ LockCompany(q) \/ Lookup(q) \/ EndRequest(q)
             /\ UNCHANGED pointerVars
          \/ SelectBoth(q) \/ ApplyBoth(q) \/ RollBackBoth(q)
    BY <1>4 DEF PurgeStep
  <2>2. \/ \E i \in RequestIds, size \in Sizes : Request(q, i, size)
        \/ LockCompany(q) \/ Lookup(q) \/ EndRequest(q)
        \/ SelectRows(q) \/ Apply(q) \/ RollBackPurge(q)
    BY <2>1 DEF SelectBoth, ApplyBoth, RollBackBoth
  <2>3. SelectExpired \/ Purge \/ ReleasePointer \/ UNCHANGED pointerVars
    BY <2>1 DEF SelectBoth, ApplyBoth, RollBackBoth
  <2> QED BY <2>2, <2>3 DEF AuditNext, PointerNext
<1> QED BY <1>1, <1>2, <1>3, <1>4 DEF Next

\* SqlAlchemyRetentionStore.apply() keeps both parts: the audit log and the pointer
\* under it behave as Retention and Knowledge say, so their theorems hold of it.
THEOREM RetentionKeepsBothParts == Spec => AuditSpec /\ PointerSpec
<1>1. Init => AuditInit /\ PointerInit BY DEF Init
<1>2. [Next]_vars => [AuditNext]_auditVars /\ [PointerNext]_pointerVars BY StepsAreParts
<1> QED BY <1>1, <1>2, PTL DEF Spec, AuditSpec, PointerSpec

\* A request in progress asks for a batch of at least one.
Sized == \A q \in Purgers : purge[q].pc # "idle" => purge[q].size # 0

\* RemovalIsReceipted: the commit that removes rows stores the receipt of its request.
THEOREM RemovalsHaveReceipts == Spec => RemovalIsReceipted
<1>1. AuditInit => Sized BY RestingTypes DEF AuditInit, Sized
<1>2. ASSUME IInv, Sized, [AuditNext]_auditVars PROVE Sized'
  <2>1. CASE UNCHANGED purge BY <1>2, <2>1 DEF Sized
  <2>2. ASSUME NEW q \in Purgers, NEW i \in RequestIds, NEW size \in Sizes, Request(q, i, size)
        PROVE  Sized'
    BY <1>2, <2>2, RestingTypes, RetentionAssumption DEF Request, Sized, IInv, StateType
  <2>3. ASSUME NEW q \in Purgers, RollBackPurge(q) \/ EndRequest(q) PROVE Sized'
    BY <1>2, <2>3, RestingTypes DEF RollBackPurge, EndRequest, Sized, IInv, StateType
  <2>4. ASSUME NEW q \in Purgers, LockCompany(q) \/ Lookup(q) \/ SelectRows(q) \/ Apply(q)
        PROVE  Sized'
    <3>1. /\ purge[q].pc # "idle" /\ purge'[q].size = purge[q].size
          /\ \A o \in Purgers \ {q} : purge'[o] = purge[o]
      <4>1. purge \in [Purgers -> [pc: PurgePlaces, id: RequestIds, size: Nat, rows: SUBSET Keys,
                                   answer: {None, "receipt", "conflict", "error"}]]
        BY <1>2 DEF IInv, StateType
      <4>2. CASE LockCompany(q) BY <4>1, <4>2 DEF LockCompany
      <4>3. CASE Lookup(q) BY <4>1, <4>3 DEF Lookup, Answer
      <4>4. CASE SelectRows(q)
        <5>1. PICK rows : purge' = [purge EXCEPT ![q].pc = "apply", ![q].rows = rows]
          BY Zenon, <4>4 DEF SelectRows
        <5> QED BY <4>1, <4>4, <5>1 DEF SelectRows
      <4>5. CASE Apply(q) BY <4>1, <4>5 DEF Apply, Answer
      <4> QED BY <2>4, <4>2, <4>3, <4>4, <4>5
    <3> QED BY <1>2, <3>1 DEF Sized
  <2> QED
    BY Zenon, <1>2, <2>1, <2>2, <2>3, <2>4
    DEF AuditNext, auditVars, Append, ReadReceipt, SelectRow, ReadReceiptAgain, InsertRow,
        CommitAppend, RollBackAppend, Age, Deliver, ListEvents, CommitEvidence
<1>3. AuditSpec => []Sized
  <2>1. IInv /\ Sized /\ [AuditNext]_auditVars => Sized' BY <1>2
  <2> QED BY <1>1, <2>1, Invariant, PTL DEF AuditSpec
<1>4. ASSUME IInv, PointerIInv, Sized, [Next]_vars, tombs' # tombs \/ row.exists # row'.exists
      PROVE  \E i \in RequestIds : runs[i] = 0 /\ runs'[i] # 0
  <2>1. PICK q \in Purgers : Apply(q)
    <3>1. CASE tombs' # tombs
      <4>1. AuditNext BY <1>4, <3>1, StepsAreParts DEF auditVars
      <4> QED
        BY Zenon, <3>1, <4>1
        DEF AuditNext, Append, ReadReceipt, SelectRow, ReadReceiptAgain, InsertRow, CommitAppend,
            RollBackAppend, Request, LockCompany, Lookup, SelectRows, RollBackPurge, EndRequest,
            Age, Deliver, ListEvents, CommitEvidence
    <3>2. CASE row.exists # row'.exists
      <4>1. ~PointerStep
        <5>1. row \in Pointers BY <1>4 DEF PointerIInv, PointerType
        <5>2. ASSUME NEW s \in Sessions, CommitRevision(s) PROVE row'.exists = row.exists
          <6>1. session[s].read \in Pointers
            BY <1>4 DEF PointerIInv, PointerType, Requests
          <6>2. row'.exists = session[s].read.exists BY <5>2, <6>1 DEF CommitRevision, Pointers
          <6>3. session[s].read.exists /\ row.exists
            BY <1>4, <5>2 DEF PointerIInv, UpdateHoldsRow, Matches, CommitRevision
          <6> QED BY <5>1, <6>1, <6>2, <6>3 DEF Pointers
        <5> QED
          BY <3>2, <5>1, <5>2
          DEF PointerStep, Read, Update, RollBack, CommitDeletion, Expire, GrowOld, Pointers
      <4>2. PurgeStep BY <1>4, <3>2, <4>1 DEF Next, AuditStep, vars, pointerVars
      <4> QED
        BY <3>2, <4>2
        DEF PurgeStep, SelectBoth, ApplyBoth, RollBackBoth, SelectExpired, ReleasePointer,
            pointerVars
    <3> QED BY <1>4, <3>1, <3>2
  <2>2. /\ purge[q].id \in RequestIds /\ runs \in [RequestIds -> Nat]
        /\ runs[purge[q].id] = 0 /\ purge[q].size # 0
    BY <1>4, <2>1 DEF Apply, IInv, StateType, PurgeSafe, Sized
  <2>3. runs' = [runs EXCEPT ![purge[q].id] = purge[q].size] BY <2>1, <2>2 DEF Apply
  <2> QED BY <2>2, <2>3
<1>5. IInv /\ PointerIInv /\ Sized /\ [Next]_vars =>
        [(tombs' # tombs \/ row.exists # row'.exists) =>
            \E i \in RequestIds : runs[i] = 0 /\ runs'[i] # 0]_vars
  BY <1>4
<1> QED BY <1>3, <1>5, RetentionKeepsBothParts, Invariant, PointerInvariant, PTL
        DEF Spec, RemovalIsReceipted
============================================================================
