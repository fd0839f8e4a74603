------------------------- MODULE EventDeliveryProofs -------------------------
(***************************************************************************)
(* What EventDelivery promises for every number of consumers, events and   *)
(* entries and every timing: the processing lock excludes, and the group   *)
(* implements EventContract.  Each theorem names the Redis calls that may  *)
(* not fail for it; the runs of the same name show what happens otherwise. *)
(***************************************************************************)
EXTENDS EventDelivery, FiniteSetTheorems, TLAPS

Places == {"claim", "read", "next", "skip", "lock", "handle", "results",
           "dlq", "mark", "unlock", "ack", "down"}
Working == {"skip", "lock", "handle", "results", "dlq", "mark", "unlock", "ack"}

\* the part of TypeOK that the arguments below rest on
StateType ==
  /\ stream \in Seq(Events)
  /\ DOMAIN idle \subseteq Entries
  /\ acked \subseteq Entries
  /\ pc \in [Consumers -> Places]
  /\ batch \in [Consumers -> Seq(Entries)]

\* a consumer past "next" has an entry in hand
EntryInHand == \A c \in Consumers : pc[c] \in Working => batch[c] # <<>>

Shape == StateType /\ EntryInHand

-----------------------------------------------------------------------------
\* Take gives a consumer a sequence of entries.
LEMMA TakeType ==
  ASSUME NEW c \in Consumers, batch \in [Consumers -> Seq(Entries)],
         NEW S \in SUBSET Entries, stream \in Seq(Events), Take(c, S)
  PROVE  batch' \in [Consumers -> Seq(Entries)]
<1>1. PICK s \in [1..Cardinality(S) -> S] : batch' = [batch EXCEPT ![c] = s]
  BY Zenon DEF Take
<1>2. IsFiniteSet(S) /\ Cardinality(S) \in Nat
  <2>1. Len(stream) \in Nat OBVIOUS
  <2>2. IsFiniteSet(Entries) BY <2>1, FS_Interval DEF Entries
  <2> QED BY <2>2, FS_Subset, FS_CardinalityType
<1>3. ASSUME NEW n \in Nat, NEW t \in [1..n -> S] PROVE t \in Seq(Entries)
  <2>1. t \in [1..n -> Entries] OBVIOUS
  <2> QED BY <2>1
<1>4. s \in Seq(Entries) BY Zenon, <1>1, <1>2, <1>3
<1> QED BY <1>1, <1>4

\* The rest of a batch is a sequence of entries again.
LEMMA TailType ==
  ASSUME NEW S, NEW s \in Seq(S), s # <<>>
  PROVE  Head(s) \in S /\ Tail(s) \in Seq(S)
  OBVIOUS

\* The entries that can be reclaimed or read are entries of the stream.
LEMMA Deliverable ==
  ASSUME StateType
  PROVE  Claimable \subseteq Entries /\ NewEntries \subseteq Entries
  BY DEF StateType, Claimable, NewEntries

\* Entries stay what they are when the stream grows.
LEMMA PublishShape ==
  ASSUME StateType, NEW e \in Events, Publish(e)
  PROVE  /\ stream' \in Seq(Events) /\ Entries \subseteq Entries'
         /\ \A m \in Entries : stream'[m] = stream[m]
         /\ Range(stream') = Range(stream) \cup {e}
<1>1. stream \in Seq(Events) /\ stream' = Append(stream, e) BY DEF StateType, Publish
<1>2. stream' \in Seq(Events) /\ Len(stream') = Len(stream) + 1 /\ Len(stream) \in Nat
  BY <1>1
<1>3. Entries \subseteq Entries' /\ Entries' = Entries \cup {Len(stream) + 1}
  BY <1>2 DEF Entries
<1>4. \A m \in Entries : stream'[m] = stream[m] BY <1>1 DEF Entries
<1>5. stream'[Len(stream) + 1] = e BY <1>1
<1>6. DOMAIN stream = Entries /\ DOMAIN stream' = Entries' BY <1>1, <1>2 DEF Entries
<1>7. Range(stream') = {stream'[m] : m \in Entries'} /\ Range(stream) = {stream[m] : m \in Entries}
  BY <1>6, Zenon DEF Range
<1> QED BY <1>2, <1>3, <1>4, <1>5, <1>7

\* Every step but Publish leaves the stream as it is.
LEMMA StreamStep ==
  ASSUME [Next]_vars
  PROVE  UNCHANGED stream \/ \E e \in Events : Publish(e)
  BY Zenon DEF Next, Consume, ClaimPending, ReadNew, PollAgain, EndBatch, PublishRawDlq, IsProcessed,
         ClaimProcessing, HandleEvent, PublishToDlq, PublishResultEvents, MarkProcessed, DeleteLock,
         Acknowledge, Crash, Restart, Tick, vars, bus, keys, effects, loop

\* Every step keeps the shape.
LEMMA ShapeStep == ASSUME Shape, [Next]_vars PROVE Shape'
<1> USE DEF Shape
<1>1. ASSUME NEW e \in Events, Publish(e) PROVE Shape'
  <2>1. /\ stream' \in Seq(Events) /\ Entries \subseteq Entries'
    BY <1>1, PublishShape
  <2>2. UNCHANGED <<idle, acked, pc, batch>> BY <1>1 DEF Publish, loop
  <2>3. batch \in [Consumers -> Seq(Entries')]
    <3>1. ASSUME NEW s \in Seq(Entries) PROVE s \in Seq(Entries') BY <2>1
    <3> QED BY <3>1 DEF StateType
  <2> QED BY <2>1, <2>2, <2>3 DEF StateType, EntryInHand
<1>2. CASE UNCHANGED <<stream, idle, acked, pc, batch>>
  BY <1>2 DEF StateType, EntryInHand, Entries
<1>3. ASSUME NEW c \in Consumers, ClaimPending(c) PROVE Shape'
  <2>1. batch' \in [Consumers -> Seq(Entries)]
    BY Zenon, <1>3, TakeType, Deliverable DEF ClaimPending, StateType
  <2>2. UNCHANGED <<stream, acked>> /\ Entries' = Entries BY <1>3 DEF ClaimPending, Entries
  <2>3. DOMAIN idle' \subseteq Entries BY <1>3 DEF ClaimPending, StateType
  <2>4. /\ pc' \in [Consumers -> Places] /\ pc'[c] \notin Working
        /\ \A d \in Consumers \ {c} : pc'[d] = pc[d] /\ batch'[d] = batch[d]
    BY Zenon, <1>3 DEF ClaimPending, Take, StateType, Places, Working
  <2> QED BY <2>1, <2>2, <2>3, <2>4 DEF StateType, EntryInHand
<1>4. ASSUME NEW c \in Consumers, ReadNew(c) PROVE Shape'
  <2>1. batch' \in [Consumers -> Seq(Entries)]
    BY Zenon, <1>4, TakeType, Deliverable DEF ReadNew, StateType
  <2>2. UNCHANGED <<stream, acked>> /\ Entries' = Entries BY <1>4 DEF ReadNew, Entries
  <2>3. DOMAIN idle' \subseteq Entries BY <1>4, Deliverable DEF ReadNew, StateType
  <2>4. /\ pc' \in [Consumers -> Places] /\ pc'[c] \notin Working
        /\ \A d \in Consumers \ {c} : pc'[d] = pc[d] /\ batch'[d] = batch[d]
    BY <1>4 DEF ReadNew, Take, StateType, Places, Working
  <2> QED BY <2>1, <2>2, <2>3, <2>4 DEF StateType, EntryInHand
<1>5. ASSUME NEW c \in Consumers,
             \/ PollAgain(c) \/ EndBatch(c) \/ PublishRawDlq(c) \/ IsProcessed(c)
             \/ HandleEvent(c) \/ PublishToDlq(c) \/ PublishResultEvents(c)
             \/ MarkProcessed(c) \/ DeleteLock(c) \/ Restart(c)
      PROVE  Shape'
  <2>1. UNCHANGED <<stream, idle, acked, batch>> /\ Entries' = Entries
    BY <1>5 DEF PollAgain, EndBatch, PublishRawDlq, IsProcessed, HandleEvent, PublishToDlq,
                PublishResultEvents, MarkProcessed, DeleteLock, Restart, bus, Entries
  <2>2. /\ pc' \in [Consumers -> Places]
        /\ \A d \in Consumers : pc'[d] \in Working => pc[d] \in Working \/ batch[d] # <<>>
    BY Zenon, <1>5 DEF PollAgain, EndBatch, PublishRawDlq, IsProcessed, HandleEvent, PublishToDlq,
                PublishResultEvents, MarkProcessed, DeleteLock, Restart, StateType, Places, Working
  <2> QED BY <2>1, <2>2 DEF StateType, EntryInHand
<1>6. ASSUME NEW c \in Consumers, ClaimProcessing(c) \/ Acknowledge(c) \/ Crash(c) PROVE Shape'
  <2>1. UNCHANGED stream /\ Entries' = Entries
    BY <1>6 DEF ClaimProcessing, Acknowledge, Crash, bus, Entries
  <2>2. pc[c] \in Working => /\ Head(batch[c]) \in Entries
                              /\ Tail(batch[c]) \in Seq(Entries)
    BY TailType DEF StateType, EntryInHand
  <2>3. pc' \in [Consumers -> Places] /\ batch' \in [Consumers -> Seq(Entries)]
    <3>1. \A s \in Seq(Entries) : [batch EXCEPT ![c] = s] \in [Consumers -> Seq(Entries)]
      BY DEF StateType
    <3>2. <<>> \in Seq(Entries) OBVIOUS
    <3>3. CASE ClaimProcessing(c) BY Zenon, <3>1, <3>3, <2>2 DEF ClaimProcessing, StateType, Places, Working
    <3>4. CASE Acknowledge(c) BY Zenon, <3>1, <3>2, <3>4, <2>2 DEF Acknowledge, StateType, Places, Working
    <3>5. CASE Crash(c) BY <3>1, <3>2, <3>5 DEF Crash, StateType, Places
    <3> QED BY <1>6, <3>3, <3>4, <3>5
  <2>4. DOMAIN idle' \subseteq Entries /\ acked' \subseteq Entries
    BY <1>6, <2>2 DEF ClaimProcessing, Acknowledge, Crash, bus, StateType, Restrict, Working
  <2>5. /\ pc'[c] \in Working => batch'[c] = batch[c] /\ pc[c] \in Working
        /\ \A d \in Consumers \ {c} : pc'[d] = pc[d] /\ batch'[d] = batch[d]
    BY <1>6 DEF ClaimProcessing, Acknowledge, Crash, StateType, Working
  <2> QED BY Zenon, <2>1, <2>3, <2>4, <2>5 DEF StateType, EntryInHand
<1>7. ASSUME Tick PROVE Shape'
  BY <1>7 DEF Tick, StateType, EntryInHand, Entries
<1> QED BY <1>1, <1>2, <1>3, <1>4, <1>5, <1>6, <1>7 DEF Next, Consume, vars, bus, loop

\* Initially nothing is appended and nobody has an entry.
LEMMA ShapeInit == Init => Shape
  BY DEF Init, Shape, StateType, EntryInHand, Places, Working, Entries

\* A consumer keeps the entry it works on, and the entry its event.
LEMMA SameEntry ==
  ASSUME Shape, [Next]_vars, NEW c \in Consumers, pc'[c] \in Working
  PROVE  /\ batch'[c] = batch[c] /\ batch[c] # <<>>
         /\ Head(batch[c]) \in Entries
         /\ Current(c)' = Current(c) /\ Current(c) \in Range(stream) /\ Current(c) \in Events
<1>1. batch'[c] = batch[c]
  <2>1. pc \in [Consumers -> Places] /\ batch \in [Consumers -> Seq(Entries)]
    BY DEF Shape, StateType
  <2>2. UNCHANGED batch \/ \E d \in Consumers :
          ClaimPending(d) \/ ReadNew(d) \/ ClaimProcessing(d) \/ Acknowledge(d) \/ Crash(d)
    BY Zenon DEF Next, Consume, PollAgain, EndBatch, PublishRawDlq, IsProcessed, HandleEvent, PublishToDlq,
           PublishResultEvents, MarkProcessed, DeleteLock, Restart, Tick, Publish, vars, loop
  <2>3. ASSUME NEW d \in Consumers,
               ClaimPending(d) \/ ReadNew(d) \/ Acknowledge(d) \/ Crash(d)
        PROVE  pc'[d] \notin Working /\ \A b \in Consumers \ {d} : batch'[b] = batch[b]
    BY <2>1, <2>3 DEF ClaimPending, ReadNew, Acknowledge, Crash, Take, Working
  <2>4. ASSUME NEW d \in Consumers, ClaimProcessing(d), batch' # batch
        PROVE  pc'[d] \notin Working /\ \A b \in Consumers \ {d} : batch'[b] = batch[b]
    BY <2>1, <2>4 DEF ClaimProcessing, Working
  <2> QED BY <2>2, <2>3, <2>4
<1>2. batch[c] # <<>> BY <1>1, ShapeStep DEF Shape, EntryInHand
<1>3. Head(batch[c]) \in Entries BY <1>2, TailType DEF Shape, StateType
<1>4. stream'[Head(batch[c])] = stream[Head(batch[c])]
  BY <1>3, StreamStep, PublishShape DEF Shape
<1>5. Current(c) \in Range(stream) /\ Current(c) \in Events
  BY <1>3 DEF Current, Range, Shape, StateType, Entries
<1> QED BY <1>1, <1>2, <1>3, <1>4, <1>5 DEF Current

-----------------------------------------------------------------------------
(***************************************************************************)
(* The processing lock.  A consumer that works on an event holds its key,  *)
(* and the key is as old as the consumer's work: neither expires first.    *)
(***************************************************************************)
AgesKnown ==
  /\ age \in [Consumers -> Nat] /\ lock \in [DOMAIN lock -> Nat]
  /\ \A c \in Consumers : pc[c] \notin Holding => age[c] = 0

HolderHasLock ==
  \A c \in Consumers : pc[c] \in Holding =>
    Current(c) \in DOMAIN lock /\ lock[Current(c)] = age[c]

OneHolder ==
  \A c, d \in Consumers :
    c # d /\ pc[c] \in Holding /\ pc[d] \in Holding => Current(c) # Current(d)

LockInv == Shape /\ AgesKnown /\ HolderHasLock /\ OneHolder

\* Every step keeps the lock with its holder, as long as SET NX does not fail and
\* Redis answers before the key expires.
LEMMA LockStep ==
  ASSUME LockInv, [Next]_vars, "lock" \notin Faults, Latency # "any"
  PROVE  LockInv'
<1>1. Shape /\ Shape' BY ShapeStep DEF LockInv
<1>2. pc \in [Consumers -> Places] /\ age \in [Consumers -> Nat] /\ lock \in [DOMAIN lock -> Nat]
  BY DEF LockInv, Shape, StateType, AgesKnown
<1>3. Holding \subseteq Working BY DEF Holding, Working
<1>4. ASSUME NEW c \in Consumers, pc'[c] \in Holding PROVE Current(c)' = Current(c)
  BY <1>1, <1>3, <1>4, SameEntry
<1>5. ASSUME UNCHANGED <<lock, age>>,
             \A c \in Consumers : pc'[c] \in Holding <=> pc[c] \in Holding
      PROVE  LockInv'
  BY <1>1, <1>4, <1>5 DEF LockInv, AgesKnown, HolderHasLock, OneHolder
<1>6. ASSUME NEW c \in Consumers, ClaimProcessing(c) PROVE LockInv'
  <2>1. CASE UNCHANGED lock
    <3>1. pc'[c] \notin Holding /\ pc[c] \notin Holding /\ age' = age
          /\ \A d \in Consumers \ {c} : pc'[d] = pc[d]
      <4>1. ASSUME Current(c) \notin DOMAIN lock,
                   lock' = [e \in DOMAIN lock \cup {Current(c)} |-> IF e = Current(c) THEN 0 ELSE lock[e]]
            PROVE  FALSE
        BY <2>1, <4>1
      <4> QED BY <1>2, <1>6, <4>1 DEF ClaimProcessing, Holding
    <3> QED BY <1>5, <2>1, <3>1
  <2>2. CASE lock' # lock
    <3>1. /\ Current(c) \notin DOMAIN lock /\ pc[c] \notin Holding /\ age' = age
          /\ lock' = [e \in DOMAIN lock \cup {Current(c)} |-> IF e = Current(c) THEN 0 ELSE lock[e]]
          /\ \A d \in Consumers \ {c} : pc'[d] = pc[d]
          /\ pc'[c] = "handle"
      BY <1>2, <1>6, <2>2 DEF ClaimProcessing, Holding
    <3>2. AgesKnown'
      BY <1>2, <3>1 DEF LockInv, AgesKnown, Holding
    <3>3. ASSUME NEW d \in Consumers \ {c}, pc'[d] \in Holding
          PROVE  /\ Current(d)' = Current(d) /\ Current(d) \in DOMAIN lock /\ Current(d) # Current(c)
                 /\ lock'[Current(d)] = age'[d]
      BY <1>4, <3>1, <3>3 DEF LockInv, HolderHasLock
    <3>4. Current(c)' = Current(c) /\ lock'[Current(c)] = 0 /\ age[c] = 0
      BY <1>4, <3>1 DEF LockInv, AgesKnown, Holding
    <3>5. HolderHasLock' BY <3>1, <3>3, <3>4 DEF HolderHasLock
    <3>6. OneHolder' BY <3>1, <3>3, <3>4 DEF LockInv, OneHolder
    <3> QED BY <1>1, <3>2, <3>5, <3>6 DEF LockInv
  <2> QED BY <2>1, <2>2
<1>7. ASSUME NEW c \in Consumers, MarkProcessed(c) \/ Crash(c) PROVE LockInv'
  <2>1. /\ lock' = lock /\ age' \in [Consumers -> Nat]
        /\ pc'[c] \in Holding => pc[c] \in Holding /\ age'[c] = age[c]
        /\ pc'[c] \notin Holding => age'[c] = 0
        /\ \A d \in Consumers \ {c} : pc'[d] = pc[d] /\ age'[d] = age[d]
    BY <1>2, <1>7 DEF MarkProcessed, Crash, keys, Holding
  <2> QED BY <1>1, <1>4, <2>1 DEF LockInv, AgesKnown, HolderHasLock, OneHolder
<1>8. ASSUME NEW c \in Consumers, DeleteLock(c) PROVE LockInv'
  <2>1. /\ pc[c] \in Holding /\ pc'[c] \notin Holding /\ age' = [age EXCEPT ![c] = 0]
        /\ \A d \in Consumers \ {c} : pc'[d] = pc[d]
    BY <1>2, <1>8 DEF DeleteLock, Holding
  <2>2. /\ lock' \in [DOMAIN lock' -> Nat]
        /\ \A e \in DOMAIN lock \ {Current(c)} : e \in DOMAIN lock' /\ lock'[e] = lock[e]
    BY <1>2, <1>8 DEF DeleteLock, Restrict
  <2>3. AgesKnown' BY <1>2, <2>1, <2>2 DEF LockInv, AgesKnown
  <2>4. ASSUME NEW d \in Consumers, pc'[d] \in Holding
        PROVE  d # c /\ Current(d)' = Current(d) /\ Current(d) \in DOMAIN lock'
               /\ lock'[Current(d)] = age'[d]
    BY <1>2, <1>4, <2>1, <2>2, <2>4 DEF LockInv, HolderHasLock, OneHolder
  <2>5. HolderHasLock' BY <2>4 DEF HolderHasLock
  <2>6. OneHolder' BY <2>1, <2>4 DEF LockInv, OneHolder
  <2> QED BY <1>1, <2>3, <2>5, <2>6 DEF LockInv
<1>9. ASSUME Tick PROVE LockInv'
  <2>1. /\ pc' = pc /\ LockTtl \in Nat
        /\ lock' = [e \in {d \in DOMAIN lock : lock[d] + 1 < LockTtl} |-> lock[e] + 1]
        /\ age' = [c \in Consumers |-> IF pc[c] \in Holding THEN Older(age[c], LockTtl) ELSE age[c]]
        /\ \A c \in Consumers : pc[c] \in Holding => age[c] + 1 < LockTtl
    BY <1>9, DeliveryAssumption DEF Tick
  <2>2. AgesKnown' BY <1>2, <2>1 DEF LockInv, AgesKnown, Older
  <2>3. ASSUME NEW c \in Consumers, pc[c] \in Holding
        PROVE  Current(c) \in DOMAIN lock' /\ lock'[Current(c)] = age'[c]
    BY <1>2, <2>1, <2>3 DEF LockInv, HolderHasLock, Older
  <2>4. HolderHasLock' BY <1>4, <2>1, <2>3 DEF HolderHasLock
  <2>5. OneHolder' BY <1>4, <2>1 DEF LockInv, OneHolder
  <2> QED BY <1>1, <2>2, <2>4, <2>5 DEF LockInv
<1>10. ASSUME NEW e \in Events, Publish(e) PROVE LockInv'
  BY <1>5, <1>10 DEF Publish, keys, loop
<1>11. ASSUME NEW c \in Consumers,
              \/ ClaimPending(c) \/ ReadNew(c) \/ PollAgain(c) \/ EndBatch(c) \/ PublishRawDlq(c)
              \/ IsProcessed(c) \/ HandleEvent(c) \/ PublishToDlq(c)
              \/ PublishResultEvents(c) \/ Acknowledge(c) \/ Restart(c)
       PROVE  LockInv'
  <2>1. UNCHANGED <<lock, age>>
    BY <1>11 DEF ClaimPending, ReadNew, PollAgain, EndBatch, PublishRawDlq, IsProcessed, HandleEvent,
                 PublishToDlq, PublishResultEvents, Acknowledge, Restart, keys
  <2>2. \A d \in Consumers : pc'[d] \in Holding <=> pc[d] \in Holding
    BY <1>2, <1>11 DEF ClaimPending, ReadNew, PollAgain, EndBatch, PublishRawDlq, IsProcessed,
                       HandleEvent, PublishToDlq, PublishResultEvents, Acknowledge, Restart, Holding
  <2> QED BY <1>5, <2>1, <2>2
<1>12. CASE UNCHANGED vars BY <1>5, <1>12 DEF vars, keys, loop
<1> QED BY <1>6, <1>7, <1>8, <1>9, <1>10, <1>11, <1>12 DEF Next, Consume

\* HandlersDoNotOverlap: while SET NX works and Redis answers within the slack of
\* _processing_lock_ttl_seconds, two consumers are never in the handler of one
\* event, whatever is reclaimed, published twice or crashes.
THEOREM LockExcludes ==
  ASSUME "lock" \notin Faults, Latency # "any"
  PROVE  Spec => []HandlersDoNotOverlap
<1>1. Init => LockInv
  BY ShapeInit DEF Init, LockInv, AgesKnown, HolderHasLock, OneHolder, Holding
<1>2. LockInv /\ [Next]_vars => LockInv' BY LockStep
<1>3. LockInv => HandlersDoNotOverlap
  BY DEF LockInv, OneHolder, HandlersDoNotOverlap, Holding
<1> QED BY <1>1, <1>2, <1>3, PTL DEF Spec

-----------------------------------------------------------------------------
(***************************************************************************)
(* The contract.  What stands between a resolved event and its XACK is in  *)
(* the consumer's place, in the processed keys, or in the entry's own      *)
(* acknowledgement.                                                        *)
(***************************************************************************)
ResolvedByPlace ==
  \A c \in Consumers :
    /\ pc[c] = "results" => Current(c) \in handled
    /\ pc[c] \in {"skip", "mark", "unlock", "ack"} => Resolved(Current(c))

ResolvedByKey == \A e \in processed : Resolved(e)

EffectsOfEvents == handled \cup dlq \subseteq Range(stream)

ContractInv ==
  /\ Shape /\ ResolvedByPlace /\ ResolvedByKey /\ EffectsOfEvents /\ AckedIsResolved

\* A step resolves at most the event of one consumer, which is on the stream, and
\* unresolves none.
LEMMA EffectStep ==
  ASSUME ContractInv, [Next]_vars
  PROVE  /\ handled \subseteq handled' /\ results \subseteq results' /\ dlq \subseteq dlq'
         /\ \/ UNCHANGED effects
            \/ \E c \in Consumers :
                 /\ PublishRawDlq(c) \/ HandleEvent(c) \/ PublishToDlq(c) \/ PublishResultEvents(c)
                 /\ handled' \cup results' \cup dlq'
                      \subseteq handled \cup results \cup dlq \cup {Current(c)}
                 /\ \A e \in Events : e # Current(c) => (Resolved(e)' <=> Resolved(e))
                 /\ pc'[c] \in Working
                 /\ handled' \cup dlq' \subseteq handled \cup dlq \cup {Current(c)}
                 /\ UNCHANGED <<bus, keys>>
<1>1. UNCHANGED effects \/ \E c \in Consumers :
        PublishRawDlq(c) \/ HandleEvent(c) \/ PublishToDlq(c) \/ PublishResultEvents(c)
  BY Zenon DEF Next, Consume, ClaimPending, ReadNew, PollAgain, EndBatch, IsProcessed, ClaimProcessing,
         MarkProcessed, DeleteLock, Acknowledge, Crash, Restart, Tick, Publish, vars
<1>2. pc \in [Consumers -> Places] BY DEF ContractInv, Shape, StateType
<1>3. ASSUME NEW c \in Consumers,
             PublishRawDlq(c) \/ HandleEvent(c) \/ PublishToDlq(c) \/ PublishResultEvents(c)
      PROVE  /\ handled' \in {handled, handled \cup {Current(c)}}
             /\ results' \in {results, results \cup {Current(c)}}
             /\ dlq' \in {dlq, dlq \cup {Current(c)}}
             /\ pc'[c] \in Working
             /\ PublishResultEvents(c) => handled' = handled
             /\ UNCHANGED <<bus, keys>>
  BY <1>2, <1>3 DEF PublishRawDlq, HandleEvent, PublishToDlq, PublishResultEvents, Working
<1>4. ASSUME NEW c \in Consumers,
             PublishRawDlq(c) \/ HandleEvent(c) \/ PublishToDlq(c) \/ PublishResultEvents(c)
      PROVE  /\ handled \subseteq handled' /\ results \subseteq results' /\ dlq \subseteq dlq'
             /\ handled' \cup results' \cup dlq' \subseteq handled \cup results \cup dlq \cup {Current(c)}
             /\ handled' \cup dlq' \subseteq handled \cup dlq \cup {Current(c)}
             /\ \A e \in Events : e # Current(c) => (Resolved(e)' <=> Resolved(e))
  BY <1>3, <1>4 DEF Resolved
<1> QED BY <1>1, <1>3, <1>4 DEF effects

\* Every step keeps the invariant, as long as the dead-letter write and the
\* publication of results do not fail.
LEMMA ContractStep ==
  ASSUME ContractInv, [Next]_vars, "dlq" \notin Faults, "results" \notin Faults
  PROVE  ContractInv'
<1>1. Shape /\ Shape' /\ pc \in [Consumers -> Places]
  BY ShapeStep DEF ContractInv, Shape, StateType
<1>2. \A e : Resolved(e) => Resolved(e)' BY EffectStep DEF Resolved
<1>3. ASSUME NEW c \in Consumers, pc'[c] \in Working PROVE Current(c)' = Current(c)
  BY <1>1, <1>3, SameEntry
<1>4. ResolvedByPlace'
  <2> SUFFICES ASSUME NEW c \in Consumers
               PROVE  /\ pc'[c] = "results" => Current(c) \in handled'
                      /\ pc'[c] \in {"skip", "mark", "unlock", "ack"} => Resolved(Current(c))'
    <3>1. ASSUME NEW c \in Consumers, pc'[c] \in Working
          PROVE  /\ (Current(c) \in handled)' <=> Current(c) \in handled'
                 /\ Resolved(Current(c))' <=>
                      (Current(c) \in dlq' \/ Current(c) \in handled' \cap results')
      BY <1>3, <3>1 DEF Resolved
    <3> QED BY <3>1, <1>3 DEF ResolvedByPlace, Working, Resolved
  <2>1. Current(c)' = Current(c) \/ pc'[c] \notin Working BY <1>3
  <2>2. CASE pc'[c] = pc[c]
    BY <1>2, <2>1, <2>2, EffectStep DEF ContractInv, ResolvedByPlace, Resolved, Working
  <2>3. CASE HandleEvent(c) \/ PublishToDlq(c) \/ PublishResultEvents(c) \/ PublishRawDlq(c)
    BY <1>1, <2>1, <2>3 DEF HandleEvent, PublishToDlq, PublishResultEvents, PublishRawDlq,
                            ContractInv, ResolvedByPlace, Resolved, Working
  <2>4. CASE IsProcessed(c)
    BY <1>1, <2>1, <2>4 DEF IsProcessed, ContractInv, ResolvedByKey, Resolved, Working, effects
  <2>5. CASE MarkProcessed(c) \/ DeleteLock(c)
    BY <1>1, <2>1, <2>5 DEF MarkProcessed, DeleteLock, ContractInv, ResolvedByPlace, Resolved,
                            Working, effects
  <2>6. ASSUME pc'[c] # pc[c], pc'[c] \in {"results", "skip", "mark", "unlock", "ack"}
        PROVE  \/ HandleEvent(c) \/ PublishToDlq(c) \/ PublishResultEvents(c) \/ PublishRawDlq(c)
               \/ IsProcessed(c) \/ MarkProcessed(c) \/ DeleteLock(c)
    <3>1. ASSUME NEW d \in Consumers,
                 \/ ClaimPending(d) \/ ReadNew(d) \/ PollAgain(d) \/ EndBatch(d)
                 \/ ClaimProcessing(d) \/ Acknowledge(d) \/ Crash(d) \/ Restart(d)
          PROVE  FALSE
      BY <1>1, <2>6, <3>1 DEF ClaimPending, ReadNew, PollAgain, EndBatch, ClaimProcessing,
                              Acknowledge, Crash, Restart
    <3>2. ASSUME NEW d \in Consumers,
                 \/ HandleEvent(d) \/ PublishToDlq(d) \/ PublishResultEvents(d) \/ PublishRawDlq(d)
                 \/ IsProcessed(d) \/ MarkProcessed(d) \/ DeleteLock(d)
          PROVE  d = c
      BY <1>1, <2>6, <3>2 DEF PublishRawDlq, IsProcessed, HandleEvent, PublishToDlq,
                              PublishResultEvents, MarkProcessed, DeleteLock
    <3>3. ~ UNCHANGED pc BY <2>6
    <3>4. ~ Tick /\ ~ UNCHANGED vars /\ ~ \E e \in Events : Publish(e)
      BY <3>3 DEF Tick, Publish, vars, loop
    <3> QED BY <3>1, <3>2, <3>4 DEF Next, Consume
  <2> QED BY <2>2, <2>3, <2>4, <2>5, <2>6
<1>5. ResolvedByKey'
  <2>1. processed' = processed \/ \E c \in Consumers :
          MarkProcessed(c) /\ processed' = processed \cup {Current(c)}
    BY Zenon DEF Next, Consume, ClaimPending, ReadNew, PollAgain, EndBatch, PublishRawDlq, IsProcessed,
           ClaimProcessing, HandleEvent, PublishToDlq, PublishResultEvents, MarkProcessed,
           DeleteLock, Acknowledge, Crash, Restart, Tick, Publish, vars, keys
  <2>2. ASSUME NEW c \in Consumers, MarkProcessed(c) PROVE Resolved(Current(c))
    BY <2>2 DEF MarkProcessed, ContractInv, ResolvedByPlace
  <2>3. \A e \in processed' : Resolved(e) BY <2>1, <2>2 DEF ContractInv, ResolvedByKey
  <2> QED BY <1>2, <2>3 DEF ResolvedByKey, Resolved
<1>6. EffectsOfEvents'
  <2>1. Range(stream) \subseteq Range(stream')
    BY <1>1, StreamStep, PublishShape DEF Shape
  <2>2. ASSUME NEW c \in Consumers, pc'[c] \in Working PROVE Current(c) \in Range(stream)
    BY <1>1, <2>2, SameEntry
  <2> QED BY <2>1, <2>2, EffectStep DEF ContractInv, EffectsOfEvents, effects
<1>7. AckedIsResolved'
  <2>1. acked' = acked \/ \E c \in Consumers : Acknowledge(c) /\ acked' = acked \cup {Head(batch[c])}
    BY Zenon DEF Next, Consume, ClaimPending, ReadNew, PollAgain, EndBatch, PublishRawDlq, IsProcessed,
           ClaimProcessing, HandleEvent, PublishToDlq, PublishResultEvents, MarkProcessed,
           DeleteLock, Acknowledge, Crash, Restart, Tick, Publish, vars, bus
  <2>2. ASSUME NEW c \in Consumers, Acknowledge(c)
        PROVE  Head(batch[c]) \in Entries /\ Resolved(stream[Head(batch[c])])
    BY <1>1, <2>2, TailType
    DEF Acknowledge, ContractInv, ResolvedByPlace, Current, Shape, StateType, EntryInHand, Working
  <2>3. \A m \in acked' : m \in Entries /\ Resolved(stream[m])
    BY <2>1, <2>2 DEF ContractInv, AckedIsResolved, Shape, StateType
  <2>4. \A m \in Entries : stream'[m] = stream[m]
    BY <1>1, StreamStep, PublishShape DEF Shape
  <2> QED BY <1>2, <2>3, <2>4 DEF AckedIsResolved, Resolved
<1> QED BY <1>1, <1>4, <1>5, <1>6, <1>7 DEF ContractInv

-----------------------------------------------------------------------------
\* What a step does to the contract's view of the state: it publishes, resolves or
\* settles one event, or shows nothing.
LEMMA StepRefines ==
  ASSUME ContractInv, ContractInv', [Next]_vars
  PROVE  [Contract!ContractNext]_(Contract!contract)
<1> DEFINE published == Range(stream)
           resolved == {e \in Events : Resolved(e)}
           settled == {stream[m] : m \in acked}
<1>1. Shape /\ StateType /\ pc \in [Consumers -> Places] BY DEF ContractInv, Shape, StateType
<1>2. ASSUME NEW e \in Events, Publish(e)
      PROVE  published' = published \cup {e} /\ UNCHANGED <<resolved, settled>>
  <2>1. UNCHANGED effects /\ acked' = acked BY <1>2 DEF Publish
  <2>2. \A m \in acked : stream'[m] = stream[m] BY <1>1, <1>2, PublishShape DEF StateType
  <2>3. resolved' = resolved BY <2>1 DEF Resolved, effects
  <2>4. settled' = settled BY <2>1, <2>2
  <2> QED BY Zenon, <1>1, <1>2, <2>3, <2>4, PublishShape
<1>3. ASSUME NEW c \in Consumers, Acknowledge(c)
      PROVE  /\ UNCHANGED <<published, resolved>>
             /\ settled' = settled \/ \E e \in resolved : settled' = settled \cup {e}
  <2>1. UNCHANGED <<stream, effects>> BY <1>3 DEF Acknowledge
  <2>2. resolved' = resolved /\ published' = published BY <2>1 DEF Resolved, effects
  <2>3. Head(batch[c]) \in Entries
    BY <1>1, <1>3, TailType DEF Acknowledge, Shape, StateType, EntryInHand, Working
  <2>4. Current(c) \in resolved
    <3>1. Resolved(Current(c)) BY <1>3 DEF Acknowledge, ContractInv, ResolvedByPlace
    <3>2. Current(c) \in Events BY <1>1, <2>3 DEF Current, StateType, Entries
    <3> QED BY <3>1, <3>2
  <2>5. acked' = acked \/ acked' = acked \cup {Head(batch[c])} BY <1>3 DEF Acknowledge
  <2>6. settled' = settled \/ settled' = settled \cup {Current(c)}
    BY <2>1, <2>5 DEF Current
  <2> QED BY Zenon, <2>2, <2>4, <2>6
<1>4. ASSUME NEW c \in Consumers,
             PublishRawDlq(c) \/ HandleEvent(c) \/ PublishToDlq(c) \/ PublishResultEvents(c)
      PROVE  /\ UNCHANGED <<published, settled>>
             /\ resolved' = resolved \/ \E e \in Events \cap published : resolved' = resolved \cup {e}
  <2>1. UNCHANGED <<stream, acked>>
    BY <1>4 DEF PublishRawDlq, HandleEvent, PublishToDlq, PublishResultEvents, bus
  <2>2. Current(c) \in Events \cap published
    <3>1. pc'[c] \in Working
      BY <1>1, <1>4 DEF PublishRawDlq, HandleEvent, PublishToDlq, PublishResultEvents, Working
    <3> QED BY <1>1, <3>1, SameEntry
  <2>3. \A e \in Events : Resolved(e) => Resolved(e)' BY EffectStep DEF Resolved
  <2>4. \A e \in Events : e # Current(c) => (Resolved(e)' <=> Resolved(e))
    BY <1>4 DEF PublishRawDlq, HandleEvent, PublishToDlq, PublishResultEvents, Resolved
  <2>5. resolved' = resolved \/ resolved' = resolved \cup {Current(c)}
    BY <2>2, <2>3, <2>4
  <2> QED BY <2>1, <2>2, <2>5
<1>5. CASE UNCHANGED <<stream, acked, effects>>
  BY <1>5 DEF effects, Resolved, Contract!contract
<1>6. \/ UNCHANGED <<stream, acked, effects>> \/ \E e \in Events : Publish(e)
      \/ \E c \in Consumers : \/ Acknowledge(c) \/ PublishRawDlq(c) \/ HandleEvent(c)
                              \/ PublishToDlq(c) \/ PublishResultEvents(c)
  BY Zenon DEF Next, Consume, ClaimPending, ReadNew, PollAgain, EndBatch, IsProcessed, ClaimProcessing,
         MarkProcessed, DeleteLock, Crash, Restart, Tick, vars, bus
<1>7. ASSUME NEW e \in Events, Publish(e) PROVE Contract!ContractNext
  BY <1>2, <1>7 DEF Contract!ContractNext, Contract!Publishes
<1>8. ASSUME NEW c \in Consumers, Acknowledge(c)
      PROVE  Contract!ContractNext \/ UNCHANGED Contract!contract
  <2>1. resolved \subseteq Events OBVIOUS
  <2> QED BY Zenon, <1>3, <1>8, <2>1 DEF Contract!ContractNext, Contract!Settles, Contract!contract
<1>9. ASSUME NEW c \in Consumers,
             PublishRawDlq(c) \/ HandleEvent(c) \/ PublishToDlq(c) \/ PublishResultEvents(c)
      PROVE  Contract!ContractNext \/ UNCHANGED Contract!contract
  BY Zenon, <1>4, <1>9 DEF Contract!ContractNext, Contract!Resolves, Contract!contract
<1> QED BY <1>5, <1>6, <1>7, <1>8, <1>9

\* KeepsContract: as long as the dead-letter write and the publication of results do
\* not fail, the consumer group implements EventContract, under any timing, any
\* other failing Redis call, crashes, reclaims and trimming.
THEOREM GroupKeepsContract ==
  ASSUME "dlq" \notin Faults, "results" \notin Faults
  PROVE  Spec => KeepsContract
<1>1. Init => ContractInv
  BY ShapeInit DEF Init, ContractInv, ResolvedByPlace, ResolvedByKey, EffectsOfEvents, AckedIsResolved
<1>2. ContractInv /\ [Next]_vars => ContractInv' BY ContractStep
<1>3. Init => Contract!ContractInit
  BY DEF Init, Contract!ContractInit, Resolved, Range
<1>4. ContractInv /\ ContractInv' /\ [Next]_vars => [Contract!ContractNext]_(Contract!contract)
  BY StepRefines
<1> QED BY <1>1, <1>2, <1>3, <1>4, PTL DEF Spec, KeepsContract, Contract!ContractSpec

-----------------------------------------------------------------------------
(***************************************************************************)
(* The types.  What Shape leaves out: the sets stay sets of entries or of  *)
(* events, and no idle time, key or age outgrows its limit.                *)
(***************************************************************************)
BusTyped ==
  /\ trimmed \subseteq Entries /\ delivered \subseteq Entries
  /\ idle \in [DOMAIN idle -> 0..ClaimIdle]
KeysTyped ==
  /\ processed \subseteq Events
  /\ DOMAIN lock \subseteq Events /\ lock \in [DOMAIN lock -> 0..LockTtl]
EffectsTyped == handled \subseteq Events /\ results \subseteq Events /\ dlq \subseteq Events
LoopTyped == age \in [Consumers -> 0..LockTtl] /\ crashes \in 0..MaxCrashes

Typed == BusTyped /\ KeysTyped /\ EffectsTyped /\ LoopTyped

\* The entry in a consumer's hand holds an event.
LEMMA CurrentIsEvent ==
  ASSUME Shape, NEW c \in Consumers, batch[c] # <<>>
  PROVE  Current(c) \in Events
<1>1. batch[c] \in Seq(Entries) /\ stream \in Seq(Events)  BY DEF Shape, StateType
<1>2. Head(batch[c]) \in Entries  BY <1>1, TailType
<1> QED  BY <1>1, <1>2 DEF Current, Entries

\* Streams, the pending list and the trimmed entries.
LEMMA BusStep ==
  ASSUME Shape, BusTyped, [Next]_vars
  PROVE  BusTyped'
<1>0. ClaimIdle \in Nat /\ DOMAIN idle \subseteq Entries  BY DeliveryAssumption DEF Shape, StateType
<1>1. ASSUME NEW e \in Events, Publish(e)  PROVE BusTyped'
  <2>1. Entries \subseteq Entries'  BY <1>1, PublishShape DEF Shape
  <2>2. PICK cut \in SUBSET Live(TypeOf[e]) : trimmed' = trimmed \cup cut  BY Zenon, <1>1 DEF Publish
  <2>3. cut \subseteq Entries  BY <2>2 DEF Live
  <2>4. UNCHANGED <<delivered, idle>>  BY <1>1 DEF Publish
  <2> QED  BY <2>1, <2>2, <2>3, <2>4 DEF BusTyped
<1>2. CASE UNCHANGED bus
  BY <1>2 DEF bus, BusTyped, Entries
<1>3. ASSUME NEW c \in Consumers, ClaimPending(c)  PROVE BusTyped'
  <2>1. UNCHANGED <<stream, trimmed, delivered>> /\ Entries' = Entries
    BY <1>3 DEF ClaimPending, Entries
  <2>2. idle' \in [DOMAIN idle' -> 0..ClaimIdle]
    <3>1. UNCHANGED idle \/ idle' = [m \in DOMAIN idle \ trimmed |-> IF m \in Claimable THEN 0 ELSE idle[m]]
      BY Zenon, <1>3 DEF ClaimPending
    <3> QED  BY <1>0, <3>1 DEF BusTyped
  <2> QED  BY <2>1, <2>2 DEF BusTyped
<1>4. ASSUME NEW c \in Consumers, ReadNew(c)  PROVE BusTyped'
  <2>1. /\ UNCHANGED <<stream, trimmed>> /\ Entries' = Entries
        /\ delivered' = delivered \cup NewEntries /\ NewEntries \subseteq Entries
    BY <1>4, Deliverable DEF ReadNew, Entries, Shape
  <2>2. idle' = [m \in DOMAIN idle \cup NewEntries |-> IF m \in NewEntries THEN 0 ELSE idle[m]]
    BY <1>4 DEF ReadNew
  <2>3. idle' \in [DOMAIN idle' -> 0..ClaimIdle]  BY <1>0, <2>2 DEF BusTyped
  <2> QED  BY <2>1, <2>3 DEF BusTyped
<1>5. ASSUME NEW c \in Consumers, Acknowledge(c)  PROVE BusTyped'
  <2>1. UNCHANGED <<stream, trimmed, delivered>> /\ Entries' = Entries
    BY <1>5 DEF Acknowledge, Entries
  <2>2. idle' \in [DOMAIN idle' -> 0..ClaimIdle]
    BY <1>5 DEF Acknowledge, Restrict, BusTyped
  <2> QED  BY <2>1, <2>2 DEF BusTyped
<1>6. CASE Tick
  <2>1. UNCHANGED <<stream, trimmed, delivered>> /\ Entries' = Entries
        /\ idle' = [m \in DOMAIN idle |-> Older(idle[m], ClaimIdle)]
    BY <1>6 DEF Tick, Entries
  <2>2. idle' \in [DOMAIN idle' -> 0..ClaimIdle]  BY <1>0, <2>1 DEF Older, BusTyped
  <2> QED  BY <2>1, <2>2 DEF BusTyped
<1>7. \/ UNCHANGED bus \/ Tick \/ \E e \in Events : Publish(e)
      \/ \E c \in Consumers : ClaimPending(c) \/ ReadNew(c) \/ Acknowledge(c)
  BY Zenon DEF Next, Consume, PollAgain, EndBatch, PublishRawDlq, IsProcessed, ClaimProcessing,
         HandleEvent, PublishToDlq, PublishResultEvents, MarkProcessed, DeleteLock, Crash, Restart, vars
<1> QED  BY Zenon, <1>1, <1>2, <1>3, <1>4, <1>5, <1>6, <1>7

\* The processed keys and the processing keys.
LEMMA KeysStep ==
  ASSUME Shape, KeysTyped, [Next]_vars
  PROVE  KeysTyped'
<1>0. LockTtl \in Nat  BY DeliveryAssumption
<1>1. ASSUME NEW c \in Consumers, pc[c] \in Working  PROVE Current(c) \in Events
  BY <1>1, CurrentIsEvent DEF Shape, EntryInHand
<1>2. CASE UNCHANGED keys  BY <1>2 DEF keys, KeysTyped
<1>3. ASSUME NEW c \in Consumers, ClaimProcessing(c)  PROVE KeysTyped'
  <2>1. Current(c) \in Events /\ processed' = processed
    BY <1>1, <1>3 DEF ClaimProcessing, Working
  <2>2. \/ lock' = lock
        \/ lock' = [e \in DOMAIN lock \cup {Current(c)} |-> IF e = Current(c) THEN 0 ELSE lock[e]]
    BY Zenon, <1>3 DEF ClaimProcessing
  <2> QED  BY <1>0, <2>1, <2>2 DEF KeysTyped
<1>4. ASSUME NEW c \in Consumers, MarkProcessed(c)  PROVE KeysTyped'
  <2>1. Current(c) \in Events  BY <1>1, <1>4 DEF MarkProcessed, Working
  <2> QED  BY <1>4, <2>1 DEF MarkProcessed, KeysTyped
<1>5. ASSUME NEW c \in Consumers, DeleteLock(c)  PROVE KeysTyped'
  BY <1>5 DEF DeleteLock, Restrict, KeysTyped
<1>6. CASE Tick
  <2>1. processed' = processed
        /\ lock' = [e \in {d \in DOMAIN lock : lock[d] + 1 < LockTtl} |-> lock[e] + 1]
    BY <1>6 DEF Tick
  <2> QED  BY <1>0, <2>1 DEF KeysTyped
<1>7. \/ UNCHANGED keys \/ Tick
      \/ \E c \in Consumers : ClaimProcessing(c) \/ MarkProcessed(c) \/ DeleteLock(c)
  BY Zenon DEF Next, Consume, ClaimPending, ReadNew, PollAgain, EndBatch, PublishRawDlq, IsProcessed,
         HandleEvent, PublishToDlq, PublishResultEvents, Acknowledge, Crash, Restart, Publish, vars
<1> QED  BY Zenon, <1>2, <1>3, <1>4, <1>5, <1>6, <1>7

\* The effects of handlers.
LEMMA EffectsTypedStep ==
  ASSUME Shape, EffectsTyped, [Next]_vars
  PROVE  EffectsTyped'
<1>1. ASSUME NEW c \in Consumers, pc[c] \in Working \/ batch[c] # <<>>  PROVE Current(c) \in Events
  BY <1>1, CurrentIsEvent DEF Shape, EntryInHand
<1>2. CASE UNCHANGED effects  BY <1>2 DEF effects, EffectsTyped
<1>3. ASSUME NEW c \in Consumers,
             PublishRawDlq(c) \/ HandleEvent(c) \/ PublishToDlq(c) \/ PublishResultEvents(c)
      PROVE  EffectsTyped'
  <2>1. pc[c] \in Working \/ batch[c] # <<>>
    BY <1>3 DEF PublishRawDlq, HandleEvent, PublishToDlq, PublishResultEvents, Working
  <2>2. Current(c) \in Events  BY <1>1, <2>1
  <2>3. /\ handled' \subseteq handled \cup {Current(c)} /\ results' \subseteq results \cup {Current(c)}
        /\ dlq' \subseteq dlq \cup {Current(c)}
    BY <1>3 DEF PublishRawDlq, HandleEvent, PublishToDlq, PublishResultEvents
  <2> QED  BY <2>2, <2>3 DEF EffectsTyped
<1>4. UNCHANGED effects \/ \E c \in Consumers :
        PublishRawDlq(c) \/ HandleEvent(c) \/ PublishToDlq(c) \/ PublishResultEvents(c)
  BY Zenon DEF Next, Consume, ClaimPending, ReadNew, PollAgain, EndBatch, IsProcessed, ClaimProcessing,
         MarkProcessed, DeleteLock, Acknowledge, Crash, Restart, Publish, Tick, vars
<1> QED  BY <1>2, <1>3, <1>4

\* The ages of the consumers' work and the crash budget.
LEMMA LoopStep ==
  ASSUME LoopTyped, [Next]_vars
  PROVE  LoopTyped'
<1>0. LockTtl \in Nat /\ MaxCrashes \in Nat  BY DeliveryAssumption
<1>1. CASE UNCHANGED <<age, crashes>>  BY <1>1 DEF LoopTyped
<1>2. ASSUME NEW c \in Consumers, MarkProcessed(c) \/ DeleteLock(c)  PROVE LoopTyped'
  BY <1>0, <1>2 DEF MarkProcessed, DeleteLock, LoopTyped
<1>3. ASSUME NEW c \in Consumers, Crash(c)  PROVE LoopTyped'
  BY <1>0, <1>3 DEF Crash, LoopTyped
<1>4. CASE Tick
  BY <1>0, <1>4 DEF Tick, Older, LoopTyped
<1>5. \/ UNCHANGED <<age, crashes>> \/ Tick
      \/ \E c \in Consumers : MarkProcessed(c) \/ DeleteLock(c) \/ Crash(c)
  BY Zenon DEF Next, Consume, ClaimPending, ReadNew, PollAgain, EndBatch, PublishRawDlq, IsProcessed,
         ClaimProcessing, HandleEvent, PublishToDlq, PublishResultEvents, Acknowledge, Restart, Publish,
         vars, loop
<1> QED  BY <1>1, <1>2, <1>3, <1>4, <1>5

\* TypeOK: whatever fails, expires or crashes, pending entries stay entries of the
\* stream, keys stay keys of events, and no processing key outlives its expiry.
THEOREM TypeCorrect == Spec => []TypeOK
<1>1. Init => Shape /\ Typed
  <2>1. Init => Typed
    BY DeliveryAssumption DEF Init, Typed, BusTyped, KeysTyped, EffectsTyped, LoopTyped, Entries
  <2> QED  BY <2>1, ShapeInit
<1>2. Shape /\ Typed /\ [Next]_vars => Shape' /\ Typed'
  BY Zenon, ShapeStep, BusStep, KeysStep, EffectsTypedStep, LoopStep DEF Typed
<1>3. Shape /\ Typed => TypeOK
  <2>1. SUFFICES ASSUME Shape, Typed  PROVE TypeOK
    OBVIOUS
  <2>2. Range(idle) \subseteq 0..ClaimIdle /\ Range(lock) \subseteq 0..LockTtl
    BY <2>1 DEF Typed, BusTyped, KeysTyped, Range
  <2> QED
    BY <2>1, <2>2 DEF Shape, StateType, Places, Typed, BusTyped, KeysTyped, EffectsTyped, LoopTyped, TypeOK
<1> QED  BY <1>1, <1>2, <1>3, PTL DEF Spec
=============================================================================
