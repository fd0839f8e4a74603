---------------------------- MODULE EventDelivery ----------------------------
(***************************************************************************)
(* Delivery of events to one consumer group: the Redis Streams bus of      *)
(* shared/infra/event_bus.py driven by AgentRuntime._event_loop of         *)
(* shared/app/runtime.py.  A consumer is one runtime process of the agent. *)
(* Every Redis call is one action, since other consumers run between any   *)
(* two of them.  Entries are numbered in the order they are appended; an   *)
(* event type is a stream.  Ages are counted in clock ticks.               *)
(***************************************************************************)
EXTENDS Naturals, Sequences, FiniteSets, Functions

CONSTANTS
  Consumers,      \* processes of the group
  Events,         \* event ids, malformed payloads included
  Malformed,      \* payloads that Event.model_validate_json refuses
  TypeOf,         \* event type of an event
  HandlerTimeout, \* event_handler_timeout_seconds
  ClaimIdle,      \* _pending_claim_idle_ms
  LockTtl,        \* _processing_lock_ttl_seconds
  ClaimCount,     \* event_bus_pending_claim_count
  MaxLength,      \* event_bus_queue_max_length
  Faults,         \* Redis calls that may fail
  Traffic,        \* TRUE: events outside Events keep arriving on the streams
  Latency,        \* "none": Redis answers within a tick; "slack": before the
                  \* lock expires; "any": at any later time
  MaxEntries,     \* bound on the entries appended
  MaxCrashes      \* bound on the consumers that stop

RedisCalls == {"lookup", "lock", "dlq", "results", "mark", "ack", "claim", "read"}

ASSUME DeliveryAssumption ==
  /\ Malformed \subseteq Events
  /\ TypeOf \in [Events -> Nat]
  /\ HandlerTimeout \in Nat /\ ClaimIdle \in Nat /\ LockTtl \in Nat
  /\ HandlerTimeout < ClaimIdle /\ HandlerTimeout < LockTtl
  /\ ClaimCount \in Nat \ {0} /\ MaxLength \in Nat \ {0}
  /\ Faults \subseteq RedisCalls
  /\ Traffic \in BOOLEAN /\ Latency \in {"none", "slack", "any"}
  /\ MaxEntries \in Nat /\ MaxCrashes \in Nat

VARIABLES
  stream,     \* event of every entry appended so far
  trimmed,    \* entries that XADD MAXLEN removed
  delivered,  \* entries the group has been given
  idle,       \* idle time of every entry in the group's pending list
  acked,      \* entries acknowledged with XACK
  processed,  \* events with a processed key
  lock,       \* age of the processing key of an event that has one
  handled,    \* events whose handler has succeeded
  results,    \* events whose result events are published
  dlq,        \* events written to dlq.failed
  pc,         \* where a consumer is in subscribe and _event_loop
  batch,      \* entries a consumer has been given and not finished
  age,        \* time since a consumer took the lock of its current event
  crashes     \* consumers stopped so far

bus == <<stream, trimmed, delivered, idle, acked>>
keys == <<processed, lock>>
effects == <<handled, results, dlq>>
loop == <<pc, batch, age, crashes>>
vars == <<bus, keys, effects, loop>>

Entries == 1..Len(stream)
Live(t) == {m \in Entries \ trimmed : TypeOf[stream[m]] = t}

\* the event of the entry the consumer is working on
Current(c) == stream[Head(batch[c])]

Resolved(e) == e \in dlq \/ e \in handled \cap results

\* The types of the state.  Idle times stop counting at the reclaim threshold, and
\* no processing key outlives its expiry.
TypeOK ==
  /\ stream \in Seq(Events)
  /\ trimmed \subseteq Entries /\ delivered \subseteq Entries /\ acked \subseteq Entries
  /\ DOMAIN idle \subseteq Entries /\ Range(idle) \subseteq 0..ClaimIdle
  /\ processed \subseteq Events
  /\ DOMAIN lock \subseteq Events /\ Range(lock) \subseteq 0..LockTtl
  /\ handled \subseteq Events /\ results \subseteq Events /\ dlq \subseteq Events
  /\ pc \in [Consumers -> {"claim", "read", "next", "skip", "lock", "handle", "results",
                           "dlq", "mark", "unlock", "ack", "down"}]
  /\ \A c \in Consumers : batch[c] \in Seq(Entries)
  /\ age \in [Consumers -> 0..LockTtl]
  /\ crashes \in 0..MaxCrashes

Init ==
  /\ stream = <<>> /\ trimmed = {} /\ delivered = {} /\ acked = {}
  /\ idle = [m \in {} |-> 0]
  /\ processed = {} /\ lock = [e \in {} |-> 0]
  /\ handled = {} /\ results = {} /\ dlq = {}
  /\ pc = [c \in Consumers |-> "claim"]
  /\ batch = [c \in Consumers |-> <<>>]
  /\ age = [c \in Consumers |-> 0]
  /\ crashes = 0

-----------------------------------------------------------------------------
\* publish: XADD with MAXLEN ~, which may remove the oldest entries in excess.
\* An event may be appended more than once, since outboxes publish it again
\* after a lost answer.
Publish(e) ==
  /\ Len(stream) < MaxEntries
  /\ stream' = Append(stream, e)
  /\ \E cut \in SUBSET Live(TypeOf[e]) :
       /\ \A m \in cut, n \in Live(TypeOf[e]) \ cut : m < n
       /\ cut # {} => Cardinality(Live(TypeOf[e]) \ cut) + 1 >= MaxLength
       /\ trimmed' = trimmed \cup cut
  /\ UNCHANGED <<delivered, idle, acked, keys, effects, loop>>

\* the entries in the order _yield_stream_results walks them: by stream, then by id
Ordered(s) ==
  \A i, j \in DOMAIN s : i < j =>
    \/ TypeOf[stream[s[i]]] < TypeOf[stream[s[j]]]
    \/ TypeOf[stream[s[i]]] = TypeOf[stream[s[j]]] /\ s[i] < s[j]

Take(c, S) ==
  \E s \in [1..Cardinality(S) -> S] :
    /\ Range(s) = S /\ Ordered(s)
    /\ batch' = [batch EXCEPT ![c] = s]

\* mutant: entries of a consumer that stopped are not reclaimed
ClaimableNever == {}

\* XAUTOCLAIM from 0-0: the oldest idle entries of each stream, at most
\* ClaimCount of them; entries that were trimmed leave the pending list.
Claimable ==
  {m \in DOMAIN idle \ trimmed :
     /\ idle[m] >= ClaimIdle
     /\ Cardinality({n \in DOMAIN idle \ trimmed :
                       /\ idle[n] >= ClaimIdle /\ n < m
                       /\ TypeOf[stream[n]] = TypeOf[stream[m]]}) < ClaimCount}

ClaimPending(c) ==
  /\ pc[c] = "claim"
  /\ \/ /\ Take(c, Claimable)
        /\ idle' = [m \in DOMAIN idle \ trimmed |->
                      IF m \in Claimable THEN 0 ELSE idle[m]]
        /\ pc' = [pc EXCEPT ![c] = IF Claimable = {} THEN "read" ELSE "next"]
     \/ /\ "claim" \in Faults
        /\ pc' = [pc EXCEPT ![c] = "read"]
        /\ UNCHANGED <<idle, batch>>
  /\ UNCHANGED <<stream, trimmed, delivered, acked, keys, effects, age, crashes>>

\* XREADGROUP COUNT 1 BLOCK 0: one new entry of each stream that has one.  With
\* nothing new it blocks, whatever becomes idle in the pending list meanwhile.
Unread(t) == Live(t) \ delivered
NewEntries ==
  {m \in Entries \ (trimmed \cup delivered) : \A n \in Unread(TypeOf[stream[m]]) : m <= n}

ReadNew(c) ==
  /\ pc[c] = "read"
  /\ NewEntries # {}
  /\ Take(c, NewEntries)
  /\ delivered' = delivered \cup NewEntries
  /\ idle' = [m \in DOMAIN idle \cup NewEntries |-> IF m \in NewEntries THEN 0 ELSE idle[m]]
  /\ pc' = [pc EXCEPT ![c] = "next"]
  /\ UNCHANGED <<stream, trimmed, acked, keys, effects, age, crashes>>

\* an event outside Events arrives and is handled, or the read fails and the
\* loop sleeps: either way the consumer polls again
PollAgain(c) ==
  /\ pc[c] = "read"
  /\ (Traffic /\ NewEntries = {}) \/ "read" \in Faults
  /\ pc' = [pc EXCEPT ![c] = "claim"]
  /\ UNCHANGED <<bus, keys, effects, batch, age, crashes>>

\* the batch is done: back to the top of subscribe's loop
EndBatch(c) ==
  /\ pc[c] = "next" /\ batch[c] = <<>>
  /\ pc' = [pc EXCEPT ![c] = "claim"]
  /\ UNCHANGED <<bus, keys, effects, batch, age, crashes>>

\* publish_raw_dlq, which swallows the failure of its XADD
PublishRawDlq(c) ==
  /\ pc[c] = "next" /\ batch[c] # <<>> /\ Current(c) \in Malformed
  /\ \/ dlq' = dlq \cup {Current(c)}
     \/ "dlq" \in Faults /\ UNCHANGED dlq
  /\ pc' = [pc EXCEPT ![c] = "ack"]
  /\ UNCHANGED <<bus, keys, handled, results, batch, age, crashes>>

\* _is_processed: a failed lookup counts as not processed
IsProcessed(c) ==
  /\ pc[c] = "next" /\ batch[c] # <<>> /\ Current(c) \notin Malformed
  /\ \/ pc' = [pc EXCEPT ![c] = IF Current(c) \in processed THEN "skip" ELSE "lock"]
     \/ "lookup" \in Faults /\ pc' = [pc EXCEPT ![c] = "lock"]
  /\ UNCHANGED <<bus, keys, effects, batch, age, crashes>>

\* mutant: SET without NX, which replaces the lock of another consumer
ClaimProcessingNoNx(c) ==
  /\ pc[c] = "lock"
  /\ lock' = [e \in DOMAIN lock \cup {Current(c)} |-> IF e = Current(c) THEN 0 ELSE lock[e]]
  /\ pc' = [pc EXCEPT ![c] = "handle"]
  /\ UNCHANGED <<bus, processed, effects, batch, age, crashes>>

\* _claim_processing: SET NX EX.  A held lock leaves the entry pending; a failed
\* call counts as a lock obtained.
ClaimProcessing(c) ==
  /\ pc[c] = "lock"
  /\ \/ /\ Current(c) \notin DOMAIN lock
        /\ lock' = [e \in DOMAIN lock \cup {Current(c)} |->
                      IF e = Current(c) THEN 0 ELSE lock[e]]
        /\ pc' = [pc EXCEPT ![c] = "handle"]
        /\ UNCHANGED batch
     \/ /\ Current(c) \in DOMAIN lock
        /\ pc' = [pc EXCEPT ![c] = "next"]
        /\ batch' = [batch EXCEPT ![c] = Tail(@)]
        /\ UNCHANGED lock
     \/ /\ "lock" \in Faults
        /\ pc' = [pc EXCEPT ![c] = "handle"]
        /\ UNCHANGED <<lock, batch>>
  /\ UNCHANGED <<bus, processed, effects, age, crashes>>

\* mutant: the error of a handler is logged and the event counts as processed
HandleEventSwallows(c) ==
  /\ pc[c] = "handle"
  /\ \/ /\ handled' = handled \cup {Current(c)}
        /\ pc' = [pc EXCEPT ![c] = "results"]
     \/ /\ pc' = [pc EXCEPT ![c] = "mark"]
        /\ UNCHANGED handled
  /\ UNCHANGED <<bus, keys, results, dlq, batch, age, crashes>>

\* handle_event under asyncio.timeout: it returns, or it raises or times out
HandleEvent(c) ==
  /\ pc[c] = "handle"
  /\ \/ /\ handled' = handled \cup {Current(c)}
        /\ pc' = [pc EXCEPT ![c] = "results"]
     \/ /\ pc' = [pc EXCEPT ![c] = "dlq"]
        /\ UNCHANGED handled
  /\ UNCHANGED <<bus, keys, results, dlq, batch, age, crashes>>

\* _publish_to_dlq returns True although publish_dlq swallowed a failed XADD
PublishToDlq(c) ==
  /\ pc[c] = "dlq"
  /\ \/ dlq' = dlq \cup {Current(c)}
     \/ "dlq" \in Faults /\ UNCHANGED dlq
  /\ pc' = [pc EXCEPT ![c] = "mark"]
  /\ UNCHANGED <<bus, keys, handled, results, batch, age, crashes>>

\* _publish_result_event for every result: a failure is logged and dropped
PublishResultEvents(c) ==
  /\ pc[c] = "results"
  /\ \/ results' = results \cup {Current(c)}
     \/ "results" \in Faults /\ UNCHANGED results
  /\ pc' = [pc EXCEPT ![c] = "mark"]
  /\ UNCHANGED <<bus, keys, handled, dlq, batch, age, crashes>>

\* _mark_processed, first call: SET of the processed key
MarkProcessed(c) ==
  /\ pc[c] = "mark"
  /\ \/ /\ processed' = processed \cup {Current(c)}
        /\ pc' = [pc EXCEPT ![c] = "unlock"]
     \/ /\ "mark" \in Faults
        /\ pc' = [pc EXCEPT ![c] = "ack"]
        /\ UNCHANGED processed
  /\ age' = [age EXCEPT ![c] = IF pc'[c] = "ack" THEN 0 ELSE @]
  /\ UNCHANGED <<bus, lock, effects, batch, crashes>>

\* _mark_processed, second call: DEL of the processing key, whoever holds it
DeleteLock(c) ==
  /\ pc[c] = "unlock"
  /\ \/ lock' = Restrict(lock, DOMAIN lock \ {Current(c)})
     \/ "mark" \in Faults /\ UNCHANGED lock
  /\ pc' = [pc EXCEPT ![c] = "ack"]
  /\ age' = [age EXCEPT ![c] = 0]
  /\ UNCHANGED <<bus, processed, effects, batch, crashes>>

\* XACK of a finished, skipped or malformed entry.  A failure leaves the rest of
\* the batch pending and goes back to the top of the loop.
Acknowledge(c) ==
  /\ pc[c] \in {"ack", "skip"}
  /\ \/ /\ idle' = Restrict(idle, DOMAIN idle \ {Head(batch[c])})
        /\ acked' = acked \cup {Head(batch[c])}
        /\ pc' = [pc EXCEPT ![c] = "next"]
        /\ batch' = [batch EXCEPT ![c] = Tail(@)]
     \/ /\ "ack" \in Faults
        /\ pc' = [pc EXCEPT ![c] = "claim"]
        /\ batch' = [batch EXCEPT ![c] = <<>>]
        /\ UNCHANGED <<idle, acked>>
  /\ UNCHANGED <<stream, trimmed, delivered, keys, effects, age, crashes>>

-----------------------------------------------------------------------------
\* the process stops, or its listener task is cancelled, at any await
Crash(c) ==
  /\ crashes < MaxCrashes /\ pc[c] # "down"
  /\ crashes' = crashes + 1
  /\ pc' = [pc EXCEPT ![c] = "down"]
  /\ batch' = [batch EXCEPT ![c] = <<>>]
  /\ age' = [age EXCEPT ![c] = 0]
  /\ UNCHANGED <<bus, keys, effects>>

\* the container is restarted and subscribes again
Restart(c) ==
  /\ pc[c] = "down"
  /\ pc' = [pc EXCEPT ![c] = "claim"]
  /\ UNCHANGED <<bus, keys, effects, batch, age, crashes>>

\* Time passes: entries grow idle, processing keys expire.  A handler does not
\* outlive its asyncio.timeout.  Publishing, marking and unlocking have the 60
\* seconds that _processing_lock_ttl_seconds adds to the timeout, or outlast them.
Holding == {"handle", "results", "dlq", "mark", "unlock"}
Older(n, bound) == IF n < bound THEN n + 1 ELSE n

\* mutant: the processing key is set without EX
TickNoExpiry ==
  /\ \A c \in Consumers :
       /\ pc[c] = "handle" => age[c] < HandlerTimeout
       /\ pc[c] \in Holding => Latency = "any" \/ age[c] + 1 < LockTtl
       /\ Latency = "none" => pc[c] \in {"claim", "read", "handle", "down"}
  /\ idle' = [m \in DOMAIN idle |-> Older(idle[m], ClaimIdle)]
  /\ lock' = [e \in DOMAIN lock |-> lock[e] + 1]
  /\ age' = [c \in Consumers |-> IF pc[c] \in Holding THEN Older(age[c], LockTtl) ELSE age[c]]
  /\ UNCHANGED <<stream, trimmed, delivered, acked, processed, effects, pc, batch, crashes>>

Tick ==
  /\ \A c \in Consumers :
       /\ pc[c] = "handle" => age[c] < HandlerTimeout
       /\ pc[c] \in Holding => Latency = "any" \/ age[c] + 1 < LockTtl
       /\ Latency = "none" => pc[c] \in {"claim", "read", "handle", "down"}
  /\ idle' = [m \in DOMAIN idle |-> Older(idle[m], ClaimIdle)]
  /\ lock' = [e \in {d \in DOMAIN lock : lock[d] + 1 < LockTtl} |-> lock[e] + 1]
  /\ age' = [c \in Consumers |-> IF pc[c] \in Holding THEN Older(age[c], LockTtl) ELSE age[c]]
  /\ UNCHANGED <<stream, trimmed, delivered, acked, processed, effects, pc, batch, crashes>>

Consume(c) ==
  \/ ClaimPending(c) \/ ReadNew(c) \/ PollAgain(c) \/ EndBatch(c) \/ PublishRawDlq(c)
  \/ IsProcessed(c) \/ ClaimProcessing(c) \/ HandleEvent(c) \/ PublishToDlq(c)
  \/ PublishResultEvents(c) \/ MarkProcessed(c) \/ DeleteLock(c) \/ Acknowledge(c)

Next ==
  \/ \E e \in Events : Publish(e)
  \/ \E c \in Consumers : Consume(c) \/ Crash(c) \/ Restart(c)
  \/ Tick

Spec == Init /\ [][Next]_vars

(***************************************************************************)
(* The event loop never stops by itself, a handler ends at its timeout at  *)
(* the latest, containers restart (restart: unless-stopped) and time goes  *)
(* on.  XACK fails now and then, not for good.  Nothing obliges a producer *)
(* to publish or a consumer to crash.                                      *)
(***************************************************************************)
FairSpec ==
  /\ Spec
  /\ \A c \in Consumers : WF_vars(Consume(c) \/ Restart(c))
  /\ \A c \in Consumers : SF_vars(Acknowledge(c) /\ pc'[c] = "next")
  /\ WF_vars(Tick)

-----------------------------------------------------------------------------
(***************************************************************************)
(* Properties.                                                             *)
(***************************************************************************)

\* The group keeps the bus's promise: whatever consumers, crashes, expired locks
\* and repeated publications do, XACK follows the handler's success and the
\* publication of its results, or the dead-letter write, and neither is undone.
Contract == INSTANCE EventContract WITH
  published <- Range(stream),
  resolved <- {e \in Events : Resolved(e)},
  settled <- {stream[m] : m \in acked}

KeepsContract == Contract!ContractSpec

\* No entry is acknowledged while its event is neither handled nor in dlq.failed
\* (operations.md section 9: failed handler events and malformed payloads are
\* written to dlq.failed).
AckedIsResolved == \A m \in acked : Resolved(stream[m])

\* The processing lock keeps two consumers out of the handler for one event at
\* the same time, across reclaims, duplicate entries, crashes and expiry.
HandlersDoNotOverlap ==
  \A c, d \in Consumers :
    c # d /\ pc[c] = "handle" /\ pc[d] = "handle" => Current(c) # Current(d)

\* Every published event is handled or dead-lettered in the end, unless the
\* stream outgrew its maximum length and was cut.
PublishedIsResolved ==
  \A e \in Events :
    e \in Range(stream) ~> Resolved(e) \/ \A m \in Entries : stream[m] = e => m \in trimmed
=============================================================================
