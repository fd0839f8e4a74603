---------------------------- MODULE EventContract ----------------------------
(***************************************************************************)
(* What the event bus promises a consumer group: an event is acknowledged  *)
(* only when its handler has succeeded and its result events are out, or   *)
(* when it is in the dead-letter queue, and neither is taken back.         *)
(***************************************************************************)
CONSTANT Events

VARIABLES
  published,  \* events appended to a stream
  resolved,   \* events handled with their results published, or dead-lettered
  settled     \* events with an acknowledged stream entry

contract == <<published, resolved, settled>>

ContractInit == published = {} /\ resolved = {} /\ settled = {}

Publishes(e) == published' = published \cup {e} /\ UNCHANGED <<resolved, settled>>

Resolves(e) ==
  /\ e \in published
  /\ resolved' = resolved \cup {e}
  /\ UNCHANGED <<published, settled>>

Settles(e) ==
  /\ e \in resolved
  /\ settled' = settled \cup {e}
  /\ UNCHANGED <<published, resolved>>

ContractNext == \E e \in Events : Publishes(e) \/ Resolves(e) \/ Settles(e)

ContractSpec == ContractInit /\ [][ContractNext]_contract
=============================================================================
