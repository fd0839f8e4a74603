--------------------------- MODULE MCEventDelivery ---------------------------
(***************************************************************************)
(* An instance of EventDelivery for TLC.  Event e1 and the malformed       *)
(* payload bad are of one type, so their entries share a stream.           *)
(***************************************************************************)
EXTENDS EventDelivery

CONSTANTS c1, c2, e1, bad

OneType == [e \in Events |-> 0]
=============================================================================
