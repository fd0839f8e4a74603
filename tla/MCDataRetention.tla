-------------------------- MODULE MCDataRetention --------------------------
(* An instance of the retention transaction for TLC. *)
EXTENDS DataRetention, TLC

Interchangeable == Permutations(Purgers) \cup Permutations(Sessions)
=============================================================================
