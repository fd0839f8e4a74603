-------------------------- MODULE MCNativeExecutor ---------------------------
(* An instance of NativeExecutor for TLC. *)
EXTENDS NativeExecutor, TLC

CONSTANTS k1, k2, k3, q1, q2, r1, r2

Interchangeable == Permutations(Calls) \cup Permutations(Requests) \cup Permutations(Runs)
=============================================================================
