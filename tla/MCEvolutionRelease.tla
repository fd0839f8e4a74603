------------------------- MODULE MCEvolutionRelease -------------------------
(* An instance of EvolutionRelease for TLC: proposals of one baseline. *)
EXTENDS EvolutionRelease, TLC

OneBaseline == [p \in Proposals |-> 1]
OneCandidate == [p \in Proposals |-> 2]

Interchangeable == Permutations(Requests)
=============================================================================
