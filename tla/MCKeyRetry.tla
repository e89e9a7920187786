---------------------------- MODULE MCKeyRetry ----------------------------
(* Instances of KeyRetry for TLC: two requests of one client, two keys. *)
EXTENDS KeyRetry, TLC
CONSTANTS r1, r2, c1

MCResetIn == {0}
MCClientOf == [r \in Request |-> c1]

\* The requests differ in name only: they share the client.
Symmetry == Permutations({r1, r2})
=============================================================================
