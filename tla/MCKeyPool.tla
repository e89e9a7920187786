----------------------------- MODULE MCKeyPool -----------------------------
(* Instances of KeyPool for TLC: a quota without a reset time, and one that *)
(* is reset after one unit of time.                                         *)
EXTENDS KeyPool

MCResetIn == {0, 1}
=============================================================================
