--------------------------- MODULE MCTargetAdmin ---------------------------
(* An instance of TargetAdmin for TLC: a program that still has its target  *)
(* in the file, and one that has it in the database.                        *)
EXTENDS TargetAdmin, TLC
CONSTANTS a, b, x1, x2, r1, r2

MCSorted == <<a, b>>
MCStored ==
  {[file |-> <<[name |-> a, content |-> x1, paused |-> FALSE]>>,
    targets |-> [n \in Name |-> NoRecord], order |-> <<>>],
   [file |-> <<>>, order |-> <<b>>,
    targets |-> b :> [content |-> x1, paused |-> FALSE] @@ a :> NoRecord]}
Symmetric == Permutations(Handler)
=============================================================================
