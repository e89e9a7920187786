---------------------------- MODULE RecentTraces ----------------------------
(***************************************************************************)
(* What the trace store promises of its memory (docs/trace-store.md): it   *)
(* remembers which traces were recorded last, as many as it has room for.  *)
(***************************************************************************)
EXTENDS Naturals, Sequences

CONSTANTS Id, Size

VARIABLE recent   \* identifiers of the last records, oldest first

Init == recent = <<>>

Add(id) ==
  recent' = Append(IF Len(recent) < Size THEN recent ELSE Tail(recent), id)

\* A restart forgets everything.
Lose == recent' = <<>>

Next == Lose \/ \E id \in Id : Add(id)

Spec == Init /\ [][Next]_recent
=============================================================================
