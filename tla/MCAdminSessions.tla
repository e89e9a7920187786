-------------------------- MODULE MCAdminSessions --------------------------
(* An instance of AdminSessions for TLC: a first start without users, and a *)
(* database of an earlier one.                                              *)
EXTENDS AdminSessions, TLC
CONSTANTS u1, p1

MCStored == {u1 :> NoUser, u1 :> [password |-> p1, disabled |-> FALSE]}
Symmetric == Permutations(Request) \cup Permutations(Id)
=============================================================================
