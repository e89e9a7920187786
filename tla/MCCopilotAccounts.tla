------------------------ MODULE MCCopilotAccounts ------------------------
(* An instance of CopilotAccounts for TLC: the database holds one account   *)
(* of an earlier life of the program in a pool that is full, one whose      *)
(* token has expired or one whose authorisation has just begun.             *)
EXTENDS CopilotAccounts, TLC
CONSTANTS i1, i2, g1

Old == [Blank EXCEPT !.pool = g1, !.order = 1, !.status = "active",
                     !.oauth = TRUE, !.token = 1]
Begun == [Blank EXCEPT !.pool = g1, !.order = 1, !.status = "pending_auth",
                       !.device = TRUE, !.out = TRUE]
MCStored ==
  {[limit |-> [g \in Pool |-> 1], accounts |-> i1 :> a @@ i2 :> NoAccount] : a \in {Old, Begun}}
===========================================================================
