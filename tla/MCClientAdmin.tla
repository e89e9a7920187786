--------------------------- MODULE MCClientAdmin ---------------------------
(* An instance of ClientAdmin for TLC: one client that may use one target,  *)
(* and a second name, key and target for what the administrators make of it. *)
EXTENDS ClientAdmin, TLC
CONSTANTS c1, c2, k1, k2, t1, t2, g1, g2

MCStored == {c1 :> [key |-> k1, allowed |-> {t1}] @@ c2 :> NoClient}
MCOffered == [key : {k1, k2}, allowed : {{t1}}]
MCPools == {[client |-> c1, targets |-> {t1}], [client |-> c2, targets |-> {t2}]}
=============================================================================
