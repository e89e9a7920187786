------------------------- MODULE MCTargetFailover -------------------------
(* Instances of TargetFailover for TLC.  Two targets serve the model the    *)
(* clients ask for, under that name or under the name of a deployment.      *)
EXTENDS TargetFailover, TLC
CONSTANTS r1, r2, c1

MCClientOf == [r \in Request |-> c1]
MCAsks == (r1 :> {<<NoTarget, {1, 2}>>, <<1, {1, 2}>>})
       @@ (r2 :> {<<NoTarget, {1}>>})
MCAnyTarget == [r \in Request |-> {<<NoTarget, {1, 2}>>}]

Configured(paused, first, second, sanitized) ==
  [paused |-> paused, upstream |-> (1 :> first) @@ (2 :> second),
   sanitized |-> sanitized]

\* The first target's deployment is renamed, the second target pauses, or the
\* first one is taken out.
MCChanging ==
  {Configured({}, "deployment-4o", "gpt-4o", {1}),
   Configured({2}, "gpt-4o", "gpt-4o", {}),
   Configured({}, NoModel, "gpt-4o", {})}
MCTwoNames == {Configured({}, "deployment-4o", "gpt-4o", {1})}
MCOneName == {Configured({}, "gpt-4o", "gpt-4o", {})}
=============================================================================
