-------------------------- MODULE MCGraphScheduler --------------------------
(* Every acyclic graph of three Steps under a few policies, the last Step a *)
(* barrier or not; three independent Steps under a limit of two; and a      *)
(* diamond of four in which two Steps fall for the first, differently, and  *)
(* so put two outcomes to the last at once.                                 *)
EXTENDS GraphScheduler

N == 1..3
Uniform(o) == [failed |-> o, cancelled |-> o, skipped |-> o]
Planned == [failed |-> "block", cancelled |-> "cancel", skipped |-> "skip"]  \* task_plan's
Policies == {Planned, Uniform("continue"), Uniform("skip")}

Plan(d, p, j, limits) ==
  [steps |-> DOMAIN d, deps |-> d, policy |-> p, joins |-> j,
   maxReady |-> limits[1], maxParallel |-> limits[2], maxRedo |-> limits[3],
   order |-> TopologicalOrder(DOMAIN d, d)]

Diamond ==
  Plan(<<{}, {1}, {1}, {2, 3}>>,
       <<Planned, Uniform("block"), Uniform("cancel"),
         [failed |-> "cancel", cancelled |-> "block", skipped |-> "block"]>>,
       {}, <<4, 1, 0>>)

(* A Task of which every Step may be ready may retry or rework one; a Task   *)
(* with a single ready slot may not: that is the run of ReadyLimitHolds.     *)
MCGraphs ==
  {Plan(d, [s \in N |-> p], j, l) : d \in [N -> SUBSET N], p \in Policies,
                                    j \in {{}, {3}}, l \in {<<3, 1, 1>>, <<1, 2, 0>>}}
  \cup {Diamond}
NarrowGraphs == {Plan([s \in N |-> {}], [s \in N |-> Planned], {}, <<2, 1, 1>>)}
=============================================================================
