----------------------------- MODULE TaskGraph -----------------------------
(***************************************************************************)
(* Validation of a Task's Step graph and one evaluation of its dependency  *)
(* policies.  A graph g is a record                                        *)
(*   steps        the Step ids, integers in the order of their ids         *)
(*   deps         Steps -> the set of Steps it waits for                   *)
(*   policy       Steps -> what a failed, cancelled or skipped dependency  *)
(*                means for it: "continue", "block", "skip" or "cancel"    *)
(*   maxReady, maxParallel   the limits on ready and running Steps         *)
(*   order        its TopologicalOrder                                     *)
(* and st gives every Step its status.                                     *)
(***************************************************************************)
EXTENDS Integers, FiniteSets, SequencesExt

Settled   == {"succeeded", "failed", "cancelled", "skipped"}
Fallen    == {"failed", "cancelled", "skipped"}
Outcomes  == {"continue", "block", "skip", "cancel"}
Priority  == [o \in Outcomes |-> CASE o = "continue" -> 0 [] o = "block" -> 1
                                   [] o = "skip" -> 2 [] OTHER -> 3]
(* Mutant: the outcome itself is written. *)
OutcomeWritten == [block |-> "blocked", skip |-> "skip", cancel |-> "cancel"]
(* The status a policy outcome gives a Step. *)
Becomes   == [block |-> "blocked", skip |-> "skipped", cancel |-> "cancelled"]

InStatus(g, st, S) == {s \in g.steps : st[s] \in S}
First(S) == CHOOSE x \in S : \A y \in S : x <= y

(* Kahn's algorithm, always taking the smallest available id.  The order is  *)
(* shorter than the graph exactly when the graph has a cycle.                *)
TopologicalOrder(steps, deps) ==
  LET Extend[n \in 0..Cardinality(steps)] ==
        IF n = 0 THEN <<>>
        ELSE LET done  == Extend[n - 1]
                 ready == {s \in steps \ ToSet(done) : deps[s] \subseteq ToSet(done)}
             IN  IF ready = {} THEN done ELSE Append(done, First(ready))
  IN  Extend[Cardinality(steps)]

ValidGraph(g) ==
  /\ \A s \in g.steps : g.deps[s] \subseteq g.steps
  /\ Len(g.order) = Cardinality(g.steps)

(* The first n members of S in topological order. *)
Earliest(g, S, n) ==
  LET Rank(s) == CHOOSE i \in 1..Len(g.order) : g.order[i] = s
  IN  {s \in S : Cardinality({t \in S : Rank(t) < Rank(s)}) < n}

(* The strongest outcome any fallen dependency has under the Step's policy. *)
TerminalDependencyOutcome(g, st, s) ==
  LET fired == {g.policy[s][st[d]] : d \in {d \in g.deps[s] : st[d] \in Fallen}}
  IN  IF fired = {} THEN "continue"
      ELSE CHOOSE o \in fired : \A q \in fired : Priority[q] <= Priority[o]

(* Every Step as the Steps after it see it: one that falls is seen fallen. *)
SeenAs(g, st, seen, s) ==
  LET outcome == TerminalDependencyOutcome(g, seen, s)
  IN  IF st[s] \notin {"pending", "ready"} \/ outcome = "continue" THEN st[s] ELSE Becomes[outcome]
EffectiveStatus(g, st) ==
  LET seen[s \in g.steps] == SeenAs(g, st, seen, s)
  IN  seen

(* Mutant: one dependency is enough. *)
EligibleBySome(g, st, seen, S) ==
  {s \in InStatus(g, st, S) :
     seen[s] = st[s] /\ (g.deps[s] = {} \/ \E d \in g.deps[s] : seen[d] \in Settled)}

(* computeTaskGraphProgress.  Its transitions, as pairs of a Step and its   *)
(* next status: a pending or ready Step that falls does so at once; one     *)
(* whose dependencies are settled is eligible, and eligible pending Steps   *)
(* become ready while there are slots.                                      *)
Eligible(g, st, seen, S) ==
  {s \in InStatus(g, st, S) : seen[s] = st[s] /\ \A d \in g.deps[s] : seen[d] \in Settled}
Admitted(g, st, seen) ==
  Earliest(g, Eligible(g, st, seen, {"pending"}),
           g.maxReady - Cardinality(InStatus(g, st, {"ready"})))
(* Mutant: ready Steps that cannot run yet give their slot back. *)
TransitionsDemoting(g, st) ==
  LET seen == EffectiveStatus(g, st)
      runs == Earliest(g, Eligible(g, st, seen, {"ready"}),
                       g.maxParallel - Cardinality(InStatus(g, st, {"running"})))
  IN  {<<s, seen[s]>> : s \in {s \in InStatus(g, st, {"pending", "ready"}) : seen[s] # st[s]}}
      \cup (Admitted(g, st, seen) \X {"ready"})
      \cup ((Eligible(g, st, seen, {"ready"}) \ runs) \X {"pending"})
Transitions(g, st) ==
  LET seen == EffectiveStatus(g, st)
  IN  {<<s, seen[s]>> : s \in {s \in InStatus(g, st, {"pending", "ready"}) : seen[s] # st[s]}}
      \cup (Admitted(g, st, seen) \X {"ready"})

(* Mutant: what already runs is not counted. *)
RunnableAnew(g, st) ==
  LET seen == EffectiveStatus(g, st)
  IN  Earliest(g, Eligible(g, st, seen, {"ready"}) \cup Admitted(g, st, seen), g.maxParallel)

(* The first eligible ready Steps run while the parallel limit allows. *)
Runnable(g, st) ==
  LET seen == EffectiveStatus(g, st)
  IN  Earliest(g, Eligible(g, st, seen, {"ready"}) \cup Admitted(g, st, seen),
               g.maxParallel - Cardinality(InStatus(g, st, {"running"})))

(* Mutant: the limit itself already throws. *)
ProgressBelow(g, st) == Cardinality(InStatus(g, st, {"ready"})) < g.maxReady

(* More ready Steps than the limit make the evaluation throw. *)
ProgressDefined(g, st) == Cardinality(InStatus(g, st, {"ready"})) <= g.maxReady

(***************************************************************************)
(* LongWorkScheduler: a blocked Step counts as failed, and a join whose    *)
(* dependencies are all terminal goes through running to succeeded.        *)
(***************************************************************************)
BlockedAsFailed(g, st) == [s \in g.steps |-> IF st[s] = "blocked" THEN "failed" ELSE st[s]]
Proposed(g, st)   == Transitions(g, BlockedAsFailed(g, st))
ToRun(g, st)      == Runnable(g, BlockedAsFailed(g, st))

OpenJoins(g, st, joins) ==
  {s \in joins : st[s] \in {"ready", "running"}
                 /\ \A d \in g.deps[s] : st[d] \in Settled \cup {"blocked"}}

(* One pass of advance: every proposed transition, then every open join. *)
Moved(g, st) ==
  LET moves == Proposed(g, st)
  IN  [s \in g.steps |-> IF \E m \in moves : m[1] = s
                         THEN (CHOOSE m \in moves : m[1] = s)[2] ELSE st[s]]
AdvancePass(g, st, joins) ==
  LET moved == Moved(g, st)
      open  == OpenJoins(g, moved, joins)
  IN  [s \in g.steps |-> IF s \in open THEN "succeeded" ELSE moved[s]]
=============================================================================
