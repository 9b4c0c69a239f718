--------------------------- MODULE GraphScheduler ---------------------------
(***************************************************************************)
(* LongWorkScheduler.advance driven over the life of one Task.  Between    *)
(* two calls of advance the Activity claims runnable Steps, their outcomes *)
(* are recorded, the owner accepts or reworks them, and a quarantined Step *)
(* is reconciled.  Only the statuses are kept: LongWork has the Attempts,  *)
(* leases and versions.                                                    *)
(***************************************************************************)
EXTENDS TaskGraph

CONSTANT
  Graphs    \* the graphs a Task may be planned with, as TaskGraph describes them, with
            \*   joins     the Steps that are no-op barriers
            \*   maxRedo   bound: the retries and reworks of the Task

(* What validateTaskGraph and the contracts have checked of a stored graph. *)
ASSUME GraphsAssumption ==
  \A g \in Graphs :
    /\ IsFiniteSet(g.steps) /\ g.steps \subseteq Nat /\ g.joins \subseteq g.steps
    /\ g.deps \in [g.steps -> SUBSET Nat]
    /\ g.policy \in [g.steps -> [Fallen -> Outcomes]]
    /\ {g.maxReady, g.maxParallel} \subseteq Nat \ {0} /\ g.maxRedo \in Nat
    /\ g.order = TopologicalOrder(g.steps, g.deps)

VARIABLES
  graph,    \* the adopted graph
  status,   \* task_steps.status
  held,     \* blocked Steps that have a quarantined Attempt
  passes,   \* passes of advance that changed a status since anything else did
  redo      \* retries and reworks so far

gVars == <<graph, status, held, passes, redo>>

Steps == graph.steps
Joins == graph.joins

TypeOK ==
  /\ ValidGraph(graph) /\ Joins \subseteq Steps
  /\ status \in [Steps -> {"pending", "ready", "running", "waiting", "blocked", "review"} \cup Settled]
  /\ held \subseteq Steps /\ passes \in Nat /\ redo \in 0..graph.maxRedo

GraphInit ==
  /\ graph \in {g \in Graphs : ValidGraph(g)}
  /\ status = [s \in Steps |-> "pending"]
  /\ held = {} /\ passes = 0 /\ redo = 0

(* One pass of the loop in advance; the loop ends with a pass that changes  *)
(* nothing.                                                                 *)
Advance ==
  /\ ProgressDefined(graph, status)
  /\ status' = AdvancePass(graph, status, Joins)
  /\ status' # status
  /\ passes' = passes + 1
  /\ UNCHANGED <<graph, held, redo>>

(* The Activity claims from the list the finished advance has returned. *)
Claim(s) ==
  /\ ProgressDefined(graph, status)
  /\ AdvancePass(graph, status, Joins) = status
  /\ s \in ToRun(graph, status)
  /\ status' = [status EXCEPT ![s] = "running"]
  /\ passes' = 0
  /\ UNCHANGED <<graph, held, redo>>

Settle(s) ==
  /\ status[s] = "running"
  /\ \E outcome \in {"review", "failed", "blocked"} :
       /\ status' = [status EXCEPT ![s] = outcome]
       /\ held' = IF outcome = "blocked" THEN held \cup {s} ELSE held
  /\ passes' = 0
  /\ UNCHANGED <<graph, redo>>

Reconcile(s) ==
  /\ s \in held
  /\ \E outcome \in {"review", "failed"} : status' = [status EXCEPT ![s] = outcome]
  /\ held' = held \ {s}
  /\ passes' = 0
  /\ UNCHANGED <<graph, redo>>

Accept(s) ==
  /\ status[s] = "review"
  /\ status' = [status EXCEPT ![s] = "succeeded"]
  /\ passes' = 0
  /\ UNCHANGED <<graph, held, redo>>

Redo(s) ==
  /\ redo < graph.maxRedo
  /\ redo' = redo + 1
  /\ passes' = 0
  /\ UNCHANGED <<graph, held>>

ScheduleRetry(s) == status[s] = "running" /\ Redo(s) /\ status' = [status EXCEPT ![s] = "waiting"]
Rework(s)        == status[s] = "review"  /\ Redo(s) /\ status' = [status EXCEPT ![s] = "ready"]
FireRetry(s) ==
  /\ status[s] = "waiting"
  /\ status' = [status EXCEPT ![s] = "ready"]
  /\ passes' = 0
  /\ UNCHANGED <<graph, held, redo>>

GraphNext ==
  \/ Advance
  \/ \E s \in Steps : \/ Claim(s) \/ Settle(s) \/ Reconcile(s) \/ Accept(s)
                      \/ ScheduleRetry(s) \/ Rework(s) \/ FireRetry(s)

(* The Activity runs advance and claims what it returns, executors end, the *)
(* retry timer fires, and here the owner answers every review.  Behaviours  *)
(* are finite: it is enough that one of these goes on while any can.        *)
GraphGoesOn == (\E s \in Steps : Settle(s) \/ Accept(s) \/ FireRetry(s) \/ Claim(s)) \/ Advance
GraphFairness == WF_gVars(GraphGoesOn)

GraphSpec == GraphInit /\ [][GraphNext]_gVars /\ GraphFairness

(***************************************************************************)
(* Properties.                                                             *)
(***************************************************************************)

(* advance makes maxSteps + 1 passes and throws if the last still changes a *)
(* Step: with as many Steps as the limit allows it settles before that.     *)
(* And no schedule of claims, retries and reconciliations runs more Steps   *)
(* than the limit on parallel ones, which is 4 by default.                  *)
AdvanceKeepsItsLimits ==
  /\ passes <= Cardinality(Steps)
  /\ Cardinality(InStatus(graph, status, {"running"})) <= graph.maxParallel

(* What a dependency may do to a Step, said without the order advance works *)
(* in.  A Step leaves pending for ready only when each dependency is over   *)
(* and means "continue" if it did not succeed; it falls only for a fallen   *)
(* or blocked dependency whose policy says so, and for none stronger.  One  *)
(* that is blocked in the same pass does not count as failed yet, though    *)
(* docs/agent-operations.md:490 makes no such exception: a stronger policy  *)
(* for it comes too late.                                                   *)
Means(s, d, st) ==
  CASE st[d] = "succeeded" -> "continue"
    [] st[d] \in {"failed", "blocked"} -> graph.policy[s]["failed"]
    [] OTHER -> graph.policy[s][st[d]]
Over == Settled \cup {"blocked"}
DependenciesDecide ==
  [][\A s \in Steps : status[s] = "pending" /\ status'[s] # "pending" =>
       LET over    == {d \in graph.deps[s] : status'[d] \in Over}
           counted == {d \in over : status'[d] = "blocked" => status[d] = "blocked"}
           means   == {Means(s, d, status') : d \in counted}
       IN  IF status'[s] \in {"ready", "succeeded"}
           THEN over = graph.deps[s] /\ \A d \in over : Means(s, d, status') = "continue"
           ELSE \E o \in means : /\ o # "continue" /\ Becomes[o] = status'[s]
                                 /\ \A q \in means : Priority[q] <= Priority[o]]_gVars

(* No Step is forgotten: each ends settled, or blocked for its owner.       *)
EveryStepIsDecided == <>[](\A s \in Steps : status[s] \in Settled \cup {"blocked"})

(* The limit of 16 ready Steps (docs/agent-operations.md:488): advance      *)
(* refuses a Task with more, so nothing may take one over it.               *)
ReadyLimitHolds == ProgressDefined(graph, status)
=============================================================================
