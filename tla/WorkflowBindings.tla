-------------------------- MODULE WorkflowBindings --------------------------
(***************************************************************************)
(* TemporalLongWorkCoordinator: how a durable Task gets its workflow and   *)
(* how an owner's change reaches it.  The Task, its binding and the        *)
(* workflow live in two stores that share no transaction; a call of        *)
(* Temporal may fail with or without effect, and the server may crash      *)
(* between any two steps.  One Task is modelled, with the calls of the     *)
(* service on it ("call") and the reconciliation ("recovery").             *)
(***************************************************************************)
EXTENDS Naturals

CONSTANTS
  MaxRuns,        \* bound: runs of the workflow (Continue-As-New)
  MaxChangeOfOwner, \* bound: changes of the owner that wake the workflow
  TemporalFaults  \* bound: failed calls of Temporal and crashes of the server

ASSUME WorkflowBindingsAssumption ==
  MaxRuns \in Nat \ {0} /\ MaxChangeOfOwner \in Nat /\ TemporalFaults \in Nat

VARIABLES
  durable,   \* the Task: its status, whether a cancellation is requested
  binding,   \* task_workflow_bindings: [st, run]
  workflow,  \* the workflow in Temporal: [st, run]
  runtime,   \* [up: temporalRuntime is set, retry: temporalRetry is set]
  callers,   \* where the service's call and the reconciliation have got to
  unseen,    \* a change of the owner the workflow was not yet woken for
  changes, temporalBudget

bindingVars == <<durable, binding, workflow, runtime, callers, unseen, changes, temporalBudget>>

NoCall       == [pc |-> "idle", seen |-> [st |-> "none", run |-> 0], run |-> 0, wakes |-> FALSE]
Failing      == temporalBudget > 0 /\ temporalBudget' = temporalBudget - 1
Unfailing    == UNCHANGED temporalBudget
Driven       == {"running", "unavailable", "starting"}
InFlight(p, pc) == callers[p].pc = pc
Proceed(p, pc)  == callers' = [callers EXCEPT ![p].pc = pc]

WorkflowBindingsInit ==
  /\ durable = [st |-> "NEW", cancel |-> FALSE]
  /\ binding = [st |-> "none", run |-> 0]
  /\ workflow = [st |-> "none", run |-> 0]
  /\ runtime = [up |-> FALSE, retry |-> FALSE]
  /\ callers = [p \in {"call", "recovery"} |-> NoCall]
  /\ unseen = FALSE /\ changes = 0 /\ temporalBudget = TemporalFaults

(* The end of a call: a failure of the service's own schedules a recovery,  *)
(* one of the recovery another; a recovery that could not reach the Task    *)
(* leaves the runtime in place.                                             *)
CallEnds(p, failed) ==
  /\ callers' = [callers EXCEPT ![p] = NoCall]
  /\ runtime' = IF p = "recovery" THEN [up |-> TRUE, retry |-> runtime.retry \/ failed]
                ELSE [runtime EXCEPT !.retry = @ \/ failed]

(***************************************************************************)
(* The service.                                                            *)
(***************************************************************************)
(* planExistingTask commits the graph, then starts the workflow. *)
PlanTask ==
  /\ InFlight("call", "idle") /\ runtime.up /\ durable.st = "NEW"
  /\ durable' = [durable EXCEPT !.st = "RUNNING"]
  /\ Proceed("call", "reserve")
  /\ UNCHANGED <<binding, workflow, runtime, unseen, changes, temporalBudget>>

(* A signal, a decision or a cancellation (which settles at once if no Step *)
(* is running) is committed, then the workflow is woken.                    *)
OwnerChangesTask ==
  /\ InFlight("call", "idle") /\ durable.st = "RUNNING" /\ changes < MaxChangeOfOwner
  /\ changes' = changes + 1 /\ unseen' = TRUE
  /\ durable' \in {durable, [durable EXCEPT !.cancel = TRUE],
                  [st |-> "CANCELED", cancel |-> TRUE]}
  /\ IF runtime.up THEN Proceed("call", "wake") /\ UNCHANGED runtime
                   ELSE CallEnds("call", TRUE)
  /\ UNCHANGED <<binding, workflow, temporalBudget>>

OwnerAccepts ==
  /\ durable.st = "REVIEW" /\ durable' = [durable EXCEPT !.st = "DONE"]
  /\ UNCHANGED <<binding, workflow, runtime, callers, unseen, changes, temporalBudget>>

(***************************************************************************)
(* start.                                                                  *)
(***************************************************************************)
ReserveBinding(p) ==
  /\ InFlight(p, "reserve")
  /\ IF durable.st # "RUNNING" \/ durable.cancel \/ binding.st = "closed"
     THEN CallEnds(p, TRUE) /\ UNCHANGED binding
     ELSE /\ binding' = IF binding.st = "none" THEN [binding EXCEPT !.st = "starting"] ELSE binding
          /\ callers' = [callers EXCEPT ![p].pc = "inspect", ![p].seen = binding']
          /\ UNCHANGED runtime
  /\ UNCHANGED <<durable, workflow, unseen, changes, temporalBudget>>

(* A workflow that is there is adopted, a closed one is refused. *)
InspectWorkflow(p) ==
  /\ InFlight(p, "inspect")
  /\ \/ /\ Unfailing
        /\ CASE workflow.st = "none"    -> Proceed(p, "start")
             [] workflow.st = "running" ->
                  callers' = [callers EXCEPT ![p].pc = "record", ![p].run = workflow.run]
             [] OTHER                   -> Proceed(p, "unavailable")
     \/ Failing /\ Proceed(p, "unavailable")
  /\ UNCHANGED <<durable, binding, workflow, runtime, unseen, changes>>

(* The same workflow id is not started twice at a time; a new workflow      *)
(* reads the Task as it is.                                                 *)
StartWorkflow(p) ==
  /\ InFlight(p, "start")
  /\ \/ /\ workflow.st # "running"
        /\ workflow' = [st |-> "running", run |-> workflow.run + 1]
        /\ callers' = [callers EXCEPT ![p].pc = "record", ![p].run = workflow.run + 1]
        /\ unseen' = FALSE /\ Unfailing
     \/ /\ workflow.st = "running" /\ Proceed(p, "unavailable") /\ Unfailing
        /\ UNCHANGED <<workflow, unseen>>
     \/ /\ workflow.st # "running" /\ Failing /\ Proceed(p, "unavailable")
        /\ \/ UNCHANGED <<workflow, unseen>>
           \/ workflow' = [st |-> "running", run |-> workflow.run + 1] /\ unseen' = FALSE
  /\ UNCHANGED <<durable, binding, runtime, changes>>

(* recordState writes only over the binding the caller has read. *)
AsSeen(p) == binding = callers[p].seen
Succeeded(p) == IF callers[p].wakes THEN Proceed(p, "wake") /\ UNCHANGED runtime
                                   ELSE CallEnds(p, FALSE)

RecordRunning(p) ==
  /\ InFlight(p, "record")
  /\ IF callers[p].seen = [st |-> "running", run |-> callers[p].run]
     THEN Succeeded(p) /\ UNCHANGED binding
     ELSE IF AsSeen(p)
     THEN Succeeded(p) /\ binding' = [st |-> "running", run |-> callers[p].run]
     ELSE CallEnds(p, TRUE) /\ UNCHANGED binding
  /\ UNCHANGED <<durable, workflow, unseen, changes, temporalBudget>>

RecordUnavailable(p) ==
  /\ InFlight(p, "unavailable")
  /\ binding' = IF AsSeen(p) /\ binding.st \in {"starting", "running"}
                THEN [binding EXCEPT !.st = "unavailable"] ELSE binding
  /\ CallEnds(p, TRUE)
  /\ UNCHANGED <<durable, workflow, unseen, changes, temporalBudget>>

WakeWorkflow(p) ==
  /\ InFlight(p, "wake")
  /\ \/ /\ workflow.st = "running" /\ unseen' = FALSE /\ CallEnds(p, FALSE) /\ Unfailing
     \/ workflow.st # "running" /\ UNCHANGED unseen /\ CallEnds(p, TRUE) /\ Unfailing
     \/ Failing /\ unseen' \in {unseen, unseen /\ workflow.st # "running"} /\ CallEnds(p, TRUE)
  /\ UNCHANGED <<durable, binding, workflow, changes>>

(***************************************************************************)
(* recover: on connecting, and again half a minute after a failure.        *)
(***************************************************************************)
(* Mutant: only Tasks that have a binding are recovered. *)
OnlyBound(st) == FALSE
(* A planned Task without a binding gets one. *)
RecoversUnbound(st) == st = "RUNNING"

BeginRecovery ==
  /\ InFlight("recovery", "idle") /\ (runtime.retry \/ ~runtime.up)
  /\ IF binding.st \in Driven
     THEN /\ callers' = [callers EXCEPT !["recovery"] = [pc |-> "task", seen |-> binding,
                                                             run |-> 0, wakes |-> TRUE]]
          /\ runtime' = [runtime EXCEPT !.retry = FALSE]
     ELSE IF binding.st = "none" /\ RecoversUnbound(durable.st) /\ ~durable.cancel
     THEN /\ Proceed("recovery", "reserve") /\ runtime' = [runtime EXCEPT !.retry = FALSE]
     ELSE /\ UNCHANGED callers
          /\ runtime' = [up |-> TRUE, retry |-> /\ binding.st = "none" /\ durable.st = "RUNNING"
                                                /\ durable.cancel]
  /\ UNCHANGED <<durable, binding, workflow, unseen, changes, temporalBudget>>

(* getTask: finished work is closed, a cancellation is passed on, the rest  *)
(* is started.                                                              *)
ReadTask ==
  /\ InFlight("recovery", "task")
  /\ Proceed("recovery", IF durable.st \in {"REVIEW", "DONE", "CANCELED"} THEN "close"
                         ELSE IF durable.cancel THEN "cancelling" ELSE "reserve")
  /\ UNCHANGED <<durable, binding, workflow, runtime, unseen, changes, temporalBudget>>

CloseWorkflow ==
  /\ InFlight("recovery", "close")
  /\ \/ /\ workflow' = IF workflow.st = "running" THEN [workflow EXCEPT !.st = "closed"] ELSE workflow
        /\ binding' = IF AsSeen("recovery") THEN [binding EXCEPT !.st = "closed"] ELSE binding
        /\ CallEnds("recovery", ~AsSeen("recovery")) /\ Unfailing
     \/ /\ Failing /\ CallEnds("recovery", TRUE) /\ UNCHANGED binding
        /\ workflow' \in {workflow, [workflow EXCEPT !.st = IF @ = "running" THEN "closed" ELSE @]}
  /\ UNCHANGED <<durable, unseen, changes>>

(* The intent is kept until a workflow is there to be woken. *)
PassCancellationOn ==
  /\ InFlight("recovery", "cancelling")
  /\ \/ /\ workflow.st = "running" /\ unseen' = FALSE /\ Unfailing
        /\ binding' = IF AsSeen("recovery") THEN [st |-> "running", run |-> workflow.run] ELSE binding
        /\ CallEnds("recovery", ~AsSeen("recovery"))
     \/ /\ workflow.st # "running" /\ UNCHANGED unseen /\ Unfailing
        /\ binding' = IF AsSeen("recovery") THEN [binding EXCEPT !.st = "unavailable"] ELSE binding
        /\ CallEnds("recovery", TRUE)
     \/ Failing /\ CallEnds("recovery", TRUE) /\ UNCHANGED <<unseen, binding>>
  /\ UNCHANGED <<durable, workflow, changes>>

(***************************************************************************)
(* The workflow and failures.                                              *)
(***************************************************************************)
(* It drives the Task to its review, settles a cancellation, completes,     *)
(* continues as a new run, or fails.                                        *)
WorkflowMoves ==
  /\ workflow.st = "running"
  /\ \/ /\ durable.st = "RUNNING"
        /\ durable' = [durable EXCEPT !.st = IF durable.cancel THEN "CANCELED" ELSE "REVIEW"]
        /\ UNCHANGED <<workflow, temporalBudget>>
     \/ /\ durable.st # "RUNNING" /\ workflow' = [workflow EXCEPT !.st = "closed"]
        /\ UNCHANGED <<durable, temporalBudget>>
     \/ /\ workflow.run < MaxRuns /\ workflow' = [workflow EXCEPT !.run = @ + 1]
        /\ UNCHANGED <<durable, temporalBudget>>
     \/ Failing /\ workflow' = [workflow EXCEPT !.st = "closed"] /\ UNCHANGED durable
  /\ UNCHANGED <<binding, runtime, callers, unseen, changes>>

ServerCrashes ==
  /\ Failing
  /\ callers' = [p \in DOMAIN callers |-> NoCall]
  /\ runtime' = [up |-> FALSE, retry |-> FALSE]
  /\ UNCHANGED <<durable, binding, workflow, unseen, changes>>

Coordinator(p) ==
  \/ ReserveBinding(p) \/ InspectWorkflow(p) \/ StartWorkflow(p)
  \/ RecordRunning(p) \/ RecordUnavailable(p) \/ WakeWorkflow(p)
Recovery == BeginRecovery \/ ReadTask \/ CloseWorkflow \/ PassCancellationOn

WorkflowBindingsNext ==
  \/ PlanTask \/ OwnerChangesTask \/ OwnerAccepts \/ WorkflowMoves \/ ServerCrashes
  \/ BeginRecovery \/ ReadTask \/ CloseWorkflow \/ PassCancellationOn
  \/ \E p \in DOMAIN callers : Coordinator(p)

(* The server goes on with what it has begun, and its timer fires. *)
WorkflowBindingsFairness ==
  /\ WF_bindingVars(Recovery)
  /\ \A p \in {"call", "recovery"} : WF_bindingVars(Coordinator(p))
WorkflowBindingsSpec ==
  WorkflowBindingsInit /\ [][WorkflowBindingsNext]_bindingVars /\ WorkflowBindingsFairness

(* A planned Task gets a workflow and every change of its owner reaches it, *)
(* although the plan, the binding and the workflow are committed apart: if  *)
(* a call of Temporal fails, if its answer is lost, if the server crashes   *)
(* in between.  Only a workflow that has failed is not replaced.            *)
Unreached ==
  \/ durable = [st |-> "RUNNING", cancel |-> FALSE] /\ workflow.st = "none"
  \/ unseen /\ durable.st = "RUNNING" /\ workflow.st = "running"
WorkReachesItsWorkflow == Unreached ~> ~Unreached

(* A binding is closed only for work that has ended, and names a run the    *)
(* workflow has had, whoever of the two wrote it last.                      *)
BindingIsTrue ==
  /\ binding.st = "closed" => durable.st \in {"REVIEW", "DONE", "CANCELED"}
  /\ binding.run <= workflow.run /\ (binding.st = "running" => binding.run > 0)
=============================================================================
