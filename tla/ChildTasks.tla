----------------------------- MODULE ChildTasks -----------------------------
(***************************************************************************)
(* Child Tasks: a child_task Step of a durable Task is linked to another   *)
(* Task, waits for it, and reads its end.  A Task here has one such Step;  *)
(* its other Steps are left out, so that it may be reviewed when the Step  *)
(* has succeeded or was never linked.                                      *)
(*                                                                         *)
(* The Activity of a Task reads its Step and the link and then acts, while *)
(* the owner accepts, reworks and cancels, and the child goes its own way. *)
(***************************************************************************)
EXTENDS Naturals, Sequences, FiniteSets

CONSTANTS
  Tasks,
  NoTask,       \* no child
  Plans,        \* what each Task may be planned with: "ready", a child_task Step, or "none"
  FailPolicies, \* the failure policies links are given
  MaxDepth,     \* MAX_CHILD_TASK_ANCESTOR_DEPTH
  MaxLinks,     \* MAX_CHILD_TASKS_PER_PARENT
  MaxDenied     \* bound: how often the continuation grant is found denied

ASSUME ChildTasksAssumption ==
  /\ NoTask \notin Tasks /\ Plans \in [Tasks -> SUBSET {"none", "ready"}]
  /\ FailPolicies \subseteq {"block_parent", "fail_parent", "review_parent"}
  /\ MaxDepth \in Nat /\ MaxLinks \in Nat /\ MaxDenied \in Nat

VARIABLES
  family,    \* per Task: orchestration_mode, status, cancellation_state
  childStep, \* its child_task Step: status and version
  tries,     \* the status of the latest Attempt of that Step
  links,     \* its task_child_links, in the order of their events
  driver,    \* its workflow: "none", "running" or "complete"
  sight,     \* what its Activity has read and not yet acted on
  denied

childVars == <<family, childStep, tries, links, driver, sight, denied>>

Blind      == [does |-> "nothing", version |-> 0, child |-> NoTask]
TaskOver   == {"DONE", "CANCELED"}
TaskEnded(t)   == family[t].status \in TaskOver
Durable(t) == family[t].mode = "durable" /\ ~TaskEnded(t)
Live(t)    == Durable(t) /\ family[t].cancel = "none"
Newest(t)  == links[t][Len(links[t])]
Children(t) == {links[t][i].child : i \in 1..Len(links[t])}
Parents(c)  == {t \in Tasks : c \in Children(t)}

(* The walk up the links, which are a forest. *)
Depth(t) ==
  LET up[n \in 0..Cardinality(Tasks)] ==
        IF n = 0 THEN {t} ELSE UNION {Parents(c) : c \in up[n - 1]}
  IN  Cardinality({n \in 1..Cardinality(Tasks) : up[n] # {}})

ChildTasksInit ==
  /\ family = [t \in Tasks |-> [mode |-> "legacy", status |-> "NEW", cancel |-> "none"]]
  /\ childStep = [t \in Tasks |-> [status |-> "none", version |-> 0]]
  /\ tries = [t \in Tasks |-> "none"] /\ links = [t \in Tasks |-> <<>>]
  /\ driver = [t \in Tasks |-> "none"] /\ sight = [t \in Tasks |-> Blind] /\ denied = 0

MoveChildStep(t, st) == childStep' = [childStep EXCEPT ![t].status = st, ![t].version = @ + 1]
MoveTries(t, st)     == tries' = [tries EXCEPT ![t] = st]

(***************************************************************************)
(* The owner.                                                              *)
(***************************************************************************)
PlanLinkedTask(t) ==
  /\ family[t] = [mode |-> "legacy", status |-> "NEW", cancel |-> "none"]
  /\ family' = [family EXCEPT ![t].mode = "durable"]
  /\ \E st \in Plans[t] : childStep' = [childStep EXCEPT ![t] = [status |-> st, version |-> 1]]
  /\ driver' = [driver EXCEPT ![t] = "running"]
  /\ UNCHANGED <<tries, links, sight, denied>>

(* createChildTaskLink: the child is new, and has no Steps and no links.   *)
LinkChild(t, c) ==
  /\ Live(t) /\ childStep[t].status = "ready"
  /\ c # t /\ family[c] = [mode |-> "legacy", status |-> "NEW", cancel |-> "none"]
  /\ Parents(c) = {} /\ Len(links[t]) < MaxLinks /\ Depth(t) < MaxDepth
  /\ \E cancelPolicy \in {"cancel_child", "keep_child"}, failurePolicy \in FailPolicies :
       links' = [links EXCEPT ![t] = Append(@, [child |-> c, cancel |-> cancelPolicy,
                                                failure |-> failurePolicy])]
  /\ MoveChildStep(t, "running") /\ MoveTries(t, "running")
  /\ UNCHANGED <<family, driver, sight, denied>>

AcceptChildStep(t) ==
  /\ Live(t) /\ childStep[t].status = "review"
  /\ MoveChildStep(t, "succeeded") /\ MoveTries(t, "succeeded")
  /\ UNCHANGED <<family, links, driver, sight, denied>>

(* Mutant: a blocked Step is reworked beside its running child. *)
Reworkable(t) == childStep[t].status \in {"review", "blocked"}
ReworkAllowed(t) ==
  \/ childStep[t].status = "review" /\ tries[t] = "review"
  \/ childStep[t].status = "blocked" /\ tries[t] = "failed" /\ \A c \in Children(t) : TaskEnded(c)

ReworkChildStep(t) ==
  /\ Live(t) /\ ReworkAllowed(t)
  /\ MoveChildStep(t, "ready")
  /\ UNCHANGED <<family, tries, links, driver, sight, denied>>

AcceptLinkedTask(t) ==
  /\ family[t].status = "REVIEW" /\ family[t].cancel = "none"
  /\ family' = [family EXCEPT ![t].status = "DONE"]
  /\ UNCHANGED <<childStep, tries, links, driver, sight, denied>>

(* requestDurableCancellation: what has not started, or has stopped, is    *)
(* cancelled; a running Step stays.                                        *)
RequestCancellation(t) ==
  /\ family' = [family EXCEPT ![t].cancel = "requested"]
  /\ IF childStep[t].status \in {"ready", "blocked", "review"}
     THEN MoveChildStep(t, "cancelled") ELSE UNCHANGED childStep

(* The call of the owner settles what has nothing running.                 *)
CancelTask(t) ==
  /\ ~TaskEnded(t)
  /\ \/ /\ family[t].mode = "legacy"
        /\ family' = [family EXCEPT ![t].status = "CANCELED"] /\ UNCHANGED childStep
     \/ /\ Live(t) /\ childStep[t].status = "running" /\ RequestCancellation(t)
     \/ /\ Durable(t) /\ childStep[t].status # "running"
        /\ family' = [family EXCEPT ![t].status = "CANCELED", ![t].cancel = "settled"]
        /\ IF childStep[t].status \in {"ready", "blocked", "review"}
           THEN MoveChildStep(t, "cancelled") ELSE UNCHANGED childStep
  /\ UNCHANGED <<tries, links, driver, sight, denied>>

(***************************************************************************)
(* The Activity of the Task, which polls while its child Step runs.        *)
(***************************************************************************)
Advancing(t, does) == driver[t] = "running" /\ sight[t].does = does
Looks(t, does) == sight' = [sight EXCEPT ![t] =
  [does |-> does, version |-> childStep[t].version, child |-> Newest(t).child]]
ActedOn(t) == sight' = [sight EXCEPT ![t] = Blind]
SeenStep(t) == childStep[t].status = "running" /\ childStep[t].version = sight[t].version

(* Mutant: a child that never started is waited for. *)
StopOrWait(c) == IF TaskEnded(c) THEN "settle" ELSE "cancelDurable"
StopChild(c) ==
  IF TaskEnded(c) THEN "settle" ELSE IF family[c].mode = "durable" THEN "cancelDurable" ELSE "cancelLegacy"

ReadChildStep(t) ==
  /\ Advancing(t, "nothing") /\ childStep[t].status = "running"
  /\ IF family[t].cancel = "none"
     THEN \/ Looks(t, "observe") /\ UNCHANGED denied
          \/ Looks(t, "deny") /\ denied < MaxDenied /\ denied' = denied + 1
     ELSE /\ Looks(t, IF Newest(t).cancel = "keep_child" THEN "settle" ELSE StopChild(Newest(t).child))
          /\ UNCHANGED denied
  /\ UNCHANGED <<family, childStep, tries, links, driver>>

(* observeLinkedChildTask *)
EndOf(t, c) ==
  IF family[c].status = "DONE" THEN "review"
  ELSE CASE Newest(t).failure = "fail_parent"   -> "failed"
         [] Newest(t).failure = "review_parent" -> "review"
         [] Newest(t).failure = "block_parent"  -> "blocked"

ObserveLinkedChild(t) ==
  LET c == sight[t].child IN
  /\ Advancing(t, "observe") /\ ActedOn(t)
  /\ IF Live(t) /\ SeenStep(t) /\ TaskEnded(c)
     THEN /\ MoveChildStep(t, EndOf(t, c))
          /\ MoveTries(t, IF EndOf(t, c) = "review" THEN "review" ELSE "failed")
     ELSE UNCHANGED <<childStep, tries>>
  /\ UNCHANGED <<family, links, driver, denied>>

(* The continuation is denied: the Step is blocked, and the child goes on. *)
DenyContinuation(t) ==
  /\ Advancing(t, "deny") /\ ActedOn(t)
  /\ IF Live(t) /\ SeenStep(t)
     THEN MoveChildStep(t, "blocked") /\ MoveTries(t, "failed")
     ELSE UNCHANGED <<childStep, tries>>
  /\ UNCHANGED <<family, links, driver, denied>>

(* The child is asked to stop; the parent looks again later.               *)
CancelChild(t) ==
  LET c == sight[t].child IN
  /\ driver[t] = "running" /\ sight[t].does \in {"cancelDurable", "cancelLegacy"} /\ ActedOn(t)
  /\ \/ /\ sight[t].does = "cancelDurable" /\ Live(c) /\ RequestCancellation(c)
     \/ /\ sight[t].does = "cancelLegacy" /\ family[c].mode = "legacy" /\ ~TaskEnded(c)
        /\ family' = [family EXCEPT ![c].status = "CANCELED"] /\ UNCHANGED childStep
     \/ /\ ~(sight[t].does = "cancelDurable" /\ Live(c))
        /\ ~(sight[t].does = "cancelLegacy" /\ family[c].mode = "legacy" /\ ~TaskEnded(c))
        /\ UNCHANGED <<family, childStep>>
  /\ UNCHANGED <<tries, links, driver, denied>>

SettleCancelledChild(t) ==
  /\ Advancing(t, "settle") /\ ActedOn(t)
  /\ IF SeenStep(t) THEN MoveChildStep(t, "cancelled") /\ MoveTries(t, "canceled")
     ELSE UNCHANGED <<childStep, tries>>
  /\ UNCHANGED <<family, links, driver, denied>>

(* The Task is settled, or put to review, or found to be over.             *)
CompleteTask(t) ==
  /\ Advancing(t, "nothing")
  /\ \/ /\ Durable(t) /\ family[t].cancel = "requested" /\ childStep[t].status # "running"
        /\ family' = [family EXCEPT ![t].status = "CANCELED", ![t].cancel = "settled"]
     \/ /\ Live(t) /\ childStep[t].status \in {"none", "succeeded"}
        /\ family' = [family EXCEPT ![t].status = "REVIEW"]
     \/ TaskEnded(t) /\ UNCHANGED family
  /\ driver' = [driver EXCEPT ![t] = "complete"]
  /\ UNCHANGED <<childStep, tries, links, sight, denied>>

AdvanceTask(t) ==
  \/ ReadChildStep(t) \/ ObserveLinkedChild(t) \/ DenyContinuation(t) \/ CancelChild(t)
  \/ SettleCancelledChild(t) \/ CompleteTask(t)

ChildTasksNext ==
  \E t \in Tasks :
    \/ PlanLinkedTask(t) \/ AcceptChildStep(t) \/ ReworkChildStep(t) \/ AcceptLinkedTask(t) \/ CancelTask(t)
    \/ AdvanceTask(t)
    \/ \E c \in Tasks : LinkChild(t, c)

(* Temporal runs the Activity again as long as the workflow polls.         *)
ChildTasksFairness == \A t \in Tasks : WF_childVars(AdvanceTask(t))
ChildTasksSpec == ChildTasksInit /\ [][ChildTasksNext]_childVars /\ ChildTasksFairness

(* A Step has at most one child at work; what is reviewed rests on a child *)
(* that is over; and a parent that stopped its child ends after it.        *)
ChildIsAccountedFor ==
  \A t \in Tasks :
    /\ Cardinality({c \in Children(t) : ~TaskEnded(c)}) <= 1
    /\ childStep[t].status \in {"review", "succeeded"} =>
         \/ family[Newest(t).child].status = "DONE"
         \/ family[Newest(t).child].status = "CANCELED" /\ Newest(t).failure = "review_parent"
    /\ tries[t] = "canceled" /\ Newest(t).cancel = "cancel_child" => TaskEnded(Newest(t).child)

(* The end of a child is seen, and a cancellation goes down the links and  *)
(* comes back, unless a child had already been put to review.              *)
Awaits(t) ==
  \/ Live(t) /\ childStep[t].status = "running" /\ TaskEnded(Newest(t).child)
  \/ family[t].cancel = "requested"
Stranded == \E c \in Tasks : family[c].cancel = "requested" /\ family[c].status = "REVIEW"
ParentsDoNotWaitForever == (\E t \in Tasks : Awaits(t)) ~> (Stranded \/ \A t \in Tasks : ~Awaits(t))

(* docs/agent-operations.md: "Parent cancellation either cancels or keeps  *)
(* the child according to the link".                                       *)
CancellationReachesChildren ==
  \A t \in Tasks : (family[t].cancel = "requested") ~> (family[t].cancel # "requested")
=============================================================================
