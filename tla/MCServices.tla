----------------------------- MODULE MCServices -----------------------------
(* The services around the long-work Task, and the scheduler by itself, one *)
(* at a time: each behaviour is one of the component it begins with.        *)
EXTENDS MCGraphScheduler, RunService, TaskNotices, Continuations, ChildTasks,
        HerdrTasks, WorkflowBindings, MemoryStore, SourceAuthority

CONSTANTS x1, x2, u1, u2, d1, d2

VARIABLE part
Parts == {"graph", "runs", "notices", "timer", "children", "herdr", "binding", "memory",
          "sources"}

(* Two Runs of one conversation, with one or two disturbances in each behaviour. *)
OneConversation == <<1, 1>>
Faulty(K) == [k \in {"duplicate", "error", "cancel", "retry", "ack", "denial", "restart"} |->
                IF k \in K THEN 1 ELSE 0]
MCRunFaults ==
  {Faulty(K) : K \in {{"error", "restart"}, {"cancel", "restart"}, {"retry", "ack"}, {"denial"}, {"duplicate"}}}
(* A Task with a child, which may have one. *)
MCPlans == <<{"ready"}, {"none", "ready"}, {"none"}>>
(* The agent of the first Attempt of a legacy Task is blocked at its work   *)
(* and finishes it; the second one may say at once that it is done.         *)
MCMaxChanges == <<4, 1>>

(* What the group policy governs, and a native Tool. *)
MCRoute == (d1 :> "conditional") @@ (d2 :> "native")
OneRoom == [r \in SourceRuns |-> 1]
Row(u, on, acts, effect) ==
  {[who |-> u, on |-> on, act |-> act, effect |-> effect, gen |-> 0] : act \in acts}
Runner(u) == Row(u, Agent, {"create", "control"}, "allow")
Key(u, on, act) == <<u, <<on, act>>>>

(* A reader whose grant, or category, is changed; a second one who is given *)
(* access only later, or never; delivery that is configured later; a second *)
(* one who needs an approval for each Run; and two Steps of one Task.       *)
MCBeginnings ==
  { [grants |-> Runner(u1) \cup Row(u1, d1, {"read", "send"}, "allow"),
     open |-> {d1, Key(u1, d1, "read")}, changes |-> 1,
     runs |-> 2, senders |-> <<{u1}, {u1}, {}>>, reads |-> <<1, 0, 0>>],
    [grants |-> Runner(u1) \cup Runner(u2) \cup Row(u1, d2, {"read"}, "allow"),
     open |-> {Key(u2, d2, "read")}, changes |-> 1,
     runs |-> 2, senders |-> <<{u1}, {u2}, {}>>, reads |-> <<1, 1, 0>>],
    [grants |-> Runner(u1) \cup Row(u1, d2, {"read"}, "allow"),
     open |-> {Key(u1, d2, "send")}, changes |-> 2,
     runs |-> 1, senders |-> <<{u1}, {}, {}>>, reads |-> <<1, 0, 0>>],
    [grants |-> Runner(u1) \cup UNION {Row(u, d1, {"read", "send"}, "allow") : u \in Principals}
                \cup Row(u2, Agent, {"control"}, "allow") \cup Row(u2, Agent, {"create"}, "approval"),
     open |-> {Key(u2, Agent, "create")}, changes |-> 0,
     runs |-> 2, senders |-> <<{u2}, {u1, u2}, {}>>, reads |-> <<1, 0, 0>>],
    [grants |-> Runner(u1) \cup Row(u1, d1, {"read"}, "allow"),
     open |-> {}, changes |-> 0,
     runs |-> 3, senders |-> <<{u1}, {}, {}>>, reads |-> <<1, 0, 0>>] }

(* A component that does not run stays in one initial state. *)
Init ==
  /\ part \in Parts
  /\ part # "graph" => graph = CHOOSE g \in Graphs : g.deps = [s \in g.steps |-> {}]
  /\ part # "runs"  => budget = CHOOSE b \in RunFaults : TRUE
  /\ GraphInit /\ RunServiceInit /\ TaskNoticesInit /\ ContinuationsInit /\ ChildTasksInit
  /\ HerdrTasksInit /\ WorkflowBindingsInit /\ MemoryStoreInit
  /\ SourceAuthorityInit /\ (part # "sources" => limits.runs = 1)

GraphRuns    == part = "graph" /\ UNCHANGED <<part, runVars, noticeVars, timerVars, childVars, herdrVars, bindingVars, memoryVars, sourceVars>>
RunsRun      == part = "runs" /\ UNCHANGED <<part, gVars, noticeVars, timerVars, childVars, herdrVars, bindingVars, memoryVars, sourceVars>>
NoticesRun   == part = "notices" /\ UNCHANGED <<part, gVars, runVars, timerVars, childVars, herdrVars, bindingVars, memoryVars, sourceVars>>
TimerRuns    == part = "timer" /\ UNCHANGED <<part, gVars, runVars, noticeVars, childVars, herdrVars, bindingVars, memoryVars, sourceVars>>
ChildrenRun  == part = "children" /\ UNCHANGED <<part, gVars, runVars, noticeVars, timerVars, herdrVars, bindingVars, memoryVars, sourceVars>>
HerdrRuns    == part = "herdr" /\ UNCHANGED <<part, gVars, runVars, noticeVars, timerVars, childVars, bindingVars, memoryVars, sourceVars>>
BindingRuns  == part = "binding" /\ UNCHANGED <<part, gVars, runVars, noticeVars, timerVars, childVars, herdrVars, memoryVars, sourceVars>>
MemoryRuns   == part = "memory" /\ UNCHANGED <<part, gVars, runVars, noticeVars, timerVars, childVars, herdrVars, bindingVars, sourceVars>>
SourcesRun   == part = "sources" /\ UNCHANGED <<part, gVars, runVars, noticeVars, timerVars, childVars, herdrVars, bindingVars, memoryVars>>

Next ==
  \/ GraphRuns /\ GraphNext
  \/ RunsRun /\ RunServiceNext
  \/ NoticesRun /\ TaskNoticesNext
  \/ TimerRuns /\ ContinuationsNext
  \/ ChildrenRun /\ ChildTasksNext
  \/ HerdrRuns /\ HerdrTasksNext
  \/ BindingRuns /\ WorkflowBindingsNext
  \/ MemoryRuns /\ MemoryStoreNext
  \/ SourcesRun /\ SourceAuthorityNext

vars == <<part, gVars, runVars, noticeVars, timerVars, childVars, herdrVars, bindingVars, memoryVars, sourceVars>>

Spec == Init /\ [][Next]_vars

(* The liveness of each component, under the fairness of its own module     *)
(* (RunServiceFairness, ...), said of the behaviours in which it runs.      *)
GraphsAreDecided ==
  part = "graph" /\ WF_vars(GraphRuns /\ GraphGoesOn) => EveryStepIsDecided
MessagesAreAnswered ==
  part = "runs" /\ WF_vars(RunsRun /\ ServiceGoesOn) => EveryMessageIsAnswered
TasksAreAnnounced ==
  part = "notices" /\ WF_vars(NoticesRun /\ (ListUndelivered \/ PumpStep)) => StateIsAnnounced
TimersWake ==
  /\ part = "timer"
  /\ WF_vars(TimerRuns /\ Tick) /\ WF_vars(TimerRuns /\ CallRuntime)
  /\ WF_vars(TimerRuns /\ RunSomeActivity)
  /\ WF_vars(TimerRuns /\ ActivityStep(x1)) /\ WF_vars(TimerRuns /\ ActivityStep(x2))
  => DueTimesWake
ParentsGoOn ==
  /\ part = "children"
  /\ \A t \in {1, 2, 3} : WF_vars(ChildrenRun /\ AdvanceTask(t))
  => ParentsDoNotWaitForever
WorkersAreNoticed ==
  part = "herdr" /\ WF_vars(HerdrRuns /\ (OwnerStep \/ MonitorStep)) => CompletionIsNoticed
TasksAreDriven ==
  /\ part = "binding" /\ WF_vars(BindingRuns /\ Recovery)
  /\ WF_vars(BindingRuns /\ Coordinator("call")) /\ WF_vars(BindingRuns /\ Coordinator("recovery"))
  => WorkReachesItsWorkflow
=============================================================================
