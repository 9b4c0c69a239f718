------------------------------ MODULE LongWork ------------------------------
(***************************************************************************)
(* One Task as it is driven: the Temporal workflow longWorkWorkflow, the   *)
(* executions of its Activity advanceLongWork, RunService, which executes  *)
(* the Runs the Activity records, and the owner.  They share nothing but   *)
(* the LongWorkStore: every state change is one of its transactions, and   *)
(* between two of them an actor holds only what it read.                   *)
(*                                                                         *)
(* An execution of the Activity that Temporal has given up on may still be *)
(* running: it goes on beside its replacement (TimeOut).                   *)
(***************************************************************************)
EXTENDS LongWorkStore, TaskGraph

CONSTANTS
  Procs,          \* executions of the Activity that may exist at once
  Deps, Policy,   \* the graph of the Steps, as TaskGraph describes it
  MaxReady, MaxParallel,
  MaxTries,       \* maximumAttempts of the Activity
  Faults          \* bound: how many faults of each kind happen

FaultKinds == {"crash", "timeout", "restart", "call"}

ASSUME LongWorkAssumption ==
  /\ Steps \subseteq Nat
  /\ \A s \in Steps : Kind[s] \in RunKinds \cup WaitKinds \cup {"join"}
  /\ Faults \in [FaultKinds -> Nat]
  /\ MaxTries \in Nat \ {0}

Graph == [steps |-> Steps, deps |-> Deps, policy |-> Policy, maxReady |-> MaxReady,
          maxParallel |-> MaxParallel, order |-> TopologicalOrder(Steps, Deps)]
Joins == {s \in Steps : Kind[s] = "join"}

VARIABLES
  wf,      \* the workflow: [state, timer, wake, cur, tries]
  act,     \* Procs -> an execution: pc and what it remembers
  exec,    \* Attempts -> the executor of its Run: "idle", "live" or "over"
  svc,     \* AuthorizedOpsService.cancel between its two transactions
  faults   \* faults still to come

procVars == <<wf, act>>
envVars  == <<exec, svc, faults>>
vars     == <<storeVars, wf, act, exec, svc, faults>>

(* view is the last listSteps, todo the Steps its current loop has left, can *)
(* the runnable Steps the scheduler returned; s, a, sv and lv are the claim   *)
(* it works on, seen what it learnt of the Run, pend whether something needs  *)
(* another look.                                                              *)
Idle == [pc |-> "idle", view |-> <<>>, todo |-> {}, can |-> {}, s |-> None, a |-> None,
         sv |-> 0, lv |-> 0, seen |-> "none", pend |-> FALSE]

ListSteps == [s \in Steps |-> [status |-> step[s].status, version |-> step[s].version]]
Seen(p)   == [s \in Steps |-> act[p].view[s].status]

LongWorkInit ==
  /\ Init
  /\ wf = [state |-> "advance", timer |-> FALSE, wake |-> FALSE, cur |-> None, tries |-> 0]
  /\ act = [p \in Procs |-> Idle]
  /\ exec = [a \in Attempts |-> "idle"]
  /\ svc = "idle" /\ faults = Faults

Spend(kind) == faults[kind] > 0 /\ faults' = [faults EXCEPT ![kind] = @ - 1]

(***************************************************************************)
(* The workflow.                                                           *)
(***************************************************************************)
(* A signal to a workflow that has ended is lost. *)
Wake == wf' = [wf EXCEPT !.wake = (@ \/ wf.state \in {"advance", "sleep"})]

WakeUp ==
  /\ wf.state = "sleep"
  /\ wf.wake \/ wf.timer
  /\ wf' = [wf EXCEPT !.state = "advance", !.wake = FALSE, !.timer = FALSE]
  /\ UNCHANGED <<storeVars, act, envVars>>

(* The workflow takes only the result of the execution it waits for. *)
Return(p, state, timer) ==
  /\ act' = [act EXCEPT ![p] = Idle]
  /\ wf' = IF wf.cur = p
           THEN [wf EXCEPT !.state = state, !.timer = timer, !.cur = None, !.tries = 0]
           ELSE wf
Continue(p) == Return(p, "advance", FALSE)

Retried == [wf EXCEPT !.cur = None, !.tries = @ + 1,
                      !.state = IF wf.tries + 1 = MaxTries THEN "failed" ELSE @]
Throw(p) ==
  /\ act' = [act EXCEPT ![p] = Idle]
  /\ wf' = IF wf.cur = p THEN Retried ELSE wf

(***************************************************************************)
(* advanceLongWork.                                                        *)
(***************************************************************************)
At(p, pc) == act[p].pc = pc
(* What p does next without touching the store. *)
Think(p, new) == act' = [act EXCEPT ![p] = new] /\ UNCHANGED <<wf, storeVars>>

DueWaits == {s \in Steps : /\ wait[s].status = "waiting" /\ wait[s].due
                           /\ step[s].status = "waiting"}

(* A Task under review, or over, ends the workflow; a requested cancellation *)
(* is settled; a due wait is fired; else the graph is advanced.              *)
Begin(p) ==
  /\ wf.state = "advance" /\ wf.cur = None /\ At(p, "idle")
  /\ UNCHANGED storeVars
  /\ IF task.status \in {"DONE", "CANCELED"} \/ (task.cancel = "none" /\ task.status = "REVIEW")
     THEN wf' = [wf EXCEPT !.state = "done"] /\ UNCHANGED act
     ELSE /\ wf' = [wf EXCEPT !.cur = p]
          /\ \/ /\ task.cancel # "none"
                /\ act' = [act EXCEPT ![p] = [Idle EXCEPT !.pc = "cancel", !.view = ListSteps,
                                                          !.todo = Steps]]
             \/ /\ task.cancel = "none"
                /\ \E s \in DueWaits :
                     act' = [act EXCEPT ![p] = [Idle EXCEPT !.pc = "fire", !.s = s,
                                                            !.sv = step[s].version]]
             \/ /\ task.cancel = "none" /\ DueWaits = {}
                /\ act' = [act EXCEPT ![p] = [Idle EXCEPT !.pc = "schedule", !.view = ListSteps]]

Fire(p) ==
  /\ At(p, "fire")
  /\ FireDueWait(act[p].s, act[p].sv)
  /\ Continue(p)

(* transitionStep with the version in p's view, which follows its writes. *)
Moves(p, s, from, to) ==
  TransitionStep(s, act[p].view[s].version, from, to) /\ UNCHANGED wf
ViewAfter(p, s, to) ==
  [act[p].view EXCEPT ![s] = [status |-> to, version |-> @.version + 1]]

(* LongWorkScheduler.advance: one transition at a time, then the joins.  The *)
(* set is empty when a pass changes nothing.                                 *)
ScheduledMoves(p) ==
  LET moves == Proposed(Graph, Seen(p))
      joins == OpenJoins(Graph, Seen(p), Joins)
      first == Earliest(Graph, {m[1] : m \in moves}, 1)
  IN  IF moves # {} THEN {m \in moves : m[1] \in first}
      ELSE {<<s, IF Seen(p)[s] = "ready" THEN "running" ELSE "succeeded">> :
              s \in {s \in joins : s = First(joins)}}

Schedule(p) ==
  /\ At(p, "schedule") /\ ProgressDefined(Graph, Seen(p))
  /\ \/ \E m \in ScheduledMoves(p) :
          /\ Moves(p, m[1], Seen(p)[m[1]], m[2])
          /\ act' = [act EXCEPT ![p].view = ViewAfter(p, m[1], m[2])]
     \/ /\ ScheduledMoves(p) = {}
        /\ Think(p, [act[p] EXCEPT !.pc = "observe", !.view = ListSteps,
                       !.can = ToRun(Graph, Seen(p)),
                       !.todo = {s \in Steps : /\ step[s].status \in {"running", "blocked"}
                                               /\ Kind[s] \in RunKinds \cup {"timer"}}])

Owned(s, state) == {a \in AttemptsOf(s) : lease[a].state = state}
(* On to the next Step of the loop. *)
Past(c, pend) ==
  [Idle EXCEPT !.pc = IF c.pc = "cancel" THEN "cancel" ELSE "observe", !.view = c.view,
               !.todo = c.todo \ {First(c.todo)}, !.can = c.can, !.pend = c.pend \/ pend]
Skip(p, pend) == Think(p, Past(act[p], pend))

(* observeQuarantinedRunStep, for the claim of a blocked Step. *)
RunPending(s, a) ==
  IF Kind[s] = "write"
  THEN ~granted \/ run[a] \in RunLive \/ (run[a] = "none" /\ Applied(s))
  ELSE run[a] \in RunLive \/ (run[a] \in {"succeeded", "failed"} /\ ~granted)
Unresolvable(s, a) == Kind[s] = "model" /\ run[a] \in {"none", "interrupted"}

ObserveBlocked(p, s) ==
  /\ act[p].view[s].status = "blocked"
  /\ \/ Kind[s] = "timer" /\ Skip(p, FALSE)
     \/ Kind[s] # "timer" /\ Owned(s, "quarantined") = {} /\ Skip(p, FALSE)
     \/ \E a \in Owned(s, "quarantined") :
          \/ Unresolvable(s, a) /\ Skip(p, FALSE)
          \/ RunPending(s, a) /\ Skip(p, TRUE)
          \/ /\ ~RunPending(s, a)
             /\ ReconcileQuarantinedStep(s, a, act[p].view[s].version, lease[a].version)
             /\ Continue(p)

(* Mutant: a running timer is taken for one that somebody else finishes. *)
PassTimer(p, s) ==
  Kind[s] = "timer" /\ act[p].view[s].status = "running" /\ Skip(p, FALSE)
(* The rest of a timer that an execution left running. *)
ObserveTimer(p, s) ==
  /\ Kind[s] = "timer" /\ act[p].view[s].status = "running"
  /\ Moves(p, s, "running", IF s \in StaleTimers THEN "blocked" ELSE "succeeded")
  /\ act' = [act EXCEPT ![p].pc = "again"]

(* observeRunningModelStep: the lease, then the Run of its Attempt. *)
ObserveRunning(p, s) ==
  /\ Kind[s] \in RunKinds /\ act[p].view[s].status = "running"
  /\ \/ Owned(s, "active") = {} /\ Skip(p, FALSE)
     \/ \E a \in Owned(s, "active") :
          Think(p, [act[p] EXCEPT !.pc = "run", !.s = s, !.a = a,
                                  !.sv = act[p].view[s].version, !.lv = lease[a].version])

Observe(p) ==
  /\ At(p, "observe")
  /\ IF act[p].todo = {}
     THEN Think(p, [act[p] EXCEPT !.pc = "claim", !.todo = act[p].can, !.can = {}])
     ELSE LET s == First(act[p].todo)
          IN  ObserveBlocked(p, s) \/ ObserveTimer(p, s) \/ ObserveRunning(p, s)

(* With no Run, continuing needs the grant; "absent" settles as failed.  With *)
(* a Run, settleModelRun reads the lease again.                               *)
ReadRun(p) ==
  /\ At(p, "run")
  /\ LET r == run[act[p].a]
         a == act[p].a
     IN  \/ /\ r = "none"
            /\ Think(p, [act[p] EXCEPT !.pc = "renew", !.seen = IF granted THEN r ELSE "absent"])
            /\ UNCHANGED faults
         \/ /\ r # "none" /\ lease[a].state = "active"
            /\ Think(p, [act[p] EXCEPT !.pc = "renew", !.lv = lease[a].version,
                                       !.seen = IF r \in RunLive THEN "live" ELSE r])
            /\ UNCHANGED faults
         \/ /\ r # "none" /\ lease[a].state # "active"
            /\ Skip(p, TRUE) /\ UNCHANGED faults
         \/ Think(p, [act[p] EXCEPT !.pc = "renew", !.seen = "error"]) /\ Spend("call")

(* All that an execution still needs which works on one claim until it ends. *)
Working(c, pc) == [Idle EXCEPT !.pc = pc, !.s = c.s, !.a = c.a, !.sv = c.sv, !.lv = c.lv,
                               !.seen = c.seen]

(* A bound of the model: a lease version that no longer grows is renewed    *)
(* only while no other execution remembers it.                              *)
Renewable(p, a) ==
  lease[a].version < MaxLeaseVersion \/ \A q \in Procs \ {p} : act[q].a # a

Renew(p) ==
  /\ At(p, "renew")
  /\ Renewable(p, act[p].a)
  /\ Heartbeat(act[p].a, act[p].lv)
  /\ UNCHANGED wf
  /\ LET next == [act[p] EXCEPT !.lv = lease'[act[p].a].version]
     IN  act' = [act EXCEPT ![p] =
           CASE act[p].seen = "live" -> Past(act[p], TRUE)
             [] act[p].seen = "none" -> Working(next, "create")
             [] OTHER                -> Working(next, "settle")]

(* createInternalStepRun, whose response may be lost before or after commit. *)
CreateRun(p) ==
  /\ At(p, "create")
  /\ \/ CreateInternalStepRun(act[p].a) /\ Continue(p) /\ UNCHANGED faults
     \/ run[act[p].a] # "none" /\ UNCHANGED storeVars /\ Continue(p) /\ UNCHANGED faults
     \/ /\ run[act[p].a] = "none" /\ ~(granted /\ ClaimIsLive(act[p].a))
        /\ Think(p, [act[p] EXCEPT !.pc = "recheck"]) /\ UNCHANGED faults
     \/ /\ Spend("call")
        /\ CreateInternalStepRun(act[p].a) \/ UNCHANGED storeVars
        /\ act' = [act EXCEPT ![p].pc = "recheck"] /\ UNCHANGED wf

(* First look up by the stable Attempt id, then leave failure evidence. *)
Recheck(p) ==
  /\ At(p, "recheck")
  /\ \/ run[act[p].a] # "none" /\ UNCHANGED storeVars /\ Continue(p) /\ UNCHANGED faults
     \/ /\ run[act[p].a] = "none"
        /\ Think(p, [act[p] EXCEPT !.pc = "settle", !.seen = "absent"]) /\ UNCHANGED faults
     \/ Think(p, [act[p] EXCEPT !.pc = "settle", !.seen = "error"]) /\ Spend("call")

(* Mutants: a write is decided by its Run; an ended Run is taken for a result. *)
OutcomeOfRun(p) ==
  CASE act[p].seen = "absent" -> "failed"
    [] act[p].seen = "succeeded" /\ granted -> "review"
    [] act[p].seen = "failed" /\ granted -> "failed"
    [] OTHER -> "unknown"
OutcomeOfEnd(p) ==
  LET decided == granted /\ Kind[act[p].s] # "write"
  IN  CASE act[p].seen = "absent" -> "failed"
        [] act[p].seen \in {"succeeded", "interrupted"} /\ decided -> "review"
        [] act[p].seen = "failed" /\ decided -> "failed"
        [] OTHER -> "unknown"

(* settleModelRun: a checkpoint write is never decided by its Run. *)
OutcomeOf(p) ==
  LET decided == granted /\ Kind[act[p].s] # "write"
  IN  CASE act[p].seen = "absent" -> "failed"
        [] act[p].seen = "succeeded" /\ decided -> "review"
        [] act[p].seen = "failed" /\ decided -> "failed"
        [] OTHER -> "unknown"
(* Mutant: any failure is retried, classified or not. *)
RetriesAll(p) == OutcomeOf(p) = "failed" /\ RetryAllowed(act[p].s)
Retries(p) == act[p].seen = "failed" /\ OutcomeOf(p) = "failed" /\ RetryAllowed(act[p].s)

Settle(p) ==
  /\ At(p, "settle")
  /\ LET c == act[p]
     IN  IF Retries(p) THEN ScheduleClaimedStepRetry(c.s, c.a, c.sv, c.lv)
                       ELSE SettleClaimedStep(c.s, c.a, c.sv, c.lv, OutcomeOf(p))
  /\ Continue(p)

(* The runnable Steps are claimed in the order of the graph. *)
NextClaim(p) == Earliest(Graph, act[p].todo, 1)
Added(p, s) == [act[p] EXCEPT !.todo = @ \ {s}, !.seen = "added"]

Claim(p) ==
  /\ At(p, "claim")
  /\ \E s \in NextClaim(p) :
       \/ /\ Kind[s] \in RunKinds /\ ~granted
          /\ Moves(p, s, "ready", "blocked") /\ act' = [act EXCEPT ![p].pc = "again"]
       \/ \E a \in Attempts :
            /\ ClaimReadyStep(s, a, act[p].view[s].version) /\ UNCHANGED wf
            /\ act' = [act EXCEPT ![p] = [Idle EXCEPT !.pc = "create", !.s = s, !.a = a,
                                            !.sv = act[p].view[s].version + 1, !.lv = 1]]
       \/ /\ CreateWait(s, act[p].view[s].version) /\ UNCHANGED wf
          /\ act' = [act EXCEPT ![p] = Added(p, s)]
       \/ /\ Kind[s] = "timer" /\ s \in StaleTimers
          /\ Moves(p, s, "ready", "blocked") /\ act' = [act EXCEPT ![p] = Added(p, s)]
       \/ /\ Kind[s] = "timer" /\ s \notin StaleTimers
          /\ Moves(p, s, "ready", "running")
          /\ act' = [act EXCEPT ![p] = [Added(p, s) EXCEPT !.pc = "timer", !.s = s,
                                          !.sv = act[p].view[s].version + 1]]

(* The second commit of an overdue timer. *)
FinishTimer(p) ==
  /\ At(p, "timer")
  /\ TransitionStep(act[p].s, act[p].sv, "running", "succeeded") /\ UNCHANGED wf
  /\ act' = [act EXCEPT ![p] = [@ EXCEPT !.pc = "claim", !.s = None, !.sv = 0]]

(* A loop that changed something is followed by another advance. *)
Again(p) ==
  /\ \/ At(p, "again")
     \/ At(p, "claim") /\ act[p].todo = {} /\ act[p].seen = "added"
  /\ UNCHANGED storeVars /\ Continue(p)

(* What is left to wait for. *)
Conclude(p) ==
  /\ At(p, "claim") /\ act[p].todo = {} /\ act[p].seen # "added"
  /\ LET stuck == {s \in Steps : Seen(p)[s] \in {"blocked", "failed"}}
         over  == Seen(p)[Root] = "succeeded" /\ \A s \in Steps : Seen(p)[s] \in StepClosed
         runs  == \E s \in Steps : Seen(p)[s] = "running"
         polls == act[p].pend
     IN  \/ /\ stuck # {}
            /\ MarkTaskNeedsAttention(First(stuck))
            /\ Return(p, "sleep", polls \/ AnyWaiting)
         \/ /\ stuck = {} /\ ~polls /\ ~runs /\ over
            /\ MarkTaskReview \/ (task.status = "REVIEW" /\ UNCHANGED storeVars)
            /\ Return(p, "done", FALSE)
         \/ /\ stuck = {} /\ (polls \/ runs \/ ~over)
            /\ UNCHANGED storeVars
            /\ Return(p, "sleep", polls \/ (~runs /\ AnyWaiting))

(***************************************************************************)
(* The cancellation branch of advanceLongWork.                             *)
(***************************************************************************)
CancelLoop(p) ==
  /\ At(p, "cancel") /\ act[p].todo # {}
  /\ LET s == First(act[p].todo)
         v == act[p].view[s]
     IN  \/ /\ Kind[s] \in {"join", "timer"} /\ v.status = "running"
            /\ Moves(p, s, "running", "cancelled") /\ act' = [act EXCEPT ![p].pc = "again"]
         \/ /\ Kind[s] \in RunKinds /\ v.status = "cancelled"
            /\ \E a \in Owned(s, "quarantined") :
                 \/ SettleQuarantinedReadOnlyStepCancellation(s, a, v.version, lease[a].version)
                    /\ Continue(p)
                 \/ run[a] \in RunLive /\ Skip(p, TRUE)
         \/ /\ Kind[s] \in RunKinds /\ v.status = "running"
            /\ \/ Owned(s, "active") = {} /\ Skip(p, TRUE)
               \/ \E a \in Owned(s, "active") :
                    /\ Renewable(p, a)
                    /\ step[s].version = v.version
                    /\ Heartbeat(a, lease[a].version) /\ UNCHANGED wf
                    /\ act' = [act EXCEPT ![p] =
                         IF run[a] \in RunLive
                         THEN Past(@, TRUE)
                         ELSE [Idle EXCEPT !.pc = "stop", !.s = s, !.a = a, !.sv = v.version,
                                           !.lv = lease'[a].version]]
         \/ /\ ~(v.status = "running")
            /\ ~(Kind[s] \in RunKinds /\ v.status = "cancelled" /\ Owned(s, "quarantined") # {})
            /\ Skip(p, FALSE)

StopStep(p) ==
  /\ At(p, "stop")
  /\ SettleClaimedStepCancellation(act[p].s, act[p].a, act[p].sv, act[p].lv)
  /\ Continue(p)

CancelConclude(p) ==
  /\ At(p, "cancel") /\ act[p].todo = {}
  /\ LET waits == act[p].pend \/ \E s \in Steps : Seen(p)[s] = "running"
     IN  \/ waits /\ UNCHANGED storeVars /\ Return(p, "sleep", TRUE)
         \/ ~waits /\ SettleDurableCancellation /\ Return(p, "done", FALSE)
         \/ ~waits /\ task.cancel = "settled" /\ UNCHANGED storeVars /\ Return(p, "done", FALSE)

(***************************************************************************)
(* A store method that refuses what p remembers makes the Activity throw.  *)
(***************************************************************************)
Stale(p, s, status) ==
  \/ step[s].version # act[p].view[s].version \/ step[s].status # status

Refused(p) ==
  /\ LET c == act[p]
     IN  CASE c.pc = "fire" -> ~Active \/ step[c.s].version # c.sv \/ wait[c.s].status # "waiting"
           [] c.pc = "schedule" ->
                \/ ~ProgressDefined(Graph, Seen(p))
                \/ \E m \in ScheduledMoves(p) : ~Active \/ Stale(p, m[1], Seen(p)[m[1]])
           [] c.pc = "observe" ->
                /\ c.todo # {}
                /\ LET s == First(c.todo)
                   IN  \/ /\ Seen(p)[s] = "blocked" /\ Kind[s] \in RunKinds
                          /\ \E a \in Owned(s, "quarantined") :
                               ~Unresolvable(s, a) /\ ~RunPending(s, a)
                          /\ ~Active \/ Stale(p, s, "blocked")
                       \/ /\ Kind[s] = "timer" /\ Seen(p)[s] = "running"
                          /\ ~Active \/ Stale(p, s, "running")
           [] c.pc = "renew" -> lease[c.a].state # "active" \/ lease[c.a].version # c.lv
           [] c.pc = "settle" -> ~Active \/ ~HoldsClaim(c.s, c.a, c.sv, c.lv)
           [] c.pc = "claim" ->
                IF c.todo # {}
                THEN \E s \in NextClaim(p) :
                       \/ ~Active \/ Stale(p, s, "ready")
                       \/ granted /\ task.status = "REVIEW" /\ Kind[s] \in RunKinds
                ELSE /\ c.seen # "added"
                     /\ LET stuck == {s \in Steps : Seen(p)[s] \in {"blocked", "failed"}}
                        IN  IF stuck # {}
                            THEN ~Active \/ step[First(stuck)].status \notin {"blocked", "failed"}
                            ELSE /\ ~c.pend /\ Seen(p)[Root] = "succeeded"
                                 /\ \A s \in Steps : Seen(p)[s] \in StepClosed
                                 /\ ~Active
           [] c.pc = "timer" -> ~Active \/ step[c.s].version # c.sv
           [] c.pc = "cancel" ->
                IF c.todo # {}
                THEN /\ Seen(p)[First(c.todo)] = "running"
                     /\ Stale(p, First(c.todo), "running")
                ELSE /\ ~c.pend /\ \A s \in Steps : Seen(p)[s] # "running"
                     /\ CancelPending /\ ~Settleable
           [] c.pc = "stop" -> ~CancelPending \/ ~HoldsClaim(c.s, c.a, c.sv, c.lv)
           [] OTHER -> FALSE
  /\ Throw(p) /\ UNCHANGED storeVars

Quiet(p) ==
  \/ Begin(p) \/ Fire(p) \/ Schedule(p) \/ Observe(p) \/ Renew(p) \/ Settle(p)
  \/ Claim(p) \/ FinishTimer(p) \/ Again(p) \/ Conclude(p)
  \/ CancelLoop(p) \/ StopStep(p) \/ CancelConclude(p) \/ Refused(p)

Advance(p) ==
  \/ Quiet(p) /\ UNCHANGED envVars
  \/ (ReadRun(p) \/ CreateRun(p) \/ Recheck(p)) /\ UNCHANGED <<exec, svc>>

(***************************************************************************)
(* RunService.                                                             *)
(***************************************************************************)
ClaimQueuedRun(a) ==
  /\ run[a] = "queued" /\ MoveRun(a, "running")
  /\ UNCHANGED <<procVars, envVars>>

(* cancelInternalRunForTask *)
CancelRun(a) ==
  /\ task.cancel # "none"
  /\ \/ run[a] = "queued" /\ MoveRun(a, "interrupted")
     \/ run[a] = "running" /\ MoveRun(a, "cancelling")
  /\ UNCHANGED <<procVars, envVars>>

(* execute: the input of the Run is loaded under its live claim and grant. *)
StartExecutor(a) ==
  /\ run[a] = "running" /\ exec[a] = "idle" /\ granted /\ ClaimIsLive(a)
  /\ exec' = [exec EXCEPT ![a] = "live"]
  /\ UNCHANGED <<storeVars, procVars, svc, faults>>

RefuseRun(a) ==
  /\ run[a] \in {"running", "cancelling"} /\ exec[a] = "idle" /\ ~(granted /\ ClaimIsLive(a))
  /\ \E to \in {"failed", "interrupted"} : MoveRun(a, to)
  /\ exec' = [exec EXCEPT ![a] = "over"]
  /\ UNCHANGED <<procVars, svc, faults>>

WriteCheckpoint(a) ==
  /\ exec[a] = "live" /\ WriteClaimedCheckpoint(a)
  /\ UNCHANGED <<procVars, envVars>>

FinishRun(a) ==
  /\ exec[a] = "live"
  /\ \E to \in RunClosed :
       /\ to = "succeeded" /\ Kind[att[a].step] = "write" => Applied(att[a].step)
       /\ MoveRun(a, to)
  /\ exec' = [exec EXCEPT ![a] = "over"]
  /\ UNCHANGED <<procVars, svc, faults>>

RunService(a) ==
  \/ ClaimQueuedRun(a) \/ CancelRun(a) \/ StartExecutor(a) \/ RefuseRun(a) \/ FinishRun(a)

(***************************************************************************)
(* The owner, through AuthorizedOpsService.                                *)
(***************************************************************************)
Owner(A) == A /\ Wake /\ UNCHANGED <<act, envVars>>

AcceptStep(s) == Owner(\E a \in Attempts : AcceptDurableStep(s, a, step[s].version))

(* A bound of the model: a rework leaves enough fresh Attempts for all that *)
(* the Steps may still claim.                                               *)
Demand(s) == IF Kind[s] \in RunKinds THEN MaxAttempts[s] ELSE 0
Fresh     == {a \in Attempts : att[a].status = "unused"}
HorizonAllows(s) ==
  Cardinality(Fresh) >= Demand(s) + Cardinality(
    {x \in (Steps \ {s}) \X (1..Cardinality(Attempts)) :
       /\ step[x[1]].status \notin StepClosed
       /\ x[2] <= Demand(x[1]) - Cardinality(CycleAttempts(x[1]))})
ReworkStep(s) ==
  /\ HorizonAllows(s)
  /\ Owner(\E a \in Attempts : ReworkDurableStep(s, a, step[s].version))

(* A signal wakes the workflow only when it was applied. *)
Signal(s) ==
  /\ RecordSignal(s, step[s].version)
  /\ IF step'[s].status = "succeeded" THEN Wake ELSE UNCHANGED wf
  /\ UNCHANGED <<act, envVars>>

AcceptTask == AcceptDurableTask /\ UNCHANGED <<procVars, envVars>>

(* cancel: the request, then what can be settled at once. *)
CancelTask ==
  /\ svc = "idle"
  /\ RequestDurableCancellation \/ (CancelPending /\ UNCHANGED storeVars)
  /\ svc' = "cancel"
  /\ UNCHANGED <<procVars, exec, faults>>

FinishCancel ==
  /\ svc = "cancel" /\ svc' = "idle"
  /\ \/ /\ \E s \in Steps : step[s].status = "running"
        /\ Wake /\ UNCHANGED storeVars
     \/ SettleDurableCancellation /\ Wake
     \/ task.cancel = "settled" /\ Wake /\ UNCHANGED storeVars
     \/ /\ CancelPending /\ \A s \in Steps : step[s].status # "running"
        /\ ~Settleable
        /\ UNCHANGED <<wf, storeVars>>
  /\ UNCHANGED <<act, exec, faults>>

(***************************************************************************)
(* Faults, and time.                                                       *)
(***************************************************************************)
(* The Activity's process dies, or one of its calls fails. *)
Crash(p) ==
  /\ ~At(p, "idle") /\ Spend("crash") /\ Throw(p)
  /\ UNCHANGED <<storeVars, exec, svc>>

(* startToCloseTimeout: Temporal retries while p goes on. *)
TimeOut(p) ==
  /\ wf.cur = p /\ Spend("timeout") /\ wf' = Retried
  /\ UNCHANGED <<storeVars, act, exec, svc>>

(* The server restarts: its executors are gone, and recover wakes the Task. *)
Restart ==
  /\ Spend("restart")
  /\ RecoverRuns
  /\ exec' = [a \in Attempts |-> IF run[a] \in {"running", "cancelling"} THEN "over" ELSE exec[a]]
  /\ svc' = "idle"
  /\ Wake /\ UNCHANGED act

Environment ==
  /\ \/ \E a \in Attempts : LeaseExpires(a)
     \/ \E s \in Steps : WaitFallsDue(s)
     \/ ChangeGrant
  /\ UNCHANGED <<procVars, envVars>>

OwnerActs == \/ \E s \in Steps : AcceptStep(s) \/ ReworkStep(s) \/ Signal(s)
             \/ AcceptTask \/ CancelTask

FaultHappens == (\E p \in Procs : Crash(p) \/ TimeOut(p)) \/ Restart

LongWorkNext ==
  \/ \E p \in Procs : Advance(p)
  \/ \E a \in Attempts : RunService(a) \/ WriteCheckpoint(a)
  \/ WakeUp \/ FinishCancel \/ OwnerActs \/ FaultHappens \/ Environment

(* Temporal runs its workflows and Activities, RunService its Runs, an       *)
(* executor ends, timers fire and a call of the service returns.  Nothing    *)
(* makes the owner act.                                                      *)
Fairness ==
  /\ WF_vars(WakeUp) /\ WF_vars(FinishCancel)
  /\ \A p \in Procs : WF_vars(Advance(p))
  /\ \A a \in Attempts : WF_vars(RunService(a))
  /\ \A s \in Steps : WF_vars(WaitFallsDue(s) /\ UNCHANGED <<procVars, envVars>>)

LongWorkSpec == LongWorkInit /\ [][LongWorkNext]_vars /\ Fairness

(***************************************************************************)
(* What the driven Task promises.                                          *)
(***************************************************************************)
DriverTypeOK ==
  /\ TypeOK
  /\ wf \in [state : {"advance", "sleep", "done", "failed"}, timer : BOOLEAN, wake : BOOLEAN,
             cur : Procs \cup {None}, tries : 0..MaxTries]
  /\ \A p \in Procs :
       /\ act[p].pc \in {"idle", "cancel", "fire", "schedule", "observe", "run", "renew", "create",
                         "recheck", "settle", "claim", "timer", "again", "stop"}
       /\ act[p].todo \subseteq Steps /\ act[p].can \subseteq Steps
       /\ act[p].s \in Steps \cup {None} /\ act[p].a \in Attempts \cup {None}
       /\ act[p].seen \in {"none", "live", "absent", "error", "added"} \cup RunClosed
  /\ exec \in [Attempts -> {"idle", "live", "over"}]
  /\ svc \in {"idle", "cancel"}
  /\ faults \in [FaultKinds -> Nat]

(* An executor is fenced: while it runs, the outcome of its Attempt is open  *)
(* and its Step has no other owner.  The Activity settles, retries or cancels*)
(* a claim without ever asking the executor, only from what it read of its   *)
(* Run, so a decision taken too early frees the Step under a live executor.  *)
LiveRunIsFenced == \A a \in Attempts : exec[a] = "live" => Unresolved(a)

(* What is recorded of a checkpoint write is what happened: a write that is  *)
(* to be tried, or has failed, has not been applied in this generation, and  *)
(* one under review or accepted has been.  No lost response, crash, retry or *)
(* overlapping execution makes the Activity replay or give up an applied one.*)
WriteOutcomeIsTrue ==
  \A s \in Steps : Kind[s] = "write" =>
    /\ step[s].status \in {"ready", "waiting", "failed"} => ~Applied(s)
    /\ step[s].status \in {"review", "succeeded"} => Applied(s)

(* Work offered to the owner rests on evidence, whoever settled it and however *)
(* late: a Model Step under review or accepted has a Run that succeeded, a     *)
(* checkpoint write has its checkpoint.                                        *)
ReviewRestsOnEvidence ==
  \A s \in Steps : Kind[s] \in RunKinds /\ step[s].status \in {"review", "succeeded"} =>
    \E a \in AttemptsOf(s) :
      /\ Latest(s, a) /\ att[a].status \in {"review", "succeeded"}
      /\ Kind[s] = "model" => run[a] = "succeeded"
      /\ Kind[s] = "write" => Applied(s)

(* Two executors never run at one Step, not even when one execution of the     *)
(* Activity has been replaced by another.                                      *)
OneExecutorPerStep ==
  \A a, b \in Attempts :
    exec[a] = "live" /\ exec[b] = "live" /\ att[a].step = att[b].step => a = b

(* A Step is not given up for good because of a Step that has since          *)
(* succeeded: no Step went straight from pending to blocked (its version is   *)
(* 2) while all it waits for was accepted.                                    *)
NoDependentIsStranded ==
  Active => ~\E s \in Steps :
    /\ step[s].status = "blocked" /\ step[s].version = 2
    /\ \A d \in Deps[s] : step[d].status = "succeeded"

(* The driven Task implements OwnedWork: claims, executors, quarantines and   *)
(* cancellation keep every Step with one owner until its executor is over.    *)
TaskPhase ==
  CASE task.cancel = "settled"   -> "stopped"
    [] task.cancel = "requested" -> "stopping"
    [] task.cancel = "none" /\ task.status = "DONE"   -> "accepted"
    [] task.cancel = "none" /\ task.status = "REVIEW" -> "review"
    [] OTHER -> "open"
Holder(s) == IF StepOwned(s) THEN CHOOSE a \in AttemptsOf(s) : Unresolved(a) ELSE None

Promise == INSTANCE OwnedWork WITH
  phase  <- TaskPhase,
  holder <- [s \in Steps |-> Holder(s)],
  taken  <- {a \in Attempts : att[a].status # "unused"},
  live   <- {a \in Attempts : exec[a] = "live"},
  begun  <- {a \in Attempts : exec[a] # "idle"}

ImplementsOwnedWork == Promise!OwnedSpec

(* A cancellation that finds a running Step is settled in the end, however   *)
(* its request, the end of the executor and the Activity, which may crash    *)
(* between any two transactions, interleave.                                 *)
CancelledRunSettles ==
  (CancelPending /\ \E s \in Steps : step[s].status = "running") ~> task.cancel = "settled"

(* Every requested cancellation is settled in the end. *)
CancellationSettles == CancelPending ~> task.cancel = "settled"

(* Every claim is decided in the end: no Step stays running. *)
ClaimsAreDecided ==
  \A s \in Steps : step[s].status = "running" ~> step[s].status # "running"

(* The owner is told: a Step of an active Task that stays blocked or failed  *)
(* is followed by an open attention item.                                    *)
OwnerIsTold ==
  \A s \in Steps :
    (Active /\ step[s].status \in {"blocked", "failed"}) ~>
      (~Active \/ attn # {} \/ step[s].status \notin {"blocked", "failed"})

(* A Task whose Steps have all succeeded is put up for review in the end. *)
SuccessIsReviewed ==
  (Active /\ \A s \in Steps : step[s].status = "succeeded") ~> (~Active \/ task.status = "REVIEW")
=============================================================================
