--------------------------- MODULE Continuations ---------------------------
(***************************************************************************)
(* Continuation schedules: a bounded timer that wakes a durable Task.  The *)
(* schedule, its occurrences and their deliveries are rows of the store;   *)
(* a Temporal workflow sleeps until the next due time and runs the         *)
(* Activity that fires what is due and wakes the Task.                     *)
(*                                                                         *)
(* One schedule of one Task.  The server schedules, reschedules and        *)
(* cancels it and then calls the runtime, which may not be reached.  An    *)
(* execution of the Activity may time out and go on beside its successor.  *)
(***************************************************************************)
EXTENDS Naturals, FiniteSets

CONSTANTS
  End,             \* cadence.endAt; the clock stops after it, for all later times
  MaxOccurrences,  \* cadence.maxOccurrences; the interval is 1
  MaxMutations,    \* bound: reschedules, cancellations and the end of the Task
  TimerFaults,     \* bound: lost calls, failed wakes, timeouts and restarts
  Advances         \* the executions of advanceContinuation that may overlap

ASSUME ContinuationsAssumption ==
  End \in Nat /\ MaxOccurrences \in Nat \ {0} /\ MaxMutations \in Nat /\ TimerFaults \in Nat

VARIABLES
  clock,
  schedule,    \* durable_continuation_schedules
  delivery,    \* durable_continuation_deliveries.status by ordinal
  woken,       \* occurrences after which the Task was woken
  target,      \* whether the Task may still be woken: "open" or "closed"
  timer,       \* the workflow: its state, wake flag and the time it waits for
  advance,     \* the executions of the Activity
  call,        \* what the server still has to ask of the runtime
  mutations, faults

timerVars == <<clock, schedule, delivery, woken, target, timer, advance, call, mutations, faults>>

Occurrences == 1..MaxOccurrences
NoAdvance   == [pc |-> "idle", now |-> 0, seen |-> [st |-> "none", due |-> 0, gen |-> 0],
                todo |-> {}, retry |-> FALSE]
NotWaiting  == 0
Open        == {o \in Occurrences : delivery[o] = "pending"}

ContinuationsInit ==
  /\ clock = 0
  /\ schedule = [st |-> "none", due |-> 0, count |-> 0, gen |-> 0]
  /\ delivery = [o \in Occurrences |-> "none"] /\ woken = {} /\ target = "open"
  /\ timer = [st |-> "none", wake |-> FALSE, at |-> NotWaiting, by |-> "none"]
  /\ advance = [p \in Advances |-> NoAdvance]
  /\ call = "none" /\ mutations = 0 /\ faults = 0

Fault == faults < TimerFaults /\ faults' = faults + 1

(***************************************************************************)
(* The server: scheduleTask, rescheduleTask, cancelFutureTask.             *)
(***************************************************************************)
ScheduleTask ==
  /\ schedule.st = "none" /\ target = "open"
  /\ \E due \in clock..End :
       schedule' = [st |-> "active", due |-> due, count |-> 0, gen |-> 1]
  /\ call' = "runtime"
  /\ UNCHANGED <<clock, delivery, woken, target, timer, advance, mutations, faults>>

Mutate(st, due) ==
  /\ schedule.st = "active" /\ mutations < MaxMutations /\ mutations' = mutations + 1
  /\ schedule' = [schedule EXCEPT !.st = st, !.due = due, !.gen = @ + 1]
  /\ call' = "runtime"
  /\ UNCHANGED <<clock, delivery, woken, target, timer, advance, faults>>

RescheduleTask   == \E due \in clock..End : Mutate("active", due)
CancelFutureTask == Mutate("cancelled", schedule.due)

(* TemporalContinuationCoordinator.start: wake the workflow if it runs,    *)
(* start it otherwise; nothing if there is nothing left to fire or deliver.*)
Ensured(w) ==
  IF w.st = "running" THEN [w EXCEPT !.wake = TRUE]
  ELSE IF schedule.st = "active" \/ Open # {}
  THEN [st |-> "running", wake |-> FALSE, at |-> NotWaiting, by |-> "none"]
  ELSE w

(* Mutant: a call that failed is not made up for. *)
CallOrForget ==
  /\ call # "none" /\ call' = "none"
  /\ \/ timer' = Ensured(timer) /\ UNCHANGED faults
     \/ Fault /\ UNCHANGED timer
  /\ UNCHANGED <<clock, schedule, delivery, woken, target, advance, mutations>>

(* A call that fails has the reconciliation run, 30 seconds later.          *)
CallRuntime ==
  /\ call # "none"
  /\ \/ timer' = Ensured(timer) /\ call' = "none" /\ UNCHANGED faults
     \/ Fault /\ call' = "recover" /\ UNCHANGED timer
  /\ UNCHANGED <<clock, schedule, delivery, woken, target, advance, mutations>>

(* The server restarts, and reconciles the recoverable schedules. *)
ServerRestartRecovers ==
  /\ Fault /\ call' = "recover"
  /\ UNCHANGED <<clock, schedule, delivery, woken, target, timer, advance, mutations>>

(***************************************************************************)
(* The workflow.                                                           *)
(***************************************************************************)
RunActivity(p) ==
  /\ timer.st = "running" /\ timer.by = "none" /\ advance[p].pc = "idle"
  /\ timer.wake \/ timer.at <= clock \/ clock > End
  /\ timer' = [timer EXCEPT !.by = p, !.at = NotWaiting,
                            !.wake = IF timer.at = NotWaiting THEN @ ELSE FALSE]
  /\ advance' = [advance EXCEPT ![p] = [NoAdvance EXCEPT !.pc = "load"]]
  /\ UNCHANGED <<clock, schedule, delivery, woken, target, call, mutations, faults>>

(* It dies, or passes its minute and goes on; there are fewer faults than   *)
(* the five tries it has.                                                   *)
ActivityTimesOut(p) ==
  /\ timer.by = p /\ Fault
  /\ timer' = [timer EXCEPT !.by = "none"]
  /\ advance' \in {advance, [advance EXCEPT ![p] = NoAdvance]}
  /\ UNCHANGED <<clock, schedule, delivery, woken, target, call, mutations>>

(***************************************************************************)
(* One execution of advanceContinuation.                                   *)
(***************************************************************************)
Seen == [st |-> schedule.st, due |-> schedule.due, gen |-> schedule.gen]
Local(p, a) == advance' = [advance EXCEPT ![p] = a]

LoadSchedule(p) ==
  /\ advance[p].pc = "load"
  /\ IF schedule.st = "active" /\ schedule.due <= clock
     THEN Local(p, [advance[p] EXCEPT !.pc = "fire", !.now = clock, !.seen = Seen])
     ELSE Local(p, [advance[p] EXCEPT !.pc = "list", !.seen = [Seen EXCEPT !.gen = 0]])
  /\ UNCHANGED <<clock, schedule, delivery, woken, target, timer, call, mutations, faults>>

(* Mutant: the time that was due is fired, whatever has become of it. *)
FiresAnyway(a) == schedule.st = "active" /\ schedule.count < MaxOccurrences
FiresFor(a) == schedule.st = "active" /\ schedule.gen = a.seen.gen /\ schedule.due <= a.now

(* fireDue: the occurrence, its delivery and the next due time at once.    *)
FireDue(p) ==
  LET a == advance[p]
      o == schedule.count + 1
      goesOn == o < MaxOccurrences /\ schedule.due + 1 <= End
  IN
  /\ a.pc = "fire"
  /\ IF FiresFor(a)
     THEN /\ schedule' = [schedule EXCEPT !.count = o, !.st = IF goesOn THEN @ ELSE "completed",
                                          !.due = IF goesOn THEN @ + 1 ELSE @]
          /\ delivery' = [delivery EXCEPT ![o] = "pending"]
     ELSE UNCHANGED <<schedule, delivery>>
  /\ Local(p, [a EXCEPT !.pc = "list", !.now = 0, !.seen.st = schedule'.st,
                        !.seen.due = schedule'.due, !.seen.gen = 0])
  /\ UNCHANGED <<clock, woken, target, timer, call, mutations, faults>>

ListPending(p) ==
  /\ advance[p].pc = "list"
  /\ Local(p, [advance[p] EXCEPT !.pc = "deliver", !.todo = Open])
  /\ UNCHANGED <<clock, schedule, delivery, woken, target, timer, call, mutations, faults>>

(* The Task is read, then woken; a Task that is over needs no wake.        *)
WakeTask(p) ==
  /\ advance[p].pc = "deliver" /\ advance[p].todo # {}
  /\ \/ /\ target = "closed" \/ timer.st # "none"
        /\ woken' = IF target = "open"
                    THEN woken \cup {CHOOSE o \in advance[p].todo :
                                       \A q \in advance[p].todo : o <= q} ELSE woken
        /\ Local(p, [advance[p] EXCEPT !.pc = "ack"]) /\ UNCHANGED faults
     \/ /\ target = "open" /\ Fault
        /\ Local(p, [advance[p] EXCEPT !.retry = TRUE,
             !.todo = @ \ {CHOOSE o \in @ : \A q \in @ : o <= q}])
        /\ UNCHANGED woken
  /\ UNCHANGED <<clock, schedule, delivery, target, timer, call, mutations>>

Acknowledge(p) ==
  LET o == CHOOSE o \in advance[p].todo : \A q \in advance[p].todo : o <= q IN
  /\ advance[p].pc = "ack"
  /\ delivery' = IF delivery[o] = "pending" THEN [delivery EXCEPT ![o] = "acknowledged"] ELSE delivery
  /\ Local(p, [advance[p] EXCEPT !.pc = "deliver", !.todo = @ \ {o}])
  /\ UNCHANGED <<clock, schedule, woken, target, timer, call, mutations, faults>>

(* What the workflow is told: decided by what was read at the beginning,   *)
(* and by whether anything is pending now.                                 *)
Told(a) ==
  IF a.retry THEN [timer EXCEPT !.by = "none", !.at = clock + 1]
  ELSE IF Open # {} THEN [timer EXCEPT !.by = "none"]
  ELSE IF a.seen.st # "active" THEN [timer EXCEPT !.st = "done", !.by = "none", !.wake = FALSE]
  ELSE [timer EXCEPT !.by = "none", !.at = IF a.seen.due > clock THEN a.seen.due ELSE NotWaiting]

ActivityReturns(p) ==
  /\ advance[p].pc = "deliver" /\ advance[p].todo = {}
  /\ Local(p, NoAdvance)
  /\ timer' = IF timer.by = p THEN Told(advance[p]) ELSE timer
  /\ UNCHANGED <<clock, schedule, delivery, woken, target, call, mutations, faults>>

Tick == clock <= End /\ clock' = clock + 1
        /\ UNCHANGED <<schedule, delivery, woken, target, timer, advance, call, mutations, faults>>
TaskCloses == target = "open" /\ target' = "closed"
        /\ mutations < MaxMutations /\ mutations' = mutations + 1
        /\ UNCHANGED <<clock, schedule, delivery, woken, timer, advance, call, faults>>

ActivityStep(p) ==
  \/ LoadSchedule(p) \/ FireDue(p) \/ ListPending(p) \/ WakeTask(p) \/ Acknowledge(p)
  \/ ActivityReturns(p)

ContinuationsNext ==
  \/ ScheduleTask \/ RescheduleTask \/ CancelFutureTask \/ CallRuntime
  \/ ServerRestartRecovers \/ Tick \/ TaskCloses
  \/ \E p \in Advances : RunActivity(p) \/ ActivityTimesOut(p) \/ ActivityStep(p)

(* Time passes, the reconciliation runs, Temporal starts the Activity, and *)
(* the execution it waits for goes on.                                     *)
RunSomeActivity == \E p \in Advances : RunActivity(p)
ContinuationsFairness ==
  /\ WF_timerVars(Tick) /\ WF_timerVars(CallRuntime) /\ WF_timerVars(RunSomeActivity)
  /\ \A p \in Advances : WF_timerVars(ActivityStep(p))
ContinuationsSpec == ContinuationsInit /\ [][ContinuationsNext]_timerVars /\ ContinuationsFairness

(* No time is fired that has not come or is no longer the schedule's, not  *)
(* by an execution that remembers the schedule as it was; and an occurrence *)
(* is given up only when the Task was woken for it or is over.             *)
OccurrencesAreTrue ==
  [][ /\ schedule'.count > schedule.count => schedule.st = "active" /\ schedule.due <= clock
      /\ \A o \in Occurrences :
           delivery'[o] = "acknowledged" => o \in woken \/ target = "closed" ]_timerVars

(* A due time is fired or moved, and what was fired wakes the Task, however *)
(* the runtime fails: a lost call is made up for, a rescheduled timer does  *)
(* not sleep through its new time, and an old wait does not end the timer.  *)
Overdue == (schedule.st = "active" /\ schedule.due <= clock) \/ Open # {}
DueTimesWake == Overdue ~> ~Overdue
=============================================================================
