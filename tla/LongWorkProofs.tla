--------------------------- MODULE LongWorkProofs ---------------------------
(***************************************************************************)
(* The driven Task: the workflow, any number of executions of its Activity,*)
(* RunService and the owner only ever do to the store what the store       *)
(* allows, so it keeps all its promises; and what an execution decides from *)
(* memory it decides rightly.                                              *)
(***************************************************************************)
EXTENDS LongWork, LongWorkStoreProofs, WellFoundedInduction

(* The first of some Steps is one of them. *)
LEMMA FirstIsMember == ASSUME NEW S \in SUBSET Steps, S # {} PROVE First(S) \in S
<1> DEFINE Less == OpToRel(<, Nat)
<1>1. Less = {ss \in Nat \X Nat : ss[1] < ss[2]}
  BY DEF OpToRel
<1>2. IsWellFoundedOn(Less, Nat)
  BY NatLessThanWellFounded
<1> HIDE DEF Less
<1>3. S \subseteq Nat
  BY LongWorkAssumption
<1>4. \E x \in S : \A y \in S : ~(<<y, x>> \in Less)
  BY <1>2, <1>3, WFMin
<1>5. \E x \in S : \A y \in S : x <= y
  <2>1. PICK x \in S : \A y \in S : ~(<<y, x>> \in Less)
    BY <1>4
  <2>2. ASSUME NEW y \in S PROVE x <= y
    <3>1. x \in Nat /\ y \in Nat /\ ~(<<y, x>> \in Less)
      BY <1>3, <2>1
    <3>2. ~(y < x)
      BY <1>1, <3>1
    <3> QED
      BY <3>1, <3>2
  <2> QED
    BY <2>2
<1> QED
  BY <1>5 DEF First

(***************************************************************************)
(* What an execution remembers.                                            *)
(***************************************************************************)
Pcs == {"idle", "cancel", "fire", "schedule", "observe", "run", "renew", "create", "recheck",
        "settle", "claim", "timer", "again", "stop"}
Looking == {"cancel", "schedule", "observe", "run", "renew", "claim", "timer"}
Holding == {"run", "renew", "create", "recheck", "settle", "stop"}
Views   == [Steps -> [status : StepStatus, version : Nat]]
Stored  == Views \cup {<<>>}
Executions ==
  [pc : Pcs, view : Stored, todo : SUBSET Steps, can : SUBSET Steps, s : Steps \cup {None},
   a : Attempts \cup {None}, sv : Nat, lv : Nat,
   seen : {"none", "live", "absent", "error", "added"} \cup RunClosed, pend : BOOLEAN]

Sane(c) ==
  /\ c \in Executions
  /\ c.pc \in Looking => c.view \in Views
  /\ c.pc \in Holding \cup {"fire", "timer"} => c.s \in Steps
  /\ c.pc \in Holding => c.a \in Attempts

MemoryOK == act \in [Procs -> Executions] /\ \A p \in Procs : Sane(act[p])

(* p goes on with c. *)
GoesOn(p, c) == act' = [act EXCEPT ![p] = c] /\ Sane(c)

(* What an execution learns of a Run, it learns when it looks, and carries *)
(* it from the renewal of its lease to the settlement.                     *)
Learnt(p, c) ==
  c.pc \in {"renew", "settle"} =>
    /\ run' = run
    /\ c.seen \in RunClosed \cup {"absent"} =>
         \/ c.seen = IF run[c.a] = "none" THEN "absent" ELSE run[c.a]
         \/ act[p].pc = "renew" /\ c.a = act[p].a /\ c.seen = act[p].seen

LEMMA IdleIsSane == Sane(Idle) /\ Idle.pc = "idle"
  BY DEF Sane, Idle, Executions, Pcs, Stored, Looking, Holding

LEMMA ViewsAreSane ==
  ASSUME TypeOK
  PROVE  /\ ListSteps \in Views
         /\ \A v \in Views, s \in Steps, to \in StepStatus :
              /\ v[s].version \in Nat
              /\ [v EXCEPT ![s] = [status |-> to, version |-> @.version + 1]] \in Views
  BY DEF TypeOK, ListSteps, Views

(* An execution that ends is idle, and has learnt nothing. *)
LEMMA EndIsSane ==
  ASSUME MemoryOK, NEW p \in Procs, act' = [act EXCEPT ![p] = Idle]
  PROVE  \E c : GoesOn(p, c) /\ Learnt(p, c)
<1>1. GoesOn(p, Idle) /\ Learnt(p, Idle)
  BY IdleIsSane DEF GoesOn, Learnt
<1> QED
  BY <1>1

LEMMA PastIsSane ==
  ASSUME NEW c \in Executions, NEW pend \in BOOLEAN
  PROVE  /\ Past(c, pend) \in Executions
         /\ Past(c, pend).pc = IF c.pc = "cancel" THEN "cancel" ELSE "observe"
         /\ Past(c, pend).view = c.view
<1> DEFINE pc   == IF c.pc = "cancel" THEN "cancel" ELSE "observe"
           todo == c.todo \ {First(c.todo)}
           more == c.pend \/ pend
           past == [Idle EXCEPT !.pc = pc, !.view = c.view, !.todo = todo, !.can = c.can, !.pend = more]
<1>1. pc \in Pcs
  BY DEF Pcs
<1>2. todo \in SUBSET Steps
  BY DEF Executions
<1>3. more \in BOOLEAN
  OBVIOUS
<1>4. Past(c, pend) = past
  BY Zenon DEF Past
<1> HIDE DEF pc, todo, more
<1>5. past \in Executions
  BY <1>1, <1>2, <1>3 DEF Executions, Pcs, Idle, Stored
<1>6. past.pc = pc
  BY DEF Idle
<1>7. past.view = c.view
  BY DEF Idle
<1> HIDE DEF past
<1> QED
  BY <1>4, <1>5, <1>6, <1>7 DEF pc

LEMMA SkipIsSane ==
  ASSUME MemoryOK, NEW p \in Procs, NEW pend \in BOOLEAN,
         act[p].pc \in {"cancel", "observe", "run", "renew"},
         act' = [act EXCEPT ![p] = Past(act[p], pend)]
  PROVE  \E c : GoesOn(p, c) /\ Learnt(p, c)
<1>1. Sane(act[p]) /\ act[p] \in Executions /\ act[p].view \in Views
  BY DEF MemoryOK, Sane, Looking
<1>2. /\ Past(act[p], pend) \in Executions
      /\ Past(act[p], pend).pc \in {"cancel", "observe"}
      /\ Past(act[p], pend).view \in Views
  BY <1>1, PastIsSane
<1>3. GoesOn(p, Past(act[p], pend)) /\ Learnt(p, Past(act[p], pend))
  BY <1>2 DEF GoesOn, Learnt, Sane, Looking, Holding
<1> QED
  BY <1>3
(* Every step of an execution leaves it with a sound memory. *)
LEMMA BeginRemembers ==
  ASSUME TypeOK, MemoryOK, NEW p \in Procs, Begin(p)
  PROVE  \E c : GoesOn(p, c) /\ Learnt(p, c)
<1> DEFINE cancel == [Idle EXCEPT !.pc = "cancel", !.view = ListSteps, !.todo = Steps]
           schedule == [Idle EXCEPT !.pc = "schedule", !.view = ListSteps]
<1>1. ListSteps \in Views
  BY ViewsAreSane
<1>2. Sane(cancel) /\ cancel.pc = "cancel"
  BY <1>1 DEF Sane, Idle, Executions, Pcs, Stored, Looking, Holding
<1>3. Sane(schedule) /\ schedule.pc = "schedule"
  BY <1>1 DEF Sane, Idle, Executions, Pcs, Stored, Looking, Holding
<1>4. ASSUME NEW s \in Steps,
             act' = [act EXCEPT ![p] = [Idle EXCEPT !.pc = "fire", !.s = s, !.sv = step[s].version]]
      PROVE  \E c : GoesOn(p, c) /\ Learnt(p, c)
  <2> DEFINE fire == [Idle EXCEPT !.pc = "fire", !.s = s, !.sv = step[s].version]
  <2>1. step[s].version \in Nat
    BY DEF TypeOK
  <2>2. Sane(fire) /\ fire.pc = "fire"
    BY <2>1 DEF Sane, Idle, Executions, Pcs, Stored, Looking, Holding
  <2> HIDE DEF fire
  <2>3. GoesOn(p, fire) /\ Learnt(p, fire)
    BY <1>4, <2>2 DEF GoesOn, Learnt, fire
  <2> QED
    BY <2>3
<1>5. CASE UNCHANGED act
  <2>1. act[p].pc = "idle" /\ Sane(act[p]) /\ act' = [act EXCEPT ![p] = act[p]]
    BY <1>5 DEF Begin, At, MemoryOK
  <2>2. GoesOn(p, act[p]) /\ Learnt(p, act[p])
    BY <2>1 DEF GoesOn, Learnt
  <2> QED
    BY <2>2
<1>6. CASE act' = [act EXCEPT ![p] = cancel]
  <2> HIDE DEF cancel
  <2>1. GoesOn(p, cancel) /\ Learnt(p, cancel)
    BY <1>2, <1>6 DEF GoesOn, Learnt
  <2> QED
    BY <2>1
<1>7. CASE act' = [act EXCEPT ![p] = schedule]
  <2> HIDE DEF schedule
  <2>1. GoesOn(p, schedule) /\ Learnt(p, schedule)
    BY <1>3, <1>7 DEF GoesOn, Learnt
  <2> QED
    BY <2>1
<1> QED
  BY <1>4, <1>5, <1>6, <1>7 DEF Begin, DueWaits

(* The moves of the scheduler are moves of Steps of the graph. *)
LEMMA MovesAreOfSteps ==
  ASSUME NEW p \in Procs, NEW m \in ScheduledMoves(p)
  PROVE  m[1] \in Steps
<1>1. Graph.steps = Steps
  BY DEF Graph
<1>2. ASSUME NEW st, NEW t \in Transitions(Graph, st) PROVE t[1] \in Steps
  <2>1. Admitted(Graph, st, EffectiveStatus(Graph, st)) \subseteq Steps
    BY <1>1 DEF Admitted, Earliest, Eligible, InStatus
  <2>2. InStatus(Graph, st, {"pending", "ready"}) \subseteq Steps
    BY <1>1 DEF InStatus
  <2> QED
    BY <1>2, <2>1, <2>2 DEF Transitions
<1>3. \A t \in Proposed(Graph, Seen(p)) : t[1] \in Steps
  BY <1>2 DEF Proposed
<1>4. OpenJoins(Graph, Seen(p), Joins) \subseteq Steps
  BY DEF OpenJoins, Joins
<1>5. \/ m \in Proposed(Graph, Seen(p))
      \/ \E s \in OpenJoins(Graph, Seen(p), Joins) :
           m = <<s, IF Seen(p)[s] = "ready" THEN "running" ELSE "succeeded">>
  BY DEF ScheduledMoves
<1> QED
  BY <1>3, <1>4, <1>5
LEMMA RunnableAreSteps ==
  ASSUME NEW p \in Procs PROVE ToRun(Graph, Seen(p)) \subseteq Steps
<1>1. Graph.steps = Steps
  BY DEF Graph
<1>2. ASSUME NEW st PROVE Runnable(Graph, st) \subseteq Steps
  BY <1>1 DEF Runnable, Earliest, Eligible, Admitted, InStatus
<1> QED
  BY <1>2 DEF ToRun

LEMMA ScheduleRemembers ==
  ASSUME TypeOK, MemoryOK, NEW p \in Procs, Schedule(p)
  PROVE  \E c : GoesOn(p, c) /\ Learnt(p, c)
<1>1. act[p] \in Executions /\ act[p].pc = "schedule" /\ act[p].view \in Views
  BY DEF MemoryOK, Sane, Looking, Schedule, At
<1>2. ASSUME NEW m \in ScheduledMoves(p), Moves(p, m[1], Seen(p)[m[1]], m[2]),
             act' = [act EXCEPT ![p].view = ViewAfter(p, m[1], m[2])]
      PROVE  \E c : GoesOn(p, c) /\ Learnt(p, c)
  <2> DEFINE view == ViewAfter(p, m[1], m[2])
  <2>1. m[1] \in Steps
    BY MovesAreOfSteps
  <2>2. m[2] \in StepStatus
    BY <1>2 DEF Moves, TransitionStep, Requestable, StepStatus
  <2>3. view \in Views
    BY <1>1, <2>1, <2>2, ViewsAreSane DEF ViewAfter
  <2> HIDE DEF view
  <2> DEFINE new == [act[p] EXCEPT !.view = view]
  <2>4. new \in Executions /\ new.pc = "schedule" /\ new.view = view
    BY <1>1, <2>3 DEF Executions, Stored
  <2>5. act' = [act EXCEPT ![p] = new]
    BY <1>2 DEF view
  <2> HIDE DEF new
  <2>6. GoesOn(p, new) /\ Learnt(p, new)
    BY <2>3, <2>4, <2>5 DEF GoesOn, Learnt, Sane, Holding
  <2> QED
    BY <2>6
<1>3. ASSUME NEW can \in SUBSET Steps, NEW todo \in SUBSET Steps,
             act' = [act EXCEPT ![p] = [act[p] EXCEPT !.pc = "observe", !.view = ListSteps,
                                                     !.can = can, !.todo = todo]]
      PROVE  \E c : GoesOn(p, c) /\ Learnt(p, c)
  <2> DEFINE new == [act[p] EXCEPT !.pc = "observe", !.view = ListSteps, !.can = can, !.todo = todo]
  <2>1. ListSteps \in Views
    BY ViewsAreSane
  <2>2. new \in Executions
    BY <1>1, <2>1 DEF Executions, Stored, Pcs
  <2>3. new.pc = "observe"
    BY <1>1 DEF Executions
  <2>4. new.view = ListSteps
    BY <1>1 DEF Executions
  <2>5. act' = [act EXCEPT ![p] = new]
    BY <1>3
  <2> HIDE DEF new
  <2>6. GoesOn(p, new) /\ Learnt(p, new)
    BY <2>1, <2>2, <2>3, <2>4, <2>5 DEF GoesOn, Learnt, Sane, Holding
  <2> QED
    BY <2>6
<1> QED
  <2>1. ToRun(Graph, Seen(p)) \in SUBSET Steps
    BY RunnableAreSteps
  <2>2. {s \in Steps : /\ step[s].status \in {"running", "blocked"}
                       /\ Kind[s] \in RunKinds \cup {"timer"}} \in SUBSET Steps
    OBVIOUS
  <2> QED
    BY <1>2, <1>3, <2>1, <2>2 DEF Schedule, Think

(* An execution that goes on without having looked at a Run. *)
LEMMA OtherwiseSane ==
  ASSUME NEW p \in Procs, NEW new, Sane(new), new.pc \notin {"renew", "settle"},
         act' = [act EXCEPT ![p] = new]
  PROVE  \E c : GoesOn(p, c) /\ Learnt(p, c)
<1>1. GoesOn(p, new) /\ Learnt(p, new)
  BY DEF GoesOn, Learnt
<1> QED
  BY <1>1

LEMMA AgainRemembers ==
  ASSUME MemoryOK, NEW p \in Procs, act' = [act EXCEPT ![p].pc = "again"]
  PROVE  \E c : GoesOn(p, c) /\ Learnt(p, c)
<1> DEFINE new == [act[p] EXCEPT !.pc = "again"]
<1>1. act[p] \in Executions
  BY DEF MemoryOK, Sane
<1>2. new \in Executions /\ new.pc = "again"
  BY <1>1 DEF Executions, Pcs
<1>3. act' = [act EXCEPT ![p] = new]
  OBVIOUS
<1> HIDE DEF new
<1>4. Sane(new)
  BY <1>2 DEF Sane, Looking, Holding
<1> QED
  BY <1>2, <1>3, <1>4, OtherwiseSane

LEMMA ObserveRemembers ==
  ASSUME TypeOK, MemoryOK, NEW p \in Procs, Observe(p)
  PROVE  \E c : GoesOn(p, c) /\ Learnt(p, c)
<1>1. act[p] \in Executions /\ act[p].pc = "observe" /\ act[p].view \in Views
  BY DEF MemoryOK, Sane, Looking, Observe, At
<1>2. CASE act[p].todo = {}
  <2> DEFINE new == [act[p] EXCEPT !.pc = "claim", !.todo = act[p].can, !.can = {}]
  <2>1. new \in Executions
    BY <1>1 DEF Executions, Pcs
  <2>2. new.pc = "claim"
    BY <1>1 DEF Executions
  <2>3. new.view = act[p].view
    BY <1>1 DEF Executions
  <2>4. act' = [act EXCEPT ![p] = new]
    BY <1>2 DEF Observe, Think
  <2> HIDE DEF new
  <2>5. Sane(new)
    BY <1>1, <2>1, <2>2, <2>3 DEF Sane, Looking, Holding
  <2> QED
    BY <2>2, <2>4, <2>5, OtherwiseSane
<1>3. CASE act[p].todo # {}
  <2> DEFINE s == First(act[p].todo)
  <2>1. s \in Steps
    BY <1>1, <1>3, FirstIsMember DEF Executions
  <2> HIDE DEF s
  <2>2. CASE ObserveBlocked(p, s)
    <3>1. CASE \E pend \in BOOLEAN : Skip(p, pend)
      BY <1>1, <3>1, SkipIsSane DEF Skip, Think
    <3>2. CASE Continue(p)
      BY <3>2, EndIsSane DEF Continue, Return
    <3> QED
      BY <2>2, <3>1, <3>2 DEF ObserveBlocked
  <2>3. CASE ObserveTimer(p, s)
    BY <2>3, AgainRemembers DEF ObserveTimer
  <2>4. CASE ObserveRunning(p, s)
    <3>1. CASE Skip(p, FALSE)
      BY <1>1, <3>1, SkipIsSane DEF Skip, Think
    <3>2. ASSUME NEW a \in Attempts,
                 act' = [act EXCEPT ![p] = [act[p] EXCEPT !.pc = "run", !.s = s, !.a = a,
                                      !.sv = act[p].view[s].version, !.lv = lease[a].version]]
          PROVE  \E c : GoesOn(p, c) /\ Learnt(p, c)
      <4> DEFINE sv == act[p].view[s].version
                 lv == lease[a].version
                 new == [act[p] EXCEPT !.pc = "run", !.s = s, !.a = a, !.sv = sv, !.lv = lv]
      <4>1. sv \in Nat /\ lv \in Nat
        BY <1>1, <2>1, ViewsAreSane DEF TypeOK, Views
      <4>2. act' = [act EXCEPT ![p] = new]
        BY <3>2
      <4> HIDE DEF sv, lv
      <4>3. new \in Executions
        BY <1>1, <2>1, <4>1 DEF Executions, Pcs
      <4>4. new.pc = "run" /\ new.view = act[p].view
        BY <1>1 DEF Executions
      <4>5. new.s = s /\ new.a = a
        BY <1>1 DEF Executions
      <4> HIDE DEF new
      <4>6. Sane(new)
        BY <1>1, <2>1, <4>3, <4>4, <4>5 DEF Sane, Looking, Holding
      <4> QED
        BY <4>2, <4>4, <4>6, OtherwiseSane
    <3> QED
      BY <2>4, <3>1, <3>2 DEF ObserveRunning, Owned, AttemptsOf, Think
  <2> QED
    BY <1>3, <2>2, <2>3, <2>4 DEF Observe, s
<1> QED
  BY <1>2, <1>3

LEMMA ReadRunRemembers ==
  ASSUME TypeOK, MemoryOK, NEW p \in Procs, ReadRun(p)
  PROVE  \E c : GoesOn(p, c) /\ Learnt(p, c)
<1>1. /\ act[p] \in Executions /\ act[p].pc = "run" /\ act[p].view \in Views
      /\ act[p].s \in Steps /\ act[p].a \in Attempts
  BY DEF MemoryOK, Sane, Looking, Holding, ReadRun, At
<1> DEFINE a == act[p].a
<1>2. ASSUME NEW lv \in Nat, NEW seen \in {"none", "live", "absent", "error"} \cup RunClosed,
             seen \in RunClosed \cup {"absent"} =>
               seen = IF run[a] = "none" THEN "absent" ELSE run[a],
             run' = run,
             act' = [act EXCEPT ![p] = [act[p] EXCEPT !.pc = "renew", !.lv = lv, !.seen = seen]]
      PROVE  \E c : GoesOn(p, c) /\ Learnt(p, c)
  <2> DEFINE new == [act[p] EXCEPT !.pc = "renew", !.lv = lv, !.seen = seen]
  <2>1. new \in Executions
    BY <1>1 DEF Executions, Pcs
  <2>2. new.pc = "renew" /\ new.view = act[p].view
    BY <1>1 DEF Executions
  <2>3. new.s = act[p].s /\ new.a = a /\ new.seen = seen
    BY <1>1 DEF Executions
  <2>4. act' = [act EXCEPT ![p] = new]
    BY <1>2
  <2> HIDE DEF new
  <2>5. Sane(new)
    BY <1>1, <2>1, <2>2, <2>3 DEF Sane, Looking, Holding
  <2>6. GoesOn(p, new) /\ Learnt(p, new)
    BY <1>2, <2>3, <2>4, <2>5 DEF GoesOn, Learnt
  <2> QED
    BY <2>6
<1>3. run' = run \/ Skip(p, TRUE)
  BY DEF ReadRun, Think, storeVars
<1>4. CASE Skip(p, TRUE)
  BY <1>1, <1>4, SkipIsSane DEF Skip, Think
<1>5. CASE Think(p, [act[p] EXCEPT !.pc = "renew", !.seen = "error"])
  <2>1. [act[p] EXCEPT !.pc = "renew", !.seen = "error"]
          = [act[p] EXCEPT !.pc = "renew", !.lv = act[p].lv, !.seen = "error"]
    BY <1>1 DEF Executions
  <2>2. act[p].lv \in Nat
    BY <1>1 DEF Executions
  <2> QED
    BY <1>2, <1>5, <2>1, <2>2 DEF Think, storeVars, RunClosed
<1>6. CASE run[a] = "none" /\ Think(p, [act[p] EXCEPT !.pc = "renew",
                                                    !.seen = IF granted THEN run[a] ELSE "absent"])
  <2> DEFINE seen == IF granted THEN run[a] ELSE "absent"
  <2>1. /\ seen \in {"none", "live", "absent", "error"} \cup RunClosed
        /\ seen \in RunClosed \cup {"absent"} => seen = IF run[a] = "none" THEN "absent" ELSE run[a]
    BY <1>6 DEF RunClosed
  <2>2. act' = [act EXCEPT ![p] = [act[p] EXCEPT !.pc = "renew", !.seen = seen]] /\ run' = run
    BY <1>6 DEF Think, storeVars
  <2> HIDE DEF seen
  <2>3. [act[p] EXCEPT !.pc = "renew", !.seen = seen]
          = [act[p] EXCEPT !.pc = "renew", !.lv = act[p].lv, !.seen = seen]
    BY <1>1 DEF Executions
  <2>4. act[p].lv \in Nat
    BY <1>1 DEF Executions
  <2> QED
    BY <1>2, <2>1, <2>2, <2>3, <2>4
<1>7. CASE run[a] # "none" /\ Think(p, [act[p] EXCEPT !.pc = "renew", !.lv = lease[a].version,
                                       !.seen = IF run[a] \in RunLive THEN "live" ELSE run[a]])
  <2> DEFINE seen == IF run[a] \in RunLive THEN "live" ELSE run[a]
  <2>1. /\ seen \in {"none", "live", "absent", "error"} \cup RunClosed
        /\ seen \in RunClosed \cup {"absent"} => seen = IF run[a] = "none" THEN "absent" ELSE run[a]
    BY <1>1, <1>7 DEF RunClosed, RunLive, TypeOK
  <2>2. /\ act' = [act EXCEPT ![p] = [act[p] EXCEPT !.pc = "renew", !.lv = lease[a].version, !.seen = seen]]
        /\ run' = run
    BY <1>7 DEF Think, storeVars
  <2>3. lease[a].version \in Nat
    BY <1>1 DEF TypeOK
  <2> HIDE DEF seen
  <2> QED
    BY <1>2, <2>1, <2>2, <2>3
<1> QED
  BY <1>4, <1>5, <1>6, <1>7 DEF ReadRun

LEMMA WorkingIsSane ==
  ASSUME NEW c \in Executions, c.s \in Steps, c.a \in Attempts, NEW pc \in {"create", "settle"},
         NEW lv \in Nat
  PROVE  LET new == Working([c EXCEPT !.lv = lv], pc)
         IN  Sane(new) /\ new.pc = pc /\ new.a = c.a /\ new.seen = c.seen
<1> DEFINE d == [c EXCEPT !.lv = lv]
           new == Working(d, pc)
<1>1. d \in Executions /\ d.s = c.s /\ d.a = c.a /\ d.seen = c.seen
  BY DEF Executions
<1> HIDE DEF d
<1>2. d.s \in Steps /\ d.a \in Attempts /\ d.sv \in Nat /\ d.lv \in Nat
      /\ d.seen \in {"none", "live", "absent", "error", "added"} \cup RunClosed
  BY <1>1 DEF Executions
<1>3. new.pc = pc /\ new.s = d.s /\ new.a = d.a /\ new.seen = d.seen
  BY DEF Working, Idle
<1>4. new \in Executions
  BY <1>2 DEF Working, Idle, Executions, Pcs, Stored
<1> HIDE DEF new
<1>5. Sane(new)
  BY <1>2, <1>3, <1>4 DEF Sane, Looking, Holding
<1> QED
  BY <1>1, <1>3, <1>5 DEF new, d

LEMMA RenewRemembers ==
  ASSUME TypeOK, MemoryOK, NEW p \in Procs, Renew(p)
  PROVE  \E c : GoesOn(p, c) /\ Learnt(p, c)
<1>1. /\ act[p] \in Executions /\ act[p].pc = "renew" /\ act[p].view \in Views
      /\ act[p].s \in Steps /\ act[p].a \in Attempts
  BY DEF MemoryOK, Sane, Looking, Holding, Renew, At
<1> DEFINE lv == lease'[act[p].a].version
           next == [act[p] EXCEPT !.lv = lv]
<1>2. lv \in Nat /\ run' = run
  BY <1>1 DEF Renew, Heartbeat, TypeOK
<1>3. \/ act' = [act EXCEPT ![p] = Past(act[p], TRUE)]
      \/ \E pc \in {"create", "settle"} : act' = [act EXCEPT ![p] = Working(next, pc)]
  BY DEF Renew
<1> HIDE DEF lv
<1>4. ASSUME NEW pc \in {"create", "settle"}, act' = [act EXCEPT ![p] = Working(next, pc)]
      PROVE  \E c : GoesOn(p, c) /\ Learnt(p, c)
  <2> DEFINE new == Working(next, pc)
  <2>1. Sane(new) /\ new.pc = pc /\ new.a = act[p].a /\ new.seen = act[p].seen
    BY <1>1, <1>2, WorkingIsSane
  <2>2. act' = [act EXCEPT ![p] = new]
    BY <1>4
  <2> HIDE DEF new
  <2>3. GoesOn(p, new) /\ Learnt(p, new)
    BY <1>1, <1>2, <2>1, <2>2 DEF GoesOn, Learnt
  <2> QED
    BY <2>3
<1> QED
  BY <1>1, <1>3, <1>4, SkipIsSane

LEMMA CreateRunRemembers ==
  ASSUME TypeOK, MemoryOK, NEW p \in Procs, CreateRun(p)
  PROVE  \E c : GoesOn(p, c) /\ Learnt(p, c)
<1>1. /\ act[p] \in Executions /\ act[p].s \in Steps /\ act[p].a \in Attempts
  BY DEF MemoryOK, Sane, Holding, CreateRun, At
<1>2. CASE act' = [act EXCEPT ![p] = [act[p] EXCEPT !.pc = "recheck"]]
  <2> DEFINE new == [act[p] EXCEPT !.pc = "recheck"]
  <2>1. new \in Executions /\ new.pc = "recheck"
    BY <1>1 DEF Executions, Pcs
  <2>2. new.s = act[p].s /\ new.a = act[p].a
    BY <1>1 DEF Executions
  <2>3. act' = [act EXCEPT ![p] = new]
    BY <1>2
  <2> HIDE DEF new
  <2>4. Sane(new)
    BY <1>1, <2>1, <2>2 DEF Sane, Looking, Holding
  <2> QED
    BY <2>1, <2>3, <2>4, OtherwiseSane
<1>3. CASE Continue(p)
  BY <1>3, EndIsSane DEF Continue, Return
<1>4. \/ act' = [act EXCEPT ![p] = [act[p] EXCEPT !.pc = "recheck"]]
      \/ act' = [act EXCEPT ![p].pc = "recheck"]
      \/ Continue(p)
  BY DEF CreateRun, Think
<1> QED
  BY <1>2, <1>3, <1>4

LEMMA RecheckRemembers ==
  ASSUME TypeOK, MemoryOK, NEW p \in Procs, Recheck(p)
  PROVE  \E c : GoesOn(p, c) /\ Learnt(p, c)
<1>1. /\ act[p] \in Executions /\ act[p].s \in Steps /\ act[p].a \in Attempts
      /\ act[p].pc = "recheck"
  BY DEF MemoryOK, Sane, Holding, Recheck, At
<1>2. ASSUME NEW seen \in {"absent", "error"}, seen = "absent" => run[act[p].a] = "none",
             Think(p, [act[p] EXCEPT !.pc = "settle", !.seen = seen])
      PROVE  \E c : GoesOn(p, c) /\ Learnt(p, c)
  <2> DEFINE new == [act[p] EXCEPT !.pc = "settle", !.seen = seen]
  <2>1. new \in Executions /\ new.pc = "settle"
    BY <1>1 DEF Executions, Pcs
  <2>2. new.s = act[p].s /\ new.a = act[p].a /\ new.seen = seen
    BY <1>1 DEF Executions
  <2>3. act' = [act EXCEPT ![p] = new] /\ run' = run
    BY <1>2 DEF Think, storeVars
  <2> HIDE DEF new
  <2>4. Sane(new)
    BY <1>1, <2>1, <2>2 DEF Sane, Looking, Holding
  <2>5. GoesOn(p, new) /\ Learnt(p, new)
    BY <1>2, <2>2, <2>3, <2>4 DEF GoesOn, Learnt, RunClosed
  <2> QED
    BY <2>5
<1>3. CASE Continue(p)
  BY <1>3, EndIsSane DEF Continue, Return
<1> QED
  BY <1>2, <1>3 DEF Recheck

(* The Step to claim next is one of those left. *)
LEMMA NextIsLeft == ASSUME NEW p \in Procs PROVE NextClaim(p) \subseteq act[p].todo
  BY DEF NextClaim, Earliest

LEMMA ClaimRemembers ==
  ASSUME TypeOK, MemoryOK, NEW p \in Procs, Claim(p)
  PROVE  \E c : GoesOn(p, c) /\ Learnt(p, c)
<1>1. act[p] \in Executions /\ act[p].pc = "claim" /\ act[p].view \in Views
  BY DEF MemoryOK, Sane, Looking, Claim, At
<1>2. PICK s \in act[p].todo :
        \/ act' = [act EXCEPT ![p].pc = "again"]
        \/ \E a \in Attempts :
             act' = [act EXCEPT ![p] = [Idle EXCEPT !.pc = "create", !.s = s, !.a = a,
                                             !.sv = act[p].view[s].version + 1, !.lv = 1]]
        \/ act' = [act EXCEPT ![p] = Added(p, s)]
        \/ act' = [act EXCEPT ![p] = [Added(p, s) EXCEPT !.pc = "timer", !.s = s,
                                           !.sv = act[p].view[s].version + 1]]
  BY NextIsLeft DEF Claim
<1>3. s \in Steps
  BY <1>1 DEF Executions
<1> DEFINE sv == act[p].view[s].version + 1
           added == Added(p, s)
<1>4. sv \in Nat
  BY <1>1, <1>3 DEF Views
<1>5. added \in Executions /\ added.pc = "claim" /\ added.view = act[p].view
  <2> DEFINE todo == act[p].todo \ {s}
             new  == [act[p] EXCEPT !.todo = todo, !.seen = "added"]
  <2>1. todo \in SUBSET Steps
    BY <1>1 DEF Executions
  <2>2. added = new
    BY DEF Added
  <2> HIDE DEF todo
  <2>3. new \in Executions
    BY <1>1, <2>1 DEF Executions
  <2>4. new.pc = "claim" /\ new.view = act[p].view
    BY <1>1 DEF Executions
  <2> QED
    BY <2>2, <2>3, <2>4
<1>6. ASSUME NEW a \in Attempts,
             act' = [act EXCEPT ![p] = [Idle EXCEPT !.pc = "create", !.s = s, !.a = a, !.sv = sv, !.lv = 1]]
      PROVE  \E c : GoesOn(p, c) /\ Learnt(p, c)
  <2> HIDE DEF sv
  <2> DEFINE new == [Idle EXCEPT !.pc = "create", !.s = s, !.a = a, !.sv = sv, !.lv = 1]
  <2>1. new \in Executions
    BY <1>3, <1>4 DEF Executions, Pcs, Idle, Stored
  <2>2. new.pc = "create" /\ new.s = s /\ new.a = a
    BY DEF Idle
  <2>3. act' = [act EXCEPT ![p] = new]
    BY <1>6
  <2> HIDE DEF new
  <2>4. Sane(new)
    BY <1>3, <2>1, <2>2 DEF Sane, Looking, Holding
  <2> QED
    BY <2>2, <2>3, <2>4, OtherwiseSane
<1>7. CASE act' = [act EXCEPT ![p] = added]
  <2> HIDE DEF added
  <2>1. Sane(added)
    BY <1>1, <1>5 DEF Sane, Looking, Holding
  <2> QED
    BY <1>5, <1>7, <2>1, OtherwiseSane
<1>8. CASE act' = [act EXCEPT ![p] = [added EXCEPT !.pc = "timer", !.s = s, !.sv = sv]]
  <2> HIDE DEF added, sv
  <2> DEFINE new == [added EXCEPT !.pc = "timer", !.s = s, !.sv = sv]
  <2>1. new \in Executions
    BY <1>3, <1>4, <1>5 DEF Executions, Pcs
  <2>2. new.pc = "timer" /\ new.s = s /\ new.view = added.view
    BY <1>5 DEF Executions
  <2>3. act' = [act EXCEPT ![p] = new]
    BY <1>8
  <2> HIDE DEF new
  <2>4. Sane(new)
    BY <1>1, <1>3, <1>5, <2>1, <2>2 DEF Sane, Looking, Holding
  <2> QED
    BY <2>2, <2>3, <2>4, OtherwiseSane
<1> QED
  BY <1>2, <1>6, <1>7, <1>8, AgainRemembers

LEMMA FinishTimerRemembers ==
  ASSUME MemoryOK, NEW p \in Procs, FinishTimer(p)
  PROVE  \E c : GoesOn(p, c) /\ Learnt(p, c)
<1>1. act[p] \in Executions /\ act[p].pc = "timer" /\ act[p].view \in Views
  BY DEF MemoryOK, Sane, Looking, FinishTimer, At
<1> DEFINE new == [act[p] EXCEPT !.pc = "claim", !.s = None, !.sv = 0]
<1>2. new \in Executions /\ new.pc = "claim" /\ new.view = act[p].view
  BY <1>1 DEF Executions, Pcs
<1>3. act' = [act EXCEPT ![p] = new]
  BY DEF FinishTimer
<1> HIDE DEF new
<1>4. Sane(new)
  BY <1>1, <1>2 DEF Sane, Looking, Holding
<1> QED
  BY <1>2, <1>3, <1>4, OtherwiseSane

LEMMA CancelLoopRemembers ==
  ASSUME TypeOK, MemoryOK, NEW p \in Procs, CancelLoop(p)
  PROVE  \E c : GoesOn(p, c) /\ Learnt(p, c)
<1>1. act[p] \in Executions /\ act[p].pc = "cancel" /\ act[p].view \in Views
  BY DEF MemoryOK, Sane, Looking, CancelLoop, At
<1> DEFINE s == First(act[p].todo)
<1>2. s \in Steps
  BY <1>1, FirstIsMember DEF Executions, CancelLoop
<1>3. CASE act' = [act EXCEPT ![p].pc = "again"]
  BY <1>3, AgainRemembers
<1>4. CASE Continue(p)
  BY <1>4, EndIsSane DEF Continue, Return
<1>5. CASE \E pend \in BOOLEAN : act' = [act EXCEPT ![p] = Past(act[p], pend)]
  BY <1>1, <1>5, SkipIsSane
<1>6. ASSUME NEW a \in Attempts, Heartbeat(a, lease[a].version),
             act' = [act EXCEPT ![p] = [Idle EXCEPT !.pc = "stop", !.s = s, !.a = a,
                                 !.sv = act[p].view[s].version, !.lv = lease'[a].version]]
      PROVE  \E c : GoesOn(p, c) /\ Learnt(p, c)
  <2> HIDE DEF s
  <2> DEFINE sv == act[p].view[s].version
             lv == lease'[a].version
             new == [Idle EXCEPT !.pc = "stop", !.s = s, !.a = a, !.sv = sv, !.lv = lv]
  <2>1. sv \in Nat
    BY <1>1, <1>2 DEF Views
  <2>2. lv \in Nat
    BY <1>6 DEF Heartbeat, TypeOK
  <2>3. act' = [act EXCEPT ![p] = new]
    BY <1>6
  <2> HIDE DEF sv, lv
  <2>4. new \in Executions
    BY <1>2, <2>1, <2>2 DEF Executions, Pcs, Idle, Stored
  <2>5. new.pc = "stop" /\ new.s = s /\ new.a = a
    BY DEF Idle
  <2> HIDE DEF new
  <2>6. Sane(new)
    BY <1>2, <2>4, <2>5 DEF Sane, Looking, Holding
  <2> QED
    BY <2>3, <2>5, <2>6, OtherwiseSane
<1>7. ASSUME NEW a \in Owned(s, "active"), Heartbeat(a, lease[a].version),
             act' = [act EXCEPT ![p] =
               IF run[a] \in RunLive
               THEN Past(@, TRUE)
               ELSE [Idle EXCEPT !.pc = "stop", !.s = s, !.a = a,
                                 !.sv = act[p].view[s].version, !.lv = lease'[a].version]]
      PROVE  \E c : GoesOn(p, c) /\ Learnt(p, c)
  <2>1. CASE run[a] \in RunLive
    BY <1>1, <1>7, <2>1, SkipIsSane
  <2>2. CASE run[a] \notin RunLive
    <3>1. a \in Attempts
      BY DEF Owned, AttemptsOf
    <3> QED
      BY <1>6, <1>7, <2>2, <3>1
  <2> QED
    BY <2>1, <2>2
<1> QED
  BY <1>3, <1>4, <1>5, <1>7 DEF CancelLoop, Skip, Think

(* p takes a step with its memory sound, whatever it does. *)
LEMMA AdvanceRemembers ==
  ASSUME TypeOK, MemoryOK, NEW p \in Procs, Advance(p)
  PROVE  \E c : GoesOn(p, c) /\ Learnt(p, c)
<1>1. CASE act' = [act EXCEPT ![p] = Idle]
  BY <1>1, EndIsSane
<1>2. Fire(p) \/ Settle(p) \/ Again(p) \/ Conclude(p) \/ StopStep(p) \/ CancelConclude(p) \/ Refused(p)
        => act' = [act EXCEPT ![p] = Idle]
  BY DEF Fire, Settle, Again, Conclude, StopStep, CancelConclude, Refused, Continue, Return, Throw
<1> QED
  BY <1>1, <1>2, BeginRemembers, ScheduleRemembers, ObserveRemembers, ReadRunRemembers, RenewRemembers,
     CreateRunRemembers, RecheckRemembers, ClaimRemembers, FinishTimerRemembers, CancelLoopRemembers
     DEF Advance, Quiet

(***************************************************************************)
(* What a step does to the store: it leaves it alone, or is one call of it *)
(* with the versions that are current.  All calls but these are calm: the  *)
(* settlement of a claim from memory, the creation of a Run, and the moves *)
(* of a Run.                                                               *)
(***************************************************************************)
EndsOnEvidence ==
  \E s \in Steps, a \in Attempts :
    \/ ReconcileQuarantinedStep(s, a, step[s].version, lease[a].version)
    \/ SettleClaimedStepCancellation(s, a, step[s].version, lease[a].version)
    \/ SettleQuarantinedReadOnlyStepCancellation(s, a, step[s].version, lease[a].version)

ClaimNext ==
  \E a \in Attempts : Heartbeat(a, lease[a].version) \/ WriteClaimedCheckpoint(a) \/ LeaseExpires(a)

WholeTaskNext ==
  \/ MarkTaskReview \/ AcceptDurableTask
  \/ RequestDurableCancellation \/ SettleDurableCancellation \/ ChangeGrant

Calm == UNCHANGED storeVars \/ EndsOnEvidence \/ StepNext \/ ClaimNext \/ WholeTaskNext

LEMMA CalmIsStoreStep == Calm => [StoreNext]_storeVars
  BY DEF Calm, EndsOnEvidence, ClaimNext, WholeTaskNext, StoreNext, SettleNext, RunNext, TaskNext

LEMMA TransitionIsCalm ==
  ASSUME NEW s \in Steps, NEW sv, NEW from, NEW to, TransitionStep(s, sv, from, to)
  PROVE  Calm
<1>1. to \in StepStatus
  BY DEF TransitionStep, Requestable, StepStatus
<1>2. sv = step[s].version /\ from = step[s].status
  BY DEF TransitionStep
<1>3. TransitionStep(s, step[s].version, step[s].status, to)
  BY <1>2
<1>4. StepNext
  BY <1>1, <1>3 DEF StepNext
<1> QED
  BY <1>4 DEF Calm

(* An observed quarantine ends on evidence, a running timer completes.     *)
LEMMA ObserveIsCalm ==
  ASSUME MemoryOK, NEW p \in Procs, Observe(p)
  PROVE  Calm
<1>1. act[p] \in Executions
  BY DEF MemoryOK, Sane
<1>2. CASE UNCHANGED storeVars
  BY <1>2 DEF Calm
<1>3. CASE act[p].todo # {}
  <2> DEFINE s == First(act[p].todo)
  <2>1. s \in Steps
    BY <1>1, <1>3, FirstIsMember DEF Executions
  <2> HIDE DEF s
  <2>2. CASE ObserveBlocked(p, s)
    <3>1. ASSUME NEW a \in Owned(s, "quarantined"),
                 ReconcileQuarantinedStep(s, a, act[p].view[s].version, lease[a].version)
          PROVE  Calm
      <4>1. act[p].view[s].version = step[s].version
        BY <3>1 DEF ReconcileQuarantinedStep, ResolveQuarantinedRunStep,
                    ReconcileQuarantinedCheckpointStep, HoldsQuarantine
      <4>2. a \in Attempts
        BY DEF Owned, AttemptsOf
      <4>3. EndsOnEvidence
        BY <2>1, <3>1, <4>1, <4>2 DEF EndsOnEvidence
      <4> QED
        BY <4>3 DEF Calm
    <3>2. ASSUME NEW pend, Skip(p, pend) PROVE Calm
      BY <3>2 DEF Skip, Think, Calm
    <3> QED
      BY <2>2, <3>1, <3>2 DEF ObserveBlocked
  <2>3. CASE ObserveTimer(p, s)
    BY <2>1, <2>3, TransitionIsCalm DEF ObserveTimer, Moves
  <2>4. CASE ObserveRunning(p, s)
    BY <1>2, <2>4 DEF ObserveRunning, Skip, Think
  <2> QED
    BY <1>3, <2>2, <2>3, <2>4 DEF Observe, s
<1> QED
  BY <1>2, <1>3 DEF Observe, Think

LEMMA HeartbeatIsCalm ==
  ASSUME NEW a \in Attempts, NEW lv, Heartbeat(a, lv) PROVE Calm
<1>1. lv = lease[a].version
  BY DEF Heartbeat
<1>2. ClaimNext
  BY <1>1 DEF ClaimNext
<1> QED
  BY <1>2 DEF Calm

LEMMA ClaimIsCalm ==
  ASSUME MemoryOK, NEW p \in Procs, Claim(p)
  PROVE  Calm
<1>1. act[p] \in Executions
  BY DEF MemoryOK, Sane
<1>2. PICK s \in act[p].todo :
        \/ \E from, to : TransitionStep(s, act[p].view[s].version, from, to)
        \/ \E a \in Attempts : ClaimReadyStep(s, a, act[p].view[s].version)
        \/ CreateWait(s, act[p].view[s].version)
  BY NextIsLeft DEF Claim, Moves
<1>3. s \in Steps
  BY <1>1 DEF Executions
<1>4. CASE CreateWait(s, act[p].view[s].version)
  <2>1. act[p].view[s].version = step[s].version
    BY <1>4 DEF CreateWait
  <2>2. StepNext
    BY <1>3, <1>4, <2>1 DEF StepNext
  <2> QED
    BY <2>2 DEF Calm
<1>5. ASSUME NEW a \in Attempts, ClaimReadyStep(s, a, act[p].view[s].version)
      PROVE  Calm
  <2>1. act[p].view[s].version = step[s].version
    BY <1>5 DEF ClaimReadyStep
  <2>2. StepNext
    BY <1>3, <1>5, <2>1 DEF StepNext
  <2> QED
    BY <2>2 DEF Calm
<1> QED
  BY <1>2, <1>3, <1>4, <1>5, TransitionIsCalm

LEMMA ConcludeIsCalm ==
  ASSUME NEW p \in Procs, Conclude(p)
  PROVE  Calm
<1> DEFINE stuck == {s \in Steps : Seen(p)[s] \in {"blocked", "failed"}}
<1>1. CASE stuck # {} /\ MarkTaskNeedsAttention(First(stuck))
  <2>1. First(stuck) \in Steps
    BY <1>1, FirstIsMember
  <2> HIDE DEF stuck
  <2>2. StepNext
    BY <1>1, <2>1 DEF StepNext
  <2> QED
    BY <2>2 DEF Calm
<1>2. CASE MarkTaskReview
  BY <1>2 DEF Calm, WholeTaskNext
<1>3. CASE UNCHANGED storeVars
  BY <1>3 DEF Calm
<1> QED
  BY <1>1, <1>2, <1>3 DEF Conclude

LEMMA CancelLoopIsCalm ==
  ASSUME MemoryOK, NEW p \in Procs, CancelLoop(p)
  PROVE  Calm
<1> DEFINE s == First(act[p].todo)
           v == act[p].view[s]
<1>1. s \in Steps
  BY FirstIsMember DEF CancelLoop, MemoryOK, Sane, Executions
<1> HIDE DEF s
<1>2. CASE UNCHANGED storeVars
  BY <1>2 DEF Calm
<1>3. CASE Moves(p, s, "running", "cancelled")
  BY <1>1, <1>3, TransitionIsCalm DEF Moves
<1>4. ASSUME NEW a \in Owned(s, "quarantined"),
             SettleQuarantinedReadOnlyStepCancellation(s, a, v.version, lease[a].version)
      PROVE  Calm
  <2>1. v.version = step[s].version
    BY <1>4 DEF SettleQuarantinedReadOnlyStepCancellation, HoldsQuarantine
  <2>2. a \in Attempts
    BY DEF Owned, AttemptsOf
  <2>3. EndsOnEvidence
    BY <1>1, <1>4, <2>1, <2>2 DEF EndsOnEvidence
  <2> QED
    BY <2>3 DEF Calm
<1>5. ASSUME NEW a \in Owned(s, "active"), Heartbeat(a, lease[a].version)
      PROVE  Calm
  BY <1>5, HeartbeatIsCalm DEF Owned, AttemptsOf
<1> QED
  BY <1>2, <1>3, <1>4, <1>5 DEF CancelLoop, Skip, Think, s

LEMMA StopStepIsCalm ==
  ASSUME MemoryOK, NEW p \in Procs, StopStep(p)
  PROVE  Calm
<1>1. act[p].s \in Steps /\ act[p].a \in Attempts
  BY DEF StopStep, At, MemoryOK, Sane, Holding
<1>2. act[p].sv = step[act[p].s].version /\ act[p].lv = lease[act[p].a].version
  BY DEF StopStep, SettleClaimedStepCancellation, HoldsClaim
<1>3. EndsOnEvidence
  BY <1>1, <1>2 DEF StopStep, EndsOnEvidence
<1> QED
  BY <1>3 DEF Calm

LEMMA QuietIsCalm ==
  ASSUME MemoryOK, NEW p \in Procs, Quiet(p)
  PROVE  Calm \/ Settle(p)
<1>1. CASE Begin(p) \/ Again(p) \/ Refused(p)
  BY <1>1 DEF Begin, Again, Refused, Calm
<1>2. CASE Fire(p)
  <2>1. act[p].s \in Steps /\ act[p].sv = step[act[p].s].version
    BY <1>2 DEF Fire, FireDueWait, At, MemoryOK, Sane
  <2>2. StepNext
    BY <1>2, <2>1 DEF Fire, StepNext
  <2> QED
    BY <2>2 DEF Calm
<1>3. CASE Schedule(p)
  BY <1>3, MovesAreOfSteps, TransitionIsCalm DEF Schedule, Moves, Think, Calm
<1>4. CASE Renew(p)
  <2>1. act[p].a \in Attempts
    BY <1>4 DEF Renew, At, MemoryOK, Sane, Holding
  <2> QED
    BY <1>4, <2>1, HeartbeatIsCalm DEF Renew
<1>5. CASE FinishTimer(p)
  <2>1. act[p].s \in Steps
    BY <1>5 DEF FinishTimer, At, MemoryOK, Sane
  <2> QED
    BY <1>5, <2>1, TransitionIsCalm DEF FinishTimer
<1>6. CASE CancelConclude(p)
  BY <1>6 DEF CancelConclude, Calm, WholeTaskNext
<1> QED
  BY <1>1, <1>2, <1>3, <1>4, <1>5, <1>6, ObserveIsCalm, ClaimIsCalm, ConcludeIsCalm, CancelLoopIsCalm,
     StopStepIsCalm DEF Quiet

(* A Run is created by an execution that is about to; what it remembers of *)
(* the claim need not be current.                                          *)
Creates(p) ==
  /\ CreateInternalStepRun(act[p].a) /\ act[p].pc = "create"
  /\ \E c : act' = [act EXCEPT ![p] = c] /\ c.pc \in {"idle", "recheck"}

LEMMA LookingIsCalm ==
  ASSUME MemoryOK, NEW p \in Procs, ReadRun(p) \/ CreateRun(p) \/ Recheck(p)
  PROVE  UNCHANGED storeVars \/ Creates(p)
<1>1. CASE ReadRun(p)
  BY <1>1 DEF ReadRun, Skip, Think
<1>2. CASE Recheck(p)
  BY <1>2 DEF Recheck, Think
<1>3. CASE CreateRun(p)
  <2>1. \/ UNCHANGED storeVars
        \/ /\ CreateInternalStepRun(act[p].a) /\ act[p].pc = "create"
           /\ \/ act' = [act EXCEPT ![p] = Idle]
              \/ act' = [act EXCEPT ![p] = [act[p] EXCEPT !.pc = "recheck"]]
    BY <1>3 DEF CreateRun, At, Think, Continue, Return
  <2>2. act[p] \in Executions
    BY DEF MemoryOK, Sane
  <2>3. [act[p] EXCEPT !.pc = "recheck"].pc = "recheck"
    BY <2>2 DEF Executions
  <2> QED
    BY <2>1, <2>3, IdleIsSane DEF Creates
<1> QED
  BY <1>1, <1>2, <1>3

(* Every step of the driven Task, by what it does to the store and to the  *)
(* executors.                                                              *)
LEMMA DriverSteps ==
  ASSUME MemoryOK, [LongWorkNext]_vars
  PROVE  \/ Calm /\ exec' = exec
         \/ \E p \in Procs : Settle(p) /\ exec' = exec
         \/ \E p \in Procs : Creates(p) /\ exec' = exec
         \/ \E a \in Attempts : RunService(a)
         \/ Restart
<1>1. CASE UNCHANGED vars
  BY <1>1 DEF vars, storeVars, Calm
<1>2. ASSUME NEW p \in Procs, Advance(p)
      PROVE  /\ exec' = exec
             /\ Calm \/ Settle(p) \/ Creates(p)
  <2>1. exec' = exec
    BY <1>2 DEF Advance, envVars
  <2>2. Quiet(p) => Calm \/ Settle(p)
    BY QuietIsCalm
  <2>3. ReadRun(p) \/ CreateRun(p) \/ Recheck(p) => Calm \/ Creates(p)
    BY LookingIsCalm DEF Calm
  <2> QED
    BY <1>2, <2>1, <2>2, <2>3 DEF Advance
<1>3. ASSUME NEW a \in Attempts, WriteCheckpoint(a)
      PROVE  Calm /\ exec' = exec
  BY <1>3 DEF WriteCheckpoint, envVars, Calm, ClaimNext
<1>4. CASE WakeUp
  BY <1>4 DEF WakeUp, envVars, Calm
<1>5. CASE FinishCancel
  BY <1>5 DEF FinishCancel, Calm, WholeTaskNext
<1>6. CASE OwnerActs
  <2>1. ASSUME NEW s \in Steps, AcceptStep(s) \/ ReworkStep(s)
        PROVE  Calm /\ exec' = exec
    <3>1. StepNext
      BY <2>1 DEF AcceptStep, ReworkStep, Owner, StepNext
    <3> QED
      BY <2>1, <3>1 DEF AcceptStep, ReworkStep, Owner, envVars, Calm
  <2>2. ASSUME NEW s \in Steps, Signal(s)
        PROVE  Calm /\ exec' = exec
    <3>1. StepNext
      BY <2>2 DEF Signal, StepNext
    <3> QED
      BY <2>2, <3>1 DEF Signal, envVars, Calm
  <2>3. CASE AcceptTask
    BY <2>3 DEF AcceptTask, envVars, Calm, WholeTaskNext
  <2>4. CASE CancelTask
    BY <2>4 DEF CancelTask, Calm, WholeTaskNext
  <2> QED
    BY <1>6, <2>1, <2>2, <2>3, <2>4 DEF OwnerActs
<1>7. CASE \E p \in Procs : Crash(p) \/ TimeOut(p)
  BY <1>7 DEF Crash, TimeOut, Calm
<1>8. CASE Environment
  <2>1. exec' = exec
    BY <1>8 DEF Environment, envVars
  <2>2. ClaimNext \/ StepNext \/ WholeTaskNext
    BY <1>8 DEF Environment, ClaimNext, StepNext, WholeTaskNext
  <2> QED
    BY <2>1, <2>2 DEF Calm
<1> QED
  BY <1>1, <1>2, <1>3, <1>4, <1>5, <1>6, <1>7, <1>8 DEF LongWorkNext, FaultHappens

LEMMA SettleIsStoreStep ==
  ASSUME MemoryOK, NEW p \in Procs, Settle(p) PROVE SettleNext
<1> DEFINE s == act[p].s
           a == act[p].a
<1>1. s \in Steps /\ a \in Attempts
  BY DEF Settle, At, MemoryOK, Sane, Holding
<1>2. act[p].sv = step[s].version /\ act[p].lv = lease[a].version
  BY DEF Settle, ScheduleClaimedStepRetry, SettleClaimedStep, HoldsClaim
<1>3. OutcomeOf(p) \in {"review", "failed", "unknown"}
  BY DEF OutcomeOf
<1>4. \/ ScheduleClaimedStepRetry(s, a, step[s].version, lease[a].version)
      \/ SettleClaimedStep(s, a, step[s].version, lease[a].version, OutcomeOf(p))
  BY <1>2 DEF Settle
<1> QED
  BY <1>1, <1>3, <1>4 DEF SettleNext

LEMMA CreateIsStoreStep ==
  ASSUME MemoryOK, NEW p \in Procs, Creates(p) PROVE RunNext
<1>1. act[p].a \in Attempts
  BY DEF Creates, MemoryOK, Sane, Holding
<1> QED
  BY <1>1 DEF Creates, RunNext

LEMMA ServiceIsStoreStep ==
  ASSUME NEW a \in Attempts, RunService(a) PROVE RunNext \/ UNCHANGED storeVars
<1>1. StartExecutor(a) => UNCHANGED storeVars
  BY DEF StartExecutor
<1>2. ~StartExecutor(a) => \E to \in RunLive \cup RunClosed : MoveRun(a, to)
  BY DEF RunService, ClaimQueuedRun, CancelRun, RefuseRun, FinishRun, RunLive, RunClosed
<1> QED
  BY <1>1, <1>2 DEF RunNext

LEMMA EveryStepIsTheStores ==
  ASSUME MemoryOK, [LongWorkNext]_vars PROVE [StoreNext]_storeVars
<1>1. Restart => TaskNext
  BY DEF Restart, TaskNext
<1> QED
  BY <1>1, DriverSteps, CalmIsStoreStep, SettleIsStoreStep, CreateIsStoreStep, ServiceIsStoreStep
     DEF StoreNext

LEMMA EveryStepRemembers ==
  ASSUME TypeOK, MemoryOK, [LongWorkNext]_vars
  PROVE  act' = act \/ \E p \in Procs : \E c : GoesOn(p, c) /\ Learnt(p, c)
<1>1. ASSUME NEW p \in Procs, Crash(p)
      PROVE  \E c : GoesOn(p, c) /\ Learnt(p, c)
  BY <1>1, EndIsSane DEF Crash, Throw
<1>2. \/ act' = act
      \/ \E p \in Procs : Advance(p)
      \/ \E p \in Procs : Crash(p)
  <2>1. \A a \in Attempts : RunService(a) \/ WriteCheckpoint(a) => act' = act
    BY DEF RunService, ClaimQueuedRun, CancelRun, StartExecutor, RefuseRun, FinishRun, WriteCheckpoint,
           procVars
  <2>2. WakeUp \/ FinishCancel \/ Restart \/ Environment => act' = act
    BY DEF WakeUp, FinishCancel, Restart, Environment, procVars
  <2>3. OwnerActs => act' = act
    BY DEF OwnerActs, AcceptStep, ReworkStep, Owner, Signal, AcceptTask, CancelTask, procVars
  <2>4. \A p \in Procs : TimeOut(p) => act' = act
    BY DEF TimeOut
  <2> QED
    BY <2>1, <2>2, <2>3, <2>4 DEF LongWorkNext, FaultHappens, vars
<1> QED
  BY <1>1, <1>2, AdvanceRemembers

LEMMA MemoryKept ==
  ASSUME TypeOK, MemoryOK, [LongWorkNext]_vars PROVE MemoryOK'
<1>1. CASE act' = act
  BY <1>1 DEF MemoryOK, Sane
<1>2. ASSUME NEW p \in Procs, NEW c, GoesOn(p, c) PROVE MemoryOK'
  <2>1. c \in Executions /\ Sane(c) /\ act' = [act EXCEPT ![p] = c]
    BY <1>2 DEF GoesOn, Sane
  <2>2. act' \in [Procs -> Executions]
    BY <2>1 DEF MemoryOK
  <2>3. \A q \in Procs : act'[q] = IF q = p THEN c ELSE act[q]
    BY <2>1 DEF MemoryOK
  <2>4. \A q \in Procs : Sane(act'[q])
    BY <2>1, <2>3 DEF MemoryOK
  <2> QED
    BY <2>2, <2>4 DEF MemoryOK, Sane
<1> QED
  BY <1>1, <1>2, EveryStepRemembers

LEMMA InitMemory == LongWorkInit => MemoryOK
  BY IdleIsSane DEF LongWorkInit, MemoryOK, Sane

(* The driven Task, with all its actors, is a use of the store: whatever   *)
(* the workflow, overlapping executions of the Activity, RunService, the   *)
(* owner, crashes and time-outs do, each step is at most one call of the   *)
(* store with current versions.                                            *)
THEOREM DriverUsesTheStore == LongWorkSpec => StoreSpec
<1>1. LongWorkInit => Init /\ TypeOK /\ MemoryOK
  BY InitTypeOK, InitMemory DEF LongWorkInit
<1>2. TypeOK /\ MemoryOK /\ [LongWorkNext]_vars => (TypeOK /\ MemoryOK)' /\ [StoreNext]_storeVars
  BY EveryStepIsTheStores, MemoryKept, StepsKeepTypeOK
<1> QED
  BY <1>1, <1>2, PTL DEF LongWorkSpec, StoreSpec

(* So the store's promises hold of the driven Task, among them that a      *)
(* quarantine of it ends on evidence.                                      *)
THEOREM DrivenQuarantineIsDecided == LongWorkSpec => QuarantineEndsOnEvidence
  BY DriverUsesTheStore, QuarantineIsDecided, PTL

(***************************************************************************)
(* What calls of the store leave as it was.                                *)
(***************************************************************************)
LEMMA OtherCallsLeave ==
  /\ StepNext => run' = run
  /\ ClaimNext => run' = run /\ step' = step /\ task' = task /\ wait' = wait /\ att' = att
  /\ WholeTaskNext => run' = run /\ att' = att /\ lease' = lease /\ ckpt' = ckpt
<1>1. StepNext => run' = run
  <2>1. ASSUME NEW s \in Steps,
               \/ CreateWait(s, step[s].version)
               \/ FireDueWait(s, step[s].version)
               \/ RecordSignal(s, step[s].version)
               \/ \E to \in StepStatus : TransitionStep(s, step[s].version, step[s].status, to)
               \/ MarkTaskNeedsAttention(s)
               \/ WaitFallsDue(s)
        PROVE  run' = run
    BY <2>1 DEF CreateWait, FireDueWait, RecordSignal, TransitionStep, MarkTaskNeedsAttention,
       WaitFallsDue
  <2>2. ASSUME NEW s \in Steps, NEW a \in Attempts,
               \/ ClaimReadyStep(s, a, step[s].version)
               \/ AcceptDurableStep(s, a, step[s].version)
               \/ ReworkDurableStep(s, a, step[s].version)
        PROVE  run' = run
    BY <2>2 DEF ClaimReadyStep, AcceptDurableStep, ReworkDurableStep
  <2> QED
    BY <2>1, <2>2 DEF StepNext
<1>2. ClaimNext => run' = run /\ step' = step /\ task' = task /\ wait' = wait /\ att' = att
  BY DEF ClaimNext, Heartbeat, WriteClaimedCheckpoint, LeaseExpires
<1>3. WholeTaskNext => run' = run /\ att' = att /\ lease' = lease /\ ckpt' = ckpt
  BY DEF WholeTaskNext, MarkTaskReview, AcceptDurableTask, RequestDurableCancellation,
         SettleDurableCancellation, ChangeGrant
<1> QED
  BY <1>1, <1>2, <1>3

(* A calm call leaves the Runs alone, and no outcome is decided by one     *)
(* while the Run of its Attempt can execute.                               *)
LEMMA CalmFences ==
  ASSUME IInv, Calm
  PROVE  /\ run' = run
         /\ \A a \in Attempts : Unresolved(a) /\ ~Unresolved(a)' => run[a] \notin RunLive
<1> DEFINE Goal == /\ run' = run
                   /\ \A a \in Attempts : Unresolved(a) /\ ~Unresolved(a)' => run[a] \notin RunLive
<1> USE DEF IInv, TypeOK, Unresolved, MoveLease
<1>1. CASE EndsOnEvidence
  <2>1. ASSUME NEW s \in Steps, NEW a \in Attempts,
               ResolveQuarantinedRunStep(s, a, step[s].version, lease[a].version)
        PROVE  Goal
    BY <2>1 DEF ResolveQuarantinedRunStep, RunLive
  <2>2. ASSUME NEW s \in Steps, NEW a \in Attempts,
               ReconcileQuarantinedCheckpointStep(s, a, step[s].version, lease[a].version)
        PROVE  Goal
    BY <2>2 DEF ReconcileQuarantinedCheckpointStep
  <2>3. ASSUME NEW s \in Steps, NEW a \in Attempts,
               \/ SettleClaimedStepCancellation(s, a, step[s].version, lease[a].version)
               \/ SettleQuarantinedReadOnlyStepCancellation(s, a, step[s].version, lease[a].version)
        PROVE  Goal
    BY <2>3 DEF SettleClaimedStepCancellation, SettleQuarantinedReadOnlyStepCancellation
  <2> QED
    BY <1>1, <2>1, <2>2, <2>3 DEF EndsOnEvidence, ReconcileQuarantinedStep
<1>2. CASE StepNext
  <2>1. ASSUME NEW s \in Steps, NEW a \in Attempts, ClaimReadyStep(s, a, step[s].version)
        PROVE  \A b \in Attempts : Unresolved(b) => Unresolved(b)'
    BY <2>1 DEF ClaimReadyStep, Numbering
  <2>2. lease' = lease \/ \E s \in Steps, a \in Attempts : ClaimReadyStep(s, a, step[s].version)
    <3>1. ASSUME NEW s \in Steps,
                 \/ CreateWait(s, step[s].version)
                 \/ FireDueWait(s, step[s].version)
                 \/ RecordSignal(s, step[s].version)
                 \/ \E to \in StepStatus : TransitionStep(s, step[s].version, step[s].status, to)
                 \/ MarkTaskNeedsAttention(s)
                 \/ WaitFallsDue(s)
          PROVE  lease' = lease
      BY <3>1 DEF CreateWait, FireDueWait, RecordSignal, TransitionStep, MarkTaskNeedsAttention,
         WaitFallsDue
    <3> QED
      BY <1>2, <3>1 DEF StepNext, AcceptDurableStep, ReworkDurableStep
  <2> QED
    BY <1>2, <2>1, <2>2, OtherCallsLeave
<1>3. CASE ClaimNext
  <2>1. ASSUME NEW a \in Attempts, Heartbeat(a, lease[a].version) \/ LeaseExpires(a)
        PROVE  \A b \in Attempts : lease'[b].state = lease[b].state
    BY <2>1 DEF Heartbeat, LeaseExpires
  <2> QED
    BY <1>3, <2>1, OtherCallsLeave DEF ClaimNext, WriteClaimedCheckpoint
<1>4. CASE WholeTaskNext
  BY <1>4, OtherCallsLeave
<1>5. CASE UNCHANGED storeVars
  BY <1>5 DEF storeVars
<1> QED
  BY <1>1, <1>2, <1>3, <1>4, <1>5 DEF Calm

(* Only a claim gives an Attempt to a Step.                                *)
SameAttempts ==
  \A a \in Attempts : /\ att'[a].step = att[a].step /\ att'[a].num = att[a].num
                      /\ (att'[a].status = "unused") <=> (att[a].status = "unused")
                      /\ att[a].status \in {"review", "succeeded"} => att'[a].status \in {"review", "succeeded"}

LEMMA SettlementsKeepAttempts == ASSUME TypeOK, SettleNext PROVE SameAttempts
<1> USE DEF TypeOK, SameAttempts, MoveAttempt, HoldsClaim, HoldsQuarantine
<1>1. ASSUME NEW s \in Steps, NEW a \in Attempts, NEW outcome \in {"review", "failed", "unknown"},
             SettleClaimedStep(s, a, step[s].version, lease[a].version, outcome)
      PROVE  SameAttempts
  BY <1>1 DEF SettleClaimedStep
<1>2. ASSUME NEW s \in Steps, NEW a \in Attempts,
             ScheduleClaimedStepRetry(s, a, step[s].version, lease[a].version)
      PROVE  SameAttempts
  BY <1>2 DEF ScheduleClaimedStepRetry
<1>3. ASSUME NEW s \in Steps, NEW a \in Attempts,
             ResolveQuarantinedRunStep(s, a, step[s].version, lease[a].version)
      PROVE  SameAttempts
  BY <1>3 DEF ResolveQuarantinedRunStep
<1>4. ASSUME NEW s \in Steps, NEW a \in Attempts,
             ReconcileQuarantinedCheckpointStep(s, a, step[s].version, lease[a].version)
      PROVE  SameAttempts
  BY <1>4 DEF ReconcileQuarantinedCheckpointStep
<1>5. ASSUME NEW s \in Steps, NEW a \in Attempts,
             SettleClaimedStepCancellation(s, a, step[s].version, lease[a].version)
      PROVE  SameAttempts
  BY <1>5 DEF SettleClaimedStepCancellation
<1>6. ASSUME NEW s \in Steps, NEW a \in Attempts,
             SettleQuarantinedReadOnlyStepCancellation(s, a, step[s].version, lease[a].version)
      PROVE  SameAttempts
  BY <1>6 DEF SettleQuarantinedReadOnlyStepCancellation
<1> HIDE DEF TypeOK, SameAttempts, MoveAttempt, HoldsClaim, HoldsQuarantine
<1> QED
  BY <1>1, <1>2, <1>3, <1>4, <1>5, <1>6 DEF SettleNext, ReconcileQuarantinedStep

LEMMA OnlyClaimsGive ==
  ASSUME TypeOK, [StoreNext]_storeVars
  PROVE  \/ SameAttempts
         \/ \E s \in Steps, a \in Attempts : ClaimReadyStep(s, a, step[s].version)
<1>1. CASE att' = att
  BY <1>1 DEF SameAttempts
<1>2. CASE StepNext
  <2>1. ASSUME NEW s \in Steps, NEW a \in Attempts, AcceptDurableStep(s, a, step[s].version)
        PROVE  SameAttempts
    BY <2>1 DEF TypeOK, SameAttempts, AcceptDurableStep, MoveAttempt
  <2>2. ASSUME NEW s \in Steps,
               \/ CreateWait(s, step[s].version)
               \/ FireDueWait(s, step[s].version)
               \/ RecordSignal(s, step[s].version)
               \/ \E to \in StepStatus : TransitionStep(s, step[s].version, step[s].status, to)
               \/ MarkTaskNeedsAttention(s)
               \/ WaitFallsDue(s)
        PROVE  att' = att
    BY <2>2 DEF CreateWait, FireDueWait, RecordSignal, TransitionStep, MarkTaskNeedsAttention,
       WaitFallsDue
  <2> QED
    BY <1>1, <1>2, <2>1, <2>2 DEF StepNext, ReworkDurableStep
<1>3. RunNext \/ TaskNext => att' = att
  BY DEF RunNext, Heartbeat, CreateInternalStepRun, MoveRun, WriteClaimedCheckpoint, LeaseExpires,
         TaskNext, MarkTaskReview, AcceptDurableTask, RequestDurableCancellation,
         SettleDurableCancellation, RecoverRuns, ChangeGrant
<1> QED
  BY <1>1, <1>2, <1>3, SettlementsKeepAttempts DEF StoreNext, storeVars

(* The latest Attempt of a Step that is not to be claimed stays its latest. *)
LEMMA LatestStays ==
  ASSUME IInv, [StoreNext]_storeVars, NEW s \in Steps, NEW a \in Attempts, att[a].step = s, Latest(s, a),
         step[s].status # "ready" \/ StepOwned(s)
  PROVE  att'[a].step = s /\ Latest(s, a)'
<1>1. CASE SameAttempts
  BY <1>1 DEF SameAttempts, Latest, AttemptsOf
<1>2. ASSUME NEW t \in Steps, NEW b \in Attempts, ClaimReadyStep(t, b, step[t].version)
      PROVE  att'[a].step = s /\ Latest(s, a)'
  <2>1. t # s
    BY <1>2 DEF ClaimReadyStep
  <2>2. att[b].step = None
    BY <1>2 DEF ClaimReadyStep, IInv, Numbering
  <2>3. b # a /\ att'[b].step = t /\ \A c \in Attempts \ {b} : att'[c] = att[c]
    BY <1>2, <2>2, ParametersAssumption DEF ClaimReadyStep, IInv, TypeOK
  <2>4. AttemptsOf(s)' = AttemptsOf(s) /\ b \notin AttemptsOf(s)
    BY <2>1, <2>2, <2>3, ParametersAssumption DEF AttemptsOf
  <2> QED
    BY <2>3, <2>4 DEF Latest, AttemptsOf
<1> QED
  BY <1>1, <1>2, OnlyClaimsGive DEF IInv

(***************************************************************************)
(* How a calm call moves a Step.  A blocked Step leaves on evidence only:  *)
(* the work of its owner is put up for review when its Run succeeded or    *)
(* its checkpoint was written, and is given up or tried again only when it *)
(* has written none.                                                       *)
(***************************************************************************)
FoundOut(s) ==
  /\ step[s].status = "blocked" /\ step'[s].status \in {"review", "failed", "waiting"}
  /\ step'[s].status = "review" =>
       \E a \in AttemptsOf(s) :
         /\ Unresolved(a) /\ att'[a].status = "review"
         /\ Kind[s] = "model" => run[a] = "succeeded"
         /\ Kind[s] = "write" => Applied(s)
  /\ step'[s].status # "review" /\ Kind[s] = "write" => ~Applied(s)

Rises(s) ==
  <<step[s].status, step'[s].status>> \in {<<"pending", "ready">>, <<"ready", "running">>,
                                           <<"waiting", "ready">>, <<"review", "succeeded">>}

Passes(s) ==
  /\ Kind[s] \notin RunKinds
  /\ <<step[s].status, step'[s].status>> \in {<<"ready", "waiting">>, <<"running", "succeeded">>,
                                              <<"waiting", "succeeded">>}

Reworked(s) ==
  /\ step[s].status = "review" /\ step'[s].status = "ready"
  /\ step'[s].gen = IF Kind[s] = "write" THEN step[s].gen + 1 ELSE step[s].gen

CalmMove(s) ==
  \/ /\ step'[s].gen = step[s].gen
     /\ \/ step'[s].status = step[s].status
        \/ /\ step[s].status \notin StepClosed
           /\ step'[s].status \in {"blocked", "cancelled", "skipped"}
        \/ Rises(s) \/ Passes(s) \/ FoundOut(s)
  \/ Reworked(s)

WaitsOfKind == \A s \in Steps : wait[s].kind \in {"none", "retry", Kind[s]}

LEMMA MoveIs ==
  ASSUME TypeOK, NEW s \in Steps, NEW to, MoveStep(s, to)
  PROVE  /\ step'[s].status = to /\ step'[s].gen = step[s].gen
         /\ \A t \in Steps \ {s} : step'[t] = step[t]
  BY DEF TypeOK, MoveStep

LEMMA StillIsCalm ==
  ASSUME NEW t \in Steps, step'[t] = step[t] PROVE CalmMove(t)
  BY DEF CalmMove

LEMMA EvidenceMoves ==
  ASSUME IInv, EndsOnEvidence, NEW t \in Steps PROVE CalmMove(t)
<1> USE DEF IInv, HoldsClaim, HoldsQuarantine
<1>1. ASSUME NEW s \in Steps, NEW a \in Attempts,
             ResolveQuarantinedRunStep(s, a, step[s].version, lease[a].version)
      PROVE  CalmMove(t)
  <2>1. PICK to \in {"review", "failed"} :
          /\ MoveStep(s, to) /\ MoveAttempt(a, to) /\ Kind[s] = "model"
          /\ to = "review" => run[a] = "succeeded"
          /\ step[s].status = "blocked" /\ att[a].step = s /\ lease[a].state = "quarantined"
    BY <1>1 DEF ResolveQuarantinedRunStep
  <2>2. att'[a].status = to
    BY <2>1 DEF MoveAttempt, TypeOK
  <2>3. a \in AttemptsOf(s) /\ Unresolved(a)
    BY <2>1 DEF AttemptsOf, Unresolved
  <2>4. FoundOut(s) /\ step'[s].gen = step[s].gen
    BY <2>1, <2>2, <2>3, MoveIs DEF FoundOut
  <2> QED
    BY <2>1, <2>4, MoveIs, StillIsCalm DEF CalmMove
<1>2. ASSUME NEW s \in Steps, NEW a \in Attempts,
             ReconcileQuarantinedCheckpointStep(s, a, step[s].version, lease[a].version)
      PROVE  CalmMove(t)
  <2>1. PICK to \in {"review", "waiting", "failed"} :
          /\ MoveStep(s, to) /\ Kind[s] = "write"
          /\ MoveAttempt(a, IF Applied(s) THEN "review" ELSE "failed")
          /\ to = "review" <=> Applied(s)
          /\ step[s].status = "blocked" /\ att[a].step = s /\ lease[a].state = "quarantined"
    BY <1>2 DEF ReconcileQuarantinedCheckpointStep
  <2>2. to = "review" => att'[a].status = "review"
    BY <2>1 DEF MoveAttempt, TypeOK
  <2>3. a \in AttemptsOf(s) /\ Unresolved(a)
    BY <2>1 DEF AttemptsOf, Unresolved
  <2>4. FoundOut(s) /\ step'[s].gen = step[s].gen
    BY <2>1, <2>2, <2>3, MoveIs DEF FoundOut
  <2> QED
    BY <2>1, <2>4, MoveIs, StillIsCalm DEF CalmMove
<1>3. ASSUME NEW s \in Steps, NEW a \in Attempts,
             SettleClaimedStepCancellation(s, a, step[s].version, lease[a].version)
      PROVE  CalmMove(t)
  BY <1>3, MoveIs, StillIsCalm DEF SettleClaimedStepCancellation, CalmMove, StepClosed
<1>4. ASSUME NEW s \in Steps, NEW a \in Attempts,
             SettleQuarantinedReadOnlyStepCancellation(s, a, step[s].version, lease[a].version)
      PROVE  CalmMove(t)
  BY <1>4, StillIsCalm DEF SettleQuarantinedReadOnlyStepCancellation
<1> QED
  BY <1>1, <1>2, <1>3, <1>4 DEF EndsOnEvidence, ReconcileQuarantinedStep

LEMMA CallMoves ==
  ASSUME IInv, WaitsOfKind, StepNext, NEW t \in Steps PROVE CalmMove(t)
<1> USE DEF IInv
<1>1. ASSUME NEW s \in Steps, CreateWait(s, step[s].version) PROVE CalmMove(t)
  <2>1. Kind[s] \notin RunKinds
    BY <1>1 DEF CreateWait, WaitKinds, RunKinds
  <2> QED
    BY <1>1, <2>1, MoveIs, StillIsCalm DEF CreateWait, CalmMove, Passes
<1>2. ASSUME NEW s \in Steps, FireDueWait(s, step[s].version) PROVE CalmMove(t)
  <2>1. PICK to \in {"blocked", "succeeded", "ready"} :
          MoveStep(s, to) /\ step[s].status = "waiting" /\ (to = "succeeded" => Kind[s] \in WaitKinds)
    BY <1>2 DEF FireDueWait
  <2>2. to = "succeeded" => Kind[s] \notin RunKinds
    BY <2>1 DEF WaitKinds, RunKinds
  <2> QED
    BY <2>1, <2>2, MoveIs, StillIsCalm DEF CalmMove, Passes, Rises, StepClosed
<1>3. ASSUME NEW s \in Steps, RecordSignal(s, step[s].version) PROVE CalmMove(t)
  <2>1. \/ MoveStep(s, "succeeded") /\ step[s].status = "waiting" /\ wait[s].kind = "approval"
        \/ MoveStep(s, "blocked") /\ step[s].status = "waiting"
        \/ step' = step
    BY <1>3 DEF RecordSignal
  <2>2. wait[s].kind = "approval" => Kind[s] \notin RunKinds
    BY DEF WaitsOfKind, RunKinds
  <2> QED
    BY <2>1, <2>2, MoveIs, StillIsCalm DEF CalmMove, Passes, StepClosed
<1>4. ASSUME NEW s \in Steps, NEW to \in StepStatus,
             TransitionStep(s, step[s].version, step[s].status, to)
      PROVE  CalmMove(t)
  <2>1. MoveStep(s, to) /\ Requestable(s, step[s].status, to)
    BY <1>4 DEF TransitionStep
  <2>2. Kind[s] \in {"join", "timer"} => Kind[s] \notin RunKinds
    BY DEF RunKinds
  <2> QED
    BY <2>1, <2>2, MoveIs, StillIsCalm DEF CalmMove, Passes, Rises, StepClosed, Requestable
<1>5. ASSUME NEW s \in Steps, NEW a \in Attempts,
             ClaimReadyStep(s, a, step[s].version) \/ AcceptDurableStep(s, a, step[s].version)
      PROVE  CalmMove(t)
  BY <1>5, MoveIs, StillIsCalm DEF ClaimReadyStep, AcceptDurableStep, CalmMove, Rises
<1>6. ASSUME NEW s \in Steps, NEW a \in Attempts, ReworkDurableStep(s, a, step[s].version)
      PROVE  CalmMove(t)
  <2>1. /\ \A r \in Steps \ {s} : step'[r] = step[r]
        /\ Reworked(s)
    BY <1>6 DEF ReworkDurableStep, Reworked, TypeOK
  <2> QED
    BY <2>1, StillIsCalm DEF CalmMove
<1>7. ASSUME NEW s \in Steps, MarkTaskNeedsAttention(s) \/ WaitFallsDue(s) PROVE CalmMove(t)
  BY <1>7, StillIsCalm DEF MarkTaskNeedsAttention, WaitFallsDue
<1> QED
  BY <1>1, <1>2, <1>3, <1>4, <1>5, <1>6, <1>7 DEF StepNext

LEMMA RequestMoves ==
  ASSUME TypeOK, RequestDurableCancellation, NEW t \in Steps PROVE CalmMove(t)
<1>1. step'[t] = IF step[t].status \in Stoppable
                 THEN [step[t] EXCEPT !.status = "cancelled", !.version = @ + 1] ELSE step[t]
  BY DEF RequestDurableCancellation
<1>2. step[t].status \in Stoppable =>
        step'[t].status = "cancelled" /\ step'[t].gen = step[t].gen
  <2>1. step[t].version + 1 \in Nat
    BY DEF TypeOK
  <2>2. step[t] \in [status : StepStatus, version : Nat, gen : Nat, base : Nat]
    BY DEF TypeOK
  <2> QED
    BY <1>1, <2>1, <2>2
<1>3. step[t].status \in Stoppable => step[t].status \notin StepClosed
  BY DEF Stoppable, StepClosed
<1> QED
  BY <1>1, <1>2, <1>3 DEF CalmMove

LEMMA CalmMoves ==
  ASSUME IInv, WaitsOfKind, Calm, NEW t \in Steps PROVE CalmMove(t)
<1>1. CASE UNCHANGED step
  BY <1>1, StillIsCalm
<1>2. WholeTaskNext => UNCHANGED step \/ RequestDurableCancellation
  BY DEF WholeTaskNext, MarkTaskReview, AcceptDurableTask, SettleDurableCancellation, ChangeGrant
<1> QED
  BY <1>1, <1>2, EvidenceMoves, CallMoves, RequestMoves, OtherCallsLeave DEF Calm, storeVars, IInv

(***************************************************************************)
(* What an execution has learnt of a Run stays true until it settles the   *)
(* claim: an ended Run does not change, and a missing one is created only  *)
(* by an execution, so it stays missing unless another execution, which    *)
(* Temporal replaced, is still running.                                    *)
(***************************************************************************)
Overlapping == \E p, q \in Procs : p # q

FindingsHold ==
  \A p \in Procs :
    act[p].pc \in {"renew", "settle"} =>
      /\ act[p].seen \in RunClosed => run[act[p].a] = act[p].seen
      /\ act[p].seen = "absent" => run[act[p].a] = "none" \/ Overlapping

LEMMA RunsEndOnce ==
  ASSUME TypeOK, MemoryOK, [LongWorkNext]_vars, NEW a \in Attempts
  PROVE  /\ run[a] \in RunClosed => run'[a] = run[a]
         /\ run[a] = "none" => run'[a] = "none" \/ \E p \in Procs : Creates(p)
<1> DEFINE Goal == /\ run[a] \in RunClosed => run'[a] = run[a]
                   /\ run[a] = "none" => run'[a] = "none" \/ \E p \in Procs : Creates(p)
<1>1. CASE run' = run
  BY <1>1
<1>2. ASSUME NEW p \in Procs, Creates(p) PROVE Goal
  BY <1>2 DEF Creates, CreateInternalStepRun, RunClosed, TypeOK
<1>3. ASSUME NEW b \in Attempts, NEW to, MoveRun(b, to) PROVE Goal
  BY <1>3 DEF MoveRun, RunLive, RunClosed, TypeOK
<1>4. CASE Restart
  BY <1>4 DEF Restart, RecoverRuns, RunClosed
<1>5. Calm => run' = run
  BY OtherCallsLeave DEF Calm, storeVars, EndsOnEvidence, ReconcileQuarantinedStep,
     ResolveQuarantinedRunStep, ReconcileQuarantinedCheckpointStep, SettleClaimedStepCancellation,
     SettleQuarantinedReadOnlyStepCancellation
<1>6. \A p \in Procs : Settle(p) => run' = run
  BY DEF Settle, ScheduleClaimedStepRetry, SettleClaimedStep
<1>7. ASSUME NEW b \in Attempts, RunService(b)
      PROVE  run' = run \/ \E to : MoveRun(b, to)
  BY <1>7 DEF RunService, StartExecutor, ClaimQueuedRun, CancelRun, RefuseRun, FinishRun, storeVars
<1> QED
  BY <1>1, <1>2, <1>3, <1>4, <1>5, <1>6, <1>7, DriverSteps

LEMMA FindingsKept ==
  ASSUME TypeOK, MemoryOK, FindingsHold, [LongWorkNext]_vars
  PROVE  FindingsHold'
<1> SUFFICES ASSUME NEW p \in Procs, act'[p].pc \in {"renew", "settle"}
             PROVE  /\ act'[p].seen \in RunClosed => run'[act'[p].a] = act'[p].seen
                    /\ act'[p].seen = "absent" => run'[act'[p].a] = "none" \/ Overlapping
  BY DEF FindingsHold, Overlapping
<1>1. CASE act'[p] = act[p]
  <2>1. act[p].a \in Attempts
    BY <1>1 DEF MemoryOK, Sane, Holding
  <2>2. act[p].seen \in RunClosed => run'[act[p].a] = act[p].seen
    BY <1>1, <2>1, RunsEndOnce DEF FindingsHold
  <2>3. ASSUME NEW q \in Procs, Creates(q), ~Overlapping PROVE FALSE
    <3>1. q = p
      BY <2>3 DEF Overlapping
    <3>2. PICK c : act' = [act EXCEPT ![q] = c] /\ c.pc \in {"idle", "recheck"}
      BY <2>3 DEF Creates
    <3>3. act'[p] = c
      BY <3>1, <3>2 DEF MemoryOK
    <3> QED
      BY <3>2, <3>3
  <2>4. act[p].seen = "absent" => run'[act[p].a] = "none" \/ Overlapping
    BY <1>1, <2>1, <2>3, RunsEndOnce DEF FindingsHold
  <2> QED
    BY <1>1, <2>2, <2>4
<1>2. ASSUME NEW c, GoesOn(p, c), Learnt(p, c)
      PROVE  /\ act'[p].seen \in RunClosed => run'[act'[p].a] = act'[p].seen
             /\ act'[p].seen = "absent" => run'[act'[p].a] = "none" \/ Overlapping
  <2>1. act'[p] = c
    BY <1>2 DEF GoesOn, MemoryOK
  <2>2. /\ run' = run
        /\ c.seen \in RunClosed \cup {"absent"} =>
             \/ c.seen = IF run[c.a] = "none" THEN "absent" ELSE run[c.a]
             \/ act[p].pc = "renew" /\ c.a = act[p].a /\ c.seen = act[p].seen
    BY <1>2, <2>1 DEF Learnt
  <2>3. c.a \in Attempts
    BY <1>2, <2>1 DEF GoesOn, Sane, Holding
  <2>4. run[c.a] # "absent"
    BY <2>3 DEF TypeOK, RunLive, RunClosed
  <2> QED
    BY <2>1, <2>2, <2>4 DEF FindingsHold, RunClosed
<1>3. ASSUME NEW q \in Procs, NEW c, GoesOn(q, c), q # p PROVE act'[p] = act[p]
  BY <1>3 DEF GoesOn, MemoryOK
<1> QED
  BY <1>1, <1>2, <1>3, EveryStepRemembers

(***************************************************************************)
(* The settlement of a claim, by what its Run and its Step then are.       *)
(***************************************************************************)
Settlement(s, a) ==
  \/ step'[s].status = "blocked" /\ lease'[a].state = "quarantined"
  \/ /\ step'[s].status = "review" /\ att'[a].status = "review"
     /\ Kind[s] # "write" /\ run[a] = "succeeded"
  \/ step'[s].status \in {"failed", "waiting"} /\ Kind[s] # "write" /\ run[a] = "failed"
  \/ step'[s].status = "failed" /\ (run[a] = "none" \/ Overlapping)

LEMMA SettlementIs ==
  ASSUME IInv, MemoryOK, FindingsHold, NEW p \in Procs, Settle(p)
  PROVE  \E s \in Steps, a \in Attempts :
           /\ att[a].step = s /\ step[s].status = "running" /\ lease[a].state = "active"
           /\ Settlement(s, a)
           /\ run' = run /\ ckpt' = ckpt /\ step'[s].gen = step[s].gen /\ wait'[s].kind \in {wait[s].kind, "retry"}
           /\ \A t \in Steps \ {s} : step'[t] = step[t] /\ wait'[t] = wait[t]
           /\ \A b \in Attempts \ {a} : lease'[b] = lease[b]
<1> DEFINE s == act[p].s
           a == act[p].a
<1>1. s \in Steps /\ a \in Attempts /\ act[p].pc = "settle"
  BY DEF Settle, At, MemoryOK, Sane, Holding
<1>2. /\ act[p].seen \in RunClosed => run[a] = act[p].seen
      /\ act[p].seen = "absent" => run[a] = "none" \/ Overlapping
  BY <1>1 DEF FindingsHold
<1>3. OutcomeOf(p) = "review" => Kind[s] # "write" /\ run[a] = "succeeded"
  BY <1>2 DEF OutcomeOf, RunClosed
<1>4. OutcomeOf(p) = "failed" =>
        (Kind[s] # "write" /\ run[a] = "failed") \/ run[a] = "none" \/ Overlapping
  BY <1>2 DEF OutcomeOf, RunClosed
<1>5. Retries(p) => Kind[s] # "write" /\ run[a] = "failed"
  BY <1>2 DEF Retries, OutcomeOf, RunClosed
<1>6. \/ /\ Retries(p) /\ ScheduleClaimedStepRetry(s, a, act[p].sv, act[p].lv)
      \/ SettleClaimedStep(s, a, act[p].sv, act[p].lv, OutcomeOf(p))
  BY DEF Settle
<1> HIDE DEF s, a
<1> DEFINE Same == /\ att[a].step = s /\ step[s].status = "running" /\ lease[a].state = "active"
                   /\ run' = run /\ ckpt' = ckpt
        MovedTo(to, state) == MoveStep(s, to) /\ MoveLease(a, state)
<1>7. /\ Same
      /\ \/ MovedTo("review", "released") /\ OutcomeOf(p) = "review" /\ MoveAttempt(a, "review") /\ wait' = wait
         \/ MovedTo("failed", "released") /\ OutcomeOf(p) = "failed" /\ wait' = wait
         \/ MovedTo("blocked", "quarantined") /\ wait' = wait
         \/ MovedTo("waiting", "released") /\ Retries(p) /\ OpenWait(s, "retry")
  BY <1>6 DEF SettleClaimedStep, ScheduleClaimedStepRetry, HoldsClaim
<1>8. PICK to, state :
        /\ MovedTo(to, state)
        /\ \/ to = "review" /\ OutcomeOf(p) = "review" /\ MoveAttempt(a, "review") /\ wait' = wait
           \/ to = "failed" /\ OutcomeOf(p) = "failed" /\ wait' = wait
           \/ to = "blocked" /\ state = "quarantined" /\ wait' = wait
           \/ to = "waiting" /\ Retries(p) /\ OpenWait(s, "retry")
  BY <1>7
<1>9. /\ step'[s].status = to /\ step'[s].gen = step[s].gen
      /\ \A t \in Steps \ {s} : step'[t] = step[t]
  BY <1>1, <1>8, MoveIs DEF IInv
<1>10. lease'[a].state = state /\ \A b \in Attempts \ {a} : lease'[b] = lease[b]
  BY <1>1, <1>8 DEF MoveLease, IInv, TypeOK
<1>11. to = "review" => att'[a].status = "review"
  BY <1>1, <1>8 DEF MoveAttempt, IInv, TypeOK
<1>12. wait'[s].kind \in {wait[s].kind, "retry"} /\ \A t \in Steps \ {s} : wait'[t] = wait[t]
  BY <1>1, <1>8 DEF OpenWait, IInv, TypeOK
<1>13. Settlement(s, a)
  BY <1>3, <1>4, <1>5, <1>8, <1>9, <1>10, <1>11 DEF Settlement
<1> QED
  BY <1>1, <1>7, <1>9, <1>10, <1>12, <1>13

(***************************************************************************)
(* What the executors rest on: no two used Attempts have one number, and a *)
(* wait is of the kind of its Step, or a retry.                            *)
(***************************************************************************)
NumbersDiffer ==
  \A a, b \in Attempts :
    att[a].status # "unused" /\ att[b].status # "unused" /\ att[a].num = att[b].num => a = b

LEMMA NumbersKept ==
  ASSUME IInv, NumbersDiffer, [StoreNext]_storeVars PROVE NumbersDiffer'
<1>1. CASE SameAttempts
  BY <1>1 DEF SameAttempts, NumbersDiffer
<1>2. ASSUME NEW s \in Steps, NEW b \in Attempts, ClaimReadyStep(s, b, step[s].version)
      PROVE  NumbersDiffer'
  <2>1. att'[b].num = task.last + 1 /\ \A c \in Attempts \ {b} : att'[c] = att[c]
    BY <1>2 DEF ClaimReadyStep, IInv, TypeOK
  <2>2. task.last \in Nat /\ \A c \in Attempts : att[c].num \in Nat /\ att[c].num <= task.last
    BY DEF IInv, TypeOK, Numbering
  <2>3. \A c \in Attempts \ {b} : att'[c].num # att'[b].num
    BY <2>1, <2>2
  <2> QED
    BY <2>1, <2>3 DEF NumbersDiffer
<1> QED
  BY <1>1, <1>2, OnlyClaimsGive DEF IInv

WaitStays(t) == wait'[t].kind \in {wait[t].kind, "retry", Kind[t]}

LEMMA WaitsMove ==
  ASSUME TypeOK, NEW s \in Steps, NEW t \in Steps,
         \/ OpenWait(s, "retry") \/ OpenWait(s, Kind[s])
         \/ \E status : CloseWait(s, status)
         \/ WaitFallsDue(s)
  PROVE  WaitStays(t)
  BY DEF WaitStays, OpenWait, CloseWait, WaitFallsDue, TypeOK

LEMMA RequestKeepsKinds ==
  ASSUME TypeOK, RequestDurableCancellation, NEW t \in Steps PROVE WaitStays(t)
<1>1. wait'[t] = IF wait[t].status = "waiting" THEN [wait[t] EXCEPT !.status = "cancelled"] ELSE wait[t]
  BY DEF RequestDurableCancellation
<1>2. wait[t] \in [gen : Nat, kind : {"none", "retry", "timer", "approval"},
                   status : {"none", "waiting", "resumed", "cancelled", "stale"}, due : BOOLEAN]
  BY DEF TypeOK
<1> QED
  BY <1>1, <1>2 DEF WaitStays

LEMMA SettlementsKeepKinds ==
  ASSUME TypeOK, SettleNext, NEW t \in Steps PROVE WaitStays(t)
<1>1. wait' = wait => WaitStays(t)
  BY DEF WaitStays
<1>2. ASSUME NEW s \in Steps, OpenWait(s, "retry") PROVE WaitStays(t)
  BY <1>2, WaitsMove
<1>3. wait' = wait \/ \E s \in Steps : OpenWait(s, "retry")
  BY DEF SettleNext, SettleClaimedStep, ScheduleClaimedStepRetry, ReconcileQuarantinedStep,
     ResolveQuarantinedRunStep, ReconcileQuarantinedCheckpointStep, SettleClaimedStepCancellation,
     SettleQuarantinedReadOnlyStepCancellation
<1> QED
  BY <1>1, <1>2, <1>3

LEMMA KindsKept ==
  ASSUME TypeOK, WaitsOfKind, [StoreNext]_storeVars PROVE WaitsOfKind'
<1> SUFFICES ASSUME NEW t \in Steps PROVE WaitStays(t)
  BY DEF WaitsOfKind, WaitStays
<1>1. wait' = wait => WaitStays(t)
  BY DEF WaitStays
<1>2. ASSUME NEW s \in Steps, CreateWait(s, step[s].version) \/ FireDueWait(s, step[s].version)
      PROVE  WaitStays(t)
  BY <1>2, WaitsMove DEF CreateWait, FireDueWait
<1>3. ASSUME NEW s \in Steps, RecordSignal(s, step[s].version) PROVE WaitStays(t)
  BY <1>3, WaitsMove DEF RecordSignal
<1>4. ASSUME NEW s \in Steps, NEW to \in StepStatus,
             TransitionStep(s, step[s].version, step[s].status, to)
      PROVE  wait' = wait
  BY <1>4 DEF TransitionStep
<1>5. ASSUME NEW s \in Steps, MarkTaskNeedsAttention(s)
      PROVE  wait' = wait
  BY <1>5 DEF MarkTaskNeedsAttention
<1>6. ASSUME NEW s \in Steps, NEW a \in Attempts,
             \/ ClaimReadyStep(s, a, step[s].version)
             \/ AcceptDurableStep(s, a, step[s].version)
             \/ ReworkDurableStep(s, a, step[s].version)
      PROVE  wait' = wait
  BY <1>6 DEF ClaimReadyStep, AcceptDurableStep, ReworkDurableStep
<1>7. CASE StepNext
  BY <1>1, <1>2, <1>3, <1>4, <1>5, <1>6, <1>7, WaitsMove DEF StepNext
<1>8. RunNext => wait' = wait
  BY DEF RunNext, Heartbeat, CreateInternalStepRun, MoveRun, WriteClaimedCheckpoint, LeaseExpires
<1>9. TaskNext => wait' = wait \/ RequestDurableCancellation
  BY DEF TaskNext, MarkTaskReview, AcceptDurableTask, SettleDurableCancellation, RecoverRuns,
     ChangeGrant
<1> QED
  BY <1>1, <1>7, <1>8, <1>9, SettlementsKeepKinds, RequestKeepsKinds DEF StoreNext, storeVars

(***************************************************************************)
(* A live executor has the latest Attempt of its Step, whose Run is        *)
(* executing.  The outcome of the Attempt is open, unless one of two       *)
(* overlapping executions, which found no Run where the other was still to *)
(* create one, has given the Step up as failed.                            *)
(***************************************************************************)
Fenced(a) ==
  /\ run[a] \in {"running", "cancelling"}
  /\ att[a].step \in Steps /\ Latest(att[a].step, a)
  /\ Unresolved(a) \/ (Overlapping /\ step[att[a].step].status = "failed")

ExecutorsFenced ==
  /\ exec \in [Attempts -> {"idle", "live", "over"}]
  /\ \A a \in Attempts : exec[a] = "live" => Fenced(a)

LEMMA ExecutorsTyped ==
  ASSUME MemoryOK, exec \in [Attempts -> {"idle", "live", "over"}], [LongWorkNext]_vars
  PROVE  exec' \in [Attempts -> {"idle", "live", "over"}]
<1>1. ASSUME NEW a \in Attempts, RunService(a) PROVE exec' \in [Attempts -> {"idle", "live", "over"}]
  <2>1. exec' = exec \/ exec' = [exec EXCEPT ![a] = "live"] \/ exec' = [exec EXCEPT ![a] = "over"]
    BY <1>1 DEF RunService, ClaimQueuedRun, CancelRun, StartExecutor, RefuseRun, FinishRun, envVars
  <2> QED
    BY <2>1
<1>2. Restart => exec' \in [Attempts -> {"idle", "live", "over"}]
  BY DEF Restart
<1> QED
  BY <1>1, <1>2, DriverSteps

(* The latest Attempt of a fenced executor stays the latest.               *)
LEMMA FencedStaysLatest ==
  ASSUME IInv, [StoreNext]_storeVars, NEW a \in Attempts, Fenced(a)
  PROVE  att'[a].step = att[a].step /\ Latest(att[a].step, a)'
<1>1. PICK s \in Steps : s = att[a].step
  BY DEF Fenced
<1>2. Latest(s, a) /\ (step[s].status # "ready" \/ StepOwned(s))
  BY <1>1 DEF Fenced, StepOwned, AttemptsOf
<1>3. att'[a].step = s /\ Latest(s, a)'
  BY <1>1, <1>2, LatestStays
<1> QED
  BY <1>1, <1>3

DriverIInv ==
  IInv /\ MemoryOK /\ FindingsHold /\ NumbersDiffer /\ WaitsOfKind /\ ExecutorsFenced

LEMMA CalmKeepsFence ==
  ASSUME DriverIInv, Calm, [StoreNext]_storeVars, NEW a \in Attempts, Fenced(a) PROVE Fenced(a)'
<1>1. att'[a].step = att[a].step /\ Latest(att[a].step, a)' /\ run' = run
  BY FencedStaysLatest, CalmFences DEF DriverIInv
<1>2. Unresolved(a) => Unresolved(a)'
  BY CalmFences DEF DriverIInv, Fenced, RunLive
<1>3. PICK s \in Steps : s = att[a].step
  BY DEF Fenced
<1>4. CalmMove(s)
  BY CalmMoves DEF DriverIInv
<1>5. step[s].status = "failed" => step'[s].status = "failed"
  BY <1>4 DEF CalmMove, Rises, Passes, FoundOut, Reworked, StepClosed
<1> QED
  BY <1>1, <1>2, <1>3, <1>5 DEF Fenced

LEMMA SettleKeepsFence ==
  ASSUME DriverIInv, [StoreNext]_storeVars, NEW p \in Procs, Settle(p),
         NEW a \in Attempts, Fenced(a)
  PROVE  Fenced(a)'
<1>1. att'[a].step = att[a].step /\ Latest(att[a].step, a)'
  BY FencedStaysLatest DEF DriverIInv
<1>2. PICK s \in Steps, b \in Attempts :
        /\ att[b].step = s /\ step[s].status = "running"
        /\ Settlement(s, b)
        /\ run' = run
        /\ \A t \in Steps \ {s} : step'[t] = step[t]
        /\ \A c \in Attempts \ {b} : lease'[c] = lease[c]
  BY SettlementIs DEF DriverIInv
<1>3. CASE a # b
  <2>1. Unresolved(a) => Unresolved(a)'
    BY <1>2, <1>3 DEF Unresolved
  <2>2. step[att[a].step].status = "failed" => step'[att[a].step].status = "failed"
    BY <1>2 DEF Fenced
  <2> QED
    BY <1>1, <1>2, <2>1, <2>2 DEF Fenced
<1>4. CASE a = b
  <2>1. run[a] \in {"running", "cancelling"}
    BY DEF Fenced
  <2>2. \/ lease'[a].state = "quarantined"
        \/ step'[att[a].step].status = "failed" /\ Overlapping
    BY <1>2, <1>4, <2>1 DEF Settlement
  <2> QED
    BY <1>1, <1>2, <2>1, <2>2 DEF Fenced, Unresolved, Overlapping
<1> QED
  BY <1>3, <1>4

LEMMA ServiceKeepsFence ==
  ASSUME DriverIInv, NEW b \in Attempts, RunService(b), NEW a \in Attempts, exec'[a] = "live"
  PROVE  Fenced(a)'
<1>1. att' = att /\ lease' = lease /\ step' = step
  BY DEF RunService, ClaimQueuedRun, CancelRun, StartExecutor, RefuseRun, FinishRun, MoveRun, storeVars
<1>2. ASSUME exec[a] = "live", run'[a] \in {"running", "cancelling"} PROVE Fenced(a)'
  <2>1. Fenced(a)
    BY <1>2 DEF DriverIInv, ExecutorsFenced
  <2> QED
    BY <1>1, <1>2, <2>1 DEF Fenced, Latest, AttemptsOf, Unresolved
<1>3. CASE StartExecutor(b)
  <2>1. run' = run
    BY <1>3 DEF StartExecutor, storeVars
  <2>2. CASE a = b
    <3>1. run[a] = "running" /\ att[a].step \in Steps /\ lease[a].state = "active"
      BY <1>3, <2>2 DEF StartExecutor, ClaimIsLive
    <3>2. Latest(att[a].step, a)
      BY <3>1 DEF DriverIInv, IInv, OneOwnerPerStep, OwnerIsLatest, Unresolved
    <3> QED
      BY <1>1, <2>1, <3>1, <3>2 DEF Fenced, Latest, AttemptsOf, Unresolved
  <2>3. CASE a # b
    <3>1. exec[a] = "live"
      BY <1>3, <2>3 DEF StartExecutor, DriverIInv, ExecutorsFenced
    <3> QED
      BY <1>2, <2>1, <3>1 DEF DriverIInv, ExecutorsFenced, Fenced
  <2> QED
    BY <2>2, <2>3
<1>4. CASE ClaimQueuedRun(b) \/ CancelRun(b)
  <2>1. exec[a] = "live"
    BY <1>4 DEF ClaimQueuedRun, CancelRun, envVars
  <2>2. run[a] \in {"running", "cancelling"}
    BY <2>1 DEF DriverIInv, ExecutorsFenced, Fenced
  <2>3. run'[a] \in {"running", "cancelling"}
    BY <1>4, <2>2 DEF ClaimQueuedRun, CancelRun, MoveRun, DriverIInv, IInv, TypeOK
  <2> QED
    BY <1>2, <2>1, <2>3
<1>5. CASE RefuseRun(b) \/ FinishRun(b)
  <2>1. a # b /\ exec[a] = "live"
    BY <1>5 DEF RefuseRun, FinishRun, DriverIInv, ExecutorsFenced
  <2>2. run[a] \in {"running", "cancelling"}
    BY <2>1 DEF DriverIInv, ExecutorsFenced, Fenced
  <2>3. run'[a] = run[a]
    BY <1>5, <2>1 DEF RefuseRun, FinishRun, MoveRun, DriverIInv, IInv, TypeOK
  <2> QED
    BY <1>2, <2>1, <2>2, <2>3
<1> QED
  BY <1>3, <1>4, <1>5 DEF RunService

LEMMA ExecutorsKept ==
  ASSUME DriverIInv, [LongWorkNext]_vars PROVE ExecutorsFenced'
<1>1. exec' \in [Attempts -> {"idle", "live", "over"}]
  BY ExecutorsTyped DEF DriverIInv, ExecutorsFenced
<1>2. [StoreNext]_storeVars
  BY EveryStepIsTheStores DEF DriverIInv, IInv
<1>3. SUFFICES ASSUME NEW a \in Attempts, exec'[a] = "live" PROVE Fenced(a)'
  BY <1>1 DEF ExecutorsFenced
<1>4. exec[a] = "live" => Fenced(a)
  BY DEF DriverIInv, ExecutorsFenced
<1>5. CASE Calm /\ exec' = exec
  BY <1>2, <1>3, <1>4, <1>5, CalmKeepsFence
<1>6. ASSUME NEW p \in Procs, Settle(p), exec' = exec PROVE Fenced(a)'
  BY <1>2, <1>3, <1>4, <1>6, SettleKeepsFence
<1>7. ASSUME NEW p \in Procs, Creates(p), exec' = exec PROVE Fenced(a)'
  <2>1. Fenced(a)
    BY <1>3, <1>4, <1>7
  <2>2. /\ att' = att /\ lease' = lease /\ step' = step
        /\ run[act[p].a] = "none" /\ run' = [run EXCEPT ![act[p].a] = "queued"]
    BY <1>7 DEF Creates, CreateInternalStepRun
  <2>3. run'[a] = run[a]
    BY <2>1, <2>2 DEF Fenced, DriverIInv, IInv, TypeOK
  <2> QED
    BY <2>1, <2>2, <2>3 DEF Fenced, Latest, AttemptsOf, Unresolved
<1>8. CASE \E b \in Attempts : RunService(b)
  BY <1>3, <1>8, ServiceKeepsFence
<1>9. CASE Restart
  <2>1. exec'[a] = IF run[a] \in {"running", "cancelling"} THEN "over" ELSE exec[a]
    BY <1>9 DEF Restart
  <2> QED
    BY <1>3, <1>4, <2>1 DEF Fenced
<1> QED
  BY <1>5, <1>6, <1>7, <1>8, <1>9, DriverSteps DEF DriverIInv

LEMMA InitDriver == LongWorkInit => DriverIInv
<1> SUFFICES ASSUME LongWorkInit PROVE DriverIInv
  OBVIOUS
<1>1. IInv /\ MemoryOK /\ Init
  BY InitIInv, InitMemory DEF LongWorkInit
<1>2. FindingsHold
  BY IdleIsSane DEF LongWorkInit, FindingsHold
<1>3. NumbersDiffer /\ WaitsOfKind
  BY <1>1 DEF Init, NumbersDiffer, WaitsOfKind
<1>4. ExecutorsFenced
  BY DEF LongWorkInit, ExecutorsFenced
<1> QED
  BY <1>1, <1>2, <1>3, <1>4 DEF DriverIInv

LEMMA DriverKept == DriverIInv /\ [LongWorkNext]_vars => DriverIInv'
<1> SUFFICES ASSUME DriverIInv, [LongWorkNext]_vars PROVE DriverIInv'
  OBVIOUS
<1>1. IInv /\ TypeOK /\ MemoryOK /\ FindingsHold /\ NumbersDiffer /\ WaitsOfKind
  BY DEF DriverIInv, IInv
<1>2. [StoreNext]_storeVars
  BY <1>1, EveryStepIsTheStores
<1> QED
  BY <1>1, <1>2, IInvKept, MemoryKept, FindingsKept, NumbersKept, KindsKept, ExecutorsKept
     DEF DriverIInv

THEOREM DriverInvariant == LongWorkSpec => []DriverIInv
  BY InitDriver, DriverKept, PTL DEF LongWorkSpec

(* However many executions of the Activity overlap, and whatever crashes,  *)
(* times out or restarts, no Step ever has two live executors: each has    *)
(* the latest Attempt of its Step, and there is only one latest.           *)
THEOREM OneExecutor == LongWorkSpec => []OneExecutorPerStep
<1>1. ASSUME DriverIInv PROVE OneExecutorPerStep
  <2> SUFFICES ASSUME NEW a \in Attempts, NEW b \in Attempts, exec[a] = "live", exec[b] = "live",
                      att[a].step = att[b].step
               PROVE  a = b
    BY DEF OneExecutorPerStep
  <2>1. att[a].step \in Steps /\ Latest(att[a].step, a) /\ Latest(att[a].step, b)
    BY <1>1 DEF DriverIInv, ExecutorsFenced, Fenced
  <2>2. att[a].num = att[b].num
    <3>1. att[a].num <= att[b].num /\ att[b].num <= att[a].num
      BY <2>1 DEF Latest, AttemptsOf
    <3>2. att[a].num \in Nat /\ att[b].num \in Nat
      BY <1>1 DEF DriverIInv, IInv, TypeOK
    <3> QED
      BY <3>1, <3>2
  <2>3. att[a].status # "unused" /\ att[b].status # "unused"
    BY <1>1, <2>1, ParametersAssumption DEF DriverIInv, IInv, Numbering
  <2> QED
    BY <1>1, <2>2, <2>3 DEF DriverIInv, NumbersDiffer
<1> QED
  BY <1>1, DriverInvariant, PTL

(* Executions of the Activity do not overlap: Temporal has never given one *)
(* up that still goes on.                                                  *)
OneExecution == ~Overlapping

(* As long as executions of the Activity do not overlap, a live executor   *)
(* is fenced: the outcome of its Attempt stays open.                       *)
THEOREM LiveRunFenced == ASSUME OneExecution PROVE LongWorkSpec => []LiveRunIsFenced
<1>1. DriverIInv => LiveRunIsFenced
  BY DEF OneExecution, DriverIInv, ExecutorsFenced, Fenced, LiveRunIsFenced
<1> QED
  BY <1>1, DriverInvariant, PTL

(***************************************************************************)
(* Evidence stays: a checkpoint is never removed, an ended Run stays as it *)
(* ended, and an Attempt under review or accepted stays the latest.        *)
(***************************************************************************)
LEMMA CheckpointsAreWritten ==
  ASSUME [StoreNext]_storeVars
  PROVE  ckpt' = ckpt \/ \E a \in Attempts : WriteClaimedCheckpoint(a)
<1>1. SettleNext => ckpt' = ckpt
  BY DEF SettleNext, SettleClaimedStep, ScheduleClaimedStepRetry, ReconcileQuarantinedStep,
     ResolveQuarantinedRunStep, ReconcileQuarantinedCheckpointStep, SettleClaimedStepCancellation,
     SettleQuarantinedReadOnlyStepCancellation
<1>2. ASSUME NEW s \in Steps, CreateWait(s, step[s].version) \/ FireDueWait(s, step[s].version)
                              \/ RecordSignal(s, step[s].version)
      PROVE  ckpt' = ckpt
  BY <1>2 DEF CreateWait, FireDueWait, RecordSignal
<1>3. ASSUME NEW s \in Steps, NEW to \in StepStatus,
             TransitionStep(s, step[s].version, step[s].status, to)
      PROVE  ckpt' = ckpt
  BY <1>3 DEF TransitionStep
<1>4. ASSUME NEW s \in Steps, MarkTaskNeedsAttention(s) \/ WaitFallsDue(s)
      PROVE  ckpt' = ckpt
  BY <1>4 DEF MarkTaskNeedsAttention, WaitFallsDue
<1>5. ASSUME NEW s \in Steps, NEW a \in Attempts,
             \/ ClaimReadyStep(s, a, step[s].version)
             \/ AcceptDurableStep(s, a, step[s].version)
             \/ ReworkDurableStep(s, a, step[s].version)
      PROVE  ckpt' = ckpt
  BY <1>5 DEF ClaimReadyStep, AcceptDurableStep, ReworkDurableStep
<1>6. StepNext => ckpt' = ckpt
  BY <1>2, <1>3, <1>4, <1>5 DEF StepNext
<1>7. RunNext => ckpt' = ckpt \/ \E a \in Attempts : WriteClaimedCheckpoint(a)
  BY DEF RunNext, Heartbeat, CreateInternalStepRun, MoveRun, LeaseExpires
<1>8. TaskNext => ckpt' = ckpt
  BY DEF TaskNext, MarkTaskReview, AcceptDurableTask, RequestDurableCancellation,
     SettleDurableCancellation, RecoverRuns, ChangeGrant
<1> QED
  BY <1>1, <1>6, <1>7, <1>8 DEF StoreNext, storeVars

LEMMA AppliedStays ==
  ASSUME [StoreNext]_storeVars, NEW s \in Steps, step'[s].gen = step[s].gen
  PROVE  /\ Applied(s) => Applied(s)'
         /\ Applied(s)' => Applied(s) \/ \E b \in Attempts : WriteClaimedCheckpoint(b) /\ att[b].step = s
<1>1. CASE ckpt' = ckpt
  BY <1>1 DEF Applied
<1>2. ASSUME NEW b \in Attempts, WriteClaimedCheckpoint(b)
      PROVE  /\ Applied(s) => Applied(s)'
             /\ Applied(s)' => Applied(s) \/ att[b].step = s
  BY <1>2 DEF WriteClaimedCheckpoint, Applied
<1> QED
  BY <1>1, <1>2, CheckpointsAreWritten

Reviewed == {"review", "succeeded"}

LEMMA ReviewedStays ==
  ASSUME IInv, [StoreNext]_storeVars, NEW a \in Attempts, att[a].status \in Reviewed
  PROVE  att'[a].status \in Reviewed
<1>1. CASE SameAttempts
  BY <1>1 DEF SameAttempts, Reviewed
<1>2. ASSUME NEW s \in Steps, NEW b \in Attempts, ClaimReadyStep(s, b, step[s].version)
      PROVE  att'[a] = att[a]
  <2>1. a # b
    BY <1>2 DEF ClaimReadyStep, Reviewed
  <2> QED
    BY <1>2, <2>1 DEF ClaimReadyStep, IInv, TypeOK
<1> QED
  BY <1>1, <1>2, OnlyClaimsGive DEF IInv

Evidenced(s) ==
  \E a \in AttemptsOf(s) :
    /\ Latest(s, a) /\ att[a].status \in Reviewed
    /\ Kind[s] = "model" => run[a] = "succeeded"
    /\ Kind[s] = "write" => Applied(s)

LEMMA EvidenceStays ==
  ASSUME DriverIInv, [LongWorkNext]_vars, NEW s \in Steps, Evidenced(s),
         step[s].status # "ready", step'[s].gen = step[s].gen
  PROVE  Evidenced(s)'
<1>1. [StoreNext]_storeVars
  BY EveryStepIsTheStores DEF DriverIInv, IInv
<1>2. PICK a \in Attempts : /\ att[a].step = s /\ Latest(s, a) /\ att[a].status \in Reviewed
                            /\ Kind[s] = "model" => run[a] = "succeeded"
                            /\ Kind[s] = "write" => Applied(s)
  BY DEF Evidenced, AttemptsOf
<1>3. att'[a].step = s /\ Latest(s, a)'
  BY <1>1, <1>2, LatestStays DEF DriverIInv
<1>4. att'[a].status \in Reviewed
  BY <1>1, <1>2, ReviewedStays DEF DriverIInv
<1>5. run[a] = "succeeded" => run'[a] = "succeeded"
  BY RunsEndOnce DEF DriverIInv, IInv, RunClosed
<1>6. Applied(s) => Applied(s)'
  BY <1>1, AppliedStays
<1> QED
  BY <1>2, <1>3, <1>4, <1>5, <1>6 DEF Evidenced, AttemptsOf

(***************************************************************************)
(* Work under review rests on evidence, step by step.                      *)
(***************************************************************************)
LEMMA CalmReview ==
  ASSUME DriverIInv, ReviewRestsOnEvidence, [LongWorkNext]_vars, Calm,
         NEW s \in Steps, Kind[s] \in RunKinds, step'[s].status \in Reviewed
  PROVE  Evidenced(s)'
<1>1. [StoreNext]_storeVars
  BY EveryStepIsTheStores DEF DriverIInv, IInv
<1>2. CalmMove(s)
  BY CalmMoves DEF DriverIInv
<1>3. CASE step[s].status \in Reviewed
  <2>1. step'[s].gen = step[s].gen
    BY <1>2 DEF CalmMove, Reworked, Reviewed
  <2>2. Evidenced(s)
    BY <1>3 DEF ReviewRestsOnEvidence, Evidenced, Reviewed
  <2> QED
    BY <1>3, <2>1, <2>2, EvidenceStays DEF Reviewed
<1>4. CASE step[s].status \notin Reviewed
  <2>1. FoundOut(s) /\ step'[s].gen = step[s].gen /\ step'[s].status = "review"
    BY <1>2, <1>4 DEF CalmMove, Rises, Passes, FoundOut, Reworked, Reviewed
  <2>2. PICK a \in Attempts : /\ att[a].step = s /\ Unresolved(a) /\ att'[a].status = "review"
                              /\ Kind[s] = "model" => run[a] = "succeeded"
                              /\ Kind[s] = "write" => Applied(s)
    BY <2>1 DEF FoundOut, AttemptsOf
  <2>3. Latest(s, a) /\ step[s].status # "ready"
    BY <2>1, <2>2 DEF DriverIInv, IInv, OneOwnerPerStep, OwnerIsLatest, FoundOut
  <2>4. att'[a].step = s /\ Latest(s, a)'
    BY <1>1, <2>2, <2>3, LatestStays DEF DriverIInv
  <2>5. run' = run
    BY CalmFences DEF DriverIInv
  <2>6. Applied(s) => Applied(s)'
    BY <1>1, <2>1, AppliedStays
  <2> QED
    BY <2>2, <2>4, <2>5, <2>6 DEF Evidenced, AttemptsOf, Reviewed
<1> QED
  BY <1>3, <1>4

LEMMA SettledReview ==
  ASSUME DriverIInv, ReviewRestsOnEvidence, [LongWorkNext]_vars, NEW p \in Procs, Settle(p),
         NEW s \in Steps, Kind[s] \in RunKinds, step'[s].status \in Reviewed
  PROVE  Evidenced(s)'
<1>1. [StoreNext]_storeVars
  BY EveryStepIsTheStores DEF DriverIInv, IInv
<1>2. PICK t \in Steps, a \in Attempts :
        /\ att[a].step = t /\ lease[a].state = "active"
        /\ Settlement(t, a)
        /\ run' = run
        /\ \A r \in Steps \ {t} : step'[r] = step[r]
        /\ step[t].status = "running"
  BY SettlementIs DEF DriverIInv
<1>3. CASE s = t
  <2>1. att'[a].status = "review" /\ Kind[s] # "write" /\ run[a] = "succeeded"
    BY <1>2, <1>3 DEF Settlement, Reviewed
  <2>2. Latest(s, a)
    BY <1>2, <1>3 DEF DriverIInv, IInv, OneOwnerPerStep, OwnerIsLatest, Unresolved
  <2>3. att'[a].step = s /\ Latest(s, a)'
    BY <1>1, <1>2, <1>3, <2>2, LatestStays DEF DriverIInv
  <2> QED
    BY <1>2, <2>1, <2>3 DEF Evidenced, AttemptsOf, Reviewed
<1>4. CASE s # t
  <2>1. step'[s] = step[s]
    BY <1>2, <1>4
  <2>2. Evidenced(s)
    BY <2>1 DEF ReviewRestsOnEvidence, Evidenced, Reviewed
  <2> QED
    BY <2>1, <2>2, EvidenceStays DEF Reviewed
<1> QED
  BY <1>3, <1>4

LEMMA ReviewKept ==
  ASSUME DriverIInv, ReviewRestsOnEvidence, [LongWorkNext]_vars
  PROVE  ReviewRestsOnEvidence'
<1>1. SUFFICES ASSUME NEW s \in Steps, Kind[s] \in RunKinds, step'[s].status \in Reviewed
               PROVE  Evidenced(s)'
  BY DEF ReviewRestsOnEvidence, Evidenced, Reviewed
<1>2. CASE step' = step
  <2>1. Evidenced(s)
    BY <1>1, <1>2 DEF ReviewRestsOnEvidence, Evidenced, Reviewed
  <2> QED
    BY <1>1, <1>2, <2>1, EvidenceStays DEF Reviewed
<1>3. \A p \in Procs : Creates(p) => step' = step
  BY DEF Creates, CreateInternalStepRun
<1>4. \A a \in Attempts : RunService(a) => step' = step
  BY DEF RunService, ClaimQueuedRun, CancelRun, StartExecutor, RefuseRun, FinishRun, MoveRun,
     storeVars
<1>5. Restart => step' = step
  BY DEF Restart, RecoverRuns
<1> QED
  BY <1>1, <1>2, <1>3, <1>4, <1>5, CalmReview, SettledReview, DriverSteps DEF DriverIInv

(* Work put up for review or accepted rests on evidence: the latest        *)
(* Attempt of a Model Step has a Run that succeeded, a checkpoint write    *)
(* has its checkpoint, however executions overlap and whatever is lost.    *)
THEOREM ReviewRests == LongWorkSpec => []ReviewRestsOnEvidence
<1>1. LongWorkInit => ReviewRestsOnEvidence
  BY DEF LongWorkInit, Init, ReviewRestsOnEvidence
<1>2. DriverIInv /\ ReviewRestsOnEvidence /\ [LongWorkNext]_vars => ReviewRestsOnEvidence'
  BY ReviewKept
<1> QED
  BY <1>1, <1>2, DriverInvariant, PTL DEF LongWorkSpec

(***************************************************************************)
(* A checkpoint write that is yet to be tried, or has failed, has written  *)
(* nothing in this generation; and neither has one whose claim is active   *)
(* while its Run has not begun.                                            *)
(***************************************************************************)
Unwritten == {"pending", "ready", "waiting", "failed"}

WritesKnown ==
  \A s \in Steps : Kind[s] = "write" =>
    /\ step[s].status \in Unwritten => ~Applied(s)
    /\ \A a \in AttemptsOf(s) : lease[a].state = "active" /\ run[a] \in {"none", "queued"} => ~Applied(s)

CheckpointsPast == \A c \in ckpt : c[2] <= step[c[1]].gen

LEMMA GenerationsGrow ==
  ASSUME DriverIInv, [LongWorkNext]_vars, NEW s \in Steps
  PROVE  step'[s].gen = step[s].gen \/ (Calm /\ Reworked(s))
<1>1. CASE Calm
  BY <1>1, CalmMoves DEF DriverIInv, CalmMove
<1>2. ASSUME NEW p \in Procs, Settle(p) PROVE step'[s].gen = step[s].gen
  BY <1>2, SettlementIs DEF DriverIInv
<1>3. \A p \in Procs : Creates(p) => step' = step
  BY DEF Creates, CreateInternalStepRun
<1>4. \A a \in Attempts : RunService(a) => step' = step
  BY DEF RunService, ClaimQueuedRun, CancelRun, StartExecutor, RefuseRun, FinishRun, MoveRun,
     storeVars
<1>5. Restart => step' = step
  BY DEF Restart, RecoverRuns
<1> QED
  BY <1>1, <1>2, <1>3, <1>4, <1>5, DriverSteps DEF DriverIInv

LEMMA PastKept ==
  ASSUME DriverIInv, CheckpointsPast, [LongWorkNext]_vars PROVE CheckpointsPast'
<1>1. [StoreNext]_storeVars
  BY EveryStepIsTheStores DEF DriverIInv, IInv
<1>2. \A s \in Steps : step[s].gen \in Nat /\ step'[s].gen \in Nat /\ step[s].gen <= step'[s].gen
  <2>1. TypeOK /\ TypeOK'
    BY <1>1, StepsKeepTypeOK DEF DriverIInv, IInv
  <2>2. \A s \in Steps : step[s].gen \in Nat /\ step'[s].gen \in Nat
    BY <2>1 DEF TypeOK
  <2>3. \A s \in Steps : step'[s].gen \in {step[s].gen, step[s].gen + 1}
    BY GenerationsGrow DEF Reworked
  <2> QED
    BY <2>2, <2>3
<1>3. \A c \in ckpt : c[1] \in Steps /\ c[2] \in Nat
  BY DEF DriverIInv, IInv, TypeOK
<1>4. \A c \in ckpt : c[2] <= step'[c[1]].gen
  BY <1>2, <1>3 DEF CheckpointsPast
<1>5. ASSUME NEW a \in Attempts, WriteClaimedCheckpoint(a) PROVE CheckpointsPast'
  <2>1. att[a].step \in Steps /\ ckpt' = ckpt \cup {<<att[a].step, step[att[a].step].gen, a>>} /\ step' = step
    BY <1>5 DEF WriteClaimedCheckpoint
  <2> QED
    BY <1>2, <1>4, <2>1 DEF CheckpointsPast
<1> QED
  BY <1>1, <1>4, <1>5, CheckpointsAreWritten DEF CheckpointsPast

(* No executor writes the checkpoint of a Step that is not running, nor    *)
(* one for an Attempt whose Run has not begun.                             *)
LEMMA UnwrittenStays ==
  ASSUME DriverIInv, [StoreNext]_storeVars, NEW s \in Steps, step'[s].gen = step[s].gen, ~Applied(s)
  PROVE  /\ step[s].status # "running" => ~Applied(s)'
         /\ \A a \in AttemptsOf(s) :
              lease[a].state = "active" /\ run[a] \in {"none", "queued"} => ~Applied(s)'
<1>1. ASSUME NEW b \in Attempts, WriteClaimedCheckpoint(b), att[b].step = s
      PROVE  step[s].status = "running" /\ run[b] = "running" /\ Unresolved(b)
  BY <1>1 DEF WriteClaimedCheckpoint, Unresolved
<1>2. ASSUME NEW a \in AttemptsOf(s), lease[a].state = "active",
             NEW b \in Attempts, att[b].step = s, Unresolved(b)
      PROVE  a = b
  BY <1>2 DEF DriverIInv, IInv, OneOwnerPerStep, OneOpenOutcome, Unresolved, AttemptsOf
<1>3. CASE \E b \in Attempts : WriteClaimedCheckpoint(b) /\ att[b].step = s
  BY <1>1, <1>2, <1>3
<1> QED
  BY <1>3, AppliedStays

LEMMA UnwrittenMoves ==
  ASSUME OneExecution, DriverIInv, WritesKnown, CheckpointsPast, [LongWorkNext]_vars,
         NEW s \in Steps, Kind[s] = "write", step'[s].status \in Unwritten
  PROVE  ~Applied(s)'
<1>1. [StoreNext]_storeVars
  BY EveryStepIsTheStores DEF DriverIInv, IInv
<1>2. CASE step'[s].gen = step[s].gen /\ ~Applied(s) /\ step[s].status # "running"
  BY <1>1, <1>2, UnwrittenStays
<1>3. CASE step'[s] = step[s]
  BY <1>2, <1>3 DEF WritesKnown, Unwritten
<1>4. CASE Calm
  <2>1. CASE Reworked(s)
    <3>1. step'[s].gen = step[s].gen + 1 /\ step[s].gen \in Nat
      BY <2>1 DEF Reworked, DriverIInv, IInv, TypeOK
    <3>2. \A c \in ckpt : c[1] = s => c[2] # step'[s].gen
      <4>1. \A c \in ckpt : c[2] \in Nat
        BY DEF DriverIInv, IInv, TypeOK
      <4> QED
        BY <3>1, <4>1 DEF CheckpointsPast
    <3>3. step[s].status # "running"
      BY <2>1 DEF Reworked
    <3>4. \A b \in Attempts : <<s, step'[s].gen, b>> \notin ckpt
      BY <3>2
    <3>5. ASSUME NEW b \in Attempts, WriteClaimedCheckpoint(b) PROVE step' = step
      BY <3>5 DEF WriteClaimedCheckpoint
    <3>6. ckpt' = ckpt
      BY <1>1, <3>1, <3>5, CheckpointsAreWritten
    <3> QED
      BY <3>4, <3>6 DEF Applied
  <2>2. CASE ~Reworked(s)
    <3>1. CalmMove(s)
      BY <1>4, CalmMoves DEF DriverIInv
    <3>2. step[s].status \in Unwritten \/ (FoundOut(s) /\ ~Applied(s))
      BY <2>2, <3>1 DEF CalmMove, Rises, Passes, FoundOut, Unwritten, RunKinds
    <3>3. step'[s].gen = step[s].gen /\ step[s].status # "running" /\ ~Applied(s)
      BY <2>2, <3>1, <3>2 DEF CalmMove, WritesKnown, Unwritten, FoundOut
    <3> QED
      BY <1>2, <3>3
  <2> QED
    BY <2>1, <2>2
<1>5. ASSUME NEW p \in Procs, Settle(p) PROVE ~Applied(s)'
  <2>1. PICK t \in Steps, a \in Attempts :
          /\ att[a].step = t /\ lease[a].state = "active"
          /\ Settlement(t, a)
          /\ ckpt' = ckpt /\ step'[t].gen = step[t].gen
          /\ \A r \in Steps \ {t} : step'[r] = step[r]
    BY <1>5, SettlementIs DEF DriverIInv
  <2>2. CASE s = t
    <3>1. run[a] = "none" /\ a \in AttemptsOf(s)
      BY <2>1, <2>2 DEF Settlement, Unwritten, OneExecution, AttemptsOf
    <3>2. ~Applied(s)
      BY <2>1, <3>1 DEF WritesKnown
    <3> QED
      BY <2>1, <2>2, <3>2 DEF Applied
  <2> QED
    BY <1>3, <2>1, <2>2
<1>6. \A p \in Procs : Creates(p) => step' = step
  BY DEF Creates, CreateInternalStepRun
<1>7. \A a \in Attempts : RunService(a) => step' = step
  BY DEF RunService, ClaimQueuedRun, CancelRun, StartExecutor, RefuseRun, FinishRun, MoveRun,
     storeVars
<1>8. Restart => step' = step
  BY DEF Restart, RecoverRuns
<1> QED
  BY <1>3, <1>4, <1>5, <1>6, <1>7, <1>8, DriverSteps DEF DriverIInv

(* Only a claim gives an active lease, and no Run is queued twice.         *)
LEMMA OnlyClaimsActivate ==
  ASSUME IInv, [StoreNext]_storeVars, NEW a \in Attempts, lease'[a].state = "active"
  PROVE  \/ lease[a].state = "active"
         \/ \E s \in Steps : ClaimReadyStep(s, a, step[s].version)
<1>1. ASSUME NEW b \in Attempts, NEW state \in {"released", "quarantined"}, MoveLease(b, state)
      PROVE  lease[a].state = "active"
  BY <1>1 DEF MoveLease, IInv, TypeOK
<1>2. SettleNext => \E b \in Attempts, state \in {"released", "quarantined"} : MoveLease(b, state)
  BY DEF SettleNext, SettleClaimedStep, ScheduleClaimedStepRetry, ReconcileQuarantinedStep,
     ResolveQuarantinedRunStep, ReconcileQuarantinedCheckpointStep, SettleClaimedStepCancellation,
     SettleQuarantinedReadOnlyStepCancellation
<1>3. ASSUME NEW s \in Steps, NEW b \in Attempts, ClaimReadyStep(s, b, step[s].version)
      PROVE  lease[a].state = "active" \/ a = b
  BY <1>3 DEF ClaimReadyStep, IInv, TypeOK
<1>4. ASSUME NEW s \in Steps,
             \/ CreateWait(s, step[s].version)
             \/ FireDueWait(s, step[s].version)
             \/ RecordSignal(s, step[s].version)
             \/ \E to \in StepStatus : TransitionStep(s, step[s].version, step[s].status, to)
             \/ MarkTaskNeedsAttention(s)
             \/ WaitFallsDue(s)
             \/ \E b \in Attempts : AcceptDurableStep(s, b, step[s].version)
                                    \/ ReworkDurableStep(s, b, step[s].version)
      PROVE  lease' = lease
  BY <1>4 DEF CreateWait, FireDueWait, RecordSignal, TransitionStep, MarkTaskNeedsAttention,
     WaitFallsDue, AcceptDurableStep, ReworkDurableStep
<1>5. ASSUME NEW b \in Attempts, Heartbeat(b, lease[b].version) \/ LeaseExpires(b)
      PROVE  lease'[a].state = lease[a].state
  BY <1>5 DEF Heartbeat, LeaseExpires, IInv, TypeOK
<1>6. RunNext \/ TaskNext =>
        lease' = lease \/ \E b \in Attempts : Heartbeat(b, lease[b].version) \/ LeaseExpires(b)
  <2>1. ASSUME NEW b \in Attempts,
               \/ CreateInternalStepRun(b)
               \/ \E to \in RunLive \cup RunClosed : MoveRun(b, to)
               \/ WriteClaimedCheckpoint(b)
        PROVE  lease' = lease
    BY <2>1 DEF CreateInternalStepRun, MoveRun, WriteClaimedCheckpoint
  <2>2. TaskNext => lease' = lease
    BY DEF TaskNext, MarkTaskReview, AcceptDurableTask, RequestDurableCancellation,
       SettleDurableCancellation, RecoverRuns, ChangeGrant
  <2> QED
    BY <2>1, <2>2 DEF RunNext
<1>7. SettleNext => lease[a].state = "active"
  BY <1>1, <1>2
<1>8. StepNext => lease' = lease \/ \E s \in Steps, b \in Attempts : ClaimReadyStep(s, b, step[s].version)
  BY <1>4 DEF StepNext
<1>9. lease' = lease => lease[a].state = "active"
  OBVIOUS
<1> QED
  BY <1>3, <1>5, <1>6, <1>7, <1>8, <1>9 DEF StoreNext, storeVars

LEMMA NewRunsBegin ==
  ASSUME IInv, MemoryOK, [LongWorkNext]_vars, NEW a \in Attempts, run'[a] \in {"none", "queued"}
  PROVE  run[a] \in {"none", "queued"}
<1>1. run' = run => run[a] \in {"none", "queued"}
  OBVIOUS
<1>2. ASSUME NEW p \in Procs, Creates(p) PROVE run[a] \in {"none", "queued"}
  <2>1. PICK b : run[b] = "none" /\ run' = [run EXCEPT ![b] = "queued"]
    BY <1>2 DEF Creates, CreateInternalStepRun
  <2>2. a # b => run'[a] = run[a]
    BY <2>1 DEF IInv, TypeOK
  <2> QED
    BY <2>1, <2>2
<1>3. ASSUME NEW b \in Attempts, NEW to, MoveRun(b, to), to \notin {"none", "queued"}
      PROVE  run[a] \in {"none", "queued"}
  BY <1>3 DEF MoveRun, IInv, TypeOK
<1>4. ASSUME NEW b \in Attempts, NEW to, MoveRun(b, to) PROVE to \notin {"none", "queued"}
  BY <1>4 DEF MoveRun, RunTransitions, RunLive, RunClosed
<1>5. Restart => run[a] \in {"none", "queued"}
  BY DEF Restart, RecoverRuns
<1>6. Calm => run' = run
  BY CalmFences
<1>7. \A p \in Procs : Settle(p) => run' = run
  BY DEF Settle, ScheduleClaimedStepRetry, SettleClaimedStep
<1>8. ASSUME NEW b \in Attempts, RunService(b)
      PROVE  run' = run \/ \E to : MoveRun(b, to)
  BY <1>8 DEF RunService, StartExecutor, ClaimQueuedRun, CancelRun, RefuseRun, FinishRun, storeVars
<1> QED
  BY <1>1, <1>2, <1>3, <1>4, <1>5, <1>6, <1>7, <1>8, DriverSteps

LEMMA ActiveUnwritten ==
  ASSUME DriverIInv, WritesKnown, [LongWorkNext]_vars,
         NEW s \in Steps, Kind[s] = "write", NEW a \in Attempts,
         att'[a].step = s, lease'[a].state = "active", run'[a] \in {"none", "queued"}
  PROVE  ~Applied(s)'
<1>1. [StoreNext]_storeVars
  BY EveryStepIsTheStores DEF DriverIInv, IInv
<1>2. ASSUME NEW t \in Steps, NEW b \in Attempts, ClaimReadyStep(t, b, step[t].version)
      PROVE  /\ att'[b].step = t /\ step[t].status = "ready"
             /\ \A c \in Attempts \ {b} : att'[c].step = att[c].step
             /\ ckpt' = ckpt /\ \A r \in Steps : step'[r].gen = step[r].gen
  BY <1>2 DEF ClaimReadyStep, MoveStep, DriverIInv, IInv, TypeOK
<1>3. CASE \E t \in Steps : ClaimReadyStep(t, a, step[t].version)
  BY <1>2, <1>3 DEF WritesKnown, Unwritten, Applied
<1>4. CASE lease[a].state = "active" /\ ~\E t \in Steps : ClaimReadyStep(t, a, step[t].version)
  <2>1. att[a].step = s
    BY <1>1, <1>2, <1>4, OnlyClaimsGive DEF SameAttempts, DriverIInv, IInv
  <2>2. run[a] \in {"none", "queued"}
    BY NewRunsBegin DEF DriverIInv
  <2>3. step[s].status = "running" /\ ~Applied(s) /\ a \in AttemptsOf(s)
    BY <1>4, <2>1, <2>2 DEF DriverIInv, IInv, OneOwnerPerStep, ActiveOwnerRuns, WritesKnown, AttemptsOf
  <2>4. step'[s].gen = step[s].gen
    BY <2>3, GenerationsGrow DEF Reworked
  <2> QED
    BY <1>1, <1>4, <2>2, <2>3, <2>4, UnwrittenStays
<1> QED
  BY <1>1, <1>3, <1>4, OnlyClaimsActivate DEF DriverIInv

WriteIInv == DriverIInv /\ ReviewRestsOnEvidence /\ WritesKnown /\ CheckpointsPast

(* As long as executions of the Activity do not overlap, what is recorded  *)
(* of a checkpoint write is what happened: one that is to be tried or has  *)
(* failed was not applied in this generation, one under review or accepted *)
(* was.                                                                    *)
THEOREM WriteOutcomeTrue == ASSUME OneExecution PROVE LongWorkSpec => []WriteOutcomeIsTrue
<1>1. LongWorkInit => WriteIInv
  <2>1. LongWorkInit => ReviewRestsOnEvidence /\ WritesKnown /\ CheckpointsPast
    BY DEF LongWorkInit, Init, ReviewRestsOnEvidence, WritesKnown, CheckpointsPast, Applied
  <2> QED
    BY <2>1, InitDriver DEF WriteIInv
<1>2. WriteIInv /\ [LongWorkNext]_vars => WriteIInv'
  <2> SUFFICES ASSUME WriteIInv, [LongWorkNext]_vars PROVE WriteIInv'
    OBVIOUS
  <2>1. WritesKnown'
    <3> SUFFICES ASSUME NEW s \in Steps, Kind[s] = "write"
                 PROVE  /\ step'[s].status \in Unwritten => ~Applied(s)'
                        /\ \A a \in Attempts :
                             att'[a].step = s /\ lease'[a].state = "active"
                               /\ run'[a] \in {"none", "queued"} => ~Applied(s)'
      BY DEF WritesKnown, AttemptsOf
    <3> QED
      BY UnwrittenMoves, ActiveUnwritten DEF WriteIInv
  <2> QED
    BY <2>1, DriverKept, ReviewKept, PastKept DEF WriteIInv
<1>3. WriteIInv => WriteOutcomeIsTrue
  BY DEF WriteIInv, WritesKnown, Unwritten, ReviewRestsOnEvidence, RunKinds, WriteOutcomeIsTrue
<1> QED
  BY <1>1, <1>2, <1>3, PTL DEF LongWorkSpec

(***************************************************************************)
(* The driven Task implements OwnedWork.  What OwnedWork calls the holder  *)
(* of a Step is the Attempt whose outcome is open, of which there is one.  *)
(***************************************************************************)
LEMMA HolderIs ==
  ASSUME OneOpenOutcome, NEW s \in Steps, NEW a \in Attempts, att[a].step = s, Unresolved(a)
  PROVE  Holder(s) = a
<1>1. StepOwned(s) /\ a \in AttemptsOf(s)
  BY DEF StepOwned, AttemptsOf
<1>2. \A b \in AttemptsOf(s) : Unresolved(b) => b = a
  BY DEF OneOpenOutcome, AttemptsOf
<1> QED
  BY <1>1, <1>2 DEF Holder

LEMMA NextHolderIs ==
  ASSUME OneOpenOutcome', NEW s \in Steps, NEW a \in Attempts, att'[a].step = s, Unresolved(a)'
  PROVE  Holder(s)' = a
<1>1. StepOwned(s)' /\ a \in AttemptsOf(s)'
  BY DEF StepOwned, AttemptsOf
<1>2. \A b \in AttemptsOf(s)' : Unresolved(b)' => b = a
  BY DEF OneOpenOutcome, AttemptsOf
<1> QED
  BY <1>1, <1>2 DEF Holder

(* A Step whose owner, if any, stays has the same holder.                  *)
LEMMA HolderStays ==
  ASSUME OneOpenOutcome, OneOpenOutcome', NEW s \in Steps,
         \A a \in Attempts : Unresolved(a) /\ att[a].step = s <=> Unresolved(a)' /\ att'[a].step = s
  PROVE  Holder(s)' = Holder(s)
<1>1. CASE StepOwned(s)
  <2>1. PICK a \in Attempts : att[a].step = s /\ Unresolved(a)
    BY <1>1 DEF StepOwned, AttemptsOf
  <2> QED
    BY <2>1, HolderIs, NextHolderIs
<1>2. CASE ~StepOwned(s)
  <2>1. ~StepOwned(s)'
    BY <1>2 DEF StepOwned, AttemptsOf
  <2> QED
    BY <1>2, <2>1 DEF Holder
<1> QED
  BY <1>1, <1>2

SameOwners == SameAttempts /\ \A a \in Attempts : Unresolved(a)' <=> Unresolved(a)
LetsGo(a) ==
  /\ SameAttempts /\ Unresolved(a) /\ ~Unresolved(a)'
  /\ \A b \in Attempts \ {a} : Unresolved(b)' <=> Unresolved(b)

LEMMA SettledOwners ==
  ASSUME IInv, SettleNext PROVE SameOwners \/ \E a \in Attempts : LetsGo(a)
<1>1. SameAttempts
  BY SettlementsKeepAttempts DEF IInv
<1>2. \E a \in Attempts, state \in {"released", "quarantined"} :
        MoveLease(a, state) /\ lease[a].state \in {"active", "quarantined"}
  BY DEF SettleNext, SettleClaimedStep, ScheduleClaimedStepRetry, ReconcileQuarantinedStep,
     ResolveQuarantinedRunStep, ReconcileQuarantinedCheckpointStep, SettleClaimedStepCancellation,
     SettleQuarantinedReadOnlyStepCancellation, HoldsClaim, HoldsQuarantine
<1>3. PICK a \in Attempts, state \in {"released", "quarantined"} :
        MoveLease(a, state) /\ lease[a].state \in {"active", "quarantined"}
  BY <1>2
<1>4. lease'[a].state = state /\ \A b \in Attempts \ {a} : lease'[b] = lease[b]
  BY <1>3 DEF MoveLease, IInv, TypeOK
<1> QED
  BY <1>1, <1>3, <1>4 DEF SameOwners, LetsGo, Unresolved

LEMMA OwnerMoves ==
  ASSUME IInv, [StoreNext]_storeVars
  PROVE  \/ SameOwners
         \/ \E a \in Attempts : LetsGo(a)
         \/ \E s \in Steps, a \in Attempts : ClaimReadyStep(s, a, step[s].version)
<1>1. CASE SettleNext
  BY <1>1, SettledOwners
<1>2. ASSUME ~\E s \in Steps, a \in Attempts : ClaimReadyStep(s, a, step[s].version), ~SettleNext
      PROVE  \A a \in Attempts : Unresolved(a)' <=> Unresolved(a)
  <2>1. ASSUME NEW b \in Attempts, Heartbeat(b, lease[b].version) \/ LeaseExpires(b)
        PROVE  \A a \in Attempts : lease'[a].state = lease[a].state
    BY <2>1 DEF Heartbeat, LeaseExpires, IInv, TypeOK
  <2>2. ASSUME NEW b \in Attempts,
               \/ CreateInternalStepRun(b)
               \/ \E to \in RunLive \cup RunClosed : MoveRun(b, to)
               \/ WriteClaimedCheckpoint(b)
        PROVE  lease' = lease
    BY <2>2 DEF CreateInternalStepRun, MoveRun, WriteClaimedCheckpoint
  <2>3. TaskNext => lease' = lease
    BY DEF TaskNext, MarkTaskReview, AcceptDurableTask, RequestDurableCancellation,
       SettleDurableCancellation, RecoverRuns, ChangeGrant
  <2>4. ASSUME NEW s \in Steps,
               \/ CreateWait(s, step[s].version)
               \/ FireDueWait(s, step[s].version)
               \/ RecordSignal(s, step[s].version)
               \/ \E to \in StepStatus : TransitionStep(s, step[s].version, step[s].status, to)
               \/ MarkTaskNeedsAttention(s)
               \/ WaitFallsDue(s)
               \/ \E b \in Attempts : AcceptDurableStep(s, b, step[s].version)
                                      \/ ReworkDurableStep(s, b, step[s].version)
        PROVE  lease' = lease
    BY <2>4 DEF CreateWait, FireDueWait, RecordSignal, TransitionStep, MarkTaskNeedsAttention,
       WaitFallsDue, AcceptDurableStep, ReworkDurableStep
  <2>5. StepNext => lease' = lease
    BY <1>2, <2>4 DEF StepNext
  <2>6. RunNext => \A a \in Attempts : lease'[a].state = lease[a].state
    BY <2>1, <2>2 DEF RunNext
  <2> QED
    BY <1>2, <2>3, <2>5, <2>6 DEF StoreNext, storeVars, Unresolved
<1> QED
  BY <1>1, <1>2, OnlyClaimsGive DEF SameOwners, IInv

(* The calls that move the Task as OwnedWork sees it.                      *)
LEMMA PhaseMoves ==
  ASSUME IInv, [StoreNext]_storeVars
  PROVE  \/ TaskPhase' = TaskPhase
         \/ MarkTaskReview \/ AcceptDurableTask
         \/ RequestDurableCancellation \/ SettleDurableCancellation
<1>1. task' = task => TaskPhase' = TaskPhase
  BY DEF TaskPhase
<1>2. ASSUME task'.cancel = "none", task.cancel = "none",
             task.status \notin {"DONE", "REVIEW"}, task'.status \notin {"DONE", "REVIEW"}
      PROVE  TaskPhase' = TaskPhase
  BY <1>2 DEF TaskPhase
<1>3. ASSUME NEW s \in Steps, NEW a \in Attempts, ClaimReadyStep(s, a, step[s].version)
      PROVE  TaskPhase' = TaskPhase
  BY <1>2, <1>3 DEF ClaimReadyStep, Active, IInv, TypeOK
<1>4. ASSUME NEW s \in Steps, NEW a \in Attempts, ReworkDurableStep(s, a, step[s].version)
      PROVE  TaskPhase' = TaskPhase
  <2>1. task.status # "REVIEW"
    BY <1>4 DEF ReworkDurableStep, IInv, ReviewedTaskIsComplete, StepClosed
  <2> QED
    BY <1>2, <1>4, <2>1 DEF ReworkDurableStep, Active, IInv, TypeOK
<1>5. ASSUME NEW s \in Steps, MarkTaskNeedsAttention(s) PROVE TaskPhase' = TaskPhase
  <2>1. PICK to : task' = [task EXCEPT !.status = IF @ = "REVIEW" THEN @ ELSE "WAITING_INPUT"]
    BY <1>5 DEF MarkTaskNeedsAttention
  <2> QED
    BY <1>2, <1>5, <2>1 DEF MarkTaskNeedsAttention, Active, IInv, TypeOK, TaskPhase
<1>6. ASSUME NEW s \in Steps, NEW a \in Attempts, ReconcileQuarantinedStep(s, a, step[s].version, lease[a].version)
      PROVE  TaskPhase' = TaskPhase
  <2> DEFINE Resumes(ready) ==
        task' = [task EXCEPT !.status = IF @ = "WAITING_INPUT" /\ ready THEN "RUNNING" ELSE @]
  <2>1. Active /\ \E ready : Resumes(ready)
    <3>1. CASE ResolveQuarantinedRunStep(s, a, step[s].version, lease[a].version)
      <4>1. Resumes(/\ run[a] = "succeeded" /\ ~OtherIn(s, {"blocked", "failed"})
                    /\ attn' = {} /\ ~AnyWaiting)
        BY <3>1 DEF ResolveQuarantinedRunStep
      <4> QED
        BY <3>1, <4>1 DEF ResolveQuarantinedRunStep
    <3>2. CASE ReconcileQuarantinedCheckpointStep(s, a, step[s].version, lease[a].version)
      <4>1. Resumes((Applied(s) \/ RetryAllowed(s)) /\ ~OtherIn(s, {"blocked"}))
        BY <3>2 DEF ReconcileQuarantinedCheckpointStep
      <4> QED
        BY <3>2, <4>1 DEF ReconcileQuarantinedCheckpointStep
    <3> QED
      BY <1>6, <3>1, <3>2 DEF ReconcileQuarantinedStep
  <2>2. PICK ready : Resumes(ready)
    BY <2>1
  <2>3. task.status # "WAITING_INPUT" => task' = task
    BY <2>2 DEF IInv, TypeOK
  <2>4. task.status = "WAITING_INPUT" =>
          task'.status \in {"WAITING_INPUT", "RUNNING"} /\ task'.cancel = task.cancel
    BY <2>2 DEF IInv, TypeOK
  <2>5. task.cancel = "none"
    BY <2>1 DEF Active
  <2> QED
    BY <1>1, <1>2, <2>3, <2>4, <2>5
<1>7. SettleNext => task' = task \/ \E s \in Steps, a \in Attempts : ReconcileQuarantinedStep(s, a, step[s].version, lease[a].version)
  BY DEF SettleNext, SettleClaimedStep, ScheduleClaimedStepRetry, SettleClaimedStepCancellation,
     SettleQuarantinedReadOnlyStepCancellation
<1>8. ASSUME NEW s \in Steps,
             \/ CreateWait(s, step[s].version)
             \/ FireDueWait(s, step[s].version)
             \/ RecordSignal(s, step[s].version)
             \/ \E to \in StepStatus : TransitionStep(s, step[s].version, step[s].status, to)
             \/ WaitFallsDue(s)
             \/ \E b \in Attempts : AcceptDurableStep(s, b, step[s].version)
      PROVE  task' = task
  BY <1>8 DEF CreateWait, FireDueWait, RecordSignal, TransitionStep, WaitFallsDue, AcceptDurableStep
<1>9. CASE StepNext
  BY <1>1, <1>3, <1>4, <1>5, <1>8, <1>9 DEF StepNext
<1>10. RunNext => task' = task
  BY DEF RunNext, Heartbeat, CreateInternalStepRun, MoveRun, WriteClaimedCheckpoint, LeaseExpires
<1>11. RecoverRuns \/ ChangeGrant => task' = task
  BY DEF RecoverRuns, ChangeGrant
<1> QED
  BY <1>1, <1>6, <1>7, <1>9, <1>10, <1>11 DEF StoreNext, TaskNext, storeVars

(* Without overlapping executions no live executor loses its Step.         *)
LEMMA LiveOwns ==
  ASSUME OneExecution, DriverIInv', NEW a \in Attempts, exec'[a] = "live" PROVE Unresolved(a)'
  BY DEF OneExecution, DriverIInv, ExecutorsFenced, Fenced

LEMMA TakenStays ==
  ASSUME SameAttempts
  PROVE  {a \in Attempts : att'[a].status # "unused"} = {a \in Attempts : att[a].status # "unused"}
  BY DEF SameAttempts

LEMMA HoldersStay ==
  ASSUME IInv, IInv', SameOwners
  PROVE  [s \in Steps |-> Holder(s)]' = [s \in Steps |-> Holder(s)]
<1>1. ASSUME NEW s \in Steps PROVE Holder(s)' = Holder(s)
  <2>1. \A a \in Attempts : Unresolved(a) /\ att[a].step = s <=> Unresolved(a)' /\ att'[a].step = s
    BY DEF SameOwners, SameAttempts
  <2> QED
    BY <2>1, HolderStays DEF IInv, OneOwnerPerStep
<1> QED
  BY <1>1

LEMMA LetGoReleases ==
  ASSUME OneExecution, DriverIInv, DriverIInv', NEW a \in Attempts, LetsGo(a),
         exec' = exec, TaskPhase' = TaskPhase
  PROVE  \E s \in Steps : Promise!Release(s)
<1>1. IInv /\ IInv' /\ OneOpenOutcome /\ OneOpenOutcome'
  BY DEF DriverIInv, IInv, OneOwnerPerStep
<1>2. PICK s \in Steps : s = att[a].step
  BY <1>1 DEF LetsGo, IInv, OneOwnerPerStep, OwnerIsLatest
<1>3. Holder(s) = a
  BY <1>1, <1>2, HolderIs DEF LetsGo
<1>4. exec[a] # "live"
  BY LiveOwns DEF LetsGo
<1>5. Holder(s)' = None
  <2>1. \A b \in Attempts : att'[b].step = s => ~Unresolved(b)'
    BY <1>1, <1>2 DEF LetsGo, SameAttempts, OneOpenOutcome
  <2>2. ~StepOwned(s)'
    BY <2>1 DEF StepOwned, AttemptsOf
  <2> QED
    BY <2>2 DEF Holder
<1>6. ASSUME NEW t \in Steps \ {s} PROVE Holder(t)' = Holder(t)
  <2>1. \A b \in Attempts : Unresolved(b) /\ att[b].step = t <=> Unresolved(b)' /\ att'[b].step = t
    BY <1>2 DEF LetsGo, SameAttempts
  <2> QED
    BY <1>1, <2>1, HolderStays
<1>7. [t \in Steps |-> Holder(t)]' = [[t \in Steps |-> Holder(t)] EXCEPT ![s] = None]
  BY <1>5, <1>6
<1>8. SameAttempts
  BY DEF LetsGo
<1>9. a # None
  BY ParametersAssumption
<1> QED
  BY <1>3, <1>4, <1>7, <1>8, <1>9, TakenStays DEF Promise!Release

LEMMA ClaimTakes ==
  ASSUME DriverIInv, DriverIInv', NEW s \in Steps, NEW a \in Attempts,
         ClaimReadyStep(s, a, step[s].version), exec' = exec, TaskPhase' = TaskPhase
  PROVE  Promise!Take(s, a)
<1>1. IInv /\ IInv' /\ OneOpenOutcome /\ OneOpenOutcome'
  BY DEF DriverIInv, IInv, OneOwnerPerStep
<1>2. TaskPhase = "open"
  BY DEF ClaimReadyStep, Active, TaskPhase
<1>3. Holder(s) = None
  BY DEF ClaimReadyStep, Holder
<1>4. /\ att' = [att EXCEPT ![a] = [step |-> s, num |-> task.last + 1, status |-> "running"]]
      /\ lease' = [lease EXCEPT ![a] = [state |-> "active", version |-> 1, expired |-> FALSE]]
      /\ att[a].status = "unused"
  BY DEF ClaimReadyStep
<1>5. /\ att'[a].step = s /\ att'[a].status = "running" /\ lease'[a].state = "active"
      /\ \A b \in Attempts \ {a} : att'[b] = att[b] /\ lease'[b] = lease[b]
  BY <1>1, <1>4 DEF IInv, TypeOK
<1>6. lease[a].state = "none"
  BY <1>1, <1>4 DEF IInv, Numbering
<1>7. Holder(s)' = a
  BY <1>1, <1>5, NextHolderIs DEF Unresolved
<1>8. ASSUME NEW t \in Steps \ {s} PROVE Holder(t)' = Holder(t)
  <2>1. \A b \in Attempts : Unresolved(b) /\ att[b].step = t <=> Unresolved(b)' /\ att'[b].step = t
    BY <1>5, <1>6 DEF Unresolved
  <2> QED
    BY <1>1, <2>1, HolderStays
<1>9. [t \in Steps |-> Holder(t)]' = [[t \in Steps |-> Holder(t)] EXCEPT ![s] = a]
  BY <1>7, <1>8
<1>10. {b \in Attempts : att'[b].status # "unused"} = {b \in Attempts : att[b].status # "unused"} \cup {a}
  BY <1>5
<1> QED
  BY <1>2, <1>3, <1>4, <1>9, <1>10 DEF Promise!Take

(* A whole-Task call leaves every owner.                                   *)
LEMMA WholeTaskLeaves ==
  ASSUME IInv, IInv', WholeTaskNext
  PROVE  /\ [s \in Steps |-> Holder(s)]' = [s \in Steps |-> Holder(s)]
         /\ {a \in Attempts : att'[a].status # "unused"} = {a \in Attempts : att[a].status # "unused"}
<1>1. att' = att /\ lease' = lease
  BY OtherCallsLeave
<1>2. SameOwners
  BY <1>1 DEF SameOwners, SameAttempts, Unresolved
<1> QED
  BY <1>2, HoldersStay, TakenStays DEF SameOwners

LEMMA PhaseCallMaps ==
  ASSUME OneExecution, DriverIInv, DriverIInv', exec' = exec,
         \/ MarkTaskReview \/ AcceptDurableTask
         \/ RequestDurableCancellation \/ SettleDurableCancellation
  PROVE  Promise!OwnedNext
<1>1. /\ [s \in Steps |-> Holder(s)]' = [s \in Steps |-> Holder(s)]
      /\ {a \in Attempts : att'[a].status # "unused"} = {a \in Attempts : att[a].status # "unused"}
  BY WholeTaskLeaves DEF WholeTaskNext, DriverIInv
<1>2. (\A a \in Attempts : ~Unresolved(a)) => \A s \in Steps : Holder(s) = None
  BY DEF Holder, StepOwned, AttemptsOf
<1> DEFINE Same == /\ [s \in Steps |-> Holder(s)]' = [s \in Steps |-> Holder(s)]
                   /\ {a \in Attempts : att[a].status # "unused"}' = {a \in Attempts : att[a].status # "unused"}
                   /\ {a \in Attempts : exec[a] = "live"}' = {a \in Attempts : exec[a] = "live"}
                   /\ {a \in Attempts : exec[a] # "idle"}' = {a \in Attempts : exec[a] # "idle"}
<1>3. Same
  BY <1>1
<1> HIDE DEF Same
<1>4. task \in [status : TaskStatus, cancel : {"none", "requested", "settled"}, last : Nat]
  BY DEF DriverIInv, IInv, TypeOK
<1>5. CASE MarkTaskReview
  <2>1. TaskPhase = "open" /\ TaskPhase' = "review"
    BY <1>4, <1>5 DEF MarkTaskReview, Active, TaskPhase
  <2>2. \A s \in Steps : Holder(s) = None
    BY <1>2, <1>5 DEF MarkTaskReview
  <2>3. Promise!Offer
    BY <1>3, <2>1, <2>2 DEF Same, Promise!Offer, Promise!Free, Promise!Phase
  <2> QED
    BY <2>3 DEF Promise!OwnedNext
<1>6. CASE AcceptDurableTask
  <2>1. TaskPhase = "review" /\ TaskPhase' = "accepted"
    BY <1>4, <1>6 DEF AcceptDurableTask, TaskPhase
  <2>2. Promise!Accept
    BY <1>3, <2>1 DEF Same, Promise!Accept, Promise!Phase
  <2> QED
    BY <2>2 DEF Promise!OwnedNext
<1>7. CASE RequestDurableCancellation
  <2>1. TaskPhase \in {"open", "review"} /\ TaskPhase' = "stopping"
    BY <1>4, <1>7 DEF RequestDurableCancellation, Active, TaskPhase
  <2>2. Promise!Stop
    BY <1>3, <2>1 DEF Same, Promise!Stop, Promise!Phase
  <2> QED
    BY <2>2 DEF Promise!OwnedNext
<1>8. CASE SettleDurableCancellation
  <2>1. TaskPhase = "stopping" /\ TaskPhase' = "stopped"
    BY <1>4, <1>8 DEF SettleDurableCancellation, CancelPending, TaskPhase
  <2>2. \A a \in Attempts : ~Unresolved(a) /\ ~Unresolved(a)'
    BY <1>8 DEF SettleDurableCancellation, Settleable, Unresolved
  <2>3. \A s \in Steps : Holder(s) = None
    BY <1>2, <2>2
  <2>4. {a \in Attempts : exec[a] = "live"} = {}
    BY <2>2, LiveOwns
  <2>5. Promise!Stopped
    BY <1>3, <2>1, <2>3, <2>4 DEF Same, Promise!Stopped, Promise!Free, Promise!Phase
  <2> QED
    BY <2>5 DEF Promise!OwnedNext
<1> QED
  BY <1>5, <1>6, <1>7, <1>8

LEMMA StoreCallMaps ==
  ASSUME OneExecution, DriverIInv, DriverIInv', [StoreNext]_storeVars, exec' = exec
  PROVE  [Promise!OwnedNext]_(Promise!ownedVars)
<1>1. CASE TaskPhase' = TaskPhase
  <2>1. CASE SameOwners
    <3>1. [s \in Steps |-> Holder(s)]' = [s \in Steps |-> Holder(s)]
      BY <2>1, HoldersStay DEF DriverIInv
    <3>2. {a \in Attempts : att'[a].status # "unused"} = {a \in Attempts : att[a].status # "unused"}
      BY <2>1, TakenStays DEF SameOwners
    <3> QED
      BY <1>1, <3>1, <3>2 DEF Promise!ownedVars
  <2>2. ASSUME NEW a \in Attempts, LetsGo(a) PROVE Promise!OwnedNext
    BY <1>1, <2>2, LetGoReleases DEF Promise!OwnedNext
  <2>3. ASSUME NEW s \in Steps, NEW a \in Attempts, ClaimReadyStep(s, a, step[s].version)
        PROVE  Promise!OwnedNext
    BY <1>1, <2>3, ClaimTakes DEF Promise!OwnedNext
  <2> QED
    BY <2>1, <2>2, <2>3, OwnerMoves DEF DriverIInv
<1>2. CASE TaskPhase' # TaskPhase
  BY <1>2, PhaseMoves, PhaseCallMaps DEF DriverIInv
<1> QED
  BY <1>1, <1>2

LEMMA ExecutionMaps ==
  ASSUME DriverIInv, DriverIInv', task' = task, att' = att, lease' = lease, NEW S \in SUBSET Attempts,
         exec' = [a \in Attempts |-> IF a \in S THEN "over" ELSE exec[a]]
  PROVE  Promise!End(S)
<1>1. TaskPhase' = TaskPhase
  BY DEF TaskPhase
<1>2. SameOwners
  BY DEF SameOwners, SameAttempts, Unresolved
<1>3. [s \in Steps |-> Holder(s)]' = [s \in Steps |-> Holder(s)]
  BY <1>2, HoldersStay DEF DriverIInv
<1>4. {a \in Attempts : exec'[a] = "live"} = {a \in Attempts : exec[a] = "live"} \ S
  OBVIOUS
<1>5. {a \in Attempts : exec'[a] # "idle"} = {a \in Attempts : exec[a] # "idle"} \cup S
  OBVIOUS
<1> QED
  BY <1>1, <1>3, <1>4, <1>5 DEF Promise!End

LEMMA ServiceMaps ==
  ASSUME OneExecution, DriverIInv, DriverIInv', NEW a \in Attempts, RunService(a)
  PROVE  [Promise!OwnedNext]_(Promise!ownedVars)
<1>1. task' = task /\ att' = att /\ lease' = lease
  BY DEF RunService, ClaimQueuedRun, CancelRun, StartExecutor, RefuseRun, FinishRun, MoveRun, storeVars
<1>2. [StoreNext]_storeVars
  BY ServiceIsStoreStep DEF StoreNext
<1>3. CASE StartExecutor(a)
  <2>1. PICK s \in Steps : s = att[a].step
    BY <1>3 DEF StartExecutor, ClaimIsLive
  <2>2. Holder(s) = a
    <3>1. Unresolved(a)
      BY <1>3 DEF StartExecutor, ClaimIsLive, Unresolved
    <3> QED
      BY <2>1, <3>1, HolderIs DEF DriverIInv, IInv, OneOwnerPerStep
  <2>3. TaskPhase = "open" /\ TaskPhase' = TaskPhase
    BY <1>1, <1>3 DEF StartExecutor, ClaimIsLive, TaskPhase
  <2>4. SameOwners
    BY <1>1 DEF SameOwners, SameAttempts, Unresolved
  <2>5. [t \in Steps |-> Holder(t)]' = [t \in Steps |-> Holder(t)]
    BY <2>4, HoldersStay DEF DriverIInv
  <2>6. exec[a] = "idle" /\ exec' = [exec EXCEPT ![a] = "live"] /\ exec \in [Attempts -> {"idle", "live", "over"}]
    BY <1>3 DEF StartExecutor, DriverIInv, ExecutorsFenced
  <2>7. /\ {b \in Attempts : exec'[b] = "live"} = {b \in Attempts : exec[b] = "live"} \cup {a}
        /\ {b \in Attempts : exec'[b] # "idle"} = {b \in Attempts : exec[b] # "idle"} \cup {a}
        /\ a \notin {b \in Attempts : exec[b] # "idle"}
    BY <2>6
  <2>8. a # None
    BY ParametersAssumption
  <2>9. Promise!Start(s)
    BY <1>1, <2>2, <2>3, <2>5, <2>7, <2>8 DEF Promise!Start
  <2> QED
    BY <2>9 DEF Promise!OwnedNext
<1>4. CASE RefuseRun(a) \/ FinishRun(a)
  <2>1. exec' = [b \in Attempts |-> IF b \in {a} THEN "over" ELSE exec[b]]
    BY <1>4 DEF RefuseRun, FinishRun, DriverIInv, ExecutorsFenced
  <2> QED
    BY <1>1, <2>1, ExecutionMaps DEF Promise!OwnedNext
<1>5. CASE ClaimQueuedRun(a) \/ CancelRun(a)
  BY <1>2, <1>5, StoreCallMaps DEF ClaimQueuedRun, CancelRun, envVars
<1> QED
  BY <1>3, <1>4, <1>5 DEF RunService

LEMMA RestartMaps ==
  ASSUME DriverIInv, DriverIInv', Restart
  PROVE  Promise!OwnedNext
<1>1. task' = task /\ att' = att /\ lease' = lease
  BY DEF Restart, RecoverRuns
<1>2. \E S \in SUBSET Attempts : exec' = [a \in Attempts |-> IF a \in S THEN "over" ELSE exec[a]]
  <2>1. exec' = [a \in Attempts |-> IF a \in {b \in Attempts : run[b] \in {"running", "cancelling"}}
                                   THEN "over" ELSE exec[a]]
    BY DEF Restart
  <2> QED
    BY <2>1
<1>3. PICK S \in SUBSET Attempts : exec' = [a \in Attempts |-> IF a \in S THEN "over" ELSE exec[a]]
  BY <1>2
<1>4. Promise!End(S)
  BY <1>1, <1>3, ExecutionMaps
<1> QED
  BY <1>4 DEF Promise!OwnedNext

(* The driven Task implements OwnedWork as long as executions of the       *)
(* Activity do not overlap: a claim takes a Step, an executor starts only  *)
(* for its holder and only once, nothing lets go of a Step while it is     *)
(* executed, and the Task is offered, or settled as cancelled, only when   *)
(* nothing holds a Step.                                                   *)
THEOREM OwnedWorkImplemented == ASSUME OneExecution PROVE LongWorkSpec => ImplementsOwnedWork
<1>1. LongWorkInit => Promise!OwnedInit
  <2> SUFFICES ASSUME LongWorkInit PROVE Promise!OwnedInit
    OBVIOUS
  <2>1. Init /\ exec = [a \in Attempts |-> "idle"]
    BY DEF LongWorkInit
  <2>2. TaskPhase = "open"
    BY <2>1 DEF Init, TaskPhase
  <2>3. \A a \in Attempts : ~Unresolved(a) /\ att[a].status = "unused"
    BY <2>1 DEF Init, Unresolved
  <2>4. \A s \in Steps : Holder(s) = None
    BY <2>3 DEF Holder, StepOwned, AttemptsOf
  <2> QED
    BY <2>1, <2>2, <2>3, <2>4 DEF Promise!OwnedInit
<1>2. DriverIInv /\ DriverIInv' /\ [LongWorkNext]_vars => [Promise!OwnedNext]_(Promise!ownedVars)
  <2> SUFFICES ASSUME DriverIInv, DriverIInv', [LongWorkNext]_vars
               PROVE  [Promise!OwnedNext]_(Promise!ownedVars)
    OBVIOUS
  <2>1. [StoreNext]_storeVars
    BY EveryStepIsTheStores DEF DriverIInv, IInv
  <2>2. \/ exec' = exec
        \/ \E a \in Attempts : RunService(a)
        \/ Restart
    BY DriverSteps DEF DriverIInv
  <2> QED
    BY <2>1, <2>2, StoreCallMaps, ServiceMaps, RestartMaps
<1> QED
  BY <1>1, <1>2, DriverInvariant, PTL DEF LongWorkSpec, ImplementsOwnedWork, Promise!OwnedSpec
=============================================================================
