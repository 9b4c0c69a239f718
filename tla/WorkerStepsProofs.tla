------------------------- MODULE WorkerStepsProofs -------------------------
(***************************************************************************)
(* Theorems of Worker Steps, for any number of Steps, Attempts, executions *)
(* and crashes: the workspace has one writer, a decided Worker is gone and *)
(* a reviewed one worked.                                                  *)
(***************************************************************************)
EXTENDS WorkerSteps, LongWorkStoreProofs

(***************************************************************************)
(* Types.                                                                  *)
(***************************************************************************)
Execs   == Activities \cup {Server}
Places  == {"idle", "occupy", "intent", "send", "tab", "agent", "bind", "attach", "prompt", "mark",
            "fail", "settle", "close", "free", "closure", "launch", "cancel", "accept", "rework",
            "recover", "observe", "beat", "capture", "record", "review"}
Sequels == {"settle", "closure", "launch", "cancel", "accept", "rework", "idle"}

ExecRecord == [pc : Places, a : Attempts \cup {None}, sv : Nat, lv : Nat, k : Nat,
               held : {"none", "closing", "quarantined"}, then : {"none"} \cup Sequels,
               fresh : BOOLEAN]
PaneRecord == [st : {"none", "agent", "closed"} \cup Launching, prompt : BOOLEAN,
               hist : Seq(AgentStates)]

LeaseRecord == [state : {"none", "active", "released", "quarantined"}, version : Nat,
                expired : BOOLEAN]
BindRecord == [at : {"none", "bound", "attached"}, prompted : BOOLEAN, last : Observed, upd : Nat,
               prev : Observed \cup {"none"}, done : BOOLEAN, inval : BOOLEAN, cand : Nat]

WorkersTyped == /\ TypeOK /\ WorkersTypeOK
                /\ pane \in [Attempts -> PaneRecord] /\ exec \in [Execs -> ExecRecord]

(***************************************************************************)
(* The inductive invariant.                                                *)
(***************************************************************************)
BeforeTab  == {"occupy", "intent", "send", "fail"}
AfterTab   == {"tab", "agent", "bind", "attach", "prompt", "mark", "close"}
AfterClose == {"free", "closure", "launch", "cancel", "accept", "rework"}
Decided    == {"failed", "succeeded", "canceled"}
Used(a)    == att[a].status # "unused"

(* Where an execution is tells what became of the tab of its Attempt.       *)
ExecOK(p) ==
  LET a == exec[p].a  pc == exec[p].pc IN
  /\ pc # "idle" => a \in Attempts /\ Used(a)
  /\ pc \in BeforeTab => /\ pane[a].st = "none" /\ bind[a].at = "none"
                         /\ att[a].status \notin Decided
  /\ pc \in {"intent", "send"} => Holds(a)
  /\ pc \in AfterTab => pane[a].st # "none"
  /\ pc \in AfterClose => pane[a].st = "closed"
  /\ pc \in {"close", "free"} => exec[p].then \in Sequels

(* One execution launches the Worker of an Attempt.                         *)
OneLaunch ==
  \A p, q \in Execs :
    exec[p].pc \in BeforeTab /\ exec[q].pc \in BeforeTab /\ exec[p].a = exec[q].a => p = q

(* EveryWorkerHoldsTheWorkspace and DecidedWorkerIsGone, with the reason    *)
(* for the latter: a Worker in review is the latest of a Step that nobody   *)
(* has moved on, until it is closed.                                        *)
AttemptOK(a) ==
  /\ ~Used(a) => pane[a].st = "none" /\ att[a].step = None
  /\ Used(a) => att[a].step \in Steps
  /\ bind[a].at # "none" => pane[a].st # "none"
  /\ pane[a].st \in Launching \cup {"agent"} => Holds(a)
  /\ att[a].status \in Decided => pane[a].st \in {"none", "closed"}
  /\ att[a].status = "review" =>
       \/ pane[a].st = "closed"
       \/ /\ pane[a].st # "none" /\ Latest(att[a].step, a)
          /\ step[att[a].step].status \in {"review", "cancelled"}

Numbered ==
  /\ \A a \in Attempts : att[a].num <= task.last
  /\ \A a, b \in Attempts : Used(a) /\ Used(b) /\ att[a].num = att[b].num => a = b

WorkedBy(a, k) == \E i \in 1..k : pane[a].hist[i] = "working"
BegunBy(a, k) == \E i \in 1..k : pane[a].hist[i] \in {"working", "done"}
(* An agent that is in the state is at the end of a turn.                   *)
AtEnd(a, state) == state = "done" \/ (state = "idle" /\ WorkedBy(a, Now(a)))
IsCapture(a, k) ==
  /\ k <= Now(a)
  /\ pane[a].hist[k] = "done" \/ (pane[a].hist[k] = "idle" /\ WorkedBy(a, k))

(* An agent has states only when it is there, and begins a turn only once   *)
(* it was prompted; what was observed, captured and reviewed is in its      *)
(* history.  Whether an agent that is idle had completed is what the        *)
(* record of an earlier idle observation says.                              *)
HistoryOK(a) ==
  /\ pane[a].st \in {"none"} \cup Launching => pane[a].hist = <<>>
  /\ pane[a].st = "agent" => Now(a) > 0
  /\ BegunBy(a, Now(a)) => pane[a].prompt
  /\ \/ bind[a].last = "working" \/ bind[a].prev = "working"
     \/ bind[a].prev = "idle" /\ bind[a].done
     => WorkedBy(a, Now(a))
  /\ bind[a].cand > 0 => IsCapture(a, bind[a].cand)
  /\ att[a].status \in {"review", "succeeded"} => bind[a].cand > 0

(* What an execution remembers of the history is there.                     *)
CaptureOK(p) ==
  LET a == exec[p].a IN
  /\ exec[p].pc \in {"recover", "observe"} => exec[p].k <= Now(a)
  /\ exec[p].pc = "capture" =>
       exec[p].k \in 1..Now(a) /\ AtEnd(a, pane[a].hist[exec[p].k])
  /\ exec[p].pc = "record" => bind[a].cand > 0 \/ (exec[p].k > 0 /\ IsCapture(a, exec[p].k))
  /\ exec[p].pc = "review" => bind[a].cand > 0

ExecsOK    == \A p \in Execs : ExecOK(p)
AttemptsOK == \A a \in Attempts : AttemptOK(a)
HistoryIs  == \A a \in Attempts : HistoryOK(a)
CapturesOK == \A p \in Execs : CaptureOK(p)

WorkersIInv ==
  /\ WorkersTyped
  /\ ExecsOK /\ OneLaunch /\ AttemptsOK /\ Numbered
  /\ HistoryIs /\ CapturesOK

(***************************************************************************)
(* Records of executions.                                                  *)
(***************************************************************************)
LEMMA OnwardIs ==
  ASSUME NEW e \in ExecRecord, NEW pc \in Places
  PROVE  /\ Onward(e, pc) \in ExecRecord
         /\ Onward(e, pc).pc = pc /\ Onward(e, pc).a = e.a
         /\ pc \in {"observe", "capture", "record"} => Onward(e, pc).k = e.k
         /\ pc \in {"close", "free"} => Onward(e, pc).then = e.then
  BY DEF Onward, ExecRecord, Sequels

LEMMA IdleIs == /\ Idle \in ExecRecord /\ Idle.pc = "idle" /\ Idle.a = None
                /\ Idle.k = 0 /\ Idle.then = "none"
  BY DEF Idle, ExecRecord, Places, Sequels

LEMMA ClaimIs ==
  ASSUME WorkersTyped, NEW s \in Steps, NEW a \in Attempts
  PROVE  /\ Claim(s, a) \in ExecRecord /\ Claim(s, a).a = a /\ Claim(s, a).k = Now(a)
<1>1. step[s].version \in Nat /\ lease[a].version \in Nat
  BY DEF WorkersTyped, TypeOK
<1>2. Now(a) \in Nat
  BY DEF WorkersTyped, PaneRecord, Now
<1> QED
  BY <1>1, <1>2 DEF Claim, Idle, ExecRecord, Places, Sequels

LEMMA RecordTypes ==
  ASSUME WorkersTyped, NEW a \in Attempts
  PROVE  /\ pane[a] \in PaneRecord /\ Now(a) \in Nat
         /\ bind \in [Attempts -> BindRecord] /\ bind[a] \in BindRecord
         /\ bind[a].at \in {"none", "bound", "attached"}
         /\ bind[a].cand \in Nat /\ bind[a].upd \in Nat
         /\ \A i \in 1..Now(a) : pane[a].hist[i] \in AgentStates
<1>1. pane[a] \in PaneRecord /\ pane[a].hist \in Seq(AgentStates)
  BY DEF WorkersTyped, PaneRecord
<1>2. bind[a].cand \in Nat /\ bind[a].upd \in Nat /\ bind[a].at \in {"none", "bound", "attached"}
  BY DEF WorkersTyped, WorkersTypeOK
<1>3. bind \in [Attempts -> BindRecord]
  BY DEF WorkersTyped, WorkersTypeOK, BindRecord
<1> QED
  BY <1>1, <1>2, <1>3 DEF Now

LEMMA ExecSet ==
  ASSUME exec \in [Execs -> ExecRecord], NEW p \in Execs, NEW e \in ExecRecord,
         exec' = [exec EXCEPT ![p] = e]
  PROVE  /\ exec' \in [Execs -> ExecRecord] /\ exec'[p] = e
         /\ \A q \in Execs \ {p} : exec'[q] = exec[q]
  OBVIOUS

(***************************************************************************)
(* What a step must show for the invariant to stay.  An execution is where *)
(* it was, gives up, or gets to where it may be; an Attempt changes so that*)
(* no execution that has yet to request its tab could tell.                *)
(***************************************************************************)
SameExec(q) == exec'[q].pc = exec[q].pc /\ exec'[q].a = exec[q].a
               /\ exec'[q].then = exec[q].then /\ exec'[q].k = exec[q].k
Stays(q)    == SameExec(q) \/ exec'[q].pc = "idle"

HoldsNext(a) == occ'.state # "free" /\ occ'.att = a
Lasts(a) == /\ pane[a].st # "none" => pane'[a].st # "none"
            /\ pane[a].st = "closed" => pane'[a].st = "closed"
            /\ Used(a) => att'[a].status # "unused"
Untouched(a) == /\ pane'[a].st = pane[a].st /\ bind'[a].at = bind[a].at
                /\ att'[a].status \in Decided => att[a].status \in Decided
                /\ Holds(a) => HoldsNext(a)
NotLaunchedBy(q, a) == exec[q].pc \in BeforeTab => exec[q].a # a
(* Nobody but p may be about to request the tab of the Attempt.             *)
LeftTo(p, a) == pane[a].st # "none" \/ ~Used(a) \/ (exec[p].a = a /\ exec[p].pc \in BeforeTab)

LEMMA LeftToOne ==
  ASSUME ExecsOK, OneLaunch, NEW p \in Execs, NEW q \in Execs, NEW a, LeftTo(p, a),
         q # p \/ pane[a].st # "none" \/ ~Used(a)
  PROVE  NotLaunchedBy(q, a)
  BY DEF LeftTo, NotLaunchedBy, ExecsOK, ExecOK, OneLaunch, BeforeTab

LEMMA StayingExec ==
  ASSUME ExecsOK, NEW q \in Execs, Stays(q),
         \A a \in Attempts : Lasts(a) /\ (Untouched(a) \/ NotLaunchedBy(q, a))
  PROVE  ExecOK(q)'
<1>1. CASE exec'[q].pc = "idle"
  BY <1>1 DEF ExecOK, BeforeTab, AfterTab, AfterClose
<1>2. CASE SameExec(q) /\ exec[q].pc # "idle"
  <2> PICK a \in Attempts : a = exec[q].a
    BY <1>2 DEF ExecsOK, ExecOK
  <2>1. ExecOK(q) /\ Used(a)
    BY <1>2 DEF ExecsOK, ExecOK
  <2>2. exec[q].pc \in BeforeTab => Untouched(a)
    BY DEF NotLaunchedBy
  <2>3. exec'[q].a = a /\ exec'[q].pc = exec[q].pc /\ exec'[q].then = exec[q].then
    BY <1>2 DEF SameExec
  <2>4. {"intent", "send"} \subseteq BeforeTab
    BY DEF BeforeTab
  <2> QED
    BY <2>1, <2>2, <2>3, <2>4 DEF ExecOK, Lasts, Untouched, Used, Holds, HoldsNext
<1> QED
  BY <1>1, <1>2 DEF Stays, SameExec

(* An execution launches a Worker that it was launching, or has claimed.    *)
MayLaunch(p) == exec'[p].pc \in BeforeTab =>
  \/ exec[p].pc \in BeforeTab /\ exec'[p].a = exec[p].a
  \/ ~Used(exec'[p].a)

LEMMA LaunchesKept ==
  ASSUME ExecsOK, OneLaunch, NEW p \in Execs, \A q \in Execs \ {p} : Stays(q), MayLaunch(p)
  PROVE  OneLaunch'
<1> SUFFICES ASSUME NEW q \in Execs, NEW r \in Execs, q # r, r # p,
                    exec'[q].pc \in BeforeTab, exec'[r].pc \in BeforeTab, exec'[q].a = exec'[r].a
             PROVE  FALSE
  BY DEF OneLaunch
<1>1. ASSUME NEW x \in Execs \ {p}, exec'[x].pc \in BeforeTab
      PROVE  exec[x].pc \in BeforeTab /\ exec'[x].a = exec[x].a /\ Used(exec[x].a)
  BY <1>1 DEF Stays, SameExec, BeforeTab, ExecsOK, ExecOK
<1>2. CASE q # p
  BY <1>1, <1>2 DEF OneLaunch
<1>3. CASE q = p
  BY <1>1, <1>3 DEF OneLaunch, MayLaunch
<1> QED
  BY <1>2, <1>3

(***************************************************************************)
(* A history grows, and a candidate is captured once.                      *)
(***************************************************************************)
Grows(a) == /\ Len(pane'[a].hist) \in Nat /\ Now(a) <= Len(pane'[a].hist)
            /\ \A i \in 1..Now(a) : pane'[a].hist[i] = pane[a].hist[i]
            /\ bind[a].cand > 0 => bind'[a].cand = bind[a].cand

LEMMA WorkLasts ==
  ASSUME NEW a, NEW k \in Nat, k <= Now(a), Now(a) \in Nat, Grows(a)
  PROVE  /\ \A j \in Nat : k <= j /\ WorkedBy(a, k) => \E i \in 1..j : pane'[a].hist[i] = "working"
         /\ k > 0 /\ IsCapture(a, k) =>
              /\ k <= Now(a)'
              /\ \/ pane'[a].hist[k] = "done"
                 \/ /\ pane'[a].hist[k] = "idle"
                    /\ \E i \in 1..k : pane'[a].hist[i] = "working"
  BY DEF Grows, WorkedBy, IsCapture, Now

LEMMA StayingCapture ==
  ASSUME WorkersIInv, NEW q \in Execs, Stays(q), \A a \in Attempts : Grows(a)
  PROVE  CaptureOK(q)'
<1>1. CASE exec'[q].pc = "idle"
  BY <1>1 DEF CaptureOK
<1>2. CASE SameExec(q) /\ exec[q].pc # "idle"
  <2> PICK a \in Attempts : a = exec[q].a
    BY <1>2 DEF WorkersIInv, ExecsOK, ExecOK
  <2>1. CaptureOK(q) /\ exec[q].k \in Nat
    BY DEF WorkersIInv, CapturesOK, WorkersTyped, ExecRecord
  <2>2. Grows(a) /\ Now(a) \in Nat /\ Now(a)' \in Nat /\ bind[a].cand \in Nat
    BY RecordTypes DEF WorkersIInv, Grows, Now
  <2>3. exec'[q].a = a /\ exec'[q].pc = exec[q].pc /\ exec'[q].k = exec[q].k
    BY <1>2 DEF SameExec
  <2>4. CASE exec[q].pc \in {"recover", "observe"}
    BY <2>1, <2>2, <2>3, <2>4 DEF CaptureOK, Grows, Now
  <2>5. CASE exec[q].pc = "capture"
    <3>1. exec[q].k \in 1..Now(a) /\ AtEnd(a, pane[a].hist[exec[q].k])
      BY <2>1, <2>5 DEF CaptureOK
    <3>2. exec[q].k \in 1..Now(a)' /\ pane'[a].hist[exec[q].k] = pane[a].hist[exec[q].k]
      BY <2>2, <3>1 DEF Grows, Now
    <3>3. ASSUME WorkedBy(a, Now(a)) PROVE WorkedBy(a, Now(a))'
      <4>1. PICK i \in 1..Now(a) : pane[a].hist[i] = "working"
        BY <3>3 DEF WorkedBy
      <4>2. Now(a) <= Now(a)' /\ pane'[a].hist[i] = "working"
        BY <2>2, <4>1 DEF Grows, Now
      <4>3. \E j \in 1..Now(a)' : pane'[a].hist[j] = "working"
        BY <2>2, <4>2
      <4> QED
        BY <4>3 DEF WorkedBy, Now
    <3>4. AtEnd(a, pane[a].hist[exec[q].k])'
      BY <2>3, <3>1, <3>2, <3>3 DEF AtEnd
    <3> QED
      BY <2>3, <2>5, <3>2, <3>4 DEF CaptureOK, Now
  <2>6. CASE exec[q].pc = "record" /\ bind[a].cand = 0
    <3>1. exec[q].k > 0 /\ IsCapture(a, exec[q].k)
      BY <2>1, <2>2, <2>6 DEF CaptureOK
    <3>2. /\ exec[q].k <= Now(a)'
          /\ \/ pane'[a].hist[exec[q].k] = "done"
             \/ /\ pane'[a].hist[exec[q].k] = "idle"
                /\ \E i \in 1..exec[q].k : pane'[a].hist[i] = "working"
      BY <2>1, <2>2, <3>1, WorkLasts DEF IsCapture
    <3> QED
      BY <2>3, <2>6, <3>1, <3>2 DEF CaptureOK, IsCapture, WorkedBy, Now
  <2>7. CASE bind[a].cand > 0 /\ exec[q].pc \in {"record", "review"}
    BY <2>2, <2>3, <2>7 DEF CaptureOK, Grows
  <2>8. exec[q].pc \in {"record", "review"} => bind[a].cand > 0 \/ (exec[q].pc = "record" /\ bind[a].cand = 0)
    BY <2>1, <2>2 DEF CaptureOK
  <2> QED
    BY <2>3, <2>4, <2>5, <2>6, <2>7, <2>8 DEF CaptureOK
<1> QED
  BY <1>1, <1>2 DEF Stays, SameExec

(***************************************************************************)
(* Attempts that a step leaves alone.                                      *)
(***************************************************************************)
Calm(a) == /\ pane'[a].st = pane[a].st /\ bind'[a].at = bind[a].at /\ att'[a] = att[a]
           /\ Holds(a) => HoldsNext(a)
SameNumbers == \A a \in Attempts : att'[a].step = att[a].step /\ att'[a].num = att[a].num
SameUse == \A a \in Attempts : att'[a].status # "unused" <=> Used(a)
(* A Step in review, or cancelled, stays so.                                *)
StepStays(s) ==
  step[s].status \in {"review", "cancelled"} => step'[s].status \in {"review", "cancelled"}

LEMMA CalmAttempt ==
  ASSUME NEW a \in Attempts, AttemptOK(a), Calm(a), SameNumbers, StepStays(att[a].step)
  PROVE  AttemptOK(a)'
<1>1. Latest(att[a].step, a) => Latest(att[a].step, a)'
  BY DEF Latest, AttemptsOf, SameNumbers, Calm
<1> QED
  BY <1>1 DEF AttemptOK, Calm, StepStays, Used, HoldsNext, Holds

LEMMA NumbersKept ==
  ASSUME Numbered, SameNumbers, SameUse, task'.last = task.last
  PROVE  Numbered'
  BY DEF Numbered, SameNumbers, SameUse, Used

(* Where an execution may be after a step that leaves the Workers alone.    *)
Fits(p, e) ==
  /\ e.pc # "idle" => e.a \in Attempts /\ Used(e.a)
  /\ e.pc \in BeforeTab => exec[p].pc \in BeforeTab /\ e.a = exec[p].a
  /\ e.pc \in {"intent", "send"} => HoldsNext(e.a)
  /\ e.pc \in AfterTab => pane[e.a].st # "none"
  /\ e.pc \in AfterClose => pane[e.a].st = "closed"
  /\ e.pc \in {"close", "free"} => e.then \in Sequels
  /\ e.pc \in {"recover", "observe"} => e.k <= Now(e.a)
  /\ e.pc = "capture" => e.k \in 1..Now(e.a) /\ AtEnd(e.a, pane[e.a].hist[e.k])
  /\ e.pc = "record" => bind[e.a].cand > 0 \/ (e.k > 0 /\ IsCapture(e.a, e.k))
  /\ e.pc = "review" => bind[e.a].cand > 0

(* The entry of a Worker is not given back.                                 *)
EntriesKept == \A a \in Attempts : Holds(a) => HoldsNext(a)

(* Only a closed Worker is taken out of review.                             *)
ReviewsStay == \A b \in Attempts :
  att[b].status = "review" /\ pane[b].st # "closed" => StepStays(att[b].step)

LEMMA CalmWorkers ==
  ASSUME WorkersIInv, UNCHANGED <<att, pane, bind>>, task'.last = task.last, EntriesKept, ReviewsStay
  PROVE  /\ AttemptsOK' /\ Numbered' /\ HistoryIs'
         /\ \A a \in Attempts : Lasts(a) /\ Untouched(a) /\ Grows(a)
<1>1. SameNumbers /\ SameUse
  BY DEF SameNumbers, SameUse, Used
<1>2. ASSUME NEW a \in Attempts PROVE AttemptOK(a)'
  <2>1. AttemptOK(a) /\ Calm(a)
    BY DEF WorkersIInv, AttemptsOK, Calm, EntriesKept, HoldsNext
  <2>2. StepStays(att[a].step) \/ att[a].status # "review" \/ pane[a].st = "closed"
    BY DEF ReviewsStay
  <2> QED
    BY <1>1, <2>1, <2>2, CalmAttempt DEF AttemptOK, Calm, Used, HoldsNext, Holds
<1>3. Numbered'
  BY <1>1, NumbersKept DEF WorkersIInv
<1>4. HistoryIs'
  BY DEF WorkersIInv, HistoryIs, HistoryOK, IsCapture, BegunBy, WorkedBy, Now
<1>5. ASSUME NEW a \in Attempts PROVE Lasts(a) /\ Untouched(a) /\ Grows(a)
  <2>1. Now(a) \in Nat /\ Now(a)' = Now(a)
    BY RecordTypes DEF WorkersIInv, Now
  <2> QED
    BY <2>1 DEF Lasts, Untouched, Grows, EntriesKept, Used, HoldsNext, Holds, Now
<1> QED
  BY <1>2, <1>3, <1>4, <1>5 DEF AttemptsOK

(* The invariant stays when p acts on some Attempts.                        *)
LEMMA ActingStep ==
  ASSUME WorkersIInv, WorkersTyped', AttemptsOK', Numbered', HistoryIs', NEW p \in Execs,
         \A a \in Attempts : Lasts(a) /\ Grows(a) /\ (Untouched(a) \/ LeftTo(p, a)),
         \A q \in Execs \ {p} : Stays(q), ExecOK(p)', CaptureOK(p)', MayLaunch(p)
  PROVE  WorkersIInv'
<1>1. ASSUME NEW q \in Execs \ {p} PROVE ExecOK(q)' /\ CaptureOK(q)'
  <2>1. \A a \in Attempts : Untouched(a) \/ NotLaunchedBy(q, a)
    BY LeftToOne DEF WorkersIInv
  <2> QED
    BY <2>1, StayingExec, StayingCapture DEF WorkersIInv
<1>2. ExecsOK' /\ CapturesOK'
  BY <1>1 DEF ExecsOK, CapturesOK
<1>3. OneLaunch'
  BY LaunchesKept DEF WorkersIInv
<1> QED
  BY <1>2, <1>3 DEF WorkersIInv

(* The invariant stays when nobody acts but the environment, or executions *)
(* give up.                                                                 *)
LEMMA EnvironmentStep ==
  ASSUME WorkersIInv, WorkersTyped', AttemptsOK', Numbered', HistoryIs',
         \A a \in Attempts : Lasts(a) /\ Grows(a) /\ (Untouched(a) \/ pane[a].st # "none"),
         \A q \in Execs : Stays(q)
  PROVE  WorkersIInv'
<1>1. ASSUME NEW q \in Execs PROVE ExecOK(q)' /\ CaptureOK(q)'
  <2>1. \A a \in Attempts : Untouched(a) \/ NotLaunchedBy(q, a)
    BY DEF WorkersIInv, ExecsOK, ExecOK, NotLaunchedBy
  <2> QED
    BY <2>1, StayingExec, StayingCapture DEF WorkersIInv
<1>2. ExecsOK' /\ CapturesOK'
  BY <1>1 DEF ExecsOK, CapturesOK
<1>3. OneLaunch'
  <2>1. ASSUME NEW q \in Execs, exec'[q].pc \in BeforeTab
        PROVE  exec[q].pc \in BeforeTab /\ exec'[q].a = exec[q].a
    BY <2>1 DEF Stays, SameExec, BeforeTab
  <2> QED
    BY <2>1 DEF WorkersIInv, OneLaunch
<1> QED
  BY <1>2, <1>3 DEF WorkersIInv

LEMMA CalmStep ==
  ASSUME WorkersIInv, WorkersTyped', UNCHANGED <<att, pane, bind>>, task'.last = task.last,
         EntriesKept, ReviewsStay,
         NEW p \in Execs, NEW e \in ExecRecord, exec' = [exec EXCEPT ![p] = e], Fits(p, e)
  PROVE  WorkersIInv'
<1>1. exec'[p] = e /\ \A q \in Execs \ {p} : exec'[q] = exec[q]
  BY ExecSet DEF WorkersIInv, WorkersTyped
<1>2. /\ AttemptsOK' /\ Numbered' /\ HistoryIs'
      /\ \A a \in Attempts : Lasts(a) /\ Untouched(a) /\ Grows(a)
  BY CalmWorkers
<1>3. \A q \in Execs \ {p} : Stays(q)
  BY <1>1 DEF Stays, SameExec
<1>4. ExecOK(p)'
  <2>1. exec[p].pc \in BeforeTab => ExecOK(p)
    BY DEF WorkersIInv, ExecsOK
  <2>2. e.pc \in BeforeTab => /\ pane[e.a].st = "none" /\ bind[e.a].at = "none"
                              /\ att[e.a].status \notin Decided
    BY <2>1 DEF ExecOK, Fits
  <2> QED
    BY <1>1, <2>2 DEF ExecOK, Fits, Holds, Used, HoldsNext
<1>5. CaptureOK(p)'
  BY <1>1 DEF CaptureOK, Fits, AtEnd, WorkedBy, IsCapture, Now
<1>6. MayLaunch(p)
  BY <1>1 DEF MayLaunch, Fits
<1> QED
  BY <1>2, <1>3, <1>4, <1>5, <1>6, ActingStep

(***************************************************************************)
(* Steps of an execution that leave the Workers alone.                     *)
(***************************************************************************)
OccTyped ==
  /\ occ \in [state : {"free", "active", "closing", "quarantined"},
              att : Attempts \cup {None}, inst : 0..MaxInstance]
  /\ occ.state = "free" <=> occ.att = None

LEMMA TypesHold ==
  ASSUME TypeOK', OccTyped', owner' \in [Attempts -> 0..MaxInstance], intent' \subseteq Attempts,
         inst' \in 1..MaxInstance,
         bind' \in [Attempts -> BindRecord], pane' \in [Attempts -> PaneRecord], exec' \in [Execs -> ExecRecord]
  PROVE  WorkersTyped'
<1>1. ASSUME NEW a \in Attempts
      PROVE  /\ pane'[a].st \in {"none", "agent", "closed"} \cup Launching
             /\ pane'[a].prompt \in BOOLEAN
             /\ \A i \in DOMAIN pane'[a].hist : pane'[a].hist[i] \in AgentStates
  <2>1. pane'[a] \in PaneRecord /\ pane'[a].hist \in Seq(AgentStates)
    BY DEF PaneRecord
  <2> QED
    BY <2>1 DEF PaneRecord
<1> QED
  BY <1>1 DEF WorkersTyped, WorkersTypeOK, OccTyped, BindRecord

LEMMA QuietStep ==
  ASSUME WorkersIInv, UNCHANGED <<storeVars, bind, pane, inst>>, OccTyped', EntriesKept,
         owner' = owner, intent' \subseteq Attempts,
         NEW p \in Execs, NEW e \in ExecRecord, exec' = [exec EXCEPT ![p] = e], Fits(p, e)
  PROVE  WorkersIInv'
<1>1. exec' \in [Execs -> ExecRecord]
  BY ExecSet DEF WorkersIInv, WorkersTyped
<1>2. TypeOK' /\ UNCHANGED <<att, task>>
  BY DEF WorkersIInv, WorkersTyped, TypeOK, storeVars
<1>3. WorkersTyped'
  BY <1>1, <1>2, TypesHold DEF WorkersIInv, WorkersTyped, WorkersTypeOK, BindRecord
<1>4. ReviewsStay
  BY DEF ReviewsStay, StepStays, storeVars
<1> QED
  BY <1>2, <1>3, <1>4, CalmStep

LEMMA OccIs == ASSUME WorkersTyped
  PROVE OccTyped /\ \A a \in Attempts : Holds(a) => occ.att = a /\ occ.att # None
  BY ParametersAssumption DEF WorkersTyped, WorkersTypeOK, OccTyped, Holds, HoldsNext

LEMMA OccMoves ==
  ASSUME WorkersTyped, NEW state \in {"active", "closing", "quarantined"}, occ.state # "free",
         occ' = [occ EXCEPT !.state = state]
  PROVE  OccTyped' /\ EntriesKept
  BY OccIs DEF OccTyped, EntriesKept, Holds, HoldsNext

LEMMA OccStays == ASSUME WorkersTyped, UNCHANGED occ PROVE OccTyped' /\ EntriesKept
  BY OccIs DEF OccTyped, EntriesKept, Holds, HoldsNext

LEMMA Quarantined ==
  ASSUME WorkersTyped, NEW p, NEW a, QuarantineOccupancy(p, a) PROVE OccTyped' /\ EntriesKept
  BY OccStays, OccMoves DEF QuarantineOccupancy

LEMMA Harmless ==
  ASSUME NEW p \in Execs, NEW e, e.pc \in {"idle", "settle", "beat"},
         e.pc # "idle" => e.a \in Attempts /\ Used(e.a)
  PROVE  Fits(p, e)
  BY DEF Fits, BeforeTab, AfterTab, AfterClose

LEMMA ClosureBegins ==
  ASSUME WorkersIInv, NEW p \in Execs, NEW a \in Attempts, NEW claim \in ExecRecord,
         claim.a = a, claim.then \in Sequels, Used(a), pane[a].st # "none",
         BeginClose(p, a, claim), UNCHANGED <<storeVars, owner, intent, bind, pane, inst>>
  PROVE  WorkersIInv'
<1>1. WorkersTyped /\ intent' \subseteq Attempts
  BY DEF WorkersIInv, WorkersTyped, WorkersTypeOK
<1>2. CASE ~(Holds(a) /\ occ.state = "closing") /\ exec' = [exec EXCEPT ![p] =
             [claim EXCEPT !.pc = "close", !.k = 0,
                           !.held = IF ~Holds(a) THEN "none"
                                    ELSE IF occ.state = "active" THEN "closing" ELSE occ.state]]
           /\ occ' = IF Holds(a) /\ occ.state = "active" THEN [occ EXCEPT !.state = "closing"] ELSE occ
  <2> DEFINE held == IF ~Holds(a) THEN "none"
                     ELSE IF occ.state = "active" THEN "closing" ELSE occ.state
             e == [claim EXCEPT !.pc = "close", !.k = 0, !.held = held]
  <2>1. held \in {"none", "closing", "quarantined"}
    BY <1>1, <1>2, OccIs DEF OccTyped, Holds, HoldsNext
  <2>2. exec' = [exec EXCEPT ![p] = e]
    BY <1>2
  <2> HIDE DEF held
  <2>3. e \in ExecRecord /\ e.pc = "close" /\ e.a = a /\ e.then = claim.then
    BY <2>1 DEF ExecRecord, Places
  <2> HIDE DEF e
  <2>4. OccTyped' /\ EntriesKept
    BY <1>1, <1>2, OccStays, OccMoves
  <2>5. Fits(p, e)
    BY <2>3 DEF Fits, BeforeTab, AfterTab, AfterClose
  <2> QED
    BY <1>1, <2>2, <2>3, <2>4, <2>5, QuietStep
<1>3. CASE exec' = [exec EXCEPT ![p] = Onward(claim, "settle")] /\ UNCHANGED occ
  <2>1. "settle" \in Places
    BY DEF Places
  <2>2. Onward(claim, "settle") \in ExecRecord /\ Fits(p, Onward(claim, "settle"))
    BY <2>1, OnwardIs, Harmless
  <2>3. OccTyped' /\ EntriesKept
    BY <1>1, <1>3, OccStays
  <2> QED
    BY <1>1, <1>3, <2>2, <2>3, QuietStep
<1> QED
  BY <1>2, <1>3 DEF BeginClose

(***************************************************************************)
(* Claim and dispatch.                                                     *)
(***************************************************************************)
LEMMA ActingExec ==
  ASSUME WorkersIInv, NEW p \in Execs, exec[p].pc # "idle"
  PROVE  /\ exec[p] \in ExecRecord /\ exec[p].a \in Attempts /\ Used(exec[p].a)
         /\ WorkersTyped /\ intent \subseteq Attempts /\ ExecOK(p) /\ CaptureOK(p)
  BY DEF WorkersIInv, WorkersTyped, WorkersTypeOK, ExecsOK, ExecOK, CapturesOK

(* An Attempt that a step leaves alone.                                     *)
LEMMA Elsewhere ==
  ASSUME WorkersIInv, NEW a \in Attempts, Calm(a), SameNumbers, StepStays(att[a].step),
         pane'[a] = pane[a], bind'[a] = bind[a]
  PROVE  /\ AttemptOK(a)' /\ HistoryOK(a)'
         /\ Lasts(a) /\ Grows(a) /\ Untouched(a)
<1>1. AttemptOK(a)'
  BY CalmAttempt DEF WorkersIInv, AttemptsOK
<1>2. HistoryOK(a)'
  BY DEF WorkersIInv, HistoryIs, HistoryOK, IsCapture, BegunBy, WorkedBy, Now, Calm
<1>3. Now(a) \in Nat /\ Now(a)' = Now(a)
  BY RecordTypes DEF WorkersIInv, Now
<1> QED
  BY <1>1, <1>2, <1>3 DEF Lasts, Untouched, Grows, Calm, Used, HoldsNext, Holds, Now

LEMMA GoesOn ==
  ASSUME WorkersIInv, NEW p \in Execs, exec[p].pc # "idle", NEW pc \in Places, Goto(p, pc),
         Fits(p, Onward(exec[p], pc)), EntriesKept, OccTyped', owner' = owner, intent' \subseteq Attempts,
         UNCHANGED <<storeVars, bind, pane, inst>>
  PROVE  WorkersIInv'
<1>1. exec[p] \in ExecRecord
  BY ActingExec
<1>2. exec' = [exec EXCEPT ![p] = Onward(exec[p], pc)] /\ Onward(exec[p], pc) \in ExecRecord
  BY <1>1, OnwardIs DEF Goto
<1> QED
  BY <1>2, QuietStep

LEMMA Finishes ==
  ASSUME WorkersIInv, NEW p \in Execs, Finish(p), EntriesKept, OccTyped', owner' = owner,
         intent' \subseteq Attempts, UNCHANGED <<storeVars, bind, pane, inst>>
  PROVE  WorkersIInv'
<1>1. Idle \in ExecRecord /\ Fits(p, Idle)
  BY IdleIs, Harmless
<1> QED
  BY <1>1, QuietStep DEF Finish

(* The entry of an Attempt that has no Worker may be given back.            *)
LEMMA GivesBack ==
  ASSUME WorkersIInv, NEW a \in Attempts, pane[a].st \in {"none", "closed"}, OccTyped',
         \A b \in Attempts \ {a} : Holds(b) => HoldsNext(b), exec' \in [Execs -> ExecRecord],
         UNCHANGED <<storeVars, owner, intent, bind, pane, inst>>
  PROVE  /\ WorkersTyped' /\ AttemptsOK' /\ Numbered' /\ HistoryIs'
         /\ \A b \in Attempts : Lasts(b) /\ Grows(b) /\ (b # a => Untouched(b))
<1>1. TypeOK' /\ UNCHANGED <<att, step, task>>
  BY DEF WorkersIInv, WorkersTyped, TypeOK, storeVars
<1>2. WorkersTyped'
  BY <1>1, TypesHold DEF WorkersIInv, WorkersTyped, WorkersTypeOK, BindRecord
<1>3. SameNumbers /\ SameUse /\ \A b \in Attempts : StepStays(att[b].step)
  BY <1>1 DEF SameNumbers, SameUse, StepStays, Used
<1>4. Numbered'
  BY <1>1, <1>3, NumbersKept DEF WorkersIInv
<1>5. ASSUME NEW b \in Attempts, b # a
      PROVE  AttemptOK(b)' /\ HistoryOK(b)' /\ Lasts(b) /\ Grows(b) /\ Untouched(b)
  <2>1. Calm(b)
    BY <1>1, <1>5 DEF Calm
  <2> QED
    BY <1>3, <2>1, Elsewhere
<1>6. AttemptOK(a) /\ HistoryOK(a) /\ Now(a) \in Nat
  BY RecordTypes DEF WorkersIInv, AttemptsOK, HistoryIs
<1>7. AttemptOK(a)'
  <2>1. Latest(att[a].step, a) => Latest(att[a].step, a)'
    BY <1>1 DEF Latest, AttemptsOf
  <2> QED
    BY <1>1, <1>6, <2>1 DEF AttemptOK, Used, Launching
<1>8. HistoryOK(a)'
  BY <1>1, <1>6 DEF HistoryOK, IsCapture, BegunBy, WorkedBy, Now
<1>9. Lasts(a) /\ Grows(a)
  BY <1>1, <1>6 DEF Lasts, Grows, Used, Now
<1> QED
  BY <1>2, <1>4, <1>5, <1>7, <1>8, <1>9 DEF AttemptsOK, HistoryIs

(* Nothing was sent.                                                        *)
LEMMA NotStartedKeeps ==
  ASSUME WorkersIInv, NEW p \in Execs, exec[p].pc \in {"occupy", "intent"}, NotStarted(p),
         UNCHANGED <<storeVars, owner, intent, bind, pane, inst>>
  PROVE  WorkersIInv'
<1> PICK a \in Attempts : a = exec[p].a
  BY ActingExec
<1> PICK e : e = [exec[p] EXCEPT !.pc = "fail", !.lv = 0]
  OBVIOUS
<1>1. /\ exec[p] \in ExecRecord /\ Used(a) /\ WorkersTyped
      /\ pane[a].st = "none" /\ bind[a].at = "none" /\ att[a].status \notin Decided
  BY ActingExec DEF ExecOK, BeforeTab
<1>2. exec' = [exec EXCEPT ![p] = e]
  BY <1>1 DEF NotStarted, WorkersTyped
<1>3. e \in ExecRecord /\ e.pc = "fail" /\ e.a = a
  BY <1>1 DEF ExecRecord, Places
<1>4. exec' \in [Execs -> ExecRecord] /\ exec'[p] = e /\ \A q \in Execs \ {p} : exec'[q] = exec[q]
  BY <1>1, <1>2, <1>3, ExecSet DEF WorkersTyped
<1>5. OccTyped' /\ \A b \in Attempts \ {a} : Holds(b) => HoldsNext(b)
  BY <1>1, OccIs, ParametersAssumption, WorkersAssumption
     DEF NotStarted, FreeEntry, OccTyped, Holds, HoldsNext
<1>6. /\ WorkersTyped' /\ AttemptsOK' /\ Numbered' /\ HistoryIs'
      /\ \A b \in Attempts : Lasts(b) /\ Grows(b) /\ (b # a => Untouched(b))
  BY <1>1, <1>4, <1>5, GivesBack
<1>7. LeftTo(p, a)
  BY DEF LeftTo, BeforeTab
<1>8. ExecOK(p)'
  BY <1>1, <1>3, <1>4 DEF ExecOK, Used, AfterTab, AfterClose, storeVars
<1>9. CaptureOK(p)'
  BY <1>3, <1>4 DEF CaptureOK
<1>10. MayLaunch(p) /\ \A q \in Execs \ {p} : Stays(q)
  BY <1>3, <1>4 DEF MayLaunch, BeforeTab, Stays, SameExec
<1> QED
  BY <1>6, <1>7, <1>8, <1>9, <1>10, ActingStep

LEMMA OccupyKeeps ==
  ASSUME WorkersIInv, NEW p \in Execs, OccupyWorkspace(p) PROVE WorkersIInv'
<1>1. exec[p].pc = "occupy" /\ exec[p] \in ExecRecord /\ intent \subseteq Attempts /\ WorkersTyped
  BY ActingExec DEF OccupyWorkspace, At
<1>2. CASE NotStarted(p)
  BY <1>1, <1>2, NotStartedKeeps DEF OccupyWorkspace
<1>3. CASE /\ occ.state = "free" /\ Goto(p, "intent")
           /\ occ' = [state |-> "active", att |-> exec[p].a, inst |-> inst]
  <2> PICK e : e = Onward(exec[p], "intent")
    OBVIOUS
  <2>1. e \in ExecRecord /\ e.pc = "intent" /\ e.a = exec[p].a
    BY <1>1, OnwardIs DEF Places
  <2>2. exec[p].a \in Attempts /\ Used(exec[p].a)
    BY <1>1, ActingExec
  <2>3. inst \in 0..MaxInstance
    BY <1>1 DEF WorkersTyped, WorkersTypeOK
  <2>4. OccTyped' /\ EntriesKept
    BY <1>3, <2>2, <2>3, ParametersAssumption DEF OccTyped, EntriesKept, Holds, HoldsNext
  <2>6. Fits(p, e)
    BY <1>1, <1>3, <2>1, <2>2 DEF Fits, BeforeTab, AfterTab, AfterClose, Holds, HoldsNext
  <2> QED
    BY <1>1, <1>3, <2>1, <2>4, <2>6, GoesOn DEF OccupyWorkspace, Places
<1> QED
  BY <1>2, <1>3 DEF OccupyWorkspace

LEMMA IntentKeeps ==
  ASSUME WorkersIInv, NEW p \in Execs, RecordWorkerLaunchIntent(p) PROVE WorkersIInv'
<1>1. exec[p].pc = "intent" /\ exec[p] \in ExecRecord /\ intent \subseteq Attempts /\ WorkersTyped
      /\ exec[p].a \in Attempts /\ Used(exec[p].a) /\ Holds(exec[p].a)
  BY ActingExec DEF RecordWorkerLaunchIntent, At, ExecOK
<1>2. CASE NotStarted(p) /\ UNCHANGED intent
  BY <1>1, <1>2, NotStartedKeeps DEF RecordWorkerLaunchIntent
<1>3. CASE Goto(p, "send") /\ intent' = intent \cup {exec[p].a} /\ UNCHANGED occ
  <2> PICK e : e = Onward(exec[p], "send")
    OBVIOUS
  <2>1. e.pc = "send" /\ e.a = exec[p].a
    BY <1>1, OnwardIs DEF Places
  <2>2. OccTyped' /\ EntriesKept
    BY <1>1, <1>3, OccStays
  <2>3. Fits(p, e)
    BY <1>1, <1>3, <2>1 DEF Fits, BeforeTab, AfterTab, AfterClose, Holds, HoldsNext
  <2> QED
    BY <1>1, <1>3, <2>2, <2>3, GoesOn DEF RecordWorkerLaunchIntent, Places
<1> QED
  BY <1>2, <1>3 DEF RecordWorkerLaunchIntent

(***************************************************************************)
(* What becomes of a pane: it is there once it was requested, and closed   *)
(* for good; its history grows.                                            *)
(***************************************************************************)
PaneMay(a, row) ==
  /\ Used(a) /\ row.st # "none"
  /\ pane[a].st = "closed" => row.st = "closed"
  /\ row.st # "closed" => HoldsNext(a) /\ att[a].status \notin Decided
  /\ row.st \in Launching => row.hist = <<>>
  /\ row.st = "agent" => Len(row.hist) > 0
  /\ pane[a].prompt => row.prompt
  /\ Now(a) <= Len(row.hist) /\ \A i \in 1..Now(a) : row.hist[i] = pane[a].hist[i]
  /\ (\E i \in 1..Len(row.hist) : row.hist[i] \in {"working", "done"}) => row.prompt

LEMMA PaneMoves ==
  ASSUME WorkersIInv, NEW a \in Attempts, NEW row \in PaneRecord, PaneMay(a, row),
         pane' = [pane EXCEPT ![a] = row], UNCHANGED <<storeVars, owner, intent, bind, inst>>,
         OccTyped', EntriesKept, exec' \in [Execs -> ExecRecord]
  PROVE  /\ WorkersTyped' /\ AttemptsOK' /\ Numbered' /\ HistoryIs'
         /\ \A b \in Attempts : Lasts(b) /\ Grows(b) /\ (b # a => Untouched(b))
<1>1. /\ pane' \in [Attempts -> PaneRecord] /\ pane'[a] = row
      /\ \A b \in Attempts : b # a => pane'[b] = pane[b]
  BY DEF WorkersIInv, WorkersTyped
<1>2. TypeOK' /\ UNCHANGED <<att, step, task>>
  BY DEF WorkersIInv, WorkersTyped, TypeOK, storeVars
<1>3. WorkersTyped'
  BY <1>1, <1>2, TypesHold DEF WorkersIInv, WorkersTyped, WorkersTypeOK, BindRecord
<1>4. SameNumbers /\ SameUse /\ \A b \in Attempts : StepStays(att[b].step)
  BY <1>2 DEF SameNumbers, SameUse, StepStays, Used
<1>5. Numbered'
  BY <1>2, <1>4, NumbersKept DEF WorkersIInv
<1>6. ASSUME NEW b \in Attempts, b # a
      PROVE  AttemptOK(b)' /\ HistoryOK(b)' /\ Lasts(b) /\ Grows(b) /\ Untouched(b)
  <2>1. Calm(b)
    BY <1>1, <1>2, <1>6 DEF Calm, EntriesKept, HoldsNext
  <2> QED
    BY <1>1, <1>4, <1>6, <2>1, Elsewhere
<1>7. AttemptOK(a) /\ HistoryOK(a) /\ Now(a) \in Nat /\ Len(row.hist) \in Nat /\ bind[a].cand \in Nat
  BY RecordTypes DEF WorkersIInv, AttemptsOK, HistoryIs, PaneRecord
<1>8. Lasts(a) /\ Grows(a)
  BY <1>1, <1>2, <1>7 DEF PaneMay, Lasts, Grows, Used, Now
<1>9. AttemptOK(a)'
  <2>1. Latest(att[a].step, a) => Latest(att[a].step, a)'
    BY <1>2 DEF Latest, AttemptsOf
  <2>2. pane'[a].st \in Launching \cup {"agent"} => Holds(a)'
    BY <1>1 DEF PaneMay, Holds, HoldsNext, Launching
  <2>3. att[a].status \in Decided => pane'[a].st = "closed"
    BY <1>1 DEF PaneMay
  <2>4. att[a].status = "review" => pane[a].st # "none"
    BY <1>7 DEF AttemptOK
  <2> QED
    BY <1>1, <1>2, <1>7, <2>1, <2>2, <2>3, <2>4 DEF AttemptOK, PaneMay, Used
<1>10. HistoryOK(a)'
  <2>1. WorkedBy(a, Now(a)) => WorkedBy(a, Now(a))'
    BY <1>1, <1>7 DEF PaneMay, WorkedBy, Now
  <2>2. bind[a].cand > 0 => IsCapture(a, bind[a].cand)'
    <3>1. SUFFICES ASSUME bind[a].cand > 0, IsCapture(a, bind[a].cand)
                   PROVE  IsCapture(a, bind[a].cand)'
      BY <1>7 DEF HistoryOK
    <3>2. /\ bind[a].cand <= Now(a)'
          /\ \/ pane'[a].hist[bind[a].cand] = "done"
             \/ /\ pane'[a].hist[bind[a].cand] = "idle"
                /\ \E i \in 1..bind[a].cand : pane'[a].hist[i] = "working"
      BY <1>7, <1>8, <3>1, WorkLasts DEF IsCapture
    <3> QED
      BY <3>2 DEF IsCapture, WorkedBy, Now
  <2>3. BegunBy(a, Now(a))' => row.prompt
    BY <1>1 DEF PaneMay, BegunBy, Now
  <2> QED
    BY <1>1, <1>2, <1>7, <2>1, <2>2, <2>3 DEF HistoryOK, PaneMay, Now
<1> QED
  BY <1>3, <1>5, <1>6, <1>8, <1>9, <1>10 DEF AttemptsOK, HistoryIs

(* The state of a pane changes, and its history does not.                   *)
LEMMA PaneTurns ==
  ASSUME WorkersIInv, NEW a \in Attempts, NEW st \in Launching \cup {"closed"}, Used(a),
         pane[a].st = "closed" => st = "closed",
         st # "closed" => /\ HoldsNext(a) /\ att[a].status \notin Decided
                          /\ pane[a].st \in {"none"} \cup Launching
  PROVE  LET row == [pane[a] EXCEPT !.st = st]
         IN  row \in PaneRecord /\ row.st = st /\ PaneMay(a, row)
<1> PICK row : row = [pane[a] EXCEPT !.st = st]
  OBVIOUS
<1>1. pane[a] \in PaneRecord /\ Now(a) \in Nat /\ HistoryOK(a)
  BY RecordTypes DEF WorkersIInv, HistoryIs
<1>2. row \in PaneRecord /\ row.st = st /\ row.hist = pane[a].hist /\ row.prompt = pane[a].prompt
  BY <1>1 DEF PaneRecord
<1>3. st \notin {"none", "agent"} /\ (st = "closed" => st \notin Launching)
  BY DEF Launching
<1>4. PaneMay(a, row)
  BY <1>1, <1>2, <1>3 DEF PaneMay, HistoryOK, BegunBy, Now
<1> QED
  BY <1>2, <1>4

(* An execution acts on the pane of its Attempt.                            *)
LEMMA PaneActs ==
  ASSUME WorkersIInv, NEW p \in Execs, exec[p].pc # "idle", NEW a \in Attempts, a = exec[p].a,
         LeftTo(p, a), NEW row \in PaneRecord, PaneMay(a, row), pane' = [pane EXCEPT ![a] = row],
         UNCHANGED <<storeVars, owner, intent, bind, inst>>, OccTyped', EntriesKept,
         NEW e \in ExecRecord, exec' = [exec EXCEPT ![p] = e],
         \/ e.pc = "idle"
         \/ /\ e.a = a
            /\ \/ e.pc \in (AfterTab \ {"close"}) \cup {"settle"}
               \/ e.pc = "free" /\ row.st = "closed" /\ e.then \in Sequels
  PROVE  WorkersIInv'
<1>1. exec' \in [Execs -> ExecRecord] /\ exec'[p] = e /\ \A q \in Execs \ {p} : exec'[q] = exec[q]
  BY ExecSet DEF WorkersIInv, WorkersTyped
<1>2. /\ WorkersTyped' /\ AttemptsOK' /\ Numbered' /\ HistoryIs'
      /\ \A b \in Attempts : Lasts(b) /\ Grows(b) /\ (b # a => Untouched(b))
  BY <1>1, PaneMoves
<1>3. pane'[a] = row /\ att' = att /\ bind' = bind /\ Used(a)
  BY DEF WorkersIInv, WorkersTyped, storeVars, PaneMay
<1>4. ExecOK(p)'
  BY <1>1, <1>3 DEF ExecOK, PaneMay, Used, BeforeTab, AfterTab, AfterClose
<1>5. CaptureOK(p)'
  BY <1>1, <1>3 DEF CaptureOK, AfterTab
<1>6. MayLaunch(p)
  BY <1>1 DEF MayLaunch, BeforeTab, AfterTab
<1>7. \A q \in Execs \ {p} : Stays(q)
  BY <1>1 DEF Stays, SameExec
<1> QED
  BY <1>2, <1>4, <1>5, <1>6, <1>7, ActingStep

LEMMA RequestTabKeeps ==
  ASSUME WorkersIInv, NEW p \in Execs, RequestTab(p) PROVE WorkersIInv'
<1> PICK a \in Attempts : a = exec[p].a
  BY ActingExec DEF RequestTab, At
<1> PICK row : row = [pane[a] EXCEPT !.st = "sent"]
  OBVIOUS
<1> PICK e : e = Onward(exec[p], "tab")
  OBVIOUS
<1>1. /\ exec[p].pc = "send" /\ exec[p] \in ExecRecord /\ Used(a) /\ WorkersTyped
      /\ pane[a].st = "none" /\ att[a].status \notin Decided /\ Holds(a)
  BY ActingExec DEF RequestTab, At, ExecOK, BeforeTab
<1>2. e \in ExecRecord /\ e.pc = "tab" /\ e.a = a
  BY <1>1, OnwardIs DEF Places
<1>3. OccTyped' /\ EntriesKept
  BY <1>1, OccStays DEF RequestTab
<1>4. row \in PaneRecord /\ PaneMay(a, row)
  BY <1>1, <1>3, PaneTurns DEF Launching, EntriesKept
<1>5. pane' = [pane EXCEPT ![a] = row]
  BY DEF RequestTab
<1>6. exec' = [exec EXCEPT ![p] = e]
  BY DEF RequestTab, Goto
<1>7. LeftTo(p, a)
  BY <1>1 DEF LeftTo, BeforeTab
<1> QED
  BY <1>1, <1>2, <1>3, <1>4, <1>5, <1>6, <1>7, PaneActs DEF RequestTab, AfterTab

LEMMA RequestAgentKeeps ==
  ASSUME WorkersIInv, NEW p \in Execs, RequestAgent(p) PROVE WorkersIInv'
<1> PICK a \in Attempts : a = exec[p].a
  BY ActingExec DEF RequestAgent, At
<1> PICK row : row = [pane[a] EXCEPT !.st = "starting"]
  OBVIOUS
<1> PICK e : e = Onward(exec[p], "agent")
  OBVIOUS
<1>1. exec[p].pc = "tab" /\ exec[p] \in ExecRecord /\ Used(a) /\ WorkersTyped /\ pane[a].st = "tab"
  BY ActingExec DEF RequestAgent, At
<1>2. e \in ExecRecord /\ e.pc = "agent" /\ e.a = a
  BY <1>1, OnwardIs DEF Places
<1>3. OccTyped' /\ EntriesKept
  BY <1>1, OccStays DEF RequestAgent
<1>4. Holds(a) /\ att[a].status \notin Decided
  BY <1>1 DEF WorkersIInv, AttemptsOK, AttemptOK, Launching
<1>5. row \in PaneRecord /\ PaneMay(a, row)
  BY <1>1, <1>3, <1>4, PaneTurns DEF Launching, EntriesKept
<1>6. pane' = [pane EXCEPT ![a] = row]
  BY DEF RequestAgent
<1>7. exec' = [exec EXCEPT ![p] = e]
  BY DEF RequestAgent, Goto
<1>8. LeftTo(p, a)
  BY <1>1 DEF LeftTo
<1> QED
  BY <1>1, <1>2, <1>3, <1>5, <1>6, <1>7, <1>8, PaneActs DEF RequestAgent, AfterTab

(***************************************************************************)
(* What becomes of a binding: it is made of a pane that was there, and says*)
(* of its history what the history says.                                   *)
(***************************************************************************)
BindMay(a, row) ==
  /\ pane[a].st # "none"
  /\ \/ row.last = "working" \/ row.prev = "working"
     \/ row.prev = "idle" /\ row.done
     => WorkedBy(a, Now(a))
  /\ row.cand > 0 => IsCapture(a, row.cand)
  /\ bind[a].cand > 0 => row.cand = bind[a].cand

LEMMA BindMoves ==
  ASSUME WorkersIInv, NEW a \in Attempts, NEW row \in BindRecord, BindMay(a, row),
         bind' = [bind EXCEPT ![a] = row], UNCHANGED <<att, owner, intent, pane, inst, occ>>,
         TypeOK', task'.last = task.last, \A s \in Steps : StepStays(s),
         exec' \in [Execs -> ExecRecord]
  PROVE  /\ WorkersTyped' /\ AttemptsOK' /\ Numbered' /\ HistoryIs'
         /\ \A b \in Attempts : Lasts(b) /\ Grows(b) /\ (Untouched(b) \/ pane[b].st # "none")
<1>1. /\ bind' \in [Attempts -> BindRecord] /\ bind'[a] = row
      /\ \A b \in Attempts : b # a => bind'[b] = bind[b]
  BY RecordTypes DEF WorkersIInv
<1>2. WorkersTyped' /\ OccTyped' /\ EntriesKept
  <2>1. OccTyped' /\ EntriesKept
    BY OccStays DEF WorkersIInv
  <2> QED
    BY <1>1, <2>1, TypesHold DEF WorkersIInv, WorkersTyped, WorkersTypeOK
<1>3. SameNumbers /\ SameUse
  BY DEF SameNumbers, SameUse, Used
<1>4. Numbered'
  BY <1>3, NumbersKept DEF WorkersIInv
<1>5. ASSUME NEW b \in Attempts PROVE AttemptOK(b) /\ (att[b].status = "review" => StepStays(att[b].step))
  BY DEF WorkersIInv, AttemptsOK, AttemptOK, Used
<1>6. ASSUME NEW b \in Attempts PROVE AttemptOK(b)'
  <2>1. Latest(att[b].step, b) => Latest(att[b].step, b)'
    BY DEF Latest, AttemptsOf
  <2>2. pane[b].st \in Launching \cup {"agent"} => Holds(b)'
    BY <1>2, <1>5 DEF AttemptOK, EntriesKept, Holds, HoldsNext
  <2>3. bind'[b].at # "none" => pane[b].st # "none"
    BY <1>1, <1>5 DEF AttemptOK, BindMay
  <2> QED
    BY <1>5, <2>1, <2>2, <2>3 DEF AttemptOK, Used, StepStays
<1>7. ASSUME NEW b \in Attempts PROVE HistoryOK(b)'
  <2>1. HistoryOK(b) /\ bind[b].cand \in Nat
    BY RecordTypes DEF WorkersIInv, HistoryIs
  <2> QED
    BY <1>1, <2>1 DEF HistoryOK, IsCapture, BegunBy, WorkedBy, Now, BindMay
<1>8. ASSUME NEW b \in Attempts
      PROVE  Lasts(b) /\ Grows(b) /\ (Untouched(b) \/ pane[b].st # "none")
  <2>1. Now(b) \in Nat /\ Len(pane'[b].hist) = Now(b)
    BY RecordTypes DEF WorkersIInv, Now
  <2> QED
    BY <1>1, <1>2, <2>1 DEF Lasts, Grows, Untouched, BindMay, EntriesKept, Used
<1> QED
  BY <1>2, <1>4, <1>6, <1>7, <1>8 DEF AttemptsOK, HistoryIs

(* An execution writes the binding of its Attempt.                          *)
LEMMA BindActs ==
  ASSUME WorkersIInv, NEW p \in Execs, exec[p].pc # "idle", NEW a \in Attempts, a = exec[p].a,
         NEW row \in BindRecord, BindMay(a, row), bind' = [bind EXCEPT ![a] = row],
         UNCHANGED <<att, owner, intent, pane, inst, occ>>, TypeOK', task'.last = task.last,
         \A s \in Steps : StepStays(s), NEW e \in ExecRecord, exec' = [exec EXCEPT ![p] = e],
         \/ e.pc = "idle"
         \/ e.a = a /\ e.pc \in {"attach", "prompt"}
         \/ e.a = a /\ e.pc = "review" /\ row.cand > 0
  PROVE  WorkersIInv'
<1>1. exec' \in [Execs -> ExecRecord] /\ exec'[p] = e /\ \A q \in Execs \ {p} : exec'[q] = exec[q]
  BY ExecSet DEF WorkersIInv, WorkersTyped
<1>2. /\ WorkersTyped' /\ AttemptsOK' /\ Numbered' /\ HistoryIs'
      /\ \A b \in Attempts : Lasts(b) /\ Grows(b) /\ (Untouched(b) \/ LeftTo(p, b))
  BY <1>1, BindMoves DEF LeftTo
<1>3. bind'[a] = row /\ Used(a) /\ pane[a].st # "none"
  BY ActingExec, RecordTypes DEF WorkersIInv, BindMay
<1>4. ExecOK(p)'
  BY <1>1, <1>3 DEF ExecOK, Used, BeforeTab, AfterTab, AfterClose
<1>5. CaptureOK(p)'
  BY <1>1, <1>3 DEF CaptureOK
<1>6. MayLaunch(p)
  BY <1>1 DEF MayLaunch, BeforeTab
<1>7. \A q \in Execs \ {p} : Stays(q)
  BY <1>1 DEF Stays, SameExec
<1> QED
  BY <1>2, <1>4, <1>5, <1>6, <1>7, ActingStep

LEMMA StoreStays ==
  ASSUME WorkersIInv, UNCHANGED storeVars
  PROVE  /\ TypeOK' /\ UNCHANGED <<task, step, att, lease>> /\ \A s \in Steps : StepStays(s)
  BY DEF WorkersIInv, WorkersTyped, TypeOK, storeVars, StepStays

LEMMA VerifyAgentKeeps ==
  ASSUME WorkersIInv, NEW p \in Execs, VerifyAgent(p) PROVE WorkersIInv'
<1> PICK e : e = Onward(exec[p], "bind")
  OBVIOUS
<1>1. /\ exec[p].pc = "agent" /\ exec[p] \in ExecRecord /\ WorkersTyped /\ intent \subseteq Attempts
      /\ exec[p].a \in Attempts /\ Used(exec[p].a)
  BY ActingExec DEF VerifyAgent, At
<1>2. e.pc = "bind" /\ e.a = exec[p].a
  BY <1>1, OnwardIs DEF Places
<1>3. OccTyped' /\ EntriesKept
  BY <1>1, OccStays DEF VerifyAgent
<1>4. Fits(p, e)
  BY <1>1, <1>2 DEF Fits, VerifyAgent, BeforeTab, AfterTab, AfterClose
<1> QED
  BY <1>1, <1>3, <1>4, GoesOn DEF VerifyAgent, Places

LEMMA LaunchFailsKeeps ==
  ASSUME WorkersIInv, NEW p \in Execs, LaunchFails(p) PROVE WorkersIInv'
<1> PICK e : e = [exec[p] EXCEPT !.pc = "settle", !.lv = 0]
  OBVIOUS
<1>1. /\ exec[p] \in ExecRecord /\ WorkersTyped /\ intent \subseteq Attempts
      /\ exec[p].a \in Attempts /\ Used(exec[p].a)
  BY ActingExec DEF LaunchFails
<1>2. e \in ExecRecord /\ e.pc = "settle" /\ e.a = exec[p].a
  BY <1>1 DEF ExecRecord, Places
<1>3. exec' = [exec EXCEPT ![p] = e]
  BY <1>1 DEF LaunchFails, WorkersTyped
<1>4. OccTyped' /\ EntriesKept
  BY <1>1, Quarantined DEF LaunchFails
<1>5. Fits(p, e)
  BY <1>1, <1>2 DEF Fits, BeforeTab, AfterTab, AfterClose
<1> QED
  BY <1>1, <1>2, <1>3, <1>4, <1>5, QuietStep DEF LaunchFails

LEMMA BindWorkerKeeps ==
  ASSUME WorkersIInv, NEW p \in Execs, BindWorker(p) PROVE WorkersIInv'
<1> PICK a \in Attempts : a = exec[p].a
  BY ActingExec DEF BindWorker, At
<1> PICK e : e = Onward(exec[p], "attach")
  OBVIOUS
<1> PICK row : row = [bind[a] EXCEPT !.at = "bound", !.upd = Now(a)]
  OBVIOUS
<1>1. exec[p].pc = "bind" /\ exec[p] \in ExecRecord /\ pane[a].st # "none" /\ WorkersTyped
  BY ActingExec DEF BindWorker, At, ExecOK, AfterTab
<1>2. e \in ExecRecord /\ e.pc = "attach" /\ e.a = a
  BY <1>1, OnwardIs DEF Places
<1>3. HistoryOK(a) /\ Now(a) \in Nat /\ bind[a] \in BindRecord /\ bind \in [Attempts -> BindRecord]
  BY RecordTypes DEF WorkersIInv, HistoryIs
<1>4. /\ row \in BindRecord /\ row.last = bind[a].last /\ row.prev = bind[a].prev
      /\ row.done = bind[a].done /\ row.cand = bind[a].cand
  BY <1>3 DEF BindRecord
<1>5. BindMay(a, row)
  BY <1>1, <1>3, <1>4 DEF BindMay, HistoryOK
<1>6. bind' = [bind EXCEPT ![a] = row]
  BY <1>3 DEF BindWorker
<1>7. exec' = [exec EXCEPT ![p] = e]
  BY DEF BindWorker, Goto
<1> QED
  BY <1>1, <1>2, <1>4, <1>5, <1>6, <1>7, StoreStays, BindActs DEF BindWorker

LEMMA AttachKeeps ==
  ASSUME WorkersIInv, NEW p \in Execs, AttachClaimedWorkerBinding(p) PROVE WorkersIInv'
<1> PICK a \in Attempts : a = exec[p].a
  BY ActingExec DEF AttachClaimedWorkerBinding, At
<1> PICK e : e = Onward(exec[p], "prompt")
  OBVIOUS
<1> PICK row : row = [bind[a] EXCEPT !.at = "attached"]
  OBVIOUS
<1>1. exec[p].pc = "attach" /\ exec[p] \in ExecRecord /\ pane[a].st # "none" /\ WorkersTyped
  BY ActingExec DEF AttachClaimedWorkerBinding, At, ExecOK, AfterTab
<1>2. e \in ExecRecord /\ e.pc = "prompt" /\ e.a = a
  BY <1>1, OnwardIs DEF Places
<1>3. HistoryOK(a) /\ bind[a] \in BindRecord /\ bind \in [Attempts -> BindRecord]
  BY RecordTypes DEF WorkersIInv, HistoryIs
<1>4. /\ row \in BindRecord /\ row.last = bind[a].last /\ row.prev = bind[a].prev
      /\ row.done = bind[a].done /\ row.cand = bind[a].cand
  BY <1>3 DEF BindRecord
<1>5. BindMay(a, row)
  BY <1>1, <1>3, <1>4 DEF BindMay, HistoryOK
<1>6. bind' = [bind EXCEPT ![a] = row]
  BY <1>3 DEF AttachClaimedWorkerBinding
<1>7. exec' = [exec EXCEPT ![p] = e]
  BY DEF AttachClaimedWorkerBinding, Goto
<1>8. TypeOK' /\ \A s \in Steps : StepStays(s)
  <2>1. lease' = [lease EXCEPT ![a].version = @ + 1]
    BY DEF AttachClaimedWorkerBinding
  <2>2. lease \in [Attempts -> LeaseRecord]
    BY <1>1 DEF WorkersTyped, TypeOK, LeaseRecord
  <2>3. lease' \in [Attempts -> LeaseRecord]
    BY <2>1, <2>2 DEF LeaseRecord
  <2> QED
    BY <1>1, <2>3 DEF LeaseRecord, WorkersTyped, TypeOK, AttachClaimedWorkerBinding, StepStays
<1> QED
  BY <1>1, <1>2, <1>4, <1>5, <1>6, <1>7, <1>8, BindActs DEF AttachClaimedWorkerBinding

LEMMA PromptAgentKeeps ==
  ASSUME WorkersIInv, NEW p \in Execs, PromptAgent(p) PROVE WorkersIInv'
<1> PICK a \in Attempts : a = exec[p].a
  BY ActingExec DEF PromptAgent, At
<1> PICK e : e = Onward(exec[p], "mark")
  OBVIOUS
<1> PICK row : row = [pane[a] EXCEPT !.prompt = TRUE]
  OBVIOUS
<1>1. exec[p].pc = "prompt" /\ exec[p] \in ExecRecord /\ Used(a) /\ WorkersTyped /\ pane[a].st = "agent"
  BY ActingExec DEF PromptAgent, At
<1>2. e \in ExecRecord /\ e.pc = "mark" /\ e.a = a
  BY <1>1, OnwardIs DEF Places
<1>3. OccTyped' /\ EntriesKept
  BY <1>1, OccStays DEF PromptAgent
<1>4. pane[a] \in PaneRecord /\ Now(a) \in Nat /\ HistoryOK(a) /\ AttemptOK(a)
  BY RecordTypes DEF WorkersIInv, HistoryIs, AttemptsOK
<1>5. row \in PaneRecord /\ row.st = "agent" /\ row.hist = pane[a].hist /\ row.prompt
  BY <1>1, <1>4 DEF PaneRecord
<1>6. PaneMay(a, row)
  BY <1>1, <1>3, <1>4, <1>5 DEF PaneMay, HistoryOK, AttemptOK, Now, EntriesKept, Launching
<1>7. pane' = [pane EXCEPT ![a] = row]
  BY <1>1 DEF PromptAgent, WorkersTyped
<1>8. exec' = [exec EXCEPT ![p] = e]
  BY DEF PromptAgent, Goto
<1>9. LeftTo(p, a)
  BY <1>1 DEF LeftTo
<1> QED
  BY <1>1, <1>2, <1>3, <1>5, <1>6, <1>7, <1>8, <1>9, PaneActs DEF PromptAgent, AfterTab

LEMMA MarkKeeps ==
  ASSUME WorkersIInv, NEW p \in Execs, MarkWorkerPromptDispatched(p) PROVE WorkersIInv'
<1> PICK a \in Attempts : a = exec[p].a
  BY ActingExec DEF MarkWorkerPromptDispatched, At
<1> PICK row : row = [bind[a] EXCEPT !.prompted = TRUE, !.upd = Now(a)]
  OBVIOUS
<1>1. exec[p].pc = "mark" /\ pane[a].st # "none"
  BY ActingExec DEF MarkWorkerPromptDispatched, At, ExecOK, AfterTab
<1>2. HistoryOK(a) /\ Now(a) \in Nat /\ bind[a] \in BindRecord /\ bind \in [Attempts -> BindRecord]
  BY RecordTypes DEF WorkersIInv, HistoryIs
<1>3. /\ row \in BindRecord /\ row.last = bind[a].last /\ row.prev = bind[a].prev
      /\ row.done = bind[a].done /\ row.cand = bind[a].cand
  BY <1>2 DEF BindRecord
<1>4. BindMay(a, row)
  BY <1>1, <1>2, <1>3 DEF BindMay, HistoryOK
<1>5. bind' = [bind EXCEPT ![a] = row]
  BY <1>2 DEF MarkWorkerPromptDispatched
<1>6. Idle \in ExecRecord /\ Idle.pc = "idle" /\ exec' = [exec EXCEPT ![p] = Idle]
  BY IdleIs DEF MarkWorkerPromptDispatched, Finish
<1> QED
  BY <1>1, <1>3, <1>4, <1>5, <1>6, StoreStays, BindActs DEF MarkWorkerPromptDispatched

LEMMA DispatchFailsKeeps ==
  ASSUME WorkersIInv, NEW p \in Execs, DispatchFails(p) PROVE WorkersIInv'
<1> PICK a \in Attempts : a = exec[p].a
  BY ActingExec DEF DispatchFails, At
<1> PICK claim : claim = [exec[p] EXCEPT !.then = "settle", !.lv = 0]
  OBVIOUS
<1>1. exec[p] \in ExecRecord /\ Used(a) /\ pane[a].st # "none"
  BY ActingExec DEF DispatchFails, At, ExecOK, AfterTab
<1>2. claim \in ExecRecord /\ claim.a = a /\ claim.then = "settle"
  BY <1>1 DEF ExecRecord, Sequels
<1> QED
  BY <1>1, <1>2, ClosureBegins DEF DispatchFails, Sequels

(***************************************************************************)
(* Closing a pane, and freeing the workspace after it.                     *)
(***************************************************************************)
LEMMA AfterFailure ==
  ASSUME WorkersIInv, NEW p \in Execs, exec[p].pc # "idle", AfterFailedClose(p)
  PROVE  \E e \in ExecRecord : /\ exec' = [exec EXCEPT ![p] = e]
                               /\ e.pc \in {"idle", "settle"}
                               /\ e.pc # "idle" => e.a = exec[p].a
<1>1. exec[p] \in ExecRecord /\ exec \in [Execs -> ExecRecord]
  BY ActingExec DEF WorkersIInv, WorkersTyped
<1>2. /\ Onward(exec[p], "settle") \in ExecRecord /\ Onward(exec[p], "settle").pc = "settle"
      /\ Onward(exec[p], "settle").a = exec[p].a
  BY <1>1, OnwardIs DEF Places
<1>3. exec' \in {[exec EXCEPT ![p] = Onward(exec[p], "settle")], [exec EXCEPT ![p] = Idle]}
  BY DEF AfterFailedClose
<1> QED
  BY <1>2, <1>3, IdleIs

LEMMA ClosePaneKeeps ==
  ASSUME WorkersIInv, NEW p \in Execs, ClosePane(p) PROVE WorkersIInv'
<1> PICK a \in Attempts : a = exec[p].a
  BY ActingExec DEF ClosePane, At
<1> PICK row : row = [pane[a] EXCEPT !.st = "closed"]
  OBVIOUS
<1>1. /\ exec[p].pc = "close" /\ exec[p] \in ExecRecord /\ Used(a) /\ WorkersTyped
      /\ pane[a].st # "none" /\ exec[p].then \in Sequels /\ intent \subseteq Attempts
  BY ActingExec DEF ClosePane, At, ExecOK, AfterTab
<1>2. row \in PaneRecord /\ row.st = "closed" /\ PaneMay(a, row)
  BY <1>1, PaneTurns
<1>3. LeftTo(p, a)
  BY <1>1 DEF LeftTo
<1>4. CASE pane' = [pane EXCEPT ![a].st = "closed"] /\ Goto(p, "free") /\ UNCHANGED occ
  <2> PICK e : e = Onward(exec[p], "free")
    OBVIOUS
  <2>1. e \in ExecRecord /\ e.pc = "free" /\ e.a = a /\ e.then = exec[p].then
    BY <1>1, OnwardIs DEF Places
  <2>2. OccTyped' /\ EntriesKept
    BY <1>1, <1>4, OccStays
  <2>3. pane' = [pane EXCEPT ![a] = row] /\ exec' = [exec EXCEPT ![p] = e]
    BY <1>1, <1>4 DEF WorkersTyped, Goto
  <2> QED
    BY <1>1, <1>2, <1>3, <2>1, <2>2, <2>3, PaneActs DEF ClosePane
<1>5. CASE /\ pane' \in {pane, [pane EXCEPT ![a].st = "closed"]} /\ AfterFailedClose(p)
           /\ occ' = IF exec[p].held = "closing" /\ Holds(a)
                     THEN [occ EXCEPT !.state = "quarantined"] ELSE occ
  <2>1. PICK e \in ExecRecord : /\ exec' = [exec EXCEPT ![p] = e]
                                /\ e.pc \in {"idle", "settle"}
                                /\ e.pc # "idle" => e.a = a
    BY <1>1, <1>5, AfterFailure
  <2>2. OccTyped' /\ EntriesKept
    BY <1>1, <1>5, OccStays, OccMoves DEF Holds
  <2>3. CASE pane' = pane
    <3>1. Fits(p, e)
      BY <1>1, <2>1 DEF Fits, BeforeTab, AfterTab, AfterClose
    <3> QED
      BY <1>1, <2>1, <2>2, <2>3, <3>1, QuietStep DEF ClosePane
  <2>4. CASE pane' = [pane EXCEPT ![a] = row]
    BY <1>1, <1>2, <1>3, <2>1, <2>2, <2>4, PaneActs DEF ClosePane
  <2>5. pane' = pane \/ pane' = [pane EXCEPT ![a] = row]
    BY <1>1, <1>5 DEF WorkersTyped
  <2> QED
    BY <2>3, <2>4, <2>5
<1> QED
  BY <1>4, <1>5 DEF ClosePane

LEMMA FreeWorkspaceKeeps ==
  ASSUME WorkersIInv, NEW p \in Execs, FreeWorkspace(p) PROVE WorkersIInv'
<1> PICK a \in Attempts : a = exec[p].a
  BY ActingExec DEF FreeWorkspace, At
<1>1. /\ exec[p].pc = "free" /\ exec[p] \in ExecRecord /\ Used(a) /\ WorkersTyped
      /\ pane[a].st = "closed" /\ exec[p].then \in Sequels
  BY ActingExec DEF FreeWorkspace, At, ExecOK, AfterClose
<1>2. PICK e \in ExecRecord : /\ exec' = [exec EXCEPT ![p] = e]
                              /\ e.pc = "idle" \/ (e.a = a /\ e.pc \in Sequels)
  <2>1. exec[p].then \in Sequels \cap Places
    BY <1>1 DEF Sequels, Places
  <2>2. CASE exec[p].then = "idle" /\ Finish(p)
    BY <2>2, IdleIs DEF Finish
  <2>3. CASE Goto(p, exec[p].then)
    BY <1>1, <2>1, <2>3, OnwardIs DEF Goto
  <2>4. CASE AfterFailedClose(p)
    BY <1>1, <2>4, AfterFailure DEF Sequels
  <2> QED
    BY <2>2, <2>3, <2>4 DEF FreeWorkspace
<1>3. exec' \in [Execs -> ExecRecord] /\ exec'[p] = e /\ \A q \in Execs \ {p} : exec'[q] = exec[q]
  BY <1>1, <1>2, ExecSet DEF WorkersTyped
<1>4. OccTyped' /\ \A b \in Attempts \ {a} : Holds(b) => HoldsNext(b)
  BY <1>1, OccIs, ParametersAssumption, WorkersAssumption
     DEF FreeWorkspace, FreeEntry, OccTyped, Holds, HoldsNext
<1>5. /\ WorkersTyped' /\ AttemptsOK' /\ Numbered' /\ HistoryIs'
      /\ \A b \in Attempts : Lasts(b) /\ Grows(b) /\ (b # a => Untouched(b))
  BY <1>1, <1>3, <1>4, GivesBack DEF FreeWorkspace
<1>6. LeftTo(p, a)
  BY <1>1 DEF LeftTo
<1>7. ExecOK(p)'
  BY <1>1, <1>2, <1>3 DEF ExecOK, Used, BeforeTab, AfterTab, AfterClose, Sequels, storeVars, FreeWorkspace
<1>8. CaptureOK(p)'
  BY <1>2, <1>3 DEF CaptureOK, Sequels
<1>9. MayLaunch(p) /\ \A q \in Execs \ {p} : Stays(q)
  BY <1>2, <1>3 DEF MayLaunch, BeforeTab, Stays, SameExec, Sequels
<1> QED
  BY <1>5, <1>6, <1>7, <1>8, <1>9, ActingStep

(***************************************************************************)
(* Claims and settlements.                                                 *)
(***************************************************************************)
LEMMA ClaimWorkerKeeps ==
  ASSUME WorkersIInv, NEW p \in Execs, NEW s \in Steps, NEW a \in Attempts, ClaimWorker(p, s, a)
  PROVE  WorkersIInv'
<1> PICK e : e = [Idle EXCEPT !.pc = "occupy", !.a = a, !.sv = step[s].version + 1, !.lv = 1]
  OBVIOUS
<1>1. /\ ClaimReadyStep(s, a, step[s].version) /\ exec' = [exec EXCEPT ![p] = e]
      /\ owner' = [owner EXCEPT ![a] = inst] /\ UNCHANGED <<intent, bind, pane, occ, inst>>
  BY DEF ClaimWorker
<1>2. /\ WorkersTyped /\ TypeOK /\ Numbered /\ AttemptOK(a) /\ HistoryOK(a) /\ ~Used(a)
      /\ Now(a) \in Nat
  BY <1>1, RecordTypes DEF WorkersIInv, WorkersTyped, AttemptsOK, HistoryIs, ClaimReadyStep, Used
<1>3. pane[a].st = "none" /\ bind[a].at = "none"
  BY <1>2 DEF AttemptOK
<1>4. TypeOK'
  BY <1>1, <1>2, StepTypeOK DEF StepNext
<1>5. /\ att'[a] = [step |-> s, num |-> task.last + 1, status |-> "running"]
      /\ \A b \in Attempts : b # a => att'[b] = att[b]
      /\ \A t \in Steps : t # s => step'[t] = step[t]
      /\ step[s].status = "ready" /\ task'.last = task.last + 1 /\ task.last \in Nat
      /\ \A b \in Attempts : att[b].num \in Nat
  BY <1>1, <1>2 DEF ClaimReadyStep, TypeOK, MoveStep
<1>6. e \in ExecRecord /\ e.pc = "occupy" /\ e.a = a
  <2>1. step[s].version + 1 \in Nat
    BY <1>2 DEF TypeOK
  <2> QED
    BY <2>1 DEF Idle, ExecRecord, Places, Sequels
<1>7. exec' \in [Execs -> ExecRecord] /\ exec'[p] = e /\ \A q \in Execs \ {p} : exec'[q] = exec[q]
  BY <1>1, <1>2, <1>6, ExecSet DEF WorkersTyped
<1>8. WorkersTyped'
  <2>1. owner' \in [Attempts -> 0..MaxInstance] /\ OccTyped'
    BY <1>1, <1>2, OccStays DEF WorkersTyped, WorkersTypeOK
  <2> QED
    BY <1>1, <1>2, <1>4, <1>7, <2>1, TypesHold DEF WorkersTyped, WorkersTypeOK, BindRecord
<1>9. Numbered'
  BY <1>2, <1>5 DEF Numbered, Used
<1>10. ASSUME NEW b \in Attempts, b # a
       PROVE  AttemptOK(b)' /\ HistoryOK(b)' /\ Lasts(b) /\ Grows(b) /\ Untouched(b)
  <2>1. AttemptOK(b) /\ HistoryOK(b) /\ Now(b) \in Nat
    BY <1>2, RecordTypes DEF WorkersIInv, AttemptsOK, HistoryIs
  <2>2. ASSUME NEW t \in Steps, t # s, Latest(t, b) PROVE Latest(t, b)'
    BY <1>5, <1>10, <2>2 DEF Latest, AttemptsOf
  <2>3. AttemptOK(b)'
    BY <1>1, <1>5, <1>10, <2>1, <2>2 DEF AttemptOK, Used, Holds
  <2>4. HistoryOK(b)'
    BY <1>1, <1>5, <1>10, <2>1 DEF HistoryOK, IsCapture, BegunBy, WorkedBy, Now
  <2> QED
    BY <1>1, <1>5, <1>10, <2>1, <2>3, <2>4 DEF Lasts, Grows, Untouched, Used, Now, Holds, HoldsNext
<1>11. AttemptOK(a)'
  BY <1>1, <1>3, <1>5 DEF AttemptOK, Used, Launching, Decided
<1>12. HistoryOK(a)'
  BY <1>1, <1>2, <1>5 DEF HistoryOK, IsCapture, BegunBy, WorkedBy, Now
<1>13. Lasts(a) /\ Grows(a) /\ LeftTo(p, a)
  BY <1>1, <1>2, <1>3, <1>5 DEF Lasts, Grows, LeftTo, Now
<1>14. ExecOK(p)'
  BY <1>1, <1>3, <1>5, <1>6, <1>7 DEF ExecOK, Used, Decided, AfterTab, AfterClose
<1>15. CaptureOK(p)'
  BY <1>6, <1>7 DEF CaptureOK
<1>16. MayLaunch(p) /\ \A q \in Execs \ {p} : Stays(q)
  BY <1>2, <1>6, <1>7 DEF MayLaunch, Stays, SameExec
<1> QED
  BY <1>8, <1>9, <1>10, <1>11, <1>12, <1>13, <1>14, <1>15, <1>16, ActingStep
     DEF AttemptsOK, HistoryIs

(* What an outcome needs: a Worker that is gone, or a candidate and a Step  *)
(* put up for review.                                                       *)
MayBecome(a, st) ==
  /\ Used(a) /\ st # "unused"
  /\ st \in Decided => pane[a].st \in {"none", "closed"}
  /\ st = "review" => /\ pane[a].st # "none" /\ Latest(att[a].step, a)
                      /\ step'[att[a].step].status = "review"
  /\ st \in {"review", "succeeded"} => bind[a].cand > 0

LEMMA Outcome ==
  ASSUME WorkersIInv, NEW a \in Attempts, NEW st, MayBecome(a, st),
         att' = [att EXCEPT ![a].status = st], UNCHANGED <<owner, intent, bind, pane, inst, occ>>,
         \A b \in Attempts \ {a} :
           att[b].status = "review" /\ pane[b].st # "closed" => StepStays(att[b].step),
         TypeOK', task'.last = task.last, exec' \in [Execs -> ExecRecord]
  PROVE  /\ WorkersTyped' /\ AttemptsOK' /\ Numbered' /\ HistoryIs'
         /\ \A b \in Attempts : Lasts(b) /\ Grows(b) /\ (b # a \/ st \notin Decided => Untouched(b))
<1>1. WorkersTyped /\ TypeOK
  BY DEF WorkersIInv, WorkersTyped
<1>2. WorkersTyped' /\ EntriesKept
  BY <1>1, OccStays, TypesHold DEF WorkersTyped, WorkersTypeOK, BindRecord
<1>3. /\ att'[a].status = st /\ att'[a].step = att[a].step /\ att'[a].num = att[a].num
      /\ \A b \in Attempts : b # a => att'[b] = att[b]
  BY <1>1 DEF TypeOK
<1>4. SameNumbers /\ SameUse
  BY <1>3 DEF SameNumbers, SameUse, MayBecome, Used
<1>5. Numbered'
  BY <1>4, NumbersKept DEF WorkersIInv
<1>6. ASSUME NEW b \in Attempts PROVE Latest(att[b].step, b) => Latest(att[b].step, b)'
  BY <1>4 DEF Latest, AttemptsOf, SameNumbers
<1>7. ASSUME NEW b \in Attempts PROVE AttemptOK(b) /\ HistoryOK(b) /\ Now(b) \in Nat
  BY RecordTypes DEF WorkersIInv, AttemptsOK, HistoryIs
<1>8. ASSUME NEW b \in Attempts PROVE AttemptOK(b)' /\ HistoryOK(b)'
  <2>1. CASE b # a
    <3>1. AttemptOK(b)'
      BY <1>3, <1>6, <1>7, <2>1 DEF AttemptOK, Used, Holds, StepStays
    <3> QED
      BY <1>3, <1>7, <2>1, <3>1 DEF HistoryOK, IsCapture, BegunBy, WorkedBy, Now
  <2>2. CASE b = a
    <3>1. AttemptOK(a)'
      BY <1>3, <1>6, <1>7, <2>2 DEF AttemptOK, Used, Holds, MayBecome, Decided
    <3> QED
      BY <1>3, <1>7, <2>2, <3>1 DEF HistoryOK, IsCapture, BegunBy, WorkedBy, Now, MayBecome
  <2> QED
    BY <2>1, <2>2
<1>9. ASSUME NEW b \in Attempts
      PROVE  Lasts(b) /\ Grows(b) /\ (b # a \/ st \notin Decided => Untouched(b))
  BY <1>2, <1>3, <1>4, <1>7 DEF Lasts, Grows, Untouched, Now, EntriesKept, SameUse
<1> QED
  BY <1>2, <1>5, <1>8, <1>9 DEF AttemptsOK, HistoryIs

(* An execution settles its Attempt, and is done.                           *)
LEMMA Settles ==
  ASSUME WorkersIInv, NEW p \in Execs, NEW a \in Attempts, NEW st, MayBecome(a, st),
         st \in Decided => LeftTo(p, a), Finish(p),
         att' = [att EXCEPT ![a].status = st], UNCHANGED <<owner, intent, bind, pane, inst, occ>>,
         \A b \in Attempts \ {a} :
           att[b].status = "review" /\ pane[b].st # "closed" => StepStays(att[b].step),
         TypeOK', task'.last = task.last
  PROVE  WorkersIInv'
<1>1. /\ exec' \in [Execs -> ExecRecord] /\ exec'[p] = Idle /\ Idle.pc = "idle"
      /\ \A q \in Execs \ {p} : exec'[q] = exec[q]
  BY IdleIs, ExecSet DEF WorkersIInv, WorkersTyped, Finish
<1>2. /\ WorkersTyped' /\ AttemptsOK' /\ Numbered' /\ HistoryIs'
      /\ \A b \in Attempts : Lasts(b) /\ Grows(b) /\ (Untouched(b) \/ LeftTo(p, b))
  BY <1>1, Outcome
<1>3. ExecOK(p)' /\ CaptureOK(p)' /\ MayLaunch(p) /\ \A q \in Execs \ {p} : Stays(q)
  BY <1>1 DEF ExecOK, CaptureOK, MayLaunch, Stays, SameExec, BeforeTab, AfterTab, AfterClose
<1> QED
  BY <1>2, <1>3, ActingStep

LEMMA SettleWorkerKeeps ==
  ASSUME WorkersIInv, NEW p \in Execs, SettleWorker(p) PROVE WorkersIInv'
<1> PICK a \in Attempts : a = exec[p].a
  BY ActingExec DEF SettleWorker, At
<1>1. /\ exec[p].pc \in {"fail", "settle"} /\ ExecOK(p) /\ Used(a) /\ WorkersTyped /\ TypeOK
      /\ att[a].step \in Steps /\ Finish(p) /\ intent \subseteq Attempts
  BY ActingExec DEF SettleWorker, At, WorkersIInv, AttemptsOK, AttemptOK, WorkersTyped
<1>2. CASE UNCHANGED storeVars
  <2>1. OccTyped' /\ EntriesKept
    BY <1>1, OccStays DEF SettleWorker
  <2> QED
    BY <1>1, <1>2, <2>1, Finishes DEF SettleWorker
<1>3. CASE \E lv : SettleClaimedStep(att[a].step, a, exec[p].sv, lv,
                                    IF At(p, "fail") THEN "failed" ELSE "unknown")
  <2> PICK s \in Steps : s = att[a].step
    BY <1>1
  <2> PICK outcome \in {"failed", "unknown"} : /\ outcome = "failed" <=> exec[p].pc = "fail"
                                               /\ \E lv : SettleClaimedStep(s, a, exec[p].sv, lv, outcome)
    BY <1>3 DEF At
  <2>1. SettleClaimedStep(s, a, step[s].version, lease[a].version, outcome)
    BY DEF SettleClaimedStep, HoldsClaim
  <2>2. TypeOK'
    BY <1>1, <2>1, SettleTypeOK DEF SettleNext
  <2>3. PICK st \in {"failed", "waiting_input"} :
          /\ att' = [att EXCEPT ![a].status = st] /\ (st = "failed" => exec[p].pc = "fail")
          /\ task' = task /\ step[s].status = "running"
          /\ \A t \in Steps : t # s => step'[t] = step[t]
    BY <1>1, <2>1 DEF SettleClaimedStep, HoldsClaim, MoveAttempt, MoveStep, TypeOK
  <2>4. MayBecome(a, st) /\ (st \in Decided => LeftTo(p, a))
    BY <1>1, <2>3 DEF MayBecome, Decided, LeftTo, ExecOK, BeforeTab
  <2>5. \A b \in Attempts : att[b].status = "review" => att[b].step \in Steps
    BY DEF WorkersIInv, AttemptsOK, AttemptOK, Used
  <2>6. \A b \in Attempts : att[b].status = "review" => StepStays(att[b].step)
    BY <2>3, <2>5 DEF StepStays
  <2> QED
    BY <1>1, <2>2, <2>3, <2>4, <2>6, Settles DEF SettleWorker
<1> QED
  BY <1>2, <1>3 DEF SettleWorker, StepOf

LEMMA DispatchKeeps ==
  ASSUME WorkersIInv, NEW p \in Activities, DispatchNext(p) PROVE WorkersIInv'
  BY OccupyKeeps, IntentKeeps, RequestTabKeeps, RequestAgentKeeps, VerifyAgentKeeps, LaunchFailsKeeps,
     BindWorkerKeeps, AttachKeeps, PromptAgentKeeps, MarkKeeps, DispatchFailsKeeps, SettleWorkerKeeps
     DEF DispatchNext, Execs

(***************************************************************************)
(* Observation.                                                            *)
(***************************************************************************)
LEMMA ObservedTypes ==
  ASSUME TypeOK, NEW a \in Attempts, NEW state, NEW k, ObserveClaimedWorkerState(a, state, k)
  PROVE  TypeOK' /\ UNCHANGED <<att, step, lease>> /\ task'.last = task.last
<1>1. attn' \subseteq AttnKinds \X (Attempts \cup {None})
  <2>1. AttemptAttn(a) \in AttnKinds \X (Attempts \cup {None})
    BY DEF AttemptAttn, AttnKinds
  <2>2. attn' \subseteq attn \cup {AttemptAttn(a)}
    BY DEF ObserveClaimedWorkerState
  <2> QED
    BY <2>1, <2>2 DEF TypeOK
<1>2. PICK st : task' = [task EXCEPT !.status = st] /\ st \in {"WAITING_INPUT", "RUNNING", task.status}
  BY DEF ObserveClaimedWorkerState
<1>3. /\ task' \in [status : TaskStatus, cancel : {"none", "requested", "settled"}, last : Nat]
      /\ task'.last = task.last
  BY <1>2 DEF TypeOK, TaskStatus
<1> QED
  BY <1>1, <1>3 DEF TypeOK, ObserveClaimedWorkerState

LEMMA CompletedAtEnd ==
  ASSUME WorkersIInv, NEW a \in Attempts, NEW state, Completed(a, state) PROVE AtEnd(a, state)
  BY DEF Completed, PreviousState, AtEnd, WorkersIInv, HistoryIs, HistoryOK

LEMMA ObservationIs ==
  ASSUME WorkersIInv, NEW a \in Attempts, NEW k \in Nat, k <= Now(a), NEW state,
         state = "unknown" \/ (k > 0 /\ state = pane[a].hist[k]), ObserveClaimedWorkerState(a, state, k)
  PROVE  \E row \in BindRecord : bind' = [bind EXCEPT ![a] = row] /\ BindMay(a, row)
<1> PICK noted \in BOOLEAN : noted = (Recorded(a, state) /\ state # "unknown")
  OBVIOUS
<1> PICK done \in BOOLEAN : done = Completed(a, state)
  BY DEF Completed
<1> PICK inval \in BOOLEAN : inval = (bind[a].inval \/ Invalidates(a, state))
  OBVIOUS
<1> PICK row : row = [bind[a] EXCEPT !.last = state, !.upd = k,
                        !.prev = IF noted THEN state ELSE @,
                        !.done = IF noted THEN done ELSE @, !.inval = inval]
  OBVIOUS
<1>1. bind[a] \in BindRecord /\ bind \in [Attempts -> BindRecord] /\ HistoryOK(a) /\ AttemptOK(a)
      /\ Now(a) \in Nat /\ \A i \in 1..Now(a) : pane[a].hist[i] \in AgentStates
  BY RecordTypes DEF WorkersIInv, HistoryIs, AttemptsOK
<1>2. pane[a].st # "none"
  <2>1. CanObserve(a)
    BY DEF ObserveClaimedWorkerState
  <2>2. bind[a].at = "attached"
    BY <2>1 DEF CanObserve, Attached
  <2> QED
    BY <1>1, <2>2 DEF AttemptOK
<1>3. bind' = [bind EXCEPT ![a] = row]
  BY <1>1 DEF ObserveClaimedWorkerState
<1>4. state \in Observed
  BY <1>1 DEF Observed
<1>5. /\ row \in BindRecord /\ row.last = state /\ row.cand = bind[a].cand
      /\ row.prev = (IF noted THEN state ELSE bind[a].prev)
      /\ row.done = (IF noted THEN done ELSE bind[a].done)
  BY <1>1, <1>4 DEF BindRecord
<1>6. state = "working" => WorkedBy(a, Now(a))
  BY <1>1 DEF WorkedBy
<1>7. done /\ state = "idle" => WorkedBy(a, Now(a))
  BY CompletedAtEnd DEF AtEnd
<1>8. BindMay(a, row)
  BY <1>1, <1>2, <1>5, <1>6, <1>7 DEF BindMay, HistoryOK
<1> QED
  BY <1>3, <1>5, <1>8

LEMMA StaleOthers ==
  ASSUME exec \in [Execs -> ExecRecord], NEW a, NEW state, NEW others \in OthersAreStale(a, state)
  PROVE  /\ others \in [Execs -> ExecRecord]
         /\ \A q \in Execs : /\ others[q].pc = exec[q].pc /\ others[q].a = exec[q].a
                             /\ others[q].then = exec[q].then /\ others[q].k = exec[q].k
<1>1. PICK same \in BOOLEAN :
        others = [q \in Execs |-> IF exec[q].a = a THEN [exec[q] EXCEPT !.fresh = @ /\ same] ELSE exec[q]]
  BY DEF OthersAreStale
<1>2. ASSUME NEW q \in Execs
      PROVE  /\ others[q] \in ExecRecord /\ others[q].pc = exec[q].pc /\ others[q].a = exec[q].a
             /\ others[q].then = exec[q].then /\ others[q].k = exec[q].k
  <2> PICK fresh \in BOOLEAN : fresh <=> (exec[q].fresh /\ same)
    OBVIOUS
  <2>1. exec[q] \in ExecRecord /\ exec[q].fresh \in BOOLEAN
    BY DEF ExecRecord
  <2>2. (exec[q].fresh /\ same) = fresh
    BY <2>1
  <2>3. others[q] = exec[q] \/ others[q] = [exec[q] EXCEPT !.fresh = fresh]
    BY <1>1, <2>2
  <2> QED
    BY <2>1, <2>3 DEF ExecRecord
<1> QED
  BY <1>1, <1>2

LEMMA ServerObservesKeeps ==
  ASSUME WorkersIInv, NEW a \in Attempts, ServerObserves(a) PROVE WorkersIInv'
<1>1. WorkersTyped /\ TypeOK /\ Now(a) \in Nat /\ bind[a].upd \in Nat
  BY RecordTypes DEF WorkersIInv, WorkersTyped
<1>2. PICK k \in bind[a].upd..Now(a), state \in {"unknown"} \cup {pane[a].hist[i] : i \in 1..Now(a)} :
        /\ state = "unknown" \/ (k > 0 /\ state = pane[a].hist[k])
        /\ ObserveClaimedWorkerState(a, state, k) /\ exec' \in OthersAreStale(a, state)
        /\ UNCHANGED <<owner, intent, pane, occ, inst>>
  BY DEF ServerObserves
<1>3. k \in Nat /\ k <= Now(a)
  BY <1>1
<1>4. TypeOK' /\ UNCHANGED <<att, step>> /\ task'.last = task.last
  BY <1>1, <1>2, ObservedTypes
<1>5. PICK row \in BindRecord : bind' = [bind EXCEPT ![a] = row] /\ BindMay(a, row)
  BY <1>2, <1>3, ObservationIs
<1>6. exec' \in [Execs -> ExecRecord] /\ \A q \in Execs : Stays(q)
  BY <1>1, <1>2, StaleOthers DEF WorkersTyped, Stays, SameExec
<1>7. \A s \in Steps : StepStays(s)
  BY <1>4 DEF StepStays
<1>8. /\ WorkersTyped' /\ AttemptsOK' /\ Numbered' /\ HistoryIs'
      /\ \A b \in Attempts : Lasts(b) /\ Grows(b) /\ (Untouched(b) \/ pane[b].st # "none")
  BY <1>2, <1>4, <1>5, <1>6, <1>7, BindMoves
<1> QED
  BY <1>6, <1>8, EnvironmentStep

(* The claim, read again, of which the observation at k showed the end.     *)
Completing(s, a, k) == [Claim(s, a) EXCEPT !.fresh = TRUE, !.k = k]

LEMMA CaptureBegins ==
  ASSUME WorkersTyped, NEW s \in Steps, NEW a \in Attempts, NEW k \in Nat
  PROVE  \E e \in ExecRecord : /\ e = Onward(Completing(s, a, k), "capture")
                              /\ e.pc = "capture" /\ e.a = a /\ e.k = k
<1> PICK claim : claim = Claim(s, a)
  OBVIOUS
<1> PICK begun : begun = [claim EXCEPT !.fresh = TRUE, !.k = k]
  OBVIOUS
<1>1. claim \in ExecRecord /\ claim.a = a
  BY ClaimIs
<1>2. begun \in ExecRecord /\ begun.a = a /\ begun.k = k
  BY <1>1 DEF ExecRecord
<1> PICK e : e = Onward(begun, "capture")
  OBVIOUS
<1>3. e \in ExecRecord /\ e.pc = "capture" /\ e.a = a /\ e.k = k
  BY <1>2, OnwardIs DEF Places
<1> QED
  BY <1>3 DEF Completing

LEMMA ObserveSnapshotKeeps ==
  ASSUME WorkersIInv, NEW p \in Execs, ObserveSnapshot(p) PROVE WorkersIInv'
<1> PICK a \in Attempts : a = exec[p].a
  BY ActingExec DEF ObserveSnapshot, At
<1> PICK k \in Nat : k = exec[p].k
  BY ActingExec DEF ObserveSnapshot, At, ExecRecord
<1> PICK state : state = IF k > 0 THEN pane[a].hist[k] ELSE "unknown"
  OBVIOUS
<1>1. /\ exec[p].pc = "observe" /\ exec[p] \in ExecRecord /\ Used(a) /\ WorkersTyped /\ TypeOK
      /\ CaptureOK(p) /\ intent \subseteq Attempts /\ UNCHANGED <<owner, intent, pane, occ, inst>>
  BY ActingExec DEF ObserveSnapshot, At, WorkersTyped
<1>2. k <= Now(a) /\ att[a].step \in Steps
  BY <1>1 DEF CaptureOK, WorkersIInv, AttemptsOK, AttemptOK
<1>3. CASE UNCHANGED <<storeVars, bind>> /\ Goto(p, "beat")
  <2>1. Onward(exec[p], "beat").pc = "beat" /\ Onward(exec[p], "beat").a = a /\ "beat" \in Places
    BY <1>1, OnwardIs DEF Places
  <2>2. Fits(p, Onward(exec[p], "beat"))
    BY <1>1, <2>1, Harmless
  <2>3. OccTyped' /\ EntriesKept
    BY <1>1, OccStays
  <2> QED
    BY <1>1, <1>3, <2>1, <2>2, <2>3, GoesOn
<1>4. CASE /\ ObserveClaimedWorkerState(a, state, k)
           /\ \E others \in OthersAreStale(a, state) :
                exec' = [others EXCEPT ![p] = IF Completed(a, state)
                  THEN Onward([Claim(StepOf(p), a) EXCEPT !.fresh = TRUE, !.k = exec[p].k], "capture")
                  ELSE Onward(@, "beat")]
  <2>1. PICK others \in OthersAreStale(a, state) :
          exec' = [others EXCEPT ![p] = IF Completed(a, state)
                  THEN Onward([Claim(StepOf(p), a) EXCEPT !.fresh = TRUE, !.k = exec[p].k], "capture")
                  ELSE Onward(@, "beat")]
    BY <1>4
  <2>2. /\ others \in [Execs -> ExecRecord] /\ others[p].a = a
        /\ \A q \in Execs : /\ others[q].pc = exec[q].pc /\ others[q].a = exec[q].a
                            /\ others[q].then = exec[q].then /\ others[q].k = exec[q].k
    BY <1>1, <2>1, StaleOthers DEF WorkersTyped
  <2>3. PICK e \in ExecRecord : /\ exec' = [others EXCEPT ![p] = e]
                                /\ e.a = a /\ e.pc \in {"capture", "beat"}
                                /\ e.pc = "capture" => e.k = k /\ AtEnd(a, state)
    <3> PICK s \in Steps : s = StepOf(p)
      BY <1>2 DEF StepOf
    <3>1. \E e \in ExecRecord : /\ e = Onward(Completing(s, a, k), "capture")
                                /\ e.pc = "capture" /\ e.a = a /\ e.k = k
      BY <1>1, CaptureBegins
    <3>2. PICK begun \in ExecRecord :
            /\ begun = Onward(Completing(s, a, k), "capture")
            /\ begun.pc = "capture" /\ begun.a = a /\ begun.k = k
      BY <3>1
    <3>3. begun = Onward([Claim(StepOf(p), a) EXCEPT !.fresh = TRUE, !.k = exec[p].k], "capture")
      BY <3>2 DEF Completing
    <3>4. /\ Onward(others[p], "beat") \in ExecRecord /\ Onward(others[p], "beat").a = a
          /\ Onward(others[p], "beat").pc = "beat"
      BY <2>2, OnwardIs DEF Places
    <3>5. CASE Completed(a, state)
      BY <2>1, <3>2, <3>3, <3>5, CompletedAtEnd
    <3>6. CASE ~Completed(a, state)
      BY <2>1, <2>2, <3>4, <3>6
    <3> QED
      BY <3>5, <3>6
  <2>4. exec' \in [Execs -> ExecRecord] /\ exec'[p] = e /\ \A q \in Execs \ {p} : exec'[q] = others[q]
    BY <2>2, <2>3
  <2>5. TypeOK' /\ UNCHANGED <<att, step>> /\ task'.last = task.last
    BY <1>1, <1>4, ObservedTypes
  <2>6. PICK row \in BindRecord : bind' = [bind EXCEPT ![a] = row] /\ BindMay(a, row)
    BY <1>2, <1>4, ObservationIs
  <2>7. \A s \in Steps : StepStays(s)
    BY <2>5 DEF StepStays
  <2>8. /\ WorkersTyped' /\ AttemptsOK' /\ Numbered' /\ HistoryIs'
        /\ \A b \in Attempts : Lasts(b) /\ Grows(b) /\ (Untouched(b) \/ LeftTo(p, b))
    BY <1>1, <2>4, <2>5, <2>6, <2>7, BindMoves DEF LeftTo
  <2>9. ExecOK(p)'
    BY <1>1, <2>3, <2>4, <2>5 DEF ExecOK, Used, BeforeTab, AfterTab, AfterClose
  <2>10. CaptureOK(p)'
    <3>1. ASSUME AtEnd(a, state) PROVE k \in 1..Now(a)' /\ AtEnd(a, pane[a].hist[k])'
      <4>1. k > 0 /\ state = pane[a].hist[k]
        BY <3>1 DEF AtEnd
      <4>2. Now(a) \in Nat /\ pane' = pane
        BY <1>1, RecordTypes
      <4> QED
        BY <1>2, <3>1, <4>1, <4>2 DEF AtEnd, WorkedBy, Now
    <3> QED
      BY <2>3, <2>4, <3>1 DEF CaptureOK
  <2>11. MayLaunch(p) /\ \A q \in Execs \ {p} : Stays(q)
    BY <2>2, <2>3, <2>4 DEF MayLaunch, BeforeTab, Stays, SameExec
  <2> QED
    BY <2>8, <2>9, <2>10, <2>11, ActingStep
<1> QED
  BY <1>3, <1>4 DEF ObserveSnapshot

LEMMA Assigned ==
  ASSUME WorkersIInv, NEW a \in Attempts, att[a].step \in Steps PROVE Used(a)
  BY ParametersAssumption DEF WorkersIInv, AttemptsOK, AttemptOK

(* An execution takes up a claim to settle it.                              *)
LEMMA TakesUp ==
  ASSUME WorkersIInv, NEW p \in Execs, NEW s \in Steps, NEW a \in Attempts, att[a].step = s,
         QuarantineOccupancy(p, a), exec' = [exec EXCEPT ![p] = Onward(Claim(s, a), "settle")],
         UNCHANGED <<storeVars, owner, intent, bind, pane, inst>>
  PROVE  WorkersIInv'
<1>1. WorkersTyped /\ intent \subseteq Attempts /\ Used(a)
  BY Assigned DEF WorkersIInv, WorkersTyped, WorkersTypeOK
<1>2. /\ Onward(Claim(s, a), "settle") \in ExecRecord /\ Onward(Claim(s, a), "settle").pc = "settle"
      /\ Onward(Claim(s, a), "settle").a = a
  BY <1>1, ClaimIs, OnwardIs DEF Places
<1>3. Fits(p, Onward(Claim(s, a), "settle"))
  BY <1>1, <1>2, Harmless
<1>4. OccTyped' /\ EntriesKept
  BY <1>1, Quarantined
<1> QED
  BY <1>1, <1>2, <1>3, <1>4, QuietStep

(* An execution takes up a claim to close its Worker.                       *)
LEMMA TakesUpToClose ==
  ASSUME WorkersIInv, NEW p \in Execs, NEW s \in Steps, NEW a \in Attempts, att[a].step = s,
         NEW then \in Sequels, pane[a].st # "none", BeginClose(p, a, [Claim(s, a) EXCEPT !.then = then]),
         UNCHANGED <<storeVars, owner, intent, bind, pane, inst>>
  PROVE  WorkersIInv'
<1> PICK claim : claim = [Claim(s, a) EXCEPT !.then = then]
  OBVIOUS
<1>1. WorkersTyped /\ Used(a)
  BY Assigned DEF WorkersIInv
<1>2. Claim(s, a) \in ExecRecord /\ Claim(s, a).a = a
  BY <1>1, ClaimIs
<1>3. claim \in ExecRecord /\ claim.a = a /\ claim.then = then
  BY <1>2 DEF ExecRecord
<1> QED
  BY <1>1, <1>3, ClosureBegins

LEMMA BoundIsThere ==
  ASSUME WorkersIInv, NEW a \in Attempts, bind[a].at # "none" PROVE pane[a].st # "none"
  BY DEF WorkersIInv, AttemptsOK, AttemptOK

LEMMA ObserveBegins ==
  ASSUME WorkersIInv, NEW p \in Execs, NEW s \in Steps, NEW a \in Attempts,
         ObserveUnconfirmed(p, s, a) \/ ObserveLost(p, s, a) \/ ObserveDenied(p, s, a)
  PROVE  WorkersIInv'
<1>1. att[a].step = s /\ "settle" \in Sequels
  BY DEF ObserveUnconfirmed, ObserveLost, ObserveDenied, Observable, Sequels
<1>2. CASE ObserveUnconfirmed(p, s, a)
  <2>1. CASE bind[a].at = "none"
    BY <1>1, <1>2, <2>1, TakesUp DEF ObserveUnconfirmed
  <2>2. CASE bind[a].at # "none"
    BY <1>1, <1>2, <2>2, BoundIsThere, TakesUpToClose DEF ObserveUnconfirmed
  <2> QED
    BY <2>1, <2>2
<1>3. CASE ObserveLost(p, s, a)
  BY <1>1, <1>3, TakesUp DEF ObserveLost
<1>4. CASE ObserveDenied(p, s, a)
  BY <1>1, <1>4, TakesUpToClose DEF ObserveDenied
<1> QED
  BY <1>2, <1>3, <1>4

LEMMA ObserveLiveKeeps ==
  ASSUME WorkersIInv, NEW p \in Execs, NEW s \in Steps, NEW a \in Attempts, ObserveLive(p, s, a)
  PROVE  WorkersIInv'
<1> PICK pc : pc = IF lease[a].expired THEN "recover" ELSE "observe"
  OBVIOUS
<1> PICK e : e = [Claim(s, a) EXCEPT !.pc = pc]
  OBVIOUS
<1>1. WorkersTyped /\ intent \subseteq Attempts /\ att[a].step = s
  BY DEF WorkersIInv, WorkersTyped, WorkersTypeOK, ObserveLive, Observable
<1>2. Used(a) /\ Now(a) \in Nat
  BY <1>1, Assigned, RecordTypes
<1>3. Claim(s, a) \in ExecRecord /\ Claim(s, a).a = a /\ Claim(s, a).k = Now(a)
  BY <1>1, ClaimIs
<1>4. e \in ExecRecord /\ e.a = a /\ e.k = Now(a) /\ e.pc \in {"recover", "observe"}
  BY <1>3 DEF ExecRecord, Places
<1>5. Fits(p, e)
  BY <1>2, <1>4 DEF Fits, BeforeTab, AfterTab, AfterClose
<1>6. OccTyped' /\ EntriesKept
  BY <1>1, OccStays DEF ObserveLive
<1> QED
  BY <1>1, <1>4, <1>5, <1>6, QuietStep DEF ObserveLive

LEMMA LeaseTyped ==
  ASSUME WorkersTyped, lease' \in [Attempts -> LeaseRecord],
         UNCHANGED <<task, step, att, wait, run, ckpt, attn, granted>>
  PROVE  TypeOK'
  BY DEF WorkersTyped, TypeOK, LeaseRecord

LEMMA RecoverKeeps ==
  ASSUME WorkersIInv, NEW p \in Execs, RecoverClaimedWorkerLease(p) PROVE WorkersIInv'
<1> PICK a \in Attempts : a = exec[p].a
  BY ActingExec DEF RecoverClaimedWorkerLease, At
<1>1. /\ exec[p].pc = "recover" /\ exec[p] \in ExecRecord /\ Used(a) /\ WorkersTyped
      /\ CaptureOK(p) /\ intent \subseteq Attempts
      /\ UNCHANGED <<task, step, att, wait, run, ckpt, attn, granted, intent, bind, pane, occ, inst>>
  BY ActingExec DEF RecoverClaimedWorkerLease, At
<1>2. OccTyped' /\ EntriesKept
  BY <1>1, OccStays
<1>3. CASE UNCHANGED <<lease, owner>> /\ Finish(p)
  BY <1>1, <1>2, <1>3, Finishes DEF storeVars
<1>4. CASE /\ lease' = [lease EXCEPT ![a].expired = FALSE,
                        ![a].version = IF @ < MaxLeaseVersion THEN @ + 1 ELSE @]
           /\ owner' = [owner EXCEPT ![a] = inst] /\ Goto(p, "observe")
  <2> PICK e : e = Onward(exec[p], "observe")
    OBVIOUS
  <2>1. e \in ExecRecord /\ e.pc = "observe" /\ e.a = a /\ e.k = exec[p].k
    BY <1>1, OnwardIs DEF Places
  <2>2. lease' \in [Attempts -> LeaseRecord]
    <3>1. lease \in [Attempts -> LeaseRecord]
      BY <1>1 DEF WorkersTyped, TypeOK, LeaseRecord
    <3>2. PICK lv \in Nat : lv = IF lease[a].version < MaxLeaseVersion THEN lease[a].version + 1
                                 ELSE lease[a].version
      BY <3>1 DEF LeaseRecord
    <3>3. lease' = [lease EXCEPT ![a].expired = FALSE, ![a].version = lv]
      BY <1>4, <3>1, <3>2
    <3> QED
      BY <3>1, <3>3 DEF LeaseRecord
  <2>3. TypeOK' /\ owner' \in [Attempts -> 0..MaxInstance]
    BY <1>1, <1>4, <2>2, LeaseTyped DEF WorkersTyped, WorkersTypeOK
  <2>4. exec' = [exec EXCEPT ![p] = e] /\ exec' \in [Execs -> ExecRecord]
    BY <1>1, <1>4, <2>1, ExecSet DEF Goto, WorkersTyped
  <2>5. WorkersTyped'
    BY <1>1, <1>2, <2>3, <2>4, TypesHold DEF WorkersTyped, WorkersTypeOK, BindRecord
  <2>6. Fits(p, e)
    BY <1>1, <2>1 DEF Fits, CaptureOK, BeforeTab, AfterTab, AfterClose
  <2>7. ReviewsStay /\ task'.last = task.last
    BY <1>1 DEF ReviewsStay, StepStays
  <2> QED
    BY <1>1, <1>2, <2>1, <2>4, <2>5, <2>6, <2>7, CalmStep
<1> QED
  BY <1>3, <1>4 DEF RecoverClaimedWorkerLease

LEMMA CaptureKeeps ==
  ASSUME WorkersIInv, NEW p \in Execs, CaptureCandidate(p) PROVE WorkersIInv'
<1> PICK a \in Attempts : a = exec[p].a
  BY ActingExec DEF CaptureCandidate, At
<1>1. /\ exec[p].pc = "capture" /\ exec[p] \in ExecRecord /\ Used(a) /\ WorkersTyped
      /\ CaptureOK(p) /\ intent \subseteq Attempts
      /\ UNCHANGED <<storeVars, owner, intent, bind, pane, occ, inst>>
  BY ActingExec DEF CaptureCandidate, At
<1>2. OccTyped' /\ EntriesKept
  BY <1>1, OccStays
<1>3. /\ "record" \in Places /\ Now(a) \in Nat /\ HistoryOK(a)
      /\ exec[p].k \in 1..Now(a) /\ AtEnd(a, pane[a].hist[exec[p].k])
  BY <1>1, RecordTypes DEF Places, WorkersIInv, HistoryIs, CaptureOK
<1>4. CASE Finish(p)
  BY <1>1, <1>2, <1>4, Finishes
<1>5. CASE bind[a].cand > 0 /\ Goto(p, "record")
  <2> PICK e : e = Onward(exec[p], "record")
    OBVIOUS
  <2>1. e.pc = "record" /\ e.a = a
    BY <1>1, <1>3, OnwardIs
  <2>2. Fits(p, e)
    BY <1>1, <1>5, <2>1 DEF Fits, BeforeTab, AfterTab, AfterClose
  <2> QED
    BY <1>1, <1>2, <1>3, <1>5, <2>2, GoesOn
<1>6. CASE /\ pane[a].st = "agent" /\ pane[a].hist[Now(a)] = SawAtRest(p)
           /\ exec' = [exec EXCEPT ![p] = Onward([@ EXCEPT !.k = Now(a)], "record")]
  <2> PICK read : read = [exec[p] EXCEPT !.k = Now(a)]
    OBVIOUS
  <2> PICK e : e = Onward(read, "record")
    OBVIOUS
  <2>1. read \in ExecRecord /\ read.a = a /\ read.k = Now(a)
    BY <1>1, <1>3 DEF ExecRecord
  <2>2. e \in ExecRecord /\ e.pc = "record" /\ e.a = a /\ e.k = Now(a)
    BY <1>3, <2>1, OnwardIs
  <2>3. exec' = [exec EXCEPT ![p] = e]
    BY <1>1, <1>6 DEF WorkersTyped
  <2>4. IsCapture(a, Now(a)) /\ Now(a) > 0
    BY <1>3, <1>6 DEF IsCapture, AtEnd, SawAtRest, HistoryOK
  <2>5. Fits(p, e)
    BY <1>1, <2>2, <2>4 DEF Fits, BeforeTab, AfterTab, AfterClose
  <2> QED
    BY <1>1, <1>2, <2>2, <2>3, <2>5, QuietStep
<1> QED
  BY <1>4, <1>5, <1>6 DEF CaptureCandidate

LEMMA RecordKeeps ==
  ASSUME WorkersIInv, NEW p \in Execs, RecordWorkerCandidate(p) PROVE WorkersIInv'
<1> PICK a \in Attempts : a = exec[p].a
  BY ActingExec DEF RecordWorkerCandidate, At
<1>1. /\ exec[p].pc = "record" /\ exec[p] \in ExecRecord /\ Used(a) /\ WorkersTyped
      /\ CaptureOK(p) /\ intent \subseteq Attempts
      /\ UNCHANGED <<storeVars, owner, intent, pane, occ, inst>>
  BY ActingExec DEF RecordWorkerCandidate, At
<1>2. OccTyped' /\ EntriesKept
  BY <1>1, OccStays
<1>3. CASE Finish(p) /\ UNCHANGED bind
  BY <1>1, <1>2, <1>3, Finishes
<1>4. ASSUME NEW pc \in {"settle", "beat"}, Goto(p, pc), UNCHANGED bind PROVE WorkersIInv'
  <2>1. pc \in Places
    BY DEF Places
  <2>2. Onward(exec[p], pc).pc = pc /\ Onward(exec[p], pc).a = a
    BY <1>1, <2>1, OnwardIs
  <2>3. Fits(p, Onward(exec[p], pc))
    BY <1>1, <2>2, Harmless
  <2> QED
    BY <1>1, <1>2, <1>4, <2>1, <2>3, GoesOn
<1>5. CASE /\ Attached(a) /\ bind' = [bind EXCEPT ![a].cand = IF @ = 0 THEN exec[p].k ELSE @]
           /\ Goto(p, "review")
  <2>1. /\ bind[a] \in BindRecord /\ bind \in [Attempts -> BindRecord] /\ HistoryOK(a)
        /\ exec[p].k \in Nat /\ bind[a].cand \in Nat /\ pane[a].st # "none"
    BY <1>1, <1>5, RecordTypes, BoundIsThere DEF WorkersIInv, HistoryIs, ExecRecord, Attached
  <2> PICK cand \in Nat : cand = IF bind[a].cand = 0 THEN exec[p].k ELSE bind[a].cand
    BY <2>1
  <2> PICK row : row = [bind[a] EXCEPT !.cand = cand]
    OBVIOUS
  <2> PICK e : e = Onward(exec[p], "review")
    OBVIOUS
  <2>2. /\ row \in BindRecord /\ row.last = bind[a].last /\ row.prev = bind[a].prev
        /\ row.done = bind[a].done /\ row.cand = cand
    BY <2>1 DEF BindRecord
  <2>3. cand > 0 /\ IsCapture(a, cand)
    BY <1>1, <2>1 DEF CaptureOK, HistoryOK
  <2>4. BindMay(a, row)
    BY <2>1, <2>2, <2>3 DEF BindMay, HistoryOK
  <2>5. bind' = [bind EXCEPT ![a] = row]
    BY <1>5, <2>1
  <2>6. e \in ExecRecord /\ e.pc = "review" /\ e.a = a
    BY <1>1, OnwardIs DEF Places
  <2>7. exec' = [exec EXCEPT ![p] = e]
    BY <1>5 DEF Goto
  <2> QED
    BY <1>1, <2>2, <2>3, <2>4, <2>5, <2>6, <2>7, StoreStays, BindActs
<1> QED
  BY <1>3, <1>4, <1>5 DEF RecordWorkerCandidate

(***************************************************************************)
(* Settling what was observed.  A claim that is open belongs to the latest *)
(* Attempt of its Step.                                                    *)
(***************************************************************************)
Owners == \A a \in Attempts : Unresolved(a) => Used(a) /\ Latest(att[a].step, a)

LEMMA SettledTypes ==
  ASSUME TypeOK, NEW s \in Steps, NEW a \in Attempts, NEW to \in StepStatus, NEW st \in AttStatus,
         NEW ls \in {"released", "quarantined"}, UNCHANGED step \/ MoveStep(s, to),
         MoveAttempt(a, st), MoveLease(a, ls), attn' \subseteq attn,
         UNCHANGED <<task, wait, run, ckpt, granted>>
  PROVE  /\ TypeOK' /\ att' = [att EXCEPT ![a].status = st]
         /\ \A t \in Steps : t # s => step'[t] = step[t]
         /\ UNCHANGED step \/ step'[s].status = to
<1>1. lease' \in [Attempts -> LeaseRecord]
  <2>1. lease \in [Attempts -> LeaseRecord]
    BY DEF TypeOK, LeaseRecord
  <2> QED
    BY <2>1 DEF MoveLease, LeaseRecord
<1>2. att' \in [Attempts -> [step : Steps \cup {None}, num : Nat, status : AttStatus]]
  <2>1. att \in [Attempts -> [step : Steps \cup {None}, num : Nat, status : AttStatus]]
    BY DEF TypeOK
  <2>2. att' = [att EXCEPT ![a].status = st]
    BY DEF MoveAttempt
  <2> QED
    BY <2>1, <2>2
<1>3. step' \in [Steps -> [status : StepStatus, version : Nat, gen : Nat, base : Nat]]
  BY DEF MoveStep, TypeOK
<1>4. TypeOK'
  BY <1>1, <1>2, <1>3 DEF TypeOK, LeaseRecord
<1> QED
  BY <1>4 DEF TypeOK, MoveStep, MoveAttempt

(* A Worker in review, not closed, keeps its Step from every other use.     *)
LEMMA InReview ==
  ASSUME WorkersIInv, NEW b \in Attempts, att[b].status = "review", pane[b].st # "closed"
  PROVE  /\ att[b].step \in Steps /\ Latest(att[b].step, b)
         /\ step[att[b].step].status \in {"review", "cancelled"}
  BY DEF WorkersIInv, AttemptsOK, AttemptOK, Used

LEMMA SettleReviewedKeeps ==
  ASSUME WorkersIInv, Owners, NEW p \in Execs, SettleReviewedWorker(p) PROVE WorkersIInv'
<1> PICK a \in Attempts : a = exec[p].a
  BY ActingExec DEF SettleReviewedWorker, At
<1> PICK s : s = att[a].step
  OBVIOUS
<1>1. /\ exec[p].pc = "review" /\ exec[p] \in ExecRecord /\ Used(a) /\ WorkersTyped /\ TypeOK
      /\ CaptureOK(p) /\ intent \subseteq Attempts /\ s \in Steps
      /\ UNCHANGED <<task, wait, run, ckpt, granted, owner, intent, bind, pane, occ, inst>>
  BY ActingExec DEF SettleReviewedWorker, At, WorkersTyped, WorkersIInv, AttemptsOK, AttemptOK
<1>2. OccTyped' /\ EntriesKept
  BY <1>1, OccStays
<1>3. CASE UNCHANGED <<step, att, lease, attn>> /\ (Goto(p, "beat") \/ Finish(p))
  <2>1. /\ Onward(exec[p], "beat").pc = "beat" /\ Onward(exec[p], "beat").a = a /\ "beat" \in Places
    BY <1>1, OnwardIs DEF Places
  <2>2. Fits(p, Onward(exec[p], "beat"))
    BY <1>1, <2>1, Harmless
  <2>3. UNCHANGED storeVars
    BY <1>1, <1>3 DEF storeVars
  <2> QED
    BY <1>1, <1>2, <1>3, <2>1, <2>2, <2>3, GoesOn, Finishes
<1>4. CASE /\ HoldsWorker(p) /\ Attached(a)
           /\ MoveStep(s, "review") /\ MoveAttempt(a, "review") /\ MoveLease(a, "released")
           /\ attn' = attn \ {AttemptAttn(a)} /\ Finish(p)
  <2>1. step[s].status = "running" /\ lease[a].state = "active" /\ pane[a].st # "none"
    BY <1>4, BoundIsThere DEF HoldsWorker, HoldsClaim, StepOf, Attached
  <2>2. /\ TypeOK' /\ att' = [att EXCEPT ![a].status = "review"]
        /\ \A t \in Steps : t # s => step'[t] = step[t]
        /\ step'[s].status = "review"
    <3>1. "review" \in StepStatus /\ "review" \in AttStatus
      BY DEF StepStatus, AttStatus
    <3>2. UNCHANGED step => step[s].status = "review"
      BY <1>1, <1>4 DEF MoveStep, TypeOK
    <3> QED
      BY <1>1, <1>4, <2>1, <3>1, <3>2, SettledTypes
  <2>3. Latest(s, a)
    BY <2>1 DEF Owners, Unresolved
  <2>4. MayBecome(a, "review") /\ "review" \notin Decided
    BY <1>1, <2>1, <2>2, <2>3 DEF MayBecome, CaptureOK, Decided
  <2>5. ASSUME NEW b \in Attempts, att[b].status = "review", pane[b].st # "closed"
        PROVE  StepStays(att[b].step)
    BY <2>1, <2>2, <2>5, InReview DEF StepStays
  <2> QED
    BY <1>1, <1>4, <2>2, <2>4, <2>5, Settles
<1> QED
  BY <1>3, <1>4 DEF SettleReviewedWorker, StepOf

LEMMA RenewKeeps ==
  ASSUME WorkersIInv, NEW p \in Execs, RenewWorkerLease(p) PROVE WorkersIInv'
<1> PICK a \in Attempts : a = exec[p].a
  BY ActingExec DEF RenewWorkerLease, At
<1>1. /\ exec[p].pc = "beat" /\ exec[p] \in ExecRecord /\ Used(a) /\ WorkersTyped /\ TypeOK
      /\ intent \subseteq Attempts /\ UNCHANGED <<owner, intent, bind, pane, inst>>
      /\ att[a].step \in Steps
  BY ActingExec DEF RenewWorkerLease, At, WorkersTyped, WorkersIInv, AttemptsOK, AttemptOK
<1>2. CASE Heartbeat(a, lease[a].version) /\ Finish(p) /\ UNCHANGED occ
  <2>1. TypeOK' /\ UNCHANGED <<task, step, att>>
    BY <1>1, <1>2, RunTypeOK DEF RunNext, Heartbeat
  <2>2. OccTyped' /\ EntriesKept
    BY <1>1, <1>2, OccStays
  <2>3. exec' = [exec EXCEPT ![p] = Idle] /\ Idle \in ExecRecord /\ Fits(p, Idle)
    BY <1>2, IdleIs, Harmless DEF Finish
  <2>4. exec' \in [Execs -> ExecRecord]
    BY <1>1, <2>3, ExecSet DEF WorkersTyped
  <2>5. WorkersTyped'
    BY <1>1, <2>1, <2>2, <2>4, TypesHold DEF WorkersTyped, WorkersTypeOK, BindRecord
  <2>6. ReviewsStay
    BY <2>1 DEF ReviewsStay, StepStays
  <2> QED
    BY <1>1, <2>1, <2>2, <2>3, <2>5, <2>6, CalmStep
<1>3. CASE /\ QuarantineOccupancy(p, a) /\ UNCHANGED storeVars
           /\ exec' = [exec EXCEPT ![p].pc = "settle", ![p].lv = lease[a].version,
                                   ![p].sv = step[StepOf(p)].version]
  <2> PICK lv \in Nat : lv = lease[a].version
    BY <1>1 DEF TypeOK
  <2> PICK sv \in Nat : sv = step[StepOf(p)].version
    BY <1>1 DEF TypeOK, StepOf
  <2> PICK e : e = [exec[p] EXCEPT !.pc = "settle", !.lv = lv, !.sv = sv]
    OBVIOUS
  <2>1. e \in ExecRecord /\ e.pc = "settle" /\ e.a = a
    BY <1>1 DEF ExecRecord, Places
  <2>2. exec' = [exec EXCEPT ![p] = e]
    BY <1>1, <1>3 DEF WorkersTyped
  <2>3. OccTyped' /\ EntriesKept
    BY <1>1, <1>3, Quarantined
  <2>4. Fits(p, e)
    BY <1>1, <2>1 DEF Fits, BeforeTab, AfterTab, AfterClose
  <2> QED
    BY <1>1, <1>3, <2>1, <2>2, <2>3, <2>4, QuietStep
<1>4. CASE Finish(p) /\ UNCHANGED <<storeVars, occ>>
  BY <1>1, <1>4, OccStays, Finishes
<1> QED
  BY <1>2, <1>3, <1>4 DEF RenewWorkerLease

(* The Worker was closed before its claim is settled.                       *)
LEMMA SettleClosed ==
  ASSUME WorkersIInv, NEW p \in Execs, NEW a \in Attempts, a = exec[p].a, exec[p].pc \in AfterClose,
         NEW st \in {"failed", "canceled"}, UNCHANGED step \/ MoveStep(att[a].step, "cancelled"),
         MoveAttempt(a, st), MoveLease(a, "released"), Finish(p),
         UNCHANGED <<task, wait, run, ckpt, attn, granted, owner, intent, bind, pane, occ, inst>>
  PROVE  WorkersIInv'
<1>1. /\ exec[p].pc # "idle" /\ Used(a) /\ WorkersTyped /\ TypeOK /\ pane[a].st = "closed"
      /\ att[a].step \in Steps
  BY ActingExec DEF WorkersTyped, WorkersIInv, AttemptsOK, AttemptOK, AfterClose, ExecOK
<1>2. /\ st \in AttStatus /\ st \in Decided /\ st \notin {"review", "succeeded"}
      /\ "cancelled" \in StepStatus
  BY DEF AttStatus, StepStatus, Decided
<1>3. /\ TypeOK' /\ att' = [att EXCEPT ![a].status = st]
      /\ \A t \in Steps : t # att[a].step => step'[t] = step[t]
      /\ UNCHANGED step \/ step'[att[a].step].status = "cancelled"
  BY <1>1, <1>2, SettledTypes
<1>4. MayBecome(a, st) /\ LeftTo(p, a)
  BY <1>1, <1>2 DEF MayBecome, LeftTo, Decided
<1>5. ASSUME NEW b \in Attempts, att[b].status = "review", pane[b].st # "closed"
      PROVE  StepStays(att[b].step)
  BY <1>3, <1>5, InReview DEF StepStays
<1> QED
  BY <1>3, <1>4, <1>5, Settles

LEMMA SettlesNothing ==
  ASSUME WorkersIInv, NEW p \in Execs, exec[p].pc # "idle", Finish(p),
         UNCHANGED <<storeVars, owner, intent, bind, pane, occ, inst>>
  PROVE  WorkersIInv'
  BY ActingExec, OccStays, Finishes

LEMMA SettleCancellationKeeps ==
  ASSUME WorkersIInv, NEW p \in Execs, SettleClaimedWorkerCancellation(p) PROVE WorkersIInv'
<1> PICK a \in Attempts : a = exec[p].a
  BY ActingExec DEF SettleClaimedWorkerCancellation, At
<1>1. /\ exec[p].pc = "cancel" /\ exec[p].pc \in AfterClose /\ exec[p].pc # "idle" /\ Finish(p)
      /\ UNCHANGED <<task, wait, run, ckpt, attn, granted, owner, intent, bind, pane, occ, inst>>
  BY DEF SettleClaimedWorkerCancellation, At, AfterClose
<1>2. CASE UNCHANGED <<step, att, lease>>
  BY <1>1, <1>2, SettlesNothing DEF storeVars
<1>3. CASE /\ MoveStep(att[a].step, "cancelled") /\ MoveAttempt(a, "canceled")
           /\ MoveLease(a, "released")
  BY <1>1, <1>3, SettleClosed
<1> QED
  BY <1>2, <1>3 DEF SettleClaimedWorkerCancellation, StepOf

LEMMA SettleClosureKeeps ==
  ASSUME WorkersIInv, NEW p \in Execs, NEW verified, exec[p].pc \in {"closure", "launch"},
         SettleClosure(p, verified)
  PROVE  WorkersIInv'
<1> PICK a \in Attempts : a = exec[p].a
  BY ActingExec
<1>1. /\ exec[p].pc \in AfterClose /\ exec[p].pc # "idle" /\ Finish(p)
      /\ UNCHANGED <<task, step, wait, run, ckpt, attn, granted, owner, intent, bind, pane, occ, inst>>
  BY DEF SettleClosure, AfterClose
<1>2. CASE UNCHANGED <<att, lease>>
  BY <1>1, <1>2, SettlesNothing DEF storeVars
<1>3. CASE /\ MoveAttempt(a, IF CancelPending THEN "canceled" ELSE "failed")
           /\ MoveLease(a, "released")
  BY <1>1, <1>3, SettleClosed
<1> QED
  BY <1>2, <1>3 DEF SettleClosure

LEMMA CloseBegins ==
  ASSUME WorkersIInv, NEW p \in Execs, NEW s \in Steps, NEW a \in Attempts,
         CancelWorker(p, s, a) \/ ReconcileBound(p, s, a) \/ ReconcileLaunch(p, s, a)
  PROVE  WorkersIInv'
<1>1. att[a].step = s /\ {"cancel", "closure", "launch"} \subseteq Sequels
  BY DEF CancelWorker, ReconcileBound, ReconcileLaunch, Reconcilable, Sequels
<1>2. pane[a].st # "none"
  BY BoundIsThere DEF CancelWorker, ReconcileBound, ReconcileLaunch, Attached
<1>3. CASE CancelWorker(p, s, a)
  BY <1>1, <1>2, <1>3, TakesUpToClose DEF CancelWorker
<1>4. CASE ReconcileBound(p, s, a)
  BY <1>1, <1>2, <1>4, TakesUpToClose DEF ReconcileBound
<1>5. CASE ReconcileLaunch(p, s, a)
  BY <1>1, <1>2, <1>5, TakesUpToClose DEF ReconcileLaunch
<1> QED
  BY <1>3, <1>4, <1>5

(***************************************************************************)
(* The owner's decisions.  Only one Worker can be in review at a Step      *)
(* without being closed: the one that is decided on, which is closed.      *)
(***************************************************************************)
LEMMA CloseReviewedKeeps ==
  ASSUME WorkersIInv, NEW s \in Steps, NEW a \in Attempts, NEW then \in {"accept", "rework"},
         CloseReviewedWorker(s, a, then)
  PROVE  WorkersIInv'
<1>1. att[a].step = s /\ att[a].status = "review" /\ then \in Sequels /\ Server \in Execs
  BY DEF CloseReviewedWorker, Latest, AttemptsOf, Sequels, Execs
<1>2. pane[a].st # "none"
  BY <1>1 DEF WorkersIInv, AttemptsOK, AttemptOK
<1> QED
  BY <1>1, <1>2, TakesUpToClose DEF CloseReviewedWorker

LEMMA LatestIsOne ==
  ASSUME WorkersIInv, NEW s \in Steps, NEW a \in Attempts, NEW b \in Attempts, Latest(s, a), Latest(s, b)
  PROVE  a = b
<1>1. att[a].step = s /\ att[b].step = s /\ att[a].num = att[b].num
  <2>1. att[a].num \in Nat /\ att[b].num \in Nat
    BY DEF WorkersIInv, WorkersTyped, TypeOK
  <2> QED
    BY <2>1 DEF Latest, AttemptsOf
<1>2. Used(a) /\ Used(b)
  BY <1>1, Assigned
<1> QED
  BY <1>1, <1>2 DEF WorkersIInv, Numbered

LEMMA OthersInReviewStay ==
  ASSUME WorkersIInv, NEW s \in Steps, NEW a \in Attempts, Latest(s, a),
         \A t \in Steps : t # s => step'[t] = step[t]
  PROVE  \A b \in Attempts \ {a} :
           att[b].status = "review" /\ pane[b].st # "closed" => StepStays(att[b].step)
<1> SUFFICES ASSUME NEW b \in Attempts \ {a}, att[b].status = "review", pane[b].st # "closed"
             PROVE  StepStays(att[b].step)
  OBVIOUS
<1>1. att[b].step \in Steps /\ Latest(att[b].step, b)
  BY InReview
<1>2. att[b].step # s
  BY <1>1, LatestIsOne
<1> QED
  BY <1>1, <1>2 DEF StepStays

LEMMA DecideKeeps ==
  ASSUME WorkersIInv, DecideReview PROVE WorkersIInv'
<1>1. /\ Server \in Execs /\ exec[Server].pc \in {"accept", "rework"} /\ Finish(Server)
      /\ UNCHANGED <<owner, intent, bind, pane, occ, inst>>
  BY DEF DecideReview, Execs
<1> PICK a \in Attempts : a = exec[Server].a
  BY <1>1, ActingExec
<1> PICK s : s = att[a].step
  OBVIOUS
<1>2. /\ Used(a) /\ WorkersTyped /\ TypeOK /\ intent \subseteq Attempts /\ s \in Steps
      /\ pane[a].st = "closed" /\ HistoryOK(a)
  BY <1>1, ActingExec DEF WorkersTyped, WorkersIInv, AttemptsOK, AttemptOK, ExecOK, AfterClose, HistoryIs
<1>3. CASE UNCHANGED storeVars
  BY <1>1, <1>3, SettlesNothing
<1>4. CASE AcceptDurableStep(s, a, exec[Server].sv)
  <2>1. AcceptDurableStep(s, a, step[s].version)
    BY <1>4 DEF AcceptDurableStep
  <2>2. TypeOK'
    BY <1>2, <2>1, StepTypeOK DEF StepNext
  <2>3. /\ att' = [att EXCEPT ![a].status = "succeeded"] /\ task' = task /\ Latest(s, a)
        /\ att[a].status = "review" /\ \A t \in Steps : t # s => step'[t] = step[t]
    BY <1>2, <2>1 DEF AcceptDurableStep, MoveStep, MoveAttempt, TypeOK
  <2>4. MayBecome(a, "succeeded") /\ LeftTo(Server, a)
    BY <1>2, <2>3 DEF MayBecome, LeftTo, HistoryOK, Decided
  <2> QED
    BY <1>1, <1>2, <2>2, <2>3, <2>4, OthersInReviewStay, Settles
<1>5. CASE ReworkDurableStep(s, a, exec[Server].sv)
  <2>1. ReworkDurableStep(s, a, step[s].version)
    BY <1>5 DEF ReworkDurableStep
  <2>2. TypeOK'
    BY <1>2, <2>1, StepTypeOK DEF StepNext
  <2>3. /\ att' = att /\ task'.last = task.last /\ Latest(s, a)
        /\ \A t \in Steps : t # s => step'[t] = step[t]
    BY <1>2, <2>1 DEF ReworkDurableStep, TypeOK
  <2>4. ReviewsStay
    BY <1>2, <2>3, OthersInReviewStay DEF ReviewsStay
  <2>5. OccTyped' /\ EntriesKept
    BY <1>1, <1>2, OccStays
  <2>6. exec' = [exec EXCEPT ![Server] = Idle] /\ Idle \in ExecRecord /\ Fits(Server, Idle)
    BY <1>1, IdleIs, Harmless DEF Finish
  <2>7. exec' \in [Execs -> ExecRecord]
    BY <1>1, <1>2, <2>6, ExecSet DEF WorkersTyped
  <2>8. WorkersTyped'
    BY <1>1, <1>2, <2>2, <2>5, <2>7, TypesHold DEF WorkersTyped, WorkersTypeOK, BindRecord
  <2> QED
    BY <1>1, <2>3, <2>4, <2>5, <2>6, <2>8, CalmStep
<1> QED
  BY <1>3, <1>4, <1>5 DEF DecideReview, StepOf

(***************************************************************************)
(* Steps that no execution takes.                                          *)
(***************************************************************************)
LEMMA CalmEnvironment ==
  ASSUME WorkersIInv, WorkersTyped', UNCHANGED <<att, pane, bind>>, task'.last = task.last,
         EntriesKept, ReviewsStay, \A q \in Execs : Stays(q)
  PROVE  WorkersIInv'
  BY CalmWorkers, EnvironmentStep

LEMMA ReworkClosedKeeps ==
  ASSUME WorkersIInv, NEW s \in Steps, NEW a \in Attempts, ReworkClosedWorker(s, a)
  PROVE  WorkersIInv'
<1>1. /\ WorkersTyped /\ TypeOK /\ step[s].status = "blocked"
      /\ UNCHANGED <<att, lease, wait, run, ckpt, granted, owner, intent, bind, pane, occ, exec, inst>>
  BY DEF WorkersIInv, WorkersTyped, ReworkClosedWorker, workerVars
<1>2. step' \in [Steps -> [status : StepStatus, version : Nat, gen : Nat, base : Nat]]
      /\ \A t \in Steps : t # s => step'[t] = step[t]
  BY <1>1 DEF ReworkClosedWorker, TypeOK, StepStatus
<1>3. task' \in [status : TaskStatus, cancel : {"none", "requested", "settled"}, last : Nat]
      /\ task'.last = task.last
  <2> PICK st : task' = [task EXCEPT !.status = st] /\ st \in {"WAITING_INPUT", "RUNNING", task.status}
    BY DEF ReworkClosedWorker
  <2> QED
    BY <1>1 DEF TypeOK, TaskStatus
<1>4. attn' \subseteq attn
  BY DEF ReworkClosedWorker
<1>5. TypeOK'
  BY <1>1, <1>2, <1>3, <1>4 DEF TypeOK
<1>6. OccTyped' /\ EntriesKept
  BY <1>1, OccStays
<1>7. WorkersTyped'
  BY <1>1, <1>5, <1>6, TypesHold DEF WorkersTyped, WorkersTypeOK, BindRecord
<1>8. ReviewsStay
  BY <1>1, <1>2, InReview DEF ReviewsStay, StepStays
<1>9. \A q \in Execs : Stays(q)
  BY <1>1 DEF Stays, SameExec
<1> QED
  BY <1>1, <1>3, <1>6, <1>7, <1>8, <1>9, CalmEnvironment

LEMMA StoreMovesKeep ==
  ASSUME WorkersIInv, StoreMoves PROVE WorkersIInv'
<1>1. WorkersTyped /\ TypeOK /\ UNCHANGED <<owner, intent, bind, pane, occ, exec, inst>>
  BY DEF WorkersIInv, WorkersTyped, StoreMoves, workerVars
<1>2. TypeOK'
  <2>1. ASSUME NEW s \in Steps, TransitionStep(s, step[s].version, "pending", "ready")
        PROVE  TypeOK'
    <3>1. TransitionStep(s, step[s].version, step[s].status, "ready") /\ "ready" \in StepStatus
      BY <2>1 DEF TransitionStep, StepStatus
    <3> QED
      BY <1>1, <3>1, StepTypeOK DEF StepNext
  <2>2. ASSUME NEW s \in Steps, MarkTaskNeedsAttention(s) PROVE TypeOK'
    BY <1>1, <2>2, StepTypeOK DEF StepNext
  <2>3. ASSUME NEW a \in Attempts, LeaseExpires(a) PROVE TypeOK'
    BY <1>1, <2>3, RunTypeOK DEF RunNext
  <2>4. CASE MarkTaskReview \/ AcceptDurableTask \/ RequestDurableCancellation
             \/ SettleDurableCancellation \/ ChangeGrant
    BY <1>1, <2>4, TaskTypeOK DEF TaskNext
  <2> QED
    BY <2>1, <2>2, <2>3, <2>4 DEF StoreMoves
<1>3. att' = att /\ task'.last = task.last
  BY <1>1 DEF StoreMoves, TransitionStep, MarkTaskNeedsAttention, LeaseExpires, MarkTaskReview,
              AcceptDurableTask, RequestDurableCancellation, SettleDurableCancellation, ChangeGrant, TypeOK
<1>4. ASSUME NEW t \in Steps PROVE StepStays(t)
  <2>1. CASE RequestDurableCancellation
    BY <1>1, <2>1, RequestedStatus DEF StepStays, Stoppable
  <2>2. ASSUME NEW s \in Steps, TransitionStep(s, step[s].version, "pending", "ready")
        PROVE  StepStays(t)
    BY <1>1, <2>2 DEF TransitionStep, MoveStep, StepStays, TypeOK
  <2>3. CASE step' = step
    BY <2>3 DEF StepStays
  <2> QED
    BY <2>1, <2>2, <2>3 DEF StoreMoves, MarkTaskNeedsAttention, LeaseExpires, MarkTaskReview,
              AcceptDurableTask, SettleDurableCancellation, ChangeGrant
<1>5. OccTyped' /\ EntriesKept
  BY <1>1, OccStays
<1>6. WorkersTyped'
  BY <1>1, <1>2, <1>5, TypesHold DEF WorkersTyped, WorkersTypeOK, BindRecord
<1>7. ReviewsStay
  BY <1>4, InReview DEF ReviewsStay
<1>8. \A q \in Execs : Stays(q)
  BY <1>1 DEF Stays, SameExec
<1> QED
  BY <1>1, <1>3, <1>5, <1>6, <1>7, <1>8, CalmEnvironment

LEMMA CrashKeeps ==
  ASSUME WorkersIInv, WorkerProcessCrashes PROVE WorkersIInv'
<1>1. /\ WorkersTyped /\ TypeOK
      /\ UNCHANGED <<task, step, att, storeVars, owner, intent, bind, pane, occ>>
  BY DEF WorkersIInv, WorkersTyped, WorkerProcessCrashes, storeVars
<1>2. exec' \in [Execs -> ExecRecord]
  BY <1>1, IdleIs DEF WorkerProcessCrashes, WorkersTyped
<1>3. \A q \in Execs : Stays(q)
  <2>1. ASSUME NEW q \in Execs PROVE exec'[q] \in {Idle, exec[q]}
    BY <1>1 DEF WorkerProcessCrashes, WorkersTyped
  <2> QED
    BY <2>1, IdleIs DEF Stays, SameExec
<1>4. TypeOK' /\ ReviewsStay
  BY <1>1, StoreStays DEF ReviewsStay, StepStays
<1>5. OccTyped' /\ EntriesKept
  BY <1>1, OccStays
<1>6. inst' \in 1..MaxInstance
  BY <1>1, WorkersAssumption DEF WorkerProcessCrashes, WorkersTyped, WorkersTypeOK
<1>7. WorkersTyped'
  BY <1>1, <1>2, <1>4, <1>5, <1>6, TypesHold DEF WorkersTyped, WorkersTypeOK, BindRecord
<1> QED
  BY <1>1, <1>3, <1>4, <1>5, <1>7, CalmEnvironment

(* Who restarts may go on closing the pane of a bound Worker.               *)
LEMMA RestartKeeps ==
  ASSUME WorkersIInv, ServerRestarts PROVE WorkersIInv'
<1>1. /\ WorkersTyped /\ TypeOK /\ Server \in Execs /\ intent \subseteq Attempts
      /\ UNCHANGED <<storeVars, owner, intent, bind, pane, inst>>
  BY DEF WorkersIInv, WorkersTyped, WorkersTypeOK, ServerRestarts, Execs
<1>2. OccTyped' /\ EntriesKept
  BY <1>1, OccStays, OccMoves DEF ServerRestarts
<1>3. CASE exec' = [exec EXCEPT ![Server] = Idle]
  <2>1. Idle \in ExecRecord /\ Fits(Server, Idle)
    BY <1>1, IdleIs, Harmless
  <2> QED
    BY <1>1, <1>2, <1>3, <2>1, QuietStep
<1>4. CASE /\ occ.state # "free" /\ bind[occ.att].at # "none"
           /\ exec' = [exec EXCEPT ![Server] = [Idle EXCEPT !.pc = "close", !.a = occ.att,
                                                 !.held = "quarantined", !.then = "idle"]]
  <2> PICK a \in Attempts : a = occ.att
    BY <1>1, <1>4, OccIs DEF OccTyped
  <2> PICK e : e = [Idle EXCEPT !.pc = "close", !.a = a, !.held = "quarantined", !.then = "idle"]
    OBVIOUS
  <2>1. e \in ExecRecord /\ e.pc = "close" /\ e.a = a /\ e.then = "idle"
    BY DEF Idle, ExecRecord, Places, Sequels
  <2>2. pane[a].st # "none"
    BY <1>4, BoundIsThere
  <2>3. Used(a)
    BY <2>2 DEF WorkersIInv, AttemptsOK, AttemptOK
  <2>4. Fits(Server, e)
    BY <2>1, <2>2, <2>3 DEF Fits, BeforeTab, AfterTab, AfterClose, Sequels
  <2> QED
    BY <1>1, <1>2, <1>4, <2>1, <2>4, QuietStep
<1> QED
  BY <1>3, <1>4 DEF ServerRestarts

(* Herdr changes a pane.                                                    *)
LEMMA HerdrMoves ==
  ASSUME WorkersIInv, NEW a \in Attempts, NEW row \in PaneRecord, pane[a].st # "none",
         PaneMay(a, row), pane' = [pane EXCEPT ![a] = row],
         UNCHANGED <<storeVars, owner, intent, bind, occ, exec, inst>>
  PROVE  WorkersIInv'
<1>1. OccTyped' /\ EntriesKept /\ exec' \in [Execs -> ExecRecord]
  BY OccStays DEF WorkersIInv, WorkersTyped
<1>2. /\ WorkersTyped' /\ AttemptsOK' /\ Numbered' /\ HistoryIs'
      /\ \A b \in Attempts : Lasts(b) /\ Grows(b) /\ (Untouched(b) \/ pane[b].st # "none")
  BY <1>1, PaneMoves
<1>3. \A q \in Execs : Stays(q)
  BY DEF Stays, SameExec
<1> QED
  BY <1>2, <1>3, EnvironmentStep

(* What is known of a pane that is there.                                   *)
LEMMA PaneIs ==
  ASSUME WorkersIInv, NEW a \in Attempts, pane[a].st # "none"
  PROVE  /\ pane[a] \in PaneRecord /\ Now(a) \in Nat /\ HistoryOK(a) /\ Used(a)
         /\ pane[a].hist \in Seq(AgentStates) /\ pane \in [Attempts -> PaneRecord]
         /\ pane[a].st # "closed" => Holds(a) /\ att[a].status \notin Decided
<1>1. pane[a] \in PaneRecord /\ Now(a) \in Nat /\ HistoryOK(a) /\ AttemptOK(a)
  BY RecordTypes DEF WorkersIInv, HistoryIs, AttemptsOK
<1> QED
  BY <1>1 DEF AttemptOK, PaneRecord, WorkersIInv, WorkersTyped

LEMMA PaneEventsKeep ==
  ASSUME WorkersIInv, NEW a \in Attempts, TabAppears(a) \/ PaneIsLost(a) PROVE WorkersIInv'
<1> PICK st \in {"tab", "closed"} :
      /\ pane' = [pane EXCEPT ![a].st = st] /\ pane[a].st \in Launching \cup {"agent"}
      /\ st = "tab" => pane[a].st = "sent"
  BY DEF TabAppears, PaneIsLost, Launching
<1> PICK row : row = [pane[a] EXCEPT !.st = st]
  OBVIOUS
<1>1. /\ pane[a] \in PaneRecord /\ Used(a) /\ Holds(a) /\ att[a].status \notin Decided
      /\ pane \in [Attempts -> PaneRecord] /\ pane[a].st \notin {"none", "closed"}
  BY PaneIs DEF Launching
<1>2. HoldsNext(a) /\ UNCHANGED <<storeVars, owner, intent, bind, occ, exec, inst>>
  BY <1>1 DEF TabAppears, PaneIsLost, Holds, HoldsNext
<1>3. row \in PaneRecord /\ PaneMay(a, row)
  BY <1>1, <1>2, PaneTurns DEF Launching
<1>4. pane' = [pane EXCEPT ![a] = row]
  BY <1>1
<1> QED
  BY <1>1, <1>2, <1>3, <1>4, HerdrMoves

LEMMA AgentAppearsKeeps ==
  ASSUME WorkersIInv, NEW a \in Attempts, AgentAppears(a) PROVE WorkersIInv'
<1> PICK row : row = [pane[a] EXCEPT !.st = "agent", !.hist = <<"idle">>]
  OBVIOUS
<1>1. /\ pane[a] \in PaneRecord /\ Used(a) /\ Holds(a) /\ att[a].status \notin Decided
      /\ pane \in [Attempts -> PaneRecord] /\ pane[a].st = "starting" /\ HistoryOK(a)
  BY PaneIs DEF AgentAppears
<1>2. HoldsNext(a) /\ UNCHANGED <<storeVars, owner, intent, bind, occ, exec, inst>>
  BY <1>1 DEF AgentAppears, Holds, HoldsNext
<1>3. pane[a].hist = <<>> /\ Now(a) = 0
  BY <1>1 DEF HistoryOK, Launching, Now
<1>4. <<"idle">> \in Seq(AgentStates) /\ Len(<<"idle">>) = 1 /\ <<"idle">>[1] = "idle"
  BY DEF AgentStates
<1>5. row \in PaneRecord /\ row.st = "agent" /\ row.hist = <<"idle">> /\ row.prompt = pane[a].prompt
  BY <1>1, <1>4 DEF PaneRecord
<1>6. PaneMay(a, row)
  BY <1>1, <1>2, <1>3, <1>4, <1>5 DEF PaneMay, Launching
<1>7. pane' = [pane EXCEPT ![a] = row]
  BY <1>1 DEF AgentAppears
<1> QED
  BY <1>1, <1>2, <1>5, <1>6, <1>7, HerdrMoves

LEMMA AgentMovesKeeps ==
  ASSUME WorkersIInv, NEW a \in Attempts, AgentMoves(a) PROVE WorkersIInv'
<1>1. /\ pane[a] \in PaneRecord /\ Used(a) /\ Holds(a) /\ att[a].status \notin Decided
      /\ pane \in [Attempts -> PaneRecord] /\ pane[a].st = "agent" /\ HistoryOK(a)
      /\ pane[a].hist \in Seq(AgentStates) /\ Now(a) \in Nat /\ Now(a) > 0
  BY PaneIs DEF AgentMoves, HistoryOK
<1>2. HoldsNext(a) /\ UNCHANGED <<storeVars, owner, intent, bind, occ, exec, inst>>
  BY <1>1 DEF AgentMoves, Holds, HoldsNext
<1>3. pane[a].hist[Now(a)] \in AgentStates
  BY <1>1 DEF Now
<1>4. PICK state \in AgentStates : /\ state \in {"working", "done"} => pane[a].prompt
                                   /\ pane' = [pane EXCEPT ![a].hist = Append(@, state)]
  <2>1. ASSUME NEW last \in AgentStates PROVE Moves[last] \subseteq AgentStates
    BY DEF Moves, AgentStates
  <2> QED
    BY <1>3, <2>1 DEF AgentMoves
<1> PICK hist : hist = Append(pane[a].hist, state)
  OBVIOUS
<1> PICK row : row = [pane[a] EXCEPT !.hist = hist]
  OBVIOUS
<1>5. /\ hist \in Seq(AgentStates) /\ Len(hist) = Now(a) + 1 /\ hist[Now(a) + 1] = state
      /\ \A i \in 1..Now(a) : hist[i] = pane[a].hist[i]
  BY <1>1 DEF Now
<1>6. row \in PaneRecord /\ row.st = "agent" /\ row.hist = hist /\ row.prompt = pane[a].prompt
  BY <1>1, <1>5 DEF PaneRecord
<1>7. ASSUME NEW i \in 1..Len(hist), hist[i] \in {"working", "done"} PROVE pane[a].prompt
  <2>1. CASE i = Now(a) + 1
    BY <1>4, <1>5, <1>7, <2>1
  <2>2. CASE i \in 1..Now(a)
    BY <1>1, <1>5, <1>7, <2>2 DEF HistoryOK, BegunBy
  <2> QED
    BY <1>1, <1>5, <2>1, <2>2
<1>8. PaneMay(a, row)
  BY <1>1, <1>2, <1>5, <1>6, <1>7 DEF PaneMay, Launching
<1>9. pane' = [pane EXCEPT ![a] = row]
  BY <1>1, <1>4
<1> QED
  BY <1>1, <1>2, <1>6, <1>8, <1>9, HerdrMoves

(***************************************************************************)
(* A claim is opened for a new Attempt, and no call opens one again.       *)
(***************************************************************************)
LEMMA OwnersSettle ==
  ASSUME TypeOK, Owners, NEW a \in Attempts, Used(a), NEW st, st # "unused", NEW ls,
         UNCHANGED att \/ MoveAttempt(a, st),
         UNCHANGED lease \/ (MoveLease(a, ls) /\ (ls = "released" \/ Unresolved(a)))
  PROVE  Owners'
<1>1. SameNumbers /\ SameUse
  <2>1. att \in [Attempts -> [step : Steps \cup {None}, num : Nat, status : AttStatus]]
    BY DEF TypeOK
  <2>2. CASE att' = [att EXCEPT ![a].status = st]
    BY <2>1, <2>2 DEF SameNumbers, SameUse, Used
  <2>3. CASE att' = att
    BY <2>3 DEF SameNumbers, SameUse, Used
  <2> QED
    BY <2>2, <2>3 DEF MoveAttempt
<1>2. ASSUME NEW b \in Attempts, Unresolved(b)' PROVE Unresolved(b)
  BY <1>2 DEF Unresolved, MoveLease, TypeOK
<1> QED
  BY <1>1, <1>2 DEF Owners, SameNumbers, SameUse, Latest, AttemptsOf, Used

LEMMA OwnersStay ==
  ASSUME Owners, UNCHANGED att, \A b \in Attempts : lease'[b].state = lease[b].state PROVE Owners'
  BY DEF Owners, Latest, AttemptsOf, Used, Unresolved

LEMMA OwnersClaim ==
  ASSUME WorkersIInv, Owners, NEW s \in Steps, NEW a \in Attempts, ClaimReadyStep(s, a, step[s].version)
  PROVE  Owners'
<1>1. TypeOK /\ Numbered /\ ~StepOwned(s)
  BY DEF WorkersIInv, WorkersTyped, ClaimReadyStep
<1>2. /\ att'[a] = [step |-> s, num |-> task.last + 1, status |-> "running"]
      /\ \A b \in Attempts : b # a => att'[b] = att[b] /\ lease'[b] = lease[b]
      /\ task.last \in Nat /\ \A b \in Attempts : att[b].num \in Nat /\ att[b].num <= task.last
  BY <1>1 DEF ClaimReadyStep, TypeOK, Numbered
<1>3. ASSUME NEW b \in Attempts, b # a, Unresolved(b)'
      PROVE  (Used(b) /\ Latest(att[b].step, b))'
  <2>1. Unresolved(b) /\ Used(b) /\ Latest(att[b].step, b)
    BY <1>2, <1>3 DEF Owners, Unresolved
  <2>2. att[b].step # s
    BY <1>1, <2>1 DEF StepOwned, AttemptsOf
  <2> QED
    BY <1>2, <1>3, <2>1, <2>2 DEF Latest, AttemptsOf, Used
<1>4. (Used(a) /\ Latest(att[a].step, a))'
  BY <1>2 DEF Latest, AttemptsOf, Used
<1> QED
  BY <1>3, <1>4 DEF Owners

LEMMA OwnersDispatch ==
  ASSUME WorkersIInv, Owners, NEW p \in Execs, DispatchNext(p) PROVE Owners'
<1>1. WorkersTyped /\ TypeOK
  BY DEF WorkersIInv, WorkersTyped
<1>2. CASE AttachClaimedWorkerBinding(p)
  <2>1. \A b \in Attempts : lease'[b].state = lease[b].state
    BY <1>1, <1>2 DEF AttachClaimedWorkerBinding, TypeOK
  <2> QED
    BY <1>2, <2>1, OwnersStay DEF AttachClaimedWorkerBinding
<1>3. CASE SettleWorker(p)
  <2> PICK a \in Attempts : a = exec[p].a
    BY <1>3, ActingExec DEF SettleWorker, At
  <2>1. CASE UNCHANGED storeVars
    BY <2>1, OwnersStay DEF storeVars
  <2>2. CASE \E lv, outcome : SettleClaimedStep(att[a].step, a, exec[p].sv, lv, outcome)
    <3>1. PICK st \in {"review", "failed", "waiting_input"}, ls \in {"released", "quarantined"} :
            MoveAttempt(a, st) /\ MoveLease(a, ls) /\ att[a].status = "running" /\ lease[a].state = "active"
      BY <2>2 DEF SettleClaimedStep, HoldsClaim
    <3> QED
      BY <1>1, <3>1, OwnersSettle DEF Used, Unresolved
  <2> QED
    BY <1>3, <2>1, <2>2 DEF SettleWorker, StepOf
<1>4. CASE UNCHANGED storeVars
  BY <1>4, OwnersStay DEF storeVars
<1> QED
  BY <1>2, <1>3, <1>4 DEF DispatchNext, OccupyWorkspace, RecordWorkerLaunchIntent, RequestTab, RequestAgent,
     VerifyAgent, LaunchFails, BindWorker, PromptAgent, MarkWorkerPromptDispatched, DispatchFails

LEMMA OwnersObserve ==
  ASSUME WorkersIInv, Owners, NEW p \in Execs, ObserveNext(p) PROVE Owners'
<1>1. WorkersTyped /\ TypeOK
  BY DEF WorkersIInv, WorkersTyped
<1>2. exec[p].pc # "idle"
  BY DEF ObserveNext, RecoverClaimedWorkerLease, ObserveSnapshot, CaptureCandidate, RecordWorkerCandidate,
     SettleReviewedWorker, RenewWorkerLease, SettleClaimedWorkerCancellation,
     SettleQuarantinedWorkerStepClosure, SettleQuarantinedWorkerLaunchClosure, At
<1> PICK a \in Attempts : a = exec[p].a
  BY <1>2, ActingExec
<1>3. Used(a)
  BY <1>2, ActingExec
<1>4. CASE UNCHANGED <<att, lease>>
  BY <1>4, OwnersStay
<1>5. CASE RecoverClaimedWorkerLease(p)
  <2>1. att' = att /\ \A b \in Attempts : lease'[b].state = lease[b].state
    BY <1>1, <1>5 DEF RecoverClaimedWorkerLease, TypeOK
  <2> QED
    BY <2>1, OwnersStay
<1>6. CASE RenewWorkerLease(p)
  <2>1. att' = att /\ \A b \in Attempts : lease'[b].state = lease[b].state
    BY <1>1, <1>6 DEF RenewWorkerLease, Heartbeat, TypeOK, storeVars
  <2> QED
    BY <2>1, OwnersStay
<1>7. CASE SettleReviewedWorker(p)
  BY <1>1, <1>3, <1>4, <1>7, OwnersSettle DEF SettleReviewedWorker
<1>8. CASE SettleClaimedWorkerCancellation(p)
  BY <1>1, <1>3, <1>4, <1>8, OwnersSettle DEF SettleClaimedWorkerCancellation
<1>9. ASSUME NEW verified, SettleClosure(p, verified) PROVE Owners'
  <2>1. CASE MoveAttempt(a, IF CancelPending THEN "canceled" ELSE "failed") /\ MoveLease(a, "released")
    BY <1>1, <1>3, <2>1, OwnersSettle
  <2> QED
    BY <1>4, <1>9, <2>1 DEF SettleClosure
<1>10. CASE ObserveSnapshot(p) \/ CaptureCandidate(p) \/ RecordWorkerCandidate(p)
  BY <1>4, <1>10 DEF ObserveSnapshot, ObserveClaimedWorkerState, CaptureCandidate, RecordWorkerCandidate, storeVars
<1> QED
  BY <1>5, <1>6, <1>7, <1>8, <1>9, <1>10
     DEF ObserveNext, SettleQuarantinedWorkerStepClosure, SettleQuarantinedWorkerLaunchClosure

LEMMA OwnersDecide ==
  ASSUME WorkersIInv, Owners, DecideReview PROVE Owners'
<1>1. TypeOK /\ Server \in Execs /\ exec[Server].pc # "idle"
  BY DEF WorkersIInv, WorkersTyped, DecideReview, Execs
<1> PICK a \in Attempts : a = exec[Server].a
  BY <1>1, ActingExec
<1>2. Used(a)
  BY <1>1, ActingExec
<1>3. UNCHANGED lease /\ (UNCHANGED att \/ MoveAttempt(a, "succeeded"))
  BY DEF DecideReview, AcceptDurableStep, ReworkDurableStep, storeVars
<1> QED
  BY <1>1, <1>2, <1>3, OwnersSettle

LEMMA OwnersKept ==
  ASSUME WorkersIInv, Owners, WorkersNext PROVE Owners'
<1>1. WorkersTyped /\ TypeOK
  BY DEF WorkersIInv, WorkersTyped
<1>2. CASE UNCHANGED <<att, lease>>
  BY <1>2, OwnersStay
<1>3. ASSUME NEW p \in Activities, DispatchNext(p) \/ ObserveNext(p) PROVE Owners'
  BY <1>3, OwnersDispatch, OwnersObserve DEF Execs
<1>4. ASSUME NEW p \in Activities, NEW s \in Steps, NEW a \in Attempts, BeginNext(p, s, a) PROVE Owners'
  <2>1. CASE ClaimWorker(p, s, a)
    BY <2>1, OwnersClaim DEF ClaimWorker
  <2> QED
    BY <1>2, <1>4, <2>1 DEF BeginNext, ObserveUnconfirmed, ObserveLost, ObserveDenied, ObserveLive,
       CancelWorker, ReconcileBound, ReconcileLaunch, storeVars
<1>5. ASSUME NEW p \in Execs, ClosePane(p) \/ FreeWorkspace(p) PROVE Owners'
  BY <1>2, <1>5 DEF ClosePane, FreeWorkspace, storeVars
<1>6. ASSUME NEW s \in Steps, NEW a \in Attempts,
             ReworkClosedWorker(s, a) \/ \E then \in {"accept", "rework"} : CloseReviewedWorker(s, a, then)
      PROVE  Owners'
  BY <1>2, <1>6 DEF ReworkClosedWorker, CloseReviewedWorker, storeVars
<1>7. CASE DecideReview
  BY <1>7, OwnersDecide
<1>8. ASSUME NEW a \in Attempts, \/ ServerObserves(a) \/ TabAppears(a) \/ AgentAppears(a)
                                 \/ AgentMoves(a) \/ PaneIsLost(a)
      PROVE  Owners'
  <2>1. CASE ServerObserves(a)
    <3>1. PICK k, state : ObserveClaimedWorkerState(a, state, k)
      BY <2>1 DEF ServerObserves
    <3> QED
      BY <1>1, <1>2, <3>1, ObservedTypes
  <2>2. CASE TabAppears(a) \/ AgentAppears(a) \/ AgentMoves(a) \/ PaneIsLost(a)
    BY <1>2, <2>2 DEF TabAppears, AgentAppears, AgentMoves, PaneIsLost, storeVars
  <2> QED
    BY <1>8, <2>1, <2>2
<1>9. CASE WorkerProcessCrashes \/ ServerRestarts
  BY <1>2, <1>9 DEF WorkerProcessCrashes, ServerRestarts, storeVars
<1>10. CASE StoreMoves
  <2>1. ASSUME NEW a \in Attempts, LeaseExpires(a) PROVE Owners'
    <3>1. att' = att /\ \A b \in Attempts : lease'[b].state = lease[b].state
      BY <1>1, <2>1 DEF LeaseExpires, TypeOK
    <3> QED
      BY <3>1, OwnersStay
  <2> QED
    BY <1>2, <1>10, <2>1 DEF StoreMoves, TransitionStep, MarkTaskNeedsAttention, MarkTaskReview,
       AcceptDurableTask, RequestDurableCancellation, SettleDurableCancellation, ChangeGrant
<1> QED
  BY <1>3, <1>4, <1>5, <1>6, <1>7, <1>8, <1>9, <1>10 DEF WorkersNext, Execs

(***************************************************************************)
(* The invariant.                                                          *)
(***************************************************************************)
LEMMA ObserveKeeps ==
  ASSUME WorkersIInv, Owners, NEW p \in Activities, ObserveNext(p) PROVE WorkersIInv'
<1>1. p \in Execs
  BY DEF Execs
<1>2. CASE SettleQuarantinedWorkerStepClosure(p) \/ SettleQuarantinedWorkerLaunchClosure(p)
  BY <1>1, <1>2, SettleClosureKeeps
     DEF SettleQuarantinedWorkerStepClosure, SettleQuarantinedWorkerLaunchClosure, At
<1> QED
  BY <1>1, <1>2, RecoverKeeps, ObserveSnapshotKeeps, CaptureKeeps, RecordKeeps, SettleReviewedKeeps,
     RenewKeeps, SettleCancellationKeeps DEF ObserveNext

LEMMA BeginKeeps ==
  ASSUME WorkersIInv, NEW p \in Activities, NEW s \in Steps, NEW a \in Attempts, BeginNext(p, s, a)
  PROVE  WorkersIInv'
  BY ClaimWorkerKeeps, ObserveBegins, ObserveLiveKeeps, CloseBegins DEF BeginNext, Execs

LEMMA WorkersIInvKept ==
  ASSUME WorkersIInv, Owners, WorkersNext PROVE WorkersIInv'
<1>1. ASSUME NEW p \in Execs, ClosePane(p) \/ FreeWorkspace(p) PROVE WorkersIInv'
  BY <1>1, ClosePaneKeeps, FreeWorkspaceKeeps
<1>2. ASSUME NEW s \in Steps, NEW a \in Attempts,
             ReworkClosedWorker(s, a) \/ \E then \in {"accept", "rework"} : CloseReviewedWorker(s, a, then)
      PROVE  WorkersIInv'
  BY <1>2, ReworkClosedKeeps, CloseReviewedKeeps
<1>3. ASSUME NEW a \in Attempts, \/ ServerObserves(a) \/ TabAppears(a) \/ AgentAppears(a)
                                 \/ AgentMoves(a) \/ PaneIsLost(a)
      PROVE  WorkersIInv'
  BY <1>3, ServerObservesKeeps, PaneEventsKeep, AgentAppearsKeeps, AgentMovesKeeps
<1> QED
  BY <1>1, <1>2, <1>3, DispatchKeeps, ObserveKeeps, BeginKeeps, DecideKeeps, CrashKeeps, RestartKeeps,
     StoreMovesKeep DEF WorkersNext, Execs

LEMMA WorkersStart ==
  ASSUME WorkersInit PROVE WorkersIInv /\ Owners
<1>1. TypeOK
  BY InitTypeOK DEF WorkersInit
<1>2. /\ att = [a \in Attempts |-> [step |-> None, num |-> 0, status |-> "unused"]]
      /\ task.last = 0 /\ lease = [a \in Attempts |-> [state |-> "none", version |-> 0, expired |-> FALSE]]
  BY DEF WorkersInit, Init
<1>3. exec \in [Execs -> ExecRecord] /\ \A p \in Execs : exec[p] = Idle
  BY IdleIs DEF WorkersInit, Execs
<1>4. pane \in [Attempts -> PaneRecord]
  <2>1. [st |-> "none", prompt |-> FALSE, hist |-> <<>>] \in PaneRecord
    BY DEF PaneRecord
  <2> QED
    BY <2>1 DEF WorkersInit
<1>5. \A a \in Attempts : pane[a].st = "none" /\ pane[a].hist = <<>> /\ Now(a) = 0
  BY DEF WorkersInit, Now
<1>6. WorkersTypeOK
  <2>1. owner \in [Attempts -> 0..MaxInstance] /\ inst \in 1..MaxInstance /\ intent \subseteq Attempts
    BY WorkersAssumption DEF WorkersInit
  <2>2. bind \in [Attempts -> BindRecord]
    BY DEF WorkersInit, BindRecord, Observed
  <2>3. occ \in [state : {"free", "active", "closing", "quarantined"},
                 att : Attempts \cup {None}, inst : 0..MaxInstance]
        /\ occ.state = "free" /\ occ.att = None
    BY WorkersAssumption DEF WorkersInit, FreeEntry
  <2>4. \A a \in Attempts : pane[a].prompt \in BOOLEAN
    BY DEF WorkersInit
  <2> QED
    BY <1>5, <2>1, <2>2, <2>3, <2>4 DEF WorkersTypeOK, BindRecord
<1>7. ExecsOK /\ OneLaunch /\ CapturesOK
  BY <1>3, IdleIs DEF ExecsOK, ExecOK, OneLaunch, CapturesOK, CaptureOK, BeforeTab, AfterTab, AfterClose
<1>8. \A a \in Attempts : /\ bind[a].at = "none" /\ bind[a].last = "starting" /\ bind[a].prev = "none"
                          /\ bind[a].done = FALSE /\ bind[a].cand = 0
  BY DEF WorkersInit
<1>9. AttemptsOK /\ Numbered
  BY <1>2, <1>5, <1>8 DEF AttemptsOK, AttemptOK, Numbered, Used, Launching, Decided
<1>10. HistoryIs
  BY <1>2, <1>5, <1>8 DEF HistoryIs, HistoryOK, BegunBy
<1>11. Owners
  BY <1>2 DEF Owners, Unresolved
<1> QED
  BY <1>1, <1>3, <1>4, <1>6, <1>7, <1>9, <1>10, <1>11 DEF WorkersIInv, WorkersTyped

(* Whatever the executions, the server, Herdr and the owner do, and however *)
(* often the processes crash, the executions are where the panes and the    *)
(* records of their Attempts are, and what they remember is in the history. *)
THEOREM WorkersInvariant == WorkersSpec => [](WorkersIInv /\ Owners)
<1>1. WorkersInit => WorkersIInv /\ Owners
  BY WorkersStart
<1>2. WorkersIInv /\ Owners /\ [WorkersNext]_<<storeVars, workerVars>> => (WorkersIInv /\ Owners)'
  <2>1. ASSUME WorkersIInv, Owners, WorkersNext PROVE WorkersIInv' /\ Owners'
    BY <2>1, WorkersIInvKept, OwnersKept
  <2>2. ASSUME WorkersIInv, Owners, UNCHANGED <<storeVars, workerVars>> PROVE WorkersIInv' /\ Owners'
    <3>1. UNCHANGED <<att, lease, task, bind, pane, occ, exec, inst, owner, intent>>
      BY <2>2 DEF storeVars, workerVars
    <3>2. WorkersTyped /\ exec' \in [Execs -> ExecRecord]
      BY <2>2, <3>1 DEF WorkersIInv, WorkersTyped
    <3>3. OccTyped' /\ EntriesKept
      BY <3>1, <3>2, OccStays
    <3>4. TypeOK' /\ ReviewsStay
      BY <2>2, StoreStays DEF ReviewsStay, StepStays
    <3>5. WorkersTyped'
      BY <3>1, <3>2, <3>3, <3>4, TypesHold DEF WorkersTyped, WorkersTypeOK, BindRecord
    <3>6. \A q \in Execs : Stays(q)
      BY <3>1 DEF Stays, SameExec
    <3> QED
      BY <2>2, <3>1, <3>3, <3>4, <3>5, <3>6, CalmEnvironment, OwnersStay
  <2> QED
    BY <2>1, <2>2
<1> QED
  BY <1>1, <1>2, PTL DEF WorkersSpec

(* The workspace has one writer: a Worker that is alive, or whose tab may   *)
(* still appear, holds the write-occupancy entry, through every retry,      *)
(* rework, crash, late tab, failed close and expired lease.                 *)
THEOREM OneWriter == WorkersSpec => []EveryWorkerHoldsTheWorkspace
<1>1. WorkersIInv => EveryWorkerHoldsTheWorkspace
  BY DEF WorkersIInv, AttemptsOK, AttemptOK, EveryWorkerHoldsTheWorkspace
<1> QED
  BY <1>1, WorkersInvariant, PTL

(* A Worker is gone, and none can appear, once its Attempt failed, was      *)
(* cancelled or accepted, or its Step was reworked and claimed again.       *)
THEOREM DecidedIsGone == WorkersSpec => []DecidedWorkerIsGone
<1>1. WorkersIInv => DecidedWorkerIsGone
  BY DEF WorkersIInv, AttemptsOK, AttemptOK, DecidedWorkerIsGone, Decided
<1> QED
  BY <1>1, WorkersInvariant, PTL

(* What is put up for review is a finished turn: the pane was prompted, and *)
(* where the candidate was captured its agent was done, or idle after it    *)
(* went to work, however late, lost or repeated the observations were.      *)
THEOREM ReviewedFinished == WorkersSpec => []ReviewedWorkerFinished
<1>1. WorkersIInv => ReviewedWorkerFinished
  <2> SUFFICES ASSUME WorkersIInv, NEW a \in Attempts, att[a].status \in {"review", "succeeded"}
               PROVE  /\ bind[a].cand > 0 /\ pane[a].prompt
                      /\ \/ pane[a].hist[bind[a].cand] = "done"
                         \/ /\ pane[a].hist[bind[a].cand] = "idle"
                            /\ \E i \in 1..bind[a].cand : pane[a].hist[i] = "working"
    BY DEF ReviewedWorkerFinished
  <2>1. HistoryOK(a) /\ Now(a) \in Nat /\ bind[a].cand \in Nat
    BY RecordTypes DEF WorkersIInv, HistoryIs
  <2>2. bind[a].cand > 0 /\ IsCapture(a, bind[a].cand)
    BY <2>1 DEF HistoryOK
  <2>3. BegunBy(a, Now(a))
    BY <2>1, <2>2 DEF IsCapture, WorkedBy, BegunBy
  <2> QED
    BY <2>1, <2>2, <2>3 DEF HistoryOK, IsCapture, WorkedBy
<1> QED
  BY <1>1, WorkersInvariant, PTL

=============================================================================
