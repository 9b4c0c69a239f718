-------------------------- MODULE HerdrTasksProofs --------------------------
(***************************************************************************)
(* A theorem of legacy Tasks, for any number of Attempts, of changes of    *)
(* their agents and of faults: what the owner is asked to decide rests on  *)
(* a turn that was ended.                                                  *)
(***************************************************************************)
EXTENDS HerdrTasks, TLAPS

PaneFields    == {"st", "asked", "moves", "been"}
TaskFields    == {"st", "a", "kind"}
MonitorFields == {"sub", "live", "boot", "pc", "snap", "known"}

(* An agent goes on only when it was asked to, and shows what it has been.  *)
PaneOK(p) ==
  /\ DOMAIN p = PaneFields
  /\ p.been # {} => p.asked
  /\ p.st = "idle" => p.been = {} \/ "idle" \in p.been
  /\ p.st \in {"working", "blocked"} => "working" \in p.been
  /\ p.st = "done" => "done" \in p.been

PanesOK ==
  /\ panes = [a \in LegacyAttempts |-> panes[a]]
  /\ \A a \in LegacyAttempts : PaneOK(panes[a])

LegacyOK ==
  /\ DOMAIN legacy = TaskFields /\ legacy.a \in 0..MaxAttempt
  /\ legacy.st \in {"RUNNING", "WAITING_INPUT", "REVIEW"} => legacy.a \in LegacyAttempts

(* Attempts to come have nothing yet.                                      *)
AttemptsToCome == \A a \in LegacyAttempts : a > legacy.a => panes[a] = NoPane

BeforePrompt(o) == o.kind = "dispatch" /\ o.pc \in {"start", "bind", "prompt"}

(* The Attempt a dispatch is about has not been asked; what is reworked has *)
(* a successor; what is closed for a cancellation stays cancelled; and an  *)
(* acceptance is about no later Attempt.                                   *)
OpOK ==
  /\ DOMAIN op = {"kind", "pc"}
  /\ BeforePrompt(op) => ~panes[legacy.a].asked
  /\ op.kind = "dispatch" => legacy.a \in LegacyAttempts
  /\ op.kind = "rework" => legacy.a < MaxAttempt
  /\ op.kind \in {"cancel", "again"} => legacy.st = "CANCELED"
  /\ review.pc = "close" => review.a <= legacy.a /\ review.a \in LegacyAttempts

(* Whoever was seen at work had begun to work; one that is done in the      *)
(* snapshot, or is at rest there and was seen at work before, has been so.  *)
SeenOK ==
  /\ bindings = [a \in LegacyAttempts |-> bindings[a]]
  /\ \A a \in LegacyAttempts :
       DOMAIN bindings[a] = {"bound", "seen"} /\ (bindings[a].seen = "working" => "working" \in panes[a].been)
  /\ DOMAIN monitor = MonitorFields /\ monitor.known \subseteq LegacyAttempts
  /\ monitor.pc = "observe" => \A a \in LegacyAttempts :
       /\ monitor.snap[a] \in {"working", "done"} => monitor.snap[a] \in panes[a].been
       /\ monitor.snap[a] = "idle" /\ bindings[a].seen = "working" => {"working", "idle"} \subseteq panes[a].been

(* ReviewRestsOnWork, without what follows from PanesOK.                    *)
Decisions ==
  /\ legacy.st = "REVIEW" => EndedTurn(legacy.a) /\ <<"task_review", legacy.a>> \in items
  /\ legacy.st = "WAITING_INPUT" =>
       \E kind \in {"blocked", "problem"} : <<kind, legacy.a>> \in items

HerdrIInv == PanesOK /\ LegacyOK /\ AttemptsToCome /\ OpOK /\ SeenOK /\ Decisions

(***************************************************************************)
(* What becomes of the panes.                                              *)
(***************************************************************************)
PaneCloses(a) == panes'[a] = [panes[a] EXCEPT !.st = "closed"]
                 /\ (a = legacy.a \/ (review.pc = "close" /\ a = review.a) \/ Alive(a))
PaneOpens(a)  == panes'[a] = [panes[a] EXCEPT !.st = "idle"]
                 /\ a = legacy.a /\ op = [kind |-> "dispatch", pc |-> "start"]
PaneAsked(a)  == panes'[a] = [panes[a] EXCEPT !.asked = Alive(a)] /\ ~BeforePrompt(op')
                 /\ a = legacy.a /\ op = [kind |-> "dispatch", pc |-> "prompt"]
PaneMoved(a)  == Alive(a) /\ panes[a].asked /\ ~(panes[a].st = "idle" /\ panes[a].moves > 0)
                 /\ \E st \in PaneMoves[panes[a].st] :
                      panes'[a] = [panes[a] EXCEPT !.st = st, !.moves = @ + 1, !.been = @ \cup {st}]
PaneStep(a)   == \/ panes'[a] = panes[a] \/ PaneCloses(a) \/ PaneOpens(a)
                 \/ PaneAsked(a) \/ PaneMoved(a)

LEMMA PutPane ==
  ASSUME PanesOK, NEW a, NEW row
  PROVE  LET put == [panes EXCEPT ![a] = row] IN
         /\ put = [b \in LegacyAttempts |-> put[b]]
         /\ \A b \in LegacyAttempts : put[b] = IF b = a THEN row ELSE panes[b]
  BY DEF PanesOK

LEMMA ClosingSteps ==
  ASSUME PanesOK, NEW x, Closing(x), x = legacy.a \/ (review.pc = "close" /\ x = review.a)
  PROVE  panes' = [a \in LegacyAttempts |-> panes'[a]] /\ \A a \in LegacyAttempts : PaneStep(a)
<1> DEFINE row == [panes[x] EXCEPT !.st = "closed"]
<1>1. panes' = [panes EXCEPT ![x] = row] \/ panes' = panes
  BY DEF Closing
<1>2. CASE panes' = panes
  BY <1>2 DEF PanesOK, PaneStep
<1>3. CASE panes' = [panes EXCEPT ![x] = row]
  <2> HIDE DEF row
  <2>1. /\ panes' = [b \in LegacyAttempts |-> panes'[b]]
        /\ \A b \in LegacyAttempts : panes'[b] = IF b = x THEN row ELSE panes[b]
    BY <1>3, PutPane
  <2> QED
    BY <2>1 DEF PaneStep, PaneCloses, row
<1> QED
  BY <1>1, <1>2, <1>3

LEMMA PaneStepIs ==
  ASSUME HerdrIInv, NEW a \in LegacyAttempts, PaneStep(a)
  PROVE  /\ PaneOK(panes'[a]) /\ panes[a].been \subseteq panes'[a].been
         /\ a > legacy.a => panes'[a] = panes[a]
         /\ BeforePrompt(op') => panes'[a].asked = panes[a].asked
<1>1. PaneOK(panes[a])
  BY DEF HerdrIInv, PanesOK
<1>2. LegacyAttempts \subseteq Nat /\ legacy.a \in Nat /\ MaxAttempt \in Nat
  BY HerdrTasksAssumption DEF LegacyAttempts, HerdrIInv, LegacyOK
<1>3. Alive(a) => ~(a > legacy.a)
  BY DEF HerdrIInv, AttemptsToCome, NoPane, Alive
<1>4. PICK was, is : was = panes[a] /\ is = panes'[a]
  OBVIOUS
<1>5. CASE PaneCloses(a)
  <2>1. DOMAIN is = PaneFields /\ is.st = "closed" /\ is.asked = was.asked /\ is.been = was.been
    BY <1>1, <1>4, <1>5 DEF PaneCloses, PaneOK, PaneFields
  <2>2. ~(a > legacy.a)
    BY <1>2, <1>3, <1>5 DEF PaneCloses, HerdrIInv, OpOK
  <2> QED
    BY <1>1, <1>4, <2>1, <2>2 DEF PaneOK
<1>6. CASE PaneOpens(a)
  <2>1. DOMAIN is = PaneFields /\ is.st = "idle" /\ is.asked = was.asked /\ is.been = was.been
    BY <1>1, <1>4, <1>6 DEF PaneOpens, PaneOK, PaneFields
  <2>2. ~was.asked /\ ~(a > legacy.a)
    BY <1>2, <1>4, <1>6 DEF PaneOpens, HerdrIInv, OpOK, BeforePrompt
  <2> QED
    BY <1>1, <1>4, <2>1, <2>2 DEF PaneOK
<1>7. CASE PaneAsked(a)
  <2>1. DOMAIN is = PaneFields /\ is.st = was.st /\ is.been = was.been
    BY <1>1, <1>4, <1>7 DEF PaneAsked, PaneOK, PaneFields
  <2>2. ~was.asked /\ ~(a > legacy.a)
    BY <1>2, <1>4, <1>7 DEF PaneAsked, HerdrIInv, OpOK, BeforePrompt
  <2> QED
    BY <1>1, <1>4, <1>7, <2>1, <2>2 DEF PaneOK, PaneAsked
<1>8. CASE PaneMoved(a)
  <2>1. PICK st \in PaneMoves[was.st] : is = [was EXCEPT !.st = st, !.moves = @ + 1, !.been = @ \cup {st}]
    BY <1>4, <1>8 DEF PaneMoved
  <2>2. was.st \in {"idle", "working", "blocked", "done"} /\ was.asked
    BY <1>4, <1>8 DEF PaneMoved, Alive
  <2>3. DOMAIN is = PaneFields /\ is.st = st /\ is.asked = was.asked /\ is.been = was.been \cup {st}
    BY <1>1, <1>4, <2>1 DEF PaneOK, PaneFields
  <2>4. st \in {"idle", "working", "blocked", "done"} /\ (st = "blocked" => was.st = "working")
    BY <2>1, <2>2 DEF PaneMoves
  <2>5. ~(a > legacy.a)
    BY <1>3, <1>8 DEF PaneMoved
  <2> QED
    BY <1>1, <1>4, <2>2, <2>3, <2>4, <2>5 DEF PaneOK
<1>9. CASE panes'[a] = panes[a]
  BY <1>1, <1>2, <1>9 DEF PaneOK
<1> QED
  BY <1>5, <1>6, <1>7, <1>8, <1>9 DEF PaneStep

(* Every action does with each pane one of these.                          *)
LEMMA PanesStep ==
  ASSUME HerdrIInv, HerdrTasksNext
  PROVE  panes' = [a \in LegacyAttempts |-> panes'[a]] /\ \A a \in LegacyAttempts : PaneStep(a)
<1> DEFINE Stepped == panes' = [a \in LegacyAttempts |-> panes'[a]] /\ \A a \in LegacyAttempts : PaneStep(a)
<1> USE DEF HerdrIInv
<1>1. UNCHANGED panes => Stepped
  BY DEF PanesOK, PaneStep
<1>2. CloseForRework \/ UndoDispatch \/ CloseCancelledWorker => Stepped
  BY ClosingSteps DEF CloseForRework, UndoDispatch, CloseCancelledWorker
<1>3. CloseForAcceptance => Stepped
  BY ClosingSteps DEF CloseForAcceptance
<1>4. ASSUME StartAgent PROVE Stepped
  <2> DEFINE row == [panes[legacy.a] EXCEPT !.st = "idle"]
  <2>1. panes' = [panes EXCEPT ![legacy.a] = row] \/ panes' = panes
    BY <1>4 DEF StartAgent
  <2>2. op = [kind |-> "dispatch", pc |-> "start"]
    BY <1>4 DEF StartAgent
  <2>3. CASE panes' = [panes EXCEPT ![legacy.a] = row]
    <3> HIDE DEF row
    <3>1. /\ panes' = [b \in LegacyAttempts |-> panes'[b]]
          /\ \A b \in LegacyAttempts : panes'[b] = IF b = legacy.a THEN row ELSE panes[b]
      BY <2>3, PutPane
    <3> QED
      BY <2>2, <3>1 DEF PaneStep, PaneOpens, row
  <2> QED
    BY <1>1, <2>1, <2>3
<1>5. ASSUME PromptLegacyWorker PROVE Stepped
  <2> DEFINE row == [panes[legacy.a] EXCEPT !.asked = Alive(legacy.a)]
  <2>1. panes' = [panes EXCEPT ![legacy.a] = row] \/ panes' = panes
    BY <1>5 DEF PromptLegacyWorker
  <2>2. op = [kind |-> "dispatch", pc |-> "prompt"] /\ ~BeforePrompt(op')
    BY <1>5 DEF PromptLegacyWorker, BeforePrompt, NoOp
  <2>3. CASE panes' = [panes EXCEPT ![legacy.a] = row]
    <3> HIDE DEF row
    <3>1. /\ panes' = [b \in LegacyAttempts |-> panes'[b]]
          /\ \A b \in LegacyAttempts : panes'[b] = IF b = legacy.a THEN row ELSE panes[b]
      BY <2>3, PutPane
    <3> QED
      BY <2>2, <3>1 DEF PaneStep, PaneAsked, row
  <2> QED
    BY <1>1, <2>1, <2>3
<1>6. ASSUME NEW x \in LegacyAttempts, AgentChanges(x) PROVE Stepped
  <2>1. PICK st \in PaneMoves[panes[x].st] :
          panes' = [panes EXCEPT ![x] = [panes[x] EXCEPT !.st = st, !.moves = @ + 1, !.been = @ \cup {st}]]
    BY <1>6 DEF AgentChanges
  <2> DEFINE row == [panes[x] EXCEPT !.st = st, !.moves = @ + 1, !.been = @ \cup {st}]
  <2>2. panes' = [panes EXCEPT ![x] = row]
    BY <2>1, Zenon
  <2> HIDE DEF row
  <2>3. /\ panes' = [b \in LegacyAttempts |-> panes'[b]]
        /\ \A b \in LegacyAttempts : panes'[b] = IF b = x THEN row ELSE panes[b]
    BY <2>2, PutPane
  <2>4. Alive(x) /\ panes[x].asked /\ ~(panes[x].st = "idle" /\ panes[x].moves > 0)
    BY <1>6 DEF AgentChanges
  <2>5. PaneMoved(x)
    BY <2>3, <2>4 DEF PaneMoved, row
  <2> QED
    BY <2>3, <2>5 DEF PaneStep
<1>7. ASSUME NEW x \in LegacyAttempts, PaneDies(x) PROVE Stepped
  <2> DEFINE row == [panes[x] EXCEPT !.st = "closed"]
  <2>1. Alive(x) /\ panes' = [panes EXCEPT ![x] = row]
    BY <1>7 DEF PaneDies
  <2> HIDE DEF row
  <2>2. /\ panes' = [b \in LegacyAttempts |-> panes'[b]]
        /\ \A b \in LegacyAttempts : panes'[b] = IF b = x THEN row ELSE panes[b]
    BY <2>1, PutPane
  <2> QED
    BY <2>1, <2>2 DEF PaneStep, PaneCloses, row
<1>8. ASSUME ServerStartsAgain PROVE Stepped
  <2> DEFINE put == [a \in LegacyAttempts |->
                       IF Bound(a) /\ Alive(a) THEN [panes[a] EXCEPT !.st = "closed"] ELSE panes[a]]
  <2>1. panes' = panes \/ panes' = put
    BY <1>8 DEF ServerStartsAgain
  <2>2. CASE panes' = put
    BY <2>2 DEF PaneStep, PaneCloses
  <2> QED
    BY <1>1, <2>1, <2>2
<1>9. CreateAttempt \/ BeginRework \/ CancelLegacyTask \/ BeginAcceptance \/ ReworkTask
      \/ BindLegacyWorker \/ RecordDispatchProblem \/ AcceptLegacyTask => UNCHANGED panes
  BY Zenon DEF CreateAttempt, BeginRework, CancelLegacyTask, BeginAcceptance, ReworkTask,
     BindLegacyWorker, RecordDispatchProblem, AcceptLegacyTask
<1>10. HandleState \/ HandleLost \/ HandleDisconnected \/ Subscribe \/ SnapshotTaken
       \/ SnapshotFails \/ ReconcileSnapshot \/ ConnectionDies => UNCHANGED panes
  BY Zenon DEF HandleState, HandleLost, HandleDisconnected, Subscribe, SnapshotTaken,
     SnapshotFails, ReconcileSnapshot, ConnectionDies
<1> HIDE DEF Stepped, HerdrIInv
<1>11. Stepped
  BY <1>1, <1>2, <1>3, <1>4, <1>5, <1>6, <1>7, <1>8, <1>9, <1>10 DEF HerdrTasksNext
<1> QED
  BY <1>11 DEF Stepped

(***************************************************************************)
(* What becomes of the Task and its operations.                            *)
(***************************************************************************)
LEMMA AttemptNumbers ==
  /\ MaxAttempt \in Nat /\ MaxAttempt >= 1
  /\ \A a : a \in LegacyAttempts <=> a \in Nat /\ a >= 1 /\ a <= MaxAttempt
  BY HerdrTasksAssumption DEF LegacyAttempts

(* Its Attempt is another one only when it was reworked, or begun.          *)
TaskStep ==
  /\ DOMAIN legacy' = TaskFields
  /\ \/ legacy'.a = legacy.a /\ (legacy'.st \in {"RUNNING", "WAITING_INPUT", "REVIEW"} => legacy.a \in LegacyAttempts)
     \/ legacy'.a = legacy.a + 1 /\ legacy'.a \in LegacyAttempts
        /\ op' = [kind |-> "dispatch", pc |-> "start"]
  /\ legacy.st = "CANCELED" => legacy'.st = "CANCELED"
  /\ legacy.a \in LegacyAttempts => legacy'.kind = legacy.kind

LEMMA TaskSteps == ASSUME HerdrIInv, HerdrTasksNext PROVE TaskStep
<1>0. DOMAIN legacy = TaskFields /\ legacy.a \in Nat
      /\ (legacy.st \in {"RUNNING", "WAITING_INPUT", "REVIEW"} => legacy.a \in LegacyAttempts)
  BY AttemptNumbers DEF HerdrIInv, LegacyOK
<1>1. UNCHANGED legacy => TaskStep
  BY <1>0 DEF TaskStep
<1>2. ASSUME CreateAttempt PROVE TaskStep
  <2>1. /\ legacy.a = 0 /\ legacy.st = "NEW" /\ op' = [kind |-> "dispatch", pc |-> "start"]
        /\ \E kind \in AgentKinds : legacy' = [st |-> "RUNNING", a |-> 1, kind |-> kind]
    BY <1>2 DEF CreateAttempt
  <2>2. 1 \in LegacyAttempts /\ 0 \notin LegacyAttempts
    BY AttemptNumbers
  <2> QED
    BY <2>1, <2>2 DEF TaskStep, TaskFields
<1>3. ASSUME ReworkTask PROVE TaskStep
  <2>1. CASE legacy.st = "REVIEW"
    <3>1. legacy' = [legacy EXCEPT !.st = "RUNNING", !.a = @ + 1] /\ op' = [kind |-> "dispatch", pc |-> "start"]
      BY <1>3, <2>1 DEF ReworkTask
    <3>2. op.kind = "rework"
      BY <1>3 DEF ReworkTask
    <3>3. legacy.a + 1 \in LegacyAttempts
      BY <1>0, <3>2, AttemptNumbers DEF HerdrIInv, OpOK
    <3>4. DOMAIN legacy' = TaskFields /\ legacy'.a = legacy.a + 1 /\ legacy'.kind = legacy.kind
      BY <1>0, <3>1 DEF TaskFields
    <3> QED
      BY <2>1, <3>1, <3>3, <3>4 DEF TaskStep
  <2>2. CASE legacy.st # "REVIEW"
    BY <1>1, <1>3, <2>2 DEF ReworkTask
  <2> QED
    BY <2>1, <2>2
<1>4. ASSUME NEW st, legacy' = [legacy EXCEPT !.st = st],
             st \in {"RUNNING", "WAITING_INPUT", "REVIEW"} => legacy.a \in LegacyAttempts,
             legacy.st # "CANCELED" \/ st = "CANCELED"
      PROVE  TaskStep
  <2>1. DOMAIN legacy' = TaskFields /\ legacy'.a = legacy.a /\ legacy'.st = st
        /\ legacy'.kind = legacy.kind
    BY <1>0, <1>4 DEF TaskFields
  <2> QED
    BY <1>4, <2>1 DEF TaskStep
<1>5. ASSUME RecordDispatchProblem PROVE TaskStep
  <2>1. op.kind = "dispatch"
    BY <1>5 DEF RecordDispatchProblem
  <2>2. legacy.a \in LegacyAttempts
    BY <2>1 DEF HerdrIInv, OpOK
  <2>3. CASE legacy.st \in {"RUNNING", "WAITING_INPUT"}
    <3>1. PICK st : legacy' = [legacy EXCEPT !.st = st]
      BY <1>5, <2>3 DEF RecordDispatchProblem
    <3> QED
      BY <1>4, <2>2, <2>3, <3>1
  <2>4. CASE legacy.st \notin {"RUNNING", "WAITING_INPUT"}
    BY <1>1, <1>5, <2>4 DEF RecordDispatchProblem
  <2> QED
    BY <2>3, <2>4
<1>6. CancelLegacyTask => TaskStep
  BY <1>4 DEF CancelLegacyTask
<1>7. AcceptLegacyTask => TaskStep
  BY <1>1, <1>4 DEF AcceptLegacyTask
<1>8. ASSUME ReconcileSnapshot PROVE TaskStep
  <2>1. CASE legacy' = legacy
    BY <1>1, <2>1
  <2>2. CASE legacy' # legacy
    <3>1. legacy.a \in monitor.known /\ ObserveWorker(legacy.a, monitor.snap[legacy.a], items \ {<<"problem", 0>>})
      BY <1>8, <2>2 DEF ReconcileSnapshot
    <3>2. legacy.a \in LegacyAttempts
      BY <3>1 DEF HerdrIInv, SeenOK
    <3>3. /\ legacy.st \notin Closedown
          /\ \E st : legacy' = [legacy EXCEPT !.st = st]
      BY <2>2, <3>1 DEF ObserveWorker
    <3> QED
      BY <1>4, <3>2, <3>3 DEF Closedown
  <2> QED
    BY <2>1, <2>2
<1>9. BeginRework \/ BeginAcceptance \/ CloseForRework \/ StartAgent \/ BindLegacyWorker
      \/ PromptLegacyWorker \/ UndoDispatch \/ CloseCancelledWorker \/ CloseForAcceptance => UNCHANGED legacy
  BY Zenon DEF BeginRework, BeginAcceptance, CloseForRework, StartAgent, BindLegacyWorker,
     PromptLegacyWorker, UndoDispatch, CloseCancelledWorker, CloseForAcceptance
<1>10. HandleState \/ HandleLost \/ HandleDisconnected \/ Subscribe \/ SnapshotTaken
       \/ SnapshotFails \/ ConnectionDies \/ ServerStartsAgain => UNCHANGED legacy
  BY Zenon DEF HandleState, HandleLost, HandleDisconnected, Subscribe, SnapshotTaken,
     SnapshotFails, ConnectionDies, ServerStartsAgain
<1>11. ASSUME NEW x, AgentChanges(x) \/ PaneDies(x) PROVE UNCHANGED legacy
  BY <1>11, Zenon DEF AgentChanges, PaneDies
<1> QED
  BY <1>1, <1>2, <1>3, <1>5, <1>6, <1>7, <1>8, <1>9, <1>10, <1>11 DEF HerdrTasksNext

LEMMA LegacyKept == ASSUME HerdrIInv, HerdrTasksNext PROVE LegacyOK' /\ AttemptsToCome'
<1>1. TaskStep /\ \A a \in LegacyAttempts : a > legacy.a => panes'[a] = panes[a]
  BY TaskSteps, PanesStep, PaneStepIs
<1>2. legacy.a \in 0..MaxAttempt
  BY DEF HerdrIInv, LegacyOK
<1>3. LegacyOK'
  BY <1>1, <1>2, AttemptNumbers DEF TaskStep, LegacyOK
<1>4. AttemptsToCome'
  BY <1>1, <1>2, AttemptNumbers DEF TaskStep, AttemptsToCome, HerdrIInv
<1> QED
  BY <1>3, <1>4

LEMMA PanesKept == ASSUME HerdrIInv, HerdrTasksNext PROVE PanesOK'
  BY PanesStep, PaneStepIs DEF PanesOK

(* What becomes of the operation under the lock.                           *)
OpStep ==
  \/ op' = op
  \/ op' = NoOp
  \/ op' = [kind |-> "rework", pc |-> "close"] /\ legacy.a < MaxAttempt /\ op = NoOp
  \/ op' = [op EXCEPT !.pc = "store"] /\ op = [kind |-> "rework", pc |-> "close"]
  \/ op' = [kind |-> "dispatch", pc |-> "start"] /\ legacy'.a = legacy.a + 1
     /\ (op = NoOp \/ op.kind = "rework")
  \/ op' = [op EXCEPT !.pc = "bind"] /\ op = [kind |-> "dispatch", pc |-> "start"]
  \/ op' = [op EXCEPT !.pc = "prompt"] /\ op = [kind |-> "dispatch", pc |-> "bind"]
  \/ op' \in {[op EXCEPT !.pc = "undo"], [op EXCEPT !.pc = "problem"]} /\ op.kind = "dispatch"
  \/ op' \in {[kind |-> "again", pc |-> "close"], [kind |-> "cancel", pc |-> "close"]} /\ legacy'.st = "CANCELED"

ReviewStep ==
  \/ review' = review \/ review' = NoReview
  \/ review' = [pc |-> "close", a |-> legacy.a] /\ legacy.st = "REVIEW"
  \/ review'.pc = "store"

LEMMA OpSteps == ASSUME HerdrIInv, HerdrTasksNext PROVE OpStep /\ ReviewStep
<1>1. CreateAttempt => OpStep /\ UNCHANGED review
  BY DEF CreateAttempt, OpStep
<1>2. BeginRework => OpStep /\ UNCHANGED review
  BY DEF BeginRework, OpStep
<1>3. CloseForRework => OpStep /\ UNCHANGED review
  BY DEF CloseForRework, OpStep
<1>4. ASSUME ReworkTask PROVE OpStep /\ UNCHANGED review
  <2>0. DOMAIN legacy = TaskFields
    BY DEF HerdrIInv, LegacyOK
  <2>1. op = [kind |-> "rework", pc |-> "store"]
    BY <1>4 DEF ReworkTask
  <2>2. \/ legacy' = [legacy EXCEPT !.st = "RUNNING", !.a = @ + 1] /\ op' = [kind |-> "dispatch", pc |-> "start"]
        \/ op' = NoOp
    BY <1>4 DEF ReworkTask
  <2>3. legacy' = [legacy EXCEPT !.st = "RUNNING", !.a = @ + 1] => legacy'.a = legacy.a + 1
    BY <2>0 DEF TaskFields
  <2>4. UNCHANGED review
    BY <1>4 DEF ReworkTask
  <2> QED
    BY <2>1, <2>2, <2>3, <2>4 DEF OpStep
<1>5. StartAgent => OpStep /\ UNCHANGED review
  BY DEF StartAgent, OpStep
<1>6. BindLegacyWorker => OpStep /\ UNCHANGED review
  BY DEF BindLegacyWorker, OpStep
<1>7. PromptLegacyWorker => OpStep /\ UNCHANGED review
  BY DEF PromptLegacyWorker, OpStep
<1>8. UndoDispatch => OpStep /\ UNCHANGED review
  BY DEF UndoDispatch, OpStep
<1>9. RecordDispatchProblem => OpStep /\ UNCHANGED review
  BY DEF RecordDispatchProblem, OpStep
<1>10. ASSUME CancelLegacyTask PROVE OpStep /\ UNCHANGED review
  <2>1. legacy' = [legacy EXCEPT !.st = "CANCELED"] /\ DOMAIN legacy = TaskFields
    BY <1>10 DEF CancelLegacyTask, HerdrIInv, LegacyOK
  <2>2. legacy'.st = "CANCELED"
    BY <2>1 DEF TaskFields
  <2>3. op' \in {NoOp, [kind |-> "again", pc |-> "close"], [kind |-> "cancel", pc |-> "close"]}
    BY <1>10 DEF CancelLegacyTask
  <2> QED
    BY <1>10, <2>2, <2>3 DEF CancelLegacyTask, OpStep
<1>11. CloseCancelledWorker => OpStep /\ UNCHANGED review
  BY DEF CloseCancelledWorker, OpStep
<1>12. ServerStartsAgain => OpStep /\ ReviewStep
  BY DEF ServerStartsAgain, OpStep, ReviewStep
<1>13. BeginAcceptance => UNCHANGED op /\ ReviewStep
  BY DEF BeginAcceptance, ReviewStep
<1>14. ASSUME CloseForAcceptance PROVE UNCHANGED op /\ ReviewStep
  <2>1. review' = [review EXCEPT !.pc = "store"] \/ review' = NoReview
    BY <1>14 DEF CloseForAcceptance
  <2> QED
    BY <1>14, <2>1 DEF CloseForAcceptance, ReviewStep, NoReview
<1>15. AcceptLegacyTask => UNCHANGED op /\ ReviewStep
  BY DEF AcceptLegacyTask, ReviewStep
<1>16. HandleState \/ HandleLost \/ HandleDisconnected \/ Subscribe \/ SnapshotTaken
       \/ SnapshotFails \/ ConnectionDies \/ ReconcileSnapshot => UNCHANGED <<op, review>>
  BY Zenon DEF HandleState, HandleLost, HandleDisconnected, Subscribe, SnapshotTaken,
     SnapshotFails, ConnectionDies, ReconcileSnapshot
<1>17. ASSUME NEW x, AgentChanges(x) \/ PaneDies(x) PROVE UNCHANGED <<op, review>>
  BY <1>17, Zenon DEF AgentChanges, PaneDies
<1>18. /\ UNCHANGED review => ReviewStep
       /\ UNCHANGED op => OpStep
  BY DEF ReviewStep, OpStep
<1> QED
  BY <1>1, <1>2, <1>3, <1>4, <1>5, <1>6, <1>7, <1>8, <1>9, <1>10, <1>11, <1>12, <1>13, <1>14,
     <1>15, <1>16, <1>17, <1>18 DEF HerdrTasksNext

LEMMA OpKept == ASSUME HerdrIInv, HerdrTasksNext PROVE OpOK'
<1>1. OpStep /\ ReviewStep /\ TaskStep
  BY OpSteps, TaskSteps
<1>2. legacy.a \in Nat /\ legacy.a <= MaxAttempt /\ MaxAttempt \in Nat /\ DOMAIN op = {"kind", "pc"}
  BY AttemptNumbers DEF HerdrIInv, LegacyOK, OpOK
<1>3. LegacyOK' /\ AttemptsToCome'
  BY LegacyKept
<1>4. \A pc : /\ DOMAIN [op EXCEPT !.pc = pc] = {"kind", "pc"}
               /\ [op EXCEPT !.pc = pc].kind = op.kind /\ [op EXCEPT !.pc = pc].pc = pc
  BY <1>2
<1>5. DOMAIN op' = {"kind", "pc"}
  BY <1>1, <1>2, <1>4 DEF OpStep, NoOp
<1>6. BeforePrompt(op') => ~panes'[legacy'.a].asked
  <2> SUFFICES ASSUME BeforePrompt(op') PROVE ~panes'[legacy'.a].asked
    OBVIOUS
  <2>1. CASE legacy'.a = legacy.a + 1 /\ legacy'.a \in LegacyAttempts
    <3>1. panes'[legacy'.a] = panes[legacy'.a] /\ legacy'.a > legacy.a
      BY <2>1, <1>2, PanesStep, PaneStepIs
    <3>2. panes[legacy'.a] = NoPane
      BY <2>1, <3>1 DEF HerdrIInv, AttemptsToCome
    <3> QED
      BY <3>1, <3>2 DEF NoPane
  <2>2. CASE legacy'.a = legacy.a
    <3>1. BeforePrompt(op)
      BY <1>1, <1>2, <1>4, <2>2 DEF OpStep, NoOp, BeforePrompt
    <3>2. legacy.a \in LegacyAttempts /\ ~panes[legacy.a].asked
      BY <3>1 DEF HerdrIInv, OpOK, BeforePrompt
    <3>3. panes'[legacy.a].asked = panes[legacy.a].asked
      BY <3>2, PanesStep, PaneStepIs
    <3> QED
      BY <2>2, <3>2, <3>3
  <2> QED
    BY <1>1, <2>1, <2>2 DEF TaskStep
<1>7. op'.kind = "dispatch" => legacy'.a \in LegacyAttempts
  BY <1>1, <1>2, <1>4 DEF OpStep, TaskStep, NoOp, HerdrIInv, OpOK
<1>8. op'.kind = "rework" => legacy'.a < MaxAttempt
  BY <1>1, <1>2, <1>4 DEF OpStep, TaskStep, NoOp, HerdrIInv, OpOK
<1>9. op'.kind \in {"cancel", "again"} => legacy'.st = "CANCELED"
  BY <1>1, <1>2, <1>4 DEF OpStep, TaskStep, NoOp, HerdrIInv, OpOK
<1>10. review'.pc = "close" => review'.a <= legacy'.a /\ review'.a \in LegacyAttempts
  <2>1. legacy'.a >= legacy.a
    BY <1>1, <1>2 DEF TaskStep
  <2>2. review'.pc = "close" => review'.a <= legacy.a /\ review'.a \in LegacyAttempts
    BY <1>1, <1>2 DEF ReviewStep, NoReview, HerdrIInv, OpOK, LegacyOK
  <2>3. legacy'.a \in Nat
    BY <1>3, AttemptNumbers DEF LegacyOK
  <2> QED
    BY <1>2, <2>1, <2>2, <2>3, AttemptNumbers
<1> QED
  BY <1>5, <1>6, <1>7, <1>8, <1>9, <1>10 DEF OpOK

(***************************************************************************)
(* What becomes of what was seen.                                          *)
(***************************************************************************)
SeenStep ==
  /\ bindings' = [a \in LegacyAttempts |-> bindings'[a]]
  /\ \A a \in LegacyAttempts :
       /\ DOMAIN bindings'[a] = {"bound", "seen"}
       /\ \/ bindings'[a].seen = bindings[a].seen
          \/ monitor.pc = "observe" /\ monitor'.pc # "observe" /\ bindings'[a].seen = monitor.snap[a]
  /\ DOMAIN monitor' = MonitorFields /\ monitor'.known \subseteq LegacyAttempts
  /\ monitor'.pc = "observe" =>
       \/ SnapshotTaken
       \/ monitor.pc = "observe" /\ monitor'.snap = monitor.snap

LEMMA PutBinding ==
  ASSUME SeenOK, NEW a, NEW row
  PROVE  LET put == [bindings EXCEPT ![a] = row] IN
         /\ put = [b \in LegacyAttempts |-> put[b]]
         /\ \A b \in LegacyAttempts : put[b] = IF b = a THEN row ELSE bindings[b]
  BY DEF SeenOK

(* An observation writes the state of the snapshot, of the active Attempt.  *)
LEMMA ObservedRow ==
  ASSUME SeenOK, legacy.a \in LegacyAttempts, NEW others,
         ObserveWorker(legacy.a, monitor.snap[legacy.a], others)
  PROVE  /\ bindings' = [b \in LegacyAttempts |-> bindings'[b]]
         /\ \A b \in LegacyAttempts :
              /\ DOMAIN bindings'[b] = {"bound", "seen"}
              /\ bindings'[b].seen = bindings[b].seen \/ bindings'[b].seen = monitor.snap[b]
<1> DEFINE a == legacy.a
           st == monitor.snap[a]
           next == IF st = "unknown" THEN bindings[a].seen ELSE st
           row == [bindings[a] EXCEPT !.seen = next]
<1>1. bindings' = bindings \/ bindings' = [bindings EXCEPT ![a] = row]
  BY DEF ObserveWorker
<1>2. CASE bindings' = bindings
  BY <1>2 DEF SeenOK
<1>3. CASE bindings' = [bindings EXCEPT ![a] = row]
  <2>1. DOMAIN row = {"bound", "seen"} /\ row.seen = next
    BY DEF SeenOK
  <2>2. next = bindings[a].seen \/ next = monitor.snap[a]
    OBVIOUS
  <2> HIDE DEF row, next, st, a
  <2>3. /\ bindings' = [b \in LegacyAttempts |-> bindings'[b]]
        /\ \A b \in LegacyAttempts : bindings'[b] = IF b = a THEN row ELSE bindings[b]
    BY <1>3, PutBinding
  <2> QED
    BY <2>1, <2>2, <2>3 DEF SeenOK
<1> QED
  BY <1>1, <1>2, <1>3

LEMMA SeenSteps == ASSUME HerdrIInv, HerdrTasksNext PROVE SeenStep
<1>0. SeenOK
  BY DEF HerdrIInv
<1>1. UNCHANGED <<bindings, monitor>> => SeenStep
  BY <1>0 DEF SeenStep, SeenOK
<1>2. ASSUME BindLegacyWorker PROVE SeenStep
  <2> DEFINE row == [bindings[legacy.a] EXCEPT !.bound = TRUE]
  <2>1. legacy.a \in LegacyAttempts
    BY <1>2 DEF BindLegacyWorker, HerdrIInv, OpOK
  <2>2. DOMAIN row = {"bound", "seen"} /\ row.seen = bindings[legacy.a].seen
    BY <1>0, <2>1 DEF SeenOK
  <2>3. bindings' = bindings \/ bindings' = [bindings EXCEPT ![legacy.a] = row]
    BY <1>2 DEF BindLegacyWorker
  <2>4. UNCHANGED monitor
    BY <1>2 DEF BindLegacyWorker
  <2> HIDE DEF row
  <2>5. CASE bindings' = [bindings EXCEPT ![legacy.a] = row]
    <3>1. /\ bindings' = [b \in LegacyAttempts |-> bindings'[b]]
          /\ \A b \in LegacyAttempts : bindings'[b] = IF b = legacy.a THEN row ELSE bindings[b]
      BY <1>0, <2>5, PutBinding
    <3> QED
      BY <1>0, <2>2, <2>4, <3>1 DEF SeenStep, SeenOK
  <2> QED
    BY <1>1, <2>3, <2>4, <2>5
<1>3. ASSUME UNCHANGED bindings, DOMAIN monitor' = MonitorFields, monitor'.known \subseteq LegacyAttempts,
             monitor'.pc = "observe" => SnapshotTaken \/ monitor' = monitor
      PROVE  SeenStep
  BY <1>0, <1>3 DEF SeenStep, SeenOK
<1>4. DOMAIN Quiet = MonitorFields /\ Quiet.known = {} /\ Quiet.pc = "idle"
  BY DEF Quiet, MonitorFields
<1>5. DOMAIN monitor = MonitorFields /\ monitor.known \subseteq LegacyAttempts
  BY <1>0 DEF SeenOK
<1>6. ASSUME HandleState \/ HandleLost PROVE SeenStep
  <2>1. monitor' = monitor \/ monitor' = [monitor EXCEPT !.pc = "ask"]
    BY <1>6 DEF HandleState, HandleLost
  <2>2. UNCHANGED bindings
    BY <1>6 DEF HandleState, HandleLost
  <2>3. DOMAIN monitor' = MonitorFields /\ monitor'.known \subseteq LegacyAttempts
    BY <1>5, <2>1 DEF MonitorFields
  <2>4. monitor' = monitor \/ monitor'.pc = "ask"
    BY <1>5, <2>1 DEF MonitorFields
  <2> QED
    BY <1>3, <2>2, <2>3, <2>4
<1>7. ASSUME HandleDisconnected \/ ConnectionDies PROVE SeenStep
  <2>1. \/ monitor.pc = "idle" /\ monitor' = [monitor EXCEPT !.sub = FALSE, !.live = FALSE]
        \/ monitor' = [monitor EXCEPT !.live = FALSE]
    BY <1>7 DEF HandleDisconnected, ConnectionDies
  <2>2. UNCHANGED bindings
    BY <1>7 DEF HandleDisconnected, ConnectionDies
  <2>3. DOMAIN monitor' = MonitorFields /\ monitor'.known = monitor.known /\ monitor'.pc = monitor.pc
        /\ monitor'.snap = monitor.snap
    BY <1>5, <2>1 DEF MonitorFields
  <2> QED
    BY <1>0, <1>5, <2>2, <2>3 DEF SeenStep, SeenOK
<1>8. Subscribe => SeenStep
  BY <1>3, <1>5 DEF Subscribe, MonitorFields
<1>9. ASSUME SnapshotTaken PROVE SeenStep
  <2> DEFINE taken == [a \in LegacyAttempts |-> IF Alive(a) THEN panes[a].st ELSE "unknown"]
             known == {a \in LegacyAttempts : Bound(a)}
  <2>1. monitor' = [monitor EXCEPT !.pc = "observe", !.snap = taken, !.known = known]
    BY <1>9 DEF SnapshotTaken
  <2>2. known \subseteq LegacyAttempts
    OBVIOUS
  <2> HIDE DEF taken, known
  <2>3. DOMAIN monitor' = MonitorFields /\ monitor'.known = known
    BY <1>5, <2>1 DEF MonitorFields
  <2>4. UNCHANGED bindings
    BY <1>9 DEF SnapshotTaken
  <2> QED
    BY <1>3, <1>9, <2>2, <2>3, <2>4
<1>10. ASSUME SnapshotFails PROVE SeenStep
  <2>1. monitor' = Quiet \/ monitor' = [monitor EXCEPT !.pc = "idle"]
    BY <1>10 DEF SnapshotFails
  <2>2. UNCHANGED bindings
    BY <1>10 DEF SnapshotFails
  <2> QED
    BY <1>3, <1>4, <1>5, <2>1, <2>2 DEF MonitorFields
<1>11. ASSUME ServerStartsAgain PROVE SeenStep
  BY <1>3, <1>4, <1>11 DEF ServerStartsAgain
<1>12. ASSUME ReconcileSnapshot PROVE SeenStep
  <2>1. monitor.pc = "observe" /\ monitor' = [Quiet EXCEPT !.sub = monitor.sub, !.live = monitor.live]
    BY <1>12 DEF ReconcileSnapshot
  <2>2. DOMAIN monitor' = MonitorFields /\ monitor'.known = {} /\ monitor'.pc = "idle"
    BY <1>4, <2>1 DEF MonitorFields
  <2>3. CASE legacy.a \notin monitor.known
    <3>1. UNCHANGED bindings
      BY <1>12, <2>3 DEF ReconcileSnapshot
    <3> QED
      BY <1>3, <2>2, <3>1
  <2>4. CASE legacy.a \in monitor.known
    <3>1. legacy.a \in LegacyAttempts
      BY <1>5, <2>4
    <3>2. ObserveWorker(legacy.a, monitor.snap[legacy.a], items \ {<<"problem", 0>>})
      BY <1>12, <2>4 DEF ReconcileSnapshot
    <3> QED
      BY <1>0, <2>1, <2>2, <3>1, <3>2, ObservedRow DEF SeenStep
  <2> QED
    BY <2>3, <2>4
<1>13. CreateAttempt \/ BeginRework \/ CancelLegacyTask \/ BeginAcceptance \/ CloseForRework \/ ReworkTask
       \/ StartAgent \/ PromptLegacyWorker => UNCHANGED <<bindings, monitor>>
  BY Zenon DEF CreateAttempt, BeginRework, CancelLegacyTask, BeginAcceptance, CloseForRework, ReworkTask,
     StartAgent, PromptLegacyWorker
<1>14. UndoDispatch \/ RecordDispatchProblem \/ CloseCancelledWorker \/ CloseForAcceptance
       \/ AcceptLegacyTask => UNCHANGED <<bindings, monitor>>
  BY Zenon DEF UndoDispatch, RecordDispatchProblem, CloseCancelledWorker, CloseForAcceptance, AcceptLegacyTask
<1>15. ASSUME NEW x, AgentChanges(x) \/ PaneDies(x) PROVE UNCHANGED <<bindings, monitor>>
  BY <1>15, Zenon DEF AgentChanges, PaneDies
<1> QED
  BY <1>1, <1>2, <1>6, <1>7, <1>8, <1>9, <1>10, <1>11, <1>12, <1>13, <1>14, <1>15 DEF HerdrTasksNext

LEMMA SeenKept == ASSUME HerdrIInv, HerdrTasksNext PROVE SeenOK'
<1>1. SeenStep /\ SeenOK /\ PanesOK
  BY SeenSteps DEF HerdrIInv
<1>2. \A a \in LegacyAttempts : panes[a].been \subseteq panes'[a].been
  BY PanesStep, PaneStepIs
<1>3. ASSUME NEW a \in LegacyAttempts, bindings'[a].seen = "working" PROVE "working" \in panes'[a].been
  BY <1>1, <1>2, <1>3 DEF SeenStep, SeenOK
<1>4. ASSUME NEW a \in LegacyAttempts, monitor'.pc = "observe"
      PROVE  /\ monitor'.snap[a] \in {"working", "done"} => monitor'.snap[a] \in panes'[a].been
             /\ monitor'.snap[a] = "idle" /\ bindings'[a].seen = "working" => {"working", "idle"} \subseteq panes'[a].been
  <2>1. bindings'[a].seen = bindings[a].seen
    BY <1>1, <1>4 DEF SeenStep
  <2>2. CASE monitor.pc = "observe" /\ monitor'.snap = monitor.snap
    BY <1>1, <1>2, <1>4, <2>1, <2>2 DEF SeenOK
  <2>3. CASE SnapshotTaken
    <3> DEFINE taken == [x \in LegacyAttempts |-> IF Alive(x) THEN panes[x].st ELSE "unknown"]
               known == {x \in LegacyAttempts : Bound(x)}
    <3>1. monitor' = [monitor EXCEPT !.pc = "observe", !.snap = taken, !.known = known]
      BY <2>3 DEF SnapshotTaken
    <3>2. taken[a] \in {"idle", "working", "done"} => taken[a] = panes[a].st
      OBVIOUS
    <3> HIDE DEF taken, known
    <3>3. monitor'.snap = taken
      BY <1>1, <3>1 DEF SeenOK, MonitorFields
    <3>4. PaneOK(panes[a]) /\ (bindings[a].seen = "working" => "working" \in panes[a].been)
      BY <1>1 DEF PanesOK, SeenOK
    <3> QED
      BY <1>2, <2>1, <3>2, <3>3, <3>4 DEF PaneOK
  <2> QED
    BY <1>1, <1>4, <2>2, <2>3 DEF SeenStep
<1> QED
  BY <1>1, <1>3, <1>4 DEF SeenStep, SeenOK

(***************************************************************************)
(* What becomes of what the owner is asked.                                *)
(***************************************************************************)
Asking == {"REVIEW", "WAITING_INPUT"}

DecisionStep ==
  \/ legacy'.st \notin Asking
  \/ /\ legacy'.st = legacy.st /\ legacy'.a = legacy.a
     /\ \A kind : <<kind, legacy.a>> \in items => <<kind, legacy.a>> \in items'
  \/ legacy'.st = "WAITING_INPUT" /\ \E kind \in {"blocked", "problem"} : <<kind, legacy'.a>> \in items'
  \/ /\ legacy'.st = "REVIEW" /\ legacy'.a = legacy.a /\ legacy.a \in LegacyAttempts
     /\ EndedTurn(legacy.a) /\ <<"task_review", legacy.a>> \in items'

LEMMA DecisionSteps == ASSUME HerdrIInv, HerdrTasksNext PROVE DecisionStep
<1>0. /\ DOMAIN legacy = TaskFields /\ legacy.a \in Nat
      /\ legacy.st \in Asking => legacy.a \in LegacyAttempts
  BY AttemptNumbers DEF HerdrIInv, LegacyOK, Asking
<1> USE DEF TaskFields
<1>1. UNCHANGED <<legacy, items>> => DecisionStep
  BY DEF DecisionStep
<1>2. CreateAttempt => DecisionStep
  BY DEF CreateAttempt, DecisionStep, Asking, AgentKinds
<1>3. ASSUME ReworkTask PROVE DecisionStep
  <2>1. legacy' = [legacy EXCEPT !.st = "RUNNING", !.a = @ + 1] \/ UNCHANGED <<legacy, items>>
    BY <1>3 DEF ReworkTask
  <2>2. legacy'.st = "RUNNING" \/ UNCHANGED <<legacy, items>>
    BY <1>0, <2>1
  <2> QED
    BY <1>1, <2>2 DEF DecisionStep, Asking
<1>4. ASSUME RecordDispatchProblem PROVE DecisionStep
  <2>1. CASE legacy.st \in {"RUNNING", "WAITING_INPUT"}
    <3>1. /\ legacy' = [legacy EXCEPT !.st = "WAITING_INPUT"] \/ legacy' = [legacy EXCEPT !.st = "FAILED"]
          /\ items' = items \cup {<<"problem", legacy.a>>}
      BY <1>4, <2>1 DEF RecordDispatchProblem
    <3>2. legacy'.a = legacy.a /\ legacy'.st \in {"WAITING_INPUT", "FAILED"}
      BY <1>0, <3>1
    <3> QED
      BY <3>1, <3>2 DEF DecisionStep, Asking
  <2>2. CASE legacy.st \notin {"RUNNING", "WAITING_INPUT"}
    BY <1>1, <1>4, <2>2 DEF RecordDispatchProblem
  <2> QED
    BY <2>1, <2>2
<1>5. ASSUME CancelLegacyTask PROVE DecisionStep
  BY <1>0, <1>5 DEF CancelLegacyTask, DecisionStep, Asking
<1>6. ASSUME CloseCancelledWorker PROVE DecisionStep
  <2>1. legacy.st = "CANCELED" /\ UNCHANGED legacy
    BY <1>6 DEF CloseCancelledWorker, HerdrIInv, OpOK
  <2> QED
    BY <2>1 DEF DecisionStep, Asking
<1>7. ASSUME AcceptLegacyTask PROVE DecisionStep
  <2>1. legacy'.st = "DONE" \/ UNCHANGED <<legacy, items>>
    BY <1>0, <1>7 DEF AcceptLegacyTask
  <2> QED
    BY <1>1, <2>1 DEF DecisionStep, Asking
<1>8. HandleDisconnected \/ SnapshotFails => DecisionStep
  BY DEF HandleDisconnected, SnapshotFails, DecisionStep
<1>9. ASSUME ReconcileSnapshot PROVE DecisionStep
  <2> DEFINE others == items \ {<<"problem", 0>>}
             a == legacy.a
             st == monitor.snap[a]
  <2>1. \A kind : legacy.st \in Asking /\ <<kind, a>> \in items => <<kind, a>> \in others
    BY <1>0, AttemptNumbers
  <2>2. \/ items' = others /\ UNCHANGED legacy
        \/ a \in monitor.known /\ ObserveWorker(a, st, others)
    BY <1>9 DEF ReconcileSnapshot
  <2> HIDE DEF others
  <2>3. CASE items' = others /\ UNCHANGED legacy
    BY <2>1, <2>3 DEF DecisionStep
  <2>4. ASSUME a \in monitor.known, ObserveWorker(a, st, others), ~(items' = others /\ UNCHANGED legacy)
        PROVE  DecisionStep
    <3> HIDE DEF st
    <3>1. /\ a \in LegacyAttempts /\ monitor.pc = "observe"
      BY <1>9, <2>4 DEF ReconcileSnapshot, HerdrIInv, SeenOK
    <3>2. CASE CompletedBy(a, st)
      <4>1. legacy' = [legacy EXCEPT !.st = "REVIEW"] /\ <<"task_review", a>> \in items'
        BY <2>4, <3>2 DEF ObserveWorker
      <4>2. legacy'.st = "REVIEW" /\ legacy'.a = legacy.a
        BY <1>0, <4>1
      <4>3. EndedTurn(a)
        BY <3>1, <3>2 DEF CompletedBy, HerdrIInv, SeenOK, EndedTurn, st
      <4> QED
        BY <3>1, <4>1, <4>2, <4>3 DEF DecisionStep
    <3>3. CASE ~CompletedBy(a, st) /\ st = "blocked"
      <4>1. legacy' = [legacy EXCEPT !.st = "WAITING_INPUT"] /\ <<"blocked", a>> \in items'
        BY <2>4, <3>3 DEF ObserveWorker
      <4>2. legacy'.st = "WAITING_INPUT" /\ legacy'.a = legacy.a
        BY <1>0, <4>1
      <4> QED
        BY <4>1, <4>2 DEF DecisionStep
    <3>4. CASE ~CompletedBy(a, st) /\ st # "blocked"
      <4>1. PICK x \in {"RUNNING", legacy.st} :
              legacy' = [legacy EXCEPT !.st = x] /\ (st = "working" => x = "RUNNING")
        BY <2>4, <3>4 DEF ObserveWorker
      <4>2. legacy'.st = x /\ legacy'.a = legacy.a
        BY <1>0, <4>1
      <4>3. st # "working" => others \subseteq items'
        BY <2>4, <3>4 DEF ObserveWorker
      <4> QED
        BY <2>1, <4>1, <4>2, <4>3 DEF DecisionStep, Asking
    <3> QED
      BY <3>2, <3>3, <3>4
  <2> QED
    BY <2>2, <2>3, <2>4
<1>10. BeginRework \/ BeginAcceptance \/ CloseForRework \/ StartAgent \/ BindLegacyWorker
      \/ PromptLegacyWorker \/ UndoDispatch \/ CloseForAcceptance => UNCHANGED <<legacy, items>>
  BY Zenon DEF BeginRework, BeginAcceptance, CloseForRework, StartAgent, BindLegacyWorker,
     PromptLegacyWorker, UndoDispatch, CloseForAcceptance
<1>11. HandleState \/ HandleLost \/ Subscribe \/ SnapshotTaken \/ ConnectionDies \/ ServerStartsAgain
       => UNCHANGED <<legacy, items>>
  BY Zenon DEF HandleState, HandleLost, Subscribe, SnapshotTaken, ConnectionDies, ServerStartsAgain
<1>12. ASSUME NEW x, AgentChanges(x) \/ PaneDies(x) PROVE UNCHANGED <<legacy, items>>
  BY <1>12, Zenon DEF AgentChanges, PaneDies
<1> QED
  BY <1>1, <1>2, <1>3, <1>4, <1>5, <1>6, <1>7, <1>8, <1>9, <1>10, <1>11, <1>12 DEF HerdrTasksNext

LEMMA DecisionsKept == ASSUME HerdrIInv, HerdrTasksNext PROVE Decisions'
<1>1. DecisionStep /\ Decisions
  BY DecisionSteps DEF HerdrIInv
<1>2. \A a \in LegacyAttempts : panes[a].been \subseteq panes'[a].been
  BY PanesStep, PaneStepIs
<1>3. legacy.st = "REVIEW" => legacy.a \in LegacyAttempts
  BY DEF HerdrIInv, LegacyOK
<1>4. legacy.a \in LegacyAttempts => legacy'.kind = legacy.kind
  BY TaskSteps DEF TaskStep
<1>5. legacy.a \in LegacyAttempts /\ legacy'.a = legacy.a /\ EndedTurn(legacy.a) => EndedTurn(legacy.a)'
  BY <1>2, <1>4 DEF EndedTurn
<1> QED
  BY <1>1, <1>3, <1>5 DEF DecisionStep, Decisions, Asking

(***************************************************************************)
(* The theorem.                                                            *)
(***************************************************************************)
LEMMA HerdrBegins == HerdrTasksInit => HerdrIInv
<1> SUFFICES ASSUME HerdrTasksInit PROVE HerdrIInv
  OBVIOUS
<1>1. PanesOK /\ AttemptsToCome
  BY DEF HerdrTasksInit, PanesOK, PaneOK, PaneFields, NoPane, AttemptsToCome
<1>2. LegacyOK /\ Decisions
  BY AttemptNumbers DEF HerdrTasksInit, LegacyOK, TaskFields, Decisions
<1>3. OpOK
  BY DEF HerdrTasksInit, OpOK, NoOp, NoReview, BeforePrompt
<1>4. SeenOK
  BY DEF HerdrTasksInit, SeenOK, Quiet, MonitorFields
<1> QED
  BY <1>1, <1>2, <1>3, <1>4 DEF HerdrIInv

LEMMA HerdrStays == HerdrIInv /\ [HerdrTasksNext]_herdrVars => HerdrIInv'
<1>1. ASSUME HerdrIInv, HerdrTasksNext PROVE HerdrIInv'
  BY <1>1, PanesKept, LegacyKept, OpKept, SeenKept, DecisionsKept DEF HerdrIInv
<1>2. ASSUME HerdrIInv, UNCHANGED herdrVars PROVE HerdrIInv'
  <2>1. PanesOK' /\ LegacyOK' /\ AttemptsToCome'
    BY <1>2 DEF herdrVars, HerdrIInv, PanesOK, LegacyOK, AttemptsToCome
  <2>2. OpOK' /\ SeenOK' /\ Decisions'
    BY <1>2 DEF herdrVars, HerdrIInv, OpOK, SeenOK, Decisions, EndedTurn
  <2> QED
    BY <2>1, <2>2 DEF HerdrIInv
<1> QED
  BY <1>1, <1>2

LEMMA HerdrDecides == HerdrIInv => ReviewRestsOnWork
<1> SUFFICES ASSUME HerdrIInv PROVE ReviewRestsOnWork
  OBVIOUS
<1>1. legacy.st = "REVIEW" => PaneOK(panes[legacy.a])
  BY DEF HerdrIInv, LegacyOK, PanesOK
<1> QED
  BY <1>1 DEF HerdrIInv, Decisions, PaneOK, EndedTurn, ReviewRestsOnWork

(* A Task without Steps is in review because the Worker of its active       *)
(* Attempt was prompted and ended a turn (it reported that it was done or,  *)
(* being a pi agent, worked and came to rest), and what it asks of the      *)
(* owner is an open item of that Attempt: for any number of Attempts, of    *)
(* changes of their agents, of lost events, calls and connections, and of   *)
(* restarts.  (OpsReconciler.observeWorker, AuthorizedOpsService.)          *)
THEOREM ReviewsRestOnWork == HerdrTasksSpec => []ReviewRestsOnWork
<1>1. HerdrTasksInit => HerdrIInv
  BY HerdrBegins
<1>2. HerdrIInv /\ [HerdrTasksNext]_herdrVars => HerdrIInv'
  BY HerdrStays
<1>3. HerdrIInv => ReviewRestsOnWork
  BY HerdrDecides
<1> QED
  BY <1>1, <1>2, <1>3, PTL DEF HerdrTasksSpec
=============================================================================
