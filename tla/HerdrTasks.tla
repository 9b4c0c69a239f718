----------------------------- MODULE HerdrTasks -----------------------------
(***************************************************************************)
(* Legacy Tasks: one Attempt after the other, each executed by a Worker in *)
(* a pane of Herdr, without a graph and without Temporal.  One Task is     *)
(* modelled: the owner's operations of AuthorizedOpsService on it, the     *)
(* transitions of TaskStore, and OpsReconciler, which learns of the        *)
(* Worker's state from events that are lost, delayed or cut off.           *)
(*                                                                         *)
(* An event of a named agent does not say whose state it is, so each one   *)
(* is answered with a snapshot of the session.  The snapshot is dated when *)
(* it arrives; a binding that is younger is left alone.                    *)
(***************************************************************************)
EXTENDS Naturals, Sequences

CONSTANTS
  MaxAttempt,   \* bound: Attempts of the Task
  MaxChanges,   \* bound: changes of the agent's state, by Attempt
  HerdrFaults   \* bound: failed calls, lost events and connections, restarts

ASSUME HerdrTasksAssumption == MaxAttempt \in Nat \ {0} /\ MaxChanges \in [1..MaxAttempt -> Nat]
                               /\ HerdrFaults \in Nat

VARIABLES
  legacy,    \* tasks.status, active_attempt_id and the kind of agent it is delegated to
  panes,     \* the pane of each Attempt: its state, and what it has been through
  bindings,  \* worker_bindings by Attempt, with the last state the Trace says was observed
  items,     \* the open attention items, by kind and Attempt (0 for none)
  op,        \* the operation under the lock of the Task
  review,    \* the acceptance, which takes no lock
  monitor,   \* OpsReconciler
  inbox,     \* eventTail and bufferedEvents: the events not yet handled
  herdrBudget

herdrVars == <<legacy, panes, bindings, items, op, review, monitor, inbox, herdrBudget>>

LegacyAttempts == 1..MaxAttempt
AgentKinds     == {"pi", "other"}
Closedown      == {"DONE", "CANCELED", "FAILED", "REVIEW"}
NoOp           == [kind |-> "none", pc |-> "idle"]
NoReview       == [pc |-> "idle", a |-> 0]
Quiet          == [sub |-> FALSE, live |-> FALSE, boot |-> FALSE, pc |-> "idle",
                   snap |-> [a \in LegacyAttempts |-> "none"], known |-> {}]
NoPane         == [st |-> "none", asked |-> FALSE, moves |-> 0, been |-> {}]
Alive(a)       == panes[a].st \in {"idle", "working", "blocked", "done"}
Bound(a)       == bindings[a].bound

HerdrTasksInit ==
  /\ legacy = [st |-> "NEW", a |-> 0, kind |-> "none"]
  /\ panes = [a \in LegacyAttempts |-> NoPane]
  /\ bindings = [a \in LegacyAttempts |-> [bound |-> FALSE, seen |-> "none"]]
  /\ items = {} /\ op = NoOp /\ review = NoReview /\ monitor = Quiet
  /\ inbox = <<>> /\ herdrBudget = HerdrFaults

Fails == herdrBudget > 0 /\ herdrBudget' = herdrBudget - 1

(***************************************************************************)
(* Delegation and rework: an Attempt, an agent, a binding, a prompt.       *)
(***************************************************************************)
CreateAttempt ==
  /\ op = NoOp /\ legacy.st = "NEW" /\ legacy.a = 0
  /\ \E kind \in AgentKinds : legacy' = [st |-> "RUNNING", a |-> 1, kind |-> kind]
  /\ op' = [kind |-> "dispatch", pc |-> "start"]
  /\ UNCHANGED <<panes, bindings, items, review, monitor, inbox, herdrBudget>>

(* The old Worker is closed before the new Attempt exists, which has an    *)
(* agent of the same kind.                                                 *)
BeginRework ==
  /\ op = NoOp /\ legacy.st = "REVIEW" /\ Bound(legacy.a) /\ legacy.a < MaxAttempt
  /\ op' = [kind |-> "rework", pc |-> "close"]
  /\ UNCHANGED <<legacy, panes, bindings, items, review, monitor, inbox, herdrBudget>>

(* closeAgent succeeds once the pane is gone; an error says neither. *)
Closing(a) ==
  \/ panes' = [panes EXCEPT ![a].st = "closed"] /\ UNCHANGED herdrBudget
  \/ Fails /\ panes' \in {panes, [panes EXCEPT ![a].st = "closed"]}
Closed(a) == herdrBudget' = herdrBudget

CloseForRework ==
  /\ op = [kind |-> "rework", pc |-> "close"] /\ Closing(legacy.a)
  /\ op' = IF Closed(legacy.a) THEN [op EXCEPT !.pc = "store"] ELSE NoOp
  /\ UNCHANGED <<legacy, bindings, items, review, monitor, inbox>>

ReworkTask ==
  /\ op = [kind |-> "rework", pc |-> "store"]
  /\ IF legacy.st = "REVIEW"
     THEN /\ legacy' = [legacy EXCEPT !.st = "RUNNING", !.a = @ + 1]
          /\ items' = {i \in items : i[1] # "task_review"}
          /\ op' = [kind |-> "dispatch", pc |-> "start"]
     ELSE op' = NoOp /\ UNCHANGED <<legacy, items>>
  /\ UNCHANGED <<panes, bindings, review, monitor, inbox, herdrBudget>>

(* After an error the agent may be there, unknown to the server. *)
StartAgent ==
  /\ op = [kind |-> "dispatch", pc |-> "start"]
  /\ \/ /\ panes' = [panes EXCEPT ![legacy.a].st = "idle"]
        /\ op' = [op EXCEPT !.pc = "bind"] /\ UNCHANGED herdrBudget
     \/ /\ Fails /\ panes' \in {panes, [panes EXCEPT ![legacy.a].st = "idle"]}
        /\ op' = [op EXCEPT !.pc = "problem"]
  /\ UNCHANGED <<legacy, bindings, items, review, monitor, inbox>>

BindLegacyWorker ==
  /\ op = [kind |-> "dispatch", pc |-> "bind"]
  /\ \/ /\ legacy.st = "RUNNING"
        /\ bindings' = [bindings EXCEPT ![legacy.a].bound = TRUE]
        /\ op' = [op EXCEPT !.pc = "prompt"] /\ UNCHANGED herdrBudget
     \/ /\ Fails \/ (legacy.st # "RUNNING" /\ UNCHANGED herdrBudget)
        /\ op' = [op EXCEPT !.pc = "undo"] /\ UNCHANGED bindings
  /\ UNCHANGED <<legacy, panes, items, review, monitor, inbox>>

(* The prompt may have been submitted although the call failed. *)
PromptLegacyWorker ==
  LET asked == [panes EXCEPT ![legacy.a].asked = Alive(legacy.a)] IN
  /\ op = [kind |-> "dispatch", pc |-> "prompt"]
  /\ \/ /\ panes[legacy.a].st = "idle" /\ panes' = asked
        /\ op' = NoOp /\ UNCHANGED herdrBudget
     \/ /\ Fails \/ (panes[legacy.a].st # "idle" /\ UNCHANGED herdrBudget)
        /\ panes' \in {panes, asked}
        /\ op' = [op EXCEPT !.pc = "undo"]
  /\ UNCHANGED <<legacy, bindings, items, review, monitor, inbox>>

(* failedDispatch. *)
UndoDispatch ==
  /\ op = [kind |-> "dispatch", pc |-> "undo"] /\ Closing(legacy.a)
  /\ op' = [op EXCEPT !.pc = "problem"]
  /\ UNCHANGED <<legacy, bindings, items, review, monitor, inbox>>

RecordDispatchProblem ==
  /\ op = [kind |-> "dispatch", pc |-> "problem"]
  /\ IF legacy.st \in {"RUNNING", "WAITING_INPUT"}
     THEN /\ legacy' = [legacy EXCEPT !.st = IF Bound(legacy.a) THEN "WAITING_INPUT" ELSE "FAILED"]
          /\ items' = items \cup {<<"problem", legacy.a>>}
     ELSE UNCHANGED <<legacy, items>>
  /\ op' = NoOp
  /\ UNCHANGED <<panes, bindings, review, monitor, inbox, herdrBudget>>

(***************************************************************************)
(* Cancellation and acceptance.                                            *)
(***************************************************************************)
CancelLegacyTask ==
  /\ op = NoOp /\ legacy.st # "DONE"
  /\ legacy' = [legacy EXCEPT !.st = "CANCELED"]
  /\ items' = IF legacy.st = "CANCELED" THEN items ELSE items \cap {<<"problem", 0>>}
  /\ op' = IF legacy.a = 0 THEN NoOp
           ELSE [kind |-> IF legacy.st = "CANCELED" THEN "again" ELSE "cancel", pc |-> "close"]
  /\ UNCHANGED <<panes, bindings, review, monitor, inbox, herdrBudget>>

(* The Worker is closed; an unbound one is looked for by its name.          *)
CloseCancelledWorker ==
  /\ op.kind \in {"cancel", "again"} /\ Closing(legacy.a)
  /\ items' = IF ~Closed(legacy.a) THEN items \cup {<<"problem", legacy.a>>}
              ELSE IF op.kind = "again" \/ ~Bound(legacy.a)
              THEN {i \in items : i[1] # "problem" \/ i[2] = 0} ELSE items
  /\ op' = NoOp
  /\ UNCHANGED <<legacy, bindings, review, monitor, inbox>>

BeginAcceptance ==
  /\ review = NoReview /\ legacy.st = "REVIEW"
  /\ review' = [pc |-> "close", a |-> legacy.a]
  /\ UNCHANGED <<legacy, panes, bindings, items, op, monitor, inbox, herdrBudget>>

CloseForAcceptance ==
  /\ review.pc = "close" /\ Closing(review.a)
  /\ review' = IF Closed(review.a) THEN [review EXCEPT !.pc = "store"] ELSE NoReview
  /\ UNCHANGED <<legacy, bindings, items, op, monitor, inbox>>

AcceptLegacyTask ==
  /\ review.pc = "store"
  /\ IF legacy.st = "REVIEW"
     THEN legacy' = [legacy EXCEPT !.st = "DONE"] /\ items' = {i \in items : i[2] = 0}
     ELSE UNCHANGED <<legacy, items>>
  /\ review' = NoReview
  /\ UNCHANGED <<panes, bindings, op, monitor, inbox, herdrBudget>>

(***************************************************************************)
(* Observation.                                                            *)
(***************************************************************************)
(* Mutant: an idle agent has done its work. *)
IdleIsDone(a, st) == st \in {"idle", "done"}

(* An agent that says it is done has completed its turn, whatever was seen  *)
(* before.  Only a pi agent also completes by going idle; it is idle before *)
(* its turn as well, so the Trace must say that it was last seen working.   *)
CompletedBy(a, st) ==
  \/ st = "done"
  \/ st = "idle" /\ legacy.kind = "pi" /\ bindings[a].seen = "working"

(* observeWorker, for the binding of the active Attempt. *)
ObserveWorker(a, st, others) ==
  IF ~Bound(a) \/ legacy.st \in Closedown
  THEN UNCHANGED <<legacy, bindings>> /\ items' = others
  ELSE
  /\ bindings' = [bindings EXCEPT ![a].seen = IF st = "unknown" THEN @ ELSE st]
  /\ legacy' = [legacy EXCEPT !.st =
       IF CompletedBy(a, st) THEN "REVIEW"
       ELSE IF st = "blocked" THEN "WAITING_INPUT"
       ELSE IF st = "working" THEN "RUNNING" ELSE @]
  /\ items' = LET rest == IF CompletedBy(a, st) \/ st = "working"
                          THEN others \ {<<"blocked", a>>} ELSE others
              IN rest \cup (IF CompletedBy(a, st) THEN {<<"task_review", a>>} ELSE {})
                      \cup (IF st = "blocked" THEN {<<"blocked", a>>} ELSE {})

Handled == inbox' = Tail(inbox)

(* An event of a pane asks for a snapshot if the pane is the active one's.  *)
HandleState ==
  /\ monitor.pc = "idle" /\ inbox # <<>> /\ Head(inbox)[1] = "state"
  /\ monitor' = IF legacy.a = Head(inbox)[2] /\ Bound(legacy.a) /\ legacy.st \notin Closedown
                THEN [monitor EXCEPT !.pc = "ask"] ELSE monitor
  /\ Handled
  /\ UNCHANGED <<legacy, panes, bindings, items, op, review, herdrBudget>>

(* events.lost: what is known is unknown until a snapshot says otherwise. *)
HandleLost ==
  /\ monitor.pc = "idle" /\ inbox # <<>> /\ Head(inbox)[1] = "lost"
  /\ monitor' = [monitor EXCEPT !.pc = "ask"] /\ Handled
  /\ UNCHANGED <<legacy, panes, bindings, items, op, review, herdrBudget>>

HandleDisconnected ==
  /\ monitor.pc = "idle" /\ inbox # <<>> /\ Head(inbox)[1] = "disconnected"
  /\ monitor' = [monitor EXCEPT !.sub = FALSE, !.live = FALSE]
  /\ items' = items \cup {<<"problem", 0>>} /\ Handled
  /\ UNCHANGED <<legacy, panes, bindings, op, review, herdrBudget>>

(* A second after the connection was lost, and again until it is back.  The *)
(* subscription comes first, then the snapshot, then the events that came   *)
(* meanwhile.                                                               *)
Subscribe ==
  /\ monitor.pc = "idle" /\ ~monitor.sub /\ inbox = <<>>
  /\ monitor' = [monitor EXCEPT !.sub = TRUE, !.live = TRUE, !.boot = TRUE, !.pc = "ask"]
  /\ UNCHANGED <<legacy, panes, bindings, items, op, review, inbox, herdrBudget>>

(* The state the server of Herdr answers with, and the bindings older than  *)
(* the answer.                                                              *)
SnapshotTaken ==
  /\ monitor.pc = "ask"
  /\ monitor' = [monitor EXCEPT !.pc = "observe",
       !.snap  = [a \in LegacyAttempts |-> IF Alive(a) THEN panes[a].st ELSE "unknown"],
       !.known = {a \in LegacyAttempts : Bound(a)}]
  /\ UNCHANGED <<legacy, panes, bindings, items, op, review, inbox, herdrBudget>>

(* A bootstrap without a snapshot is undone; elsewhere the owner is told.   *)
SnapshotFails ==
  /\ monitor.pc = "ask" /\ Fails
  /\ IF monitor.boot
     THEN monitor' = Quiet /\ inbox' = <<>> /\ UNCHANGED items
     ELSE /\ monitor' = [monitor EXCEPT !.pc = "idle"]
          /\ items' = items \cup {<<"problem", 0>>} /\ UNCHANGED inbox
  /\ UNCHANGED <<legacy, panes, bindings, op, review>>

(* Mutant: what was buffered is older than the snapshot. *)
NoneKept(buffered) == <<>>
Replayed(buffered) == buffered

ReconcileSnapshot ==
  LET a == legacy.a
      others == items \ {<<"problem", 0>>}
  IN
  /\ monitor.pc = "observe"
  /\ IF a \in monitor.known THEN ObserveWorker(a, monitor.snap[a], others)
     ELSE items' = others /\ UNCHANGED <<legacy, bindings>>
  /\ inbox' = IF monitor.boot THEN Replayed(inbox) ELSE inbox
  /\ monitor' = [Quiet EXCEPT !.sub = monitor.sub, !.live = monitor.live]
  /\ UNCHANGED <<panes, op, review, herdrBudget>>

(***************************************************************************)
(* Herdr and failures.                                                     *)
(***************************************************************************)
(* An agent that is done goes idle once somebody has looked at it. *)
PaneMoves == [idle |-> {"working", "done"}, working |-> {"idle", "blocked", "done"},
              blocked |-> {"working"}, done |-> {"idle"}]

(* A change is announced while the subscription lives, but may be lost; the *)
(* stream says that something was.                                          *)
AgentChanges(a) ==
  /\ Alive(a) /\ panes[a].asked /\ panes[a].moves < MaxChanges[a]
  /\ ~(panes[a].st = "idle" /\ panes[a].moves > 0)
  /\ \E st \in PaneMoves[panes[a].st] :
       panes' = [panes EXCEPT ![a] =
         [panes[a] EXCEPT !.st = st, !.moves = @ + 1, !.been = @ \cup {st}]]
  /\ \/ /\ inbox' = IF monitor.live THEN Append(inbox, <<"state", a>>) ELSE inbox
        /\ UNCHANGED herdrBudget
     \/ monitor.live /\ Fails /\ inbox' = Append(inbox, <<"lost", 0>>)
  /\ UNCHANGED <<legacy, bindings, items, op, review, monitor>>

PaneDies(a) ==
  /\ Alive(a) /\ Fails /\ panes' = [panes EXCEPT ![a].st = "closed"]
  /\ UNCHANGED <<legacy, bindings, items, op, review, monitor, inbox>>

ConnectionDies ==
  /\ monitor.live /\ Fails
  /\ monitor' = [monitor EXCEPT !.live = FALSE]
  /\ inbox' = Append(inbox, <<"disconnected", 0>>)
  /\ UNCHANGED <<legacy, panes, bindings, items, op, review>>

(* A restarted server may first close the bound Workers whose workspace is  *)
(* occupied, whatever their Task is doing.                                  *)
ServerStartsAgain ==
  /\ Fails
  /\ panes' \in {panes, [a \in LegacyAttempts |->
                   IF Bound(a) /\ Alive(a) THEN [panes[a] EXCEPT !.st = "closed"] ELSE panes[a]]}
  /\ op' = NoOp /\ review' = NoReview /\ monitor' = Quiet /\ inbox' = <<>>
  /\ UNCHANGED <<legacy, bindings, items>>

OwnerStep ==
  \/ CloseForRework \/ ReworkTask \/ StartAgent \/ BindLegacyWorker \/ PromptLegacyWorker
  \/ UndoDispatch \/ RecordDispatchProblem \/ CloseCancelledWorker
  \/ CloseForAcceptance \/ AcceptLegacyTask

MonitorStep ==
  \/ HandleState \/ HandleLost \/ HandleDisconnected \/ Subscribe
  \/ SnapshotTaken \/ ReconcileSnapshot

HerdrTasksNext ==
  \/ CreateAttempt \/ BeginRework \/ CancelLegacyTask \/ BeginAcceptance
  \/ CloseForRework \/ ReworkTask \/ StartAgent \/ BindLegacyWorker \/ PromptLegacyWorker
  \/ UndoDispatch \/ RecordDispatchProblem \/ CloseCancelledWorker
  \/ CloseForAcceptance \/ AcceptLegacyTask
  \/ HandleState \/ HandleLost \/ HandleDisconnected \/ Subscribe
  \/ SnapshotTaken \/ SnapshotFails \/ ReconcileSnapshot
  \/ ConnectionDies \/ ServerStartsAgain
  \/ \E a \in LegacyAttempts : AgentChanges(a) \/ PaneDies(a)

(* The server goes on with what it has begun. *)
HerdrTasksFairness == WF_herdrVars(OwnerStep \/ MonitorStep)
HerdrTasksSpec == HerdrTasksInit /\ [][HerdrTasksNext]_herdrVars /\ HerdrTasksFairness

(* A Task is in review because the Worker of its active Attempt was         *)
(* prompted and ended a turn: it reported that it was done or, if it is a   *)
(* pi agent, went to work and came to rest; not because an agent was idle   *)
(* before its turn, or another Attempt's was done.  And whatever the owner  *)
(* has to decide is an open attention item of that Attempt.                 *)
EndedTurn(a) ==
  \/ "done" \in panes[a].been
  \/ legacy.kind = "pi" /\ {"working", "idle"} \subseteq panes[a].been
ReviewRestsOnWork ==
  /\ legacy.st = "REVIEW" => /\ panes[legacy.a].asked /\ EndedTurn(legacy.a)
                             /\ <<"task_review", legacy.a>> \in items
  /\ legacy.st = "WAITING_INPUT" =>
       \E kind \in {"blocked", "problem"} : <<kind, legacy.a>> \in items

(* The end of a turn is not missed as long as the agent shows it: one that  *)
(* is done, of whatever kind, or a pi agent at rest that was last seen      *)
(* working.  Events and connections may be lost, snapshots may fail and the *)
(* server may restart, but the Task goes into review, or the owner is told  *)
(* that Herdr could not be asked.                                           *)
ShowsTheEnd ==
  \/ legacy.st \in {"RUNNING", "WAITING_INPUT"} /\ panes[legacy.a].st = "done"
  \/ /\ legacy.st = "RUNNING" /\ legacy.kind = "pi"
     /\ panes[legacy.a].st = "idle" /\ bindings[legacy.a].seen = "working"
CompletionIsNoticed == ShowsTheEnd ~> (~ShowsTheEnd \/ <<"problem", 0>> \in items)
=============================================================================
