---------------------------- MODULE TaskNotices ----------------------------
(***************************************************************************)
(* The outbox of Task notifications.  A Task event that wants attention    *)
(* gets a notice in its own transaction; every two seconds the server      *)
(* claims the pending ones and sends those that are still true.  One Task  *)
(* is modelled, by the events that change or confirm its status.           *)
(***************************************************************************)
EXTENDS Naturals, Sequences

CONSTANTS
  MaxEvents,    \* bound: the length of the event log
  MaxDenials,   \* bound: times the audience loses its grant
  MaxRestarts   \* bound: restarts of the server

ASSUME TaskNoticesAssumption == MaxEvents \in Nat /\ MaxDenials \in Nat /\ MaxRestarts \in Nat

VARIABLES
  events,     \* task_events of the Task: what each one announces
  taskStatus, \* tasks.status
  notice,     \* task_notifications.status by event sequence
  wire,       \* the notices under way and arrived, by event sequence
  pump,       \* kickTaskNotifications: the candidates it has left, the first one's pc
  audience,   \* whether the recipient may read the Task and be sent to
  denials, restarts

noticeVars == <<events, taskStatus, notice, wire, pump, audience, denials, restarts>>

Attended  == {"WAITING_INPUT", "REVIEW", "DONE"}
NoPump    == [todo |-> <<>>, pc |-> "idle"]
LastEvent      == Len(events)

TaskNoticesInit ==
  /\ events = <<>> /\ taskStatus = "RUNNING" /\ notice = <<>> /\ wire = <<>>
  /\ pump = NoPump /\ audience = TRUE /\ denials = 0 /\ restarts = 0

(* Mutant: a Task that has a notice waiting gets no other. *)
EnqueuedOnce(what) ==
  IF what \in Attended /\ ~\E i \in DOMAIN notice : notice[i] = "pending" THEN "pending" ELSE "none"

(* enqueueTx: an event without a text gets no notice. *)
Enqueued(what) == IF what \in Attended THEN "pending" ELSE "none"

(* appendEventTx, in the transaction of the transition. *)
AppendEvent(what, status) ==
  /\ LastEvent < MaxEvents
  /\ events' = Append(events, what)
  /\ notice' = Append(notice, Enqueued(what))
  /\ wire' = Append(wire, [out |-> 0, got |-> 0])
  /\ taskStatus' = status
  /\ UNCHANGED <<pump, audience, denials, restarts>>

(* The transitions of the Task.  A blocked Task is blocked again by another *)
(* Step, with an event; it runs again with one (TASK_REWORK, "RUNNING"      *)
(* here) or without; a cancellation is requested, then settled.             *)
Cancelling == \E i \in DOMAIN events : events[i] = "CANCELED"

TaskMoves ==
  \/ /\ ~Cancelling
     /\ \/ /\ taskStatus \in {"RUNNING", "WAITING_INPUT"}
           /\ \E st \in {"WAITING_INPUT", "REVIEW"} : AppendEvent(st, st)
        \/ taskStatus = "REVIEW" /\ AppendEvent("DONE", "DONE")
        \/ taskStatus = "WAITING_INPUT" /\ AppendEvent("RUNNING", "RUNNING")
        \/ taskStatus # "DONE" /\ AppendEvent("CANCELED", taskStatus)
        \/ /\ taskStatus = "WAITING_INPUT" /\ taskStatus' = "RUNNING"
           /\ UNCHANGED <<events, notice, wire, pump, audience, denials, restarts>>
  \/ Cancelling /\ taskStatus # "CANCELED" /\ AppendEvent("CANCELED", "CANCELED")

(* The timer of the server: a page of pending notices, by event.            *)
ListUndelivered ==
  /\ pump.pc = "idle" /\ \E i \in DOMAIN notice : notice[i] = "pending"
  /\ pump' = [todo |-> SelectSeq([i \in DOMAIN notice |-> i], LAMBDA i : notice[i] = "pending"),
              pc |-> "claim"]
  /\ UNCHANGED <<events, taskStatus, notice, wire, audience, denials, restarts>>

Following(p) == IF Len(p.todo) = 1 THEN NoPump ELSE [todo |-> Tail(p.todo), pc |-> "claim"]

(* The Task still has the status the event announced, and nothing happened  *)
(* to it since.                                                             *)
StillCurrent(i) == taskStatus = events[i] /\ i = LastEvent

ClaimNotice ==
  LET i == Head(pump.todo) IN
  /\ pump.pc = "claim"
  /\ \/ /\ notice[i] = "pending" /\ StillCurrent(i) /\ audience
        /\ notice' = [notice EXCEPT ![i] = "sending"]
        /\ wire' = [wire EXCEPT ![i].out = @ + 1]
        /\ pump' = [pump EXCEPT !.pc = "sending"]
     \/ /\ notice[i] = "pending" /\ ~(StillCurrent(i) /\ audience)
        /\ notice' = [notice EXCEPT ![i] = "suppressed"]
        /\ pump' = Following(pump) /\ UNCHANGED wire
     \/ notice[i] # "pending" /\ pump' = Following(pump) /\ UNCHANGED <<notice, wire>>
  /\ UNCHANGED <<events, taskStatus, audience, denials, restarts>>

NoticeArrives(i) ==
  /\ wire[i].out > 0
  /\ wire' = [wire EXCEPT ![i].out = @ - 1, ![i].got = @ + 1]
  /\ UNCHANGED <<events, taskStatus, notice, pump, audience, denials, restarts>>

(* Sent, refused, or neither within the timeout. *)
NoticeReturns ==
  LET i == Head(pump.todo) IN
  /\ pump.pc = "sending" /\ pump' = Following(pump)
  /\ \E d \in {"sent", "failed", "unknown"} :
       /\ d = "sent" => wire[i].got > 0
       /\ d = "failed" => wire[i].out > 0
       /\ notice' = [notice EXCEPT ![i] = d]
       /\ wire' = IF d = "failed" THEN [wire EXCEPT ![i].out = @ - 1] ELSE wire
  /\ UNCHANGED <<events, taskStatus, audience, denials, restarts>>

(* Mutant: a send under way is tried again. *)
Requeued(d) == IF d = "sending" THEN "pending" ELSE d

(* recover: a send under way has an unknown outcome. *)
OutcomeAfterRestart(d) == IF d = "sending" THEN "unknown" ELSE d

RecoverNotices ==
  /\ restarts < MaxRestarts /\ restarts' = restarts + 1
  /\ notice' = [i \in DOMAIN notice |-> OutcomeAfterRestart(notice[i])]
  /\ pump' = NoPump
  /\ UNCHANGED <<events, taskStatus, wire, audience, denials>>

AudienceChanges ==
  /\ audience => denials < MaxDenials
  /\ audience' = ~audience
  /\ denials' = IF audience THEN denials + 1 ELSE denials
  /\ UNCHANGED <<events, taskStatus, notice, wire, pump, restarts>>

PumpStep == ClaimNotice \/ NoticeReturns

TaskNoticesNext ==
  \/ TaskMoves \/ ListUndelivered \/ ClaimNotice \/ NoticeReturns
  \/ RecoverNotices \/ AudienceChanges
  \/ \E i \in DOMAIN wire : NoticeArrives(i)

(* The timer fires, and a send ends by its timeout. *)
TaskNoticesFairness == WF_noticeVars(ListUndelivered \/ PumpStep)
TaskNoticesSpec == TaskNoticesInit /\ [][TaskNoticesNext]_noticeVars /\ TaskNoticesFairness

(* A notice reaches its reader once at most, whatever is lost or restarted, *)
(* and what the outbox says of it is so.  No two are under way at a time    *)
(* in the outbox.                                                           *)
NoticesAreTrue ==
  \A i \in DOMAIN notice :
    /\ wire[i].out + wire[i].got <= 1
    /\ notice[i] = "sent" => wire[i].got = 1
    /\ notice[i] \in {"none", "pending", "suppressed", "failed"} => wire[i].out + wire[i].got = 0
    /\ notice[i] = "sending" => pump.pc = "sending" /\ Head(pump.todo) = i

(* A Task that stays blocked, in review or accepted is announced: while the *)
(* audience keeps its grant, its last event is handed to the transport,     *)
(* whatever came before it and wherever the server restarts.                *)
HandedOver  == {"sending", "sent", "failed", "unknown"}
Unannounced == LastEvent > 0 /\ taskStatus \in Attended /\ StillCurrent(LastEvent)
               /\ notice[LastEvent] \notin HandedOver
StateIsAnnounced == []audience => (Unannounced ~> ~Unannounced)
=============================================================================
