--------------------------- MODULE LongWorkStore ---------------------------
(***************************************************************************)
(* The durable record of one long-running Task: its Steps, the Attempts    *)
(* made at them, the leases that own an Attempt while its outcome is open, *)
(* durable waits, the internal Runs that execute Model and Tool Steps, and *)
(* the attention items shown to the owner.                                 *)
(*                                                                         *)
(* Every method of LongWorkStore is one serialised write transaction, so   *)
(* it is one action here.  A caller passes the versions it remembers (sv   *)
(* for the Step, lv for the lease): a stale version makes the method throw *)
(* and roll back, so it has no successor.  StoreNext lets any caller call  *)
(* any method at any time; LongWork restricts it to the callers there are. *)
(***************************************************************************)
EXTENDS Integers, FiniteSets

CONSTANTS
  Steps,        \* the Steps of the adopted graph
  Root,         \* root_step_id
  Kind,         \* Steps -> StepKinds
  Attempts,     \* attempt ids: each is used once, it is a fresh UUID
  None,         \* SQL NULL
  MaxAttempts,  \* Steps -> max_attempts
  Retrying,     \* Steps with a retry policy; its maxAttempts is the Step's
  StaleTimers,  \* Steps whose wait policy says overdue: "stale"
  MaxLeaseVersion \* bound: a heartbeat does not raise a lease version above it

(* Kinds that differ only in the prompt they carry are one kind: "model"   *)
(* is also the closed read-only Tool Step (task_get), "write" the closed   *)
(* checkpoint_write Tool Step, "timer" a duration/until/deadline wait and  *)
(* "approval" an approval or signal wait with a timeout.                   *)
RunKinds  == {"model", "write"}
WaitKinds == {"timer", "approval"}
StepKinds == RunKinds \cup WaitKinds \cup {"join", "child", "worker"}

ASSUME ParametersAssumption ==
  /\ Root \in Steps
  /\ Kind \in [Steps -> StepKinds]
  /\ None \notin Steps \cup Attempts
  /\ MaxAttempts \in [Steps -> Nat \ {0}]
  /\ Retrying \subseteq Steps
  /\ StaleTimers \subseteq Steps
  /\ MaxLeaseVersion \in Nat \ {0}

VARIABLES
  task,     \* tasks: [status, cancel, last], last = MAX(attempt_number)
  step,     \* task_steps: [status, version, gen, base]
  att,      \* task_attempts: [step, num, status]
  lease,    \* task_step_leases, one per claimed Attempt: [state, version, expired]
  wait,     \* task_waits, the latest generation of each Step
  run,      \* runs joined with task_attempt_runs: status of the Attempt's Run
  ckpt,     \* task_checkpoints of checkpoint_write: <<step, generation, attempt>>
  attn,     \* unresolved attention_items: <<kind, attempt or None>>
  granted   \* the owner's task:continue grant is in force

storeVars == <<task, step, att, lease, wait, run, ckpt, attn, granted>>

TaskStatus == {"NEW", "RUNNING", "WAITING_INPUT", "REVIEW", "DONE", "CANCELED"}
StepStatus == {"pending", "ready", "running", "waiting", "blocked", "review",
               "succeeded", "failed", "cancelled", "skipped"}
StepClosed == {"succeeded", "failed", "cancelled", "skipped"}
AttStatus  == {"unused", "running", "waiting_input", "review", "succeeded",
               "failed", "canceled"}
RunLive    == {"queued", "running", "cancelling"}
(* "interrupted" stands for every end without a result: interrupted, unknown, *)
(* cancelled and a success without text.  No reader tells these apart.        *)
RunClosed  == {"succeeded", "failed", "interrupted"}
AttnKinds  == {"worker_blocked", "task_failed", "task_review"}

TypeOK ==
  /\ task \in [status : TaskStatus, cancel : {"none", "requested", "settled"}, last : Nat]
  /\ step \in [Steps -> [status : StepStatus, version : Nat, gen : Nat, base : Nat]]
  /\ att \in [Attempts -> [step : Steps \cup {None}, num : Nat, status : AttStatus]]
  /\ lease \in [Attempts -> [state : {"none", "active", "released", "quarantined"},
                             version : Nat, expired : BOOLEAN]]
  /\ wait \in [Steps -> [gen : Nat, kind : {"none", "retry", "timer", "approval"},
                         status : {"none", "waiting", "resumed", "cancelled", "stale"},
                         due : BOOLEAN]]
  /\ run \in [Attempts -> {"none"} \cup RunLive \cup RunClosed]
  /\ ckpt \subseteq Steps \X Nat \X Attempts
  /\ attn \subseteq AttnKinds \X (Attempts \cup {None})
  /\ granted \in BOOLEAN

(***************************************************************************)
(* Reading the tables.                                                     *)
(***************************************************************************)
AttemptsOf(s) == {a \in Attempts : att[a].step = s}
Latest(s, a)  == a \in AttemptsOf(s) /\ \A b \in AttemptsOf(s) : att[b].num <= att[a].num
(* Attempts since the last TASK_REWORK event of the Step. *)
CycleAttempts(s) == {a \in AttemptsOf(s) : att[a].num > step[s].base}

Unresolved(a)   == lease[a].state \in {"active", "quarantined"}
StepOwned(s)    == \E a \in AttemptsOf(s) : Unresolved(a)
OtherIn(s, S)   == \E t \in Steps \ {s} : step[t].status \in S
AnyWaiting      == \E s \in Steps : wait[s].status = "waiting"

(* requireActiveDurableTask *)
Active == task.cancel = "none" /\ task.status \notin {"DONE", "CANCELED"}
CancelPending == task.cancel = "requested"

(***************************************************************************)
(* Writing the tables.                                                     *)
(***************************************************************************)
MoveStep(s, status) ==
  step' = [step EXCEPT ![s].status = status, ![s].version = @ + 1]
MoveAttempt(a, status) == att' = [att EXCEPT ![a].status = status]
MoveLease(a, state) ==
  lease' = [lease EXCEPT ![a].state = state, ![a].version = @ + 1]
(* INSERT INTO task_waits ... generation MAX + 1 *)
OpenWait(s, kind) ==
  wait' = [wait EXCEPT ![s] = [gen |-> @.gen + 1, kind |-> kind,
                               status |-> "waiting", due |-> FALSE]]
CloseWait(s, status) == wait' = [wait EXCEPT ![s].status = status]

(* Attention of an Attempt, and of the Task when no other Step is blocked. *)
AttemptAttn(a) == <<"worker_blocked", a>>
TaskAttn       == <<"worker_blocked", None>>
(* Mutant: the Task's item stays open. *)
ResolvedButTask(s, a) == attn \ {AttemptAttn(a)}
ResolvedWith(s, a) ==
  attn \ ({AttemptAttn(a)} \cup (IF OtherIn(s, {"blocked"}) THEN {} ELSE {TaskAttn}))

(***************************************************************************)
(* Claims.  A ready Step gets a fresh Attempt and an active lease.         *)
(***************************************************************************)
ClaimReadyStep(s, a, sv) ==
  /\ granted /\ Active /\ task.status # "REVIEW"
  /\ step[s].status = "ready" /\ step[s].version = sv
  /\ Kind[s] \in RunKinds \cup {"worker"}
  /\ ~StepOwned(s)
  /\ Cardinality(CycleAttempts(s)) < MaxAttempts[s]
  /\ att[a].status = "unused"
  /\ task' = [task EXCEPT !.status = "RUNNING", !.last = @ + 1]
  /\ att' = [att EXCEPT ![a] = [step |-> s, num |-> task.last + 1, status |-> "running"]]
  /\ MoveStep(s, "running")
  /\ lease' = [lease EXCEPT ![a] = [state |-> "active", version |-> 1, expired |-> FALSE]]
  /\ UNCHANGED <<wait, run, ckpt, attn, granted>>

(* updateLease(action: heartbeat) *)
Heartbeat(a, lv) ==
  /\ lease[a].state = "active" /\ lease[a].version = lv
  /\ lease' = [lease EXCEPT ![a] =
       [state |-> "active", version |-> IF lv < MaxLeaseVersion THEN lv + 1 ELSE lv,
        expired |-> FALSE]]
  /\ UNCHANGED <<task, step, att, wait, run, ckpt, attn, granted>>

(* The claim a settlement must still hold: Step, Attempt and lease, and    *)
(* the versions of both as its caller last saw them.                       *)
HoldsClaim(s, a, sv, lv) ==
  /\ step[s].status = "running" /\ step[s].version = sv
  /\ att[a].step = s /\ att[a].status = "running"
  /\ lease[a].state = "active" /\ lease[a].version = lv

HoldsQuarantine(s, a, stepStatus, sv, lv) ==
  /\ step[s].status = stepStatus /\ step[s].version = sv
  /\ att[a].step = s /\ att[a].status = "waiting_input"
  /\ lease[a].state = "quarantined" /\ lease[a].version = lv

(* No expiry check: an expired lease may still be settled by its owner. *)
SettleClaimedStep(s, a, sv, lv, outcome) ==
  /\ Active
  /\ HoldsClaim(s, a, sv, lv)
  /\ \/ /\ outcome = "review"
        /\ MoveStep(s, "review") /\ MoveAttempt(a, "review") /\ MoveLease(a, "released")
     \/ /\ outcome = "failed"
        /\ MoveStep(s, "failed") /\ MoveAttempt(a, "failed") /\ MoveLease(a, "released")
     \/ /\ outcome = "unknown"
        /\ MoveStep(s, "blocked") /\ MoveAttempt(a, "waiting_input")
        /\ MoveLease(a, "quarantined")
  /\ UNCHANGED <<task, wait, run, ckpt, attn, granted>>

(* Mutant: one retry too many. *)
RetryAllowedOnceMore(s) == s \in Retrying /\ Cardinality(CycleAttempts(s)) <= MaxAttempts[s]

(* decideTaskRetry for a classified error whose side effect did not happen. *)
RetryAllowed(s) == s \in Retrying /\ Cardinality(CycleAttempts(s)) < MaxAttempts[s]

ScheduleClaimedStepRetry(s, a, sv, lv) ==
  /\ Active
  /\ HoldsClaim(s, a, sv, lv)
  /\ RetryAllowed(s)
  /\ wait[s].status # "waiting"
  /\ MoveStep(s, "waiting") /\ MoveAttempt(a, "failed") /\ MoveLease(a, "released")
  /\ OpenWait(s, "retry")
  /\ UNCHANGED <<task, run, ckpt, attn, granted>>

(***************************************************************************)
(* Reconciling a quarantined Attempt against its original Run.             *)
(***************************************************************************)
ResolveQuarantinedRunStep(s, a, sv, lv) ==
  /\ granted /\ Active /\ Kind[s] = "model"
  /\ HoldsQuarantine(s, a, "blocked", sv, lv)
  /\ run[a] \in {"succeeded", "failed"}
  /\ LET to == IF run[a] = "succeeded" THEN "review" ELSE "failed"
     IN  /\ MoveStep(s, to) /\ MoveAttempt(a, to) /\ MoveLease(a, "released")
         /\ attn' = ResolvedWith(s, a)
         /\ task' = [task EXCEPT !.status =
              IF /\ @ = "WAITING_INPUT" /\ to = "review"
                 /\ ~OtherIn(s, {"blocked", "failed"})
                 /\ attn' = {} /\ ~AnyWaiting
              THEN "RUNNING" ELSE @]
  /\ UNCHANGED <<wait, run, ckpt, granted>>

Applied(s) == \E b \in Attempts : <<s, step[s].gen, b>> \in ckpt

(* A checkpoint write whose response was lost is decided by whether its    *)
(* checkpoint exists, once its Run can no longer write.                    *)
ReconcileQuarantinedCheckpointStep(s, a, sv, lv) ==
  /\ granted /\ Active /\ Kind[s] = "write"
  /\ HoldsQuarantine(s, a, "blocked", sv, lv)
  /\ run[a] \notin RunLive
  /\ ~(run[a] = "none" /\ Applied(s))
  /\ LET retry == ~Applied(s) /\ RetryAllowed(s)
         to    == IF Applied(s) THEN "review" ELSE IF retry THEN "waiting" ELSE "failed"
     IN  /\ MoveStep(s, to) /\ MoveLease(a, "released")
         /\ MoveAttempt(a, IF Applied(s) THEN "review" ELSE "failed")
         /\ IF retry THEN wait[s].status # "waiting" /\ OpenWait(s, "retry")
                     ELSE UNCHANGED wait
         /\ attn' = ResolvedWith(s, a)
         /\ task' = [task EXCEPT !.status =
              IF @ = "WAITING_INPUT" /\ to # "failed" /\ ~OtherIn(s, {"blocked"})
              THEN "RUNNING" ELSE @]
  /\ UNCHANGED <<run, ckpt, granted>>

(* The quarantine of a write ends by its checkpoint, that of a Model Step  *)
(* by its Run.                                                             *)
ReconcileQuarantinedStep(s, a, sv, lv) ==
  IF Kind[s] = "write" THEN ReconcileQuarantinedCheckpointStep(s, a, sv, lv)
                       ELSE ResolveQuarantinedRunStep(s, a, sv, lv)

(***************************************************************************)
(* Waits.                                                                  *)
(***************************************************************************)
CreateWait(s, sv) ==
  /\ Active
  /\ Kind[s] \in WaitKinds
  /\ step[s].status = "ready" /\ step[s].version = sv
  /\ wait[s].status # "waiting"
  /\ MoveStep(s, "waiting")
  /\ OpenWait(s, Kind[s])
  /\ UNCHANGED <<task, att, lease, run, ckpt, attn, granted>>

(* A due timer or retry resumes its Step; a timed-out approval, or a timer *)
(* whose policy makes it stale, is never evidence that anything happened.  *)
FireDueWait(s, sv) ==
  /\ Active
  /\ step[s].status = "waiting" /\ step[s].version = sv
  /\ wait[s].status = "waiting" /\ wait[s].due
  /\ LET stale == \/ wait[s].kind = "approval"
                  \/ wait[s].kind = "timer" /\ s \in StaleTimers
     IN  /\ MoveStep(s, IF stale THEN "blocked"
                        ELSE IF Kind[s] \in WaitKinds THEN "succeeded" ELSE "ready")
         /\ CloseWait(s, IF stale THEN "stale" ELSE "resumed")
  /\ UNCHANGED <<task, att, lease, run, ckpt, attn, granted>>

(* recordSignal, with the disposition it records.  A signal that does not  *)
(* match changes nothing but, past the timeout, retires the wait.          *)
RecordSignal(s, targetVersion) ==
  LET timedOut == wait[s].kind = "approval" /\ wait[s].due
      matches  == /\ step[s].status = "waiting" /\ step[s].version = targetVersion
                  /\ wait[s].kind = "approval" /\ ~timedOut
  IN  /\ Active
      /\ \/ matches /\ MoveStep(s, "succeeded") /\ CloseWait(s, "resumed")
         \/ /\ ~matches /\ timedOut
            /\ wait[s].status = "waiting" /\ CloseWait(s, "stale")
            /\ IF step[s].status = "waiting" THEN MoveStep(s, "blocked") ELSE UNCHANGED step
      /\ UNCHANGED <<task, att, lease, run, ckpt, attn, granted>>

(***************************************************************************)
(* transitionStep: a Step without an open lease, by its scheduler or by    *)
(* the Activity.  requestable lists the moves some caller asks for.        *)
(***************************************************************************)
(* Mutant: a running Step can only complete. *)
RequestableButStop(s, from, to) ==
  \/ from = "pending" /\ to \in {"ready", "blocked", "skipped", "cancelled"}
  \/ from = "ready" /\ to \in {"blocked", "cancelled"}
  \/ from = "ready" /\ to = "running" /\ Kind[s] \in {"join", "timer"}
  \/ from = "running" /\ to \in {"succeeded", "blocked"} /\ Kind[s] \in {"join", "timer"}

Requestable(s, from, to) ==
  \/ from = "pending" /\ to \in {"ready", "blocked", "skipped", "cancelled"}
  \/ from = "ready" /\ to \in {"blocked", "cancelled"}
  \/ from = "ready" /\ to = "running" /\ Kind[s] \in {"join", "timer"}
  \/ from = "running" /\ to \in {"succeeded", "cancelled"} /\ Kind[s] \in {"join", "timer"}
  \/ from = "running" /\ to = "blocked" /\ Kind[s] = "timer"

TransitionStep(s, sv, from, to) ==
  /\ Requestable(s, from, to)
  /\ \/ Active
     \/ CancelPending /\ from = "running" /\ to = "cancelled"
  /\ step[s].status = from /\ step[s].version = sv
  /\ from = "running" => ~StepOwned(s)
  /\ to = "ready" => ~\E a \in AttemptsOf(s) : lease[a].state = "quarantined"
  /\ MoveStep(s, to)
  /\ UNCHANGED <<task, att, lease, wait, run, ckpt, attn, granted>>

(***************************************************************************)
(* The Task as a whole.                                                    *)
(***************************************************************************)
(* Mutant: no item for a blocked Step. *)
MarkOnlyFailure(s) ==
  /\ Active
  /\ step[s].status \in {"blocked", "failed"}
  /\ task' = [task EXCEPT !.status = IF @ = "REVIEW" THEN @ ELSE "WAITING_INPUT"]
  /\ attn' = IF step[s].status = "failed" THEN attn \cup {<<"task_failed", None>>} ELSE attn
  /\ UNCHANGED <<step, att, lease, wait, run, ckpt, granted>>

MarkTaskNeedsAttention(s) ==
  /\ Active
  /\ step[s].status \in {"blocked", "failed"}
  /\ task' = [task EXCEPT !.status = IF @ = "REVIEW" THEN @ ELSE "WAITING_INPUT"]
  /\ LET kind == IF step[s].status = "failed" THEN "task_failed" ELSE "worker_blocked"
     IN  attn' = IF \E x \in Attempts \cup {None} : <<kind, x>> \in attn
                 THEN attn ELSE attn \cup {<<kind, None>>}
  /\ UNCHANGED <<step, att, lease, wait, run, ckpt, granted>>

(* Mutant: only the root Step is looked at. *)
MarkRootReview ==
  /\ Active /\ task.status # "REVIEW"
  /\ step[Root].status = "succeeded"
  /\ ~AnyWaiting
  /\ \A a \in Attempts : ~Unresolved(a)
  /\ task' = [task EXCEPT !.status = "REVIEW"]
  /\ attn' = attn \cup {<<"task_review", None>>}
  /\ UNCHANGED <<step, att, lease, wait, run, ckpt, granted>>

(* Mutant: every lease counts, not only the open ones. *)
MarkUnleasedReview ==
  /\ Active /\ task.status # "REVIEW"
  /\ step[Root].status = "succeeded"
  /\ \A s \in Steps \ {Root} : step[s].status \in StepClosed
  /\ ~AnyWaiting
  /\ \A a \in Attempts : lease[a].state = "none"
  /\ task' = [task EXCEPT !.status = "REVIEW"]
  /\ attn' = attn \cup {<<"task_review", None>>}
  /\ UNCHANGED <<step, att, lease, wait, run, ckpt, granted>>

MarkTaskReview ==
  /\ Active /\ task.status # "REVIEW"
  /\ step[Root].status = "succeeded"
  /\ \A s \in Steps \ {Root} : step[s].status \in StepClosed
  /\ ~AnyWaiting
  /\ \A a \in Attempts : ~Unresolved(a)
  /\ task' = [task EXCEPT !.status = "REVIEW"]
  /\ attn' = attn \cup {<<"task_review", None>>}
  /\ UNCHANGED <<step, att, lease, wait, run, ckpt, granted>>

AcceptDurableTask ==
  /\ task.status = "REVIEW" /\ task.cancel = "none"
  /\ task' = [task EXCEPT !.status = "DONE"]
  /\ attn' = attn \ {<<"task_review", None>>}
  /\ UNCHANGED <<step, att, lease, wait, run, ckpt, granted>>

(* Mutants: a running Step is cancelled at once; the open waits are left. *)
EverythingStops == {"pending", "ready", "running", "waiting", "blocked", "review"}

CancelButWaits ==
  /\ Active
  /\ task' = [task EXCEPT !.cancel = "requested"]
  /\ step' = [s \in Steps |->
       IF step[s].status \in {"pending", "ready", "waiting", "blocked", "review"}
       THEN [step[s] EXCEPT !.status = "cancelled", !.version = @ + 1] ELSE step[s]]
  /\ UNCHANGED <<att, lease, wait, run, ckpt, attn, granted>>

(* Steps that have not begun, or have stopped, are cancelled at once; a    *)
(* running Step keeps its claim until its executor is known to have ended. *)
Stoppable == {"pending", "ready", "waiting", "blocked", "review"}

RequestDurableCancellation ==
  /\ Active
  /\ task' = [task EXCEPT !.cancel = "requested"]
  /\ wait' = [s \in Steps |-> IF wait[s].status = "waiting"
                              THEN [wait[s] EXCEPT !.status = "cancelled"] ELSE wait[s]]
  /\ step' = [s \in Steps |->
       IF step[s].status \in Stoppable
       THEN [step[s] EXCEPT !.status = "cancelled", !.version = @ + 1] ELSE step[s]]
  /\ UNCHANGED <<att, lease, run, ckpt, attn, granted>>

(* Mutant: a quarantined lease is not looked at. *)
SettleableQuarantined ==
  /\ \A s \in Steps : step[s].status # "running"
  /\ \A a \in Attempts : lease[a].state # "active"

Settleable == /\ \A s \in Steps : step[s].status # "running"
              /\ \A a \in Attempts : ~Unresolved(a)

SettleDurableCancellation ==
  /\ CancelPending /\ Settleable
  /\ task' = [task EXCEPT !.status = "CANCELED", !.cancel = "settled"]
  /\ attn' = {}
  /\ UNCHANGED <<step, att, lease, wait, run, ckpt, granted>>

(* Mutants: the Attempt's spelling is written to the Step; a claim without a *)
(* Run is not settled.                                                       *)
SettleCanceled(s, a, sv, lv) ==
  /\ CancelPending /\ Kind[s] \in RunKinds
  /\ HoldsClaim(s, a, sv, lv)
  /\ run[a] \notin RunLive
  /\ MoveStep(s, "canceled") /\ MoveAttempt(a, "canceled") /\ MoveLease(a, "released")
  /\ UNCHANGED <<task, wait, run, ckpt, attn, granted>>

SettleEndedRunCancellation(s, a, sv, lv) ==
  /\ CancelPending /\ Kind[s] \in RunKinds
  /\ HoldsClaim(s, a, sv, lv)
  /\ run[a] \in RunClosed
  /\ MoveStep(s, "cancelled") /\ MoveAttempt(a, "canceled") /\ MoveLease(a, "released")
  /\ UNCHANGED <<task, wait, run, ckpt, attn, granted>>

(* No Run, or a Run that has ended. *)
SettleClaimedStepCancellation(s, a, sv, lv) ==
  /\ CancelPending /\ Kind[s] \in RunKinds
  /\ HoldsClaim(s, a, sv, lv)
  /\ run[a] \notin RunLive
  /\ MoveStep(s, "cancelled") /\ MoveAttempt(a, "canceled") /\ MoveLease(a, "released")
  /\ UNCHANGED <<task, wait, run, ckpt, attn, granted>>

(* Mutant: the Run may still be executing. *)
SettleQuarantinedUnseen(s, a, sv, lv) ==
  /\ CancelPending /\ Kind[s] \in RunKinds
  /\ HoldsQuarantine(s, a, "cancelled", sv, lv)
  /\ MoveAttempt(a, "canceled") /\ MoveLease(a, "released")
  /\ UNCHANGED <<task, step, wait, run, ckpt, attn, granted>>

SettleQuarantinedReadOnlyStepCancellation(s, a, sv, lv) ==
  /\ CancelPending /\ Kind[s] \in RunKinds
  /\ HoldsQuarantine(s, a, "cancelled", sv, lv)
  /\ run[a] \notin RunLive
  /\ MoveAttempt(a, "canceled") /\ MoveLease(a, "released")
  /\ UNCHANGED <<task, step, wait, run, ckpt, attn, granted>>

(***************************************************************************)
(* Review of one Step.                                                     *)
(***************************************************************************)
(* Mutant: every Attempt of the Step is marked as accepted. *)
AcceptAllAttempts(s, a, sv) ==
  /\ Active
  /\ step[s].status = "review" /\ step[s].version = sv
  /\ ~StepOwned(s)
  /\ Latest(s, a) /\ att[a].status = "review"
  /\ MoveStep(s, "succeeded")
  /\ att' = [b \in Attempts |-> IF att[b].step = s THEN [att[b] EXCEPT !.status = "succeeded"]
                                                  ELSE att[b]]
  /\ UNCHANGED <<task, lease, wait, run, ckpt, attn, granted>>

AcceptDurableStep(s, a, sv) ==
  /\ Active
  /\ step[s].status = "review" /\ step[s].version = sv
  /\ ~StepOwned(s)
  /\ Latest(s, a) /\ att[a].status = "review"
  /\ MoveStep(s, "succeeded") /\ MoveAttempt(a, "succeeded")
  /\ UNCHANGED <<task, lease, wait, run, ckpt, attn, granted>>

ReworkDurableStep(s, a, sv) ==
  /\ Active
  /\ step[s].status = "review" /\ step[s].version = sv
  /\ ~StepOwned(s)
  /\ Latest(s, a) /\ att[a].status = "review"
  /\ step' = [step EXCEPT ![s].status = "ready", ![s].version = @ + 1,
                          ![s].base = att[a].num,
                          ![s].gen = IF Kind[s] = "write" THEN @ + 1 ELSE @]
  /\ task' = [task EXCEPT !.status =
                IF @ \in {"WAITING_INPUT", "REVIEW"} THEN "RUNNING" ELSE @]
  /\ UNCHANGED <<att, lease, wait, run, ckpt, attn, granted>>

(***************************************************************************)
(* Internal Runs (ConversationStore, lifecycle and RunService).            *)
(***************************************************************************)
ClaimIsLive(a) ==
  /\ task.status = "RUNNING" /\ task.cancel = "none"
  /\ att[a].step \in Steps /\ att[a].status = "running"
  /\ step[att[a].step].status = "running"
  /\ lease[a].state = "active" /\ ~lease[a].expired

(* The lease version is not checked: an existing Run is returned as it is. *)
CreateInternalStepRun(a) ==
  /\ granted /\ ClaimIsLive(a)
  /\ run[a] = "none"
  /\ run' = [run EXCEPT ![a] = "queued"]
  /\ UNCHANGED <<task, step, att, lease, wait, ckpt, attn, granted>>

RunTransitions ==
  [from \in RunLive |->
     CASE from = "queued"  -> {"running", "interrupted"}
       [] from = "running" -> {"cancelling"} \cup RunClosed
       [] OTHER            -> RunClosed]

(* A move of the Run lifecycle.  The Run of a Task is cancelled, before or   *)
(* while it runs, only for the cancellation of the Task.                     *)
MoveRun(a, to) ==
  /\ run[a] \in RunLive /\ to \in RunTransitions[run[a]]
  /\ to = "cancelling" \/ (run[a] = "queued" /\ to = "interrupted") => task.cancel # "none"
  /\ run' = [run EXCEPT ![a] = to]
  /\ UNCHANGED <<task, step, att, lease, wait, ckpt, attn, granted>>

(* lifecycle.recover, before a restarted server does anything else. *)
RecoverRuns ==
  /\ run' = [a \in Attempts |-> IF run[a] \in {"running", "cancelling"}
                                THEN "interrupted" ELSE run[a]]
  /\ UNCHANGED <<task, step, att, lease, wait, ckpt, attn, granted>>

(* writeClaimedCheckpoint: at most one per operation generation.  It renews *)
(* the heartbeat without a new lease version.                               *)
WriteClaimedCheckpoint(a) ==
  /\ granted /\ Active
  /\ att[a].step \in Steps /\ att[a].status = "running"
  /\ LET s == att[a].step
     IN  /\ Kind[s] = "write" /\ step[s].status = "running"
         /\ run[a] = "running"
         /\ lease[a].state = "active" /\ ~lease[a].expired
         /\ ~Applied(s)
         /\ ckpt' = ckpt \cup {<<s, step[s].gen, a>>}
  /\ UNCHANGED <<task, step, att, lease, wait, run, attn, granted>>

(***************************************************************************)
(* What happens around the store: time passes, the owner edits grants.     *)
(***************************************************************************)
LeaseExpires(a) ==
  /\ lease[a].state = "active" /\ ~lease[a].expired
  /\ lease' = [lease EXCEPT ![a].expired = TRUE]
  /\ UNCHANGED <<task, step, att, wait, run, ckpt, attn, granted>>

WaitFallsDue(s) ==
  /\ wait[s].status = "waiting" /\ ~wait[s].due
  /\ wait' = [wait EXCEPT ![s].due = TRUE]
  /\ UNCHANGED <<task, step, att, lease, run, ckpt, attn, granted>>

ChangeGrant ==
  /\ granted' = ~granted
  /\ UNCHANGED <<task, step, att, lease, wait, run, ckpt, attn>>

(***************************************************************************)
(* createGraph leaves the Task NEW and every Step pending.                 *)
(***************************************************************************)
Init ==
  /\ task = [status |-> "NEW", cancel |-> "none", last |-> 0]
  /\ step = [s \in Steps |-> [status |-> "pending", version |-> 1, gen |-> 1, base |-> 0]]
  /\ att = [a \in Attempts |-> [step |-> None, num |-> 0, status |-> "unused"]]
  /\ lease = [a \in Attempts |-> [state |-> "none", version |-> 0, expired |-> FALSE]]
  /\ wait = [s \in Steps |-> [gen |-> 0, kind |-> "none", status |-> "none", due |-> FALSE]]
  /\ run = [a \in Attempts |-> "none"]
  /\ ckpt = {} /\ attn = {} /\ granted = TRUE

SettleNext ==
  \E s \in Steps, a \in Attempts :
    \/ \E outcome \in {"review", "failed", "unknown"} :
         SettleClaimedStep(s, a, step[s].version, lease[a].version, outcome)
    \/ ScheduleClaimedStepRetry(s, a, step[s].version, lease[a].version)
    \/ ReconcileQuarantinedStep(s, a, step[s].version, lease[a].version)
    \/ SettleClaimedStepCancellation(s, a, step[s].version, lease[a].version)
    \/ SettleQuarantinedReadOnlyStepCancellation(s, a, step[s].version, lease[a].version)

StepNext ==
  \E s \in Steps :
    \/ CreateWait(s, step[s].version)
    \/ FireDueWait(s, step[s].version)
    \/ RecordSignal(s, step[s].version)
    \/ \E to \in StepStatus : TransitionStep(s, step[s].version, step[s].status, to)
    \/ MarkTaskNeedsAttention(s)
    \/ \E a \in Attempts : \/ ClaimReadyStep(s, a, step[s].version)
                           \/ AcceptDurableStep(s, a, step[s].version)
                           \/ ReworkDurableStep(s, a, step[s].version)
    \/ WaitFallsDue(s)

RunNext ==
  \E a \in Attempts :
    \/ Heartbeat(a, lease[a].version)
    \/ CreateInternalStepRun(a)
    \/ \E to \in RunLive \cup RunClosed : MoveRun(a, to)
    \/ WriteClaimedCheckpoint(a)
    \/ LeaseExpires(a)

TaskNext ==
  \/ MarkTaskReview \/ AcceptDurableTask
  \/ RequestDurableCancellation \/ SettleDurableCancellation
  \/ RecoverRuns \/ ChangeGrant

StoreNext == SettleNext \/ StepNext \/ RunNext \/ TaskNext
StoreSpec == Init /\ [][StoreNext]_storeVars

(***************************************************************************)
(* What the store promises, whoever calls it and in whatever order.        *)
(***************************************************************************)

OneOpenOutcome ==
  \A a, b \in Attempts :
    Unresolved(a) /\ Unresolved(b) /\ att[a].step = att[b].step => a = b

OwnerIsLatest ==
  \A a \in Attempts : Unresolved(a) => att[a].step \in Steps /\ Latest(att[a].step, a)

ActiveOwnerRuns ==
  \A a \in Attempts : lease[a].state = "active" =>
    att[a].status = "running" /\ step[att[a].step].status = "running"

QuarantineIsHeld ==
  \A a \in Attempts : lease[a].state = "quarantined" =>
    /\ att[a].status = "waiting_input"
    /\ \/ step[att[a].step].status = "blocked"
       \/ task.cancel # "none" /\ step[att[a].step].status = "cancelled"

RunningStepIsOwned ==
  \A s \in Steps : step[s].status = "running" /\ Kind[s] \in RunKinds =>
    \E a \in AttemptsOf(s) : lease[a].state = "active"

(* An open outcome has one owner.  No Step has two Attempts whose outcome   *)
(* is open; an active lease belongs to the running latest Attempt of a      *)
(* running Step; a quarantined one to the latest Attempt, waiting for input,*)
(* of a Step that is blocked, or cancelled by the owner; and a running      *)
(* Model or Tool Step is never left without its lease.                      *)
OneOwnerPerStep ==
  /\ OneOpenOutcome
  /\ OwnerIsLatest
  /\ ActiveOwnerRuns
  /\ QuarantineIsHeld
  /\ RunningStepIsOwned

(* A Step is waiting exactly while it has an open durable wait, so no timer *)
(* or signal is left that could move a Step which has moved on.             *)
WaitsFollowSteps ==
  \A s \in Steps : (step[s].status = "waiting") <=> (wait[s].status = "waiting")

(* Once a cancellation is requested nothing new starts and no wait stays    *)
(* open; once it is settled every Step is closed, no outcome is open, and   *)
(* no attention item asks the owner about it.                               *)
CancelledTaskIsQuiet ==
  /\ task.cancel # "none" =>
       \A s \in Steps : /\ step[s].status \in StepClosed \cup {"running"}
                        /\ wait[s].status # "waiting"
  /\ task.cancel = "settled" =>
       /\ \A s \in Steps : step[s].status \in StepClosed
       /\ \A a \in Attempts : ~Unresolved(a)
       /\ attn = {}

(* A Task offered for review, or accepted, has no work left open: its root  *)
(* succeeded, every other Step is closed, nothing waits and no Attempt is   *)
(* running or undecided.                                                    *)
ReviewedTaskIsComplete ==
  task.status \in {"REVIEW", "DONE"} =>
    /\ step[Root].status = "succeeded"
    /\ \A s \in Steps : step[s].status \in StepClosed
    /\ ~AnyWaiting
    /\ \A a \in Attempts : ~Unresolved(a)

(* The Task-level worker_blocked attention item of an active Task is        *)
(* warranted: some Step of the Task is blocked.                             *)
AttentionIsWarranted == Active /\ TaskAttn \in attn => \E s \in Steps : step[s].status = "blocked"

(* A ready Step has an Attempt left to claim: neither a retry nor a rework  *)
(* leaves a Step on which every claim would throw.                          *)
ReadyCanBeClaimed ==
  \A s \in Steps : step[s].status = "ready" => Cardinality(CycleAttempts(s)) < MaxAttempts[s]

(* What was decided stays decided: an ended Attempt keeps its outcome and a *)
(* released lease is never taken up again; an Attempt is accepted only from *)
(* review.                                                                  *)
DecisionsAreFinal ==
  [][\A a \in Attempts :
       /\ att[a].status \in {"succeeded", "failed", "canceled"} => att'[a] = att[a]
       /\ lease[a].state = "released" => lease'[a] = lease[a]
       /\ att'[a].status = "succeeded" => att[a].status \in {"review", "succeeded"}]_storeVars

(* Quarantine ends on evidence, whoever ends it and however late: only when  *)
(* no Run of the Attempt can still execute, as accepted or failed work only  *)
(* when the original Run, or the checkpoint of a write, says so.  And the    *)
(* absence of a Run is evidence: once the claim is no longer active none is  *)
(* ever created.                                                             *)
Evidence(a) ==
  IF Kind[att[a].step] = "write"
  THEN IF Applied(att[a].step) THEN "review" ELSE "failed"
  ELSE IF run[a] = "succeeded" THEN "review" ELSE run[a]
QuarantineEndsOnEvidence ==
  [][\A a \in Attempts :
       /\ lease[a].state = "quarantined" /\ lease'[a].state # "quarantined" =>
            /\ run[a] \notin RunLive
            /\ att'[a].status \in {Evidence(a), "canceled"}
       /\ lease[a].state \in {"quarantined", "released"} /\ run[a] = "none" =>
            run'[a] = "none"]_storeVars

=============================================================================
