------------------------ MODULE LongWorkStoreProofs ------------------------
(***************************************************************************)
(* The store keeps its promises for every Task graph, every number of      *)
(* Attempts and every sequence of calls.                                   *)
(***************************************************************************)
EXTENDS LongWorkStore, FiniteSetTheorems, TLAPS

(***************************************************************************)
(* Type correctness.                                                       *)
(***************************************************************************)
LEMMA InitTypeOK == Init => TypeOK
  BY ParametersAssumption DEF Init, TypeOK, TaskStatus, StepStatus, AttStatus, AttnKinds

LEMMA SettleTypeOK == TypeOK /\ SettleNext => TypeOK'
<1> SUFFICES ASSUME TypeOK, NEW s \in Steps, NEW a \in Attempts,
                    \/ \E outcome \in {"review", "failed", "unknown"} :
                         SettleClaimedStep(s, a, step[s].version, lease[a].version, outcome)
                    \/ ScheduleClaimedStepRetry(s, a, step[s].version, lease[a].version)
                    \/ ResolveQuarantinedRunStep(s, a, step[s].version, lease[a].version)
                    \/ ReconcileQuarantinedCheckpointStep(s, a, step[s].version, lease[a].version)
                    \/ SettleClaimedStepCancellation(s, a, step[s].version, lease[a].version)
                    \/ SettleQuarantinedReadOnlyStepCancellation(s, a, step[s].version, lease[a].version)
             PROVE  TypeOK'
  BY DEF SettleNext, ReconcileQuarantinedStep
<1> USE DEF MoveStep, MoveAttempt, MoveLease, TypeOK, StepStatus, AttStatus
<1>1. ASSUME NEW outcome \in {"review", "failed", "unknown"},
             SettleClaimedStep(s, a, step[s].version, lease[a].version, outcome)
      PROVE  TypeOK'
  BY <1>1 DEF SettleClaimedStep
<1>2. CASE ScheduleClaimedStepRetry(s, a, step[s].version, lease[a].version)
  BY <1>2 DEF ScheduleClaimedStepRetry, OpenWait
<1>3. CASE ResolveQuarantinedRunStep(s, a, step[s].version, lease[a].version)
  BY <1>3 DEF ResolveQuarantinedRunStep, ResolvedWith, TaskStatus
<1>4. CASE ReconcileQuarantinedCheckpointStep(s, a, step[s].version, lease[a].version)
  BY <1>4 DEF ReconcileQuarantinedCheckpointStep, ResolvedWith, TaskStatus, OpenWait
<1>5. CASE SettleClaimedStepCancellation(s, a, step[s].version, lease[a].version)
  BY <1>5 DEF SettleClaimedStepCancellation
<1>6. CASE SettleQuarantinedReadOnlyStepCancellation(s, a, step[s].version, lease[a].version)
  BY <1>6 DEF SettleQuarantinedReadOnlyStepCancellation
<1> QED
  BY <1>1, <1>2, <1>3, <1>4, <1>5, <1>6

LEMMA StepTypeOK == TypeOK /\ StepNext => TypeOK'
<1> SUFFICES ASSUME TypeOK, StepNext PROVE TypeOK'
  OBVIOUS
<1> USE DEF MoveStep, MoveAttempt, MoveLease, TypeOK, StepStatus
<1>1. ASSUME NEW s \in Steps, CreateWait(s, step[s].version) PROVE TypeOK'
  <2>1. step' \in [Steps -> [status : StepStatus, version : Nat, gen : Nat, base : Nat]]
    BY <1>1 DEF CreateWait
  <2>2. Kind[s] \in {"timer", "approval"}
    BY <1>1 DEF CreateWait, WaitKinds
  <2>3. wait' \in [Steps -> [gen : Nat, kind : {"none", "retry", "timer", "approval"},
                            status : {"none", "waiting", "resumed", "cancelled", "stale"},
                            due : BOOLEAN]]
    BY <1>1, <2>2 DEF CreateWait, OpenWait
  <2> QED
    BY <1>1, <2>1, <2>3 DEF CreateWait
<1>2. ASSUME NEW s \in Steps, FireDueWait(s, step[s].version) PROVE TypeOK'
  BY <1>2 DEF FireDueWait, CloseWait
<1>3. ASSUME NEW s \in Steps, RecordSignal(s, step[s].version) PROVE TypeOK'
  <2>1. /\ step' = step \/ MoveStep(s, "succeeded") \/ MoveStep(s, "blocked")
        /\ CloseWait(s, "resumed") \/ CloseWait(s, "stale")
        /\ UNCHANGED <<task, att, lease, run, ckpt, attn, granted>>
    BY <1>3 DEF RecordSignal
  <2>2. step' \in [Steps -> [status : StepStatus, version : Nat, gen : Nat, base : Nat]]
    BY <2>1
  <2>3. wait' \in [Steps -> [gen : Nat, kind : {"none", "retry", "timer", "approval"},
                            status : {"none", "waiting", "resumed", "cancelled", "stale"},
                            due : BOOLEAN]]
    <3>1. PICK status \in {"resumed", "stale"} : wait' = [wait EXCEPT ![s].status = status]
      BY <2>1 DEF CloseWait
    <3> QED
      BY <3>1
  <2> QED
    BY <2>1, <2>2, <2>3
<1>4. ASSUME NEW s \in Steps, NEW to \in StepStatus,
             TransitionStep(s, step[s].version, step[s].status, to)
      PROVE  TypeOK'
  BY <1>4 DEF TransitionStep
<1>5. ASSUME NEW s \in Steps, MarkTaskNeedsAttention(s) PROVE TypeOK'
  <2>1. task' \in [status : TaskStatus, cancel : {"none", "requested", "settled"}, last : Nat]
    BY <1>5 DEF MarkTaskNeedsAttention, TaskStatus
  <2>2. PICK kind \in AttnKinds : attn' \in {attn, attn \cup {<<kind, None>>}}
    BY <1>5 DEF MarkTaskNeedsAttention, AttnKinds
  <2>3. attn' \subseteq AttnKinds \X (Attempts \cup {None})
    BY <2>2
  <2> QED
    BY <1>5, <2>1, <2>3 DEF MarkTaskNeedsAttention
<1>6. ASSUME NEW s \in Steps, NEW a \in Attempts, ClaimReadyStep(s, a, step[s].version)
      PROVE  TypeOK'
  BY <1>6 DEF ClaimReadyStep, TaskStatus, AttStatus
<1>7. ASSUME NEW s \in Steps, NEW a \in Attempts, AcceptDurableStep(s, a, step[s].version)
      PROVE  TypeOK'
  BY <1>7 DEF AcceptDurableStep, AttStatus
<1>8. ASSUME NEW s \in Steps, NEW a \in Attempts, ReworkDurableStep(s, a, step[s].version)
      PROVE  TypeOK'
  BY <1>8 DEF ReworkDurableStep, TaskStatus
<1>9. ASSUME NEW s \in Steps, WaitFallsDue(s) PROVE TypeOK'
  BY <1>9 DEF WaitFallsDue
<1> QED
  BY <1>1, <1>2, <1>3, <1>4, <1>5, <1>6, <1>7, <1>8, <1>9 DEF StepNext

LEMMA RunTypeOK == TypeOK /\ RunNext => TypeOK'
<1> SUFFICES ASSUME TypeOK, NEW a \in Attempts,
                    \/ Heartbeat(a, lease[a].version)
                    \/ CreateInternalStepRun(a)
                    \/ \E to \in RunLive \cup RunClosed : MoveRun(a, to)
                    \/ WriteClaimedCheckpoint(a)
                    \/ LeaseExpires(a)
             PROVE  TypeOK'
  BY DEF RunNext
<1> USE DEF TypeOK
<1>1. CASE Heartbeat(a, lease[a].version)
  BY <1>1 DEF Heartbeat
<1>2. CASE CreateInternalStepRun(a)
  BY <1>2 DEF CreateInternalStepRun, RunLive
<1>3. ASSUME NEW to \in RunLive \cup RunClosed, MoveRun(a, to) PROVE TypeOK'
  BY <1>3 DEF MoveRun
<1>4. CASE WriteClaimedCheckpoint(a)
  <2> DEFINE s == att[a].step
  <2>1. /\ s \in Steps /\ step[s].gen \in Nat
        /\ ckpt' = ckpt \cup {<<s, step[s].gen, a>>}
    BY <1>4 DEF WriteClaimedCheckpoint
  <2>2. ckpt' \subseteq Steps \X Nat \X Attempts
    BY <2>1
  <2> QED
    BY <1>4, <2>2 DEF WriteClaimedCheckpoint
<1>5. CASE LeaseExpires(a)
  <2>1. lease' \in [Attempts -> [state : {"none", "active", "released", "quarantined"},
                                 version : Nat, expired : BOOLEAN]]
    BY <1>5 DEF LeaseExpires
  <2> QED
    BY <1>5, <2>1 DEF LeaseExpires
<1> QED
  BY <1>1, <1>2, <1>3, <1>4, <1>5

LEMMA CancelledRecord ==
  ASSUME NEW r \in [status : StepStatus, version : Nat, gen : Nat, base : Nat], NEW v \in Nat
  PROVE  LET q == [r EXCEPT !.status = "cancelled", !.version = v]
         IN  /\ q \in [status : StepStatus, version : Nat, gen : Nat, base : Nat]
             /\ q.status = "cancelled" /\ q.base = r.base
  BY DEF StepStatus

LEMMA TaskTypeOK == TypeOK /\ TaskNext => TypeOK'
<1> SUFFICES ASSUME TypeOK, TaskNext PROVE TypeOK'
  OBVIOUS
<1> USE DEF TypeOK, TaskStatus
<1>1. CASE MarkTaskReview
  BY <1>1 DEF MarkTaskReview, AttnKinds
<1>2. CASE AcceptDurableTask
  BY <1>2 DEF AcceptDurableTask
<1>3. CASE RequestDurableCancellation
  <2>1. task' \in [status : TaskStatus, cancel : {"none", "requested", "settled"}, last : Nat]
    BY <1>3 DEF RequestDurableCancellation
  <2>2. step' \in [Steps -> [status : StepStatus, version : Nat, gen : Nat, base : Nat]]
    <3>1. ASSUME NEW s \in Steps
          PROVE  step'[s] \in [status : StepStatus, version : Nat, gen : Nat, base : Nat]
      <4>1. step[s].version + 1 \in Nat
        OBVIOUS
      <4>2. step'[s] \in {step[s], [step[s] EXCEPT !.status = "cancelled", !.version = @ + 1]}
        BY <1>3 DEF RequestDurableCancellation
      <4>3. [step[s] EXCEPT !.status = "cancelled", !.version = @ + 1]
               \in [status : StepStatus, version : Nat, gen : Nat, base : Nat]
        BY <4>1, CancelledRecord
      <4> QED
        BY <4>2, <4>3
    <3> QED
      BY <1>3, <3>1 DEF RequestDurableCancellation
  <2>3. wait' \in [Steps -> [gen : Nat, kind : {"none", "retry", "timer", "approval"},
                            status : {"none", "waiting", "resumed", "cancelled", "stale"},
                            due : BOOLEAN]]
    BY <1>3 DEF RequestDurableCancellation
  <2> QED
    BY <1>3, <2>1, <2>2, <2>3 DEF RequestDurableCancellation
<1>4. CASE SettleDurableCancellation
  BY <1>4 DEF SettleDurableCancellation
<1>5. CASE RecoverRuns
  BY <1>5 DEF RecoverRuns, RunLive, RunClosed
<1>6. CASE ChangeGrant
  BY <1>6 DEF ChangeGrant
<1> QED
  BY <1>1, <1>2, <1>3, <1>4, <1>5, <1>6 DEF TaskNext

LEMMA StepsKeepTypeOK == TypeOK /\ [StoreNext]_storeVars => TypeOK'
<1>1. TypeOK /\ UNCHANGED storeVars => TypeOK'
  BY DEF TypeOK, storeVars
<1> QED
  BY <1>1, SettleTypeOK, StepTypeOK, RunTypeOK, TaskTypeOK DEF StoreNext

(* Every state the store can reach is well typed. *)
THEOREM TypeCorrect == StoreSpec => []TypeOK
<1> QED
  BY InitTypeOK, StepsKeepTypeOK, PTL DEF StoreSpec

(***************************************************************************)
(* The inductive invariant.  The safety properties support each other: a   *)
(* Step is reviewed only when no lease is open, and a lease stays with its *)
(* Step because no call moves a Step that is owned.  Besides them only the *)
(* numbering of Attempts is needed: a claim takes an Attempt nobody used   *)
(* and numbers it after all others, so it is the latest of its Step.       *)
(***************************************************************************)
Numbering ==
  \A a \in Attempts :
    /\ att[a].num <= task.last
    /\ att[a].status = "unused" => att[a].step = None /\ lease[a].state = "none"

IInv ==
  /\ TypeOK
  /\ Numbering
  /\ OneOwnerPerStep
  /\ WaitsFollowSteps
  /\ CancelledTaskIsQuiet
  /\ ReviewedTaskIsComplete

LEMMA InitIInv == Init => IInv
<1> SUFFICES ASSUME Init PROVE IInv
  OBVIOUS
<1>1. TypeOK
  BY InitTypeOK
<1>2. Numbering
  BY DEF Init, Numbering
<1>3. OneOwnerPerStep
  BY DEF Init, OneOwnerPerStep, OneOpenOutcome, OwnerIsLatest, ActiveOwnerRuns, QuarantineIsHeld,
         RunningStepIsOwned, Unresolved
<1>4. WaitsFollowSteps /\ CancelledTaskIsQuiet
  BY DEF Init, WaitsFollowSteps, CancelledTaskIsQuiet
<1>5. ReviewedTaskIsComplete
  BY DEF Init, ReviewedTaskIsComplete
<1> QED
  BY <1>1, <1>2, <1>3, <1>4, <1>5 DEF IInv

(* What a cancellation request does to the status of a Step and its wait. *)
LEMMA RequestedStatus ==
  ASSUME TypeOK, RequestDurableCancellation, NEW s \in Steps
  PROVE  /\ step'[s].status = IF step[s].status \in Stoppable THEN "cancelled" ELSE step[s].status
         /\ step'[s].base = step[s].base
         /\ wait'[s].status = IF wait[s].status = "waiting" THEN "cancelled" ELSE wait[s].status
<1>1. step[s].version + 1 \in Nat
  BY DEF TypeOK
<1>2. step[s] \in [status : StepStatus, version : Nat, gen : Nat, base : Nat]
  BY DEF TypeOK
<1>3. step'[s] = IF step[s].status \in Stoppable
                 THEN [step[s] EXCEPT !.status = "cancelled", !.version = @ + 1] ELSE step[s]
  BY DEF RequestDurableCancellation
<1>4. /\ step'[s].status = IF step[s].status \in Stoppable THEN "cancelled" ELSE step[s].status
      /\ step'[s].base = step[s].base
  BY <1>1, <1>2, <1>3, CancelledRecord
<1>5. wait'[s].status = IF wait[s].status = "waiting" THEN "cancelled" ELSE wait[s].status
  BY DEF RequestDurableCancellation, TypeOK
<1> QED
  BY <1>4, <1>5

(* Whoever moves a waiting Step closes its wait, and whoever opens a wait *)
(* moves its Step to waiting.                                             *)
LEMMA WaitsKept == IInv /\ StoreNext => WaitsFollowSteps'
<1> SUFFICES ASSUME IInv, StoreNext PROVE WaitsFollowSteps'
  OBVIOUS
<1> USE DEF IInv, TypeOK, WaitsFollowSteps, MoveStep, OpenWait, CloseWait
<1>1. ASSUME NEW s \in Steps, NEW a \in Attempts, NEW outcome \in {"review", "failed", "unknown"},
             SettleClaimedStep(s, a, step[s].version, lease[a].version, outcome)
      PROVE  WaitsFollowSteps'
  BY <1>1 DEF SettleClaimedStep, HoldsClaim
<1>2. ASSUME NEW s \in Steps, NEW a \in Attempts,
             ScheduleClaimedStepRetry(s, a, step[s].version, lease[a].version)
      PROVE  WaitsFollowSteps'
  BY <1>2 DEF ScheduleClaimedStepRetry
<1>3. ASSUME NEW s \in Steps, NEW a \in Attempts,
             ResolveQuarantinedRunStep(s, a, step[s].version, lease[a].version)
      PROVE  WaitsFollowSteps'
  BY <1>3 DEF ResolveQuarantinedRunStep, HoldsQuarantine
<1>4. ASSUME NEW s \in Steps, NEW a \in Attempts,
             ReconcileQuarantinedCheckpointStep(s, a, step[s].version, lease[a].version)
      PROVE  WaitsFollowSteps'
  BY <1>4 DEF ReconcileQuarantinedCheckpointStep, HoldsQuarantine
<1>5. ASSUME NEW s \in Steps, NEW a \in Attempts,
             SettleClaimedStepCancellation(s, a, step[s].version, lease[a].version)
      PROVE  WaitsFollowSteps'
  BY <1>5 DEF SettleClaimedStepCancellation, HoldsClaim
<1>6. ASSUME NEW s \in Steps, CreateWait(s, step[s].version)
      PROVE  WaitsFollowSteps'
  BY <1>6 DEF CreateWait
<1>7. ASSUME NEW s \in Steps, FireDueWait(s, step[s].version)
      PROVE  WaitsFollowSteps'
  BY <1>7 DEF FireDueWait
<1>8. ASSUME NEW s \in Steps, RecordSignal(s, step[s].version)
      PROVE  WaitsFollowSteps'
  BY <1>8 DEF RecordSignal
<1>9. ASSUME NEW s \in Steps, NEW to \in StepStatus,
             TransitionStep(s, step[s].version, step[s].status, to)
      PROVE  WaitsFollowSteps'
  BY <1>9 DEF TransitionStep, Requestable
<1>10. ASSUME NEW s \in Steps, NEW a \in Attempts, ClaimReadyStep(s, a, step[s].version)
      PROVE  WaitsFollowSteps'
  BY <1>10 DEF ClaimReadyStep
<1>11. ASSUME NEW s \in Steps, NEW a \in Attempts,
             \/ AcceptDurableStep(s, a, step[s].version)
             \/ ReworkDurableStep(s, a, step[s].version)
      PROVE  WaitsFollowSteps'
  BY <1>11 DEF AcceptDurableStep, ReworkDurableStep
<1>12. ASSUME NEW s \in Steps, WaitFallsDue(s)
      PROVE  WaitsFollowSteps'
  BY <1>12 DEF WaitFallsDue
<1>13. CASE RequestDurableCancellation
  <2>1. ASSUME NEW s \in Steps
        PROVE  step'[s].status # "waiting" /\ wait'[s].status # "waiting"
    BY <1>13, RequestedStatus DEF Stoppable
  <2> QED
    BY <2>1
<1>14. CASE UNCHANGED <<step, wait>>
  BY <1>14
<1> QED
  <2>1. SettleNext => WaitsFollowSteps'
    BY <1>1, <1>2, <1>3, <1>4, <1>5, <1>14
       DEF SettleNext, ReconcileQuarantinedStep, SettleQuarantinedReadOnlyStepCancellation
  <2>2. StepNext => WaitsFollowSteps'
    BY <1>6, <1>7, <1>8, <1>9, <1>10, <1>11, <1>12, <1>14 DEF StepNext, MarkTaskNeedsAttention
  <2>3. RunNext => UNCHANGED <<step, wait>>
    BY DEF RunNext, Heartbeat, CreateInternalStepRun, MoveRun, WriteClaimedCheckpoint, LeaseExpires
  <2>4. TaskNext => WaitsFollowSteps'
    BY <1>13, <1>14 DEF TaskNext, MarkTaskReview, AcceptDurableTask, SettleDurableCancellation,
                        RecoverRuns, ChangeGrant
  <2> QED
    BY <1>14, <2>1, <2>2, <2>3, <2>4 DEF StoreNext

(* An Attempt is numbered once, by its claim; no number is above the last. *)
LEMMA NumberingKept == IInv /\ StoreNext => Numbering'
<1> SUFFICES ASSUME IInv, StoreNext PROVE Numbering'
  OBVIOUS
<1> USE DEF IInv, TypeOK, Numbering, MoveAttempt, MoveLease
<1>1. ASSUME NEW s \in Steps, NEW a \in Attempts, NEW outcome \in {"review", "failed", "unknown"},
             SettleClaimedStep(s, a, step[s].version, lease[a].version, outcome)
      PROVE  Numbering'
  BY <1>1 DEF SettleClaimedStep, HoldsClaim
<1>2. ASSUME NEW s \in Steps, NEW a \in Attempts,
             ScheduleClaimedStepRetry(s, a, step[s].version, lease[a].version)
      PROVE  Numbering'
  BY <1>2 DEF ScheduleClaimedStepRetry, HoldsClaim
<1>3. ASSUME NEW s \in Steps, NEW a \in Attempts,
             ResolveQuarantinedRunStep(s, a, step[s].version, lease[a].version)
      PROVE  Numbering'
  BY <1>3 DEF ResolveQuarantinedRunStep, HoldsQuarantine
<1>4. ASSUME NEW s \in Steps, NEW a \in Attempts,
             ReconcileQuarantinedCheckpointStep(s, a, step[s].version, lease[a].version)
      PROVE  Numbering'
  BY <1>4 DEF ReconcileQuarantinedCheckpointStep, HoldsQuarantine
<1>5. ASSUME NEW s \in Steps, NEW a \in Attempts,
             SettleClaimedStepCancellation(s, a, step[s].version, lease[a].version)
      PROVE  Numbering'
  BY <1>5 DEF SettleClaimedStepCancellation, HoldsClaim
<1>6. ASSUME NEW s \in Steps, NEW a \in Attempts,
             SettleQuarantinedReadOnlyStepCancellation(s, a, step[s].version, lease[a].version)
      PROVE  Numbering'
  BY <1>6 DEF SettleQuarantinedReadOnlyStepCancellation, HoldsQuarantine
<1>7. ASSUME NEW s \in Steps, MarkTaskNeedsAttention(s)
      PROVE  Numbering'
  BY <1>7 DEF MarkTaskNeedsAttention
<1>8. ASSUME NEW s \in Steps, NEW a \in Attempts, ClaimReadyStep(s, a, step[s].version)
      PROVE  Numbering'
  BY <1>8 DEF ClaimReadyStep, CycleAttempts
<1>9. ASSUME NEW s \in Steps, NEW a \in Attempts,
             AcceptDurableStep(s, a, step[s].version)
      PROVE  Numbering'
  BY <1>9 DEF AcceptDurableStep
<1>10. ASSUME NEW s \in Steps, NEW a \in Attempts,
             ReworkDurableStep(s, a, step[s].version)
      PROVE  Numbering'
  BY <1>10 DEF ReworkDurableStep
<1>11. ASSUME NEW a \in Attempts, Heartbeat(a, lease[a].version)
      PROVE  Numbering'
  BY <1>11 DEF Heartbeat
<1>12. ASSUME NEW a \in Attempts, LeaseExpires(a)
      PROVE  Numbering'
  BY <1>12 DEF LeaseExpires
<1>13. CASE MarkTaskReview
  BY <1>13 DEF MarkTaskReview
<1>14. CASE AcceptDurableTask
  BY <1>14 DEF AcceptDurableTask
<1>15. CASE RequestDurableCancellation
  BY <1>15 DEF RequestDurableCancellation, Stoppable
<1>16. CASE SettleDurableCancellation
  BY <1>16 DEF SettleDurableCancellation, Settleable
<1>17. CASE UNCHANGED <<task, att, lease>>
  BY <1>17
<1> QED
  <2>1. SettleNext => Numbering'
    BY <1>1, <1>2, <1>3, <1>4, <1>5, <1>6, <1>17 DEF SettleNext, ReconcileQuarantinedStep
  <2>2. StepNext => Numbering'
    BY <1>7, <1>8, <1>9, <1>10, <1>17 DEF StepNext, CreateWait, FireDueWait, RecordSignal, TransitionStep, WaitFallsDue
  <2>3. RunNext => Numbering'
    BY <1>11, <1>12, <1>17 DEF RunNext, CreateInternalStepRun, MoveRun, WriteClaimedCheckpoint
  <2>4. TaskNext => Numbering'
    BY <1>13, <1>14, <1>15, <1>16, <1>17 DEF TaskNext, RecoverRuns, ChangeGrant
  <2> QED
    BY <2>1, <2>2, <2>3, <2>4 DEF StoreNext

(* The two ways in which a Step moves: without an owner, or with its lease  *)
(* released in the same transaction.                                        *)
LEMMA UnownedMove ==
  ASSUME IInv, NEW s \in Steps, NEW to \in StepStatus,
         step[s].status \in {"pending", "ready", "waiting", "review"},
         to # "running" \/ Kind[s] \notin RunKinds,
         MoveStep(s, to), UNCHANGED <<task, att, lease>>
  PROVE  OneOwnerPerStep'
<1>1. \A a \in Attempts : Unresolved(a) => att[a].step # s
  BY DEF IInv, OneOwnerPerStep, OwnerIsLatest, ActiveOwnerRuns, QuarantineIsHeld, Unresolved
<1> QED
  BY <1>1 DEF IInv, TypeOK, OneOwnerPerStep, OneOpenOutcome, OwnerIsLatest, ActiveOwnerRuns,
              QuarantineIsHeld, RunningStepIsOwned, Unresolved, Latest, AttemptsOf, MoveStep

LEMMA OwnerLeaves ==
  ASSUME IInv, NEW s \in Steps, NEW a \in Attempts,
         Unresolved(a), att[a].step = s,
         task'.cancel = task.cancel,
         lease'[a].state = "released",
         step'[s].status # "running",
         \A t \in Steps \ {s} : step'[t] = step[t],
         \A b \in Attempts : att'[b].step = att[b].step /\ att'[b].num = att[b].num,
         \A b \in Attempts \ {a} : att'[b] = att[b] /\ lease'[b] = lease[b]
  PROVE  OneOwnerPerStep'
<1>1. \A b \in Attempts \ {a} : Unresolved(b) => att[b].step # s
  BY DEF IInv, OneOwnerPerStep, OneOpenOutcome
<1>2. \A b \in Attempts : Unresolved(b)' => b # a /\ Unresolved(b) /\ att[b].step # s
  BY <1>1 DEF Unresolved
<1>3. OneOpenOutcome'
  BY <1>2 DEF IInv, OneOwnerPerStep, OneOpenOutcome
<1>4. OwnerIsLatest'
  BY <1>2 DEF IInv, OneOwnerPerStep, OwnerIsLatest, Latest, AttemptsOf
<1>5. ActiveOwnerRuns' /\ QuarantineIsHeld'
  BY <1>2
     DEF IInv, OneOwnerPerStep, OwnerIsLatest, ActiveOwnerRuns, QuarantineIsHeld, Unresolved
<1>6. RunningStepIsOwned'
  BY DEF IInv, OneOwnerPerStep, RunningStepIsOwned, AttemptsOf
<1> QED
  BY <1>3, <1>4, <1>5, <1>6 DEF OneOwnerPerStep

(* No call moves a Step that has an owner, but the owner's settlement. *)
LEMMA OneOwnerKept == IInv /\ StoreNext => OneOwnerPerStep'
<1> SUFFICES ASSUME IInv, StoreNext PROVE OneOwnerPerStep'
  OBVIOUS
<1> USE DEF IInv, TypeOK, Numbering, OneOwnerPerStep, OneOpenOutcome, OwnerIsLatest, ActiveOwnerRuns,
            QuarantineIsHeld, RunningStepIsOwned, Unresolved, Latest, AttemptsOf, StepOwned, MoveStep, MoveAttempt, MoveLease
<1>1. ASSUME NEW s \in Steps, NEW a \in Attempts, NEW outcome \in {"review", "failed", "unknown"},
             SettleClaimedStep(s, a, step[s].version, lease[a].version, outcome)
      PROVE  OneOwnerPerStep'
  BY <1>1 DEF SettleClaimedStep, HoldsClaim
<1>2. ASSUME NEW s \in Steps, NEW a \in Attempts,
             ScheduleClaimedStepRetry(s, a, step[s].version, lease[a].version)
      PROVE  OneOwnerPerStep'
  BY <1>2 DEF ScheduleClaimedStepRetry, HoldsClaim
<1>3. ASSUME NEW s \in Steps, NEW a \in Attempts,
             ResolveQuarantinedRunStep(s, a, step[s].version, lease[a].version)
      PROVE  OneOwnerPerStep'
  BY <1>3 DEF ResolveQuarantinedRunStep, HoldsQuarantine
<1>4. ASSUME NEW s \in Steps, NEW a \in Attempts,
             ReconcileQuarantinedCheckpointStep(s, a, step[s].version, lease[a].version)
      PROVE  OneOwnerPerStep'
  <2>1. Unresolved(a) /\ att[a].step = s /\ task'.cancel = task.cancel /\ lease'[a].state = "released"
    BY <1>4 DEF ReconcileQuarantinedCheckpointStep, HoldsQuarantine
  <2>2. step'[s].status # "running" /\ \A t \in Steps \ {s} : step'[t] = step[t]
    BY <1>4 DEF ReconcileQuarantinedCheckpointStep, HoldsQuarantine
  <2>3. /\ \A b \in Attempts : att'[b].step = att[b].step /\ att'[b].num = att[b].num
        /\ \A b \in Attempts \ {a} : att'[b] = att[b] /\ lease'[b] = lease[b]
    BY <1>4 DEF ReconcileQuarantinedCheckpointStep
  <2> HIDE DEF IInv, OneOwnerPerStep, Unresolved
  <2> QED
    BY <2>1, <2>2, <2>3, OwnerLeaves
<1>5. ASSUME NEW s \in Steps, NEW a \in Attempts,
             SettleClaimedStepCancellation(s, a, step[s].version, lease[a].version)
      PROVE  OneOwnerPerStep'
  BY <1>5 DEF SettleClaimedStepCancellation, HoldsClaim
<1>6. ASSUME NEW s \in Steps, NEW a \in Attempts,
             SettleQuarantinedReadOnlyStepCancellation(s, a, step[s].version, lease[a].version)
      PROVE  OneOwnerPerStep'
  <2>1. Unresolved(a) /\ att[a].step = s /\ task'.cancel = task.cancel /\ lease'[a].state = "released"
    BY <1>6 DEF SettleQuarantinedReadOnlyStepCancellation, HoldsQuarantine
  <2>2. step'[s].status # "running" /\ \A t \in Steps \ {s} : step'[t] = step[t]
    BY <1>6 DEF SettleQuarantinedReadOnlyStepCancellation, HoldsQuarantine
  <2>3. /\ \A b \in Attempts : att'[b].step = att[b].step /\ att'[b].num = att[b].num
        /\ \A b \in Attempts \ {a} : att'[b] = att[b] /\ lease'[b] = lease[b]
    BY <1>6 DEF SettleQuarantinedReadOnlyStepCancellation
  <2> HIDE DEF IInv, OneOwnerPerStep, Unresolved
  <2> QED
    BY <2>1, <2>2, <2>3, OwnerLeaves
<1>7. ASSUME NEW s \in Steps, CreateWait(s, step[s].version)
      PROVE  OneOwnerPerStep'
  BY <1>7, UnownedMove DEF CreateWait, StepStatus
<1>8. ASSUME NEW s \in Steps, FireDueWait(s, step[s].version)
      PROVE  OneOwnerPerStep'
  BY <1>8, UnownedMove DEF FireDueWait, StepStatus
<1>9. ASSUME NEW s \in Steps, RecordSignal(s, step[s].version)
      PROVE  OneOwnerPerStep'
  BY <1>9 DEF RecordSignal
<1>10. ASSUME NEW s \in Steps, NEW to \in StepStatus,
             TransitionStep(s, step[s].version, step[s].status, to)
      PROVE  OneOwnerPerStep'
  BY <1>10 DEF TransitionStep, Requestable
<1>11. ASSUME NEW s \in Steps, MarkTaskNeedsAttention(s)
      PROVE  OneOwnerPerStep'
  BY <1>11 DEF MarkTaskNeedsAttention
<1>12. ASSUME NEW s \in Steps, NEW a \in Attempts, ClaimReadyStep(s, a, step[s].version)
      PROVE  OneOwnerPerStep'
  BY <1>12 DEF ClaimReadyStep, CycleAttempts
<1>13. ASSUME NEW s \in Steps, NEW a \in Attempts,
             AcceptDurableStep(s, a, step[s].version)
      PROVE  OneOwnerPerStep'
  BY <1>13 DEF AcceptDurableStep
<1>14. ASSUME NEW s \in Steps, NEW a \in Attempts,
             ReworkDurableStep(s, a, step[s].version)
      PROVE  OneOwnerPerStep'
  BY <1>14 DEF ReworkDurableStep
<1>15. ASSUME NEW a \in Attempts, Heartbeat(a, lease[a].version)
      PROVE  OneOwnerPerStep'
  BY <1>15 DEF Heartbeat
<1>16. ASSUME NEW a \in Attempts, LeaseExpires(a)
      PROVE  OneOwnerPerStep'
  BY <1>16 DEF LeaseExpires
<1>17. CASE MarkTaskReview
  BY <1>17 DEF MarkTaskReview
<1>18. CASE AcceptDurableTask
  BY <1>18 DEF AcceptDurableTask
<1>19. CASE RequestDurableCancellation
  <2>1. /\ task'.cancel = "requested"
        /\ UNCHANGED <<att, lease>>
    BY <1>19 DEF RequestDurableCancellation
  <2>2. \A s \in Steps :
          /\ step'[s].status = IF step[s].status \in Stoppable THEN "cancelled" ELSE step[s].status
          /\ wait'[s].status = IF wait[s].status = "waiting" THEN "cancelled" ELSE wait[s].status
    BY <1>19, RequestedStatus
  <2>3. UNCHANGED <<att, lease>>
    BY <2>1
  <2>4. OneOpenOutcome' /\ OwnerIsLatest'
    BY <2>3
  <2>5. ActiveOwnerRuns'
    <3>1. \A a \in Attempts : lease[a].state = "active" =>
            /\ att[a].status = "running" /\ att[a].step \in Steps
            /\ step[att[a].step].status = "running"
      OBVIOUS
    <3>2. \A s \in Steps : step[s].status = "running" => step'[s].status = "running"
      BY <2>2 DEF Stoppable
    <3> QED
      BY <2>3, <3>1, <3>2
  <2>6. QuarantineIsHeld'
    BY <2>1, <2>2 DEF Stoppable
  <2>7. RunningStepIsOwned'
    BY <2>2, <2>3
  <2> QED
    BY <2>4, <2>5, <2>6, <2>7
<1>20. CASE SettleDurableCancellation
  BY <1>20 DEF SettleDurableCancellation, Settleable
<1>21. CASE UNCHANGED <<task, step, att, lease>>
  BY <1>21
<1> QED
  <2>1. SettleNext => OneOwnerPerStep'
    BY <1>1, <1>2, <1>3, <1>4, <1>5, <1>6, <1>21 DEF SettleNext, ReconcileQuarantinedStep
  <2>2. StepNext => OneOwnerPerStep'
    BY <1>7, <1>8, <1>9, <1>10, <1>11, <1>12, <1>13, <1>14, <1>21 DEF StepNext, WaitFallsDue
  <2>3. RunNext => OneOwnerPerStep'
    BY <1>15, <1>16, <1>21 DEF RunNext, CreateInternalStepRun, MoveRun, WriteClaimedCheckpoint
  <2>4. TaskNext => OneOwnerPerStep'
    BY <1>17, <1>18, <1>19, <1>20, <1>21 DEF TaskNext, RecoverRuns, ChangeGrant
  <2> QED
    BY <2>1, <2>2, <2>3, <2>4 DEF StoreNext

(* Only running Steps survive a cancellation request, and they can only end. *)
LEMMA QuietKept == IInv /\ StoreNext => CancelledTaskIsQuiet'
<1> SUFFICES ASSUME IInv, StoreNext PROVE CancelledTaskIsQuiet'
  OBVIOUS
<1> USE DEF IInv, TypeOK, CancelledTaskIsQuiet, Unresolved, Active, CancelPending, StepClosed, MoveStep, MoveAttempt, MoveLease
<1>1. ASSUME NEW s \in Steps, NEW a \in Attempts, NEW outcome \in {"review", "failed", "unknown"},
             SettleClaimedStep(s, a, step[s].version, lease[a].version, outcome)
      PROVE  CancelledTaskIsQuiet'
  BY <1>1 DEF SettleClaimedStep, HoldsClaim
<1>2. ASSUME NEW s \in Steps, NEW a \in Attempts,
             ScheduleClaimedStepRetry(s, a, step[s].version, lease[a].version)
      PROVE  CancelledTaskIsQuiet'
  BY <1>2 DEF ScheduleClaimedStepRetry, HoldsClaim
<1>3. ASSUME NEW s \in Steps, NEW a \in Attempts,
             ResolveQuarantinedRunStep(s, a, step[s].version, lease[a].version)
      PROVE  CancelledTaskIsQuiet'
  BY <1>3 DEF ResolveQuarantinedRunStep, HoldsQuarantine
<1>4. ASSUME NEW s \in Steps, NEW a \in Attempts,
             ReconcileQuarantinedCheckpointStep(s, a, step[s].version, lease[a].version)
      PROVE  CancelledTaskIsQuiet'
  BY <1>4 DEF ReconcileQuarantinedCheckpointStep, HoldsQuarantine
<1>5. ASSUME NEW s \in Steps, NEW a \in Attempts,
             SettleClaimedStepCancellation(s, a, step[s].version, lease[a].version)
      PROVE  CancelledTaskIsQuiet'
  BY <1>5 DEF SettleClaimedStepCancellation, HoldsClaim
<1>6. ASSUME NEW s \in Steps, NEW a \in Attempts,
             SettleQuarantinedReadOnlyStepCancellation(s, a, step[s].version, lease[a].version)
      PROVE  CancelledTaskIsQuiet'
  BY <1>6 DEF SettleQuarantinedReadOnlyStepCancellation, HoldsQuarantine
<1>7. ASSUME NEW s \in Steps, CreateWait(s, step[s].version)
      PROVE  CancelledTaskIsQuiet'
  BY <1>7 DEF CreateWait
<1>8. ASSUME NEW s \in Steps, FireDueWait(s, step[s].version)
      PROVE  CancelledTaskIsQuiet'
  BY <1>8 DEF FireDueWait
<1>9. ASSUME NEW s \in Steps, RecordSignal(s, step[s].version)
      PROVE  CancelledTaskIsQuiet'
  BY <1>9 DEF RecordSignal
<1>10. ASSUME NEW s \in Steps, NEW to \in StepStatus,
             TransitionStep(s, step[s].version, step[s].status, to)
      PROVE  CancelledTaskIsQuiet'
  BY <1>10 DEF TransitionStep, Requestable
<1>11. ASSUME NEW s \in Steps, MarkTaskNeedsAttention(s)
      PROVE  CancelledTaskIsQuiet'
  BY <1>11 DEF MarkTaskNeedsAttention
<1>12. ASSUME NEW s \in Steps, NEW a \in Attempts, ClaimReadyStep(s, a, step[s].version)
      PROVE  CancelledTaskIsQuiet'
  BY <1>12 DEF ClaimReadyStep, CycleAttempts
<1>13. ASSUME NEW s \in Steps, NEW a \in Attempts,
             AcceptDurableStep(s, a, step[s].version)
      PROVE  CancelledTaskIsQuiet'
  BY <1>13 DEF AcceptDurableStep
<1>14. ASSUME NEW s \in Steps, NEW a \in Attempts,
             ReworkDurableStep(s, a, step[s].version)
      PROVE  CancelledTaskIsQuiet'
  BY <1>14 DEF ReworkDurableStep
<1>15. ASSUME NEW s \in Steps, WaitFallsDue(s)
      PROVE  CancelledTaskIsQuiet'
  BY <1>15 DEF WaitFallsDue
<1>16. ASSUME NEW a \in Attempts, Heartbeat(a, lease[a].version)
      PROVE  CancelledTaskIsQuiet'
  BY <1>16 DEF Heartbeat
<1>17. ASSUME NEW a \in Attempts, LeaseExpires(a)
      PROVE  CancelledTaskIsQuiet'
  BY <1>17 DEF LeaseExpires
<1>18. CASE MarkTaskReview
  BY <1>18 DEF MarkTaskReview
<1>19. CASE AcceptDurableTask
  BY <1>19 DEF AcceptDurableTask
<1>20. CASE RequestDurableCancellation
  <2>1. /\ task'.cancel = "requested"
        /\ UNCHANGED <<att, lease>>
    BY <1>20 DEF RequestDurableCancellation
  <2>2. \A s \in Steps :
          /\ step'[s].status = IF step[s].status \in Stoppable THEN "cancelled" ELSE step[s].status
          /\ wait'[s].status = IF wait[s].status = "waiting" THEN "cancelled" ELSE wait[s].status
    BY <1>20, RequestedStatus
  <2> QED
    BY <2>1, <2>2 DEF Stoppable, StepStatus
<1>21. CASE SettleDurableCancellation
  BY <1>21 DEF SettleDurableCancellation, Settleable
<1>22. CASE UNCHANGED <<task, step, lease, wait, attn>>
  BY <1>22
<1> QED
  <2>1. SettleNext => CancelledTaskIsQuiet'
    BY <1>1, <1>2, <1>3, <1>4, <1>5, <1>6, <1>22 DEF SettleNext, ReconcileQuarantinedStep
  <2>2. StepNext => CancelledTaskIsQuiet'
    BY <1>7, <1>8, <1>9, <1>10, <1>11, <1>12, <1>13, <1>14, <1>15, <1>22 DEF StepNext
  <2>3. RunNext => CancelledTaskIsQuiet'
    BY <1>16, <1>17, <1>22 DEF RunNext, CreateInternalStepRun, MoveRun, WriteClaimedCheckpoint
  <2>4. TaskNext => CancelledTaskIsQuiet'
    BY <1>18, <1>19, <1>20, <1>21, <1>22 DEF TaskNext, RecoverRuns, ChangeGrant
  <2> QED
    BY <2>1, <2>2, <2>3, <2>4 DEF StoreNext

(* Nothing starts in a Task that is in review. *)
LEMMA CompleteKept == IInv /\ StoreNext => ReviewedTaskIsComplete'
<1> SUFFICES ASSUME IInv, StoreNext PROVE ReviewedTaskIsComplete'
  OBVIOUS
<1> USE DEF IInv, TypeOK, ReviewedTaskIsComplete, Unresolved, AnyWaiting, Active, CancelPending, StepClosed, MoveStep, MoveAttempt, MoveLease, OpenWait, CloseWait
<1>1. ASSUME NEW s \in Steps, NEW a \in Attempts, NEW outcome \in {"review", "failed", "unknown"},
             SettleClaimedStep(s, a, step[s].version, lease[a].version, outcome)
      PROVE  ReviewedTaskIsComplete'
  BY <1>1 DEF SettleClaimedStep, HoldsClaim
<1>2. ASSUME NEW s \in Steps, NEW a \in Attempts,
             ScheduleClaimedStepRetry(s, a, step[s].version, lease[a].version)
      PROVE  ReviewedTaskIsComplete'
  BY <1>2 DEF ScheduleClaimedStepRetry, HoldsClaim
<1>3. ASSUME NEW s \in Steps, NEW a \in Attempts,
             ResolveQuarantinedRunStep(s, a, step[s].version, lease[a].version)
      PROVE  ReviewedTaskIsComplete'
  BY <1>3 DEF ResolveQuarantinedRunStep, HoldsQuarantine
<1>4. ASSUME NEW s \in Steps, NEW a \in Attempts,
             ReconcileQuarantinedCheckpointStep(s, a, step[s].version, lease[a].version)
      PROVE  ReviewedTaskIsComplete'
  BY <1>4 DEF ReconcileQuarantinedCheckpointStep, HoldsQuarantine
<1>5. ASSUME NEW s \in Steps, NEW a \in Attempts,
             SettleClaimedStepCancellation(s, a, step[s].version, lease[a].version)
      PROVE  ReviewedTaskIsComplete'
  BY <1>5 DEF SettleClaimedStepCancellation, HoldsClaim
<1>6. ASSUME NEW s \in Steps, NEW a \in Attempts,
             SettleQuarantinedReadOnlyStepCancellation(s, a, step[s].version, lease[a].version)
      PROVE  ReviewedTaskIsComplete'
  BY <1>6 DEF SettleQuarantinedReadOnlyStepCancellation, HoldsQuarantine
<1>7. ASSUME NEW s \in Steps, CreateWait(s, step[s].version)
      PROVE  ReviewedTaskIsComplete'
  BY <1>7 DEF CreateWait
<1>8. ASSUME NEW s \in Steps, FireDueWait(s, step[s].version)
      PROVE  ReviewedTaskIsComplete'
  BY <1>8 DEF FireDueWait
<1>9. ASSUME NEW s \in Steps, RecordSignal(s, step[s].version)
      PROVE  ReviewedTaskIsComplete'
  BY <1>9 DEF RecordSignal
<1>10. ASSUME NEW s \in Steps, NEW to \in StepStatus,
             TransitionStep(s, step[s].version, step[s].status, to)
      PROVE  ReviewedTaskIsComplete'
  BY <1>10 DEF TransitionStep, Requestable
<1>11. ASSUME NEW s \in Steps, MarkTaskNeedsAttention(s)
      PROVE  ReviewedTaskIsComplete'
  BY <1>11 DEF MarkTaskNeedsAttention
<1>12. ASSUME NEW s \in Steps, NEW a \in Attempts, ClaimReadyStep(s, a, step[s].version)
      PROVE  ReviewedTaskIsComplete'
  BY <1>12 DEF ClaimReadyStep, CycleAttempts
<1>13. ASSUME NEW s \in Steps, NEW a \in Attempts,
             AcceptDurableStep(s, a, step[s].version)
      PROVE  ReviewedTaskIsComplete'
  BY <1>13 DEF AcceptDurableStep
<1>14. ASSUME NEW s \in Steps, NEW a \in Attempts,
             ReworkDurableStep(s, a, step[s].version)
      PROVE  ReviewedTaskIsComplete'
  BY <1>14 DEF ReworkDurableStep
<1>15. ASSUME NEW s \in Steps, WaitFallsDue(s)
      PROVE  ReviewedTaskIsComplete'
  BY <1>15 DEF WaitFallsDue
<1>16. ASSUME NEW a \in Attempts, Heartbeat(a, lease[a].version)
      PROVE  ReviewedTaskIsComplete'
  BY <1>16 DEF Heartbeat
<1>17. ASSUME NEW a \in Attempts, LeaseExpires(a)
      PROVE  ReviewedTaskIsComplete'
  BY <1>17 DEF LeaseExpires
<1>18. CASE MarkTaskReview
  BY <1>18 DEF MarkTaskReview
<1>19. CASE AcceptDurableTask
  BY <1>19 DEF AcceptDurableTask
<1>20. CASE RequestDurableCancellation
  <2>1. /\ task'.status = task.status
        /\ UNCHANGED <<att, lease>>
    BY <1>20 DEF RequestDurableCancellation
  <2>2. \A s \in Steps :
          /\ step'[s].status = IF step[s].status \in Stoppable THEN "cancelled" ELSE step[s].status
          /\ wait'[s].status = IF wait[s].status = "waiting" THEN "cancelled" ELSE wait[s].status
    BY <1>20, RequestedStatus
  <2> QED
    BY <2>1, <2>2, ParametersAssumption DEF Stoppable
<1>21. CASE SettleDurableCancellation
  BY <1>21 DEF SettleDurableCancellation, Settleable
<1>22. CASE UNCHANGED <<task, step, lease, wait>>
  BY <1>22
<1> QED
  <2>1. SettleNext => ReviewedTaskIsComplete'
    BY <1>1, <1>2, <1>3, <1>4, <1>5, <1>6, <1>22 DEF SettleNext, ReconcileQuarantinedStep
  <2>2. StepNext => ReviewedTaskIsComplete'
    BY <1>7, <1>8, <1>9, <1>10, <1>11, <1>12, <1>13, <1>14, <1>15, <1>22 DEF StepNext
  <2>3. RunNext => ReviewedTaskIsComplete'
    BY <1>16, <1>17, <1>22 DEF RunNext, CreateInternalStepRun, MoveRun, WriteClaimedCheckpoint
  <2>4. TaskNext => ReviewedTaskIsComplete'
    BY <1>18, <1>19, <1>20, <1>21, <1>22 DEF TaskNext, RecoverRuns, ChangeGrant
  <2> QED
    BY <2>1, <2>2, <2>3, <2>4 DEF StoreNext

(***************************************************************************)
(* The theorems.                                                           *)
(***************************************************************************)
LEMMA IInvKept == IInv /\ [StoreNext]_storeVars => IInv'
<1>1. IInv /\ StoreNext => IInv'
  BY StepsKeepTypeOK, NumberingKept, OneOwnerKept, WaitsKept, QuietKept, CompleteKept DEF IInv
<1>2. IInv /\ UNCHANGED storeVars => IInv'
  BY DEF IInv, storeVars, TypeOK, Numbering, OneOwnerPerStep, OneOpenOutcome, OwnerIsLatest,
         ActiveOwnerRuns, QuarantineIsHeld, RunningStepIsOwned, Unresolved, Latest, AttemptsOf,
         WaitsFollowSteps, CancelledTaskIsQuiet, ReviewedTaskIsComplete, AnyWaiting
<1> QED
  BY <1>1, <1>2

(* The invariant holds of every state the store can reach. *)
THEOREM StoreInvariant == StoreSpec => []IInv
<1> QED
  BY InitIInv, IInvKept, PTL DEF StoreSpec

(* An open outcome of a Step has one owner, whatever is called and when. *)
THEOREM OneOwner == StoreSpec => []OneOwnerPerStep
<1>1. IInv => OneOwnerPerStep
  BY DEF IInv
<1> QED
  BY <1>1, StoreInvariant, PTL

(* No durable wait outlives the waiting of its Step, and none is missing. *)
THEOREM WaitsFollow == StoreSpec => []WaitsFollowSteps
<1>1. IInv => WaitsFollowSteps
  BY DEF IInv
<1> QED
  BY <1>1, StoreInvariant, PTL

(* A cancelled Task starts nothing, and is quiet when the cancellation settles. *)
THEOREM CancelledQuiet == StoreSpec => []CancelledTaskIsQuiet
<1>1. IInv => CancelledTaskIsQuiet
  BY DEF IInv
<1> QED
  BY <1>1, StoreInvariant, PTL

(* A Task in review, or accepted, has no work left open. *)
THEOREM ReviewedComplete == StoreSpec => []ReviewedTaskIsComplete
<1>1. IInv => ReviewedTaskIsComplete
  BY DEF IInv
<1> QED
  BY <1>1, StoreInvariant, PTL

(***************************************************************************)
(* Decisions.                                                              *)
(***************************************************************************)
KeptDecision(a) ==
  /\ att[a].status \in {"succeeded", "failed", "canceled"} => att'[a] = att[a]
  /\ lease[a].state = "released" => lease'[a] = lease[a]
  /\ att'[a].status = "succeeded" => att[a].status \in {"review", "succeeded"}

LEMMA SettlementsAreFinal == ASSUME IInv, NEW b \in Attempts, SettleNext PROVE KeptDecision(b)
<1> USE DEF IInv, TypeOK, KeptDecision, MoveAttempt, MoveLease, HoldsClaim, HoldsQuarantine
<1>1. ASSUME NEW s \in Steps, NEW a \in Attempts, NEW outcome \in {"review", "failed", "unknown"},
             SettleClaimedStep(s, a, step[s].version, lease[a].version, outcome)
      PROVE  KeptDecision(b)
  BY <1>1 DEF SettleClaimedStep
<1>2. ASSUME NEW s \in Steps, NEW a \in Attempts,
             ScheduleClaimedStepRetry(s, a, step[s].version, lease[a].version)
      PROVE  KeptDecision(b)
  BY <1>2 DEF ScheduleClaimedStepRetry
<1>3. ASSUME NEW s \in Steps, NEW a \in Attempts,
             ResolveQuarantinedRunStep(s, a, step[s].version, lease[a].version)
      PROVE  KeptDecision(b)
  BY <1>3 DEF ResolveQuarantinedRunStep
<1>4. ASSUME NEW s \in Steps, NEW a \in Attempts,
             ReconcileQuarantinedCheckpointStep(s, a, step[s].version, lease[a].version)
      PROVE  KeptDecision(b)
  BY <1>4 DEF ReconcileQuarantinedCheckpointStep
<1>5. ASSUME NEW s \in Steps, NEW a \in Attempts,
             \/ SettleClaimedStepCancellation(s, a, step[s].version, lease[a].version)
             \/ SettleQuarantinedReadOnlyStepCancellation(s, a, step[s].version, lease[a].version)
      PROVE  KeptDecision(b)
  BY <1>5 DEF SettleClaimedStepCancellation, SettleQuarantinedReadOnlyStepCancellation
<1> QED
  BY <1>1, <1>2, <1>3, <1>4, <1>5 DEF SettleNext, ReconcileQuarantinedStep

LEMMA CallsAreFinal == ASSUME IInv, NEW b \in Attempts, StoreNext PROVE KeptDecision(b)
<1>1. CASE SettleNext
  BY <1>1, SettlementsAreFinal
<1>2. ASSUME NEW s \in Steps, NEW a \in Attempts, ClaimReadyStep(s, a, step[s].version)
      PROVE  KeptDecision(b)
  BY <1>2 DEF KeptDecision, IInv, TypeOK, Numbering, ClaimReadyStep
<1>3. ASSUME NEW s \in Steps, NEW a \in Attempts, AcceptDurableStep(s, a, step[s].version)
      PROVE  KeptDecision(b)
  BY <1>3 DEF KeptDecision, IInv, TypeOK, AcceptDurableStep, MoveAttempt
<1>4. ASSUME NEW a \in Attempts, Heartbeat(a, lease[a].version) \/ LeaseExpires(a)
      PROVE  KeptDecision(b)
  BY <1>4 DEF KeptDecision, IInv, TypeOK, Heartbeat, LeaseExpires
<1>5. CASE UNCHANGED <<att, lease>>
  BY <1>5 DEF KeptDecision
<1>6. CASE StepNext
  <2>1. ASSUME NEW s \in Steps,
               \/ CreateWait(s, step[s].version)
               \/ FireDueWait(s, step[s].version)
               \/ RecordSignal(s, step[s].version)
               \/ \E to \in StepStatus : TransitionStep(s, step[s].version, step[s].status, to)
               \/ MarkTaskNeedsAttention(s)
               \/ WaitFallsDue(s)
        PROVE  UNCHANGED <<att, lease>>
    BY <2>1 DEF CreateWait, FireDueWait, RecordSignal, TransitionStep, MarkTaskNeedsAttention,
       WaitFallsDue
  <2>2. ASSUME NEW s \in Steps, NEW a \in Attempts, ReworkDurableStep(s, a, step[s].version)
        PROVE  UNCHANGED <<att, lease>>
    BY <2>2 DEF ReworkDurableStep
  <2> QED
    BY <1>2, <1>3, <1>5, <1>6, <2>1, <2>2 DEF StepNext
<1>7. CASE RunNext
  <2>1. ASSUME NEW a \in Attempts, NEW to \in RunLive \cup RunClosed,
               CreateInternalStepRun(a) \/ MoveRun(a, to) \/ WriteClaimedCheckpoint(a)
        PROVE  UNCHANGED <<att, lease>>
    BY <2>1 DEF CreateInternalStepRun, MoveRun, WriteClaimedCheckpoint
  <2>2. "queued" \in RunLive \cup RunClosed
    BY DEF RunLive
  <2> QED
    BY <1>4, <1>5, <1>7, <2>1, <2>2 DEF RunNext
<1>8. CASE TaskNext
  <2>1. UNCHANGED <<att, lease>>
    BY <1>8 DEF TaskNext, MarkTaskReview, AcceptDurableTask, RequestDurableCancellation,
       SettleDurableCancellation, RecoverRuns, ChangeGrant
  <2> QED
    BY <1>5, <2>1
<1> QED
  BY <1>1, <1>6, <1>7, <1>8 DEF StoreNext

(* What was decided stays decided. *)
THEOREM DecisionsStay == StoreSpec => DecisionsAreFinal
<1>1. IInv /\ [StoreNext]_storeVars =>
        [\A a \in Attempts :
           /\ att[a].status \in {"succeeded", "failed", "canceled"} => att'[a] = att[a]
           /\ lease[a].state = "released" => lease'[a] = lease[a]
           /\ att'[a].status = "succeeded" => att[a].status \in {"review", "succeeded"}]_storeVars
  BY CallsAreFinal DEF KeptDecision
<1> QED
  BY <1>1, StoreInvariant, PTL DEF StoreSpec, DecisionsAreFinal
(***************************************************************************)
(* Quarantine.                                                             *)
(***************************************************************************)
HeldUntilEvidence(a) ==
  /\ lease[a].state = "quarantined" /\ lease'[a].state # "quarantined" =>
       /\ run[a] \notin RunLive
       /\ att'[a].status \in {Evidence(a), "canceled"}
  /\ lease[a].state \in {"quarantined", "released"} /\ run[a] = "none" => run'[a] = "none"

LEMMA SettlementsHaveEvidence ==
  ASSUME IInv, NEW b \in Attempts, SettleNext PROVE HeldUntilEvidence(b)
<1> USE DEF IInv, TypeOK, HeldUntilEvidence, MoveAttempt, MoveLease, HoldsClaim, HoldsQuarantine
<1>1. ASSUME NEW s \in Steps, NEW a \in Attempts, NEW outcome \in {"review", "failed", "unknown"},
             SettleClaimedStep(s, a, step[s].version, lease[a].version, outcome)
      PROVE  HeldUntilEvidence(b)
  BY <1>1 DEF SettleClaimedStep
<1>2. ASSUME NEW s \in Steps, NEW a \in Attempts,
             \/ ScheduleClaimedStepRetry(s, a, step[s].version, lease[a].version)
             \/ SettleClaimedStepCancellation(s, a, step[s].version, lease[a].version)
      PROVE  HeldUntilEvidence(b)
  BY <1>2 DEF ScheduleClaimedStepRetry, SettleClaimedStepCancellation
<1>3. ASSUME NEW s \in Steps, NEW a \in Attempts,
             ResolveQuarantinedRunStep(s, a, step[s].version, lease[a].version)
      PROVE  HeldUntilEvidence(b)
  BY <1>3 DEF ResolveQuarantinedRunStep, Evidence, RunLive
<1>4. ASSUME NEW s \in Steps, NEW a \in Attempts,
             ReconcileQuarantinedCheckpointStep(s, a, step[s].version, lease[a].version)
      PROVE  HeldUntilEvidence(b)
  BY <1>4 DEF ReconcileQuarantinedCheckpointStep, Evidence
<1>5. ASSUME NEW s \in Steps, NEW a \in Attempts,
             SettleQuarantinedReadOnlyStepCancellation(s, a, step[s].version, lease[a].version)
      PROVE  HeldUntilEvidence(b)
  BY <1>5 DEF SettleQuarantinedReadOnlyStepCancellation
<1> QED
  BY <1>1, <1>2, <1>3, <1>4, <1>5 DEF SettleNext, ReconcileQuarantinedStep

LEMMA CallsHaveEvidence == ASSUME IInv, NEW b \in Attempts, StoreNext PROVE HeldUntilEvidence(b)
<1>1. CASE SettleNext
  BY <1>1, SettlementsHaveEvidence
<1>2. ASSUME NEW s \in Steps, NEW a \in Attempts, ClaimReadyStep(s, a, step[s].version)
      PROVE  HeldUntilEvidence(b)
  BY <1>2 DEF HeldUntilEvidence, IInv, TypeOK, Numbering, ClaimReadyStep
<1>3. ASSUME NEW a \in Attempts, Heartbeat(a, lease[a].version) \/ LeaseExpires(a)
      PROVE  HeldUntilEvidence(b)
  BY <1>3 DEF HeldUntilEvidence, IInv, TypeOK, Heartbeat, LeaseExpires
<1>4. ASSUME NEW a \in Attempts, CreateInternalStepRun(a)
      PROVE  HeldUntilEvidence(b)
  BY <1>4 DEF HeldUntilEvidence, IInv, TypeOK, CreateInternalStepRun, ClaimIsLive
<1>5. ASSUME NEW a \in Attempts, NEW to \in RunLive \cup RunClosed, MoveRun(a, to)
      PROVE  HeldUntilEvidence(b)
  BY <1>5 DEF HeldUntilEvidence, IInv, TypeOK, MoveRun, RunLive
<1>6. CASE UNCHANGED <<lease, run>>
  BY <1>6 DEF HeldUntilEvidence
<1>7. CASE RecoverRuns
  BY <1>7 DEF HeldUntilEvidence, RecoverRuns
<1>8. CASE StepNext
  <2>1. ASSUME NEW s \in Steps,
               \/ CreateWait(s, step[s].version)
               \/ FireDueWait(s, step[s].version)
               \/ RecordSignal(s, step[s].version)
               \/ \E to \in StepStatus : TransitionStep(s, step[s].version, step[s].status, to)
               \/ MarkTaskNeedsAttention(s)
               \/ WaitFallsDue(s)
        PROVE  UNCHANGED <<lease, run>>
    BY <2>1 DEF CreateWait, FireDueWait, RecordSignal, TransitionStep, MarkTaskNeedsAttention,
       WaitFallsDue
  <2>2. ASSUME NEW s \in Steps, NEW a \in Attempts,
               \/ AcceptDurableStep(s, a, step[s].version)
               \/ ReworkDurableStep(s, a, step[s].version)
        PROVE  UNCHANGED <<lease, run>>
    BY <2>2 DEF AcceptDurableStep, ReworkDurableStep
  <2> QED
    BY <1>2, <1>6, <1>8, <2>1, <2>2 DEF StepNext
<1>9. CASE RunNext
  <2>1. ASSUME NEW a \in Attempts, WriteClaimedCheckpoint(a)
        PROVE  UNCHANGED <<lease, run>>
    BY <2>1 DEF WriteClaimedCheckpoint
  <2> QED
    BY <1>3, <1>4, <1>5, <1>6, <1>9, <2>1 DEF RunNext
<1>10. CASE TaskNext
  <2>1. CASE \/ MarkTaskReview \/ AcceptDurableTask \/ RequestDurableCancellation
             \/ SettleDurableCancellation \/ ChangeGrant
    <3>1. UNCHANGED <<lease, run>>
      BY <2>1 DEF MarkTaskReview, AcceptDurableTask, RequestDurableCancellation,
         SettleDurableCancellation, ChangeGrant
    <3> QED
      BY <1>6, <3>1
  <2> QED
    BY <1>7, <1>10, <2>1 DEF TaskNext
<1> QED
  BY <1>1, <1>8, <1>9, <1>10 DEF StoreNext

(* A quarantine ends on evidence only, and the absence of a Run is final. *)
THEOREM QuarantineIsDecided == StoreSpec => QuarantineEndsOnEvidence
<1>1. IInv /\ [StoreNext]_storeVars =>
        [\A a \in Attempts :
           /\ lease[a].state = "quarantined" /\ lease'[a].state # "quarantined" =>
                /\ run[a] \notin RunLive
                /\ att'[a].status \in {Evidence(a), "canceled"}
           /\ lease[a].state \in {"quarantined", "released"} /\ run[a] = "none" =>
                run'[a] = "none"]_storeVars
  BY CallsHaveEvidence DEF HeldUntilEvidence
<1> QED
  BY <1>1, StoreInvariant, PTL DEF StoreSpec, QuarantineEndsOnEvidence

(***************************************************************************)
(* Attention.  A Step leaves "blocked" only when its quarantine ends, which *)
(* drops the Task's item with the last blocked Step, or when its Task is    *)
(* cancelled, which is then no longer active.                               *)
(***************************************************************************)
LEMMA BlockedStays ==
  ASSUME TypeOK, AttentionIsWarranted,
         \A s \in Steps : step[s].status = "blocked" => step'[s].status = "blocked",
         TaskAttn \in attn' => TaskAttn \in attn, Active' => Active
  PROVE  AttentionIsWarranted'
  BY DEF AttentionIsWarranted, TaskAttn

LEMMA SettlementsWarrantAttention ==
  ASSUME TypeOK, AttentionIsWarranted, SettleNext PROVE AttentionIsWarranted'
<1> USE DEF TypeOK, MoveStep, HoldsClaim, HoldsQuarantine, Active
<1>1. ASSUME NEW s \in Steps, NEW a \in Attempts, NEW outcome \in {"review", "failed", "unknown"},
             \/ SettleClaimedStep(s, a, step[s].version, lease[a].version, outcome)
             \/ ScheduleClaimedStepRetry(s, a, step[s].version, lease[a].version)
             \/ SettleClaimedStepCancellation(s, a, step[s].version, lease[a].version)
             \/ SettleQuarantinedReadOnlyStepCancellation(s, a, step[s].version, lease[a].version)
      PROVE  AttentionIsWarranted'
  BY <1>1, BlockedStays
     DEF SettleClaimedStep, ScheduleClaimedStepRetry, SettleClaimedStepCancellation,
         SettleQuarantinedReadOnlyStepCancellation
<1>2. ASSUME NEW s \in Steps, NEW a \in Attempts,
             \/ ResolveQuarantinedRunStep(s, a, step[s].version, lease[a].version)
             \/ ReconcileQuarantinedCheckpointStep(s, a, step[s].version, lease[a].version)
      PROVE  AttentionIsWarranted'
  <2>1. attn' = ResolvedWith(s, a) /\ \A t \in Steps \ {s} : step'[t] = step[t]
    BY <1>2 DEF ResolveQuarantinedRunStep, ReconcileQuarantinedCheckpointStep
  <2>2. CASE OtherIn(s, {"blocked"})
    BY <2>1, <2>2 DEF OtherIn, AttentionIsWarranted
  <2>3. CASE ~OtherIn(s, {"blocked"})
    BY <2>1, <2>3 DEF ResolvedWith, AttentionIsWarranted, TaskAttn
  <2> QED
    BY <2>2, <2>3
<1> QED
  BY <1>1, <1>2 DEF SettleNext, ReconcileQuarantinedStep

LEMMA CallsWarrantAttention ==
  ASSUME TypeOK, AttentionIsWarranted, StoreNext PROVE AttentionIsWarranted'
<1> USE DEF TypeOK, MoveStep, Active
<1>1. CASE SettleNext
  BY <1>1, SettlementsWarrantAttention
<1>2. ASSUME NEW s \in Steps,
             \/ CreateWait(s, step[s].version)
             \/ FireDueWait(s, step[s].version)
             \/ RecordSignal(s, step[s].version)
             \/ \E to \in StepStatus : TransitionStep(s, step[s].version, step[s].status, to)
             \/ WaitFallsDue(s)
      PROVE  AttentionIsWarranted'
  BY <1>2, BlockedStays DEF CreateWait, FireDueWait, RecordSignal, TransitionStep, Requestable, WaitFallsDue
<1>3. ASSUME NEW s \in Steps, NEW a \in Attempts,
             \/ ClaimReadyStep(s, a, step[s].version)
             \/ AcceptDurableStep(s, a, step[s].version)
             \/ ReworkDurableStep(s, a, step[s].version)
      PROVE  AttentionIsWarranted'
  BY <1>3, BlockedStays DEF ClaimReadyStep, AcceptDurableStep, ReworkDurableStep
<1>4. ASSUME NEW s \in Steps, MarkTaskNeedsAttention(s)
      PROVE  AttentionIsWarranted'
  <2>1. CASE step[s].status = "blocked"
    BY <1>4, <2>1 DEF MarkTaskNeedsAttention, AttentionIsWarranted
  <2>2. CASE step[s].status = "failed"
    BY <1>4, <2>2, BlockedStays DEF MarkTaskNeedsAttention, TaskAttn
  <2> QED
    BY <1>4, <2>1, <2>2 DEF MarkTaskNeedsAttention
<1>5. CASE RunNext
  BY <1>5, BlockedStays
     DEF RunNext, Heartbeat, CreateInternalStepRun, MoveRun, WriteClaimedCheckpoint, LeaseExpires
<1>6. CASE MarkTaskReview \/ AcceptDurableTask \/ RecoverRuns \/ ChangeGrant
  BY <1>6, BlockedStays DEF MarkTaskReview, AcceptDurableTask, RecoverRuns, ChangeGrant, TaskAttn
<1>7. CASE RequestDurableCancellation \/ SettleDurableCancellation
  BY <1>7 DEF RequestDurableCancellation, SettleDurableCancellation, CancelPending, AttentionIsWarranted
<1> QED
  BY <1>1, <1>2, <1>3, <1>4, <1>5, <1>6, <1>7 DEF StoreNext, StepNext, TaskNext

(* The owner is asked about a blocked Step of an active Task only while one *)
(* is blocked.                                                              *)
THEOREM AttentionWarranted == StoreSpec => []AttentionIsWarranted
<1>1. Init => AttentionIsWarranted
  BY DEF Init, AttentionIsWarranted
<1>2. TypeOK /\ AttentionIsWarranted /\ [StoreNext]_storeVars => AttentionIsWarranted'
  BY CallsWarrantAttention DEF AttentionIsWarranted, storeVars, Active
<1> QED
  BY <1>1, <1>2, TypeCorrect, PTL DEF StoreSpec

(***************************************************************************)
(* Attempts.  A Step waiting to be retried has an Attempt left, as the      *)
(* retry was allowed, and none is claimed meanwhile; a rework begins a new  *)
(* cycle, since the latest Attempt is the one it reworks.                   *)
(***************************************************************************)
ClaimsLeft ==
  \A s \in Steps :
    /\ step[s].status = "pending" => AttemptsOf(s) = {}
    /\ step[s].status = "ready" \/ (wait[s].status = "waiting" /\ Kind[s] \notin WaitKinds) =>
         Cardinality(CycleAttempts(s)) < MaxAttempts[s]

(* Without an Attempt in its cycle a Step can be claimed. *)
LEMMA EmptyCycle ==
  ASSUME NEW s \in Steps, CycleAttempts(s) = {} PROVE Cardinality(CycleAttempts(s)) < MaxAttempts[s]
  BY FS_EmptySet, ParametersAssumption

LEMMA PrimedEmptyCycle ==
  ASSUME NEW s \in Steps, CycleAttempts(s)' = {} PROVE Cardinality(CycleAttempts(s)') < MaxAttempts[s]
  BY FS_EmptySet, ParametersAssumption

(* What a call that numbers no Attempt and begins no cycle may do to a Step. *)
SameCycles ==
  /\ \A a \in Attempts : att'[a].step = att[a].step /\ att'[a].num = att[a].num
  /\ \A s \in Steps : step'[s].base = step[s].base
  /\ \A s \in Steps :
       /\ step'[s].status = "pending" => step[s].status = "pending"
       /\ step'[s].status = "ready" =>
            \/ step[s].status \in {"pending", "ready"}
            \/ wait[s].status = "waiting" /\ Kind[s] \notin WaitKinds
       /\ wait'[s].status = "waiting" =>
            wait[s].status = "waiting" \/ Kind[s] \in WaitKinds \/ RetryAllowed(s)

LEMMA SameCyclesLeave == ASSUME ClaimsLeft, SameCycles PROVE ClaimsLeft'
<1> SUFFICES ASSUME NEW s \in Steps
             PROVE  /\ step'[s].status = "pending" => AttemptsOf(s)' = {}
                    /\ step'[s].status = "ready" \/ (wait'[s].status = "waiting" /\ Kind[s] \notin WaitKinds) =>
                         Cardinality(CycleAttempts(s)') < MaxAttempts[s]
  BY DEF ClaimsLeft
<1>1. AttemptsOf(s)' = AttemptsOf(s)
  BY DEF SameCycles, AttemptsOf
<1>2. CycleAttempts(s)' = CycleAttempts(s)
  BY <1>1 DEF SameCycles, CycleAttempts, AttemptsOf
<1>3. step[s].status = "pending" => CycleAttempts(s) = {}
  BY DEF ClaimsLeft, CycleAttempts
<1> QED
  BY <1>1, <1>2, <1>3, EmptyCycle DEF ClaimsLeft, SameCycles, RetryAllowed

LEMMA SettlementsKeepCycles == ASSUME TypeOK, SettleNext PROVE SameCycles
<1> USE DEF TypeOK, SameCycles, MoveStep, MoveAttempt, HoldsClaim, HoldsQuarantine, OpenWait
<1>1. ASSUME NEW s \in Steps, NEW a \in Attempts, NEW outcome \in {"review", "failed", "unknown"},
             SettleClaimedStep(s, a, step[s].version, lease[a].version, outcome)
      PROVE  SameCycles
  BY <1>1 DEF SettleClaimedStep
<1>2. ASSUME NEW s \in Steps, NEW a \in Attempts,
             ScheduleClaimedStepRetry(s, a, step[s].version, lease[a].version)
      PROVE  SameCycles
  BY <1>2 DEF ScheduleClaimedStepRetry
<1>3. ASSUME NEW s \in Steps, NEW a \in Attempts,
             ResolveQuarantinedRunStep(s, a, step[s].version, lease[a].version)
      PROVE  SameCycles
  BY <1>3 DEF ResolveQuarantinedRunStep
<1>4. ASSUME NEW s \in Steps, NEW a \in Attempts,
             ReconcileQuarantinedCheckpointStep(s, a, step[s].version, lease[a].version)
      PROVE  SameCycles
  BY <1>4 DEF ReconcileQuarantinedCheckpointStep
<1>5. ASSUME NEW s \in Steps, NEW a \in Attempts,
             SettleClaimedStepCancellation(s, a, step[s].version, lease[a].version)
      PROVE  SameCycles
  BY <1>5 DEF SettleClaimedStepCancellation
<1>6. ASSUME NEW s \in Steps, NEW a \in Attempts,
             SettleQuarantinedReadOnlyStepCancellation(s, a, step[s].version, lease[a].version)
      PROVE  SameCycles
  BY <1>6 DEF SettleQuarantinedReadOnlyStepCancellation
<1> HIDE DEF TypeOK, SameCycles, MoveStep, MoveAttempt, HoldsClaim, HoldsQuarantine, OpenWait
<1> QED
  BY <1>1, <1>2, <1>3, <1>4, <1>5, <1>6 DEF SettleNext, ReconcileQuarantinedStep

LEMMA ClaimLeaves ==
  ASSUME IInv, ClaimsLeft, NEW s \in Steps, NEW a \in Attempts, ClaimReadyStep(s, a, step[s].version)
  PROVE  ClaimsLeft'
<1>1. att[a].step = None
  BY DEF ClaimReadyStep, IInv, Numbering
<1>2. /\ \A b \in Attempts \ {a} : att'[b] = att[b]
      /\ att'[a].step = s
      /\ \A t \in Steps \ {s} : step'[t] = step[t]
      /\ step'[s].status = "running" /\ step[s].status = "ready" /\ wait' = wait
  BY DEF ClaimReadyStep, IInv, TypeOK, MoveStep
<1>3. wait[s].status # "waiting"
  BY <1>2 DEF IInv, WaitsFollowSteps
<1>4. ASSUME NEW t \in Steps \ {s}
      PROVE  AttemptsOf(t)' = AttemptsOf(t) /\ CycleAttempts(t)' = CycleAttempts(t)
  <2>1. AttemptsOf(t)' = AttemptsOf(t)
    BY <1>1, <1>2, ParametersAssumption DEF AttemptsOf
  <2>2. a \notin AttemptsOf(t)
    BY <1>1, ParametersAssumption DEF AttemptsOf
  <2> QED
    BY <1>2, <2>1, <2>2 DEF CycleAttempts, AttemptsOf
<1> QED
  BY <1>2, <1>3, <1>4 DEF ClaimsLeft

LEMMA ReworkLeaves ==
  ASSUME IInv, ClaimsLeft, NEW s \in Steps, NEW a \in Attempts, ReworkDurableStep(s, a, step[s].version)
  PROVE  ClaimsLeft'
<1>1. /\ step'[s].base = att[a].num /\ step'[s].status = "ready"
      /\ \A t \in Steps \ {s} : step'[t] = step[t]
      /\ att' = att /\ wait' = wait
  BY DEF ReworkDurableStep, IInv, TypeOK
<1>2. \A b \in AttemptsOf(s) : att[b].num <= att[a].num
  BY DEF ReworkDurableStep, Latest
<1>3. CycleAttempts(s)' = {}
  BY <1>1, <1>2 DEF CycleAttempts, AttemptsOf, IInv, TypeOK
<1>4. \A t \in Steps : AttemptsOf(t)' = AttemptsOf(t)
  BY <1>1 DEF AttemptsOf
<1>5. \A t \in Steps \ {s} : CycleAttempts(t)' = CycleAttempts(t)
  BY <1>1, <1>4 DEF CycleAttempts
<1> QED
  BY <1>1, <1>3, <1>4, <1>5, PrimedEmptyCycle DEF ClaimsLeft

LEMMA CallsLeaveClaims == ASSUME IInv, ClaimsLeft, StoreNext PROVE ClaimsLeft'
<1> USE DEF IInv, TypeOK, SameCycles, MoveStep, MoveAttempt
<1>1. ASSUME NEW s \in Steps, CreateWait(s, step[s].version) PROVE SameCycles
  BY <1>1 DEF CreateWait, OpenWait
<1>2. ASSUME NEW s \in Steps, FireDueWait(s, step[s].version) PROVE SameCycles
  BY <1>2 DEF FireDueWait, CloseWait
<1>3. ASSUME NEW s \in Steps, RecordSignal(s, step[s].version) PROVE SameCycles
  <2>1. /\ step' = step \/ MoveStep(s, "succeeded") \/ MoveStep(s, "blocked")
        /\ \E status \in {"resumed", "stale"} : CloseWait(s, status)
        /\ att' = att
    BY <1>3 DEF RecordSignal
  <2> QED
    BY <2>1 DEF CloseWait
<1>4. ASSUME NEW s \in Steps, NEW to \in StepStatus,
             TransitionStep(s, step[s].version, step[s].status, to)
      PROVE  SameCycles
  BY <1>4 DEF TransitionStep, Requestable
<1>5. ASSUME NEW s \in Steps, MarkTaskNeedsAttention(s) \/ WaitFallsDue(s) PROVE SameCycles
  BY <1>5 DEF MarkTaskNeedsAttention, WaitFallsDue
<1>6. ASSUME NEW s \in Steps, NEW a \in Attempts, AcceptDurableStep(s, a, step[s].version)
      PROVE  SameCycles
  BY <1>6 DEF AcceptDurableStep
<1> HIDE DEF IInv, TypeOK, SameCycles, MoveStep, MoveAttempt
<1>7. ASSUME UNCHANGED <<step, att, wait>> PROVE SameCycles
  BY <1>7 DEF SameCycles
<1>8. ASSUME RequestDurableCancellation PROVE SameCycles
  <2>1. att' = att /\ TypeOK
    BY <1>8 DEF RequestDurableCancellation, IInv
  <2>2. \A s \in Steps :
          /\ step'[s].status = IF step[s].status \in Stoppable THEN "cancelled" ELSE step[s].status
          /\ step'[s].base = step[s].base
          /\ wait'[s].status = IF wait[s].status = "waiting" THEN "cancelled" ELSE wait[s].status
    BY <1>8, <2>1, RequestedStatus
  <2>3. ASSUME NEW s \in Steps
        PROVE  /\ step'[s].status = "pending" => step[s].status = "pending"
               /\ step'[s].status = "ready" => step[s].status = "ready"
               /\ wait'[s].status # "waiting"
               /\ step'[s].base = step[s].base
    BY <2>2 DEF Stoppable
  <2> QED
    BY <2>1, <2>3 DEF SameCycles
<1>9. \/ RunNext \/ MarkTaskReview \/ AcceptDurableTask \/ SettleDurableCancellation \/ RecoverRuns
      \/ ChangeGrant
      => UNCHANGED <<step, att, wait>>
  BY DEF RunNext, Heartbeat, CreateInternalStepRun, MoveRun, WriteClaimedCheckpoint, LeaseExpires,
         MarkTaskReview, AcceptDurableTask, SettleDurableCancellation, RecoverRuns, ChangeGrant
<1>10. TypeOK
  BY DEF IInv
<1> QED
  BY <1>1, <1>2, <1>3, <1>4, <1>5, <1>6, <1>7, <1>8, <1>9, <1>10, SettlementsKeepCycles, SameCyclesLeave,
     ClaimLeaves, ReworkLeaves DEF StoreNext, StepNext, TaskNext

(* A ready Step has an Attempt left to claim, for every Step's max_attempts *)
(* and every sequence of retries and reworks.                               *)
THEOREM ReadyClaimable == StoreSpec => []ReadyCanBeClaimed
<1>1. Init => ClaimsLeft
  BY ParametersAssumption DEF Init, ClaimsLeft, AttemptsOf
<1>2. IInv /\ ClaimsLeft /\ [StoreNext]_storeVars => ClaimsLeft'
  <2>1. ClaimsLeft /\ UNCHANGED storeVars => ClaimsLeft'
    BY DEF ClaimsLeft, AttemptsOf, CycleAttempts, storeVars
  <2> QED
    BY <2>1, CallsLeaveClaims
<1>3. ClaimsLeft => ReadyCanBeClaimed
  BY DEF ClaimsLeft, ReadyCanBeClaimed
<1> QED
  BY <1>1, <1>2, <1>3, StoreInvariant, PTL DEF StoreSpec
=============================================================================
