---------------------------- MODULE WorkerSteps ----------------------------
(***************************************************************************)
(* Herdr Worker Steps: the launch, prompt, observation, recovery and       *)
(* closure of an external coding agent that works in a pane of Herdr, for  *)
(* the Attempts whose claims LongWorkStore keeps.                          *)
(*                                                                         *)
(* Three parties act.  Executions of the Temporal Activity run in one      *)
(* Worker process at a time; a timed-out one may still run beside its      *)
(* successor, and a crash forgets them all and begins a new instance with  *)
(* a new lease owner id.  The server observes, closes reviewed Workers for *)
(* the owner and, when it restarts, quarantines the write occupancy of the *)
(* workspace.  Herdr creates a tab and an agent some time after the        *)
(* request, whether or not anyone still waits for the answer.              *)
(*                                                                         *)
(* A pane keeps the history of its agent states; the time of a snapshot or *)
(* event is its position in that history, so that "not older than the last *)
(* observation" is a comparison of positions.                              *)
(***************************************************************************)
EXTENDS LongWorkStore, Sequences

CONSTANTS
  Activities,   \* concurrent executions of advanceLongWork
  Server,       \* the server process, as an actor
  MaxInstance,  \* bound: instances of the Temporal Worker process
  MaxMoves      \* bound: agent states the pane of the n-th Attempt goes through

ASSUME WorkersAssumption ==
  /\ Server \notin Activities
  /\ MaxInstance \in Nat \ {0}
  /\ MaxMoves \in Seq(Nat \ {0})

VARIABLES
  owner,   \* task_step_leases.owner_instance_id, as an instance number
  intent,  \* worker_launch_intents
  bind,    \* worker_bindings with the observation Trace and the candidate
  pane,    \* the Herdr tab labelled for the Attempt, and its agent
  occ,     \* the write-occupancy entry of the one workspace
  exec,    \* where each execution, and the server's review call, has got to
  inst     \* the running instance of the Temporal Worker process

workerVars == <<owner, intent, bind, pane, occ, exec, inst>>

AgentStates == {"idle", "working", "blocked", "done"}
Observed    == AgentStates \cup {"starting", "unknown"}
(* Tab requested, present without an agent, with agent.start sent. *)
Launching   == {"sent", "tab", "starting"}

WorkersTypeOK ==
  /\ owner \in [Attempts -> 0..MaxInstance]
  /\ intent \subseteq Attempts
  /\ bind \in [Attempts -> [at : {"none", "bound", "attached"}, prompted : BOOLEAN,
                            last : Observed, upd : Nat, prev : Observed \cup {"none"},
                            done : BOOLEAN, inval : BOOLEAN, cand : Nat]]
  /\ \A a \in Attempts : /\ pane[a].st \in {"none", "agent", "closed"} \cup Launching
                         /\ pane[a].prompt \in BOOLEAN
                         /\ \A i \in DOMAIN pane[a].hist : pane[a].hist[i] \in AgentStates
  /\ occ \in [state : {"free", "active", "closing", "quarantined"},
              att : Attempts \cup {None}, inst : 0..MaxInstance]
  /\ occ.state = "free" <=> occ.att = None
  /\ inst \in 1..MaxInstance

Idle == [pc |-> "idle", a |-> None, sv |-> 0, lv |-> 0, k |-> 0,
         held |-> "none", then |-> "none", fresh |-> FALSE]

Own(p)      == IF p = Server THEN 0 ELSE inst
StepOf(p)   == att[exec[p].a].step
Now(a)      == Len(pane[a].hist)
Attached(a) == bind[a].at = "attached"
(* An execution goes on, and forgets what it will not look at again. *)
Onward(e, pc) ==
  [e EXCEPT !.pc = pc,
     !.k     = IF pc \in {"recover", "observe", "capture", "record", "review"} THEN @ ELSE 0,
     !.fresh = @ /\ pc \in {"capture", "record", "review"},
     !.held  = IF pc \in {"close", "free"} THEN @ ELSE "none",
     !.then  = IF pc \in {"close", "free"} THEN @ ELSE "none",
     !.sv    = IF pc = "beat" THEN 0 ELSE @,
     !.lv    = IF pc = "beat" THEN 0 ELSE @]
Goto(p, pc) == exec' = [exec EXCEPT ![p] = Onward(@, pc)]
Finish(p)   == exec' = [exec EXCEPT ![p] = Idle]
At(p, pc)   == exec[p].pc = pc
(* The claim this execution remembers is still the one in the store. *)
HoldsWorker(p) ==
  /\ HoldsClaim(StepOf(p), exec[p].a, exec[p].sv, exec[p].lv)
  /\ owner[exec[p].a] = Own(p)

(***************************************************************************)
(* Write occupancy.  Only the instance that acquired an entry may close or *)
(* quarantine it; anyone may release a quarantined one, after closing.     *)
(***************************************************************************)
Holds(a)      == occ.state # "free" /\ occ.att = a
Foreign(p, a) == Holds(a) /\ occ.state = "active" /\ occ.inst # Own(p)
FreeEntry     == [state |-> "free", att |-> None, inst |-> 0]

(* Mutant: whatever entry the workspace has is quarantined. *)
QuarantineAnyEntry(p, a) == occ' = [occ EXCEPT !.state = "quarantined"]

(* quarantineClaimedWorker: it throws for an active entry of another instance. *)
QuarantineOccupancy(p, a) ==
  /\ ~Foreign(p, a)
  /\ occ' = IF Holds(a) /\ occ.state = "active" THEN [occ EXCEPT !.state = "quarantined"] ELSE occ

(* closeWorker up to the call of Herdr.  claim.then is what follows.        *)
BeginClose(p, a, claim) ==
  \/ /\ ~Foreign(p, a) /\ ~(Holds(a) /\ occ.state = "closing")
     /\ occ' = IF Holds(a) /\ occ.state = "active" THEN [occ EXCEPT !.state = "closing"] ELSE occ
     /\ exec' = [exec EXCEPT ![p] = [claim EXCEPT !.pc = "close", !.k = 0,
          !.held = IF ~Holds(a) THEN "none"
                   ELSE IF occ.state = "active" THEN "closing" ELSE occ.state]]
  \/ /\ Holds(a) /\ occ.state = "closing" /\ claim.then = "settle"
     /\ exec' = [exec EXCEPT ![p] = Onward(claim, "settle")]
     /\ UNCHANGED occ

AfterFailedClose(p) ==
  exec' = [exec EXCEPT ![p] = IF @.then = "settle" THEN Onward(@, "settle") ELSE Idle]

(* closeAgent and closePreAgentPane succeed only once a snapshot confirms  *)
(* that the pane is gone; on an error the pane may be gone or not.         *)
ClosePane(p) ==
  LET a == exec[p].a IN
  /\ At(p, "close")
  /\ \/ /\ pane[a].st # "closed" \/ exec[p].then # "launch"
        /\ pane' = [pane EXCEPT ![a].st = "closed"]
        /\ Goto(p, "free") /\ UNCHANGED occ
     \/ /\ pane' \in {pane, [pane EXCEPT ![a].st = "closed"]}
        /\ occ' = IF exec[p].held = "closing" /\ Holds(a)
                  THEN [occ EXCEPT !.state = "quarantined"] ELSE occ
        /\ AfterFailedClose(p)
  /\ UNCHANGED <<storeVars, owner, intent, bind, inst>>

(* The entry is deleted only if no one has changed it meanwhile. *)
FreeWorkspace(p) ==
  LET a == exec[p].a
      same == Holds(a) /\ occ.state = exec[p].held
  IN
  /\ At(p, "free")
  /\ IF exec[p].held = "none" \/ same
     THEN /\ occ' = IF same THEN FreeEntry ELSE occ
          /\ IF exec[p].then = "idle" THEN Finish(p) ELSE Goto(p, exec[p].then)
     ELSE UNCHANGED occ /\ AfterFailedClose(p)
  /\ UNCHANGED <<storeVars, owner, intent, bind, pane, inst>>

(***************************************************************************)
(* Claim and dispatch (activity.ts, dispatchClaimedWorker, startAgent).    *)
(***************************************************************************)
ClaimWorker(p, s, a) ==
  /\ p \in Activities /\ At(p, "idle") /\ Kind[s] = "worker"
  /\ ClaimReadyStep(s, a, step[s].version)
  /\ owner' = [owner EXCEPT ![a] = inst]
  /\ exec' = [exec EXCEPT ![p] = [Idle EXCEPT !.pc = "occupy", !.a = a,
                                  !.sv = step[s].version + 1, !.lv = 1]]
  /\ UNCHANGED <<intent, bind, pane, occ, inst>>

(* Nothing was sent to Herdr: the entry, if it was acquired, is given back. *)
NotStarted(p) ==
  /\ exec' = [exec EXCEPT ![p].pc = "fail", ![p].lv = 0]
  /\ occ' = IF Holds(exec[p].a) /\ occ.state = "active" THEN FreeEntry ELSE occ

OccupyWorkspace(p) ==
  /\ At(p, "occupy")
  /\ \/ /\ granted /\ occ.state = "free"
        /\ occ' = [state |-> "active", att |-> exec[p].a, inst |-> inst]
        /\ Goto(p, "intent")
     \/ NotStarted(p)
  /\ UNCHANGED <<storeVars, owner, intent, bind, pane, inst>>

RecordWorkerLaunchIntent(p) ==
  LET a == exec[p].a IN
  /\ At(p, "intent")
  /\ \/ /\ Active /\ HoldsWorker(p) /\ ~lease[a].expired /\ bind[a].at = "none"
        /\ intent' = intent \cup {a}
        /\ Goto(p, "send") /\ UNCHANGED occ
     \/ NotStarted(p) /\ UNCHANGED intent
  /\ UNCHANGED <<storeVars, owner, bind, pane, inst>>

RequestTab(p) ==
  /\ At(p, "send")
  /\ pane' = [pane EXCEPT ![exec[p].a].st = "sent"]
  /\ Goto(p, "tab")
  /\ UNCHANGED <<storeVars, owner, intent, bind, occ, inst>>

RequestAgent(p) ==
  /\ At(p, "tab") /\ pane[exec[p].a].st = "tab"
  /\ pane' = [pane EXCEPT ![exec[p].a].st = "starting"]
  /\ Goto(p, "agent")
  /\ UNCHANGED <<storeVars, owner, intent, bind, occ, inst>>

(* The snapshot after the start shows the agent. *)
VerifyAgent(p) ==
  /\ At(p, "agent") /\ pane[exec[p].a].st = "agent"
  /\ Goto(p, "bind")
  /\ UNCHANGED <<storeVars, owner, intent, bind, pane, occ, inst>>

(* Mutant: the entry is given back although a tab may still appear. *)
LaunchFreed(p) ==
  /\ exec[p].pc \in {"send", "tab", "agent"}
  /\ occ' = FreeEntry
  /\ exec' = [exec EXCEPT ![p].pc = "settle", ![p].lv = 0]
  /\ UNCHANGED <<storeVars, owner, intent, bind, pane, inst>>

(* startAgent throws: no pane is known, so the entry is quarantined. *)
LaunchFails(p) ==
  /\ exec[p].pc \in {"send", "tab", "agent"}
  /\ QuarantineOccupancy(p, exec[p].a)
  /\ exec' = [exec EXCEPT ![p].pc = "settle", ![p].lv = 0]
  /\ UNCHANGED <<storeVars, owner, intent, bind, pane, inst>>

BindWorker(p) ==
  LET a == exec[p].a IN
  /\ At(p, "bind")
  /\ task.status = "RUNNING" /\ att[a].status = "running" /\ bind[a].at = "none"
  /\ bind' = [bind EXCEPT ![a].at = "bound", ![a].upd = Now(a)]
  /\ Goto(p, "attach")
  /\ UNCHANGED <<storeVars, owner, intent, pane, occ, inst>>

AttachClaimedWorkerBinding(p) ==
  LET a == exec[p].a IN
  /\ At(p, "attach")
  /\ Active /\ task.status # "REVIEW"
  /\ HoldsWorker(p) /\ ~lease[a].expired /\ bind[a].at = "bound"
  /\ bind' = [bind EXCEPT ![a].at = "attached"]
  /\ lease' = [lease EXCEPT ![a].version = @ + 1]
  /\ Goto(p, "prompt")
  /\ UNCHANGED <<task, step, att, wait, run, ckpt, attn, granted, owner, intent, pane, occ, inst>>

PromptAgent(p) ==
  /\ At(p, "prompt") /\ pane[exec[p].a].st = "agent"
  /\ pane' = [pane EXCEPT ![exec[p].a].prompt = TRUE]
  /\ Goto(p, "mark")
  /\ UNCHANGED <<storeVars, owner, intent, bind, occ, inst>>

MarkWorkerPromptDispatched(p) ==
  LET a == exec[p].a IN
  /\ At(p, "mark")
  /\ bind' = [bind EXCEPT ![a].prompted = TRUE, ![a].upd = Now(a)]
  /\ Finish(p)
  /\ UNCHANGED <<storeVars, owner, intent, pane, occ, inst>>

(* Any error once the pane is known: failedDispatch closes the Worker. *)
DispatchFails(p) ==
  /\ \/ exec[p].pc \in {"bind", "attach", "prompt", "mark"}
     \/ At(p, "agent") /\ pane[exec[p].a].st = "agent"
  /\ BeginClose(p, exec[p].a, [exec[p] EXCEPT !.then = "settle", !.lv = 0])
  /\ UNCHANGED <<storeVars, owner, intent, bind, pane, inst>>

(* lv 0: the lease is read again just before it is settled. *)
SettleWorker(p) ==
  LET a == exec[p].a
      lv == IF exec[p].lv = 0 THEN lease[a].version ELSE exec[p].lv
      outcome == IF At(p, "fail") THEN "failed" ELSE "unknown"
  IN
  /\ exec[p].pc \in {"fail", "settle"}
  /\ \/ SettleClaimedStep(StepOf(p), a, exec[p].sv, lv, outcome)
     \/ UNCHANGED storeVars /\ ~(Active /\ HoldsClaim(StepOf(p), a, exec[p].sv, lv))
  /\ Finish(p)
  /\ UNCHANGED <<owner, intent, bind, pane, occ, inst>>

(***************************************************************************)
(* Observation (observeClaimedWorkerState, DurableWorkerObserver).         *)
(***************************************************************************)
(* The last meaningful observation, or what the binding was created with.  *)
PreviousState(a) == IF bind[a].prev = "none" THEN bind[a].last ELSE bind[a].prev

(* Mutant: an agent at rest has completed. *)
CompletedAtRest(a, state) == state \in {"idle", "done"}

(* An agent that says it is done has completed its turn, whatever was seen  *)
(* before.  Only Pi agents are dispatched here; they also complete by going *)
(* idle after they were seen working.                                       *)
Completed(a, state) ==
  \/ state = "done"
  \/ /\ state = "idle"
     /\ \/ PreviousState(a) = "working"
        \/ bind[a].prev = "idle" /\ bind[a].done

Invalidates(a, state) == state = "working" /\ bind[a].cand > 0

(* A Trace event is appended when the state changes, at the first one, and *)
(* when a captured candidate is newly invalidated.                         *)
Recorded(a, state) ==
  \/ bind[a].last # state \/ bind[a].prev = "none"
  \/ Invalidates(a, state) /\ ~bind[a].inval

CanObserve(a) ==
  /\ Active /\ task.status # "REVIEW"
  /\ att[a].status = "running" /\ step[att[a].step].status = "running"
  /\ lease[a].state = "active" /\ ~lease[a].expired
  /\ Attached(a) /\ bind[a].prompted

ObserveClaimedWorkerState(a, state, k) ==
  /\ CanObserve(a) /\ k >= bind[a].upd
  /\ bind' = [bind EXCEPT ![a].last = state, ![a].upd = k,
       ![a].prev = IF Recorded(a, state) /\ state # "unknown" THEN state ELSE @,
       ![a].done = IF Recorded(a, state) /\ state # "unknown" THEN Completed(a, state) ELSE @,
       ![a].inval = @ \/ Invalidates(a, state)]
  /\ attn' = CASE state = "blocked" -> attn \cup {AttemptAttn(a)}
               [] state = "working" -> attn \ {AttemptAttn(a)}
               [] OTHER -> attn
  /\ task' = [task EXCEPT !.status =
       IF state = "blocked" THEN "WAITING_INPUT"
       ELSE IF /\ state = "working" /\ @ = "WAITING_INPUT" /\ attn' = {}
               /\ ~OtherIn(att[a].step, {"blocked", "failed"}) /\ ~AnyWaiting
            THEN "RUNNING" ELSE @]
  /\ UNCHANGED <<step, att, lease, wait, run, ckpt, granted>>

(* A capture in progress is fenced by the time and the event sequence of    *)
(* its own observation: another one spoils it, unless it fell into the same *)
(* instant and appended no event.                                           *)
OthersAreStale(a, state) ==
  {[p \in DOMAIN exec |-> IF exec[p].a = a THEN [exec[p] EXCEPT !.fresh = @ /\ same] ELSE exec[p]] :
      same \in IF Recorded(a, state) THEN {FALSE} ELSE BOOLEAN}

(* The server records what it sees, however late the event arrives, and    *)
(* "unknown" when it loses the session or the pane; it settles nothing.    *)
ServerObserves(a) ==
  \E k \in bind[a].upd..Now(a) :
    \E state \in {"unknown"} \cup (IF k > 0 THEN {pane[a].hist[k]} ELSE {}) :
      /\ ObserveClaimedWorkerState(a, state, k)
      /\ exec' \in OthersAreStale(a, state)
      /\ UNCHANGED <<owner, intent, pane, occ, inst>>

(* HerdrWorkerRuntime.observe: the lease, the binding and then a snapshot. *)
Observable(p, s, a) ==
  /\ p \in Activities /\ At(p, "idle") /\ Active /\ task.status # "REVIEW"
  /\ Kind[s] = "worker" /\ step[s].status = "running"
  /\ att[a].step = s /\ lease[a].state = "active"
  /\ owner[a] # inst => lease[a].expired

Claim(s, a) ==
  [Idle EXCEPT !.a = a, !.sv = step[s].version, !.lv = lease[a].version, !.k = Now(a)]
Confirmed(a) == Attached(a) /\ bind[a].prompted

(* Past the expiry, a dispatch that was never confirmed is closed, or      *)
(* quarantined when no pane is known.                                      *)
ObserveUnconfirmed(p, s, a) ==
  /\ Observable(p, s, a) /\ ~Confirmed(a) /\ lease[a].expired
  /\ IF bind[a].at = "none"
     THEN /\ QuarantineOccupancy(p, a)
          /\ exec' = [exec EXCEPT ![p] = Onward(Claim(s, a), "settle")]
     ELSE BeginClose(p, a, [Claim(s, a) EXCEPT !.then = "settle"])
  /\ UNCHANGED <<storeVars, owner, intent, bind, pane, inst>>

(* No snapshot before the expiry, or a snapshot without the exact pane. *)
ObserveLost(p, s, a) ==
  /\ Observable(p, s, a) /\ Confirmed(a)
  /\ pane[a].st # "agent" \/ lease[a].expired
  /\ QuarantineOccupancy(p, a)
  /\ exec' = [exec EXCEPT ![p] = Onward(Claim(s, a), "settle")]
  /\ UNCHANGED <<storeVars, owner, intent, bind, pane, inst>>

ObserveDenied(p, s, a) ==
  /\ Observable(p, s, a) /\ Confirmed(a) /\ pane[a].st = "agent" /\ ~granted
  /\ BeginClose(p, a, [Claim(s, a) EXCEPT !.then = "settle"])
  /\ UNCHANGED <<storeVars, owner, intent, bind, pane, inst>>

ObserveLive(p, s, a) ==
  /\ Observable(p, s, a) /\ Confirmed(a) /\ pane[a].st = "agent" /\ granted
  /\ exec' = [exec EXCEPT ![p] =
       [Claim(s, a) EXCEPT !.pc = IF lease[a].expired THEN "recover" ELSE "observe"]]
  /\ UNCHANGED <<storeVars, owner, intent, bind, pane, occ, inst>>

(* The replacement becomes the owner; a lost race leaves the lease alone. *)
RecoverClaimedWorkerLease(p) ==
  LET a == exec[p].a
      held == Active /\ granted /\ HoldsClaim(StepOf(p), a, exec[p].sv, exec[p].lv)
              /\ lease[a].expired
  IN
  /\ At(p, "recover")
  /\ IF held
     THEN /\ lease' = [lease EXCEPT ![a].expired = FALSE,
                       ![a].version = IF @ < MaxLeaseVersion THEN @ + 1 ELSE @]
          /\ owner' = [owner EXCEPT ![a] = inst]
          /\ Goto(p, "observe")
     ELSE UNCHANGED <<lease, owner>> /\ Finish(p)
  /\ UNCHANGED <<task, step, att, wait, run, ckpt, attn, granted, intent, bind, pane, occ, inst>>

(* observeSnapshot for the claims of this owner. *)
ObserveSnapshot(p) ==
  LET a == exec[p].a
      state == IF exec[p].k > 0 THEN pane[a].hist[exec[p].k] ELSE "unknown"
  IN
  /\ At(p, "observe")
  /\ IF owner[a] = inst /\ CanObserve(a) /\ exec[p].k >= bind[a].upd
     THEN /\ ObserveClaimedWorkerState(a, state, exec[p].k)
          /\ \E others \in OthersAreStale(a, state) :
               exec' = [others EXCEPT ![p] = IF Completed(a, state)
                 THEN Onward([Claim(StepOf(p), a) EXCEPT !.fresh = TRUE, !.k = exec[p].k], "capture")
                 ELSE Onward(@, "beat")]
     ELSE UNCHANGED <<storeVars, bind>> /\ Goto(p, "beat")
  /\ UNCHANGED <<owner, intent, pane, occ, inst>>

(* The state with which the observation at position k completed the turn.  *)
SawAtRest(p) == pane[exec[p].a].hist[exec[p].k]

(* The first capture is kept; otherwise the pane is read, still at rest in *)
(* the same state.                                                         *)
CaptureCandidate(p) ==
  LET a == exec[p].a IN
  /\ At(p, "capture")
  /\ \/ bind[a].cand > 0 /\ Goto(p, "record")
     \/ /\ bind[a].cand = 0 /\ pane[a].st = "agent" /\ pane[a].hist[Now(a)] = SawAtRest(p)
        /\ exec' = [exec EXCEPT ![p] = Onward([@ EXCEPT !.k = Now(a)], "record")]
     \/ Finish(p)
  /\ UNCHANGED <<storeVars, owner, intent, bind, pane, occ, inst>>

RecordWorkerCandidate(p) ==
  LET a == exec[p].a
      held == HoldsWorker(p) /\ ~lease[a].expired /\ Attached(a)
  IN
  /\ At(p, "record")
  /\ \/ /\ held /\ bind[a].inval
        /\ Goto(p, "settle") /\ UNCHANGED bind
     \/ /\ held /\ ~bind[a].inval /\ bind[a].last = SawAtRest(p) /\ exec[p].fresh
        /\ bind' = [bind EXCEPT ![a].cand = IF @ = 0 THEN exec[p].k ELSE @]
        /\ Goto(p, "review")
     \/ /\ held /\ ~bind[a].inval /\ (bind[a].last # SawAtRest(p) \/ ~exec[p].fresh)
        /\ Goto(p, "beat") /\ UNCHANGED bind
     \/ ~held /\ Finish(p) /\ UNCHANGED bind
  /\ UNCHANGED <<storeVars, owner, intent, pane, occ, inst>>

SettleReviewedWorker(p) ==
  LET a == exec[p].a
      held == /\ Active /\ HoldsWorker(p) /\ Attached(a)
              /\ ~bind[a].inval /\ bind[a].last = SawAtRest(p)
  IN
  /\ At(p, "review")
  /\ \/ /\ held
        /\ MoveStep(StepOf(p), "review") /\ MoveAttempt(a, "review") /\ MoveLease(a, "released")
        /\ attn' = attn \ {AttemptAttn(a)}
        /\ Finish(p)
     \/ /\ ~held \/ ~exec[p].fresh
        /\ IF Active THEN Goto(p, "beat") ELSE Finish(p)
        /\ UNCHANGED <<step, att, lease, attn>>
  /\ UNCHANGED <<task, wait, run, ckpt, granted, owner, intent, bind, pane, occ, inst>>

(* What is left of observe: the claim is read again and its lease renewed. *)
RenewWorkerLease(p) ==
  LET a == exec[p].a IN
  /\ At(p, "beat")
  /\ \/ /\ CanObserve(a) /\ owner[a] = inst
        /\ Heartbeat(a, lease[a].version)
        /\ Finish(p) /\ UNCHANGED occ
     \/ /\ lease[a].state = "active" /\ lease[a].expired /\ owner[a] = inst
        /\ step[StepOf(p)].status = "running" /\ Attached(a)
        /\ QuarantineOccupancy(p, a)
        /\ exec' = [exec EXCEPT ![p].pc = "settle", ![p].lv = lease[a].version,
                                ![p].sv = step[StepOf(p)].version]
        /\ UNCHANGED storeVars
     \/ /\ lease[a].state # "active" \/ owner[a] # inst
        /\ Finish(p) /\ UNCHANGED <<storeVars, occ>>
  /\ UNCHANGED <<owner, intent, bind, pane, inst>>

(***************************************************************************)
(* Cancellation and quarantine: close the exact pane, then settle.         *)
(***************************************************************************)
CancelWorker(p, s, a) ==
  /\ p \in Activities /\ At(p, "idle") /\ CancelPending
  /\ Kind[s] = "worker" /\ step[s].status = "running"
  /\ att[a].step = s /\ lease[a].state = "active" /\ Attached(a)
  /\ BeginClose(p, a, [Claim(s, a) EXCEPT !.then = "cancel"])
  /\ UNCHANGED <<storeVars, owner, intent, bind, pane, inst>>

SettleClaimedWorkerCancellation(p) ==
  LET a == exec[p].a
      held == CancelPending /\ HoldsClaim(StepOf(p), a, exec[p].sv, exec[p].lv)
  IN
  /\ At(p, "cancel")
  /\ IF held
     THEN MoveStep(StepOf(p), "cancelled") /\ MoveAttempt(a, "canceled") /\ MoveLease(a, "released")
     ELSE UNCHANGED <<step, att, lease>>
  /\ Finish(p)
  /\ UNCHANGED <<task, wait, run, ckpt, attn, granted, owner, intent, bind, pane, occ, inst>>

Reconcilable(p, s, a) ==
  /\ p \in Activities /\ At(p, "idle") /\ Kind[s] = "worker"
  /\ \/ Active /\ task.status # "REVIEW" /\ step[s].status = "blocked"
     \/ CancelPending /\ step[s].status = "cancelled"
  /\ att[a].step = s /\ lease[a].state = "quarantined"

ReconcileBound(p, s, a) ==
  /\ Reconcilable(p, s, a) /\ Attached(a)
  /\ BeginClose(p, a, [Claim(s, a) EXCEPT !.then = "closure"])
  /\ UNCHANGED <<storeVars, owner, intent, bind, pane, inst>>

(* Mutant: no pane at all is taken for a closed one. *)
ReconcileAbsentLaunch(p, s, a) ==
  /\ Reconcilable(p, s, a) /\ ~Attached(a) /\ a \in intent
  /\ exec' = [exec EXCEPT ![p] = [Claim(s, a) EXCEPT !.pc = "launch", !.k = 0]]
  /\ UNCHANGED <<storeVars, owner, intent, bind, pane, occ, inst>>

(* Absence does not fence a request still in flight: exactly one marked    *)
(* pane must be there.  One without an agent is closed only under a        *)
(* quarantined entry, or none.                                             *)
ReconcileLaunch(p, s, a) ==
  /\ Reconcilable(p, s, a) /\ ~Attached(a) /\ a \in intent
  /\ \/ pane[a].st = "agent"
     \/ pane[a].st \in {"tab", "starting"} /\ (Holds(a) => occ.state = "quarantined")
  /\ BeginClose(p, a, [Claim(s, a) EXCEPT !.then = "launch"])
  /\ UNCHANGED <<storeVars, owner, intent, bind, pane, inst>>

(* The Attempt and its lease end; the Step stays blocked until a rework.    *)
SettleClosure(p, verified) ==
  LET a == exec[p].a
      held == /\ Active \/ CancelPending
              /\ HoldsQuarantine(StepOf(p), a, IF CancelPending THEN "cancelled" ELSE "blocked",
                                 exec[p].sv, exec[p].lv)
              /\ verified
  IN
  /\ IF held
     THEN MoveAttempt(a, IF CancelPending THEN "canceled" ELSE "failed") /\ MoveLease(a, "released")
     ELSE UNCHANGED <<att, lease>>
  /\ Finish(p)
  /\ UNCHANGED <<task, step, wait, run, ckpt, attn, granted, owner, intent, bind, pane, occ, inst>>

SettleQuarantinedWorkerStepClosure(p) ==
  At(p, "closure") /\ SettleClosure(p, Attached(exec[p].a))

(* A launch without a binding is settled by its intent. *)
SettleQuarantinedWorkerLaunchClosure(p) ==
  At(p, "launch") /\ SettleClosure(p, exec[p].a \in intent /\ bind[exec[p].a].at = "none")

(***************************************************************************)
(* The owner's decisions, in the server.  A reviewed Worker is closed      *)
(* before the store is asked.                                              *)
(***************************************************************************)
CloseReviewedWorker(s, a, then) ==
  /\ At(Server, "idle") /\ Kind[s] = "worker" /\ step[s].status = "review"
  /\ Latest(s, a) /\ att[a].status = "review"
  /\ BeginClose(Server, a, [Claim(s, a) EXCEPT !.then = then])
  /\ UNCHANGED <<storeVars, owner, intent, bind, pane, inst>>

DecideReview ==
  LET a == exec[Server].a
      s == StepOf(Server)
  IN
  /\ exec[Server].pc \in {"accept", "rework"}
  /\ \/ At(Server, "accept") /\ AcceptDurableStep(s, a, exec[Server].sv)
     \/ At(Server, "rework") /\ ReworkDurableStep(s, a, exec[Server].sv)
     \/ UNCHANGED storeVars /\ ~(Active /\ step[s].status = "review")
  /\ Finish(Server)
  /\ UNCHANGED <<owner, intent, bind, pane, occ, inst>>

(* A blocked Worker Step may be reworked once its closure is verified. *)
ReworkClosedWorker(s, a) ==
  /\ Active /\ Kind[s] = "worker" /\ step[s].status = "blocked"
  /\ ~StepOwned(s) /\ Latest(s, a) /\ att[a].status = "failed"
  /\ step' = [step EXCEPT ![s].status = "ready", ![s].version = @ + 1, ![s].base = att[a].num]
  /\ task' = [task EXCEPT !.status =
       IF OtherIn(s, {"blocked", "failed"}) THEN "WAITING_INPUT"
       ELSE IF @ \in {"WAITING_INPUT", "REVIEW"} THEN "RUNNING" ELSE @]
  /\ attn' = IF OtherIn(s, {"blocked"}) THEN attn ELSE attn \ {TaskAttn}
  /\ UNCHANGED <<att, lease, wait, run, ckpt, granted, workerVars>>

(***************************************************************************)
(* Herdr, time and failures.                                               *)
(***************************************************************************)
TabAppears(a) ==
  /\ pane[a].st = "sent"
  /\ pane' = [pane EXCEPT ![a].st = "tab"]
  /\ UNCHANGED <<storeVars, owner, intent, bind, occ, exec, inst>>

AgentAppears(a) ==
  /\ pane[a].st = "starting"
  /\ pane' = [pane EXCEPT ![a].st = "agent", ![a].hist = <<"idle">>]
  /\ UNCHANGED <<storeVars, owner, intent, bind, occ, exec, inst>>

(* A turn begins after a prompt.  Herdr need not report its working phase;  *)
(* an agent that is done goes idle once somebody has looked at it.          *)
Moves == [idle |-> {"working", "done"}, working |-> {"idle", "blocked", "done"},
          blocked |-> {"working"}, done |-> {"idle", "working"}]

AgentMoves(a) ==
  /\ pane[a].st = "agent" /\ Now(a) < MaxMoves[att[a].num]
  /\ \E state \in Moves[pane[a].hist[Now(a)]] :
       /\ state \in {"working", "done"} => pane[a].prompt
       /\ pane' = [pane EXCEPT ![a].hist = Append(@, state)]
  /\ UNCHANGED <<storeVars, owner, intent, bind, occ, exec, inst>>

(* Someone closes the tab, or its agent ends. *)
PaneIsLost(a) ==
  /\ pane[a].st \in {"tab", "starting", "agent"}
  /\ pane' = [pane EXCEPT ![a].st = "closed"]
  /\ UNCHANGED <<storeVars, owner, intent, bind, occ, exec, inst>>

WorkerProcessCrashes ==
  /\ inst < MaxInstance
  /\ inst' = inst + 1
  /\ exec' = [p \in DOMAIN exec |-> IF p \in Activities THEN Idle ELSE exec[p]]
  /\ UNCHANGED <<storeVars, owner, intent, bind, pane, occ>>

(* The supervisor quarantines every entry it finds; before it serves, it    *)
(* may close the bound pane of a quarantined entry and free the workspace,  *)
(* whatever the Attempt is doing.                                           *)
ServerRestarts ==
  /\ occ' = IF occ.state = "free" THEN occ ELSE [occ EXCEPT !.state = "quarantined"]
  /\ \/ exec' = [exec EXCEPT ![Server] = Idle]
     \/ /\ occ.state # "free" /\ bind[occ.att].at # "none"
        /\ exec' = [exec EXCEPT ![Server] = [Idle EXCEPT !.pc = "close", !.a = occ.att,
                                                       !.held = "quarantined", !.then = "idle"]]
  /\ UNCHANGED <<storeVars, owner, intent, bind, pane, inst>>

(* The rest of the store, called by its other callers. *)
StoreMoves ==
  /\ \/ \E s \in Steps : \/ TransitionStep(s, step[s].version, "pending", "ready")
                         \/ MarkTaskNeedsAttention(s)
     \/ \E a \in Attempts : LeaseExpires(a)
     \/ MarkTaskReview \/ AcceptDurableTask
     \/ RequestDurableCancellation \/ SettleDurableCancellation
     \/ granted /\ ChangeGrant
  /\ UNCHANGED workerVars

WorkersInit ==
  /\ Init
  /\ owner = [a \in Attempts |-> 0]
  /\ intent = {}
  /\ bind = [a \in Attempts |-> [at |-> "none", prompted |-> FALSE, last |-> "starting",
                                 upd |-> 0, prev |-> "none", done |-> FALSE,
                                 inval |-> FALSE, cand |-> 0]]
  /\ pane = [a \in Attempts |-> [st |-> "none", prompt |-> FALSE, hist |-> <<>>]]
  /\ occ = FreeEntry
  /\ exec = [p \in Activities \cup {Server} |-> Idle]
  /\ inst = 1

DispatchNext(p) ==
  \/ OccupyWorkspace(p) \/ RecordWorkerLaunchIntent(p) \/ RequestTab(p) \/ RequestAgent(p)
  \/ VerifyAgent(p) \/ LaunchFails(p) \/ BindWorker(p) \/ AttachClaimedWorkerBinding(p)
  \/ PromptAgent(p) \/ MarkWorkerPromptDispatched(p) \/ DispatchFails(p) \/ SettleWorker(p)

ObserveNext(p) ==
  \/ RecoverClaimedWorkerLease(p) \/ ObserveSnapshot(p) \/ CaptureCandidate(p)
  \/ RecordWorkerCandidate(p) \/ SettleReviewedWorker(p) \/ RenewWorkerLease(p)
  \/ SettleClaimedWorkerCancellation(p)
  \/ SettleQuarantinedWorkerStepClosure(p) \/ SettleQuarantinedWorkerLaunchClosure(p)

BeginNext(p, s, a) ==
  \/ ClaimWorker(p, s, a)
  \/ ObserveUnconfirmed(p, s, a) \/ ObserveLost(p, s, a)
  \/ ObserveDenied(p, s, a) \/ ObserveLive(p, s, a)
  \/ CancelWorker(p, s, a) \/ ReconcileBound(p, s, a) \/ ReconcileLaunch(p, s, a)

WorkersNext ==
  \/ \E p \in Activities :
       \/ DispatchNext(p) \/ ObserveNext(p)
       \/ \E s \in Steps, a \in Attempts : BeginNext(p, s, a)
  \/ \E p \in Activities \cup {Server} : ClosePane(p) \/ FreeWorkspace(p)
  \/ \E s \in Steps, a \in Attempts :
       \/ \E then \in {"accept", "rework"} : CloseReviewedWorker(s, a, then)
       \/ ReworkClosedWorker(s, a)
  \/ DecideReview
  \/ \E a \in Attempts : \/ ServerObserves(a) \/ TabAppears(a) \/ AgentAppears(a)
                         \/ AgentMoves(a) \/ PaneIsLost(a)
  \/ WorkerProcessCrashes \/ ServerRestarts
  \/ StoreMoves

WorkersSpec == WorkersInit /\ [][WorkersNext]_<<storeVars, workerVars>>

(* The workspace has one writer.  A Worker that is alive, or whose tab may  *)
(* still appear, holds the write-occupancy entry, so no other Worker can be *)
(* started in the workspace: not by a retry or a rework, not after a crash, *)
(* a late tab, a failed close or an expired lease.                          *)
EveryWorkerHoldsTheWorkspace ==
  \A a \in Attempts : pane[a].st \in Launching \cup {"agent"} => Holds(a)

(* A claim is given up as failed or cancelled, and a reviewed Step accepted *)
(* or reworked, only when its Worker is gone and none can appear.           *)
DecidedWorkerIsGone ==
  \A a \in Attempts :
    \/ att[a].status \in {"failed", "succeeded", "canceled"}
    \/ att[a].status = "review" /\ ~Latest(att[a].step, a)
    => pane[a].st \in {"none", "closed"}

(* What is put up for review is a finished turn: the pane was prompted, and *)
(* where the candidate was captured its agent had reported that it was done *)
(* or, after it went to work, that it was idle again.  An agent that is     *)
(* idle before its turn, blocked or out of sight is never put up.           *)
ReviewedWorkerFinished ==
  \A a \in Attempts :
    att[a].status \in {"review", "succeeded"} =>
      /\ bind[a].cand > 0 /\ pane[a].prompt
      /\ \/ pane[a].hist[bind[a].cand] = "done"
         \/ /\ pane[a].hist[bind[a].cand] = "idle"
            /\ \E i \in 1..bind[a].cand : pane[a].hist[i] = "working"

=============================================================================
