# A verification project for the Glassbox long-work system

Glassbox (`src/apps/server`) is an agent server. Its most delicate part is *durable long
work*: an owner accepts a plan, a Task of dependent Steps, and the Task must survive
crashes, lost responses, overlapping executions, revoked grants, retries, rework and
cancellation without running a side effect twice or reporting one falsely. This directory
holds TLA+ modules of that part, TLC configurations, and theorems checked with TLAPS.

Paths below are relative to `src/apps/server/src` unless they start with another
directory of `src/`.

## 1. Inventory

### 1.1 Components

| Component | State | Operations | Talks to | What makes it correct |
|---|---|---|---|---|
| Long-work store (`ops/long-work-store.ts`) | tables of Tasks, Steps, Attempts, leases, waits, attention items, all with versions | about forty methods, each one serialised write transaction with compare-and-set on versions | everything below | an open outcome has one owner; a Step waits exactly while it has a wait; a cancelled Task starts nothing; a reviewed Task is complete; decisions are final |
| Task graph (`ops/task-graph.ts`) | none | `validateTaskGraph`, `computeTaskGraphProgress`: topological order, effect of failed/cancelled/skipped dependencies, admission limits | scheduler | a Step is decided exactly by its dependencies and their policies |
| Long-work scheduler (`ops/long-work-scheduler.ts`) | none; a loop of store transactions | `advance`, `settleOpenJoins` | graph, store | it reaches a fixpoint; limits hold; every Step is decided |
| Long-work Activity (`ops/temporal/activity.ts`) | what one execution has read | `advanceLongWork`: settle a cancellation, fire a due wait, schedule, observe running and blocked Steps, claim ready Steps, create Runs, conclude | store, conversation store, authority; run by Temporal with timeouts and retries | every claim is decided, and on the evidence of the Run |
| Workflow (`ops/temporal/workflow.ts`) | wake signal, timer | advance, sleep, Continue-As-New | Activity | no wake-up is lost |
| Coordinator, bindings (`ops/temporal/coordinator.ts`, `binding-store.ts`) | workflow binding of a Task | start, wake, recover | Temporal | one workflow per Task, found again after a restart |
| Authorized operations service (`ops/service.ts`) | none between transactions | cancel, signal, acceptStep, reworkStep, accept | store, coordinator, Run service | what the owner asked for takes effect once |
| Conversation store and Run lifecycle (`conversation/store.ts`, `lifecycle.ts`) | Runs, messages, deliveries | create, claim, settle, recover Runs and deliveries | Run service | a Run has one executor; a delivery is sent at most once |
| Run service (`execution/run-service/`) | queue of each conversation, live executors | dispatch, execute, cancel, restart | conversation store, executors | an internal Run starts only under its live claim and grant |
| Herdr Workers (`ops/temporal/herdr-worker-runtime.ts`, `ops/durable-worker-observer.ts`) | launch intents, bindings to external panes | launch, observe, recover lease, close | Herdr bridge (external), store | an unknown launch is never repeated |
| Continuations (`ops/continuation-*.ts`) | schedules with generations, occurrences | create, occur, acknowledge, revise | Temporal | an occurrence belongs to the current generation |
| Notifications and delivery (`ops/task-notification-store.ts`, `delivery/`) | outbox rows, send claims, attention items | claim, send, settle, recover | channels | a send with an unknown outcome is not repeated |
| Herdr-only Tasks (`ops/task-store.ts`, `ops/reconciler.ts`) | Tasks bound to panes | reconcile with observations | Herdr bridge | a stale observation changes nothing |
| Write occupancy (`workspace/write-occupancy.ts`) | occupancy of directories across processes | acquire, release, quarantine | file system | one writer per directory |
| Authority (`ops/long-work-authority.ts`, `auth/`) | grants, delegations | check, revoke | everything | nothing continues under a revoked grant |
| Learning (`learning/`) | memory candidates and their sources | promote, revoke | Runs | a revoked source leaves no memory |

`PROJECT.json` lists these and the remaining components (retrieval, web, media, model
runtime, management routes, evaluation, viewers), with the reason why each is or is not
modelled.

### 1.2 Interaction

```
 owner --> AuthorizedOpsService --+                  +-- RunService --> executors
             |  wake              |                  |   (server process)
             v                    v                  v
        longWorkWorkflow     LongWorkStore  <---  conversation store
             |  Activity          ^
             v                    |
        advanceLongWork ----------+   (Temporal Worker process)
```

The actors share nothing but the database. Each store method is one serialised
transaction; between two transactions an actor holds only what it read, with the version
it read it at. The server and the Temporal Worker are separate processes that fail
independently.

### 1.3 What is hard

* An Activity execution is retried after its one-minute timeout while the old one may
  still be running (`workflow.ts:20`): two programs act on the same rows.
* A Run is created in one transaction after its claim in another: every crash, lost
  response, revoked grant or expired lease may fall in between.
* A server restart ends every executor, and the outcome of a write may be unknown.
* Cancellation is two transactions in the service, a loop in the Activity, and an
  interruption in RunService, with a wake-up that must not be missing.
* Quarantine, reconciliation, retry and rework take Steps *back*, while the graph is
  driven forward from derived states.

The hazards are listed in `PROJECT.json` at their lines, with the properties that
would catch each of them, or a note where no property does.

## 2. Modules

| Module | Models | Kind |
|---|---|---|
| `LongWorkStore` | the transactions of the long-work store, of internal Runs and checkpoints | state machine, one action per method; `StoreSpec` |
| `TaskGraph` | validation, topological order, policy outcomes, progress | operators, no state |
| `GraphScheduler` | `LongWorkScheduler.advance` run to its fixpoint, while executors end Steps and an owner reviews | state machine; `GraphSpec` |
| `OwnedWork` | what ownership of Steps promises, with no leases, versions or Activities | abstract specification; `OwnedSpec` |
| `LongWork` | the workflow, executions of the Activity, RunService, the owner and the faults, over `LongWorkStore` and `TaskGraph` | composition; `LongWorkSpec` |
| `WorkerSteps` | Herdr Worker Steps: launch, prompt, observation, recovery, closure, write occupancy, over `LongWorkStore` | composition; `WorkersSpec` |
| `ChildTasks` | child Task Steps: links, observation, cancellation down and back up | state machine |
| `RunService` | external Runs: queue, execution, settlement, delivery, restart | state machine |
| `TaskNotices` | the outbox of Task notifications and its pump | state machine |
| `Continuations` | continuation schedules and the workflow that fires them | state machine |
| `WorkflowBindings` | how a durable Task gets its workflow, and wakes it | state machine |
| `HerdrTasks` | Tasks without Steps: Attempts in panes, and the reconciler | state machine |
| `MemoryStore` | memories and suggestions, with the sources they rest on | state machine |
| `SourceAuthority` | protected content, the ledger of a Run, and the checks before content leaves | state machine |
| `MC...` | | instances for TLC |
| `...Proofs` | | theorems about the module they are named after: `LongWorkStore`, `GraphScheduler`, `LongWork`, `WorkerSteps`, `RunService`, `HerdrTasks`; `TaskSignalsProofs` about `TaskNotices`, `Continuations` and `ChildTasks`, `ContentProofs` about `MemoryStore` and `SourceAuthority` |

An action is the whole of a transaction or of one external call: its checks are conjuncts,
all its writes happen at once. Two transactions of one method are two actions, with a
program counter between them. Definitions marked "Mutant" are plausible bugs the mutants of
`PROJECT.json` use; no action does.

### 2.1 LongWorkStore

`task`, `step`, `att`, `lease`, `wait`, `attn` are the tables of the same name; `run` the
Run of an Attempt; `ckpt` the checkpoints written; `granted` the owner's continuation
grant. A failed check (an exception that rolls the transaction back) is the action
not being enabled. Versions are counted, because callers pass the version they read;
only lease versions are bounded (`MaxLeaseVersion`), since a heartbeat alone never ends.
`HoldsClaim` and `HoldsQuarantine` are the checks the settlements share.

A Step's kind is `model` (a Run whose result can be read off it, `task_get` included),
`write` (a `checkpoint_write` Tool Step, whose effect is the checkpoint and not the Run),
`timer`, `approval` (with a timeout), `join` or `worker`. `Retrying` says which Steps have a
classified, retryable failure; `StaleTimers` which timers are overdue past their policy.
The claim of a Worker's limit per principal is left out.

### 2.2 TaskGraph and GraphScheduler

`computeTaskGraphProgress` is translated as operators on a graph record and the statuses
that are seen: what each pending Step becomes, which Steps are admitted under `maxReady`
and which may run under `maxParallel`. The loop over the topological order, in which a Step
that falls is at once seen fallen by the Steps after it, is a recursive function,
`EffectiveStatus`: what each Step is seen as (`SeenAs`) depends on its dependencies only.

In `GraphScheduler` one action is one pass of the loop in `advance`, which ends with a pass
that changes nothing; claims, settlements, reviews, retries and reconciliations fall between.
`LongWork` has the store transactions of a pass one by one. `GraphsAssumption` is what
`validateTaskGraph`, `positiveLimit` and the contracts have checked of a graph: finitely
many Steps, an outcome for each fallen status, positive limits. That its dependencies
exist and are acyclic is not assumed: `GraphInit` asks `ValidGraph`, as the code does.

`TaskGraph` writes the ids of Steps as numbers, as the code orders them by their strings.

### 2.3 LongWork

Each process of `Procs` is one execution of `advanceLongWork`. Its program counter names
the point between two transactions at which it stands, and its record what it remembers:
the last `listSteps` (`view`), what is left of the loop (`todo`), the claim in hand and
its versions (`s`, `a`, `sv`, `lv`), what it learnt of the Run (`seen`). A transaction
that refuses what it remembers makes it throw (`Refused`), and the workflow retries it up
to `MaxTries`. `wf.cur` is the execution the workflow waits for; one that timed out goes
on, and its result is ignored (`TimeOut`, `Return`).

`RunService` and `exec` are the executors of Runs; `AcceptStep`, `ReworkStep`, `Signal`,
`AcceptTask`, `CancelTask` and `FinishCancel` the owner's calls, of which cancel is two
transactions; `Crash`, `TimeOut`, `Restart` and `Spend("call")` the faults: the Activity
dies, is given up on, the server restarts, and the call of a store is answered by an
error although it may have been committed.

`OutcomeOf` is the evidence of a Step (its Run or its checkpoint), `TaskPhase` and `Holder`
the refinement mapping to `OwnedWork`.

### 2.4 WorkerSteps

`intent`, `bind` and `owner` are the launch intents, bindings and lease owners of the store,
`occ` the write-occupancy entry of the workspace, `pane` the external tab with the history
of its agent's states, `exec` the executions of the Activity and the server's own call,
`inst` the running instance of the Temporal Worker process. A launch is eight steps, each
followed by anything, since Herdr creates a tab and its agent some time after the request.
The time of an observation is its position in the pane's history. `closeWorker` is
`BeginClose`, `ClosePane`, `FreeWorkspace` and then the transaction it was for.

What the code does that a reader may not expect: a write occupancy belongs to the instance
that acquired it, so a reviewed Worker Step can be decided by the server only after its
restart has quarantined the entry; cancelling a Task whose Worker Step is in review closes
no pane; after a crash of the Temporal Worker process in an unconfirmed dispatch the
entry of the dead instance makes `quarantineClaimedWorker` throw until the server restarts;
the blocked attention of a first Attempt is not resolved by its rework.

A turn is completed by the state `done`, whatever was seen before it, and by `idle` only after
the Worker was seen working: `service.ts:917` dispatches only Pi agents here, so the condition
on the agent's kind (`long-work-store.ts:2794`) always holds. An agent that is done goes idle
later, or to work again. When it does so between two snapshots, with neither its work nor its
end seen, its end is missed; and when it does so after `done` was recorded but before its output
was captured, the `idle` that follows `done` does not complete it either, since only a `working`
or a completing `idle` before it counts. The Attempt then runs on for as long as its lease is renewed.
The model has both cases; no property says that a Worker's end is always noticed. That an agent
is working, blocked or done only after it was prompted is assumed of Herdr.

### 2.5 ChildTasks

`family` has each Task's mode, status and cancellation, `childStep` and `tries` its one
child Step and that Step's latest Attempt, `links` its children in order, `driver` and
`sight` its workflow and what its Activity has read and not yet acted on. Linking checks
depth, fan-out and cycles; observation reads the child's end and applies the failure
policy; cancellation is asked of the child and settled when it is over. Left out: children
of the legacy kind in other states, denial of the child's cancellation (which leaves it
pending), and the notification policy. A child Step that was blocked because the
continuation was denied is marked cancelled at once by a cancellation of its Task, while
its child goes on: `ChildIsAccountedFor` is about Attempts for that reason.

### 2.6 RunService and TaskNotices

`runs` has a Run's row with its result delivery and attention item, `active` the execution
that owns each conversation, `pubs` the calls that publish a Run (its own, and another one
after a duplicate, a restart or a retry), `outside` what has really happened: executor
entries, messages under way and arrived. Each transaction, executor call and transport call
is a step. `FailQueuedDispatch`, `ReconcileSettlement` and `Restart` are the failure paths.
A lost response of `failQueuedDispatch` leaves a cancelled Run unpublished, and a database
error in `claimDelivery` a delivery pending, until a restart or a duplicate;
control replies and Artifact deliveries are left out.

`TaskNotices` has the event log, the outbox (`notice`), the wire, the pump and its audience.
A failure of the settling transaction, which leaves a notice in flight until a restart, is
left out; a denial at the claim suppresses the notice for good, which is why the
liveness property is about an audience that keeps its grant.

### 2.7 Continuations and WorkflowBindings

`Continuations` has the schedule with its generation, the occurrences, and an Activity that
may overlap its successor and lose calls; `WorkflowBindings` the Task, its binding and its
workflow, which share no transaction, with a service call and a reconciliation that a
crash may cut anywhere. A workflow that has failed is closed and never replaced, which
`Unreached` excludes; an unbound Task whose cancellation was requested and not settled is
reported unavailable until the owner cancels again.

### 2.8 HerdrTasks

`legacy` is the Task and its active Attempt, `panes` what really became of each Attempt's
agent, `bindings` the binding with the last state the Trace has, `items` the open attention
items, `op` the operation under the lock of the Task, `review` the acceptance, which takes
no lock, `monitor` and `inbox` the reconciler. Not in the model: reconciliations that overlap, and
the occupancy of the workspace (which `WorkerSteps` has). An Attempt whose dispatch
crashed before it was bound stays running with nothing told.

The Task is delegated to an agent of some kind (`AgentKinds`), which its rework keeps. Any
agent completes its turn by reporting `done`, whether or not it was seen working; one that is
`idle` completes only if it is a pi agent whose last recorded state was `working`
(`task-store.ts:1078`). So an agent of another kind that works and goes idle leaves the Task
running with nothing announced, which `reconciler.test.ts:286` asserts, and so does an
agent of any kind that is done and idle again before a snapshot shows either its work or its
end. `CompletionIsNoticed` is therefore about ends that are shown: an agent that stays
`done`, or a pi agent at rest that was last seen working. `ReviewRestsOnWork` is about what the
agent really went through (`been`), not about what was seen of it. That an agent leaves `idle` only
after it was prompted is assumed of Herdr, as in `WorkerSteps`.

### 2.9 MemoryStore and SourceAuthority

`MemoryStore` has one subject, scope and type, so that a statement is a signature; `from` is
what a memory was really made from, beside the sources its readers are checked for.
`updatedAt` is a version. `PutMemory`, `PutCandidate` and `EndMemory` are the writes of a row.
Merge hints other than replace and retire, group memories and use counts are left out. A
supersession to a statement whose signature an expired, unlisted memory still holds is
refused by the unique index.

`SourceAuthority` has the rows of `grants` and `approvals`, and per Run its phase, ledger
(`used`, `marked`), and delivery; `holds` and `planned` are ghosts: the sources
of what a Run and the Task's plan really contain. Actions that control a Run are
folded into one, approvals are for the creation of Runs, and a Run is claimed and executed
in the order `RunService` keeps. With two conversations the ledger is not complete: a
listing of the Task's Steps authorizes the Task's sources before it loads the rows, so a plan written
in between by the Task's Run is released with a source nobody recorded. `OnlyPlansAreUnrecorded`
says that nothing else escapes.

### 2.10 Abstractions

* An authorisation check that is read just before a transaction is merged with it.
* "interrupted" stands for every end of a Run without a result.
* A wake-up to a workflow that has ended is lost; Continue-As-New loses nothing, since
  the new run begins by advancing.
* Event log, generic checkpoints, texts, budgets, timestamps: nothing decides on them,
  except due times and expiries, which are actions of the environment.
* In `LongWork`, specifications of Steps are valid and their executors installed; Worker
  and child Task Steps are in the modules of their own.
* A rework is taken only while enough unused Attempts are left for all that may still be
  claimed (`HorizonAllows`): `Attempts` is finite, and without this the model would block
  where the code does not.
* A lease that no longer grows in version is renewed only while no other execution
  remembers it (`Renewable`), so that a bounded version still fences.

## 3. Runs

| Run | Instance | Question | States |
|---|---|---|---|
| `LongWorkStore` | a checkpoint-write root with retry and rework, an approval, two Attempts; any caller, any order | the invariants of the store alone | 1 394 788 |
| `LongWork` | Model Step, then write; crash, restart, lost call | fencing, true write outcomes, quarantines that end on evidence, refinement of `OwnedWork` | 469 290 |
| `LongWorkOverlap` | a Model Step with retry; two executions at once | evidence behind a review, one executor per Step | 1 161 314 |
| `LongWorkWaits` | stale timer, timer, approval, join in turn; a crash | a timer or join left running is finished or its cancellation settles; blocked Steps reach the owner | 21 340 |
| `LongWorkLiveness` | a Model Step that may be reworked; a crash | accepted work is put up for review | 148 282 |
| `Workers` | one Worker Step that writes a workspace, two Attempts, two executions; one disturbance at a time | no Worker outlives its claim of the workspace, no decided Attempt its Worker, and only a turn that was ended is reviewed | 1 389 084 |
| `Services` | the scheduler on every acyclic graph of three Steps and a diamond of four, and each service under its faults, one at a time (`part`) | the safety and liveness of each | 472 765 |
| `ReadyLimit`, `StrandedDependent`, `LostCancelWake`, `LostWrite`, `StrandedCancellation` | | the disagreements of section 5 | stop at the counterexample |

`MCServices` runs one component in each behaviour, the others staying in one initial
state: they share no state in the code but what the modules themselves contain, so their
product would only multiply states. A liveness property there is that of the component's
module under that module's own fairness, said of the behaviours in which it runs.

Why the bounds are enough for the questions. A decision about a claim involves a Step, its
latest Attempt and a previous one: two Attempts give a retry, or a rework after a
settled one, and a stale holder of the older. Two Steps give a dependency, and a root that
reviews the Task while the other is open. One fault of each listed kind may fall between
any two transactions; the fault at the worst place is what the properties are about, and
two executions at once need only one timeout. All acyclic graphs of three Steps contain
the chain, the fork, the join of two and the independent pair; the diamond of four has a
Step for which two dependencies fall in one pass, with different outcomes. Lease versions to 2 give a
holder whose version is stale. In `Workers`, `OneDisturbance` lets one of a crash, a second
Attempt, an overlap of executions, a closure at restart and an agent that goes on after it
was done into each behaviour. In `Services` two Runs of one
conversation with one or two faults, three events of a Task, two occurrences of a schedule,
three Tasks in a family, two Attempts of a legacy Task (the agent of the first is blocked, works
on, ends its turn and goes idle, or part of it; that of the second makes one move), two statements, and three Runs of
two principals that read two sources each give the races the properties are about. The
theorems of section 4 need none of these bounds.

Symmetry over Attempts, and over executions of the Activity where there are two, is used in
the safety runs only: no definition orders them, or chooses among several of them. It is
not used where liveness is checked.

`CHECK_DEADLOCK FALSE`: a Task really ends (`DONE`, `CANCELED`), a Task in `REVIEW`
waits for an owner who need not act, and the queues of the services run empty.

Every property of a passing run has a mutant in `PROJECT.json`: a plausible bug in one
mapped definition (a dropped check, a missing release, a forgotten wake-up) under which
the same run finds that property violated.

### 3.1 Fairness

Only weak fairness is assumed, and it is stated with each module:

* `LongWork`: of `WakeUp` and `Advance(p)`, Temporal delivers signals and timers, runs
  Activities and retries them; of `RunService(a)`, the server dispatches queued Runs, and an
  executor ends (it has a time limit); of `FinishCancel`, a call of the service returns; of
  `WaitFallsDue(s)`, time passes.
* `GraphScheduler`: the scheduler goes on, executors end, and, where `EveryStepIsDecided`
  asks for a reviewed Step to be decided, the owner answers every review.
* `RunService`: the process goes on with what it has begun, the executor returns, and a
  stopped service is started again. `TaskNotices`: the pump's timer fires and a send ends
  by its timeout. `HerdrTasks`: the server goes on with what it has begun. `WorkflowBindings`:
  the same, and the timer of the recovery fires.
* `Continuations`: time passes and Temporal runs its Activity. `ChildTasks`: Temporal runs
  the Activity of a Task again while it polls.

Nothing is assumed of the owner (but for the reviews of `GraphScheduler`), of grants, of
lease expiry, of a write being made, or of faults.

## 4. Proofs

Every theorem holds for all values of the constants that satisfy the module's assumption:
any sets of Steps, Attempts, executions, Runs, sources or statements, finite or not unless
the assumption says so, and any bounds, those on faults included.

### 4.1 The store

`LongWorkStoreProofs`, about `StoreSpec`:

* `TypeCorrect`; `StoreInvariant`, the inductive invariant `IInv`;
* `OneOwner`, `WaitsFollow`, `CancelledQuiet`, `ReviewedComplete`, `AttentionWarranted`,
  `ReadyClaimable`, the invariants of run `LongWorkStore`;
* `DecisionsStay` and `QuarantineIsDecided`, its action property and the one of run `LongWork`.

`IInv` is `TypeOK`, the first four invariants, and `Numbering`: no Attempt has
a number above the Task's last one, and an unused Attempt has neither Step nor lease. It
is what `OneOwnerPerStep` needs: that the owner of an open outcome is the latest Attempt
survives the next claim only because a new number exceeds every older one. The four
invariants need each other: a Task that is cancelled or under review stays quiet or
complete only because an active lease is that of a running Step, and a waiting Step has a
wait. There is one lemma per conjunct (`StepsKeepTypeOK`, `NumberingKept`, `OneOwnerKept`,
`WaitsKept`, `QuietKept`, `CompleteKept`), with one step per action that can disturb it. For
ownership most actions touch a Step in one of two ways, which are lemmas: `UnownedMove`
and `OwnerLeaves`. `ReadyClaimable` counts: `ClaimsLeft` says that a Step
that is ready, or can be made so by a retry, has used fewer Attempts than it may.

### 4.2 The driven Task

`LongWorkProofs`, about `LongWorkSpec`:

* `DriverUsesTheStore`: `LongWorkSpec => StoreSpec`. Whatever executions overlap, crash or
  are given up on, each step is at most one transaction of the store. So the store's
  theorems are theorems of the driven Task, `DrivenQuarantineIsDecided` among them.
* `DriverInvariant`: `[]DriverIInv`, which joins to `IInv` what an execution remembers
  against what is stored (`MemoryOK`, `FindingsHold`: what it learnt of a Run stays so while
  its versions are current), that Attempts of a Step differ in number, that waits are those of
  their kind, and that a live executor has the latest Attempt of its Step (`ExecutorsFenced`).
* `OneExecutor` and `ReviewRests`, for any number of overlapping executions.
* `LiveRunFenced`, `WriteOutcomeTrue` and `OwnedWorkImplemented`, under `OneExecution`: that
  executions of the Activity do not overlap.

`OneExecution` is needed because the three are false without it, which is what run
`LostWrite` shows for the write. For `LiveRunIsFenced`: an execution hangs before it creates
the Run, is given up on, and its replacement finds no Run while the grant is withdrawn; the
grant returns, the first execution's create succeeds, since no lease version is checked,
and the replacement settles the Step failed while the executor lives. `WriteOutcomeTrue`
strengthens `DriverIInv` by `ReviewRestsOnEvidence`, `WritesKnown` (what is failed, ready or
to be retried was not written in this generation) and `CheckpointsPast`.
`OwnedWorkImplemented` shows that the initial states of `LongWork` map to those of `OwnedWork`
and each step to a step or a stutter of it, with a lemma per group of actions.

A first attempt at these proofs failed where `OutcomeOf` and `TaskPhase` had `CASE`s whose guards
overlapped, where TLA+ leaves the choice open and TLC takes the first; they are disjoint
now.

### 4.3 The Workers

`WorkerStepsProofs`, about `WorkersSpec`: `WorkersInvariant`, and from it `OneWriter`,
`DecidedIsGone` and `ReviewedFinished`, the three invariants of run `Workers`. They hold for any
number of executions, crashes, late tabs and failed calls; the run allows one disturbance in a
behaviour (`OneDisturbance`), the theorems do not assume it.

The three invariants are not inductive. What is, `WorkersIInv`, says besides the types

* that where an execution is tells what became of the tab of its Attempt (`ExecsOK`), and that
  one execution at most launches the Worker of an Attempt (`OneLaunch`): two would leave a tab
  behind the other's decision;
* of each Attempt (`AttemptsOK`), that while its Worker may exist it has the occupancy, that once
  it is decided the Worker is gone, and that one in review is the latest of a Step nobody moved
  on, until its Worker is closed;
* that Attempts of a Step differ in number (`Numbered`);
* of what was observed, that a pane's history has it: a state that was captured or reviewed is
  `done`, or is `idle` and comes after a working one, and either comes after the prompt
  (`HistoryOK`, `CapturesOK`).

Settling a reviewed Worker also needs that an open lease is that of the latest Attempt of its
Step (`Owners`), so `WorkersInvariant` is `[](WorkersIInv /\ Owners)`. Most actions are one of
few kinds of step, each a lemma: one that leaves panes, leases and Attempts alone (`CalmStep`,
`QuietStep`), one that moves a pane or a binding (`PaneActs`, `BindActs`), one that settles an
Attempt (`Settles`), one that begins to close a Worker (`ClosureBegins`), and one of the
environment (`EnvironmentStep`); `ActingStep` is what they have in common.

### 4.4 The services

* `RunServiceProofs`: `RunsInOrder` (`ExecutorEntersOnce`) and `DeliveriesAreTrue`. The
  inductive `ExecutionIInv` relates a Run's status to the execution that owns its
  conversation: a Run that may still be entered was not, and has none running before it.
* `TaskSignalsProofs`, what a Task tells and is told from outside:
  - `NoticesTrue`, inductive with its types;
  - `OccurrencesTrue`, the action property `OccurrencesAreTrue` of the timer. `TimerIInv` says that
    the time at which an execution looked has passed, and that what is acknowledged, or is about
    to be by some execution, has had its wake or needs none;
  - `ChildrenAccounted` (`ChildIsAccountedFor`). `ChildIInv` says that all but the latest child of
    a Step are over, all of them when it is ready to be linked again, and that what the Activity
    read of a Step that has not moved since is of its latest child (`SightOK`).
* `HerdrTasksProofs`: `ReviewsRestOnWork`. `HerdrIInv` says what an agent's history implies
  (`PanesOK`: it leaves `idle` only after it was asked, and shows what it has been), what
  later Attempts have (nothing), what the operation under the lock is about (`OpOK`), and
  what was seen against what is (`SeenOK`): one that the snapshot shows done, or idle while
  the Trace shows working, has been so. Every action is shown to be one of a few steps of a
  pane (`PaneStep`), of the Task (`TaskStep`), of the lock (`OpStep`) and of what was seen (`SeenStep`).
* `ContentProofs`, about `MemoryStore`: `MemoriesTraceable` and `CorrectionsCurrent`, from
  `GoodDb`: the rows have their types, each names all it was made from, and a suggestion that
  is pending matches a memory only if it names its sources.
* `ContentProofs`, about `SourceAuthority`: `LedgerIsTyped`, `OnlyPlansAreUnrecorded` for any
  conversations; `LedgerIsComplete` and `NothingLeaves` under `OneConversation`, since with two
  the ledger misses plans (2.9). `LedgerIInv` adds that one Run executes at a time and that what
  the Task's plan contains is recorded by the Run that reads it.

### 4.5 The scheduler

`GraphSchedulerProofs`, about `GraphSpec`, for any set of graphs that satisfies
`GraphsAssumption`, whatever their size:

* `CyclesAreRefused`: `ValidGraph` holds of a graph whose dependencies exist exactly when no
  Steps wait for each other.
* `LimitsAreKept` and `DependenciesAreObeyed`, the invariant and action property of run
  `Services`.
* `ReadyLimitIsOnlyExceededByRetries`: only `Rework` and `FireRetry` take a Task over the limit
  on ready Steps. Run `ReadyLimit` shows that they can.
* `NobodyIsEverForgotten`: in a state in which `advance` rests, nothing is run, waiting or in
  review, nothing is left to run and the ready limit is kept, every Step is settled or
  blocked. So what `EveryStepIsDecided` needs beside this is fairness alone.

They follow from three arguments.

1. *Order.* `TopologicalOrder` is a recursive function over the rounds of Kahn's algorithm.
   The rounds exist and add a Step each until none is left without open dependencies
   (`RoundsExist`, `OrderIsTheLastRound`, `OrderedAndFull`). If Steps are left over, each
   depends on another of them.
2. *What is seen.* `EffectiveStatus` satisfies its equation, `seen[s] = SeenAs(.., seen, s)`, on
   a valid graph (`EveryStepIsSeen`). This is an induction along the order. The induction
   theorems of the library take an operator and cannot be used; `LeastNatural` and `UpTo` get the
   same from `WFMin` and `NatLessThanWellFounded`, for sets of numbers. From the
   equation follows what a pass does to each Step (`PassDecides`).
3. *Progress.* A pass that changes something decides a Step more (`PassDecidesOneMore`), so the
   number of passes is at most that of decided Steps. What is decided has to stay so in a pass
   from any state the invariant allows: a ready Step counts only once its dependencies are
   over and let it go on, since one whose dependency was taken back could still fall.

The inductive invariant `SchedulerIInv` is that bound, the types, that at most `maxParallel`
Steps run, that a held Step is blocked and no barrier, and that a barrier is never run or
reviewed. `NobodyIsEverForgotten` adds `DepsHavePassed`: dependencies of a Step that
left pending for ready, or is held, are no longer pending. TLC checked each of these on the graphs
of `MCGraphs` before it was proved.

### 4.6 What is only model-checked

* All liveness: TLAPS proves nothing from fairness or `ENABLED`.
* The refinement mapping of `LongWork` with overlapping executions, which is false.

## 5. Disagreements found

Each is a run with `expect: violation`; details and quoted lines are in `PROJECT.json`.

* `LostWrite`: an execution that Temporal has given up on creates the Run after its
  replacement has read that there is none and before it settles the Step failed. The
  checkpoint is written, and the Step recorded failed.
* `LostCancelWake`: cancelling a Task whose only open outcome is quarantined records the
  request and wakes nobody; it is settled only if something else wakes the workflow.
  (`CancelledRunSettles`, for a cancellation that finds a running Step, does hold.)
* `StrandedDependent`: the dependent of a quarantined Step is blocked in the store, and
  stays so when the quarantine is reconciled and the Step accepted.
* `StrandedCancellation`: the cancellation of a Task is passed on to a child that is in
  review, whose workflow has ended; nothing settles the child, and the parent polls it
  until the owner cancels the child as well.
* `ReadyLimit`: a retry or rework returns a Step to ready without counting against the
  limit on ready Steps, after which every advance throws until a ready Step leaves.

Smaller observations are in sections 2.4 to 2.9. One more is of the graph.
`docs/agent-operations.md:490` says that a blocked dependency counts as failed; in the pass
in which it is blocked by its own dependencies it does not count yet, because
`computeTaskGraphProgress` leaves the translation of blocked to failed to its caller, which
does it before the pass. The Step after it may then fall for another dependency, with an
outcome weaker than the one its policy has for a failed one. In the diamond of `MCGraphs` the last Step
is blocked, or cancelled, according to that. It needs policies that `task_plan` does not give
to the Steps it makes. `DependenciesDecide` used to say what the docs say and held on three
Steps; the attempt to prove it showed that it is false on four.

Two more observations are of code that is not modelled: after
a context-budget or trace failure `runtime/pi/adapter.ts` returns no Tool calls, so
`run-adapter.ts` may report an executed mutation as not performed, against its own comment
("a mutation that already ran is not re-judged as having never happened"); and messages that
wait on a ready OneBot connection are dropped when it is lost before the queue reaches them.

## 6. Not modelled

Components with status `not_modelled` in `PROJECT.json` hold no state that decides anything,
or their logic is I/O, parsing or heuristics over text: retrieval, web and media, the trace
store, the viewer's reducer, evaluation, configuration, wiring and routes of the management
application, channel adapters. Within the modelled ones: migrations, listings and projections,
identity bindings and delegation to Task Workers, group policies other than the source
category, retention and automatic capture of memories, sessions and required actions of the Pi
runtime, Artifact deliveries, the nesting of occupied directories and the lock file of the
occupancy, the rows of the retry policy nobody asks for.

## 7. Plan

Done: the store, graph and scheduler, the driven Task, Worker and child Task Steps, the
services around them, the refinement of `OwnedWork`, and the theorems of section 4, which
cover every safety property of the passing runs.

Next, in this order:

1. The OneBot adapter's connection generations, and the required actions of the Pi runtime.
2. Nested directories of the write occupancy; delegation to Task Workers.
