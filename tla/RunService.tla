----------------------------- MODULE RunService -----------------------------
(***************************************************************************)
(* RunService and LifecycleStore for the external Runs: a message becomes  *)
(* a queued Run, the Runs of a conversation are executed one after the     *)
(* other, and each result is sent to the conversation it came from.        *)
(*                                                                         *)
(* The server is one process.  Each transaction of the store, each call of *)
(* the executor and each call of the transport is a step; between two of   *)
(* them anything else may happen, a crash included.  A Run is published by *)
(* its own execution ("own") and, perhaps at the same time, again by a     *)
(* duplicate message, a restart or an explicit retry ("again").            *)
(***************************************************************************)
EXTENDS Naturals, Sequences, FiniteSets

CONSTANTS
  ConvOf,       \* the conversation of each Run, in the order of runs.sequence
  Unfit,        \* the Runs whose answer the content policy blocks
  Concurrency,  \* options.concurrency
  Tries,        \* DISPATCH_RETRY_DELAYS_MS.length
  RunFaults     \* bound: the numbers of faults and requests a behaviour may have

ASSUME RunServiceAssumption ==
  /\ ConvOf \in Seq(Nat) /\ Concurrency \in Nat \ {0} /\ Tries \in Nat
  /\ Unfit \subseteq DOMAIN ConvOf

VARIABLES
  runs,     \* the rows of runs, their "result" delivery and its attention item
  active,   \* RunService.active: the execution that owns each conversation
  pubs,     \* the calls of publishTerminal and sendPending under way
  server,   \* [mode, wake (pumpAgain), blocked]
  outside,  \* what has happened: executor entries, messages under way and arrived
  allowed,  \* whether the caller's grants stand
  old,      \* Runs that ended before the restore window
  budget    \* the faults and requests left

runVars == <<runs, active, pubs, server, outside, allowed, old, budget>>

Runs  == DOMAIN ConvOf
Convs == {ConvOf[r] : r \in Runs}
Ends  == {"succeeded", "failed", "cancelled", "interrupted", "unknown"}
Ended(r) == runs[r].st \in Ends
Serving  == server.mode = "serving"
Started  == server.mode # "stopped"

NoExecution == [run |-> 0, pc |-> "idle", tries |-> 0, abort |-> FALSE, res |-> "none"]

RunServiceInit ==
  /\ runs = [r \in Runs |-> [st |-> "none", text |-> FALSE, dl |-> "none", excl |-> FALSE,
                             attn |-> "none", unanswered |-> FALSE]]
  /\ active = [c \in Convs |-> NoExecution]
  /\ pubs = [r \in Runs |-> [own |-> "idle", again |-> "idle"]]
  /\ server = [mode |-> "serving", wake |-> FALSE, blocked |-> {}]
  /\ outside = [r \in Runs |-> [entered |-> 0, out |-> 0, got |-> 0]]
  /\ allowed = TRUE /\ old = {}
  /\ budget \in RunFaults

Spend(k) == budget[k] > 0 /\ budget' = [budget EXCEPT ![k] = @ - 1]
Kicked   == [server EXCEPT !.wake = TRUE]

(***************************************************************************)
(* The queue.                                                              *)
(***************************************************************************)
(* acceptIncoming and enqueueAccepted of a new message. *)
Receive(r) ==
  /\ Serving /\ runs[r].st = "none" /\ \A q \in Runs : q < r => runs[q].st # "none"
  /\ runs' = [runs EXCEPT ![r].st = "queued"]
  /\ server' = Kicked
  /\ UNCHANGED <<active, pubs, outside, allowed, old, budget>>

(* The same message again: its Run is published again if it has ended. *)
ReceiveDuplicate(r) ==
  /\ Serving /\ runs[r].st # "none" /\ pubs[r].again = "idle" /\ Spend("duplicate")
  /\ pubs' = IF Ended(r) THEN [pubs EXCEPT ![r].again = "find"] ELSE pubs
  /\ server' = Kicked
  /\ UNCHANGED <<runs, active, outside, allowed, old>>

(* The first queued Run of each conversation nothing executes for. *)
Launchable ==
  {r \in Runs : /\ runs[r].st = "queued" /\ r \notin server.blocked
                /\ active[ConvOf[r]] = NoExecution
                /\ \A q \in Runs : q < r /\ ConvOf[q] = ConvOf[r] => runs[q].st # "queued"}
Busy == {c \in Convs : active[c] # NoExecution}
Launched ==
  {r \in Launchable : Cardinality({q \in Launchable : q < r}) + Cardinality(Busy) < Concurrency}

(* One pass of the pump. *)
Pump ==
  /\ Serving /\ server.wake
  /\ active' = [c \in Convs |->
       IF \E r \in Launched : ConvOf[r] = c
       THEN [NoExecution EXCEPT !.run = CHOOSE r \in Launched : ConvOf[r] = c, !.pc = "claim"]
       ELSE active[c]]
  /\ server' = [server EXCEPT !.wake = FALSE]
  /\ UNCHANGED <<runs, pubs, outside, allowed, old, budget>>

(***************************************************************************)
(* One execution.  Leaving frees the conversation and kicks the pump.      *)
(***************************************************************************)
At(c, pc)   == active[c].pc = pc
Run(c)      == active[c].run
Goto(c, pc) == active' = [active EXCEPT ![c].pc = pc]
Leave(c)    == active' = [active EXCEPT ![c] = NoExecution]

(* getRun, then claimQueuedRun.  A transaction that throws may or may not  *)
(* have been committed; only three tries are made.                         *)
ClaimRun(c) ==
  LET r == Run(c) IN
  /\ At(c, "claim") /\ Started
  /\ \/ /\ runs[r].st = "queued" /\ ~active[c].abort /\ allowed
        /\ \A q \in Runs : ConvOf[q] = c => runs[q].st \notin {"running", "cancelling"}
        /\ runs' = [runs EXCEPT ![r].st = "running"]
        /\ \/ Goto(c, "prepare") /\ UNCHANGED budget
           \/ Goto(c, "unclaimed") /\ Spend("error")
        /\ server' = [server EXCEPT !.blocked = @ \ {r}]
     \/ /\ runs[r].st = "queued" /\ ~active[c].abort /\ Spend("error")
        /\ active' = IF active[c].tries < Tries THEN [active EXCEPT ![c].tries = @ + 1]
                                                ELSE [active EXCEPT ![c].pc = "unclaimed"]
        /\ UNCHANGED <<runs, server>>
     \/ /\ runs[r].st = "queued" /\ ~active[c].abort /\ ~allowed
        /\ Leave(c) /\ server' = [Kicked EXCEPT !.blocked = @ \cup {r}]
        /\ UNCHANGED <<runs, budget>>
     \/ /\ runs[r].st \in {"running", "cancelling"}
        /\ Goto(c, "unclaimed") /\ UNCHANGED <<runs, server, budget>>
     \/ /\ Ended(r) \/ active[c].abort
        /\ Leave(c) /\ server' = [Kicked EXCEPT !.blocked = IF Ended(r) THEN @ \ {r} ELSE @]
        /\ UNCHANGED <<runs, budget>>
  /\ UNCHANGED <<pubs, outside, allowed, old>>

(* settleUnclaimedDispatch: it is tried until it is committed, and then    *)
(* published in the background.                                            *)
FailQueuedDispatch(c) ==
  LET r == Run(c) IN
  /\ At(c, "unclaimed") /\ Started
  /\ IF Ended(r) THEN UNCHANGED <<runs, pubs>>
     ELSE /\ runs' = IF runs[r].st = "cancelling" THEN [runs EXCEPT ![r].st = "cancelled"]
                     ELSE [runs EXCEPT ![r].st = "failed", ![r].unanswered = TRUE]
          /\ pubs' = [pubs EXCEPT ![r].own = "find"]
  /\ Leave(c) /\ server' = [Kicked EXCEPT !.blocked = @ \ {r}]
  /\ UNCHANGED <<outside, allowed, old, budget>>

(* An abort that no cancellation asked for is an interruption. *)
AbortedAs(c) == IF runs[Run(c)].st = "cancelling" THEN "cancelled" ELSE "interrupted"

(* The route and the authority are checked again before the executor.      *)
EnterExecutor(c) ==
  /\ At(c, "prepare")
  /\ \/ /\ allowed /\ ~active[c].abort
        /\ outside' = [outside EXCEPT ![Run(c)].entered = @ + 1]
        /\ Goto(c, "execute")
     \/ /\ active' = [active EXCEPT ![c].pc = "settle",
             ![c].res = IF allowed /\ active[c].abort THEN AbortedAs(c) ELSE "failed"]
        /\ UNCHANGED outside
  /\ UNCHANGED <<runs, pubs, server, allowed, old, budget>>

ExecutorReturns(c) ==
  /\ At(c, "execute")
  /\ \E res \in {"succeeded", "failed", "unknown"} \cup
       (IF active[c].abort THEN {AbortedAs(c)} ELSE {}) :
       active' = [active EXCEPT ![c].pc = "settle", ![c].res = res]
  /\ UNCHANGED <<runs, pubs, server, outside, allowed, old, budget>>

(* Published unless the server stops or the output is withheld. *)
Publish(c) ==
  IF Started /\ allowed
  THEN /\ Goto(c, "publish") /\ pubs' = [pubs EXCEPT ![Run(c)].own = "find"]
       /\ UNCHANGED server
  ELSE Leave(c) /\ server' = Kicked /\ UNCHANGED pubs

(* Mutant: a settlement that throws has the executor run again. *)
SettleOrExecuteAgain(c) ==
  /\ At(c, "settle")
  /\ \/ /\ runs' = [runs EXCEPT ![Run(c)].st = active[c].res,
                                ![Run(c)].text = active[c].res = "succeeded" /\ allowed]
        /\ Publish(c) /\ UNCHANGED budget
     \/ Goto(c, "prepare") /\ Spend("error") /\ UNCHANGED <<runs, pubs, server>>
  /\ UNCHANGED <<outside, allowed, old>>

(* lease.settle.  A failure that left nothing is tried again; one that was *)
(* committed is found by reconcileSettlement.                              *)
SettleRun(c) ==
  /\ At(c, "settle")
  /\ runs' = [runs EXCEPT ![Run(c)].st = active[c].res,
                          ![Run(c)].text = active[c].res = "succeeded" /\ allowed]
  /\ \/ Publish(c) /\ UNCHANGED budget
     \/ Goto(c, "reconcile") /\ Spend("error") /\ UNCHANGED <<pubs, server>>
  /\ UNCHANGED <<outside, allowed, old>>

ReconcileSettlement(c) ==
  /\ At(c, "reconcile") /\ Publish(c)
  /\ UNCHANGED <<runs, outside, allowed, old, budget>>

(* The conversation stays owned until its answer has been sent. *)
PublicationEnds(c) ==
  /\ At(c, "publish") /\ pubs[Run(c)].own = "idle"
  /\ Leave(c) /\ server' = Kicked
  /\ UNCHANGED <<runs, pubs, outside, allowed, old, budget>>

(* Out of the loops once the service is stopped, with nothing settled. *)
StoppedDispatchEnds(c) ==
  /\ ~Started /\ active[c].pc \in {"claim", "unclaimed"}
  /\ Leave(c)
  /\ UNCHANGED <<runs, pubs, server, outside, allowed, old, budget>>

CancelRun(r) ==
  LET c == ConvOf[r] IN
  /\ Serving /\ allowed /\ Spend("cancel")
  /\ \/ /\ runs[r].st = "queued"
        /\ runs' = [runs EXCEPT ![r].st = "cancelled"]
        /\ active' = IF Run(c) = r THEN [active EXCEPT ![c].abort = TRUE] ELSE active
        /\ pubs' = [pubs EXCEPT ![r].own = "find"]
        /\ server' = [Kicked EXCEPT !.blocked = @ \ {r}]
     \/ /\ runs[r].st = "running" /\ Run(c) = r
        /\ runs' = [runs EXCEPT ![r].st = "cancelling"]
        /\ active' = [active EXCEPT ![c].abort = TRUE]
        /\ UNCHANGED <<pubs, server>>
  /\ UNCHANGED <<outside, allowed, old>>

(***************************************************************************)
(* Publication: publishTerminal and sendPending.                           *)
(***************************************************************************)
(* While the server restores, it publishes one Run after the other. *)
Turn(r, w) ==
  server.mode = "restoring" => \A q \in Runs : q < r => pubs[q].again = "idle"
Onto(r, w, pc) == pubs' = [pubs EXCEPT ![r][w] = pc]

(* The answer is prepared; an unfit one is excluded and never sent. *)
FindDelivery(r, w) ==
  /\ pubs[r][w] = "find" /\ Turn(r, w)
  /\ IF ~allowed THEN Onto(r, w, "idle") /\ UNCHANGED runs
     ELSE IF runs[r].dl # "none" THEN Onto(r, w, "send") /\ UNCHANGED runs
     ELSE IF r \in Unfit /\ runs[r].text
     THEN Onto(r, w, "idle") /\ runs' = [runs EXCEPT ![r].excl = TRUE]
     ELSE Onto(r, w, "create") /\ UNCHANGED runs
  /\ UNCHANGED <<active, server, outside, allowed, old, budget>>

(* The exclusion that follows a denial may itself be denied. *)
CreateDelivery(r, w) ==
  /\ pubs[r][w] = "create"
  /\ \/ /\ allowed /\ Onto(r, w, "send")
        /\ runs' = [runs EXCEPT ![r].dl = IF @ = "none" THEN "pending" ELSE @]
     \/ /\ ~allowed /\ Onto(r, w, "idle")
        /\ runs' \in {runs, [runs EXCEPT ![r].excl = TRUE]}
  /\ UNCHANGED <<active, server, outside, allowed, old, budget>>

(* Mutant: what was not confirmed may be sent. *)
UnsentDelivery(d) == d \in {"pending", "sending", "unknown"}
ClaimableDelivery(d) == d = "pending"

(* claimDelivery reserves the send; whoever loses the claim sends nothing. *)
ClaimDelivery(r, w) ==
  /\ pubs[r][w] = "send"
  /\ IF allowed /\ ClaimableDelivery(runs[r].dl)
     THEN /\ runs' = [runs EXCEPT ![r].dl = "sending"]
          /\ outside' = [outside EXCEPT ![r].out = @ + 1]
          /\ Onto(r, w, "sending")
     ELSE Onto(r, w, "idle") /\ UNCHANGED <<runs, outside>>
  /\ UNCHANGED <<active, server, allowed, old, budget>>

(* The message arrives, whether or not anyone still waits for the answer. *)
MessageArrives(r) ==
  /\ outside[r].out > 0
  /\ outside' = [outside EXCEPT ![r].out = @ - 1, ![r].got = @ + 1]
  /\ UNCHANGED <<runs, active, pubs, server, allowed, old, budget>>

(* recordDeliveryAttention, in the transaction that settles the delivery. *)
Attention(was, d) ==
  IF d = "sent" THEN IF was = "open" THEN "resolved" ELSE was ELSE "open"

(* The transport confirms the message, refuses it, or says neither before  *)
(* the timeout.  If the settlement throws, the delivery stays "sending".   *)
SendReturns(r, w) ==
  /\ pubs[r][w] = "sending" /\ Onto(r, w, "idle")
  /\ \/ \E d \in {"sent", "failed", "unknown"} :
          /\ d = "sent" => outside[r].got > 0
          /\ d = "failed" => outside[r].out > 0
          /\ runs' = IF runs[r].dl # "sending" THEN runs
                     ELSE [runs EXCEPT ![r].dl = d, ![r].attn = Attention(@, d)]
          /\ outside' = IF d = "failed" THEN [outside EXCEPT ![r].out = @ - 1] ELSE outside
          /\ UNCHANGED budget
     \/ Spend("error") /\ UNCHANGED <<runs, outside>>
  /\ UNCHANGED <<active, server, allowed, old>>

RetryDelivery(r) ==
  /\ Serving /\ allowed /\ runs[r].dl = "failed" /\ pubs[r].again = "idle" /\ Spend("retry")
  /\ runs' = [runs EXCEPT ![r].dl = "pending"]
  /\ pubs' = [pubs EXCEPT ![r].again = "send"]
  /\ UNCHANGED <<active, server, outside, allowed, old>>

(* The owner closes the attention item. *)
AcknowledgeAttention(r) ==
  /\ runs[r].attn = "open" /\ Spend("ack")
  /\ runs' = [runs EXCEPT ![r].attn = "resolved"]
  /\ UNCHANGED <<active, pubs, server, outside, allowed, old>>

(***************************************************************************)
(* Grants, stops and restarts.                                             *)
(***************************************************************************)
Deny == allowed /\ allowed' = FALSE /\ Spend("denial")
        /\ UNCHANGED <<runs, active, pubs, server, outside, old>>

(* The grant is given again; whoever gives it calls refresh. *)
AllowAndRefresh ==
  /\ ~allowed /\ allowed' = TRUE
  /\ server' = IF Serving THEN [Kicked EXCEPT !.blocked = {}] ELSE server
  /\ UNCHANGED <<runs, active, pubs, outside, old, budget>>

Stop ==
  /\ Serving /\ Spend("restart")
  /\ server' = [mode |-> "stopped", wake |-> FALSE, blocked |-> server.blocked]
  /\ active' = [c \in Convs |-> IF Run(c) = 0 THEN active[c] ELSE [active[c] EXCEPT !.abort = TRUE]]
  /\ UNCHANGED <<runs, pubs, outside, allowed, old>>

(* LifecycleStore.recover, in one transaction. *)
Recovered(run) ==
  [run EXCEPT !.st   = CASE @ = "running" -> "interrupted" [] @ = "cancelling" -> "unknown"
                         [] OTHER -> @,
              !.dl   = IF @ = "sending" THEN "unknown" ELSE @,
              !.attn = IF @ = "none" /\ run.dl \in {"sending", "unknown", "failed"}
                       THEN "open" ELSE @]

(* Mutant: only deliveries left in flight are taken up again. *)
LeftInFlight(r, row, before) == row.dl \in {"pending", "sending", "failed", "unknown"}

(* listRestorableRunRoutes: ended within the window, or with a delivery    *)
(* that never reached a final state.                                       *)
Restorable(r, row, before) ==
  row.st \in Ends /\ (r \notin before \/ row.dl \in {"pending", "sending", "failed", "unknown"})

(* A crash, or the start after a stop; late says that the window is over   *)
(* for what had ended.                                                     *)
Restart ==
  /\ \/ Spend("restart")
     \/ /\ ~Started /\ Busy = {} /\ \A r \in Runs : pubs[r] = [own |-> "idle", again |-> "idle"]
        /\ UNCHANGED budget
  /\ \E late \in BOOLEAN :
       old' = IF late THEN {r \in Runs : Ended(r)} ELSE old
  /\ runs' = [r \in Runs |-> Recovered(runs[r])]
  /\ active' = [c \in Convs |-> NoExecution]
  /\ pubs' = [r \in Runs |-> [own |-> "idle",
       again |-> IF Restorable(r, runs'[r], old') THEN "find" ELSE "idle"]]
  /\ server' = [mode |-> "restoring", wake |-> FALSE, blocked |-> {}]
  /\ UNCHANGED <<outside, allowed>>

RestoreEnds ==
  /\ server.mode = "restoring" /\ \A r \in Runs : pubs[r].again = "idle"
  /\ server' = [Kicked EXCEPT !.mode = "serving"]
  /\ UNCHANGED <<runs, active, pubs, outside, allowed, old, budget>>

Execution(c) ==
  \/ ClaimRun(c) \/ FailQueuedDispatch(c) \/ EnterExecutor(c) \/ SettleRun(c)
  \/ ReconcileSettlement(c) \/ PublicationEnds(c) \/ StoppedDispatchEnds(c)
Publication(r, w) ==
  \/ FindDelivery(r, w) \/ CreateDelivery(r, w) \/ ClaimDelivery(r, w) \/ SendReturns(r, w)

RunServiceNext ==
  \/ Pump \/ Deny \/ AllowAndRefresh \/ Stop \/ Restart \/ RestoreEnds
  \/ \E c \in Convs : Execution(c) \/ ExecutorReturns(c)
  \/ \E r \in Runs :
       \/ Receive(r) \/ ReceiveDuplicate(r) \/ CancelRun(r) \/ MessageArrives(r)
       \/ RetryDelivery(r) \/ AcknowledgeAttention(r)
       \/ \E w \in {"own", "again"} : Publication(r, w)

(* The process goes on with what it has begun, the executor returns, and a *)
(* stopped service is started again.  Behaviours are finite: it is enough  *)
(* that one of these goes on while any can.                                *)
ServiceGoesOn ==
  \/ Pump \/ RestoreEnds \/ (~Started /\ Restart)
  \/ \E c \in Convs : Execution(c) \/ ExecutorReturns(c)
  \/ \E r \in Runs, w \in {"own", "again"} : Publication(r, w)
RunServiceFairness == WF_runVars(ServiceGoesOn)
RunServiceSpec == RunServiceInit /\ [][RunServiceNext]_runVars /\ RunServiceFairness

(***************************************************************************)
(* Properties.                                                             *)
(***************************************************************************)

(* An executor is entered once for a Run, however its claim, its settlement *)
(* or the process fails, and only when the earlier Runs of the conversation *)
(* have ended: a Tool call is never made twice, answers never cross.        *)
ExecutorEntersOnce ==
  \A r \in Runs : /\ outside[r].entered <= 1
                  /\ outside[r].entered = 1 =>
                       \A q \in Runs : q < r /\ ConvOf[q] = ConvOf[r] => Ended(q)

(* No message is sent a second time unless the first was refused; what the  *)
(* store says of a delivery is so; and one that is not confirmed has an     *)
(* attention item.                                                          *)
DeliveryIsTrue ==
  \A r \in Runs :
    /\ outside[r].out + outside[r].got <= 1
    /\ runs[r].dl = "sent" => outside[r].got = 1
    /\ runs[r].dl \in {"none", "pending", "failed"} => outside[r].out + outside[r].got = 0
    /\ runs[r].dl \in {"failed", "unknown"} => runs[r].attn # "none"

(* While the grant stands, every accepted message has its answer handed to  *)
(* the transport, or the answer is excluded, or the owner is told: whatever *)
(* is cancelled, lost, stopped or restarted.  Only a restart that comes     *)
(* after the window leaves what had ended before without an answer.         *)
Answered(r) ==
  \/ runs[r].dl \notin {"none", "pending"}
  \/ runs[r].excl \/ runs[r].unanswered \/ r \in old
Unanswered == \E r \in Runs : runs[r].st # "none" /\ ~Answered(r)
EveryMessageIsAnswered == []allowed => (Unanswered ~> ~Unanswered)
=============================================================================
