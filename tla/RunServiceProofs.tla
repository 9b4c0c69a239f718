-------------------------- MODULE RunServiceProofs --------------------------
(***************************************************************************)
(* Runs are executed once and in order, and what the store says of a       *)
(* delivery is true: for any number of conversations and Runs, whatever is *)
(* lost, denied, cancelled or restarted, and however often.                *)
(***************************************************************************)
EXTENDS RunService, TLAPS

RunStates  == {"none", "queued", "running", "cancelling"} \cup Ends
Deliveries == {"none", "pending", "sending", "sent", "failed", "unknown"}
RunRow == [st : RunStates, text : BOOLEAN, dl : Deliveries, excl : BOOLEAN,
           attn : {"none", "open", "resolved"}, unanswered : BOOLEAN]
ExecutionPcs == {"idle", "claim", "unclaimed", "prepare", "execute", "settle", "reconcile", "publish"}
ExecutionRow ==
  [run : Runs \cup {0}, pc : ExecutionPcs, tries : Nat, abort : BOOLEAN, res : Ends \cup {"none"}]

RowsTypeOK ==
  /\ runs \in [Runs -> RunRow]
  /\ active \in [Convs -> ExecutionRow]
  /\ outside \in [Runs -> [entered : Nat, out : Nat, got : Nat]]
  /\ allowed \in BOOLEAN

(***************************************************************************)
(* Type correctness.                                                       *)
(***************************************************************************)
LEMMA RunNumbers == Runs \subseteq Nat \ {0} /\ \A r \in Runs : ConvOf[r] \in Convs
  BY RunServiceAssumption DEF Runs, Convs

LEMMA NoExecutionRow == NoExecution \in ExecutionRow
  BY DEF NoExecution, ExecutionRow, ExecutionPcs

LEMMA InitRowsTypeOK == RunServiceInit => RowsTypeOK
  BY NoExecutionRow DEF RunServiceInit, RowsTypeOK, RunRow, RunStates, Deliveries

(* The pump gives a conversation one of its own Runs. *)
LEMMA LaunchedRun ==
  ASSUME NEW c \in Convs, \E r \in Launched : ConvOf[r] = c
  PROVE  LET r == CHOOSE r \in Launched : ConvOf[r] = c
         IN  r \in Launched /\ r \in Launchable /\ r \in Runs /\ ConvOf[r] = c
<1>1. LET r == CHOOSE r \in Launched : ConvOf[r] = c IN r \in Launched /\ ConvOf[r] = c
  OBVIOUS
<1> QED
  BY <1>1 DEF Launched, Launchable

(* The executor returns only with an end of its Run. *)
LEMMA AbortIsAnEnd == \A c \in Convs : AbortedAs(c) \in Ends
  BY DEF AbortedAs, Ends

(* A conversation that executes nothing has nothing to step. *)
Owned(c) == Run(c) \in Runs /\ ConvOf[Run(c)] = c

LEMMA ExecutionTypeOK ==
  ASSUME RowsTypeOK, NEW c \in Convs, Owned(c), Execution(c) \/ ExecutorReturns(c)
  PROVE  RowsTypeOK'
<1> DEFINE r == Run(c)
<1>0. /\ runs \in [Runs -> RunRow] /\ active \in [Convs -> ExecutionRow]
      /\ r \in Runs /\ active[c].res \in RunStates /\ active[c].tries \in Nat
      /\ active[c].run = r
  BY DEF RowsTypeOK, Owned, Run, ExecutionRow, RunStates
<1> HIDE DEF r
<1> USE DEF At, Goto, Leave
<1>1. runs' \in [Runs -> RunRow]
  <2> USE <1>0 DEF RunRow
  <2>1. ASSUME NEW st \in RunStates, runs' = [runs EXCEPT ![r].st = st] PROVE runs' \in [Runs -> RunRow]
    BY <2>1
  <2>2. CASE ClaimRun(c)
    <3>1. runs' = runs \/ runs' = [runs EXCEPT ![r].st = "running"]
      BY <2>2 DEF ClaimRun, Run, r
    <3> QED
      BY <2>1, <3>1 DEF RunStates
  <2>3. CASE FailQueuedDispatch(c)
    <3>1. \/ runs' = runs \/ runs' = [runs EXCEPT ![r].st = "cancelled"]
          \/ runs' = [runs EXCEPT ![r].st = "failed", ![r].unanswered = TRUE]
      BY <2>3 DEF FailQueuedDispatch, Run, r
    <3> QED
      BY <3>1, <2>1 DEF RunStates, Ends
  <2>4. CASE SettleRun(c)
    BY <2>4 DEF SettleRun, Run, r
  <2>5. CASE UNCHANGED runs
    BY <2>5
  <2> QED
    BY <2>2, <2>3, <2>4, <2>5
       DEF Execution, EnterExecutor, ExecutorReturns, ReconcileSettlement, Publish, PublicationEnds,
           StoppedDispatchEnds
<1>2. active' \in [Convs -> ExecutionRow]
  <2> USE <1>0 DEF ExecutionRow
  <2>1. ASSUME NEW pc \in ExecutionPcs, active' = [active EXCEPT ![c].pc = pc]
        PROVE  active' \in [Convs -> ExecutionRow]
    BY <2>1
  <2>2. ASSUME active' = [active EXCEPT ![c] = NoExecution] PROVE active' \in [Convs -> ExecutionRow]
    BY <2>2, NoExecutionRow
  <2>3. ASSUME NEW res \in Ends, active' = [active EXCEPT ![c].pc = "settle", ![c].res = res]
        PROVE  active' \in [Convs -> ExecutionRow]
    <3>1. "settle" \in ExecutionPcs
      BY DEF ExecutionPcs
    <3> QED
      BY <2>3, <3>1
  <2>4. CASE ClaimRun(c)
    <3>1. ASSUME active' = [active EXCEPT ![c].tries = @ + 1] PROVE active' \in [Convs -> ExecutionRow]
      BY <3>1
    <3> HIDE DEF ExecutionRow
    <3> QED
      BY <2>1, <2>2, <2>4, <3>1 DEF ClaimRun, ExecutionPcs
  <2>5. CASE EnterExecutor(c)
    BY <2>1, <2>3, <2>5, AbortIsAnEnd DEF EnterExecutor, Ends, ExecutionPcs
  <2>6. CASE ExecutorReturns(c)
    <3>1. PICK res \in Ends : active' = [active EXCEPT ![c].pc = "settle", ![c].res = res]
      BY <2>6, AbortIsAnEnd DEF ExecutorReturns, Ends
    <3> QED
      BY <2>3, <3>1
  <2>7. CASE \/ FailQueuedDispatch(c) \/ SettleRun(c) \/ ReconcileSettlement(c) \/ PublicationEnds(c)
             \/ StoppedDispatchEnds(c)
    <3>1. \/ active' = [active EXCEPT ![c] = NoExecution]
          \/ \E pc \in ExecutionPcs : active' = [active EXCEPT ![c].pc = pc]
      BY <2>7 DEF FailQueuedDispatch, SettleRun, ReconcileSettlement, Publish, PublicationEnds,
         StoppedDispatchEnds, ExecutionPcs
    <3> QED
      BY <2>1, <2>2, <3>1
  <2> QED
    BY <2>4, <2>5, <2>6, <2>7 DEF Execution
<1>3. outside' \in [Runs -> [entered : Nat, out : Nat, got : Nat]] /\ allowed' = allowed
  <2>1. CASE EnterExecutor(c)
    BY <2>1 DEF EnterExecutor, RowsTypeOK
  <2>2. CASE UNCHANGED <<outside, allowed>>
    BY <2>2 DEF RowsTypeOK
  <2> QED
    BY <2>1, <2>2
       DEF Execution, ClaimRun, FailQueuedDispatch, ExecutorReturns, SettleRun, ReconcileSettlement,
           PublicationEnds, StoppedDispatchEnds
<1> QED
  BY <1>1, <1>2, <1>3 DEF RowsTypeOK

LEMMA PublicationTypeOK ==
  ASSUME RowsTypeOK, NEW r \in Runs,
         \/ \E w \in {"own", "again"} : Publication(r, w)
         \/ MessageArrives(r) \/ RetryDelivery(r) \/ AcknowledgeAttention(r)
  PROVE  RowsTypeOK'
<1>0. runs \in [Runs -> RunRow] /\ outside \in [Runs -> [entered : Nat, out : Nat, got : Nat]]
  BY DEF RowsTypeOK
<1>1. runs' \in [Runs -> RunRow]
  <2> USE <1>0 DEF RunRow
  <2>1. ASSUME NEW dl \in Deliveries, runs' = [runs EXCEPT ![r].dl = dl] PROVE runs' \in [Runs -> RunRow]
    BY <2>1
  <2>2. ASSUME runs' = [runs EXCEPT ![r].excl = TRUE] PROVE runs' \in [Runs -> RunRow]
    BY <2>2
  <2>3. ASSUME NEW dl \in Deliveries, NEW attn \in {"none", "open", "resolved"},
               runs' = [runs EXCEPT ![r].dl = dl, ![r].attn = attn]
        PROVE  runs' \in [Runs -> RunRow]
    BY <2>3
  <2>4. ASSUME runs' = [runs EXCEPT ![r].attn = "resolved"] PROVE runs' \in [Runs -> RunRow]
    BY <2>4
  <2>5. ASSUME NEW w \in {"own", "again"}, SendReturns(r, w)
        PROVE  runs' \in [Runs -> RunRow]
    <3>1. CASE runs' = runs
      BY <3>1
    <3>2. CASE runs' # runs
      <4>1. PICK d \in {"sent", "failed", "unknown"} :
              runs' = [runs EXCEPT ![r].dl = d, ![r].attn = Attention(@, d)]
        BY <2>5, <3>2 DEF SendReturns
      <4>2. runs' = [runs EXCEPT ![r].dl = d, ![r].attn = Attention(runs[r].attn, d)]
        BY <4>1
      <4>3. Attention(runs[r].attn, d) \in {"none", "open", "resolved"}
        BY DEF Attention
      <4> HIDE DEF RunRow
      <4> QED
        BY <2>3, <4>2, <4>3 DEF Deliveries
    <3> QED
      BY <3>1, <3>2
  <2>6. ASSUME NEW w \in {"own", "again"},
               FindDelivery(r, w) \/ CreateDelivery(r, w) \/ ClaimDelivery(r, w)
        PROVE  runs' \in [Runs -> RunRow]
    <3>1. \/ runs' = runs \/ runs' = [runs EXCEPT ![r].excl = TRUE]
          \/ runs' = [runs EXCEPT ![r].dl = "sending"]
          \/ runs' = [runs EXCEPT ![r].dl = IF runs[r].dl = "none" THEN "pending" ELSE runs[r].dl]
      BY <2>6 DEF FindDelivery, CreateDelivery, ClaimDelivery
    <3>2. "sending" \in Deliveries /\ (IF runs[r].dl = "none" THEN "pending" ELSE runs[r].dl) \in Deliveries
      BY DEF Deliveries
    <3> HIDE DEF RunRow
    <3> QED
      BY <2>1, <2>2, <3>1, <3>2, <1>0
  <2>7. CASE MessageArrives(r) \/ RetryDelivery(r) \/ AcknowledgeAttention(r)
    <3>1. \/ runs' = runs \/ runs' = [runs EXCEPT ![r].attn = "resolved"]
          \/ runs' = [runs EXCEPT ![r].dl = "pending"]
      BY <2>7 DEF MessageArrives, RetryDelivery, AcknowledgeAttention
    <3>2. "pending" \in Deliveries
      BY DEF Deliveries
    <3> HIDE DEF RunRow
    <3> QED
      BY <2>1, <2>4, <3>1, <3>2, <1>0
  <2> HIDE DEF RunRow
  <2> QED
    BY <2>5, <2>6, <2>7 DEF Publication
<1>2. outside' \in [Runs -> [entered : Nat, out : Nat, got : Nat]]
  <2>1. \/ outside' = outside
        \/ outside' = [outside EXCEPT ![r].out = @ + 1]
        \/ outside[r].out > 0 /\ outside' = [outside EXCEPT ![r].out = @ - 1]
        \/ outside[r].out > 0 /\ outside' = [outside EXCEPT ![r].out = @ - 1, ![r].got = @ + 1]
    BY DEF Publication, FindDelivery, CreateDelivery, ClaimDelivery, SendReturns, MessageArrives,
           RetryDelivery, AcknowledgeAttention
  <2> QED
    BY <1>0, <2>1
<1>3. active' = active /\ allowed' = allowed
  BY DEF Publication, FindDelivery, CreateDelivery, ClaimDelivery, SendReturns, MessageArrives,
         RetryDelivery, AcknowledgeAttention
<1> QED
  BY <1>1, <1>2, <1>3 DEF RowsTypeOK

LEMMA ServerTypeOK ==
  ASSUME RowsTypeOK,
         \/ Pump \/ Deny \/ AllowAndRefresh \/ Stop \/ Restart \/ RestoreEnds
         \/ \E r \in Runs : Receive(r) \/ ReceiveDuplicate(r) \/ CancelRun(r)
  PROVE  RowsTypeOK'
<1>0. runs \in [Runs -> RunRow] /\ active \in [Convs -> ExecutionRow]
  BY DEF RowsTypeOK
<1>1. runs' \in [Runs -> RunRow]
  <2> USE <1>0 DEF RunRow
  <2>1. ASSUME NEW r \in Runs, NEW st \in RunStates, runs' = [runs EXCEPT ![r].st = st]
        PROVE runs' \in [Runs -> RunRow]
    BY <2>1
  <2>2. CASE Restart
    <3>1. ASSUME NEW r \in Runs PROVE Recovered(runs[r]) \in RunRow
      BY DEF Recovered, RunStates, Deliveries, Ends
    <3> QED
      BY <2>2, <3>1 DEF Restart
  <2>3. ASSUME NEW r \in Runs, Receive(r) \/ ReceiveDuplicate(r) \/ CancelRun(r)
        PROVE  \E st \in RunStates : runs' = runs \/ runs' = [runs EXCEPT ![r].st = st]
    BY <2>3 DEF Receive, ReceiveDuplicate, CancelRun, RunStates, Ends
  <2>4. Pump \/ Deny \/ AllowAndRefresh \/ Stop \/ RestoreEnds => runs' = runs
    BY DEF Pump, Deny, AllowAndRefresh, Stop, RestoreEnds
  <2> HIDE DEF RunRow
  <2> QED
    BY <2>1, <2>2, <2>3, <2>4
<1>2. active' \in [Convs -> ExecutionRow]
  <2>1. CASE Pump
    <3>1. ASSUME NEW c \in Convs PROVE active'[c] \in ExecutionRow
      <4> DEFINE q == CHOOSE q \in Launched : ConvOf[q] = c
      <4>1. CASE \E r \in Launched : ConvOf[r] = c
        <5>1. q \in Runs
          BY <4>1, LaunchedRun
        <5>2. active'[c] = [NoExecution EXCEPT !.run = q, !.pc = "claim"]
          BY <2>1, <4>1 DEF Pump
        <5> HIDE DEF q
        <5>3. active'[c] = [run |-> q, pc |-> "claim", tries |-> 0, abort |-> FALSE, res |-> "none"]
          BY <5>2 DEF NoExecution
        <5>4. "claim" \in ExecutionPcs
          BY DEF ExecutionPcs
        <5> QED
          BY <5>1, <5>3, <5>4 DEF ExecutionRow
      <4>2. CASE ~\E r \in Launched : ConvOf[r] = c
        BY <1>0, <2>1, <4>2 DEF Pump
      <4> QED
        BY <4>1, <4>2
    <3> QED
      BY <2>1, <3>1 DEF Pump
  <2>2. CASE Restart
    BY <2>2, NoExecutionRow DEF Restart
  <2>3. CASE Stop
    BY <1>0, <2>3 DEF Stop, ExecutionRow
  <2>4. ASSUME NEW r \in Runs, CancelRun(r) PROVE active' \in [Convs -> ExecutionRow]
    <3>1. active' = active \/ active' = [active EXCEPT ![ConvOf[r]].abort = TRUE]
      BY <2>4 DEF CancelRun
    <3>2. ASSUME NEW c \in Convs, active' = [active EXCEPT ![c].abort = TRUE]
          PROVE  active' \in [Convs -> ExecutionRow]
      BY <1>0, <3>2 DEF ExecutionRow
    <3>3. ConvOf[r] \in Convs
      BY RunNumbers
    <3> QED
      BY <1>0, <3>1, <3>2, <3>3
  <2>5. Deny \/ AllowAndRefresh \/ RestoreEnds \/ (\E r \in Runs : Receive(r) \/ ReceiveDuplicate(r))
        => active' = active
    BY DEF Deny, AllowAndRefresh, RestoreEnds, Receive, ReceiveDuplicate
  <2> QED
    BY <1>0, <2>1, <2>2, <2>3, <2>4, <2>5
<1>3. outside' = outside /\ allowed' \in BOOLEAN
  BY DEF Pump, Deny, AllowAndRefresh, Stop, Restart, RestoreEnds, Receive, ReceiveDuplicate, CancelRun,
         RowsTypeOK
<1> QED
  BY <1>1, <1>2, <1>3 DEF RowsTypeOK

(***************************************************************************)
(* Runs are executed in order.                                             *)
(***************************************************************************)
Begun(r) == runs[r].st \notin {"none", "queued"}

(* What an execution knows of its Run and of the Runs before it. *)
ExecutionInTurn(c) ==
  /\ ~At(c, "idle") /\ Owned(c) /\ runs[Run(c)].st # "none"
  /\ \A q \in Runs : q < Run(c) /\ ConvOf[q] = c => Begun(q)
  /\ active[c].pc \in {"claim", "unclaimed", "prepare"} => outside[Run(c)].entered = 0
  /\ active[c].pc \notin {"claim", "unclaimed"} =>
       Begun(Run(c)) /\ \A q \in Runs : q < Run(c) /\ ConvOf[q] = c => Ended(q)
  /\ active[c].pc \in {"settle", "reconcile"} => active[c].res \in Ends
ExecutionsInTurn == \A c \in Convs : active[c] = NoExecution \/ ExecutionInTurn(c)

ArrivalsInOrder == \A q, r \in Runs : q < r /\ runs[r].st # "none" => runs[q].st # "none"
QueuedIsNotEntered == \A r \in Runs : ~Begun(r) => outside[r].entered = 0

ExecutionIInv ==
  RowsTypeOK /\ ExecutionsInTurn /\ ArrivalsInOrder /\ QueuedIsNotEntered /\ ExecutorEntersOnce

LEMMA InitExecutionIInv == RunServiceInit => ExecutionIInv
<1> SUFFICES ASSUME RunServiceInit PROVE ExecutionIInv
  OBVIOUS
<1>1. \A r \in Runs : runs[r].st = "none" /\ outside[r].entered = 0
  BY DEF RunServiceInit
<1>2. \A c \in Convs : active[c] = NoExecution
  BY DEF RunServiceInit
<1> QED
  BY <1>1, <1>2, InitRowsTypeOK
     DEF ExecutionIInv, ExecutionsInTurn, ArrivalsInOrder, QueuedIsNotEntered, ExecutorEntersOnce

(* Only the execution of a conversation, and the pump, have an owner. *)
LEMMA ExecutionIsOwned ==
  ASSUME ExecutionsInTurn, NEW c \in Convs, Execution(c) \/ ExecutorReturns(c)
  PROVE  ExecutionInTurn(c)
<1>1. active[c].pc # "idle"
  BY DEF Execution, ClaimRun, FailQueuedDispatch, EnterExecutor, ExecutorReturns, SettleRun,
         ReconcileSettlement, PublicationEnds, StoppedDispatchEnds, At
<1> QED
  BY <1>1 DEF ExecutionsInTurn, NoExecution

LEMMA NextRowsTypeOK ==
  ASSUME RowsTypeOK, ExecutionsInTurn, [RunServiceNext]_runVars
  PROVE  RowsTypeOK'
<1>1. ASSUME NEW c \in Convs, Execution(c) \/ ExecutorReturns(c) PROVE RowsTypeOK'
  BY <1>1, ExecutionIsOwned, ExecutionTypeOK DEF ExecutionInTurn
<1>2. CASE UNCHANGED runVars
  BY <1>2 DEF RowsTypeOK, runVars
<1> QED
  BY <1>1, <1>2, PublicationTypeOK, ServerTypeOK DEF RunServiceNext

(* How the status of a Run may change in a step that does not accept it. *)
StatusMove(was, is) ==
  \/ is = was
  \/ was = "queued" /\ is \in {"running"} \cup Ends
  \/ was = "running" /\ is = "cancelling"
  \/ was \notin {"none", "queued"} /\ is \in Ends
StatusMoves(r) == StatusMove(runs[r].st, runs'[r].st)

LEMMA EveryStatusMoves ==
  ASSUME RowsTypeOK, ExecutionsInTurn, [RunServiceNext]_runVars, NEW r \in Runs
  PROVE  StatusMoves(r) \/ Receive(r)
<1>0. runs \in [Runs -> RunRow] /\ runs[r] \in RunRow
  BY DEF RowsTypeOK
<1>1. ASSUME NEW q \in Runs, NEW x, runs' = [runs EXCEPT ![q].st = x]
      PROVE  runs'[r].st = IF r = q THEN x ELSE runs[r].st
  BY <1>0, <1>1 DEF RunRow
<1>2. ASSUME NEW c \in Convs, Execution(c) \/ ExecutorReturns(c)
      PROVE  StatusMoves(r)
  <2> DEFINE q == Run(c)
  <2>0. q \in Runs /\ ExecutionInTurn(c) /\ runs[q].st \in RunStates /\ runs[q].st # "none"
    <3>1. q \in Runs /\ ExecutionInTurn(c) /\ runs[q].st # "none"
      BY <1>2, ExecutionIsOwned DEF ExecutionInTurn, Owned
    <3> QED
      BY <3>1, <1>0 DEF RunRow
  <2>1. ASSUME NEW x, runs' = [runs EXCEPT ![q].st = x], StatusMove(runs[q].st, x)
        PROVE  StatusMoves(r)
    BY <2>0, <2>1, <1>1 DEF StatusMoves, StatusMove
  <2>2. CASE ClaimRun(c)
    <3>1. runs' = runs \/ (runs[q].st = "queued" /\ runs' = [runs EXCEPT ![q].st = "running"])
      <4>1. CASE runs' = runs
        BY <4>1
      <4>2. CASE runs' # runs
        BY <2>2, <4>2, ZenonT(30) DEF ClaimRun, Run, q
      <4> QED
        BY <4>1, <4>2
    <3> HIDE DEF q
    <3> QED
      BY <3>1, <2>1 DEF StatusMoves, StatusMove
  <2>3. CASE FailQueuedDispatch(c)
    <3>1. \/ runs' = runs
          \/ ~Ended(q) /\ runs[q].st = "cancelling" /\ runs' = [runs EXCEPT ![q].st = "cancelled"]
          \/ ~Ended(q) /\ runs' = [runs EXCEPT ![q].st = "failed", ![q].unanswered = TRUE]
      BY <2>3 DEF FailQueuedDispatch
    <3> HIDE DEF q
    <3>2. ASSUME runs' = [runs EXCEPT ![q].st = "failed", ![q].unanswered = TRUE]
          PROVE  runs'[r].st = IF r = q THEN "failed" ELSE runs[r].st
      BY <3>2, <1>0 DEF RunRow
    <3>3. StatusMove(runs[q].st, "failed")
      BY <2>0 DEF StatusMove, RunStates, Ends
    <3> QED
      BY <3>1, <3>2, <3>3, <2>1 DEF StatusMoves, StatusMove, Ends
  <2>4. CASE SettleRun(c)
    <3>1. /\ runs' = [runs EXCEPT ![q].st = active[c].res, ![q].text = active[c].res = "succeeded" /\ allowed]
          /\ active[c].res \in Ends /\ Begun(q)
      BY <2>4, <2>0 DEF SettleRun, ExecutionInTurn, At
    <3> HIDE DEF q
    <3>2. runs'[r].st = IF r = q THEN active[c].res ELSE runs[r].st
      BY <3>1, <1>0 DEF RunRow
    <3> QED
      BY <3>1, <3>2 DEF StatusMoves, StatusMove, Begun
  <2>5. CASE UNCHANGED runs
    BY <2>5 DEF StatusMoves, StatusMove
  <2> QED
    BY <1>2, <2>2, <2>3, <2>4, <2>5
       DEF Execution, EnterExecutor, ExecutorReturns, ReconcileSettlement, PublicationEnds,
           StoppedDispatchEnds
<1>3. ASSUME NEW q \in Runs, Receive(q) \/ CancelRun(q)
      PROVE  StatusMoves(r) \/ Receive(r)
  <2>1. \/ Receive(q) /\ runs' = [runs EXCEPT ![q].st = "queued"]
        \/ runs[q].st = "queued" /\ runs' = [runs EXCEPT ![q].st = "cancelled"]
        \/ runs[q].st = "running" /\ runs' = [runs EXCEPT ![q].st = "cancelling"]
    BY <1>3 DEF Receive, CancelRun
  <2> QED
    BY <1>1, <2>1 DEF StatusMoves, StatusMove, Ends
<1>4. CASE Restart
  <2>1. runs'[r].st = CASE runs[r].st = "running" -> "interrupted" [] runs[r].st = "cancelling" -> "unknown"
                        [] OTHER -> runs[r].st
    BY <1>0, <1>4 DEF Restart, Recovered, RunRow
  <2> QED
    BY <2>1 DEF StatusMoves, StatusMove, Ends
<1>5. ASSUME NEW q \in Runs,
             \/ MessageArrives(q) \/ RetryDelivery(q) \/ AcknowledgeAttention(q)
             \/ \E w \in {"own", "again"} : Publication(q, w)
      PROVE  StatusMoves(r)
  <2>1. runs'[r].st = runs[r].st
    <3>1. \/ runs' = runs \/ runs' = [runs EXCEPT ![q].excl = TRUE]
          \/ \E dl : runs' = [runs EXCEPT ![q].dl = dl]
          \/ runs' = [runs EXCEPT ![q].attn = "resolved"]
          \/ \E dl : runs' = [runs EXCEPT ![q].dl = dl, ![q].attn = Attention(@, dl)]
      BY <1>5 DEF MessageArrives, RetryDelivery, AcknowledgeAttention, Publication, FindDelivery,
         CreateDelivery, ClaimDelivery, SendReturns
    <3>2. ASSUME NEW dl, runs' = [runs EXCEPT ![q].dl = dl] PROVE runs'[r].st = runs[r].st
      BY <3>2, <1>0 DEF RunRow
    <3>3. ASSUME NEW dl, runs' = [runs EXCEPT ![q].dl = dl, ![q].attn = Attention(@, dl)]
          PROVE  runs'[r].st = runs[r].st
      BY <3>3, <1>0 DEF RunRow
    <3>4. CASE runs' = [runs EXCEPT ![q].excl = TRUE] \/ runs' = [runs EXCEPT ![q].attn = "resolved"]
      BY <3>4, <1>0 DEF RunRow
    <3> QED
      BY <3>1, <3>2, <3>3, <3>4
  <2> QED
    BY <2>1 DEF StatusMoves, StatusMove
<1>6. CASE Pump \/ Deny \/ AllowAndRefresh \/ Stop \/ RestoreEnds \/ UNCHANGED runVars
           \/ \E q \in Runs : ReceiveDuplicate(q)
  BY <1>6 DEF Pump, Deny, AllowAndRefresh, Stop, RestoreEnds, ReceiveDuplicate, runVars, StatusMoves, StatusMove
<1> QED
  BY <1>2, <1>3, <1>4, <1>5, <1>6 DEF RunServiceNext

(* Whatever has begun has begun for good, and so has whatever has ended. *)
LEMMA StatusesGoOn ==
  ASSUME RowsTypeOK, ExecutionsInTurn, [RunServiceNext]_runVars, NEW r \in Runs
  PROVE  /\ runs[r].st # "none" => runs'[r].st # "none"
         /\ Begun(r) => Begun(r)'
         /\ Ended(r) => Ended(r)'
<1>1. CASE StatusMoves(r)
  BY <1>1 DEF StatusMoves, StatusMove, Begun, Ended, Ends
<1>2. CASE Receive(r)
  BY <1>2 DEF Receive, Begun, Ended, Ends, RowsTypeOK, RunRow
<1> QED
  BY <1>1, <1>2, EveryStatusMoves

LEMMA ArrivalsStayInOrder ==
  ASSUME ExecutionIInv, [RunServiceNext]_runVars
  PROVE  ArrivalsInOrder'
<1> SUFFICES ASSUME NEW q \in Runs, NEW r \in Runs, q < r, runs'[r].st # "none"
             PROVE  runs'[q].st # "none"
  BY DEF ArrivalsInOrder
<1>1. CASE runs[r].st # "none"
  BY <1>1, StatusesGoOn DEF ExecutionIInv, ArrivalsInOrder
<1>2. CASE runs[r].st = "none"
  <2>1. Receive(r)
    BY <1>2, EveryStatusMoves DEF StatusMoves, StatusMove, Ends, ExecutionIInv
  <2> QED
    BY <2>1, StatusesGoOn DEF Receive, ExecutionIInv
<1> QED
  BY <1>1, <1>2

(* An executor is entered only by the execution of its Run, in its turn. *)
LEMMA EntriesAreOwn ==
  ASSUME RowsTypeOK, ExecutionsInTurn, [RunServiceNext]_runVars, NEW r \in Runs
  PROVE  \/ outside'[r].entered = outside[r].entered
         \/ \E c \in Convs :
              /\ ExecutionInTurn(c) /\ EnterExecutor(c) /\ active[c].pc = "prepare"
              /\ r = Run(c) /\ outside'[r].entered = outside[r].entered + 1
<1>0. outside \in [Runs -> [entered : Nat, out : Nat, got : Nat]]
  BY DEF RowsTypeOK
<1>1. ASSUME NEW c \in Convs, EnterExecutor(c), outside' # outside
      PROVE  /\ ExecutionInTurn(c) /\ active[c].pc = "prepare" /\ Run(c) \in Runs
             /\ outside'[r].entered = outside[r].entered + (IF r = Run(c) THEN 1 ELSE 0)
  <2>1. outside' = [outside EXCEPT ![Run(c)].entered = @ + 1] /\ active[c].pc = "prepare"
    BY <1>1 DEF EnterExecutor, At
  <2>2. ExecutionInTurn(c) /\ Run(c) \in Runs
    BY <1>1, ExecutionIsOwned DEF Execution, ExecutionInTurn, Owned
  <2> QED
    BY <1>0, <2>1, <2>2
<1>2. ASSUME NEW q \in Runs,
             \/ MessageArrives(q) \/ \E w \in {"own", "again"} : ClaimDelivery(q, w) \/ SendReturns(q, w)
      PROVE  outside'[r].entered = outside[r].entered
  <2>1. \/ outside' = outside \/ \E n : outside' = [outside EXCEPT ![q].out = n]
        \/ \E n, m : outside' = [outside EXCEPT ![q].out = n, ![q].got = m]
    BY <1>2 DEF MessageArrives, ClaimDelivery, SendReturns
  <2>2. ASSUME NEW n, outside' = [outside EXCEPT ![q].out = n]
        PROVE  outside'[r].entered = outside[r].entered
    BY <1>0, <2>2
  <2>3. ASSUME NEW n, NEW m, outside' = [outside EXCEPT ![q].out = n, ![q].got = m]
        PROVE  outside'[r].entered = outside[r].entered
    BY <1>0, <2>3
  <2> QED
    BY <2>1, <2>2, <2>3
<1>3. \/ outside' = outside
      \/ \E c \in Convs : EnterExecutor(c)
      \/ \E q \in Runs : \/ MessageArrives(q)
                        \/ \E w \in {"own", "again"} : ClaimDelivery(q, w) \/ SendReturns(q, w)
  BY DEF RunServiceNext, Execution, Publication, runVars, Pump, Deny, AllowAndRefresh, Stop, Restart,
         RestoreEnds, ClaimRun, FailQueuedDispatch, ExecutorReturns, SettleRun, ReconcileSettlement,
         PublicationEnds, StoppedDispatchEnds, Receive, ReceiveDuplicate, CancelRun, RetryDelivery,
         AcknowledgeAttention, FindDelivery, CreateDelivery
<1>4. ASSUME NEW c \in Convs, EnterExecutor(c), outside' # outside
      PROVE  \/ outside'[r].entered = outside[r].entered
             \/ /\ ExecutionInTurn(c) /\ EnterExecutor(c) /\ active[c].pc = "prepare"
                /\ r = Run(c) /\ outside'[r].entered = outside[r].entered + 1
  BY <1>0, <1>1, <1>4
<1> QED
  BY <1>2, <1>3, <1>4

LEMMA EntriesStayInOrder ==
  ASSUME ExecutionIInv, [RunServiceNext]_runVars
  PROVE  QueuedIsNotEntered' /\ ExecutorEntersOnce'
<1> SUFFICES ASSUME NEW r \in Runs
             PROVE  /\ ~Begun(r)' => outside'[r].entered = 0
                    /\ outside'[r].entered <= 1
                    /\ outside'[r].entered = 1 =>
                         \A q \in Runs : q < r /\ ConvOf[q] = ConvOf[r] => Ended(q)'
  BY DEF QueuedIsNotEntered, ExecutorEntersOnce
<1>1. CASE outside'[r].entered = outside[r].entered
  BY <1>1, StatusesGoOn DEF ExecutionIInv, QueuedIsNotEntered, ExecutorEntersOnce
<1>2. ASSUME NEW c \in Convs, ExecutionInTurn(c), active[c].pc = "prepare", r = Run(c),
             outside'[r].entered = outside[r].entered + 1
      PROVE  /\ Begun(r) /\ outside'[r].entered = 1
             /\ \A q \in Runs : q < r /\ ConvOf[q] = ConvOf[r] => Ended(q)
  BY <1>2 DEF ExecutionInTurn, Owned
<1> QED
  BY <1>1, <1>2, EntriesAreOwn, StatusesGoOn DEF ExecutionIInv

(* An execution that does not move keeps its turn, aborted or not. *)
LEMMA TurnIsKept ==
  ASSUME ExecutionIInv, [RunServiceNext]_runVars, NEW c \in Convs, ExecutionInTurn(c),
         active'[c].run = active[c].run, active'[c].pc = active[c].pc, active'[c].res = active[c].res,
         active[c].pc # "prepare" \/ ~EnterExecutor(c)
  PROVE  ExecutionInTurn(c)'
<1>1. Run(c)' = Run(c) /\ Run(c) \in Runs /\ ConvOf[Run(c)] = c
  BY DEF Run, ExecutionInTurn, Owned
<1>2. active[c].pc \in {"claim", "unclaimed", "prepare"} => outside'[Run(c)].entered = outside[Run(c)].entered
  BY <1>1, EntriesAreOwn DEF ExecutionIInv, ExecutionInTurn, Owned
<1> QED
  BY <1>1, <1>2, StatusesGoOn DEF ExecutionIInv, ExecutionInTurn, Owned, At

(* A step of an execution. *)
LEMMA TurnGoesOn ==
  ASSUME ExecutionIInv, [RunServiceNext]_runVars, NEW c \in Convs, Execution(c) \/ ExecutorReturns(c)
  PROVE  active'[c] = NoExecution \/ ExecutionInTurn(c)'
<1> DEFINE r == Run(c)
<1>0. /\ ExecutionInTurn(c) /\ r \in Runs /\ ConvOf[r] = c /\ active[c].run = r
      /\ active \in [Convs -> ExecutionRow] /\ runs[r].st \in RunStates /\ runs \in [Runs -> RunRow]
  BY ExecutionIsOwned DEF ExecutionInTurn, Owned, ExecutionIInv, RowsTypeOK, RunRow, Run
<1>1. ASSUME NEW pc, active' = [active EXCEPT ![c].pc = pc]
      PROVE  active'[c].run = r /\ active'[c].pc = pc /\ active'[c].res = active[c].res
  BY <1>0, <1>1 DEF ExecutionRow
<1>2. ASSUME NEW pc, NEW res, active' = [active EXCEPT ![c].pc = pc, ![c].res = res]
      PROVE  active'[c].run = r /\ active'[c].pc = pc /\ active'[c].res = res
  BY <1>0, <1>2 DEF ExecutionRow
<1>3. ASSUME active' = [active EXCEPT ![c] = NoExecution] PROVE active'[c] = NoExecution
  BY <1>0, <1>3
<1>4. ASSUME active'[c].run = r, active'[c].pc \in {"execute", "settle", "reconcile", "publish"},
             active[c].pc \notin {"claim", "unclaimed"},
             active'[c].pc \in {"settle", "reconcile"} => active'[c].res \in Ends
      PROVE  ExecutionInTurn(c)'
  BY <1>0, <1>4, StatusesGoOn DEF ExecutionIInv, ExecutionInTurn, Owned, Run, At
<1>5. CASE ClaimRun(c)
  <2>0. active[c].pc = "claim" /\ outside'[r].entered = 0 /\ runs'[r].st # "none"
    <3>1. active[c].pc = "claim"
      BY <1>5 DEF ClaimRun, At
    <3>2. outside[r].entered = 0 /\ runs[r].st # "none"
      BY <1>0, <3>1 DEF ExecutionInTurn
    <3>3. outside' = outside
      BY <1>5 DEF ClaimRun
    <3> QED
      BY <1>0, <3>1, <3>2, <3>3, StatusesGoOn DEF ExecutionIInv
  <2>1. ASSUME active'[c].run = r, active'[c].pc \in {"claim", "unclaimed"}
        PROVE  ExecutionInTurn(c)'
    BY <1>0, <2>0, <2>1, StatusesGoOn DEF ExecutionIInv, ExecutionInTurn, Owned, Run, At
  <2>2. ASSUME active' = [active EXCEPT ![c].tries = @ + 1]
        PROVE  active'[c].run = r /\ active'[c].pc = active[c].pc
    BY <1>0, <2>2 DEF ExecutionRow
  <2>3. ASSUME Goto(c, "prepare"), runs' = [runs EXCEPT ![r].st = "running"],
               \A q \in Runs : ConvOf[q] = c => runs[q].st \notin {"running", "cancelling"}
        PROVE  ExecutionInTurn(c)'
    <3>1. active'[c].run = r /\ active'[c].pc = "prepare"
      BY <1>1, <2>3 DEF Goto
    <3>2. runs'[r].st = "running"
      BY <1>0, <2>3 DEF RunRow
    <3>3. ASSUME NEW q \in Runs, q < r, ConvOf[q] = c PROVE Ended(q)
      <4>1. Begun(q) /\ runs[q].st \in RunStates /\ runs[q].st \notin {"running", "cancelling"}
        BY <1>0, <2>0, <2>3, <3>3 DEF ExecutionInTurn, RunRow
      <4> QED
        BY <4>1 DEF Begun, Ended, RunStates
    <3> QED
      BY <1>0, <2>0, <3>1, <3>2, <3>3, StatusesGoOn
         DEF ExecutionIInv, ExecutionInTurn, Owned, Run, At, Begun
  <2>4. \/ active' = [active EXCEPT ![c].tries = @ + 1]
        \/ active' = [active EXCEPT ![c].pc = "unclaimed"]
        \/ active' = [active EXCEPT ![c] = NoExecution]
        \/ /\ Goto(c, "prepare") /\ runs' = [runs EXCEPT ![r].st = "running"]
           /\ \A q \in Runs : ConvOf[q] = c => runs[q].st \notin {"running", "cancelling"}
    BY <1>5, ZenonT(30) DEF ClaimRun, Goto, Leave, Run, r
  <2> QED
    BY <1>1, <1>3, <2>0, <2>1, <2>2, <2>3, <2>4
<1>6. CASE EnterExecutor(c)
  <2>1. active[c].pc = "prepare" /\ AbortedAs(c) \in Ends /\ "failed" \in Ends
    BY <1>6, AbortIsAnEnd DEF EnterExecutor, At, Ends
  <2>2. \/ active' = [active EXCEPT ![c].pc = "execute"]
        \/ \E res \in Ends : active' = [active EXCEPT ![c].pc = "settle", ![c].res = res]
    BY <1>6, <2>1 DEF EnterExecutor, Goto
  <2> QED
    BY <1>1, <1>2, <1>4, <2>1, <2>2
<1>7. CASE ExecutorReturns(c)
  <2>1. active[c].pc = "execute"
    BY <1>7 DEF ExecutorReturns, At
  <2>2. PICK res \in Ends : active' = [active EXCEPT ![c].pc = "settle", ![c].res = res]
    BY <1>7, AbortIsAnEnd DEF ExecutorReturns, Ends
  <2> QED
    BY <1>2, <1>4, <2>1, <2>2
<1>8. CASE SettleRun(c) \/ ReconcileSettlement(c)
  <2>1. active[c].pc \in {"settle", "reconcile"} /\ active[c].res \in Ends
    BY <1>0, <1>8 DEF SettleRun, ReconcileSettlement, At, ExecutionInTurn
  <2>2. \/ active' = [active EXCEPT ![c].pc = "publish"]
        \/ active' = [active EXCEPT ![c].pc = "reconcile"]
        \/ active' = [active EXCEPT ![c] = NoExecution]
    BY <1>8 DEF SettleRun, ReconcileSettlement, Publish, Goto, Leave
  <2> QED
    BY <1>1, <1>3, <1>4, <2>1, <2>2
<1>9. CASE FailQueuedDispatch(c) \/ PublicationEnds(c) \/ StoppedDispatchEnds(c)
  BY <1>3, <1>9 DEF FailQueuedDispatch, PublicationEnds, StoppedDispatchEnds, Leave
<1> QED
  BY <1>5, <1>6, <1>7, <1>8, <1>9 DEF Execution

(* A Run the pump launches is queued, and every Run before it has begun. *)
LEMMA LaunchIsInTurn ==
  ASSUME ExecutionIInv, Pump, NEW c \in Convs
  PROVE  active'[c] = active[c] \/ ExecutionInTurn(c)'
<1> DEFINE r == CHOOSE r \in Launched : ConvOf[r] = c
<1>1. CASE ~\E q \in Launched : ConvOf[q] = c
  BY <1>1 DEF Pump
<1>2. CASE \E q \in Launched : ConvOf[q] = c
  <2>1. r \in Launchable /\ r \in Runs /\ ConvOf[r] = c
    BY <1>2, LaunchedRun
  <2>2. active'[c] = [NoExecution EXCEPT !.run = r, !.pc = "claim"] /\ runs' = runs /\ outside' = outside
    BY <1>2 DEF Pump
  <2> HIDE DEF r
  <2>3. active'[c].run = r /\ active'[c].pc = "claim"
    BY <2>2 DEF NoExecution
  <2>4. /\ runs[r].st = "queued" /\ outside[r].entered = 0
        /\ \A q \in Runs : q < r /\ ConvOf[q] = c => Begun(q)
    BY <2>1 DEF Launchable, Begun, ExecutionIInv, ArrivalsInOrder, QueuedIsNotEntered
  <2> QED
    BY <2>1, <2>2, <2>3, <2>4 DEF ExecutionInTurn, Owned, Run, At, Begun
<1> QED
  BY <1>1, <1>2

LEMMA ExecutionsStayInTurn ==
  ASSUME ExecutionIInv, [RunServiceNext]_runVars
  PROVE  ExecutionsInTurn'
<1> SUFFICES ASSUME NEW c \in Convs, active'[c] # NoExecution PROVE ExecutionInTurn(c)'
  BY DEF ExecutionsInTurn
<1>1. CASE active'[c] = active[c]
  <2>1. CASE Execution(c) \/ ExecutorReturns(c)
    BY <2>1, TurnGoesOn
  <2>2. CASE ~(Execution(c) \/ ExecutorReturns(c))
    BY <1>1, <2>2, TurnIsKept DEF ExecutionIInv, ExecutionsInTurn, Execution
  <2> QED
    BY <2>1, <2>2
<1>2. CASE active'[c] # active[c]
  <2>0. active \in [Convs -> ExecutionRow]
    BY DEF ExecutionIInv, RowsTypeOK
  <2>1. CASE Pump
    BY <1>2, <2>1, LaunchIsInTurn
  <2>2. CASE Restart
    BY <2>2 DEF Restart
  <2>3. CASE Execution(c) \/ ExecutorReturns(c)
    BY <2>3, TurnGoesOn
  <2>4. ASSUME Run(c) # 0, active'[c] = [active[c] EXCEPT !.abort = TRUE], ~Execution(c)
        PROVE  ExecutionInTurn(c)'
    <3>1. ExecutionInTurn(c)
      BY <2>4 DEF ExecutionIInv, ExecutionsInTurn, Run, NoExecution
    <3>2. active'[c].run = active[c].run /\ active'[c].pc = active[c].pc /\ active'[c].res = active[c].res
      BY <2>0, <2>4 DEF ExecutionRow
    <3> QED
      BY <2>4, <3>1, <3>2, TurnIsKept DEF Execution
  <2>5. CASE Stop
    BY <1>2, <2>3, <2>4, <2>5 DEF Stop
  <2>6. ASSUME NEW d \in Convs, Execution(d) \/ ExecutorReturns(d), d # c PROVE FALSE
    <3>1. \/ active' = [active EXCEPT ![d] = NoExecution] \/ active' = [active EXCEPT ![d].tries = @ + 1]
          \/ \E pc : active' = [active EXCEPT ![d].pc = pc]
          \/ \E res : active' = [active EXCEPT ![d].pc = "settle", ![d].res = res]
          \/ active' = active
      <4>1. CASE ClaimRun(d)
        BY <4>1, ZenonT(30) DEF ClaimRun, Goto, Leave
      <4>2. CASE EnterExecutor(d) \/ ExecutorReturns(d)
        BY <4>2, ZenonT(30) DEF EnterExecutor, ExecutorReturns, Goto
      <4> QED
        BY <2>6, <4>1, <4>2
           DEF Execution, FailQueuedDispatch, SettleRun, ReconcileSettlement, PublicationEnds,
               StoppedDispatchEnds, Publish, Goto, Leave
    <3>2. ASSUME NEW pc, active' = [active EXCEPT ![d].pc = pc] PROVE FALSE
      BY <1>2, <2>0, <2>6, <3>2
    <3>3. ASSUME NEW res, active' = [active EXCEPT ![d].pc = "settle", ![d].res = res] PROVE FALSE
      BY <1>2, <2>0, <2>6, <3>3
    <3>4. active' # [active EXCEPT ![d] = NoExecution] /\ active' # [active EXCEPT ![d].tries = @ + 1]
      BY <1>2, <2>0, <2>6
    <3> QED
      BY <1>2, <3>1, <3>2, <3>3, <3>4
  <2>7. ASSUME NEW r \in Runs, CancelRun(r) PROVE ExecutionInTurn(c)'
    <3>1. Run(ConvOf[r]) = r /\ active' = [active EXCEPT ![ConvOf[r]].abort = TRUE]
      BY <1>2, <2>7 DEF CancelRun
    <3>2. c = ConvOf[r] /\ active'[c] = [active[c] EXCEPT !.abort = TRUE]
      BY <1>2, <2>0, <3>1
    <3> QED
      BY <2>3, <2>4, <3>1, <3>2, RunNumbers
  <2> QED
    BY <1>2, <2>1, <2>2, <2>3, <2>5, <2>6, <2>7
       DEF RunServiceNext, runVars, Deny, AllowAndRefresh, RestoreEnds, Receive, ReceiveDuplicate,
           Publication, FindDelivery, CreateDelivery, ClaimDelivery, SendReturns, MessageArrives,
           RetryDelivery, AcknowledgeAttention
<1> QED
  BY <1>1, <1>2

(* An executor is entered once for a Run, and only when the earlier Runs of *)
(* its conversation have ended: for any number of conversations, Runs,     *)
(* faults, cancellations and restarts.                                     *)
THEOREM RunsInOrder == RunServiceSpec => []ExecutorEntersOnce
<1>1. RunServiceInit => ExecutionIInv
  BY InitExecutionIInv
<1>2. ExecutionIInv /\ [RunServiceNext]_runVars => ExecutionIInv'
  BY NextRowsTypeOK, ExecutionsStayInTurn, ArrivalsStayInOrder, EntriesStayInOrder DEF ExecutionIInv
<1>3. ExecutionIInv => ExecutorEntersOnce
  BY DEF ExecutionIInv
<1> QED
  BY <1>1, <1>2, <1>3, PTL DEF RunServiceSpec

(***************************************************************************)
(* What the store says of a delivery is true.                              *)
(***************************************************************************)
(* One row, and what has become of its message. *)
RowIsTrue(row, way) ==
  /\ way.out + way.got <= 1
  /\ row.dl = "sent" => way.got = 1
  /\ row.dl \in {"none", "pending", "failed"} => way.out + way.got = 0
  /\ row.dl \in {"failed", "unknown"} => row.attn # "none"

(* The steps that have nothing to do with a delivery. *)
LEMMA DeliveriesAreLeft ==
  ASSUME RowsTypeOK, ExecutionsInTurn, NEW r \in Runs,
         \/ UNCHANGED runVars
         \/ Pump \/ Deny \/ AllowAndRefresh \/ Stop \/ RestoreEnds
         \/ \E c \in Convs : Execution(c) \/ ExecutorReturns(c)
         \/ \E q \in Runs : Receive(q) \/ ReceiveDuplicate(q) \/ CancelRun(q)
  PROVE  /\ runs'[r].dl = runs[r].dl /\ runs'[r].attn = runs[r].attn
         /\ outside'[r].out = outside[r].out /\ outside'[r].got = outside[r].got
<1>0. runs \in [Runs -> RunRow] /\ outside \in [Runs -> [entered : Nat, out : Nat, got : Nat]]
  BY DEF RowsTypeOK
<1>1. ASSUME NEW q \in Runs, NEW st, runs' = [runs EXCEPT ![q].st = st]
      PROVE  runs'[r].dl = runs[r].dl /\ runs'[r].attn = runs[r].attn
  BY <1>0, <1>1 DEF RunRow
<1>2. ASSUME NEW c \in Convs, Execution(c) \/ ExecutorReturns(c)
      PROVE  /\ runs'[r].dl = runs[r].dl /\ runs'[r].attn = runs[r].attn
             /\ outside'[r].out = outside[r].out /\ outside'[r].got = outside[r].got
  <2> DEFINE q == Run(c)
  <2>0. q \in Runs
    BY <1>2, ExecutionIsOwned DEF ExecutionInTurn, Owned
  <2>1. CASE ClaimRun(c)
    <3>1. runs' = runs \/ runs' = [runs EXCEPT ![q].st = "running"]
      BY <2>1, ZenonT(30) DEF ClaimRun, Run, q
    <3>2. outside' = outside
      BY <2>1 DEF ClaimRun
    <3> HIDE DEF q
    <3> QED
      BY <2>0, <1>1, <3>1, <3>2
  <2>2. CASE FailQueuedDispatch(c)
    <3>1. \/ runs' = runs \/ runs' = [runs EXCEPT ![q].st = "cancelled"]
          \/ runs' = [runs EXCEPT ![q].st = "failed", ![q].unanswered = TRUE]
      BY <2>2 DEF FailQueuedDispatch, Run, q
    <3>2. outside' = outside
      BY <2>2 DEF FailQueuedDispatch
    <3> HIDE DEF q
    <3>3. ASSUME runs' = [runs EXCEPT ![q].st = "failed", ![q].unanswered = TRUE]
          PROVE  runs'[r].dl = runs[r].dl /\ runs'[r].attn = runs[r].attn
      BY <1>0, <3>3 DEF RunRow
    <3> QED
      BY <2>0, <1>1, <3>1, <3>2, <3>3
  <2>3. CASE SettleRun(c)
    <3>1. PICK st, text : runs' = [runs EXCEPT ![q].st = st, ![q].text = text]
      BY <2>3 DEF SettleRun, Run, q
    <3>2. outside' = outside
      BY <2>3 DEF SettleRun
    <3> HIDE DEF q
    <3> QED
      BY <1>0, <3>1, <3>2 DEF RunRow
  <2>4. CASE EnterExecutor(c)
    <3>1. outside' = outside \/ outside' = [outside EXCEPT ![q].entered = @ + 1]
      BY <2>4 DEF EnterExecutor, Run, q
    <3>2. runs' = runs
      BY <2>4 DEF EnterExecutor
    <3> HIDE DEF q
    <3> QED
      BY <1>0, <3>1, <3>2
  <2> QED
    BY <1>2, <2>1, <2>2, <2>3, <2>4
       DEF Execution, ExecutorReturns, ReconcileSettlement, PublicationEnds, StoppedDispatchEnds
<1>3. ASSUME NEW q \in Runs, Receive(q) \/ ReceiveDuplicate(q) \/ CancelRun(q)
      PROVE  /\ runs'[r].dl = runs[r].dl /\ runs'[r].attn = runs[r].attn
             /\ outside'[r].out = outside[r].out /\ outside'[r].got = outside[r].got
  <2>1. runs' = runs \/ \E st : runs' = [runs EXCEPT ![q].st = st]
    BY <1>3 DEF Receive, ReceiveDuplicate, CancelRun
  <2>2. outside' = outside
    BY <1>3 DEF Receive, ReceiveDuplicate, CancelRun
  <2> QED
    BY <1>1, <2>1, <2>2
<1> QED
  BY <1>2, <1>3 DEF Pump, Deny, AllowAndRefresh, Stop, RestoreEnds, runVars

LEMMA DeliveryStaysTrue ==
  ASSUME RowsTypeOK, ExecutionsInTurn, DeliveryIsTrue, [RunServiceNext]_runVars
  PROVE  DeliveryIsTrue'
<1> SUFFICES ASSUME NEW r \in Runs PROVE RowIsTrue(runs'[r], outside'[r])
  BY DEF DeliveryIsTrue, RowIsTrue
<1>0. /\ RowIsTrue(runs[r], outside[r]) /\ runs[r] \in RunRow
      /\ outside[r].out \in Nat /\ outside[r].got \in Nat
      /\ runs \in [Runs -> RunRow] /\ outside \in [Runs -> [entered : Nat, out : Nat, got : Nat]]
  BY DEF DeliveryIsTrue, RowIsTrue, RowsTypeOK
<1>1. ASSUME runs'[r].dl = runs[r].dl, runs'[r].attn = runs[r].attn,
             outside'[r].out = outside[r].out, outside'[r].got = outside[r].got
      PROVE  RowIsTrue(runs'[r], outside'[r])
  BY <1>0, <1>1 DEF RowIsTrue
<1>2. CASE Restart
  <2>1. /\ outside' = outside
        /\ runs'[r].dl = IF runs[r].dl = "sending" THEN "unknown" ELSE runs[r].dl
        /\ runs'[r].attn = IF runs[r].attn = "none" /\ runs[r].dl \in {"sending", "unknown", "failed"}
                           THEN "open" ELSE runs[r].attn
    BY <1>0, <1>2 DEF Restart, Recovered, RunRow
  <2> QED
    BY <1>0, <2>1 DEF RowIsTrue
<1>3. ASSUME NEW q \in Runs, MessageArrives(q)
      PROVE  RowIsTrue(runs'[r], outside'[r])
  <2>1. /\ outside[q].out > 0 /\ runs' = runs
        /\ outside' = [outside EXCEPT ![q].out = @ - 1, ![q].got = @ + 1]
    BY <1>3 DEF MessageArrives
  <2>2. CASE q = r
    BY <1>0, <2>1, <2>2 DEF RowIsTrue
  <2>3. CASE q # r
    BY <1>0, <2>1, <2>3, <1>1
  <2> QED
    BY <2>2, <2>3
<1>a. runs \in [Runs -> RunRow]
  BY <1>0
<1>b. ASSUME NEW q \in Runs, NEW dl, runs' = [runs EXCEPT ![q].dl = dl]
      PROVE  runs'[r].dl = (IF q = r THEN dl ELSE runs[r].dl) /\ runs'[r].attn = runs[r].attn
  BY <1>a, <1>b DEF RunRow
<1>c. ASSUME NEW q \in Runs, runs' = [runs EXCEPT ![q].attn = "resolved"]
      PROVE  runs'[r].dl = runs[r].dl /\ runs'[r].attn \in {runs[r].attn, "resolved"}
  BY <1>a, <1>c DEF RunRow
<1>d. ASSUME NEW q \in Runs, runs' = [runs EXCEPT ![q].excl = TRUE]
      PROVE  runs'[r].dl = runs[r].dl /\ runs'[r].attn = runs[r].attn
  BY <1>a, <1>d DEF RunRow
<1>4. ASSUME NEW q \in Runs, RetryDelivery(q) \/ AcknowledgeAttention(q)
      PROVE  RowIsTrue(runs'[r], outside'[r])
  <2>1. /\ outside' = outside
        /\ \/ runs[q].dl = "failed" /\ runs' = [runs EXCEPT ![q].dl = "pending"]
           \/ runs' = [runs EXCEPT ![q].attn = "resolved"]
    BY <1>4 DEF RetryDelivery, AcknowledgeAttention
  <2>2. /\ runs'[r].dl = runs[r].dl \/ (runs[r].dl = "failed" /\ runs'[r].dl = "pending")
        /\ runs'[r].attn \in {runs[r].attn, "resolved"}
    <3>1. ASSUME runs[q].dl = "failed", runs' = [runs EXCEPT ![q].dl = "pending"]
          PROVE  /\ runs'[r].dl = runs[r].dl \/ (runs[r].dl = "failed" /\ runs'[r].dl = "pending")
                 /\ runs'[r].attn = runs[r].attn
      <4>1. runs'[r].dl = (IF q = r THEN "pending" ELSE runs[r].dl) /\ runs'[r].attn = runs[r].attn
        BY <3>1, <1>b
      <4>2. runs[q].dl = "failed"
        BY <3>1
      <4> QED
        BY <4>1, <4>2
    <3>2. ASSUME runs' = [runs EXCEPT ![q].attn = "resolved"]
          PROVE  runs'[r].dl = runs[r].dl /\ runs'[r].attn \in {runs[r].attn, "resolved"}
      BY <3>2, <1>c
    <3> QED
      BY <2>1, <3>1, <3>2, Zenon
  <2> QED
    BY <1>0, <2>1, <2>2 DEF RowIsTrue
<1>5. ASSUME NEW q \in Runs, NEW w \in {"own", "again"}, FindDelivery(q, w) \/ CreateDelivery(q, w)
      PROVE  RowIsTrue(runs'[r], outside'[r])
  <2>1. /\ outside' = outside
        /\ \/ runs' = runs \/ runs' = [runs EXCEPT ![q].excl = TRUE]
           \/ runs' = [runs EXCEPT ![q].dl = IF runs[q].dl = "none" THEN "pending" ELSE runs[q].dl]
    BY <1>5 DEF FindDelivery, CreateDelivery
  <2>2. /\ runs'[r].dl = runs[r].dl \/ (runs[r].dl = "none" /\ runs'[r].dl = "pending")
        /\ runs'[r].attn = runs[r].attn
    <3> DEFINE dl == IF runs[q].dl = "none" THEN "pending" ELSE runs[q].dl
    <3>1. ASSUME runs' = [runs EXCEPT ![q].dl = dl]
          PROVE  /\ runs'[r].dl = runs[r].dl \/ (runs[r].dl = "none" /\ runs'[r].dl = "pending")
                 /\ runs'[r].attn = runs[r].attn
      <4> HIDE DEF dl
      <4>1. runs'[r].dl = (IF q = r THEN dl ELSE runs[r].dl) /\ runs'[r].attn = runs[r].attn
        BY <3>1, <1>b
      <4>2. dl = runs[q].dl \/ (runs[q].dl = "none" /\ dl = "pending")
        BY DEF dl
      <4> QED
        BY <4>1, <4>2
    <3>2. ASSUME runs' = [runs EXCEPT ![q].excl = TRUE]
          PROVE  runs'[r].dl = runs[r].dl /\ runs'[r].attn = runs[r].attn
      BY <3>2, <1>d
    <3> QED
      BY <2>1, <3>1, <3>2, Zenon
  <2> QED
    BY <1>0, <2>1, <2>2 DEF RowIsTrue
<1>6. ASSUME NEW q \in Runs, NEW w \in {"own", "again"}, ClaimDelivery(q, w)
      PROVE  RowIsTrue(runs'[r], outside'[r])
  <2>1. \/ runs' = runs /\ outside' = outside
        \/ /\ runs[q].dl = "pending" /\ runs' = [runs EXCEPT ![q].dl = "sending"]
           /\ outside' = [outside EXCEPT ![q].out = @ + 1]
    BY <1>6 DEF ClaimDelivery, ClaimableDelivery
  <2>2. CASE q = r /\ runs' # runs
    <3>1. runs'[r].dl = "sending" /\ runs'[r].attn = runs[r].attn
      BY <1>0, <2>1, <2>2 DEF RunRow
    <3>2. outside'[r].out = 1 /\ outside'[r].got = 0
      BY <1>0, <2>1, <2>2 DEF RowIsTrue
    <3> QED
      BY <3>1, <3>2 DEF RowIsTrue
  <2>3. CASE q # r
    BY <1>0, <1>1, <2>1, <2>3
  <2>4. CASE runs' = runs
    <3>1. CASE outside' = outside
      BY <1>0, <2>4, <3>1
    <3>2. CASE outside' # outside
      <4>1. runs[q].dl = "pending" /\ runs'[q].dl = "sending"
        BY <1>0, <2>1, <3>2 DEF RunRow
      <4> QED
        BY <2>4, <4>1
    <3> QED
      BY <3>1, <3>2
  <2> QED
    BY <2>2, <2>3, <2>4
<1>7. ASSUME NEW q \in Runs, NEW w \in {"own", "again"}, SendReturns(q, w)
      PROVE  RowIsTrue(runs'[r], outside'[r])
  <2>1. CASE runs' = runs /\ outside' = outside
    BY <1>0, <2>1
  <2>2. ASSUME NEW d \in {"sent", "failed", "unknown"},
               d = "sent" => outside[q].got > 0, d = "failed" => outside[q].out > 0,
               runs' = IF runs[q].dl # "sending" THEN runs
                       ELSE [runs EXCEPT ![q].dl = d, ![q].attn = Attention(@, d)],
               outside' = IF d = "failed" THEN [outside EXCEPT ![q].out = @ - 1] ELSE outside
        PROVE  RowIsTrue(runs'[r], outside'[r])
    <3>1. CASE q # r
      BY <1>0, <1>1, <2>2, <3>1
    <3>2. CASE q = r
      <4>1. /\ outside'[r].out = IF d = "failed" THEN outside[r].out - 1 ELSE outside[r].out
            /\ outside'[r].got = outside[r].got
        BY <1>0, <2>2, <3>2
      <4>2. CASE runs[r].dl # "sending"
        BY <1>0, <2>2, <3>2, <4>1, <4>2 DEF RowIsTrue
      <4>3. CASE runs[r].dl = "sending"
        <5>1. runs'[r].dl = d /\ runs'[r].attn = Attention(runs[r].attn, d)
          BY <1>0, <2>2, <3>2, <4>3 DEF RunRow
        <5>2. d # "sent" => runs'[r].attn = "open"
          BY <5>1 DEF Attention
        <5>3. CASE d = "sent"
          <6>1. outside'[r].out + outside'[r].got = 1 /\ outside'[r].got = 1
            BY <1>0, <2>2, <3>2, <4>1, <5>3 DEF RowIsTrue
          <6> QED
            BY <5>1, <5>3, <6>1 DEF RowIsTrue
        <5>4. CASE d = "failed"
          <6>0. /\ outside[r].out \in Nat /\ outside[r].got \in Nat
                /\ outside[r].out > 0 /\ outside[r].out + outside[r].got <= 1
            BY <1>0, <2>2, <3>2, <5>4 DEF RowIsTrue
          <6>1. outside'[r].out + outside'[r].got = 0
            BY <6>0, <4>1, <5>4
          <6> QED
            BY <5>1, <5>2, <5>4, <6>1 DEF RowIsTrue
        <5>5. CASE d = "unknown"
          <6>1. outside'[r].out + outside'[r].got <= 1
            BY <1>0, <4>1, <5>5 DEF RowIsTrue
          <6> QED
            BY <5>1, <5>2, <5>5, <6>1 DEF RowIsTrue
        <5> QED
          BY <5>3, <5>4, <5>5
      <4> QED
        BY <4>2, <4>3
    <3> QED
      BY <3>1, <3>2
  <2> QED
    BY <1>7, <2>1, <2>2 DEF SendReturns
<1> QED
  BY <1>1, <1>2, <1>3, <1>4, <1>5, <1>6, <1>7, DeliveriesAreLeft DEF RunServiceNext, Publication

(* No message is sent twice unless the first was refused, and what the     *)
(* store says of a delivery is so: for any number of Runs, publications of *)
(* the same Run at once, retries, lost confirmations and restarts.         *)
THEOREM DeliveriesAreTrue == RunServiceSpec => []DeliveryIsTrue
<1>1. RunServiceInit => ExecutionIInv /\ DeliveryIsTrue
  BY InitExecutionIInv DEF RunServiceInit, DeliveryIsTrue
<1>2. ExecutionIInv /\ [RunServiceNext]_runVars => ExecutionIInv'
  BY NextRowsTypeOK, ExecutionsStayInTurn, ArrivalsStayInOrder, EntriesStayInOrder DEF ExecutionIInv
<1>3. ExecutionIInv /\ DeliveryIsTrue /\ [RunServiceNext]_runVars => DeliveryIsTrue'
  BY DeliveryStaysTrue DEF ExecutionIInv
<1> QED
  BY <1>1, <1>2, <1>3, PTL DEF RunServiceSpec
=============================================================================
