-------------------------- MODULE SourceAuthority --------------------------
(* Protected content and the authority it rests on: the grants, approvals   *)
(* and group policy of auth/service.ts, the authorization ledger of a Run,   *)
(* and the ways protected content reaches a Run (a Tool, the conversation's  *)
(* history, a Task) and leaves it again (a provider call, a delivery).       *)
EXTENDS Naturals, FiniteSets

CONSTANTS Principals,   \* senders bound to a principal, each in its scope
          Sources,      \* protected Resources
          Route,        \* how a Tool reads a source: "plain", "conditional", "native"
          Gates,        \* sources that only gate a search surface
          Beginnings,   \* the grants provisioned before the first message and,
                        \* bounds, what management may change, how often, the
                        \* Runs there are, who may send each message, and its reads
          Agent,        \* the agent's own Resource
          SourceRuns,   \* Runs 1..n, accepted in order
          RoomOf,       \* the conversation of each
          MaxApprovals

Nobody == 0
Approvals == 1..MaxApprovals
GrantKeys == Principals \X ((Sources \X {"read", "send"}) \cup ({Agent} \X {"create", "control"}))
GrantRow == [who: Principals, on: Sources \cup {Agent},
             act: {"read", "send", "create", "control"}, effect: {"allow", "approval"}, gen: Nat]

ASSUME SourceAssumption ==
  /\ Route \in [Sources -> {"plain", "conditional", "native"}]
  /\ Gates \subseteq Sources /\ Agent \notin Sources
  /\ Beginnings \subseteq [grants: SUBSET GrantRow, open: SUBSET (GrantKeys \cup Sources),
                     changes: Nat, runs: Nat, reads: [SourceRuns -> Nat],
                     senders: [SourceRuns -> SUBSET Principals]]
  /\ Beginnings # {}
  /\ SourceRuns \subseteq Nat \ {0} /\ DOMAIN RoomOf = SourceRuns
  /\ MaxApprovals \in Nat

VARIABLES
  grants,     \* rows of the table grants
  withdrawn,  \* those with revoked_at
  approval,   \* rows of the table approvals
  policyOn,   \* the group policy admits the category of the source
  phase,      \* where the execution of a Run is
  who, internal,  \* its principal; TRUE for an internal Run of the Task
  feeds,      \* the Step Run whose result an internal Run is given
  reading,    \* the sources of the protected read in progress
  text,       \* its answer: "none", a fixed line, or the model's own
  used,       \* grants its ALLOW decisions rest on
  marked,     \* sources of its ALLOW decisions with a delivery_source
  sending,    \* its delivery
  excluded,   \* Runs with a context.excluded event
  origin,     \* the Run that created the Task, Nobody before
  limits, reads,   \* what is left of the bounds of a beginning
  holds, planned   \* ghosts: the sources of what a Run, and the Task, really contain

policyVars == <<grants, withdrawn, approval, policyOn, limits>>
runFacts   == <<who, internal, feeds>>
sourceVars == <<policyVars, runFacts, phase, reading, text, used, marked, sending, excluded,
                origin, reads, holds, planned>>

SourceAuthorityInit ==
  /\ \E b \in Beginnings :
       /\ grants = b.grants
       /\ limits = [open |-> b.open, changes |-> b.changes,
                    senders |-> b.senders, runs |-> b.runs]
       /\ reads = b.reads
  /\ withdrawn = {}
  /\ approval = [a \in Approvals |-> {}]
  /\ policyOn = [x \in Sources |-> TRUE]
  /\ phase = [r \in SourceRuns |-> "none"]
  /\ who = [r \in SourceRuns |-> CHOOSE p \in Principals : TRUE]
  /\ internal = [r \in SourceRuns |-> FALSE]
  /\ feeds = [r \in SourceRuns |-> Nobody]
  /\ reading = [r \in SourceRuns |-> {}]
  /\ text = [r \in SourceRuns |-> "none"]
  /\ used = [r \in SourceRuns |-> {}]
  /\ marked = [r \in SourceRuns |-> {}]
  /\ sending = [r \in SourceRuns |-> "none"]
  /\ excluded = {}
  /\ origin = Nobody /\ planned = {}
  /\ holds = [r \in SourceRuns |-> {}]

-----------------------------------------------------------------------------
(* evaluate: current grants and the current policy, never a past decision.  *)

Granted(p, on, act, effect) ==
  {g \in grants \ withdrawn : g.who = p /\ g.on = on /\ g.act = act /\ g.effect = effect}
Allowed(p, on, act) == Granted(p, on, act, "allow") # {}

(* policyConditionAllows: the category must be on as well. *)
MayRead(p, x) == Allowed(p, x, "read") /\ policyOn[x]
MaySend(p, x) == x \in Gates \/ Allowed(p, x, "send")
ReadGrants(p, S) == UNION {Granted(p, x, "read", "allow") : x \in S}
SendGrants(p, S) == UNION {Granted(p, x, "send", "allow") : x \in S \ Gates}
Controls(p) == Allowed(p, Agent, "control")
ControlGrants(p) == Granted(p, Agent, "control", "allow")

(* What run:create rests on: a grant or, for the Run an approval was linked *)
(* to at admission and no other, that approval while its own grant stands.   *)
CreateGrants(p, r) ==
  IF Allowed(p, Agent, "create") THEN Granted(p, Agent, "create", "allow")
  ELSE {v.grant : v \in {v \in UNION {approval[a] : a \in Approvals} :
                            v.by = r /\ ~v.expired /\ v.grant \in Granted(p, Agent, "create", "approval")}}
MayRun(p, r) == CreateGrants(p, r) # {}

-----------------------------------------------------------------------------
(* Management: every change of policy is one transaction.                   *)

PolicyChange == limits.changes > 0 /\ limits' = [limits EXCEPT !.changes = @ - 1]
PolicyOnly == UNCHANGED <<runFacts, phase, reading, text, used, marked, sending, excluded,
                          origin, reads, holds, planned>>

KeyOf(g) == <<g.who, <<g.on, g.act>>>>
EverWritten(k) == {g \in grants : g.who = k[1] /\ g.on = k[2][1] /\ g.act = k[2][2]}
NewRow(k, effect) ==
  [who |-> k[1], on |-> k[2][1], act |-> k[2][2], effect |-> effect, gen |-> Cardinality(EverWritten(k))]

(* grant: an explicit grant may restore what was withdrawn. *)
Grant(k, effect) ==
  /\ Granted(k[1], k[2][1], k[2][2], effect) = {}
  /\ grants' = grants \cup {NewRow(k, effect)}
  /\ UNCHANGED <<withdrawn, approval, policyOn>> /\ PolicyOnly

(* grantInitial and provisionResources: any earlier row stays authoritative. *)
GrantInitial(k) ==
  /\ EverWritten(k) = {}
  /\ grants' = grants \cup {NewRow(k, "allow")}
  /\ UNCHANGED <<withdrawn, approval, policyOn>> /\ PolicyOnly

(* backfillDeliveryForReaders: delivery:send for whoever may read the       *)
(* source, where it was never configured.                                    *)
BackfillDelivery(x) ==
  LET missing == {p \in Principals : Allowed(p, x, "read") /\ EverWritten(<<p, <<x, "send">>>>) = {}}
  IN /\ missing # {} /\ {<<p, <<x, "send">>>> : p \in missing} \subseteq limits.open
     /\ grants' = grants \cup {NewRow(<<p, <<x, "send">>>>, "allow") : p \in missing}
     /\ UNCHANGED <<withdrawn, approval, policyOn>> /\ PolicyOnly

(* revoke, revokeScope, revokeScopeAction, revokeSenderScopes,              *)
(* revokeResource and revokeLocationScopes: the rows each of them selects.   *)
Revocable ==
  LET live == {g \in grants \ withdrawn : KeyOf(g) \in limits.open}
  IN {{g} : g \in live}
     \cup {{g \in live : g.who = h.who /\ g.on = h.on} : h \in live}
     \cup {{g \in live : g.who = h.who /\ g.on = h.on /\ g.act = h.act} : h \in live}
     \cup {{g \in live : g.who = h.who} : h \in live}
     \cup {{g \in live : g.on = h.on} : h \in live}
     \cup {live}
Revoke(G) ==
  /\ G # {}
  /\ withdrawn' = withdrawn \cup G
  /\ UNCHANGED <<grants, approval, policyOn>> /\ PolicyOnly

(* The owner turns a category of the group policy on or off. *)
SetPolicy(x) ==
  /\ x \in limits.open /\ Route[x] = "conditional"
  /\ policyOn' = [policyOn EXCEPT ![x] = ~@]
  /\ UNCHANGED <<grants, withdrawn, approval>> /\ PolicyOnly

Approve(a, g) ==
  /\ KeyOf(g) \in limits.open
  /\ approval[a] = {} /\ g.effect = "approval" /\ g.act = "create"
  /\ approval' = [approval EXCEPT ![a] = {[grant |-> g, by |-> Nobody, expired |-> FALSE]}]
  /\ UNCHANGED <<grants, withdrawn, policyOn, limits>> /\ PolicyOnly

Expire(a) ==
  /\ \E v \in approval[a] : ~v.expired
  /\ approval' = [approval EXCEPT ![a] = {[v EXCEPT !.expired = TRUE] : v \in @}]
  /\ UNCHANGED <<grants, withdrawn, policyOn, limits>> /\ PolicyOnly

Management ==
  \/ /\ PolicyChange
     /\ \/ \E k \in limits.open \cap GrantKeys :
            \/ GrantInitial(k)
            \/ \E e \in {"allow", "approval"} : (e = "approval" => k[2][2] = "create") /\ Grant(k, e)
        \/ \E x \in Sources : BackfillDelivery(x) \/ SetPolicy(x)
        \/ \E G \in Revocable : Revoke(G)
  \/ \E a \in Approvals : Expire(a) \/ \E g \in grants \ withdrawn : Approve(a, g)

-----------------------------------------------------------------------------
(* Admission and claim.                                                     *)

Terminal == {"succeeded", "failed"}
Occupied(r) == phase[r] \notin {"none", "queued"} \cup Terminal
NextRun(r) ==
  r <= limits.runs /\ phase[r] = "none" /\ \A q \in SourceRuns : q < r => phase[q] # "none"
To(r, there) == phase' = [phase EXCEPT ![r] = there]
Uses(r, G) == used' = [used EXCEPT ![r] = @ \cup G]
Marks(r, S) == marked' = [marked EXCEPT ![r] = @ \cup S]
Gains(r, S) == holds' = [holds EXCEPT ![r] = @ \cup S]
SamePolicy == UNCHANGED policyVars
SameTask == UNCHANGED <<origin, planned>>
SameDelivery == UNCHANGED <<sending, excluded>>

Admits(r, p, G) ==
  /\ NextRun(r) /\ To(r, "queued")
  /\ who' = [who EXCEPT ![r] = p]
  /\ Uses(r, G)
  /\ UNCHANGED <<reading, text, marked, reads, holds>> /\ SameTask /\ SameDelivery

(* acceptIncoming. The decision that admitted the message is linked to it. *)
AcceptMessage(r, p) ==
  /\ p \in limits.senders[r] /\ Allowed(p, Agent, "create")
  /\ Admits(r, p, Granted(p, Agent, "create", "allow"))
  /\ UNCHANGED <<internal, feeds>> /\ SamePolicy

(* With an approvalId: the approval is consumed, once. *)
Unused(v, p) == v.by = Nobody /\ ~v.expired /\ v.grant \in Granted(p, Agent, "create", "approval")
AcceptApproved(r, p, a) ==
  /\ p \in limits.senders[r] /\ ~Allowed(p, Agent, "create")
  /\ \E v \in approval[a] :
       /\ Unused(v, p)
       /\ approval' = [approval EXCEPT ![a] = {[v EXCEPT !.by = r]}]
       /\ Admits(r, p, {v.grant})
  /\ UNCHANGED <<internal, feeds, grants, withdrawn, policyOn, limits>>

(* createInternalStepRun: the principal of the Task, in its conversation,   *)
(* under a standing grant; its Step may depend on one that succeeded.        *)
AcceptStepRun(r, q) ==
  /\ origin # Nobody /\ RoomOf[r] = RoomOf[origin]
  /\ Allowed(who[origin], Agent, "create") /\ Controls(who[origin])
  /\ q \in {Nobody} \cup {s \in SourceRuns : internal[s] /\ phase[s] = "succeeded"}
  /\ Admits(r, who[origin], {})
  /\ internal' = [internal EXCEPT ![r] = TRUE]
  /\ feeds' = [feeds EXCEPT ![r] = q]
  /\ SamePolicy

(* claimQueuedRun: one Run of a conversation executes at a time. *)
ClaimQueued(r) ==
  /\ phase[r] = "queued" /\ MayRun(who[r], r) /\ Controls(who[r])
  /\ \A q \in SourceRuns : RoomOf[q] = RoomOf[r] => ~Occupied(q)
  /\ To(r, "claimed")
  /\ Uses(r, CreateGrants(who[r], r) \cup ControlGrants(who[r]))
  /\ UNCHANGED <<runFacts, reading, text, marked, reads, holds>>
  /\ SamePolicy /\ SameTask /\ SameDelivery

-----------------------------------------------------------------------------
(* loadRunInput.                                                            *)

(* Earlier exchanges that ended with a text: a failed one must have been    *)
(* sent, and none may have been excluded.                                    *)
Earlier(r) ==
  {q \in SourceRuns :
     /\ q < r /\ RoomOf[q] = RoomOf[r] /\ ~internal[q]
     /\ phase[q] \in Terminal /\ text[q] # "none" /\ q \notin excluded
     /\ phase[q] = "failed" => sending[q] = "sent"}
(* Nothing its decisions rest on has been withdrawn. *)
Standing(q) == used[q] # {} /\ used[q] \cap withdrawn = {}
(* Somebody else's is given as it was sent, and only if it was. *)
Reusable(q, p) ==
  /\ Standing(q)
  /\ \A x \in marked[q] : MayRead(p, x)
  /\ sending[q] = "sent" \/ who[q] = p

History(r) == {q \in Earlier(r) : Reusable(q, who[r])}
(* Sources of an exchange that was dropped after some had been allowed. *)
Tried(r) ==
  {x \in UNION {marked[q] : q \in {q \in Earlier(r) \ History(r) : Standing(q)}} : MayRead(who[r], x)}
Body(q) == IF text[q] = "model" THEN holds[q] ELSE {}
HistorySourcesOfOthers(r) == UNION {marked[q] : q \in {q \in History(r) : who[q] # who[r]}}
HistorySources(r) == UNION {marked[q] : q \in History(r)}

LoadHistory(r) ==
  /\ phase[r] = "claimed" /\ ~internal[r]
  /\ Controls(who[r]) /\ MayRun(who[r], r)
  /\ \E tried \in SUBSET Tried(r) :
       Uses(r, ReadGrants(who[r], HistorySources(r) \cup tried))
  /\ Marks(r, HistorySources(r))
  /\ Gains(r, UNION {Body(q) : q \in History(r)})
  /\ To(r, "loaded")
  /\ UNCHANGED <<runFacts, reading, text, reads>> /\ SamePolicy /\ SameTask /\ SameDelivery

(* A Step Run is given the plan and the result it depends on, if every      *)
(* source of the Task's Run and of that result is readable now.              *)
StepSources(r) == marked[origin] \cup (IF feeds[r] = Nobody THEN {} ELSE marked[feeds[r]])
StepBody(r) == planned \cup (IF feeds[r] = Nobody THEN {} ELSE Body(feeds[r]))
StepIsFed(r) ==
  /\ \A x \in StepSources(r) : MayRead(who[r], x)
  /\ feeds[r] # Nobody => text[feeds[r]] # "none"
LoadStep(r) ==
  /\ phase[r] = "claimed" /\ internal[r]
  /\ Controls(who[r]) /\ MayRun(who[r], r) /\ StepIsFed(r)
  /\ Uses(r, ReadGrants(who[r], StepSources(r)))
  /\ Marks(r, StepSources(r))
  /\ Gains(r, StepBody(r))
  /\ To(r, "loaded")
  /\ UNCHANGED <<runFacts, reading, text, reads>> /\ SamePolicy /\ SameTask /\ SameDelivery

(* Refused before anything is loaded: failed, with nothing to say. *)
RefuseInput(r) ==
  /\ phase[r] = "claimed"
  /\ ~(Controls(who[r]) /\ MayRun(who[r], r) /\ (internal[r] => StepIsFed(r)))
  /\ To(r, "stopped")
  /\ UNCHANGED <<runFacts, reading, text, used, marked, reads, holds>>
  /\ SamePolicy /\ SameTask /\ SameDelivery

-----------------------------------------------------------------------------
(* The agent loop.                                                          *)

(* authorizeContext: every recorded source of the Run, read again. *)
ContextAllowed(r) == \A x \in marked[r] : MayRead(who[r], x)

(* Before every provider request, and again on its final payload. *)
CallProvider(r) ==
  /\ phase[r] \in {"loaded", "called"} /\ ContextAllowed(r)
  /\ To(r, "thinking")
  /\ Uses(r, ReadGrants(who[r], marked[r]))
  /\ UNCHANGED <<runFacts, reading, text, marked, reads, holds>>
  /\ SamePolicy /\ SameTask /\ SameDelivery

(* refusedContext: a fixed line, whatever the provider had said. *)
StopContext(r) ==
  /\ phase[r] \in {"loaded", "called", "thinking"} /\ ~ContextAllowed(r)
  /\ To(r, "stopped")
  /\ text' = [text EXCEPT ![r] = "fixed"]
  /\ UNCHANGED <<runFacts, reading, used, marked, reads, holds>>
  /\ SamePolicy /\ SameTask /\ SameDelivery

(* The last check, then the model's text as a success or as a failure. *)
Answer(r, end) ==
  /\ phase[r] = "thinking" /\ ContextAllowed(r)
  /\ To(r, end)
  /\ text' = [text EXCEPT ![r] = "model"]
  /\ Uses(r, ReadGrants(who[r], marked[r]))
  /\ UNCHANGED <<runFacts, reading, marked, reads, holds>>
  /\ SamePolicy /\ SameTask /\ SameDelivery

Uncalled(r) ==
  phase[r] = "thinking" /\ ~internal[r] /\ reads[r] > 0 /\ reads' = [reads EXCEPT ![r] = @ - 1]

(* createProtectedTool, up to the execution of the Tool. *)
CheckRead(r, x) ==
  /\ Uncalled(r) /\ Route[x] # "native" /\ MayRead(who[r], x)
  /\ Uses(r, ReadGrants(who[r], {x}))
  /\ reading' = [reading EXCEPT ![r] = {x}]
  /\ To(r, "reading")
  /\ UNCHANGED <<runFacts, text, marked, holds>> /\ SamePolicy /\ SameTask /\ SameDelivery

(* A native Tool streams: its source is recorded before it executes. *)
CheckNative(r, x) ==
  /\ Uncalled(r) /\ Route[x] = "native" /\ MayRead(who[r], x)
  /\ Uses(r, ReadGrants(who[r], {x}))
  /\ Marks(r, {x})
  /\ reading' = [reading EXCEPT ![r] = {x}]
  /\ To(r, "native")
  /\ UNCHANGED <<runFacts, text, holds>> /\ SamePolicy /\ SameTask /\ SameDelivery

Returns(r) ==
  /\ To(r, "called")
  /\ reading' = [reading EXCEPT ![r] = {}]
  /\ UNCHANGED <<runFacts, text, reads>> /\ SamePolicy /\ SameTask /\ SameDelivery

(* The result is released with its source recorded; one that depends on the *)
(* group policy is authorized once more first.                              *)
ReleaseRead(r) ==
  /\ phase[r] = "reading"
  /\ \A x \in reading[r] : Route[x] = "conditional" => MayRead(who[r], x)
  /\ Uses(r, ReadGrants(who[r], {x \in reading[r] : Route[x] = "conditional"}))
  /\ Marks(r, reading[r])
  /\ Gains(r, reading[r])
  /\ Returns(r)

(* A Tool that throws, or whose source was withdrawn meanwhile. *)
FailRead(r) ==
  /\ phase[r] \in {"reading", "planread"}
  /\ UNCHANGED <<used, marked, holds>>
  /\ Returns(r)

(* Whole, or partial with an error: native content is out either way. *)
ReleaseNative(r) ==
  /\ phase[r] = "native"
  /\ \E S \in {{}, reading[r]} : Gains(r, S)
  /\ UNCHANGED <<used, marked>>
  /\ Returns(r)

-----------------------------------------------------------------------------
(* The Task a Run may create, and what reading it means for others.         *)

(* task_create, and task_plan by the same Run: nobody else's Run may plan. *)
PlanFromRun(r) ==
  /\ phase[r] = "thinking" /\ ~internal[r] /\ origin \in {Nobody, r}
  /\ origin' = r /\ planned' = planned \cup holds[r]
  /\ To(r, "called")
  /\ UNCHANGED <<runFacts, reading, text, used, marked, reads, holds>> /\ SamePolicy /\ SameDelivery

(* get, steps, taskEvents: the sources of the Task's Run are authorized and *)
(* recorded before the Task is read, and authorized again after.             *)
CheckTask(r) ==
  /\ Uncalled(r) /\ origin # Nobody
  /\ \A x \in marked[origin] : MayRead(who[r], x)
  /\ Uses(r, ReadGrants(who[r], marked[origin]))
  /\ Marks(r, marked[origin])
  /\ reading' = [reading EXCEPT ![r] = marked[origin]]
  /\ To(r, "planread")
  /\ UNCHANGED <<runFacts, text, holds>> /\ SamePolicy /\ SameTask /\ SameDelivery

(* One of them is denied: those allowed before it stay recorded. *)
RefuseTask(r) ==
  /\ Uncalled(r) /\ origin # Nobody
  /\ \E x \in marked[origin] : ~MayRead(who[r], x)
  /\ \E S \in SUBSET {x \in marked[origin] : MayRead(who[r], x)} :
       Marks(r, S) /\ Uses(r, ReadGrants(who[r], S))
  /\ To(r, "called")
  /\ UNCHANGED <<runFacts, reading, text, holds>> /\ SamePolicy /\ SameTask /\ SameDelivery

ReleaseTask(r) ==
  /\ phase[r] = "planread"
  /\ \A x \in reading[r] : MayRead(who[r], x)
  /\ Uses(r, ReadGrants(who[r], reading[r]))
  /\ Gains(r, planned)
  /\ UNCHANGED marked
  /\ Returns(r)

-----------------------------------------------------------------------------
(* The end of a Run, and its delivery.                                      *)

MayPublish(r) == phase[r] \in Terminal /\ ~internal[r] /\ Controls(who[r])
SourcesReadable(r) == \A x \in marked[r] : MayRead(who[r], x)
SourcesAllow(r) == \A x \in marked[r] : MayRead(who[r], x) /\ MaySend(who[r], x)
DeliveryGrants(r) ==
  ControlGrants(who[r]) \cup ReadGrants(who[r], marked[r]) \cup SendGrants(who[r], marked[r])
Sending(r, there) == sending' = [sending EXCEPT ![r] = there]
OnlyDelivery == UNCHANGED <<runFacts, phase, reading, text, marked, reads, holds>> /\ SamePolicy /\ SameTask

(* settle: without the authority to run, the text is withheld and nothing   *)
(* is published.                                                             *)
SettleSourced(r) ==
  /\ phase[r] \in {"answered", "stopped"}
  /\ To(r, IF phase[r] = "answered" THEN "succeeded" ELSE "failed")
  /\ Uses(r, CreateGrants(who[r], r) \cup ControlGrants(who[r]))
  /\ IF MayRun(who[r], r) /\ Controls(who[r])
     THEN UNCHANGED <<text, sending>>
     ELSE text' = [text EXCEPT ![r] = "none"] /\ Sending(r, "withheld")
  /\ UNCHANGED <<runFacts, reading, marked, reads, holds, excluded>> /\ SamePolicy /\ SameTask

(* createDelivery, under authorizeDeliverySources. *)
CreateSourced(r) ==
  /\ MayPublish(r) /\ sending[r] = "none" /\ SourcesAllow(r)
  /\ Sending(r, "pending") /\ Uses(r, DeliveryGrants(r))
  /\ UNCHANGED excluded /\ OnlyDelivery

(* It was denied, or the text was found unfit: the exchange is excluded. *)
ExcludeRun(r) ==
  /\ MayPublish(r) /\ sending[r] = "none"
  /\ excluded' = excluded \cup {r}
  /\ UNCHANGED <<sending, used>> /\ OnlyDelivery

(* claimDelivery: the same check in the transaction that reserves the send. *)
ClaimSourced(r) ==
  /\ MayPublish(r) /\ sending[r] = "pending" /\ MayRun(who[r], r) /\ SourcesAllow(r)
  /\ Sending(r, "sending") /\ Uses(r, DeliveryGrants(r) \cup CreateGrants(who[r], r))
  /\ UNCHANGED excluded /\ OnlyDelivery

SendEnds(r) ==
  /\ sending[r] = "sending"
  /\ \E there \in {"sent", "failed", "unknown"} : Sending(r, there)
  /\ UNCHANGED <<excluded, used>> /\ OnlyDelivery

(* transitionDelivery: only a send known to have failed, checked again. *)
RetrySourced(r) ==
  /\ MayPublish(r) /\ sending[r] = "failed" /\ SourcesAllow(r)
  /\ Sending(r, "pending") /\ Uses(r, DeliveryGrants(r))
  /\ UNCHANGED excluded /\ OnlyDelivery

-----------------------------------------------------------------------------
RunStep(r) ==
  \/ \E p \in Principals : AcceptMessage(r, p) \/ \E a \in Approvals : AcceptApproved(r, p, a)
  \/ \E q \in SourceRuns \cup {Nobody} : AcceptStepRun(r, q)
  \/ ClaimQueued(r) \/ LoadHistory(r) \/ LoadStep(r) \/ RefuseInput(r)
  \/ CallProvider(r) \/ StopContext(r) \/ \E end \in {"answered", "stopped"} : Answer(r, end)
  \/ \E x \in Sources : CheckRead(r, x) \/ CheckNative(r, x)
  \/ ReleaseRead(r) \/ FailRead(r) \/ ReleaseNative(r)
  \/ PlanFromRun(r) \/ CheckTask(r) \/ RefuseTask(r) \/ ReleaseTask(r)
  \/ SettleSourced(r) \/ CreateSourced(r) \/ ExcludeRun(r) \/ ClaimSourced(r) \/ SendEnds(r) \/ RetrySourced(r)

SourceAuthorityNext == Management \/ \E r \in SourceRuns : RunStep(r)
SourceAuthoritySpec == SourceAuthorityInit /\ [][SourceAuthorityNext]_sourceVars

-----------------------------------------------------------------------------
(* Whatever protected content reached a Run, by a Tool, the history of its  *)
(* conversation, a Task or another Step's result, the ledger names its       *)
(* source: what is not recorded is never checked again.                      *)
LedgerCoversContent == \A r \in SourceRuns : holds[r] \subseteq marked[r]

(* No model is shown, and nobody is sent, content whose sources its Run's   *)
(* principal may not read, or send, at that moment, wherever it came from    *)
(* and whatever allowed it then.                                             *)
Exposes(r) ==
  phase'[r] = "thinking" /\ phase[r] # "thinking" => \A x \in holds'[r] : MayRead(who[r], x)
Transmits(r) ==
  sending'[r] = "sending" /\ sending[r] # "sending" /\ text[r] = "model" =>
    \A x \in holds[r] : MayRead(who[r], x) /\ MaySend(who[r], x)
NothingLeavesUnauthorized ==
  [][\A r \in SourceRuns : Exposes(r) /\ Transmits(r)]_sourceVars
=============================================================================
