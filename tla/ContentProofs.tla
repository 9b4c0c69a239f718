---------------------------- MODULE ContentProofs ----------------------------
(***************************************************************************)
(* Protected content: what an answer was made from and where it may go.    *)
(*                                                                         *)
(* The authorization ledger is complete, and what it names is all that is  *)
(* checked before content leaves: for every set of principals, sources,    *)
(* grants and Runs, and every order of policy changes.  And the memories   *)
(* with their suggestions, for any number of them, any statements and      *)
(* sources, and any clock.                                                 *)
(***************************************************************************)
EXTENDS SourceAuthority, MemoryStore, TLAPS

(***************************************************************************)
(* The ledger (SourceAuthority).                                           *)
(***************************************************************************)
Phases == {"none", "queued", "claimed", "loaded", "thinking", "called", "reading", "native",
           "planread", "answered", "stopped", "succeeded", "failed"}

LedgerTypeOK ==
  /\ phase \in [SourceRuns -> Phases]
  /\ reading \in [SourceRuns -> SUBSET Sources]
  /\ marked \in [SourceRuns -> SUBSET Sources]
  /\ holds \in [SourceRuns -> SUBSET Sources]
  /\ internal \in [SourceRuns -> BOOLEAN]
  /\ feeds \in [SourceRuns -> SourceRuns \cup {Nobody}]
  /\ text \in [SourceRuns -> {"none", "fixed", "model"}]
  /\ sending \in [SourceRuns -> {"none", "withheld", "pending", "sending", "sent", "failed", "unknown"}]
  /\ origin \in SourceRuns \cup {Nobody}
  /\ planned \subseteq Sources
  /\ \A r \in SourceRuns : internal[r] => origin # Nobody

(***************************************************************************)
(* Type correctness.                                                       *)
(***************************************************************************)
LEMMA NobodyIsNoRun == Nobody \notin SourceRuns
  BY SourceAssumption DEF Nobody

LEMMA InitLedgerTypeOK == SourceAuthorityInit => LedgerTypeOK
  BY NobodyIsNoRun DEF SourceAuthorityInit, LedgerTypeOK, Phases

(* What every policy change leaves alone. *)
LEMMA ManagementIsApart ==
  Management => UNCHANGED <<runFacts, phase, reading, text, marked, sending, origin, holds, planned>>
<1> USE DEF PolicyOnly
<1>1. ASSUME NEW k, NEW e, Grant(k, e) \/ GrantInitial(k)
      PROVE  UNCHANGED <<runFacts, phase, reading, text, marked, sending, origin, holds, planned>>
  BY <1>1 DEF Grant, GrantInitial
<1>2. ASSUME NEW x, BackfillDelivery(x) \/ SetPolicy(x)
      PROVE  UNCHANGED <<runFacts, phase, reading, text, marked, sending, origin, holds, planned>>
  BY <1>2 DEF BackfillDelivery, SetPolicy
<1>3. ASSUME NEW G, Revoke(G)
      PROVE  UNCHANGED <<runFacts, phase, reading, text, marked, sending, origin, holds, planned>>
  BY <1>3 DEF Revoke
<1>4. ASSUME NEW a, NEW g, Expire(a) \/ Approve(a, g)
      PROVE  UNCHANGED <<runFacts, phase, reading, text, marked, sending, origin, holds, planned>>
  BY <1>4 DEF Expire, Approve
<1> HIDE DEF PolicyOnly
<1> QED
  BY <1>1, <1>2, <1>3, <1>4 DEF Management

LEMMA HistoryIsOfRuns ==
  ASSUME LedgerTypeOK, NEW r \in SourceRuns
  PROVE  /\ History(r) \subseteq SourceRuns
         /\ HistorySources(r) \subseteq Sources
         /\ UNION {Body(q) : q \in History(r)} \subseteq Sources
<1>1. History(r) \subseteq SourceRuns
  BY DEF History, Earlier
<1>2. \A q \in SourceRuns : marked[q] \subseteq Sources /\ Body(q) \subseteq holds[q] /\ holds[q] \subseteq Sources
  BY DEF LedgerTypeOK, Body
<1> QED
  BY <1>1, <1>2 DEF HistorySources

LEMMA StepIsOfSources ==
  ASSUME LedgerTypeOK, NEW r \in SourceRuns, internal[r]
  PROVE  StepSources(r) \subseteq Sources /\ StepBody(r) \subseteq Sources
<1>1. origin \in SourceRuns /\ feeds[r] \in SourceRuns \cup {Nobody}
  BY DEF LedgerTypeOK
<1>2. \A q \in SourceRuns : marked[q] \subseteq Sources /\ Body(q) \subseteq Sources
  BY DEF LedgerTypeOK, Body
<1>3. planned \subseteq Sources
  BY DEF LedgerTypeOK
<1> QED
  BY <1>1, <1>2, <1>3 DEF StepSources, StepBody

LEMMA AcceptLedgerTypeOK ==
  ASSUME LedgerTypeOK, NEW r \in SourceRuns,
         \/ \E p \in Principals : AcceptMessage(r, p) \/ \E a \in Approvals : AcceptApproved(r, p, a)
         \/ \E q \in SourceRuns \cup {Nobody} : AcceptStepRun(r, q)
  PROVE  LedgerTypeOK'
<1> USE DEF Admits, To, SameTask, SameDelivery
<1>1. ASSUME NEW p, NEW a,
             AcceptMessage(r, p) \/ AcceptApproved(r, p, a)
      PROVE  UNCHANGED <<internal, feeds, reading, text, marked, sending, origin, holds, planned>> /\ To(r, "queued")
  BY <1>1 DEF AcceptMessage, AcceptApproved
<1>2. ASSUME NEW q \in SourceRuns \cup {Nobody}, AcceptStepRun(r, q)
      PROVE  /\ UNCHANGED <<reading, text, marked, sending, origin, holds, planned>> /\ To(r, "queued")
             /\ internal' = [internal EXCEPT ![r] = TRUE] /\ feeds' = [feeds EXCEPT ![r] = q]
             /\ origin # Nobody
  BY <1>2 DEF AcceptStepRun
<1>3. ASSUME UNCHANGED <<internal, feeds, reading, text, marked, sending, origin, holds, planned>>, To(r, "queued")
      PROVE  LedgerTypeOK'
  BY <1>3 DEF LedgerTypeOK, Phases
<1>4. ASSUME NEW q \in SourceRuns \cup {Nobody}, AcceptStepRun(r, q)
      PROVE  LedgerTypeOK'
  BY <1>2, <1>4 DEF LedgerTypeOK, Phases
<1> HIDE DEF Admits, To, SameTask, SameDelivery
<1> QED
  BY <1>1, <1>3, <1>4

LEMMA RunLedgerTypeOK == ASSUME LedgerTypeOK, NEW r \in SourceRuns, RunStep(r) PROVE LedgerTypeOK'
<1> USE DEF LedgerTypeOK, To, Marks, Gains, SameTask, SameDelivery, runFacts, Phases
<1>1. CASE ClaimQueued(r)
  BY <1>1 DEF ClaimQueued
<1>2. CASE LoadHistory(r)
  BY <1>2, HistoryIsOfRuns DEF LoadHistory
<1>3. CASE LoadStep(r)
  BY <1>3, StepIsOfSources DEF LoadStep
<1>4. CASE RefuseInput(r)
  BY <1>4 DEF RefuseInput
<1>5. CASE CallProvider(r) \/ StopContext(r) \/ \E end \in {"answered", "stopped"} : Answer(r, end)
  BY <1>5 DEF CallProvider, StopContext, Answer
<1>6. ASSUME NEW x \in Sources, CheckRead(r, x) \/ CheckNative(r, x) PROVE LedgerTypeOK'
  BY <1>6 DEF CheckRead, CheckNative
<1>7. CASE ReleaseRead(r) \/ FailRead(r) \/ ReleaseNative(r)
  BY <1>7 DEF ReleaseRead, FailRead, ReleaseNative, Returns
<1>8. CASE PlanFromRun(r)
  BY <1>8, NobodyIsNoRun DEF PlanFromRun
<1>9. CASE CheckTask(r)
  BY <1>9 DEF CheckTask
<1>10. CASE RefuseTask(r)
  BY <1>10 DEF RefuseTask
<1>11. CASE ReleaseTask(r)
  BY <1>11 DEF ReleaseTask, Returns
<1>12. CASE SettleSourced(r)
  BY <1>12 DEF SettleSourced, Sending
<1>13. CASE CreateSourced(r) \/ ExcludeRun(r) \/ ClaimSourced(r) \/ SendEnds(r) \/ RetrySourced(r)
  BY <1>13 DEF CreateSourced, ExcludeRun, ClaimSourced, SendEnds, RetrySourced, Sending, OnlyDelivery
<1> HIDE DEF LedgerTypeOK, To, Marks, Gains, SameTask, SameDelivery, runFacts, Phases
<1> QED
  BY AcceptLedgerTypeOK, <1>1, <1>2, <1>3, <1>4, <1>5, <1>6, <1>7, <1>8, <1>9, <1>10, <1>11, <1>12,
     <1>13 DEF RunStep

(* Every Run, and the Task, is in a state of the ledger's types. *)
THEOREM LedgerIsTyped == SourceAuthoritySpec => []LedgerTypeOK
<1>1. LedgerTypeOK /\ [SourceAuthorityNext]_sourceVars => LedgerTypeOK'
  <2>1. LedgerTypeOK /\ Management => LedgerTypeOK'
    BY ManagementIsApart DEF LedgerTypeOK, runFacts
  <2>2. LedgerTypeOK /\ UNCHANGED sourceVars => LedgerTypeOK'
    BY DEF LedgerTypeOK, sourceVars, runFacts
  <2> QED
    BY <2>1, <2>2, RunLedgerTypeOK DEF SourceAuthorityNext
<1> QED
  BY <1>1, InitLedgerTypeOK, PTL DEF SourceAuthoritySpec

(***************************************************************************)
(* What a Run contains.  In any arrangement of conversations, content that *)
(* its ledger does not name can only be a source of the Task's plan.       *)
(***************************************************************************)
PlanSources == IF origin = Nobody THEN {} ELSE marked[origin]

OnlyPlansEscape ==
  /\ planned \subseteq PlanSources
  /\ \A r \in SourceRuns :
       /\ holds[r] \subseteq marked[r] \cup PlanSources
       /\ phase[r] = "native" => reading[r] \subseteq marked[r]

LEMMA InitOnlyPlansEscape == SourceAuthorityInit => OnlyPlansEscape
  BY DEF SourceAuthorityInit, OnlyPlansEscape, PlanSources

(* No step takes a source out of a ledger or the Task away from its Run. *)
LEMMA LedgersGrow ==
  ASSUME LedgerTypeOK, NEW r \in SourceRuns, RunStep(r)
  PROVE  /\ \A q \in SourceRuns : marked[q] \subseteq marked'[q]
         /\ origin # Nobody => origin' = origin
<1> USE DEF LedgerTypeOK, Marks, SameTask, SameDelivery
<1>1. CASE ClaimQueued(r) \/ RefuseInput(r)
  BY <1>1 DEF ClaimQueued, RefuseInput
<1>2. CASE LoadHistory(r) \/ LoadStep(r)
  BY <1>2 DEF LoadHistory, LoadStep
<1>3. ASSUME NEW p, NEW a, NEW q,
             AcceptMessage(r, p) \/ AcceptApproved(r, p, a) \/ AcceptStepRun(r, q)
      PROVE  UNCHANGED <<marked, origin>>
  BY <1>3 DEF AcceptMessage, AcceptApproved, AcceptStepRun, Admits
<1>4. CASE CallProvider(r) \/ StopContext(r) \/ \E end \in {"answered", "stopped"} : Answer(r, end)
  BY <1>4 DEF CallProvider, StopContext, Answer
<1>5. ASSUME NEW x \in Sources, CheckRead(r, x) \/ CheckNative(r, x)
      PROVE  /\ \A q \in SourceRuns : marked[q] \subseteq marked'[q]
             /\ origin' = origin
  BY <1>5 DEF CheckRead, CheckNative
<1>6. CASE ReleaseRead(r) \/ FailRead(r) \/ ReleaseNative(r) \/ ReleaseTask(r)
  BY <1>6 DEF ReleaseRead, FailRead, ReleaseNative, ReleaseTask, Returns
<1>7. CASE PlanFromRun(r) \/ CheckTask(r) \/ RefuseTask(r)
  BY <1>7 DEF PlanFromRun, CheckTask, RefuseTask
<1>8. CASE \/ SettleSourced(r) \/ CreateSourced(r) \/ ExcludeRun(r) \/ ClaimSourced(r) \/ SendEnds(r)
           \/ RetrySourced(r)
  BY <1>8 DEF SettleSourced, CreateSourced, ExcludeRun, ClaimSourced, SendEnds, RetrySourced, OnlyDelivery
<1> HIDE DEF LedgerTypeOK, Marks, SameTask, SameDelivery
<1> QED
  BY <1>1, <1>2, <1>3, <1>4, <1>5, <1>6, <1>7, <1>8 DEF RunStep

(* A step of a Run is about that Run; what it brings, comes by one of six   *)
(* actions.                                                                  *)
Untouched(q) ==
  /\ holds'[q] = holds[q] /\ marked'[q] = marked[q]
  /\ phase'[q] = phase[q] /\ reading'[q] = reading[q]

LEMMA WhatBrings ==
  ASSUME LedgerTypeOK, NEW r \in SourceRuns, RunStep(r)
  PROVE  /\ \A q \in SourceRuns \ {r} : Untouched(q)
         /\ \/ holds'[r] = holds[r] /\ planned' = planned
            \/ LoadHistory(r) \/ LoadStep(r) \/ ReleaseRead(r) \/ ReleaseNative(r) \/ ReleaseTask(r)
            \/ PlanFromRun(r)
         /\ phase'[r] = "native" => phase[r] = "native" \/ \E x \in Sources : CheckNative(r, x)
         /\ phase'[r] = "planread" => phase[r] = "planread" \/ CheckTask(r)
         /\ reading'[r] = reading[r] \/ phase'[r] # phase[r]
<1> USE DEF LedgerTypeOK, Marks, Gains, To, SameTask, SameDelivery, Untouched
<1>1. CASE ClaimQueued(r) \/ RefuseInput(r)
  BY <1>1 DEF ClaimQueued, RefuseInput
<1>2. CASE LoadHistory(r) \/ LoadStep(r)
  BY <1>2 DEF LoadHistory, LoadStep
<1>3. ASSUME NEW p, NEW a, NEW q,
             AcceptMessage(r, p) \/ AcceptApproved(r, p, a) \/ AcceptStepRun(r, q)
      PROVE  UNCHANGED <<holds, planned, reading, marked>> /\ To(r, "queued")
  BY <1>3 DEF AcceptMessage, AcceptApproved, AcceptStepRun, Admits
<1>4. CASE CallProvider(r) \/ StopContext(r) \/ \E end \in {"answered", "stopped"} : Answer(r, end)
  BY <1>4 DEF CallProvider, StopContext, Answer
<1>5. CASE \E x \in Sources : CheckRead(r, x) \/ CheckNative(r, x)
  BY <1>5 DEF CheckRead, CheckNative, Uncalled
<1>6. CASE ReleaseRead(r) \/ FailRead(r) \/ ReleaseNative(r) \/ ReleaseTask(r)
  BY <1>6 DEF ReleaseRead, FailRead, ReleaseNative, ReleaseTask, Returns
<1>7. CASE PlanFromRun(r) \/ CheckTask(r) \/ RefuseTask(r)
  BY <1>7 DEF PlanFromRun, CheckTask, RefuseTask, Uncalled
<1>8. CASE \/ SettleSourced(r) \/ CreateSourced(r) \/ ExcludeRun(r) \/ ClaimSourced(r) \/ SendEnds(r)
           \/ RetrySourced(r)
  BY <1>8 DEF SettleSourced, CreateSourced, ExcludeRun, ClaimSourced, SendEnds, RetrySourced, OnlyDelivery
<1> HIDE DEF LedgerTypeOK, Marks, Gains, SameTask, SameDelivery
<1>9. ASSUME UNCHANGED <<holds, planned, reading, marked>>, To(r, "queued")
      PROVE  /\ \A q \in SourceRuns \ {r} : Untouched(q)
             /\ phase'[r] = "queued"
  BY <1>9 DEF To, LedgerTypeOK
<1> HIDE DEF Untouched
<1> QED
  BY <1>1, <1>2, <1>3, <1>4, <1>5, <1>6, <1>7, <1>8, <1>9 DEF RunStep

LEMMA PlanSourcesGrow ==
  ASSUME LedgerTypeOK, NEW r \in SourceRuns, RunStep(r)
  PROVE  PlanSources \subseteq PlanSources'
  BY LedgersGrow DEF PlanSources, LedgerTypeOK

LEMMA OnlyPlansEscapeKept ==
  ASSUME LedgerTypeOK, OnlyPlansEscape, NEW r \in SourceRuns, RunStep(r)
  PROVE  OnlyPlansEscape'
<1> DEFINE Known(q) == marked[q] \cup PlanSources
<1>1. \A q \in SourceRuns : Known(q) \subseteq Known(q)'
  BY LedgersGrow, PlanSourcesGrow
<1>2. \A q \in SourceRuns \ {r} :
        /\ holds'[q] \subseteq Known(q)'
        /\ phase'[q] = "native" => reading'[q] \subseteq marked'[q]
  BY <1>1, WhatBrings DEF OnlyPlansEscape, Untouched
<1>3. phase'[r] = "native" => reading'[r] \subseteq marked'[r]
  <2>1. ASSUME NEW x \in Sources, CheckNative(r, x) PROVE reading'[r] \subseteq marked'[r]
    BY <2>1 DEF CheckNative, Marks, LedgerTypeOK
  <2>2. CASE phase[r] = "native" /\ reading'[r] = reading[r]
    BY <2>2, LedgersGrow DEF OnlyPlansEscape
  <2> QED
    BY <2>1, <2>2, WhatBrings
<1>4. holds'[r] \subseteq Known(r)' /\ planned' \subseteq PlanSources'
  <2>1. CASE holds'[r] = holds[r] /\ planned' = planned
    BY <1>1, <2>1, PlanSourcesGrow DEF OnlyPlansEscape
  <2>2. CASE LoadHistory(r)
    <3>1. \A q \in History(r) : Body(q) \subseteq marked[q] \cup PlanSources
      BY HistoryIsOfRuns DEF OnlyPlansEscape, Body
    <3>2. HistorySources(r) \subseteq marked'[r]
      BY <2>2 DEF LoadHistory, Marks, LedgerTypeOK
    <3>3. holds'[r] = holds[r] \cup UNION {Body(q) : q \in History(r)} /\ planned' = planned
      BY <2>2 DEF LoadHistory, Gains, LedgerTypeOK, SameTask
    <3> QED
      BY <1>1, <3>1, <3>2, <3>3, PlanSourcesGrow DEF OnlyPlansEscape, HistorySources
  <2>3. CASE LoadStep(r)
    <3>1. internal[r] /\ origin \in SourceRuns /\ feeds[r] \in SourceRuns \cup {Nobody}
      BY <2>3 DEF LoadStep, LedgerTypeOK
    <3>2. StepBody(r) \subseteq StepSources(r) \cup PlanSources
      BY <3>1 DEF StepBody, StepSources, OnlyPlansEscape, Body
    <3>3. StepSources(r) \subseteq marked'[r]
      BY <2>3 DEF LoadStep, Marks, LedgerTypeOK
    <3>4. holds'[r] = holds[r] \cup StepBody(r) /\ planned' = planned
      BY <2>3 DEF LoadStep, Gains, LedgerTypeOK, SameTask
    <3> QED
      BY <1>1, <3>2, <3>3, <3>4, PlanSourcesGrow DEF OnlyPlansEscape
  <2>4. CASE ReleaseRead(r) \/ ReleaseNative(r)
    <3>1. holds'[r] \subseteq holds[r] \cup reading[r] /\ reading[r] \subseteq marked'[r] /\ planned' = planned
      BY <2>4 DEF ReleaseRead, ReleaseNative, Marks, Gains, LedgerTypeOK, OnlyPlansEscape, Returns, SameTask
    <3> QED
      BY <1>1, <3>1, PlanSourcesGrow DEF OnlyPlansEscape
  <2>5. CASE ReleaseTask(r)
    <3>1. holds'[r] = holds[r] \cup planned /\ planned' = planned
      BY <2>5 DEF ReleaseTask, Gains, LedgerTypeOK, Returns, SameTask
    <3> QED
      BY <1>1, <3>1, PlanSourcesGrow DEF OnlyPlansEscape
  <2>6. CASE PlanFromRun(r)
    <3>1. holds'[r] = holds[r] /\ planned' = planned \cup holds[r] /\ origin' = r /\ r # Nobody
      BY <2>6, NobodyIsNoRun DEF PlanFromRun
    <3>2. PlanSources' = marked'[r]
      BY <3>1 DEF PlanSources
    <3> QED
      BY <1>1, <3>1, <3>2, PlanSourcesGrow DEF OnlyPlansEscape
  <2> QED
    BY <2>1, <2>2, <2>3, <2>4, <2>5, <2>6, WhatBrings
<1> QED
  BY <1>2, <1>3, <1>4 DEF OnlyPlansEscape

(* Content that a Run's ledger does not name is never anything but a source *)
(* of the Task's plan: a Tool, the history and another Step's result are    *)
(* recorded wherever the reader is.                                          *)
THEOREM OnlyPlansAreUnrecorded == SourceAuthoritySpec => []OnlyPlansEscape
<1>1. LedgerTypeOK /\ OnlyPlansEscape /\ [SourceAuthorityNext]_sourceVars => OnlyPlansEscape'
  <2>1. OnlyPlansEscape /\ Management => OnlyPlansEscape'
    BY ManagementIsApart DEF OnlyPlansEscape, PlanSources, runFacts
  <2>2. OnlyPlansEscape /\ UNCHANGED sourceVars => OnlyPlansEscape'
    BY DEF OnlyPlansEscape, PlanSources, sourceVars, runFacts
  <2> QED
    BY <2>1, <2>2, OnlyPlansEscapeKept DEF SourceAuthorityNext
<1> QED
  BY <1>1, InitOnlyPlansEscape, LedgerIsTyped, PTL DEF SourceAuthoritySpec

(***************************************************************************)
(* In one conversation one Run executes at a time, so the Task's Run       *)
(* cannot plan between the two checks of somebody who reads the Task: then *)
(* plans are recorded as well, and the ledger names everything.            *)
(***************************************************************************)
OneConversation == \A q, r \in SourceRuns : RoomOf[q] = RoomOf[r]

OneExecutes == \A q, r \in SourceRuns : RoomOf[q] = RoomOf[r] /\ Occupied(q) /\ Occupied(r) => q = r

LEMMA OneExecutesKept ==
  ASSUME LedgerTypeOK, OneExecutes, NEW r \in SourceRuns, RunStep(r)
  PROVE  OneExecutes'
<1>1. \A q \in SourceRuns \ {r} : phase'[q] = phase[q]
  BY WhatBrings DEF Untouched
<1>2. Occupied(r)' => Occupied(r) \/ ClaimQueued(r)
  <2> USE DEF Occupied, Terminal, To, LedgerTypeOK
  <2>1. ASSUME NEW p, NEW a, NEW q,
               AcceptMessage(r, p) \/ AcceptApproved(r, p, a) \/ AcceptStepRun(r, q)
        PROVE  ~Occupied(r)'
    BY <2>1 DEF AcceptMessage, AcceptApproved, AcceptStepRun, Admits
  <2>2. CASE LoadHistory(r) \/ LoadStep(r) \/ RefuseInput(r)
    BY <2>2 DEF LoadHistory, LoadStep, RefuseInput
  <2>3. CASE CallProvider(r) \/ StopContext(r) \/ \E end \in {"answered", "stopped"} : Answer(r, end)
    BY <2>3 DEF CallProvider, StopContext, Answer
  <2>4. CASE \E x \in Sources : CheckRead(r, x) \/ CheckNative(r, x)
    BY <2>4 DEF CheckRead, CheckNative, Uncalled
  <2>5. CASE ReleaseRead(r) \/ FailRead(r) \/ ReleaseNative(r) \/ ReleaseTask(r)
    BY <2>5 DEF ReleaseRead, FailRead, ReleaseNative, ReleaseTask, Returns
  <2>6. CASE PlanFromRun(r) \/ CheckTask(r) \/ RefuseTask(r)
    BY <2>6 DEF PlanFromRun, CheckTask, RefuseTask, Uncalled
  <2>7. CASE \/ SettleSourced(r) \/ CreateSourced(r) \/ ExcludeRun(r) \/ ClaimSourced(r) \/ SendEnds(r)
             \/ RetrySourced(r)
    BY <2>7 DEF SettleSourced, CreateSourced, ExcludeRun, ClaimSourced, SendEnds, RetrySourced, OnlyDelivery
  <2> HIDE DEF Occupied, Terminal, To, LedgerTypeOK
  <2> QED
    BY <2>1, <2>2, <2>3, <2>4, <2>5, <2>6, <2>7 DEF RunStep
<1>3. ClaimQueued(r) => \A q \in SourceRuns : RoomOf[q] = RoomOf[r] => ~Occupied(q)
  BY DEF ClaimQueued
<1> QED
  BY <1>1, <1>2, <1>3 DEF OneExecutes, Occupied

Recorded ==
  /\ planned \subseteq PlanSources
  /\ LedgerCoversContent
  /\ \A r \in SourceRuns :
       /\ phase[r] = "native" => reading[r] \subseteq marked[r]
       /\ phase[r] = "planread" => planned \subseteq reading[r] /\ reading[r] \subseteq marked[r]

LEMMA RecordedKept ==
  ASSUME OneConversation, LedgerTypeOK, OneExecutes, Recorded, NEW r \in SourceRuns, RunStep(r)
  PROVE  Recorded'
<1>1. planned' = planned \/ PlanFromRun(r)
  BY WhatBrings DEF LoadHistory, LoadStep, ReleaseRead, ReleaseNative, ReleaseTask, Returns, SameTask
<1>2. \A q \in SourceRuns \ {r} :
        /\ holds'[q] \subseteq marked'[q]
        /\ phase'[q] = "native" => reading'[q] \subseteq marked'[q]
        /\ phase'[q] = "planread" => reading'[q] \subseteq marked'[q]
  BY WhatBrings DEF Recorded, LedgerCoversContent, Untouched
<1>3. \A q \in SourceRuns \ {r} : phase'[q] = "planread" => planned' \subseteq reading'[q]
  <2> SUFFICES ASSUME NEW q \in SourceRuns \ {r}, phase'[q] = "planread" PROVE planned' \subseteq reading'[q]
    OBVIOUS
  <2>1. phase[q] = "planread" /\ reading'[q] = reading[q]
    BY WhatBrings DEF Untouched
  <2>2. ~PlanFromRun(r)
    BY <2>1 DEF OneConversation, OneExecutes, PlanFromRun, Occupied, Terminal
  <2> QED
    BY <1>1, <2>1, <2>2 DEF Recorded
<1>4. /\ phase'[r] = "native" => reading'[r] \subseteq marked'[r]
      /\ phase'[r] = "planread" => planned' \subseteq reading'[r] /\ reading'[r] \subseteq marked'[r]
  <2>1. ASSUME NEW x \in Sources, CheckNative(r, x) PROVE reading'[r] \subseteq marked'[r]
    BY <2>1 DEF CheckNative, Marks, LedgerTypeOK
  <2>2. CASE CheckTask(r)
    BY <2>2 DEF CheckTask, Marks, LedgerTypeOK, Recorded, PlanSources, SameTask
  <2>3. CASE phase'[r] = phase[r] /\ reading'[r] = reading[r]
    <3>1. phase[r] = "planread" => ~PlanFromRun(r)
      BY DEF PlanFromRun
    <3> QED
      BY <1>1, <2>3, <3>1, LedgersGrow DEF Recorded
  <2> QED
    BY <2>1, <2>2, <2>3, WhatBrings DEF CheckNative, To, LedgerTypeOK
<1>5. holds'[r] \subseteq marked'[r] /\ planned' \subseteq PlanSources'
  <2>1. CASE holds'[r] = holds[r] /\ planned' = planned
    BY <2>1, PlanSourcesGrow, LedgersGrow DEF Recorded, LedgerCoversContent
  <2>2. CASE LoadHistory(r)
    <3>1. \A q \in History(r) : Body(q) \subseteq marked[q]
      BY HistoryIsOfRuns DEF Recorded, LedgerCoversContent, Body
    <3>2. HistorySources(r) \subseteq marked'[r]
      BY <2>2 DEF LoadHistory, Marks, LedgerTypeOK
    <3>3. holds'[r] = holds[r] \cup UNION {Body(q) : q \in History(r)} /\ planned' = planned
      BY <2>2 DEF LoadHistory, Gains, LedgerTypeOK, SameTask
    <3> QED
      BY <3>1, <3>2, <3>3, PlanSourcesGrow, LedgersGrow DEF Recorded, LedgerCoversContent, HistorySources
  <2>3. CASE LoadStep(r)
    <3>1. internal[r] /\ origin \in SourceRuns /\ origin # Nobody /\ feeds[r] \in SourceRuns \cup {Nobody}
      BY <2>3 DEF LoadStep, LedgerTypeOK
    <3>2. StepBody(r) \subseteq StepSources(r)
      BY <3>1 DEF StepBody, StepSources, Recorded, LedgerCoversContent, Body, PlanSources
    <3>3. StepSources(r) \subseteq marked'[r]
      BY <2>3 DEF LoadStep, Marks, LedgerTypeOK
    <3>4. holds'[r] = holds[r] \cup StepBody(r) /\ planned' = planned
      BY <2>3 DEF LoadStep, Gains, LedgerTypeOK, SameTask
    <3> QED
      BY <3>2, <3>3, <3>4, PlanSourcesGrow, LedgersGrow DEF Recorded, LedgerCoversContent
  <2>4. CASE ReleaseRead(r) \/ ReleaseNative(r)
    <3>1. holds'[r] \subseteq holds[r] \cup reading[r] /\ reading[r] \subseteq marked'[r] /\ planned' = planned
      BY <2>4 DEF ReleaseRead, ReleaseNative, Marks, Gains, LedgerTypeOK, Recorded, Returns, SameTask
    <3> QED
      BY <3>1, PlanSourcesGrow, LedgersGrow DEF Recorded, LedgerCoversContent
  <2>5. CASE ReleaseTask(r)
    <3>1. holds'[r] = holds[r] \cup planned /\ planned' = planned /\ phase[r] = "planread"
      BY <2>5 DEF ReleaseTask, Gains, LedgerTypeOK, Returns, SameTask
    <3> QED
      BY <3>1, PlanSourcesGrow, LedgersGrow DEF Recorded, LedgerCoversContent
  <2>6. CASE PlanFromRun(r)
    <3>1. holds'[r] = holds[r] /\ planned' = planned \cup holds[r] /\ origin' = r /\ r # Nobody
      BY <2>6, NobodyIsNoRun DEF PlanFromRun
    <3>2. PlanSources' = marked'[r]
      BY <3>1 DEF PlanSources
    <3> QED
      BY <3>1, <3>2, PlanSourcesGrow, LedgersGrow DEF Recorded, LedgerCoversContent
  <2> QED
    BY <2>1, <2>2, <2>3, <2>4, <2>5, <2>6, WhatBrings
<1> QED
  BY <1>2, <1>3, <1>4, <1>5 DEF Recorded, LedgerCoversContent

LedgerIInv == LedgerTypeOK /\ OneExecutes /\ Recorded

LEMMA LedgerIInvHolds == ASSUME OneConversation PROVE SourceAuthoritySpec => []LedgerIInv
<1>1. SourceAuthorityInit => OneExecutes /\ Recorded
  BY DEF SourceAuthorityInit, OneExecutes, Occupied, Recorded, PlanSources, LedgerCoversContent
<1>2. LedgerIInv /\ [SourceAuthorityNext]_sourceVars => LedgerIInv'
  <2>1. LedgerIInv /\ Management => LedgerIInv'
    BY ManagementIsApart
       DEF LedgerIInv, LedgerTypeOK, OneExecutes, Occupied, Recorded, PlanSources, LedgerCoversContent, runFacts
  <2>2. LedgerIInv /\ UNCHANGED sourceVars => LedgerIInv'
    BY DEF LedgerIInv, LedgerTypeOK, OneExecutes, Occupied, Recorded, PlanSources, LedgerCoversContent,
           sourceVars, runFacts
  <2> QED
    BY <2>1, <2>2, RunLedgerTypeOK, OneExecutesKept, RecordedKept DEF SourceAuthorityNext, LedgerIInv
<1>3. SourceAuthorityInit => LedgerIInv
  BY <1>1, InitLedgerTypeOK DEF LedgerIInv
<1> QED
  BY <1>2, <1>3, PTL DEF SourceAuthoritySpec

(* In one conversation, whatever protected content reached a Run, its       *)
(* ledger names the source.                                                  *)
THEOREM LedgerIsComplete ==
  ASSUME OneConversation PROVE SourceAuthoritySpec => []LedgerCoversContent
<1>1. LedgerIInv => LedgerCoversContent
  BY DEF LedgerIInv, Recorded
<1> QED
  BY <1>1, LedgerIInvHolds, PTL

(***************************************************************************)
(* What leaves.  Both checks read the ledger, so they cover the content.   *)
(***************************************************************************)
LEMMA OnlyOneWayOut ==
  ASSUME LedgerTypeOK, NEW r \in SourceRuns, RunStep(r), NEW q \in SourceRuns
  PROVE  /\ phase'[q] = "thinking" /\ phase[q] # "thinking" => q = r /\ CallProvider(r)
         /\ sending'[q] = "sending" /\ sending[q] # "sending" => q = r /\ ClaimSourced(r)
<1>1. phase'[q] # phase[q] => q = r
  BY WhatBrings DEF Untouched
<1> USE DEF LedgerTypeOK, To, SameDelivery
<1>2. ASSUME NEW p, NEW a, NEW t,
             AcceptMessage(r, p) \/ AcceptApproved(r, p, a) \/ AcceptStepRun(r, t)
      PROVE  phase'[r] # "thinking" /\ UNCHANGED sending
  BY <1>2 DEF AcceptMessage, AcceptApproved, AcceptStepRun, Admits
<1>3. CASE ClaimQueued(r) \/ RefuseInput(r) \/ LoadHistory(r) \/ LoadStep(r)
  BY <1>1, <1>3 DEF ClaimQueued, RefuseInput, LoadHistory, LoadStep
<1>4. CASE CallProvider(r) \/ StopContext(r) \/ \E end \in {"answered", "stopped"} : Answer(r, end)
  BY <1>1, <1>4 DEF CallProvider, StopContext, Answer
<1>5. CASE \E x \in Sources : CheckRead(r, x) \/ CheckNative(r, x)
  BY <1>1, <1>5 DEF CheckRead, CheckNative
<1>6. CASE ReleaseRead(r) \/ FailRead(r) \/ ReleaseNative(r) \/ ReleaseTask(r)
  BY <1>1, <1>6 DEF ReleaseRead, FailRead, ReleaseNative, ReleaseTask, Returns
<1>7. CASE PlanFromRun(r) \/ CheckTask(r) \/ RefuseTask(r)
  BY <1>1, <1>7 DEF PlanFromRun, CheckTask, RefuseTask
<1>8. CASE \/ SettleSourced(r) \/ CreateSourced(r) \/ ExcludeRun(r) \/ ClaimSourced(r) \/ SendEnds(r)
           \/ RetrySourced(r)
  BY <1>8 DEF SettleSourced, CreateSourced, ExcludeRun, ClaimSourced, SendEnds, RetrySourced, OnlyDelivery,
              Sending
<1> HIDE DEF LedgerTypeOK, To, SameDelivery
<1> QED
  BY <1>1, <1>2, <1>3, <1>4, <1>5, <1>6, <1>7, <1>8 DEF RunStep

(* In one conversation, no model is shown and nobody is sent content whose  *)
(* sources may not be read, or sent, at that moment.                         *)
THEOREM NothingLeaves ==
  ASSUME OneConversation PROVE SourceAuthoritySpec => NothingLeavesUnauthorized
<1>1. LedgerIInv /\ [SourceAuthorityNext]_sourceVars =>
        [\A r \in SourceRuns : Exposes(r) /\ Transmits(r)]_sourceVars
  <2> SUFFICES ASSUME LedgerIInv, SourceAuthorityNext, NEW q \in SourceRuns
               PROVE  Exposes(q) /\ Transmits(q)
    OBVIOUS
  <2>1. CASE Management
    BY <2>1, ManagementIsApart DEF Exposes, Transmits
  <2>2. ASSUME NEW r \in SourceRuns, RunStep(r) PROVE Exposes(q) /\ Transmits(q)
    <3>1. holds[q] \subseteq marked[q]
      BY DEF LedgerIInv, Recorded, LedgerCoversContent
    <3>2. CallProvider(q) => holds' = holds /\ \A x \in marked[q] : MayRead(who[q], x)
      BY DEF CallProvider, ContextAllowed
    <3>3. ClaimSourced(q) => \A x \in marked[q] : MayRead(who[q], x) /\ MaySend(who[q], x)
      BY DEF ClaimSourced, SourcesAllow
    <3> QED
      BY <2>2, <3>1, <3>2, <3>3, OnlyOneWayOut DEF LedgerIInv, Exposes, Transmits
  <2> QED
    BY <2>1, <2>2 DEF SourceAuthorityNext
<1> QED
  BY <1>1, LedgerIInvHolds, PTL DEF SourceAuthoritySpec, NothingLeavesUnauthorized

(***************************************************************************)
(* The memories (MemoryStore).                                             *)
(***************************************************************************)
MemoryRow == [st : {"none", "active", "expired", "retired"}, sig : Statements \cup {"none"},
              deadline : Nat, version : Nat, supersedes : SUBSET Memories,
              sources : SUBSET Origins, from : SUBSET Origins]
CandidateFields == {"st", "kind", "hint", "does", "match", "version", "sig", "ttl",
                    "sources", "from", "memory"}
CandidateRow(row) ==
  /\ DOMAIN row = CandidateFields
  /\ row.sig \in Statements \cup {"none"} /\ row.ttl \in BOOLEAN
  /\ row.sources \in SUBSET Origins

Traced(row) == row.from \subseteq row.sources
(* A pending suggestion about a memory names the version that was read,     *)
(* and brings no deadline of its own.                                      *)
Named(row)  == row.st = "pending" /\ row.match # 0 => row.version # 0 /\ ~row.ttl
GoodMemory(row)    == row \in MemoryRow /\ Traced(row)
GoodCandidate(row) == CandidateRow(row) /\ Traced(row) /\ Named(row)
GoodDb(d) ==
  /\ d = [mem |-> d.mem, cand |-> d.cand]
  /\ d.mem = [m \in Memories |-> d.mem[m]] /\ d.cand = [c \in Candidates |-> d.cand[c]]
  /\ \A m \in Memories : GoodMemory(d.mem[m])
  /\ \A c \in Candidates : GoodCandidate(d.cand[c])

MemoryIInv == GoodDb(db) /\ seen \in [Memories -> Nat] /\ now \in Nat

(* What CorrectionsAreCurrent says of one transaction.                      *)
CarriedOut(d, e) ==
  \A c \in Candidates :
    LET was == d.cand[c] m == was.match n == e.cand[c].memory IN
    was.st = "pending" /\ e.cand[c].st = "promoted" /\ m # 0 =>
      /\ Remembered(d, m) /\ d.mem[m].version = was.version
      /\ n # m => /\ e.mem[m].st = "retired" /\ m \in e.mem[n].supersedes
                  /\ e.mem[n].deadline = d.mem[m].deadline

(***************************************************************************)
(* Rows that are written back.                                             *)
(***************************************************************************)
LEMMA PutsMemory ==
  ASSUME NEW d, GoodDb(d), NEW m \in Memories, NEW row, GoodMemory(row)
  PROVE  /\ GoodDb(PutMemory(d, m, row)) /\ PutMemory(d, m, row).cand = d.cand
         /\ \A n \in Memories : PutMemory(d, m, row).mem[n] = IF n = m THEN row ELSE d.mem[n]
<1> DEFINE put == [d.mem EXCEPT ![m] = row]
<1>1. put = [n \in Memories |-> put[n]] /\ \A n \in Memories : put[n] = IF n = m THEN row ELSE d.mem[n]
  BY DEF GoodDb
<1> HIDE DEF put
<1>2. PutMemory(d, m, row) = [mem |-> put, cand |-> d.cand]
  BY DEF PutMemory, put
<1> QED
  BY <1>1, <1>2 DEF GoodDb

LEMMA PutsCandidate ==
  ASSUME NEW d, GoodDb(d), NEW c \in Candidates, NEW row, GoodCandidate(row)
  PROVE  /\ GoodDb(PutCandidate(d, c, row)) /\ PutCandidate(d, c, row).mem = d.mem
         /\ \A b \in Candidates : PutCandidate(d, c, row).cand[b] = IF b = c THEN row ELSE d.cand[b]
<1> DEFINE put == [d.cand EXCEPT ![c] = row]
<1>1. put = [b \in Candidates |-> put[b]] /\ \A b \in Candidates : put[b] = IF b = c THEN row ELSE d.cand[b]
  BY DEF GoodDb
<1> HIDE DEF put
<1>2. PutCandidate(d, c, row) = [mem |-> d.mem, cand |-> put]
  BY DEF PutCandidate, put
<1> QED
  BY <1>1, <1>2 DEF GoodDb

LEMMA NewVersion ==
  ASSUME NEW row, GoodMemory(row), NEW v \in Nat
  PROVE  /\ GoodMemory([row EXCEPT !.version = v])
         /\ [row EXCEPT !.version = v].st = row.st
         /\ [row EXCEPT !.version = v].sources = row.sources
         /\ [row EXCEPT !.version = v].from = row.from
         /\ [row EXCEPT !.version = v].deadline = row.deadline
  BY DEF GoodMemory, Traced, MemoryRow

LEMMA NewStatus ==
  ASSUME NEW row, GoodMemory(row), NEW st \in {"expired", "retired"}
  PROVE  /\ GoodMemory([row EXCEPT !.st = st]) /\ [row EXCEPT !.st = st].st = st
         /\ [row EXCEPT !.st = st].version = row.version
  BY DEF GoodMemory, Traced, MemoryRow

LEMMA OldVersion == ASSUME NEW row, GoodMemory(row) PROVE row.version + 1 \in Nat
  BY DEF GoodMemory, MemoryRow

LEMMA EndedIs ==
  ASSUME NEW row, GoodMemory(row), NEW st \in {"expired", "retired"}
  PROVE  GoodMemory(EndMemory(row, st)) /\ EndMemory(row, st).st = st
<1>1. PICK ended : ended = [row EXCEPT !.st = st]
  OBVIOUS
<1>2. PICK v : v = row.version + 1
  OBVIOUS
<1>3. GoodMemory(ended) /\ ended.st = st
  BY <1>1, NewStatus
<1>4. EndMemory(row, st) = [ended EXCEPT !.version = v]
  BY <1>1, <1>2, Zenon DEF EndMemory
<1>5. v \in Nat
  BY <1>2, OldVersion
<1> QED
  BY <1>3, <1>4, <1>5, NewVersion

(* More sources are never too many.                                        *)
LEMMA SourcesAdded ==
  ASSUME NEW row, GoodMemory(row), NEW more \in SUBSET Origins
  PROVE  /\ GoodMemory([row EXCEPT !.sources = @ \cup more])
         /\ [row EXCEPT !.sources = @ \cup more].st = row.st
         /\ [row EXCEPT !.sources = @ \cup more].from = row.from
         /\ more \subseteq [row EXCEPT !.sources = @ \cup more].sources
  BY DEF GoodMemory, Traced, MemoryRow

LEMMA OriginAdded ==
  ASSUME NEW row, GoodMemory(row), NEW from \in SUBSET row.sources
  PROVE  GoodMemory([row EXCEPT !.from = @ \cup from])
  BY DEF GoodMemory, Traced, MemoryRow

LEMMA Reinforced ==
  ASSUME NEW row, GoodMemory(row), NEW more \in SUBSET Origins, NEW from \in SUBSET more
  PROVE  GoodMemory([row EXCEPT !.version = @ + 1, !.sources = @ \cup more, !.from = @ \cup from])
<1>1. PICK v : v = row.version + 1
  OBVIOUS
<1>2. PICK newer : newer = [row EXCEPT !.version = v]
  OBVIOUS
<1>3. GoodMemory(newer) /\ newer.sources = row.sources /\ newer.from = row.from
  BY <1>1, <1>2, NewVersion, OldVersion
<1>4. PICK wider : wider = [newer EXCEPT !.sources = @ \cup more]
  OBVIOUS
<1>5. GoodMemory(wider) /\ more \subseteq wider.sources /\ wider.from = row.from
  BY <1>3, <1>4, SourcesAdded
<1>6. [row EXCEPT !.version = @ + 1, !.sources = @ \cup more, !.from = @ \cup from]
        = [wider EXCEPT !.from = wider.from \cup from]
  BY <1>1, <1>2, <1>3, <1>4, <1>5, Zenon
<1>7. from \in SUBSET wider.sources
  BY <1>5
<1> QED
  BY <1>5, <1>6, <1>7, OriginAdded

LEMMA NewWords ==
  ASSUME NEW row, GoodMemory(row), NEW s \in Statements
  PROVE  GoodMemory([row EXCEPT !.sig = s]) /\ [row EXCEPT !.sig = s].version = row.version
  BY DEF GoodMemory, Traced, MemoryRow

LEMMA NewDeadline ==
  ASSUME NEW row, GoodMemory(row), NEW deadline \in Nat
  PROVE  GoodMemory([row EXCEPT !.deadline = deadline])
  BY DEF GoodMemory, Traced, MemoryRow

LEMMA CandidateSources ==
  ASSUME NEW row, GoodCandidate(row), NEW more \in SUBSET Origins
  PROVE  /\ GoodCandidate([row EXCEPT !.sources = @ \cup more])
         /\ [row EXCEPT !.sources = @ \cup more].st = row.st
         /\ [row EXCEPT !.sources = @ \cup more].match = row.match
         /\ [row EXCEPT !.sources = @ \cup more].version = row.version
<1>1. PICK new : new = [row EXCEPT !.sources = @ \cup more]
  OBVIOUS
<1>2. /\ DOMAIN new = CandidateFields /\ new.st = row.st /\ new.match = row.match
      /\ new.version = row.version /\ new.ttl = row.ttl /\ new.sig = row.sig
      /\ new.sources = row.sources \cup more /\ new.from = row.from
  BY <1>1 DEF GoodCandidate, CandidateRow, CandidateFields
<1> QED
  BY <1>1, <1>2 DEF GoodCandidate, CandidateRow, Traced, Named

LEMMA CandidateTurned ==
  ASSUME NEW row, GoodCandidate(row)
  PROVE  /\ GoodCandidate([row EXCEPT !.kind = "correction"])
         /\ [row EXCEPT !.kind = "correction"].st = row.st
<1>1. PICK new : new = [row EXCEPT !.kind = "correction"]
  OBVIOUS
<1>2. /\ DOMAIN new = CandidateFields /\ new.st = row.st /\ new.match = row.match
      /\ new.version = row.version /\ new.ttl = row.ttl /\ new.sig = row.sig
      /\ new.sources = row.sources /\ new.from = row.from
  BY <1>1 DEF GoodCandidate, CandidateRow, CandidateFields
<1> QED
  BY <1>1, <1>2 DEF GoodCandidate, CandidateRow, Traced, Named

LEMMA CandidateRejected ==
  ASSUME NEW row, GoodCandidate(row)
  PROVE  /\ GoodCandidate([row EXCEPT !.st = "rejected"])
         /\ [row EXCEPT !.st = "rejected"].st = "rejected"
<1>1. PICK new : new = [row EXCEPT !.st = "rejected"]
  OBVIOUS
<1>2. /\ DOMAIN new = CandidateFields /\ new.st = "rejected" /\ new.ttl = row.ttl
      /\ new.sig = row.sig /\ new.sources = row.sources /\ new.from = row.from
  BY <1>1 DEF GoodCandidate, CandidateRow, CandidateFields
<1> QED
  BY <1>1, <1>2 DEF GoodCandidate, CandidateRow, Traced, Named

LEMMA CandidatePromoted ==
  ASSUME NEW row, GoodCandidate(row), NEW m
  PROVE  /\ GoodCandidate([row EXCEPT !.st = "promoted", !.memory = m])
         /\ [row EXCEPT !.st = "promoted", !.memory = m].st = "promoted"
         /\ [row EXCEPT !.st = "promoted", !.memory = m].memory = m
<1>1. PICK new : new = [row EXCEPT !.st = "promoted", !.memory = m]
  OBVIOUS
<1>2. /\ DOMAIN new = CandidateFields /\ new.st = "promoted" /\ new.ttl = row.ttl /\ new.memory = m
      /\ new.sig = row.sig /\ new.sources = row.sources /\ new.from = row.from
  BY <1>1 DEF GoodCandidate, CandidateRow, CandidateFields
<1> QED
  BY <1>1, <1>2 DEF GoodCandidate, CandidateRow, Traced, Named

LEMMA BlankCandidate ==
  /\ GoodCandidate(NoCandidate) /\ DOMAIN NoCandidate = CandidateFields
  /\ NoCandidate.match = 0 /\ NoCandidate.ttl = FALSE /\ NoCandidate.sig = "none"
  /\ NoCandidate.sources = {} /\ NoCandidate.from = {}
  BY DEF NoCandidate, GoodCandidate, CandidateRow, CandidateFields, Traced, Named

LEMMA Deadlines ==
  ASSUME now \in Nat, NEW ttl \in BOOLEAN, NEW old \in Nat
  PROVE  Deadline(ttl, old) \in Nat /\ Forever \in Nat /\ (~ttl => Deadline(ttl, old) = old)
  BY MemoryStoreAssumption DEF Deadline, Forever

LEMMA RowIs ==
  ASSUME NEW row, GoodMemory(row)
  PROVE  /\ row.sources \in SUBSET Origins /\ row.from \subseteq row.sources
         /\ row.supersedes \in SUBSET Memories /\ row.deadline \in Nat /\ row.version \in Nat
  BY DEF GoodMemory, Traced, MemoryRow

LEMMA CandidateIs ==
  ASSUME NEW row, GoodCandidate(row)
  PROVE  /\ row.sources \in SUBSET Origins /\ row.from \subseteq row.sources
         /\ row.ttl \in BOOLEAN /\ row.sig \in Statements \cup {"none"} /\ Named(row)
  BY DEF GoodCandidate, Traced, CandidateRow

LEMMA MemoryMade ==
  ASSUME NEW s \in Statements \cup {"none"}, NEW deadline \in Nat, NEW old \in SUBSET Memories,
         NEW sources \in SUBSET Origins, NEW from \in SUBSET sources
  PROVE  GoodMemory([st |-> "active", sig |-> s, deadline |-> deadline, version |-> 1,
                     supersedes |-> old, sources |-> sources, from |-> from])
  BY DEF GoodMemory, Traced, MemoryRow

(* Expired rows of the statement are closed.                               *)
LEMMA LapsedClosed ==
  ASSUME NEW d, GoodDb(d), NEW gone
  PROVE  LET closed == [mem |-> [m \in Memories |-> IF m \in gone THEN EndMemory(d.mem[m], "expired") ELSE d.mem[m]],
                        cand |-> d.cand]
         IN  /\ GoodDb(closed) /\ closed.cand = d.cand
             /\ \A m \in Memories \ gone : closed.mem[m] = d.mem[m]
<1> DEFINE mem == [m \in Memories |-> IF m \in gone THEN EndMemory(d.mem[m], "expired") ELSE d.mem[m]]
<1>1. ASSUME NEW m \in Memories PROVE GoodMemory(mem[m]) /\ (m \notin gone => mem[m] = d.mem[m])
  <2>1. GoodMemory(d.mem[m])
    BY DEF GoodDb
  <2> QED
    BY <2>1, EndedIs
<1>2. mem = [m \in Memories |-> mem[m]]
  OBVIOUS
<1> HIDE DEF mem
<1>3. GoodDb([mem |-> mem, cand |-> d.cand])
  BY <1>1, <1>2 DEF GoodDb
<1> QED
  BY <1>1, <1>3 DEF mem

LEMMA FirstFree ==
  ASSUME NEW d, NewMemories(d) # {}
  PROVE  LET new == CHOOSE m \in NewMemories(d) : TRUE IN new \in Memories /\ d.mem[new].st = "none"
<1>1. (CHOOSE m \in NewMemories(d) : TRUE) \in NewMemories(d)
  OBVIOUS
<1> QED
  BY <1>1 DEF NewMemories

LEMMA FirstCandidate ==
  ASSUME NEW d, NewCandidates(d) # {}
  PROVE  LET c == CHOOSE c \in NewCandidates(d) : TRUE IN c \in Candidates /\ d.cand[c].st = "none"
<1>1. (CHOOSE c \in NewCandidates(d) : TRUE) \in NewCandidates(d)
  OBVIOUS
<1> QED
  BY <1>1 DEF NewCandidates

(* What a promotion leaves: the suggestion is promoted, to a memory whose   *)
(* readers need the grants for everything it was made from; a correction   *)
(* has retired the memory it is about, as it was read.                     *)
LEMMA PromotedIs ==
  ASSUME NEW d, GoodDb(d), now \in Nat, NEW c \in Candidates, Promotable(d, c)
  PROVE  /\ GoodDb(Promoted(d, c))
         /\ \A b \in Candidates \ {c} : Promoted(d, c).cand[b] = d.cand[b]
         /\ LET was == d.cand[c] m == was.match n == Promoted(d, c).cand[c].memory IN
            m # 0 =>
              /\ Remembered(d, m) /\ d.mem[m].version = was.version
              /\ n # m => /\ Promoted(d, c).mem[m].st = "retired"
                          /\ m \in Promoted(d, c).mem[n].supersedes
                          /\ Promoted(d, c).mem[n].deadline = d.mem[m].deadline
<1> DEFINE cand == d.cand[c]
           gone == Lapsed(d, cand)
           x    == Target(d, cand)
           all  == AllSources(d, cand, gone \cup x)
           closed == [mem |-> [m \in Memories |-> IF m \in gone THEN EndMemory(d.mem[m], "expired") ELSE d.mem[m]],
                      cand |-> d.cand]
           new  == CHOOSE m \in NewMemories(d) : TRUE
           e    == CHOOSE e \in x : TRUE
           memory(deadline, old) ==
             [st |-> "active", sig |-> cand.sig, deadline |-> deadline, version |-> 1,
              supersedes |-> gone \cup old, sources |-> all, from |-> cand.from]
           become(put, m) == PutCandidate(put, c, [cand EXCEPT !.st = "promoted", !.memory = m])
           created  == PutMemory(closed, new, memory(Deadline(cand.ttl, Forever), {}))
           retired  == PutMemory(closed, e, [EndMemory(d.mem[e], "retired") EXCEPT !.sources = @ \cup all])
           over     == PutMemory(closed, e, EndMemory(d.mem[e], "retired"))
           replaced == PutMemory(over, new,
                         memory(Deadline(cand.ttl, d.mem[e].deadline), {e} \cup d.mem[e].supersedes))
           kept     == PutMemory(closed, e, [d.mem[e] EXCEPT !.version = @ + 1, !.sources = @ \cup all,
                                                             !.from = @ \cup cand.from])
<1>1. Promoted(d, c) =
        IF x = {} THEN become(created, new)
        ELSE IF Retires(cand) THEN become(retired, e)
        ELSE IF Replaces(cand) THEN become(replaced, new)
        ELSE become(kept, e)
  BY Zenon DEF Promoted
<1>2. /\ GoodCandidate(cand) /\ \A m \in Memories : GoodMemory(d.mem[m])
  BY DEF GoodDb
<1>3. x \subseteq Memories /\ gone \subseteq Memories
  BY DEF Target, Lapsed
<1>4. all \in SUBSET Origins /\ cand.from \in SUBSET all /\ cand.ttl \in BOOLEAN
      /\ cand.sig \in Statements \cup {"none"} /\ Named(cand)
  <2>1. \A m \in gone \cup x : d.mem[m].sources \in SUBSET Origins
    BY <1>2, <1>3, RowIs
  <2> QED
    BY <1>2, <2>1, CandidateIs DEF AllSources
<1>5. GoodDb(closed) /\ closed.cand = d.cand /\ \A m \in Memories \ gone : closed.mem[m] = d.mem[m]
  BY LapsedClosed
<1>6. x # {} => e \in x /\ e \in Memories
  BY <1>3
<1>7. x = {} \/ (Replaces(cand) /\ ~Retires(cand)) => new \in Memories /\ d.mem[new].st = "none"
  BY FirstFree DEF Promotable
<1>8. cand.match # 0 =>
        x = {cand.match} /\ e = cand.match /\ Remembered(d, cand.match)
        /\ cand.match \in Memories /\ ~cand.ttl /\ d.mem[cand.match].version = cand.version
  <2>1. cand.st = "pending" /\ Current(d, cand)
    BY DEF Promotable
  <2>2. cand.match # 0 => x # {} /\ x = {cand.match} \cap {m \in Memories : Remembered(d, m)}
    BY <2>1 DEF Current, Target
  <2>3. cand.match # 0 => \A m \in x : d.mem[m].version = cand.version
    BY <1>4, <2>1 DEF Current, Named
  <2> QED
    BY <1>4, <1>6, <2>1, <2>2, <2>3 DEF Named
<1> HIDE DEF x, gone, all, closed, new, e
<1>9. ASSUME NEW put, GoodDb(put), put.cand = d.cand, NEW m \in Memories
      PROVE  /\ GoodDb(become(put, m)) /\ become(put, m).mem = put.mem
             /\ become(put, m).cand[c].memory = m
             /\ \A b \in Candidates \ {c} : become(put, m).cand[b] = d.cand[b]
  <2> DEFINE row == [cand EXCEPT !.st = "promoted", !.memory = m]
  <2>1. GoodCandidate(row) /\ row.memory = m
    BY <1>2, CandidatePromoted
  <2> HIDE DEF row
  <2>2. become(put, m) = PutCandidate(put, c, row)
    BY DEF row
  <2> QED
    BY <1>9, <2>1, <2>2, PutsCandidate
<1>10. ASSUME NEW deadline \in Nat, NEW old \in SUBSET Memories
       PROVE  /\ GoodMemory(memory(deadline, old)) /\ memory(deadline, old).deadline = deadline
              /\ memory(deadline, old).supersedes = gone \cup old
  <2>1. gone \cup old \in SUBSET Memories
    BY <1>3
  <2> QED
    BY <1>4, <2>1, MemoryMade
<1> HIDE DEF memory
<1>11. CASE x = {}
  <2>1. GoodMemory(memory(Deadline(cand.ttl, Forever), {}))
    BY <1>4, <1>10, Deadlines
  <2>2. new \in Memories
    BY <1>7, <1>11
  <2>3. GoodDb(created) /\ created.cand = d.cand
    BY <1>5, <2>1, <2>2, PutsMemory
  <2>4. Promoted(d, c) = become(created, new)
    BY <1>1, <1>11
  <2>5. cand.match = 0
    BY <1>8, <1>11
  <2> HIDE DEF created, become
  <2> QED
    BY <1>9, <2>2, <2>3, <2>4, <2>5
<1>12. CASE x # {} /\ Retires(cand)
  <2> DEFINE row == [EndMemory(d.mem[e], "retired") EXCEPT !.sources = @ \cup all]
  <2>1. e \in Memories
    BY <1>6, <1>12
  <2>2. GoodMemory(EndMemory(d.mem[e], "retired"))
    BY <1>2, <2>1, EndedIs
  <2>3. GoodMemory(row)
    BY <1>4, <2>2, SourcesAdded
  <2> HIDE DEF row
  <2>4. retired = PutMemory(closed, e, row)
    BY DEF row
  <2>5. GoodDb(retired) /\ retired.cand = d.cand
    BY <1>5, <2>1, <2>3, <2>4, PutsMemory
  <2>6. Promoted(d, c) = become(retired, e)
    BY <1>1, <1>12
  <2>7. cand.match # 0 => e = cand.match /\ Remembered(d, cand.match) /\ d.mem[cand.match].version = cand.version
    BY <1>8
  <2> HIDE DEF retired, become
  <2> QED
    BY <1>9, <2>1, <2>5, <2>6, <2>7
<1>13. CASE x # {} /\ ~Retires(cand) /\ Replaces(cand)
  <2> DEFINE row == memory(Deadline(cand.ttl, d.mem[e].deadline), {e} \cup d.mem[e].supersedes)
  <2>1. e \in Memories /\ new \in Memories /\ d.mem[new].st = "none"
    BY <1>6, <1>7, <1>13
  <2>2. GoodMemory(EndMemory(d.mem[e], "retired")) /\ EndMemory(d.mem[e], "retired").st = "retired"
    BY <1>2, <2>1, EndedIs
  <2>3. /\ Deadline(cand.ttl, d.mem[e].deadline) \in Nat
        /\ ~cand.ttl => Deadline(cand.ttl, d.mem[e].deadline) = d.mem[e].deadline
    BY <1>2, <1>4, <2>1, Deadlines, RowIs
  <2>4. {e} \cup d.mem[e].supersedes \in SUBSET Memories
    BY <1>2, <2>1, RowIs
  <2>5. /\ GoodMemory(row) /\ row.supersedes = gone \cup ({e} \cup d.mem[e].supersedes)
        /\ row.deadline = Deadline(cand.ttl, d.mem[e].deadline)
    BY <1>10, <2>3, <2>4
  <2> HIDE DEF row
  <2>6. GoodDb(over) /\ over.cand = d.cand /\ over.mem[e] = EndMemory(d.mem[e], "retired")
    BY <1>5, <2>1, <2>2, PutsMemory
  <2> HIDE DEF over
  <2>7. replaced = PutMemory(over, new, row)
    BY DEF row
  <2>8. /\ GoodDb(replaced) /\ replaced.cand = d.cand /\ replaced.mem[new] = row
        /\ e # new => replaced.mem[e] = EndMemory(d.mem[e], "retired")
    BY <2>1, <2>5, <2>6, <2>7, PutsMemory
  <2>9. Promoted(d, c) = become(replaced, new)
    BY <1>1, <1>13
  <2>10. cand.match # 0 => e = cand.match /\ Remembered(d, cand.match)
                           /\ d.mem[cand.match].version = cand.version /\ ~cand.ttl
    BY <1>8
  <2> HIDE DEF replaced, become
  <2>11. Promoted(d, c).mem = replaced.mem /\ Promoted(d, c).cand[c].memory = new
    BY <1>9, <2>1, <2>8, <2>9
  <2>12. GoodDb(Promoted(d, c)) /\ \A b \in Candidates \ {c} : Promoted(d, c).cand[b] = d.cand[b]
    BY <1>9, <2>1, <2>8, <2>9
  <2> QED
    BY <2>2, <2>3, <2>5, <2>8, <2>10, <2>11, <2>12
<1>14. CASE x # {} /\ ~Retires(cand) /\ ~Replaces(cand)
  <2> DEFINE row == [d.mem[e] EXCEPT !.version = @ + 1, !.sources = @ \cup all, !.from = @ \cup cand.from]
  <2>1. e \in Memories
    BY <1>6, <1>14
  <2>2. GoodMemory(row)
    BY <1>2, <1>4, <2>1, Reinforced
  <2> HIDE DEF row
  <2>3. kept = PutMemory(closed, e, row)
    BY DEF row
  <2>4. GoodDb(kept) /\ kept.cand = d.cand
    BY <1>5, <2>1, <2>2, <2>3, PutsMemory
  <2>5. Promoted(d, c) = become(kept, e)
    BY <1>1, <1>14
  <2>6. cand.match # 0 => e = cand.match /\ Remembered(d, cand.match) /\ d.mem[cand.match].version = cand.version
    BY <1>8
  <2> HIDE DEF kept, become
  <2> QED
    BY <1>9, <2>1, <2>4, <2>5, <2>6
<1> QED
  BY <1>11, <1>12, <1>13, <1>14

(***************************************************************************)
(* The methods of the store.                                               *)
(***************************************************************************)
Kept == GoodDb(db') /\ CarriedOut(db, db')

(* Where nothing is promoted, nothing has to be shown of a correction.      *)
LEMMA NothingPromoted ==
  ASSUME GoodDb(db'), \A c \in Candidates : db.cand[c].st = "pending" => db'.cand[c].st # "promoted"
  PROVE  Kept
  BY DEF Kept, CarriedOut

LEMMA QueuedIs ==
  ASSUME GoodDb(db), NEW new, GoodCandidate(new), new.st = "pending", Room(new.sig)
  PROVE  LET q == Queued(db, new) IN
         /\ q.c \in Candidates /\ GoodDb(q.d) /\ q.d.mem = db.mem
         /\ q.d.cand[q.c].st = "pending"
         /\ \A b \in Candidates \ {q.c} : q.d.cand[b] = db.cand[b]
         /\ db.cand[q.c].st = "pending" =>
              q.d.cand[q.c].match = db.cand[q.c].match /\ q.d.cand[q.c].version = db.cand[q.c].version
<1>1. CASE Suggested(db, new.sig) # {}
  <2> DEFINE c   == CHOOSE c \in Suggested(db, new.sig) : TRUE
             row == [db.cand[c] EXCEPT !.sources = @ \cup new.sources]
  <2>1. c \in Suggested(db, new.sig)
    BY <1>1
  <2>2. c \in Candidates /\ db.cand[c].st = "pending" /\ GoodCandidate(db.cand[c])
    BY <2>1 DEF Suggested, GoodDb
  <2>3. Queued(db, new).d = PutCandidate(db, c, row) /\ Queued(db, new).c = c
    BY <1>1 DEF Queued
  <2> HIDE DEF c
  <2>4. new.sources \in SUBSET Origins
    BY CandidateIs
  <2>5. /\ GoodCandidate(row) /\ row.st = "pending"
        /\ row.match = db.cand[c].match /\ row.version = db.cand[c].version
    BY <2>2, <2>4, CandidateSources
  <2> HIDE DEF row
  <2> QED
    BY <2>2, <2>3, <2>5, PutsCandidate
<1>2. CASE Suggested(db, new.sig) = {}
  <2> DEFINE c == CHOOSE c \in NewCandidates(db) : TRUE
  <2>1. c \in Candidates /\ db.cand[c].st = "none"
    BY <1>2, FirstCandidate DEF Room
  <2>2. Queued(db, new).d = PutCandidate(db, c, new) /\ Queued(db, new).c = c
    BY <1>2 DEF Queued
  <2> HIDE DEF c
  <2> QED
    BY <2>1, <2>2, PutsCandidate
<1> QED
  BY <1>1, <1>2

LEMMA QueuedKept ==
  ASSUME GoodDb(db), NEW new, GoodCandidate(new), new.st = "pending", Room(new.sig),
         db' = Queued(db, new).d
  PROVE  Kept
<1> DEFINE q == Queued(db, new)
<1>1. /\ q.c \in Candidates /\ GoodDb(q.d) /\ q.d.cand[q.c].st = "pending"
      /\ \A b \in Candidates \ {q.c} : q.d.cand[b] = db.cand[b]
  BY QueuedIs
<1> HIDE DEF q
<1>2. db' = q.d
  BY DEF q
<1> QED
  BY <1>1, <1>2, NothingPromoted

LEMMA SuggestKeeps ==
  ASSUME GoodDb(db), NEW s \in Statements, NEW read \in SUBSET Origins, SuggestStatement(s, read)
  PROVE  Kept
<1> DEFINE new == [NoCandidate EXCEPT !.st = "pending", !.hint = "review", !.sig = s,
                                      !.sources = read, !.from = read]
<1>1. /\ DOMAIN new = CandidateFields /\ new.st = "pending" /\ new.match = 0 /\ new.ttl = FALSE
      /\ new.sig = s /\ new.sources = read /\ new.from = read
  BY BlankCandidate DEF CandidateFields
<1>2. GoodCandidate(new) /\ new.st = "pending"
  BY <1>1 DEF GoodCandidate, CandidateRow, Traced, Named
<1>3. Suggest(new)
  BY DEF SuggestStatement
<1> HIDE DEF new
<1> QED
  BY <1>2, <1>3, QueuedKept DEF Suggest

(* A decision of the extractor rests on all it was shown.                  *)
LEMMA ExtractKeeps ==
  ASSUME GoodDb(db), seen \in [Memories -> Nat], NEW s \in Statements, NEW m \in Memories,
         NEW kind \in {"derived", "correction"}, NEW does \in {"none", "retire"}, Extract(s, m, kind, does)
  PROVE  Kept
<1> DEFINE sources == SourcesOf(Shown)
           from    == UNION {db.mem[n].from : n \in Shown}
           new == [NoCandidate EXCEPT !.st = "pending", !.kind = kind, !.hint = "review", !.does = does,
                     !.match = m, !.version = seen[m], !.sig = s, !.sources = sources, !.from = from]
<1>1. \A n \in Shown : db.mem[n].sources \in SUBSET Origins /\ db.mem[n].from \subseteq db.mem[n].sources
  BY RowIs DEF Shown, GoodDb
<1>2. sources \in SUBSET Origins /\ from \subseteq sources /\ from \in SUBSET Origins
  BY <1>1 DEF SourcesOf
<1>3. Room(s) /\ db' = Queued(db, new).d
  BY DEF Extract
<1> HIDE DEF sources, from
<1>4. /\ DOMAIN new = CandidateFields /\ new.st = "pending" /\ new.version = seen[m]
      /\ new.ttl = FALSE /\ new.sig = s /\ new.sources = sources /\ new.from = from
  BY BlankCandidate DEF CandidateFields
<1>5. seen[m] # 0
  BY DEF Extract
<1>6. GoodCandidate(new) /\ new.st = "pending" /\ new.sig = s
  BY <1>2, <1>4, <1>5 DEF GoodCandidate, CandidateRow, Traced, Named
<1> HIDE DEF new
<1> QED
  BY <1>3, <1>6, QueuedKept

LEMMA FeedbackKeeps ==
  ASSUME GoodDb(db), NEW s \in Statements, NEW rejects \in BOOLEAN, RecordFeedback(s, rejects)
  PROVE  Kept
<1>1. CASE Suggested(db, s) # {}
  <2> DEFINE c   == CHOOSE c \in Suggested(db, s) : TRUE
             row == [db.cand[c] EXCEPT !.kind = "correction"]
  <2>1. c \in Suggested(db, s)
    BY <1>1
  <2>2. c \in Candidates /\ db.cand[c].st = "pending" /\ GoodCandidate(db.cand[c])
    BY <2>1 DEF Suggested, GoodDb
  <2>3. db' = PutCandidate(db, c, row) \/ db' = db
    BY <1>1 DEF RecordFeedback
  <2> HIDE DEF c
  <2>4. GoodCandidate(row) /\ row.st = "pending"
    BY <2>2, CandidateTurned
  <2> HIDE DEF row
  <2> QED
    BY <2>2, <2>3, <2>4, PutsCandidate, NothingPromoted
<1>2. CASE Suggested(db, s) = {}
  <2> DEFINE c    == CHOOSE c \in NewCandidates(db) : TRUE
             new  == [NoCandidate EXCEPT !.st = "pending", !.hint = "reinforce", !.does = "taste",
                        !.sig = s, !.kind = IF rejects THEN "correction" ELSE @]
  <2>1. c \in Candidates /\ db.cand[c].st = "none"
    BY <1>2, FirstCandidate DEF RecordFeedback
  <2>2. db' = PutCandidate(db, c, new)
    BY <1>2 DEF RecordFeedback
  <2> HIDE DEF c
  <2>3. /\ DOMAIN new = CandidateFields /\ new.st = "pending" /\ new.match = 0 /\ new.ttl = FALSE
        /\ new.sig = s /\ new.sources = {} /\ new.from = {}
    BY BlankCandidate DEF CandidateFields
  <2>4. GoodCandidate(new) /\ new.st = "pending"
    BY <2>3 DEF GoodCandidate, CandidateRow, Traced, Named
  <2> HIDE DEF new
  <2> QED
    BY <2>1, <2>2, <2>4, PutsCandidate, NothingPromoted
<1> QED
  BY <1>1, <1>2

LEMMA RejectKeeps ==
  ASSUME GoodDb(db), NEW c \in Candidates, RejectCandidate(c) PROVE Kept
<1> DEFINE row == [db.cand[c] EXCEPT !.st = "rejected"]
<1>1. GoodCandidate(row) /\ row.st = "rejected"
  BY CandidateRejected DEF GoodDb
<1>2. db' = PutCandidate(db, c, row)
  BY DEF RejectCandidate
<1> HIDE DEF row
<1> QED
  BY <1>1, <1>2, PutsCandidate, NothingPromoted

LEMMA PromoteKeeps ==
  ASSUME GoodDb(db), now \in Nat, NEW c \in Candidates, PromoteCandidate(c) PROVE Kept
<1>1. Promotable(db, c) /\ db' = Promoted(db, c)
  BY DEF PromoteCandidate
<1> QED
  BY <1>1, PromotedIs DEF Kept, CarriedOut

LEMMA WriteKeeps ==
  ASSUME GoodDb(db), now \in Nat, NEW s \in Statements, NEW ttl \in BOOLEAN, WriteExplicit(s, ttl)
  PROVE  Kept
<1> DEFINE new == [NoCandidate EXCEPT !.st = "pending", !.sig = s, !.ttl = ttl]
           q   == Queued(db, new)
<1>1. /\ DOMAIN new = CandidateFields /\ new.st = "pending" /\ new.match = 0 /\ new.ttl = ttl
      /\ new.sig = s /\ new.sources = {} /\ new.from = {}
  BY BlankCandidate DEF CandidateFields
<1>2. GoodCandidate(new) /\ new.st = "pending" /\ new.sig = s
  BY <1>1 DEF GoodCandidate, CandidateRow, Traced, Named
<1>3. Room(s) /\ Promotable(q.d, q.c) /\ db' = Promoted(q.d, q.c)
  BY DEF WriteExplicit
<1> HIDE DEF new
<1>4. /\ q.c \in Candidates /\ GoodDb(q.d) /\ q.d.mem = db.mem
      /\ \A b \in Candidates \ {q.c} : q.d.cand[b] = db.cand[b]
      /\ db.cand[q.c].st = "pending" =>
           q.d.cand[q.c].match = db.cand[q.c].match /\ q.d.cand[q.c].version = db.cand[q.c].version
  BY <1>2, <1>3, QueuedIs
<1> HIDE DEF q
<1>5. \A m : Remembered(q.d, m) <=> Remembered(db, m)
  BY <1>4 DEF Remembered
<1>6. /\ GoodDb(db') /\ \A b \in Candidates \ {q.c} : db'.cand[b] = q.d.cand[b]
      /\ LET was == q.d.cand[q.c] m == was.match n == db'.cand[q.c].memory IN
         m # 0 =>
           /\ Remembered(q.d, m) /\ q.d.mem[m].version = was.version
           /\ n # m => /\ db'.mem[m].st = "retired" /\ m \in db'.mem[n].supersedes
                       /\ db'.mem[n].deadline = q.d.mem[m].deadline
  BY <1>3, <1>4, PromotedIs
<1>7. ASSUME NEW b \in Candidates, b # q.c PROVE db'.cand[b] = db.cand[b]
  BY <1>4, <1>6, <1>7
<1>8. CarriedOut(db, db')
  BY <1>4, <1>5, <1>6, <1>7 DEF CarriedOut
<1> QED
  BY <1>6, <1>8 DEF Kept

LEMMA SupersedeKeeps ==
  ASSUME GoodDb(db), now \in Nat, NEW m \in Memories, NEW s \in Statements, NEW ttl \in BOOLEAN,
         SupersedeMemory(m, s, ttl)
  PROVE  Kept
<1> DEFINE new  == CHOOSE n \in NewMemories(db) : TRUE
           c    == CHOOSE c \in NewCandidates(db) : TRUE
           over == PutMemory(db, m, EndMemory(db.mem[m], "retired"))
           said == [st |-> "active", sig |-> s, deadline |-> Deadline(ttl, db.mem[m].deadline),
                    version |-> 1, supersedes |-> {m} \cup db.mem[m].supersedes,
                    sources |-> db.mem[m].sources, from |-> {}]
           put  == PutMemory(over, new, said)
           row  == [NoCandidate EXCEPT !.st = "promoted", !.kind = "correction", !.hint = "replace",
                                       !.match = m, !.sig = s, !.ttl = ttl, !.memory = new]
<1>1. db' = PutCandidate(put, c, row)
  BY Zenon DEF SupersedeMemory
<1>2. new \in Memories
  BY FirstFree DEF SupersedeMemory
<1>3. c \in Candidates /\ db.cand[c].st = "none"
  BY FirstCandidate DEF SupersedeMemory
<1> HIDE DEF new, c
<1>4. GoodMemory(db.mem[m])
  BY DEF GoodDb
<1>5. GoodDb(over) /\ over.cand = db.cand
  BY <1>4, EndedIs, PutsMemory
<1> HIDE DEF over
<1>6. GoodMemory(said)
  BY <1>4, Deadlines, RowIs, MemoryMade
<1> HIDE DEF said
<1>7. GoodDb(put) /\ put.cand = db.cand
  BY <1>2, <1>5, <1>6, PutsMemory
<1>8. /\ DOMAIN row = CandidateFields /\ row.st = "promoted" /\ row.ttl = ttl
      /\ row.sig = s /\ row.sources = {} /\ row.from = {}
  BY BlankCandidate DEF CandidateFields
<1>9. GoodCandidate(row)
  BY <1>8 DEF GoodCandidate, CandidateRow, Traced, Named
<1> HIDE DEF put, row
<1>10. /\ GoodDb(PutCandidate(put, c, row))
       /\ \A b \in Candidates \ {c} : PutCandidate(put, c, row).cand[b] = db.cand[b]
  BY <1>3, <1>7, <1>9, PutsCandidate
<1> QED
  BY <1>1, <1>3, <1>10, NothingPromoted

LEMMA UpdateKeeps ==
  ASSUME GoodDb(db), now \in Nat, NEW m \in Memories, NEW s \in Statements, NEW ttl \in BOOLEAN,
         UpdateMemory(m, s, ttl)
  PROVE  Kept
<1>1. PICK old : old = db.mem[m]
  OBVIOUS
<1>2. GoodMemory(old)
  BY <1>1 DEF GoodDb
<1>3. PICK v, deadline : v = old.version + 1 /\ deadline = Deadline(ttl, old.deadline)
  OBVIOUS
<1>4. v \in Nat /\ deadline \in Nat
  BY <1>2, <1>3, OldVersion, RowIs, Deadlines
<1>5. PICK said : said = [old EXCEPT !.sig = s]
  OBVIOUS
<1>6. GoodMemory(said) /\ said.deadline = old.deadline
  BY <1>2, <1>5, NewWords DEF GoodMemory, MemoryRow
<1>7. PICK newer : newer = [said EXCEPT !.version = v]
  OBVIOUS
<1>8. GoodMemory(newer) /\ newer.deadline = old.deadline
  BY <1>4, <1>6, <1>7, NewVersion
<1>9. PICK row : row = [newer EXCEPT !.deadline = deadline]
  OBVIOUS
<1>10. GoodMemory(row)
  BY <1>4, <1>8, <1>9, NewDeadline
<1>11. said.version = old.version
  BY <1>2, <1>5, NewWords
<1>12. [db.mem[m] EXCEPT !.sig = s, !.version = @ + 1, !.deadline = Deadline(ttl, @)] = row
  BY <1>1, <1>3, <1>5, <1>7, <1>8, <1>9, <1>11, Zenon
<1>13. db' = PutMemory(db, m, row)
  BY <1>12, Zenon DEF UpdateMemory
<1> QED
  BY <1>10, <1>13, PutsMemory, NothingPromoted

LEMMA LifecycleKeeps ==
  ASSUME GoodDb(db), NEW m \in Memories, SetLifecycle(m) PROVE Kept
<1>1. db' = PutMemory(db, m, EndMemory(db.mem[m], "retired")) /\ GoodMemory(db.mem[m])
  BY DEF SetLifecycle, GoodDb
<1>2. GoodMemory(EndMemory(db.mem[m], "retired"))
  BY <1>1, EndedIs
<1> QED
  BY <1>1, <1>2, PutsMemory, NothingPromoted

LEMMA ChangeKeeps == ASSUME MemoryIInv, Change PROVE Kept
<1>1. GoodDb(db) /\ now \in Nat /\ seen \in [Memories -> Nat]
  BY DEF MemoryIInv
<1> QED
  BY <1>1, PromoteKeeps, RejectKeeps, LifecycleKeeps, SuggestKeeps, FeedbackKeeps, WriteKeeps,
     ExtractKeeps, SupersedeKeeps, UpdateKeeps DEF Change

LEMMA ChangeLeaves == Change => now' = now /\ (seen' = seen \/ seen' = NotRead)
<1>1. ASSUME NEW c, PromoteCandidate(c) \/ RejectCandidate(c) PROVE UNCHANGED <<now, seen>>
  BY <1>1, Zenon DEF PromoteCandidate, RejectCandidate
<1>2. ASSUME NEW m, SetLifecycle(m) PROVE UNCHANGED <<now, seen>>
  BY <1>2, Zenon DEF SetLifecycle
<1>3. ASSUME NEW s, NEW read, SuggestStatement(s, read) PROVE UNCHANGED <<now, seen>>
  BY <1>3, Zenon DEF SuggestStatement, Suggest
<1>4. ASSUME NEW s, NEW b, RecordFeedback(s, b) \/ WriteExplicit(s, b) PROVE UNCHANGED <<now, seen>>
  BY <1>4, Zenon DEF RecordFeedback, WriteExplicit
<1>5. ASSUME NEW s, NEW m, NEW kind, NEW does, Extract(s, m, kind, does)
      PROVE  now' = now /\ seen' = NotRead
  BY <1>5, Zenon DEF Extract
<1>6. ASSUME NEW m, NEW s, NEW ttl, SupersedeMemory(m, s, ttl) \/ UpdateMemory(m, s, ttl)
      PROVE  UNCHANGED <<now, seen>>
  BY <1>6, Zenon DEF SupersedeMemory, UpdateMemory
<1> QED
  BY <1>1, <1>2, <1>3, <1>4, <1>5, <1>6 DEF Change

LEMMA MemoryInit == MemoryStoreInit => MemoryIInv
<1> SUFFICES ASSUME MemoryStoreInit PROVE MemoryIInv
  OBVIOUS
<1>1. Forever \in Nat
  BY MemoryStoreAssumption DEF Forever
<1>2. GoodMemory(NoMemory) /\ GoodCandidate(NoCandidate)
  BY <1>1, BlankCandidate DEF GoodMemory, Traced, MemoryRow, NoMemory
<1>3. GoodDb(db)
  BY <1>2 DEF MemoryStoreInit, GoodDb
<1> QED
  BY <1>3 DEF MemoryStoreInit, MemoryIInv, NotRead

LEMMA MemoryStep ==
  MemoryIInv /\ [MemoryStoreNext]_memoryVars => MemoryIInv' /\ (UNCHANGED db \/ Kept)
<1> SUFFICES ASSUME MemoryIInv, [MemoryStoreNext]_memoryVars
             PROVE  MemoryIInv' /\ (UNCHANGED db \/ Kept)
  OBVIOUS
<1>1. ASSUME Change PROVE MemoryIInv' /\ Kept
  <2>1. Kept
    BY <1>1, ChangeKeeps
  <2>2. now' = now /\ (seen' = seen \/ seen' = NotRead)
    BY <1>1, ChangeLeaves
  <2> QED
    BY <2>1, <2>2 DEF MemoryIInv, Kept, NotRead
<1>2. ASSUME ListMemories PROVE MemoryIInv' /\ UNCHANGED db
  <2>1. \A m \in Memories : db.mem[m].version \in Nat
    BY RowIs DEF MemoryIInv, GoodDb
  <2> QED
    BY <1>2, <2>1 DEF ListMemories, MemoryIInv
<1>3. TimePasses => MemoryIInv' /\ UNCHANGED db
  BY DEF TimePasses, MemoryIInv
<1>4. ASSUME NEW o, RevokeSource(o) PROVE MemoryIInv' /\ UNCHANGED db
  BY <1>4 DEF RevokeSource, MemoryIInv
<1>5. UNCHANGED memoryVars => MemoryIInv' /\ UNCHANGED db
  BY DEF memoryVars, MemoryIInv
<1> QED
  BY <1>1, <1>2, <1>3, <1>4, <1>5 DEF MemoryStoreNext

(***************************************************************************)
(* The theorems.                                                           *)
(***************************************************************************)
(* Every source a memory or a suggestion was made from is one its readers   *)
(* need the grant for, through repetition, promotion and extraction.       *)
THEOREM MemoriesTraceable == MemoryStoreSpec => []ContentIsTraceable
<1>1. MemoryIInv => ContentIsTraceable
  BY DEF MemoryIInv, GoodDb, GoodMemory, GoodCandidate, Traced, ContentIsTraceable
<1> QED
  BY <1>1, MemoryInit, MemoryStep, PTL DEF MemoryStoreSpec

(* A suggestion about a memory is carried out on the memory as it was read, *)
(* keeps its deadline, and ends what it replaces.                           *)
THEOREM CorrectionsCurrent == MemoryStoreSpec => CorrectionsAreCurrent
<1> DEFINE Carried == CarriedOut(db, db')
<1>1. MemoryIInv /\ [MemoryStoreNext]_memoryVars => MemoryIInv' /\ [Carried]_memoryVars
  <2>1. UNCHANGED db => Carried
    BY DEF CarriedOut
  <2> QED
    BY <2>1, MemoryStep DEF Kept
<1>2. MemoryStoreSpec => [][Carried]_memoryVars
  BY <1>1, MemoryInit, PTL DEF MemoryStoreSpec
<1> QED
  BY <1>2 DEF CorrectionsAreCurrent, CarriedOut
=============================================================================
