------------------------- MODULE TaskSignalsProofs -------------------------
(***************************************************************************)
(* Theorems about what a Task tells and is told from outside: the outbox   *)
(* of its notifications, the timer that wakes it and the ends of its child *)
(* Tasks; for any events, schedules, families of Tasks and faults.         *)
(***************************************************************************)
EXTENDS TaskNotices, Continuations, ChildTasks, FiniteSetTheorems, TLAPS

(***************************************************************************)
(* Notifications.                                                          *)
(***************************************************************************)
NoticeStatus == {"none", "pending", "sending", "sent", "failed", "unknown", "suppressed"}

(* Every event has one entry in the outbox and one on the wire.            *)
NoticesTypeOK ==
  /\ notice \in Seq(NoticeStatus)
  /\ wire \in Seq([out : Nat, got : Nat])
  /\ Len(wire) = Len(notice)
  /\ pump = [todo |-> pump.todo, pc |-> pump.pc]

NoticeIsTrue(i) ==
  /\ wire[i].out + wire[i].got <= 1
  /\ notice[i] = "sent" => wire[i].got = 1
  /\ notice[i] \in {"none", "pending", "suppressed", "failed"} => wire[i].out + wire[i].got = 0
  /\ notice[i] = "sending" => pump.pc = "sending" /\ Head(pump.todo) = i

NoticesIInv == NoticesTypeOK /\ NoticesAreTrue

LEMMA NoticesInit == TaskNoticesInit => NoticesIInv
  BY DEF TaskNoticesInit, NoticesIInv, NoticesTypeOK, NoticesAreTrue, NoPump

(* A new event adds an entry, and leaves the others.                       *)
LEMMA EventsKeep ==
  ASSUME NoticesIInv, NEW what, NEW status, AppendEvent(what, status) PROVE NoticesIInv'
<1>1. /\ notice' = Append(notice, Enqueued(what))
      /\ wire' = Append(wire, [out |-> 0, got |-> 0])
      /\ pump' = pump
  BY DEF AppendEvent
<1>2. Enqueued(what) \in {"none", "pending"}
  BY DEF Enqueued
<1>3. NoticesTypeOK'
  BY <1>1, <1>2 DEF NoticesIInv, NoticesTypeOK, NoticeStatus
<1>4. ASSUME NEW i \in DOMAIN notice' PROVE NoticeIsTrue(i)'
  <2>1. CASE i \in DOMAIN notice
    <3>1. notice'[i] = notice[i] /\ wire'[i] = wire[i]
      BY <1>1, <1>2, <2>1 DEF NoticesIInv, NoticesTypeOK, NoticeStatus
    <3> QED
      BY <1>1, <2>1, <3>1 DEF NoticesIInv, NoticesAreTrue, NoticeIsTrue
  <2>2. CASE i \notin DOMAIN notice
    <3>1. notice'[i] = Enqueued(what) /\ wire'[i] = [out |-> 0, got |-> 0]
      BY <1>1, <1>2, <1>4, <2>2 DEF NoticesIInv, NoticesTypeOK, NoticeStatus
    <3> QED
      BY <1>2, <3>1 DEF NoticeIsTrue
  <2> QED
    BY <2>1, <2>2
<1> QED
  BY <1>3, <1>4 DEF NoticesIInv, NoticesAreTrue, NoticeIsTrue

LEMMA Put ==
  ASSUME NEW S, NEW q \in Seq(S), NEW i \in DOMAIN q, NEW x \in S
  PROVE  /\ [q EXCEPT ![i] = x] \in Seq(S) /\ Len([q EXCEPT ![i] = x]) = Len(q)
         /\ \A j \in DOMAIN q : [q EXCEPT ![i] = x][j] = IF j = i THEN x ELSE q[j]
  OBVIOUS

LEMMA NoPut ==
  ASSUME NEW S, NEW q \in Seq(S), NEW i, i \notin DOMAIN q, NEW x
  PROVE  [q EXCEPT ![i] = x] = q
  OBVIOUS

Wire == [out : Nat, got : Nat]

LEMMA Element == ASSUME NEW S, NEW q \in Seq(S), NEW i \in DOMAIN q PROVE q[i] \in S
  OBVIOUS

(* What a notice does on the wire: it is put there, arrives or is lost.    *)
LEMMA WireMoves ==
  ASSUME NEW w \in Wire
  PROVE  /\ w.out = 0 /\ w.got = 0 => [w EXCEPT !.out = @ + 1] = [out |-> 1, got |-> 0]
         /\ w.out = 1 /\ w.got = 0 =>
              /\ [w EXCEPT !.out = @ - 1] = [out |-> 0, got |-> 0]
              /\ [w EXCEPT !.out = @ - 1, !.got = @ + 1] = [out |-> 0, got |-> 1]
<1>1. PICK o \in Nat, g \in Nat : w = [out |-> o, got |-> g]
  BY DEF Wire
<1>2. w.out = o /\ w.got = g
  BY <1>1
<1>3. ASSUME w.out = 0, w.got = 0 PROVE [w EXCEPT !.out = @ + 1] = [out |-> 1, got |-> 0]
  BY <1>1, <1>2, <1>3
<1>4. ASSUME w.out = 1, w.got = 0 PROVE [w EXCEPT !.out = @ - 1] = [out |-> 0, got |-> 0]
  BY <1>1, <1>2, <1>4
<1>5. ASSUME w.out = 1, w.got = 0
      PROVE  [w EXCEPT !.out = @ - 1, !.got = @ + 1] = [out |-> 0, got |-> 1]
  <2>1. PICK v : v = [w EXCEPT !.out = @ - 1]
    OBVIOUS
  <2>2. v = [out |-> 0, got |-> 0]
    BY <1>4, <1>5, <2>1
  <2>3. [w EXCEPT !.out = @ - 1, !.got = @ + 1] = [v EXCEPT !.got = w.got + 1]
    BY <2>1, Zenon
  <2>4. [v EXCEPT !.got = w.got + 1] = [out |-> 0, got |-> 1]
    BY <1>5, <2>2
  <2> QED
    BY <2>3, <2>4, Zenon
<1> QED
  BY <1>3, <1>4, <1>5

LEMMA Counted ==
  ASSUME NEW w \in Wire
  PROVE  /\ w.out \in Nat /\ w.got \in Nat
         /\ w.out + w.got = 0 => w.out = 0 /\ w.got = 0
         /\ w.out + w.got <= 1 /\ w.out > 0 => w.out = 1 /\ w.got = 0
         /\ w.out + w.got <= 1 /\ w.got > 0 => w.got = 1
  BY DEF Wire

LEMMA Boxes ==
  ASSUME NoticesIInv
  PROVE  /\ notice \in Seq(NoticeStatus) /\ wire \in Seq(Wire) /\ Len(wire) = Len(notice)
         /\ DOMAIN wire = DOMAIN notice
<1>1. notice \in Seq(NoticeStatus) /\ wire \in Seq(Wire) /\ Len(wire) = Len(notice)
  BY DEF NoticesIInv, NoticesTypeOK, Wire
<1> QED
  BY <1>1

LEMMA EntriesAre ==
  ASSUME NoticesIInv, NEW i \in DOMAIN notice
  PROVE  notice[i] \in NoticeStatus /\ wire[i] \in Wire /\ NoticeIsTrue(i)
<1>1. notice[i] \in NoticeStatus /\ wire[i] \in Wire
  BY Boxes, Element
<1>2. NoticeIsTrue(i)
  BY DEF NoticesIInv, NoticesAreTrue, NoticeIsTrue
<1> QED
  BY <1>1, <1>2

(* One notice gets another entry in the outbox and on the wire.            *)
EntryGoes(h, d, w) ==
  /\ h \in DOMAIN notice /\ d \in NoticeStatus /\ w \in Wire
  /\ notice' = [notice EXCEPT ![h] = d]
  /\ wire' = [wire EXCEPT ![h] = w]
  /\ pump' = [todo |-> pump'.todo, pc |-> pump'.pc]
  /\ \A i \in DOMAIN notice \ {h} : notice[i] # "sending"
  /\ w.out + w.got <= 1
  /\ d = "sent" => w.got = 1
  /\ d \in {"none", "pending", "suppressed", "failed"} => w.out + w.got = 0
  /\ d = "sending" => pump'.pc = "sending" /\ Head(pump'.todo) = h

LEMMA EntryChanges ==
  ASSUME NoticesIInv, NEW h, NEW d, NEW w, EntryGoes(h, d, w) PROVE NoticesIInv'
<1> USE DEF EntryGoes
<1>1. /\ notice \in Seq(NoticeStatus) /\ wire \in Seq(Wire) /\ DOMAIN wire = DOMAIN notice
      /\ Len(wire) = Len(notice)
  BY DEF NoticesIInv, NoticesTypeOK, Wire
<1>2. /\ notice' \in Seq(NoticeStatus) /\ Len(notice') = Len(notice)
      /\ \A i \in DOMAIN notice : notice'[i] = IF i = h THEN d ELSE notice[i]
  BY <1>1, Put
<1>3. /\ wire' \in Seq(Wire) /\ Len(wire') = Len(wire)
      /\ \A i \in DOMAIN wire : wire'[i] = IF i = h THEN w ELSE wire[i]
  BY <1>1, Put
<1>4. DOMAIN notice' = DOMAIN notice
  OBVIOUS
<1>5. ASSUME NEW i \in DOMAIN notice PROVE NoticeIsTrue(i)'
  <2>1. CASE i = h
    BY <1>1, <1>2, <1>3, <2>1 DEF NoticeIsTrue
  <2>2. CASE i # h
    <3>1. notice'[i] = notice[i] /\ wire'[i] = wire[i] /\ notice[i] # "sending"
      BY <1>1, <1>2, <1>3, <2>2
    <3> QED
      BY <3>1 DEF NoticesIInv, NoticesAreTrue, NoticeIsTrue
  <2> QED
    BY <2>1, <2>2
<1>6. NoticesTypeOK'
  BY <1>1, <1>2, <1>3 DEF NoticesTypeOK, Wire
<1> QED
  BY <1>4, <1>5, <1>6 DEF NoticesIInv, NoticesAreTrue, NoticeIsTrue

(* The pump goes on while nothing is under way.                            *)
LEMMA PumpChanges ==
  ASSUME NoticesIInv, notice' = notice, wire' = wire,
         pump' = [todo |-> pump'.todo, pc |-> pump'.pc],
         \A i \in DOMAIN notice : notice[i] # "sending"
  PROVE  NoticesIInv'
  BY DEF NoticesIInv, NoticesTypeOK, NoticesAreTrue

LEMMA FollowingIs ==
  Following(pump) = [todo |-> Following(pump).todo, pc |-> Following(pump).pc]
  BY DEF Following, NoPump

(* Claiming hands a pending notice, which was never on the wire, to the    *)
(* transport once.                                                         *)
LEMMA ClaimKeeps == ASSUME NoticesIInv, ClaimNotice PROVE NoticesIInv'
<1>1. PICK h : h = Head(pump.todo)
  OBVIOUS
<1>2. pump.pc = "claim" /\ pump = [todo |-> pump.todo, pc |-> pump.pc]
  BY DEF ClaimNotice, NoticesIInv, NoticesTypeOK
<1>3. \A i \in DOMAIN notice : notice[i] # "sending"
  BY <1>2 DEF NoticesIInv, NoticesAreTrue
<1>4. /\ notice \in Seq(NoticeStatus) /\ wire \in Seq(Wire) /\ DOMAIN wire = DOMAIN notice
  BY DEF NoticesIInv, NoticesTypeOK, Wire
<1>5. ASSUME notice[h] = "pending", notice' = [notice EXCEPT ![h] = "sending"],
             wire' = [wire EXCEPT ![h].out = @ + 1], pump' = [pump EXCEPT !.pc = "sending"]
      PROVE  NoticesIInv'
  <2>1. pump' = [todo |-> pump.todo, pc |-> "sending"]
    BY <1>2, <1>5
  <2>2. CASE h \in DOMAIN notice
    <3> DEFINE w == [out |-> 1, got |-> 0]
               put == [wire[h] EXCEPT !.out = @ + 1]
    <3>1. wire[h].out = 0 /\ wire[h].got = 0 /\ wire[h] \in Wire
      BY <1>5, <2>2, EntriesAre, Counted DEF NoticeIsTrue
    <3>2. put = w
      BY <3>1, WireMoves, Zenon
    <3>3. wire' = [wire EXCEPT ![h] = put]
      BY <1>5
    <3>4. w \in Wire /\ w.out + w.got = 1
      BY DEF Wire
    <3>5. "sending" \in NoticeStatus
      BY DEF NoticeStatus
    <3>6. pump'.pc = "sending" /\ Head(pump'.todo) = h /\ pump' = [todo |-> pump'.todo, pc |-> pump'.pc]
      BY <1>1, <2>1
    <3> HIDE DEF w, put
    <3>7. wire' = [wire EXCEPT ![h] = w]
      BY <3>2, <3>3
    <3>8. w.out + w.got <= 1 /\ w.out + w.got # 0
      BY <3>4
    <3>9. notice' = [notice EXCEPT ![h] = "sending"]
      BY <1>5
    <3>10. \A i \in DOMAIN notice \ {h} : notice[i] # "sending"
      BY <1>3
    <3>11. EntryGoes(h, "sending", w)
      BY <2>2, <3>4, <3>5, <3>6, <3>7, <3>8, <3>9, <3>10, Zenon DEF EntryGoes
    <3> QED
      BY <3>11, EntryChanges
  <2>3. CASE h \notin DOMAIN notice
    <3>1. notice' = notice
      BY <1>4, <1>5, <2>3, NoPut
    <3>2. wire' = wire
      BY <1>4, <1>5, <2>3, NoPut
    <3> QED
      BY <1>3, <2>1, <3>1, <3>2, PumpChanges
  <2> QED
    BY <2>2, <2>3
<1>6. ASSUME notice[h] = "pending", notice' = [notice EXCEPT ![h] = "suppressed"],
             wire' = wire, pump' = Following(pump)
      PROVE  NoticesIInv'
  <2>1. CASE h \in DOMAIN notice
    <3>1. wire[h].out + wire[h].got = 0 /\ wire[h] \in Wire
      BY <1>6, <2>1, EntriesAre DEF NoticeIsTrue
    <3>2. wire' = [wire EXCEPT ![h] = wire[h]]
      BY <1>4, <1>6
    <3>3. "suppressed" \in NoticeStatus
      BY DEF NoticeStatus
    <3>4. pump' = [todo |-> pump'.todo, pc |-> pump'.pc]
      BY <1>6, FollowingIs
    <3>5. wire[h].out + wire[h].got <= 1
      BY <3>1
    <3>6. EntryGoes(h, "suppressed", wire[h])
      BY <1>3, <1>6, <2>1, <3>1, <3>2, <3>3, <3>4, <3>5 DEF EntryGoes
    <3> QED
      BY <3>6, EntryChanges
  <2>2. CASE h \notin DOMAIN notice
    <3>1. notice' = notice
      BY <1>4, <1>6, <2>2, NoPut
    <3> QED
      BY <1>3, <1>6, <3>1, FollowingIs, PumpChanges
  <2> QED
    BY <2>1, <2>2
<1>7. ASSUME notice' = notice, wire' = wire, pump' = Following(pump) PROVE NoticesIInv'
  BY <1>3, <1>7, FollowingIs, PumpChanges
<1> QED
  BY <1>1, <1>5, <1>6, <1>7 DEF ClaimNotice

(* What comes back of a send is recorded only as far as it is known: sent  *)
(* when it arrived, failed when it never will.                             *)
LEMMA ReturnKeeps == ASSUME NoticesIInv, NoticeReturns PROVE NoticesIInv'
<1>1. PICK h : h = Head(pump.todo)
  OBVIOUS
<1>2. \A i \in DOMAIN notice \ {h} : notice[i] # "sending"
  BY <1>1 DEF NoticesIInv, NoticesAreTrue
<1>3. PICK d \in {"sent", "failed", "unknown"} :
        /\ d = "sent" => wire[h].got > 0
        /\ d = "failed" => wire[h].out > 0
        /\ notice' = [notice EXCEPT ![h] = d]
        /\ wire' = IF d = "failed" THEN [wire EXCEPT ![h].out = @ - 1] ELSE wire
        /\ pump' = Following(pump)
  BY <1>1 DEF NoticeReturns
<1>4. d \in NoticeStatus
  BY DEF NoticeStatus
<1>5. /\ notice \in Seq(NoticeStatus) /\ wire \in Seq(Wire) /\ DOMAIN wire = DOMAIN notice
  BY DEF NoticesIInv, NoticesTypeOK, Wire
<1>6. CASE h \in DOMAIN notice
  <2>1. wire[h].out + wire[h].got <= 1 /\ wire[h] \in Wire
    BY <1>6, EntriesAre DEF NoticeIsTrue
  <2>2. pump' = [todo |-> pump'.todo, pc |-> pump'.pc]
    BY <1>3, FollowingIs
  <2>3. CASE d = "failed"
    <3> DEFINE w == [out |-> 0, got |-> 0]
               lost == [wire[h] EXCEPT !.out = @ - 1]
    <3>1. wire[h].out = 1 /\ wire[h].got = 0
      BY <1>3, <2>1, <2>3, Counted
    <3>2. lost = w
      BY <2>1, <3>1, WireMoves, Zenon
    <3>3. wire' = [wire EXCEPT ![h] = lost]
      BY <1>3, <2>3
    <3>4. w \in Wire /\ w.out + w.got = 0
      BY DEF Wire
    <3> HIDE DEF w, lost
    <3>5. notice' = [notice EXCEPT ![h] = d]
      BY <1>3
    <3>6. wire' = [wire EXCEPT ![h] = w]
      BY <3>2, <3>3
    <3>7. EntryGoes(h, d, w)
      BY <1>2, <1>4, <1>6, <2>2, <2>3, <3>4, <3>5, <3>6 DEF EntryGoes
    <3> QED
      BY <3>7, EntryChanges
  <2>4. CASE d # "failed"
    <3>1. wire' = [wire EXCEPT ![h] = wire[h]]
      BY <1>3, <1>5, <2>4
    <3>2. d = "sent" => wire[h].got = 1
      BY <1>3, <2>1, Counted
    <3>3. notice' = [notice EXCEPT ![h] = d] /\ d \in {"sent", "unknown"}
      BY <1>3, <2>4
    <3>4. EntryGoes(h, d, wire[h])
      BY <1>2, <1>4, <1>6, <2>1, <2>2, <3>1, <3>2, <3>3 DEF EntryGoes
    <3> QED
      BY <3>4, EntryChanges
  <2> QED
    BY <2>3, <2>4
<1>7. CASE h \notin DOMAIN notice
  <2>1. notice' = notice
    BY <1>3, <1>5, <1>7, NoPut
  <2>2. wire' = wire
    BY <1>3, <1>5, <1>7, NoPut
  <2> QED
    BY <1>2, <1>3, <1>7, <2>1, <2>2, FollowingIs, PumpChanges
<1> QED
  BY <1>6, <1>7

LEMMA ArrivalKeeps ==
  ASSUME NoticesIInv, NEW i \in DOMAIN wire, NoticeArrives(i) PROVE NoticesIInv'
<1> DEFINE w == [out |-> 0, got |-> 1]
           come == [wire[i] EXCEPT !.out = @ - 1, !.got = @ + 1]
<1>1. i \in DOMAIN notice /\ wire[i].out > 0 /\ NoticeIsTrue(i) /\ wire[i] \in Wire
  BY Boxes, EntriesAre DEF NoticeArrives
<1>2. wire[i].out = 1 /\ wire[i].got = 0
  BY <1>1, Counted DEF NoticeIsTrue
<1>3. come = w
  BY <1>1, <1>2, WireMoves, Zenon
<1>4. wire' = [wire EXCEPT ![i] = come]
  BY DEF NoticeArrives
<1>5. w \in Wire /\ w.out + w.got = 1 /\ w.got = 1
  BY DEF Wire
<1> HIDE DEF w, come
<1>6. notice' = notice /\ pump' = pump
  BY DEF NoticeArrives
<1>7. /\ wire \in Seq(Wire) /\ DOMAIN wire = DOMAIN notice /\ Len(wire) = Len(notice)
      /\ notice \in Seq(NoticeStatus)
  BY Boxes
<1>8. /\ wire' \in Seq(Wire) /\ Len(wire') = Len(wire)
      /\ \A j \in DOMAIN wire : wire'[j] = IF j = i THEN w ELSE wire[j]
  BY <1>3, <1>4, <1>5, <1>7, Put
<1>9. NoticesTypeOK'
  BY <1>6, <1>7, <1>8 DEF NoticesIInv, NoticesTypeOK, Wire
<1>10. ASSUME NEW j \in DOMAIN notice PROVE NoticeIsTrue(j)'
  <2>1. NoticeIsTrue(j)
    BY EntriesAre
  <2>2. CASE j = i
    BY <1>1, <1>2, <1>5, <1>6, <1>7, <1>8, <2>1, <2>2 DEF NoticeIsTrue
  <2>3. CASE j # i
    BY <1>6, <1>7, <1>8, <2>1, <2>3 DEF NoticeIsTrue
  <2> QED
    BY <2>2, <2>3
<1> QED
  BY <1>6, <1>9, <1>10 DEF NoticesIInv, NoticesAreTrue, NoticeIsTrue

LEMMA NoticesKept == NoticesIInv /\ [TaskNoticesNext]_noticeVars => NoticesIInv'
<1> SUFFICES ASSUME NoticesIInv, [TaskNoticesNext]_noticeVars PROVE NoticesIInv'
  OBVIOUS
<1>1. ASSUME UNCHANGED <<notice, wire, pump>> PROVE NoticesIInv'
  BY <1>1 DEF NoticesIInv, NoticesTypeOK, NoticesAreTrue
<1>2. TaskMoves => UNCHANGED <<notice, wire, pump>> \/ \E what, status : AppendEvent(what, status)
  BY DEF TaskMoves
<1>3. CASE ListUndelivered
  <2>1. /\ notice' = notice /\ wire' = wire /\ pump.pc = "idle"
        /\ pump' = [todo |-> pump'.todo, pc |-> "claim"] /\ pump'.pc = "claim"
    BY <1>3 DEF ListUndelivered
  <2> QED
    BY <2>1 DEF NoticesIInv, NoticesTypeOK, NoticesAreTrue
<1>4. CASE RecoverNotices
  <2>1. /\ notice' = [i \in DOMAIN notice |-> OutcomeAfterRestart(notice[i])]
        /\ wire' = wire /\ pump' = [todo |-> <<>>, pc |-> "idle"]
    BY <1>4 DEF RecoverNotices, NoPump
  <2>2. NoticesTypeOK'
    BY <2>1 DEF NoticesIInv, NoticesTypeOK, NoticeStatus, OutcomeAfterRestart
  <2> QED
    BY <2>1, <2>2 DEF NoticesIInv, NoticesAreTrue, OutcomeAfterRestart
<1>5. AudienceChanges \/ UNCHANGED noticeVars => UNCHANGED <<notice, wire, pump>>
  BY DEF AudienceChanges, noticeVars
<1> QED
  BY <1>1, <1>2, <1>3, <1>4, <1>5, EventsKeep, ClaimKeeps, ReturnKeeps, ArrivalKeeps
     DEF TaskNoticesNext

(* A notice reaches its reader once at most, and what the outbox says of   *)
(* it is so, whatever is lost, denied or restarted.                        *)
THEOREM NoticesTrue == TaskNoticesSpec => []NoticesAreTrue
<1>1. NoticesIInv => NoticesAreTrue
  BY DEF NoticesIInv
<1> QED
  BY <1>1, NoticesInit, NoticesKept, PTL DEF TaskNoticesSpec

(***************************************************************************)
(* The timer.                                                              *)
(***************************************************************************)
DeliveryStatus == {"none", "pending", "acknowledged"}
ScheduleStatus == {"none", "active", "cancelled", "completed"}
ScheduleRow    == [st : ScheduleStatus, due : Nat, count : Nat, gen : Nat]
SeenRow        == [st : ScheduleStatus, due : Nat, gen : Nat]
AdvancePlaces  == {"idle", "load", "fire", "list", "deliver", "ack"}
AdvanceRow     == [pc : AdvancePlaces, now : Nat, seen : SeenRow, todo : SUBSET Occurrences,
                   retry : BOOLEAN]

First(a)      == CHOOSE o \in a.todo : \A q \in a.todo : o <= q
WakeNeeded(o) == o \notin woken /\ target # "closed"

(* What an execution was told to fire was due when it looked; and what is  *)
(* or will be acknowledged had its wake.                                   *)
TimerTypes ==
  /\ clock \in Nat /\ schedule \in ScheduleRow /\ target \in {"open", "closed"}
  /\ delivery \in [Occurrences -> DeliveryStatus] /\ advance \in [Advances -> AdvanceRow]
AdvanceOK(p) ==
  /\ advance[p].now <= clock
  /\ advance[p].pc = "ack" => ~WakeNeeded(First(advance[p]))
Acknowledged == \A o \in Occurrences : delivery[o] = "acknowledged" => ~WakeNeeded(o)
TimerIInv == TimerTypes /\ Acknowledged /\ \A p \in Advances : AdvanceOK(p)

LEMMA Resting == NoAdvance \in AdvanceRow /\ NoAdvance.now = 0 /\ NoAdvance.pc = "idle"
<1>1. [st |-> "none", due |-> 0, gen |-> 0] \in SeenRow
  BY DEF SeenRow, ScheduleStatus
<1> QED
  BY <1>1 DEF NoAdvance, AdvanceRow, AdvancePlaces

LEMMA TimerBegins == ContinuationsInit => TimerIInv
<1> SUFFICES ASSUME ContinuationsInit PROVE TimerIInv
  OBVIOUS
<1>1. advance \in [Advances -> AdvanceRow] /\ \A p \in Advances : AdvanceOK(p)
  BY Resting DEF ContinuationsInit, AdvanceOK
<1>2. schedule \in ScheduleRow
  BY DEF ContinuationsInit, ScheduleRow, ScheduleStatus
<1> QED
  BY <1>1, <1>2 DEF ContinuationsInit, TimerIInv, TimerTypes, Acknowledged, DeliveryStatus

(* One execution goes on; time may pass, and wakes are never taken back.   *)
LEMMA OneAdvances ==
  ASSUME TimerIInv, NEW p \in Advances, NEW a \in AdvanceRow,
         advance' = [advance EXCEPT ![p] = a], a.now <= clock, UNCHANGED <<clock, target>>,
         schedule' \in ScheduleRow, delivery' \in [Occurrences -> DeliveryStatus],
         woken \subseteq woken', a.pc = "ack" => ~WakeNeeded(First(a))',
         \A o \in Occurrences : delivery'[o] = "acknowledged" => ~WakeNeeded(o)
  PROVE  TimerIInv'
<1>1. /\ advance' \in [Advances -> AdvanceRow] /\ advance'[p] = a
      /\ \A q \in Advances : q # p => advance'[q] = advance[q]
  BY DEF TimerIInv, TimerTypes
<1>2. TimerTypes'
  BY <1>1 DEF TimerIInv, TimerTypes
<1>3. \A o : ~WakeNeeded(o) => ~WakeNeeded(o)'
  BY DEF WakeNeeded
<1>4. AdvanceOK(p)'
  BY <1>1 DEF AdvanceOK
<1>5. ASSUME NEW q \in Advances, q # p PROVE AdvanceOK(q)'
  <2>1. AdvanceOK(q) /\ advance'[q] = advance[q] /\ First(advance[q])' = First(advance[q])
    BY <1>1, <1>5 DEF TimerIInv, First
  <2> QED
    BY <1>3, <2>1 DEF AdvanceOK
<1> QED
  BY <1>2, <1>3, <1>4, <1>5 DEF TimerIInv, Acknowledged

(* The schedule, the clock or the Task moves, and no execution.            *)
LEMMA TimeMoves ==
  ASSUME TimerIInv, UNCHANGED <<delivery, woken, advance>>, schedule' \in ScheduleRow,
         clock' \in Nat, clock <= clock', target' \in {"open", "closed"},
         target = "closed" => target' = "closed"
  PROVE  TimerIInv'
<1>1. \A o : ~WakeNeeded(o) => ~WakeNeeded(o)'
  BY DEF WakeNeeded
<1>2. TimerTypes'
  BY DEF TimerIInv, TimerTypes
<1>3. ASSUME NEW q \in Advances PROVE AdvanceOK(q)'
  <2>1. AdvanceOK(q) /\ First(advance[q])' = First(advance[q]) /\ clock \in Nat
        /\ advance[q].now \in Nat
    BY DEF TimerIInv, TimerTypes, First, AdvanceRow
  <2> QED
    BY <1>1, <2>1 DEF AdvanceOK
<1> QED
  BY <1>1, <1>2, <1>3 DEF TimerIInv, Acknowledged

(* An execution that acknowledges nothing and is not about to.             *)
LEMMA Works ==
  ASSUME TimerIInv, NEW p \in Advances, NEW a \in AdvanceRow,
         advance' = [advance EXCEPT ![p] = a], a.now <= clock, a.pc # "ack",
         UNCHANGED <<clock, schedule, delivery, woken, target>>
  PROVE  TimerIInv'
  BY OneAdvances DEF TimerIInv, TimerTypes, Acknowledged

LEMMA FireKeeps ==
  ASSUME TimerIInv, NEW p \in Advances, FireDue(p) PROVE TimerIInv'
<1>1. /\ schedule \in ScheduleRow /\ delivery \in [Occurrences -> DeliveryStatus]
      /\ advance[p] \in AdvanceRow /\ clock \in Nat
  BY DEF TimerIInv, TimerTypes
<1>2. PICK o \in Nat : o = schedule.count + 1
  BY <1>1 DEF ScheduleRow
<1> PICK on \in BOOLEAN : on = (o < MaxOccurrences /\ schedule.due + 1 <= End)
  OBVIOUS
<1> PICK st \in ScheduleStatus, due \in Nat :
      st = (IF on THEN schedule.st ELSE "completed") /\ due = (IF on THEN schedule.due + 1 ELSE schedule.due)
  BY <1>1 DEF ScheduleRow, ScheduleStatus
<1>3. \/ UNCHANGED <<schedule, delivery>>
      \/ /\ schedule' = [schedule EXCEPT !.count = o, !.st = st, !.due = due]
         /\ delivery' = [delivery EXCEPT ![o] = "pending"]
  <2>1. \/ UNCHANGED <<schedule, delivery>>
        \/ /\ schedule' = [schedule EXCEPT !.count = o, !.st = IF on THEN @ ELSE "completed",
                                           !.due = IF on THEN @ + 1 ELSE @]
           /\ delivery' = [delivery EXCEPT ![o] = "pending"]
    BY <1>2 DEF FireDue
  <2>2. [schedule EXCEPT !.count = o, !.st = IF on THEN @ ELSE "completed",
                         !.due = IF on THEN @ + 1 ELSE @]
        = [schedule EXCEPT !.count = o, !.st = st, !.due = due]
    BY <1>1 DEF ScheduleRow
  <2> QED
    BY <2>1, <2>2
<1>4. schedule' \in ScheduleRow
  BY <1>1, <1>3 DEF ScheduleRow
<1>5. /\ delivery' \in [Occurrences -> DeliveryStatus]
      /\ \A i \in Occurrences : delivery'[i] = "acknowledged" => delivery[i] = "acknowledged"
  BY <1>1, <1>3 DEF DeliveryStatus
<1>6. schedule'.st \in ScheduleStatus /\ schedule'.due \in Nat
  BY <1>4 DEF ScheduleRow
<1>7. PICK seen : seen = [advance[p].seen EXCEPT !.st = schedule'.st, !.due = schedule'.due, !.gen = 0]
  OBVIOUS
<1>8. advance[p].seen \in SeenRow
  BY <1>1 DEF AdvanceRow
<1>9. seen \in SeenRow
  BY <1>6, <1>7, <1>8 DEF SeenRow
<1>10. PICK a : a = [advance[p] EXCEPT !.pc = "list", !.now = 0, !.seen = seen]
  OBVIOUS
<1>11. a \in AdvanceRow /\ a.now <= clock /\ a.pc # "ack"
  <2>1. a \in AdvanceRow
    BY <1>1, <1>9, <1>10 DEF AdvanceRow, AdvancePlaces
  <2>2. a.now = 0 /\ a.pc = "list"
    BY <1>1, <1>10 DEF AdvanceRow
  <2> QED
    BY <1>1, <2>1, <2>2
<1>12. advance' = [advance EXCEPT ![p] = a]
  BY <1>7, <1>10 DEF FireDue, Local
<1>13. UNCHANGED <<clock, target, woken>>
  BY DEF FireDue
<1> QED
  BY <1>4, <1>5, <1>11, <1>12, <1>13, OneAdvances DEF TimerIInv, Acknowledged

LEMMA LoadKeeps ==
  ASSUME TimerIInv, NEW p \in Advances, LoadSchedule(p) PROVE TimerIInv'
<1>1. schedule \in ScheduleRow /\ advance[p] \in AdvanceRow /\ clock \in Nat
  BY DEF TimerIInv, TimerTypes
<1>2. advance[p].now <= clock
  BY DEF TimerIInv, AdvanceOK
<1>3. Seen \in SeenRow /\ [Seen EXCEPT !.gen = 0] \in SeenRow
  BY <1>1 DEF Seen, SeenRow, ScheduleRow
<1>4. UNCHANGED <<clock, schedule, delivery, woken, target>>
  BY DEF LoadSchedule
<1>5. CASE Local(p, [advance[p] EXCEPT !.pc = "fire", !.now = clock, !.seen = Seen])
  <2>1. PICK a : a = [advance[p] EXCEPT !.pc = "fire", !.now = clock, !.seen = Seen]
    OBVIOUS
  <2>2. a \in AdvanceRow
    BY <1>1, <1>3, <2>1 DEF AdvanceRow, AdvancePlaces
  <2>3. a.now = clock /\ a.pc = "fire"
    BY <1>1, <2>1 DEF AdvanceRow
  <2>4. a.now <= clock /\ a.pc # "ack"
    BY <1>1, <2>3
  <2> QED
    BY <1>4, <1>5, <2>1, <2>2, <2>4, Works DEF Local
<1>6. CASE Local(p, [advance[p] EXCEPT !.pc = "list", !.seen = [Seen EXCEPT !.gen = 0]])
  <2>1. PICK a : a = [advance[p] EXCEPT !.pc = "list", !.seen = [Seen EXCEPT !.gen = 0]]
    OBVIOUS
  <2>2. a \in AdvanceRow
    BY <1>1, <1>3, <2>1 DEF AdvanceRow, AdvancePlaces
  <2>3. a.now = advance[p].now /\ a.pc = "list"
    BY <1>1, <2>1 DEF AdvanceRow
  <2> QED
    BY <1>2, <1>4, <1>6, <2>1, <2>2, <2>3, Works DEF Local
<1> QED
  BY <1>5, <1>6 DEF LoadSchedule

LEMMA WakeKeeps ==
  ASSUME TimerIInv, NEW p \in Advances, WakeTask(p) PROVE TimerIInv'
<1>1. /\ advance[p] \in AdvanceRow /\ clock \in Nat /\ target \in {"open", "closed"}
      /\ schedule \in ScheduleRow /\ delivery \in [Occurrences -> DeliveryStatus]
  BY DEF TimerIInv, TimerTypes
<1>2. advance[p].now <= clock
  BY DEF TimerIInv, AdvanceOK
<1>3. UNCHANGED <<clock, schedule, target, delivery>> /\ advance[p].pc = "deliver"
  BY DEF WakeTask
<1> PICK o : o = First(advance[p])
  OBVIOUS
<1>4. CASE /\ woken' = IF target = "open" THEN woken \cup {o} ELSE woken
           /\ Local(p, [advance[p] EXCEPT !.pc = "ack"])
  <2>1. PICK a : a = [advance[p] EXCEPT !.pc = "ack"]
    OBVIOUS
  <2>2. a \in AdvanceRow /\ a.now = advance[p].now /\ a.todo = advance[p].todo
    BY <1>1, <2>1 DEF AdvanceRow, AdvancePlaces
  <2>3. ~WakeNeeded(o)' /\ woken \subseteq woken'
    BY <1>1, <1>3, <1>4 DEF WakeNeeded
  <2>4. First(a) = o
    BY <2>2 DEF First
  <2>5. \A i \in Occurrences : delivery'[i] = "acknowledged" => ~WakeNeeded(i)
    BY <1>3 DEF TimerIInv, Acknowledged
  <2> QED
    BY <1>1, <1>2, <1>3, <1>4, <2>1, <2>2, <2>3, <2>4, <2>5, OneAdvances DEF Local
<1>5. CASE /\ UNCHANGED woken
           /\ Local(p, [advance[p] EXCEPT !.retry = TRUE,
                          !.todo = @ \ {CHOOSE i \in @ : \A q \in @ : i <= q}])
  <2>1. PICK rest : rest = advance[p].todo \ {First(advance[p])}
    OBVIOUS
  <2>2. rest \in SUBSET Occurrences
    BY <1>1, <2>1 DEF AdvanceRow
  <2>3. PICK a : a = [advance[p] EXCEPT !.retry = TRUE, !.todo = rest]
    OBVIOUS
  <2>4. a \in AdvanceRow /\ a.now = advance[p].now /\ a.pc = advance[p].pc
    BY <1>1, <2>2, <2>3 DEF AdvanceRow
  <2>5. advance' = [advance EXCEPT ![p] = a]
    <3>1. [advance[p] EXCEPT !.retry = TRUE, !.todo = @ \ {CHOOSE i \in @ : \A q \in @ : i <= q}] = a
      BY <1>1, <2>1, <2>3 DEF AdvanceRow, First
    <3> QED
      BY <1>5, <3>1 DEF Local
  <2> QED
    BY <1>2, <1>3, <1>5, <2>4, <2>5, Works
<1> QED
  BY <1>4, <1>5 DEF WakeTask, First

LEMMA AcknowledgeKeeps ==
  ASSUME TimerIInv, NEW p \in Advances, Acknowledge(p) PROVE TimerIInv'
<1>1. /\ advance[p] \in AdvanceRow /\ clock \in Nat
      /\ schedule \in ScheduleRow /\ delivery \in [Occurrences -> DeliveryStatus]
  BY DEF TimerIInv, TimerTypes
<1> PICK o : o = First(advance[p])
  OBVIOUS
<1>2. /\ advance[p].pc = "ack" /\ UNCHANGED <<clock, schedule, woken, target>>
      /\ delivery' = IF delivery[o] = "pending"
                     THEN [delivery EXCEPT ![o] = "acknowledged"] ELSE delivery
      /\ Local(p, [advance[p] EXCEPT !.pc = "deliver", !.todo = @ \ {o}])
  BY DEF Acknowledge, First
<1>3. advance[p].now <= clock /\ ~WakeNeeded(o)
  BY <1>2 DEF TimerIInv, AdvanceOK
<1>4. PICK a : a = [advance[p] EXCEPT !.pc = "deliver", !.todo = @ \ {o}]
  OBVIOUS
<1>5. a \in AdvanceRow /\ a.now = advance[p].now /\ a.pc = "deliver"
  BY <1>1, <1>4 DEF AdvanceRow, AdvancePlaces
<1>6. /\ delivery' \in [Occurrences -> DeliveryStatus]
      /\ \A i \in Occurrences : delivery'[i] = "acknowledged" => delivery[i] = "acknowledged" \/ i = o
  BY <1>1, <1>2 DEF DeliveryStatus
<1>7. \A i \in Occurrences : delivery'[i] = "acknowledged" => ~WakeNeeded(i)
  BY <1>3, <1>6 DEF TimerIInv, Acknowledged
<1> QED
  BY <1>1, <1>2, <1>3, <1>4, <1>5, <1>6, <1>7, OneAdvances DEF Local

LEMMA TimerKept == TimerIInv /\ [ContinuationsNext]_timerVars => TimerIInv'
<1> SUFFICES ASSUME TimerIInv, [ContinuationsNext]_timerVars PROVE TimerIInv'
  OBVIOUS
<1>1. /\ clock \in Nat /\ schedule \in ScheduleRow /\ target \in {"open", "closed"}
      /\ advance \in [Advances -> AdvanceRow]
  BY DEF TimerIInv, TimerTypes
<1>2. ASSUME UNCHANGED <<clock, schedule, delivery, woken, target, advance>> PROVE TimerIInv'
  BY <1>1, <1>2, TimeMoves
<1>3. CASE ScheduleTask
  <2>1. PICK due \in clock..End : schedule' = [st |-> "active", due |-> due, count |-> 0, gen |-> 1]
    BY <1>3 DEF ScheduleTask
  <2>2. schedule' \in ScheduleRow
    BY <1>1, <2>1, ContinuationsAssumption DEF ScheduleRow, ScheduleStatus
  <2> QED
    BY <1>1, <1>3, <2>2, TimeMoves DEF ScheduleTask
<1>4. ASSUME NEW st \in ScheduleStatus, NEW due \in Nat, Mutate(st, due) PROVE TimerIInv'
  <2> PICK gen \in Nat : gen = schedule.gen + 1
    BY <1>1 DEF ScheduleRow
  <2>1. schedule' = [schedule EXCEPT !.st = st, !.due = due, !.gen = gen]
    BY <1>1, <1>4 DEF Mutate, ScheduleRow
  <2>2. schedule' \in ScheduleRow
    BY <1>1, <2>1 DEF ScheduleRow
  <2> QED
    BY <1>1, <1>4, <2>2, TimeMoves DEF Mutate
<1>5. RescheduleTask \/ CancelFutureTask
      => \E st \in ScheduleStatus, due \in Nat : Mutate(st, due)
  BY <1>1, ContinuationsAssumption DEF RescheduleTask, CancelFutureTask, ScheduleRow, ScheduleStatus
<1>6. CASE CallRuntime \/ ServerRestartRecovers
  BY <1>2, <1>6 DEF CallRuntime, ServerRestartRecovers
<1>7. CASE Tick \/ TaskCloses
  <2>1. /\ clock' \in Nat /\ clock <= clock' /\ UNCHANGED <<schedule, delivery, woken, advance>>
        /\ target' \in {"open", "closed"} /\ (target = "closed" => target' = "closed")
    BY <1>1, <1>7 DEF Tick, TaskCloses
  <2> QED
    BY <1>1, <2>1, TimeMoves
<1>8. ASSUME NEW p \in Advances, RunActivity(p) \/ ActivityTimesOut(p) \/ ActivityStep(p)
      PROVE  TimerIInv'
  <2>1. advance[p] \in AdvanceRow /\ advance[p].now <= clock
    BY <1>1 DEF TimerIInv, AdvanceOK
  <2>2. CASE RunActivity(p)
    <3>1. PICK a : a = [NoAdvance EXCEPT !.pc = "load"]
      OBVIOUS
    <3>2. a \in AdvanceRow /\ a.now = 0 /\ a.pc # "ack"
      BY <3>1, Resting DEF AdvanceRow, AdvancePlaces
    <3>3. a.now <= clock
      BY <1>1, <3>2
    <3> QED
      BY <2>2, <3>1, <3>2, <3>3, Works DEF RunActivity
  <2>3. NoAdvance.now <= clock /\ NoAdvance.pc # "ack" /\ NoAdvance \in AdvanceRow
    BY <1>1, Resting
  <2>4. CASE ActivityTimesOut(p)
    <3>1. \/ UNCHANGED <<clock, schedule, delivery, woken, target, advance>>
          \/ /\ UNCHANGED <<clock, schedule, delivery, woken, target>>
             /\ advance' = [advance EXCEPT ![p] = NoAdvance]
      BY <2>4 DEF ActivityTimesOut
    <3> QED
      BY <1>2, <2>3, <3>1, Works
  <2>5. CASE ListPending(p)
    <3>1. PICK a : a = [advance[p] EXCEPT !.pc = "deliver", !.todo = Open]
      OBVIOUS
    <3>2. Open \in SUBSET Occurrences
      BY DEF Open
    <3>3. a \in AdvanceRow /\ a.now = advance[p].now /\ a.pc = "deliver"
      BY <2>1, <3>1, <3>2 DEF AdvanceRow, AdvancePlaces
    <3> QED
      BY <2>1, <2>5, <3>1, <3>3, Works DEF ListPending, Local
  <2>6. CASE ActivityReturns(p)
    BY <2>3, <2>6, Works DEF ActivityReturns, Local
  <2> QED
    BY <1>8, <2>2, <2>4, <2>5, <2>6, LoadKeeps, FireKeeps, WakeKeeps, AcknowledgeKeeps
       DEF ActivityStep
<1>9. CASE UNCHANGED timerVars
  BY <1>2, <1>9 DEF timerVars
<1> QED
  BY <1>3, <1>4, <1>5, <1>6, <1>7, <1>8, <1>9 DEF ContinuationsNext

(* Every step of the timer is one that OccurrencesAreTrue allows.          *)
LEMMA TimerIsHonest ==
  ASSUME TimerIInv, TimerIInv', [ContinuationsNext]_timerVars
  PROVE  /\ schedule'.count > schedule.count => schedule.st = "active" /\ schedule.due <= clock
         /\ \A o \in Occurrences :
              delivery'[o] = "acknowledged" => o \in woken \/ target = "closed"
<1>1. schedule \in ScheduleRow /\ schedule.count \in Nat /\ clock \in Nat /\ schedule.due \in Nat
  BY DEF TimerIInv, TimerTypes, ScheduleRow
<1>2. ASSUME NEW p \in Advances, FireDue(p), schedule' # schedule
      PROVE  schedule.st = "active" /\ schedule.due <= clock
  <2>1. FiresFor(advance[p])
    BY <1>2 DEF FireDue
  <2>2. advance[p].now \in Nat /\ advance[p].now <= clock
    BY DEF TimerIInv, TimerTypes, AdvanceOK, AdvanceRow
  <2> QED
    BY <1>1, <2>1, <2>2 DEF FiresFor
<1>3. ASSUME ScheduleTask PROVE ~(schedule'.count > schedule.count)
  <2>1. schedule'.count = 0
    BY <1>3 DEF ScheduleTask
  <2> QED
    BY <1>1, <2>1
<1>4. ASSUME NEW st, NEW due, Mutate(st, due) PROVE ~(schedule'.count > schedule.count)
  <2>1. schedule'.count = schedule.count
    BY <1>1, <1>4 DEF Mutate, ScheduleRow
  <2> QED
    BY <1>1, <2>1
<1>5. \/ UNCHANGED schedule \/ ScheduleTask \/ (\E st, due : Mutate(st, due))
      \/ \E p \in Advances : FireDue(p)
  BY DEF ContinuationsNext, RescheduleTask, CancelFutureTask, CallRuntime, ServerRestartRecovers,
         Tick, TaskCloses, RunActivity, ActivityTimesOut, ActivityStep, LoadSchedule, ListPending,
         WakeTask, Acknowledge, ActivityReturns, timerVars
<1>6. schedule'.count > schedule.count => schedule.st = "active" /\ schedule.due <= clock
  BY <1>1, <1>2, <1>3, <1>4, <1>5
<1>7. UNCHANGED <<woken, target>> \/ UNCHANGED delivery
  BY DEF ContinuationsNext, ScheduleTask, RescheduleTask, CancelFutureTask, Mutate, CallRuntime,
         ServerRestartRecovers, Tick, TaskCloses, RunActivity, ActivityTimesOut, ActivityStep,
         LoadSchedule, FireDue, ListPending, WakeTask, Acknowledge, ActivityReturns, timerVars
<1> QED
  BY <1>6, <1>7 DEF TimerIInv, Acknowledged, WakeNeeded

(* No time is fired that has not come or is no longer the schedule's, and  *)
(* an occurrence is given up only when the Task was woken for it or is     *)
(* over, whatever executions of the Activity overlap and whatever fails.   *)
THEOREM OccurrencesTrue == ContinuationsSpec => OccurrencesAreTrue
<1>1. ContinuationsSpec => []TimerIInv
  BY TimerBegins, TimerKept, PTL DEF ContinuationsSpec
<1>2. TimerIInv /\ TimerIInv' /\ [ContinuationsNext]_timerVars
      => [ /\ schedule'.count > schedule.count => schedule.st = "active" /\ schedule.due <= clock
           /\ \A o \in Occurrences :
                delivery'[o] = "acknowledged" => o \in woken \/ target = "closed" ]_timerVars
  BY TimerIsHonest
<1> QED
  BY <1>1, <1>2, PTL DEF ContinuationsSpec, OccurrencesAreTrue

(***************************************************************************)
(* Child Tasks.                                                            *)
(***************************************************************************)
FamilyRow  == [mode : {"legacy", "durable"}, status : {"NEW", "REVIEW", "DONE", "CANCELED"},
               cancel : {"none", "requested", "settled"}]
StepStatus == {"none", "ready", "running", "blocked", "review", "succeeded", "failed", "cancelled"}
StepRow    == [status : StepStatus, version : Nat]
TryStatus  == {"none", "running", "review", "succeeded", "failed", "canceled"}
LinkRow    == [child : Tasks, cancel : {"cancel_child", "keep_child"}, failure : FailPolicies]
SightRow   == [does : {"nothing", "observe", "deny", "settle", "cancelDurable", "cancelLegacy"},
               version : Nat, child : Tasks \cup {NoTask}]

ChildTypes ==
  /\ family \in [Tasks -> FamilyRow] /\ childStep \in [Tasks -> StepRow]
  /\ tries \in [Tasks -> TryStatus] /\ links \in [Tasks -> Seq(LinkRow)]
  /\ sight \in [Tasks -> SightRow]

(* A Step is linked again only when its children are over, so all but the  *)
(* latest are; and what the Activity read of a Step that has not moved     *)
(* since is of that child.                                                 *)
Rests(t) ==
  \/ family[Newest(t).child].status = "DONE"
  \/ family[Newest(t).child].status = "CANCELED" /\ Newest(t).failure = "review_parent"
Stopped(t) == Newest(t).cancel = "keep_child" \/ TaskEnded(Newest(t).child)
LinksOK(t) ==
  /\ family[t].mode = "legacy" => links[t] = <<>> /\ childStep[t] = [status |-> "none", version |-> 0]
  /\ childStep[t].status \in {"running", "review", "succeeded"} \/ tries[t] = "canceled"
       => links[t] # <<>>
  /\ \A i \in 1..Len(links[t]) : i < Len(links[t]) => TaskEnded(links[t][i].child)
  /\ childStep[t].status = "ready" => \A c \in Children(t) : TaskEnded(c)
  /\ childStep[t].status \in {"review", "succeeded"} => Rests(t)
  /\ tries[t] = "canceled" => Stopped(t)
SightOK(t) ==
  /\ sight[t].version <= childStep[t].version
  /\ sight[t].does # "nothing" => sight[t].child \in Tasks
  /\ SeenStep(t) /\ sight[t].does # "nothing" =>
       /\ sight[t].child = Newest(t).child
       /\ sight[t].does = "settle" => Stopped(t)

ChildIInv == ChildTypes /\ \A t \in Tasks : LinksOK(t) /\ SightOK(t)

LEMMA ChildrenBegin == ChildTasksInit => ChildIInv
<1> SUFFICES ASSUME ChildTasksInit PROVE ChildIInv
  OBVIOUS
<1>1. family \in [Tasks -> FamilyRow] /\ childStep \in [Tasks -> StepRow] /\ sight \in [Tasks -> SightRow]
  BY DEF ChildTasksInit, FamilyRow, StepRow, StepStatus, SightRow, Blind
<1>2. tries \in [Tasks -> TryStatus] /\ links \in [Tasks -> Seq(LinkRow)]
  BY DEF ChildTasksInit, TryStatus
<1>3. ASSUME NEW t \in Tasks PROVE LinksOK(t) /\ SightOK(t)
  <2>1. /\ childStep[t] = [status |-> "none", version |-> 0]
        /\ childStep[t].status = "none" /\ tries[t] = "none" /\ links[t] = <<>>
        /\ sight[t].version = 0 /\ sight[t].does = "nothing" /\ childStep[t].version = 0
    BY <1>3 DEF ChildTasksInit, Blind
  <2> QED
    BY <2>1 DEF LinksOK, SightOK
<1> QED
  BY <1>1, <1>2, <1>3 DEF ChildIInv, ChildTypes

(***************************************************************************)
(* The kinds of step, as one Task sees them.                               *)
(***************************************************************************)
EndsStay == \A c \in Tasks : TaskEnded(c) => family'[c].status = family[c].status
ModeStays(t) == family'[t].mode = "legacy" => family[t].mode = "legacy"
SightStays(t) == sight'[t] = sight[t] \/ sight'[t] = Blind
StepOfTaskStays(t) == childStep'[t] = childStep[t] /\ tries'[t] = tries[t]

LEMMA RowsAre ==
  ASSUME ChildTypes, NEW t \in Tasks
  PROVE  /\ childStep[t] \in StepRow /\ childStep[t].version \in Nat /\ tries[t] \in TryStatus
         /\ family[t] \in FamilyRow /\ sight[t] \in SightRow /\ sight[t].version \in Nat
         /\ links[t] \in Seq(LinkRow) /\ Len(links[t]) \in Nat
         /\ \A i \in 1..Len(links[t]) : links[t][i] \in LinkRow /\ links[t][i].child \in Tasks
         /\ (links[t] # <<>> => Newest(t) \in LinkRow /\ Newest(t).child \in Tasks)
<1>1. links[t] \in Seq(LinkRow) /\ sight[t] \in SightRow /\ childStep[t] \in StepRow
  BY DEF ChildTypes
<1>2. /\ Len(links[t]) \in Nat /\ \A i \in 1..Len(links[t]) : links[t][i] \in LinkRow
      /\ (links[t] # <<>> => Len(links[t]) \in 1..Len(links[t]))
  BY <1>1
<1>3. \A l \in LinkRow : l.child \in Tasks
  BY DEF LinkRow
<1> QED
  BY <1>1, <1>2, <1>3 DEF ChildTypes, SightRow, StepRow, Newest

LEMMA BlindIs == Blind \in SightRow /\ Blind.version = 0 /\ Blind.does = "nothing"
  BY DEF Blind, SightRow

(* What is known of the ends of children stays known.                      *)
LEMMA ChildrenStay ==
  ASSUME ChildTypes, EndsStay, NEW t \in Tasks, links'[t] = links[t]
  PROVE  /\ Newest(t)' = Newest(t) /\ Children(t)' = Children(t)
         /\ \A i \in 1..Len(links[t]) : TaskEnded(links[t][i].child) => TaskEnded(links[t][i].child)'
         /\ \A c \in Children(t) : TaskEnded(c) => TaskEnded(c)'
         /\ (links[t] # <<>> /\ Rests(t) => Rests(t)') /\ (links[t] # <<>> /\ Stopped(t) => Stopped(t)')
<1>1. \A c \in Tasks : TaskEnded(c) => TaskEnded(c)'
  BY DEF EndsStay, TaskEnded
<1>2. Newest(t)' = Newest(t) /\ Children(t)' = Children(t)
  BY DEF Newest, Children
<1>3. Children(t) \subseteq Tasks
  BY RowsAre DEF Children
<1>4. links[t] # <<>> => Newest(t).child \in Tasks
  BY RowsAre
<1>5. links[t] # <<>> /\ Rests(t) => Rests(t)'
  BY <1>2, <1>4 DEF EndsStay, Rests, TaskEnded, TaskOver
<1>6. links[t] # <<>> /\ Stopped(t) => Stopped(t)'
  BY <1>1, <1>2, <1>4 DEF Stopped
<1> QED
  BY <1>1, <1>2, <1>3, <1>5, <1>6, RowsAre

(* Its Step does not move; its Activity may forget what it read.           *)
LEMMA Unmoved ==
  ASSUME ChildIInv, EndsStay, NEW t \in Tasks, StepOfTaskStays(t), links'[t] = links[t],
         ModeStays(t), SightStays(t)
  PROVE  LinksOK(t)' /\ SightOK(t)'
<1>1. /\ Newest(t)' = Newest(t) /\ Children(t)' = Children(t)
      /\ \A i \in 1..Len(links[t]) : TaskEnded(links[t][i].child) => TaskEnded(links[t][i].child)'
      /\ \A c \in Children(t) : TaskEnded(c) => TaskEnded(c)'
      /\ (links[t] # <<>> /\ Rests(t) => Rests(t)') /\ (links[t] # <<>> /\ Stopped(t) => Stopped(t)')
  BY ChildrenStay DEF ChildIInv
<1>2. LinksOK(t) /\ SightOK(t) /\ childStep[t].version \in Nat
  BY RowsAre DEF ChildIInv
<1>3. LinksOK(t)'
  BY <1>1, <1>2 DEF LinksOK, StepOfTaskStays, ModeStays
<1>4. CASE sight'[t] = sight[t]
  <2>1. SeenStep(t)' => SeenStep(t) /\ links[t] # <<>>
    BY <1>2, <1>4 DEF SeenStep, LinksOK, StepOfTaskStays
  <2> QED
    BY <1>1, <1>2, <1>3, <1>4, <2>1 DEF SightOK, StepOfTaskStays
<1>5. CASE sight'[t] = Blind
  BY <1>2, <1>3, <1>5, BlindIs DEF SightOK, StepOfTaskStays
<1> QED
  BY <1>3, <1>4, <1>5 DEF SightStays

(* Its Step leaves where it was, for a place other than running.           *)
LEMMA StepLeaves ==
  ASSUME ChildIInv, EndsStay, NEW t \in Tasks, links'[t] = links[t], ModeStays(t), SightStays(t),
         family[t].mode = "durable", childStep'[t].version = childStep[t].version + 1,
         childStep'[t].status # "running",
         childStep'[t].status = "ready" => \A c \in Children(t) : TaskEnded(c),
         childStep'[t].status \in {"review", "succeeded"} => links[t] # <<>> /\ Rests(t),
         tries'[t] = "canceled" => links[t] # <<>> /\ Stopped(t)
  PROVE  LinksOK(t)' /\ SightOK(t)'
<1>1. /\ Newest(t)' = Newest(t) /\ Children(t)' = Children(t)
      /\ \A i \in 1..Len(links[t]) : TaskEnded(links[t][i].child) => TaskEnded(links[t][i].child)'
      /\ \A c \in Children(t) : TaskEnded(c) => TaskEnded(c)'
      /\ (links[t] # <<>> /\ Rests(t) => Rests(t)') /\ (links[t] # <<>> /\ Stopped(t) => Stopped(t)')
  BY ChildrenStay DEF ChildIInv
<1>2. /\ LinksOK(t) /\ SightOK(t) /\ childStep[t].version \in Nat /\ sight[t].version \in Nat
      /\ family[t].mode # "legacy"
  BY RowsAre DEF ChildIInv
<1>3. LinksOK(t)'
  BY <1>1, <1>2 DEF LinksOK, ModeStays
<1>4. SightOK(t)'
  <2>1. ~SeenStep(t)'
    BY DEF SeenStep
  <2>2. sight'[t].version = sight[t].version \/ sight'[t].version = 0
    BY BlindIs DEF SightStays
  <2>3. sight'[t].version <= childStep'[t].version
    BY <1>2, <2>2 DEF SightOK
  <2>4. sight'[t].does # "nothing" => sight'[t].child \in Tasks
    BY <1>2, BlindIs DEF SightStays, SightOK
  <2> QED
    BY <2>1, <2>3, <2>4 DEF SightOK
<1> QED
  BY <1>3, <1>4

(* Tasks whose Steps stay, but for t.                                      *)
LEMMA OneTaskMoves ==
  ASSUME ChildIInv, ChildTypes', EndsStay, NEW t \in Tasks, LinksOK(t)', SightOK(t)',
         \A u \in Tasks : u # t => StepOfTaskStays(u) /\ links'[u] = links[u] /\ SightStays(u)
                                   /\ ModeStays(u)
  PROVE  ChildIInv'
<1>1. ASSUME NEW u \in Tasks PROVE LinksOK(u)' /\ SightOK(u)'
  BY Unmoved
<1> QED
  BY <1>1 DEF ChildIInv

LEMMA StepMoves ==
  ASSUME ChildTypes, NEW t \in Tasks, NEW st \in StepStatus, MoveChildStep(t, st)
  PROVE  /\ childStep' \in [Tasks -> StepRow]
         /\ childStep'[t].status = st /\ childStep'[t].version = childStep[t].version + 1
         /\ \A u \in Tasks : u # t => childStep'[u] = childStep[u]
<1>1. childStep \in [Tasks -> StepRow]
  BY DEF ChildTypes
<1> PICK v : v = childStep[t].version + 1
  OBVIOUS
<1>2. v \in Nat
  BY RowsAre
<1> PICK mid : mid = [childStep EXCEPT ![t].status = st]
  OBVIOUS
<1>3. /\ mid \in [Tasks -> StepRow] /\ mid[t].status = st /\ mid[t].version = childStep[t].version
      /\ \A u \in Tasks : u # t => mid[u] = childStep[u]
  BY <1>1 DEF StepRow
<1>4. childStep' = [mid EXCEPT ![t].version = v]
  BY <1>3 DEF MoveChildStep
<1> QED
  BY <1>2, <1>3, <1>4 DEF StepRow

LEMMA TriesMove ==
  ASSUME ChildTypes, NEW t \in Tasks, NEW st \in TryStatus, MoveTries(t, st)
  PROVE  /\ tries' \in [Tasks -> TryStatus] /\ tries'[t] = st
         /\ \A u \in Tasks : u # t => tries'[u] = tries[u]
  BY DEF ChildTypes, MoveTries

LEMMA Forgets ==
  ASSUME ChildTypes, NEW t \in Tasks, ActedOn(t)
  PROVE  sight' \in [Tasks -> SightRow] /\ \A u \in Tasks : SightStays(u)
  BY BlindIs DEF ChildTypes, ActedOn, SightStays

(***************************************************************************)
(* The actions.                                                            *)
(***************************************************************************)
FamilyGoesOn == family' \in [Tasks -> FamilyRow] /\ EndsStay /\ \A u \in Tasks : ModeStays(u)

LEMMA FamilyStays == ASSUME ChildTypes, UNCHANGED family PROVE FamilyGoesOn
  BY DEF ChildTypes, FamilyGoesOn, EndsStay, ModeStays

(* A Task becomes durable, ends, or has its cancellation requested.        *)
LEMMA BecomesDurable ==
  ASSUME ChildTypes, NEW t \in Tasks, family' = [family EXCEPT ![t].mode = "durable"]
  PROVE  FamilyGoesOn
  BY DEF ChildTypes, FamilyRow, FamilyGoesOn, EndsStay, ModeStays

LEMMA StatusMoves ==
  ASSUME ChildTypes, NEW t \in Tasks, ~TaskEnded(t), NEW st \in {"REVIEW", "DONE", "CANCELED"},
         family' = [family EXCEPT ![t].status = st]
  PROVE  FamilyGoesOn
  BY DEF ChildTypes, FamilyRow, FamilyGoesOn, EndsStay, ModeStays, TaskEnded

LEMMA CancellationMoves ==
  ASSUME ChildTypes, NEW t \in Tasks, NEW c \in {"requested", "settled"},
         family' = [family EXCEPT ![t].cancel = c]
  PROVE  FamilyGoesOn
  BY DEF ChildTypes, FamilyRow, FamilyGoesOn, EndsStay, ModeStays

LEMMA TaskSettles ==
  ASSUME ChildTypes, NEW t \in Tasks, ~TaskEnded(t),
         family' = [family EXCEPT ![t].status = "CANCELED", ![t].cancel = "settled"]
  PROVE  FamilyGoesOn
<1> PICK mid : mid = [family EXCEPT ![t].status = "CANCELED"]
  OBVIOUS
<1>1. /\ mid \in [Tasks -> FamilyRow] /\ mid[t].mode = family[t].mode
      /\ \A u \in Tasks : u # t => mid[u] = family[u]
  BY DEF ChildTypes, FamilyRow
<1>2. family' = [mid EXCEPT ![t].cancel = "settled"]
  OBVIOUS
<1>3. /\ family' \in [Tasks -> FamilyRow] /\ family'[t].mode = family[t].mode
      /\ \A u \in Tasks : u # t => family'[u] = family[u]
  <2> PICK row : row = [mid[t] EXCEPT !.cancel = "settled"]
    OBVIOUS
  <2>4. mid[t] \in FamilyRow
    BY <1>1
  <2>1. row \in FamilyRow
    BY <2>4 DEF FamilyRow
  <2>2. row.mode = mid[t].mode
    BY <2>4 DEF FamilyRow
  <2>3. family' = [mid EXCEPT ![t] = row]
    BY <1>2
  <2> QED
    BY <1>1, <2>1, <2>2, <2>3
<1> QED
  BY <1>3 DEF FamilyGoesOn, EndsStay, ModeStays

(* Nothing moves but the Tasks themselves.                                 *)
LEMMA OnlyFamily ==
  ASSUME ChildIInv, FamilyGoesOn, UNCHANGED <<childStep, tries, links>>,
         sight' \in [Tasks -> SightRow], \A u \in Tasks : SightStays(u)
  PROVE  ChildIInv'
<1>1. ChildTypes'
  BY DEF ChildIInv, ChildTypes, FamilyGoesOn
<1>2. ASSUME NEW u \in Tasks PROVE LinksOK(u)' /\ SightOK(u)'
  BY Unmoved DEF FamilyGoesOn, StepOfTaskStays
<1> QED
  BY <1>1, <1>2 DEF ChildIInv

(* The Step of t leaves where it was, as StepLeaves says, and the Attempt  *)
(* moves with it or stays.                                                 *)
LEMMA StepOfTaskLeaves ==
  ASSUME ChildIInv, FamilyGoesOn, NEW t \in Tasks, NEW st \in StepStatus, MoveChildStep(t, st),
         st # "running", family[t].mode = "durable", UNCHANGED links,
         sight' \in [Tasks -> SightRow], \A u \in Tasks : SightStays(u),
         UNCHANGED tries \/ \E tr \in TryStatus :
                               MoveTries(t, tr) /\ (tr = "canceled" => links[t] # <<>> /\ Stopped(t)),
         st = "ready" => \A c \in Children(t) : TaskEnded(c),
         st \in {"review", "succeeded"} => links[t] # <<>> /\ Rests(t)
  PROVE  ChildIInv'
<1>1. ChildTypes /\ LinksOK(t)
  BY DEF ChildIInv
<1>2. /\ childStep' \in [Tasks -> StepRow]
      /\ childStep'[t].status = st /\ childStep'[t].version = childStep[t].version + 1
      /\ \A u \in Tasks : u # t => childStep'[u] = childStep[u]
  BY <1>1, StepMoves
<1>3. /\ tries' \in [Tasks -> TryStatus] /\ \A u \in Tasks : u # t => tries'[u] = tries[u]
      /\ (tries'[t] = "canceled" => links[t] # <<>> /\ Stopped(t))
  <2>1. CASE UNCHANGED tries
    BY <1>1, <2>1 DEF ChildTypes, LinksOK
  <2>2. ASSUME NEW tr \in TryStatus, MoveTries(t, tr), tr = "canceled" => links[t] # <<>> /\ Stopped(t)
        PROVE  /\ tries' \in [Tasks -> TryStatus] /\ \A u \in Tasks : u # t => tries'[u] = tries[u]
               /\ (tries'[t] = "canceled" => links[t] # <<>> /\ Stopped(t))
    BY <1>1, <2>2, TriesMove
  <2> QED
    BY <2>1, <2>2
<1>4. ChildTypes'
  BY <1>1, <1>2, <1>3 DEF ChildTypes, FamilyGoesOn
<1>5. LinksOK(t)' /\ SightOK(t)'
  BY <1>2, <1>3, StepLeaves DEF FamilyGoesOn
<1>6. \A u \in Tasks : u # t => StepOfTaskStays(u) /\ links'[u] = links[u] /\ SightStays(u) /\ ModeStays(u)
  BY <1>2, <1>3 DEF StepOfTaskStays, FamilyGoesOn
<1> QED
  BY <1>4, <1>5, <1>6, OneTaskMoves DEF FamilyGoesOn

LEMMA SightsStay == ASSUME ChildTypes, UNCHANGED sight
                    PROVE  sight' \in [Tasks -> SightRow] /\ \A u \in Tasks : SightStays(u)
  BY DEF ChildTypes, SightStays

LEMMA PlanKeeps ==
  ASSUME ChildIInv, NEW t \in Tasks, PlanLinkedTask(t) PROVE ChildIInv'
<1>1. ChildTypes /\ LinksOK(t) /\ SightOK(t)
  BY DEF ChildIInv
<1>2. /\ family[t].mode = "legacy" /\ family' = [family EXCEPT ![t].mode = "durable"]
      /\ UNCHANGED <<tries, links, sight>>
  BY DEF PlanLinkedTask
<1>3. FamilyGoesOn /\ family'[t].mode = "durable"
  BY <1>1, <1>2, BecomesDurable DEF ChildTypes, FamilyRow
<1>4. PICK st \in Plans[t] : childStep' = [childStep EXCEPT ![t] = [status |-> st, version |-> 1]]
  BY DEF PlanLinkedTask
<1>5. st \in {"none", "ready"}
  BY ChildTasksAssumption
<1>6. /\ childStep' \in [Tasks -> StepRow] /\ childStep'[t].status = st /\ childStep'[t].version = 1
      /\ \A u \in Tasks : u # t => childStep'[u] = childStep[u]
  BY <1>1, <1>4, <1>5 DEF ChildTypes, StepRow, StepStatus
<1>7. links[t] = <<>> /\ childStep[t].status = "none" /\ childStep[t].version = 0
  BY <1>1, <1>2 DEF LinksOK
<1>8. LinksOK(t)'
  <2>1. links'[t] = <<>> /\ tries'[t] # "canceled"
    BY <1>1, <1>2, <1>7 DEF LinksOK
  <2>2. Children(t)' = {}
    BY <2>1 DEF Children
  <2> QED
    BY <1>3, <1>5, <1>6, <2>1, <2>2 DEF LinksOK
<1>9. SightOK(t)'
  <2>1. sight'[t] = sight[t] /\ childStep'[t].status # "running"
    BY <1>2, <1>5, <1>6
  <2>2. sight[t].version \in Nat /\ sight[t].version <= 0
    BY <1>1, <1>7, RowsAre DEF SightOK
  <2>3. sight'[t].version <= childStep'[t].version
    BY <1>6, <2>1, <2>2
  <2> QED
    BY <1>1, <2>1, <2>3 DEF SightOK, SeenStep
<1>10. ChildTypes'
  BY <1>1, <1>2, <1>3, <1>6 DEF ChildTypes, FamilyGoesOn
<1>11. \A u \in Tasks : u # t => StepOfTaskStays(u) /\ links'[u] = links[u] /\ SightStays(u) /\ ModeStays(u)
  BY <1>2, <1>3, <1>6 DEF StepOfTaskStays, SightStays, FamilyGoesOn
<1> QED
  BY <1>3, <1>8, <1>9, <1>10, <1>11, OneTaskMoves DEF FamilyGoesOn

(* A Step is linked when it is ready: its children are over.               *)
LEMMA LinkKeeps ==
  ASSUME ChildIInv, NEW t \in Tasks, NEW c \in Tasks, LinkChild(t, c) PROVE ChildIInv'
<1>1. ChildTypes /\ LinksOK(t) /\ SightOK(t)
  BY DEF ChildIInv
<1>2. /\ family[t].mode = "durable" /\ childStep[t].status = "ready" /\ UNCHANGED <<family, sight>>
      /\ MoveChildStep(t, "running") /\ MoveTries(t, "running")
  BY DEF LinkChild, Live, Durable
<1>3. PICK cancelPolicy \in {"cancel_child", "keep_child"}, failurePolicy \in FailPolicies :
        links' = [links EXCEPT ![t] = Append(@, [child |-> c, cancel |-> cancelPolicy,
                                                 failure |-> failurePolicy])]
  BY DEF LinkChild
<1> PICK l : l = [child |-> c, cancel |-> cancelPolicy, failure |-> failurePolicy]
  OBVIOUS
<1>4. l \in LinkRow
  BY DEF LinkRow
<1>5. /\ links' \in [Tasks -> Seq(LinkRow)] /\ links'[t] = Append(links[t], l)
      /\ \A u \in Tasks : u # t => links'[u] = links[u]
  BY <1>1, <1>3, <1>4 DEF ChildTypes
<1>6. /\ links[t] \in Seq(LinkRow) /\ Len(links[t]) \in Nat /\ Len(links'[t]) = Len(links[t]) + 1
      /\ \A i \in 1..Len(links[t]) : links'[t][i] = links[t][i]
      /\ links'[t] # <<>>
  BY <1>1, <1>4, <1>5, RowsAre
<1>7. /\ childStep' \in [Tasks -> StepRow] /\ childStep'[t].status = "running"
      /\ childStep'[t].version = childStep[t].version + 1
      /\ \A u \in Tasks : u # t => childStep'[u] = childStep[u]
  BY <1>1, <1>2, StepMoves DEF StepStatus
<1>8. /\ tries' \in [Tasks -> TryStatus] /\ tries'[t] = "running"
      /\ \A u \in Tasks : u # t => tries'[u] = tries[u]
  BY <1>1, <1>2, TriesMove DEF TryStatus
<1>9. LinksOK(t)'
  <2>1. ASSUME NEW i \in 1..Len(links'[t]), i < Len(links'[t]) PROVE TaskEnded(links[t][i].child)'
    <3>1. i \in 1..Len(links[t]) /\ links'[t][i] = links[t][i]
      BY <1>6, <2>1
    <3>2. TaskEnded(links[t][i].child)
      BY <1>1, <1>2, <3>1 DEF LinksOK, Children
    <3> QED
      BY <1>2, <3>1, <3>2 DEF TaskEnded
  <2> QED
    BY <1>2, <1>6, <1>7, <1>8, <2>1 DEF LinksOK
<1>10. SightOK(t)'
  <2>1. sight'[t] = sight[t] /\ sight[t].version \in Nat /\ childStep[t].version \in Nat
    BY <1>1, <1>2, RowsAre
  <2>2. sight[t].version <= childStep[t].version
    BY <1>1 DEF SightOK
  <2>3. sight'[t].version < childStep'[t].version
    BY <1>7, <2>1, <2>2
  <2> QED
    BY <1>1, <1>7, <2>1, <2>3 DEF SightOK, SeenStep
<1>11. FamilyGoesOn
  BY <1>1, <1>2, FamilyStays
<1>12. ChildTypes'
  BY <1>1, <1>2, <1>5, <1>7, <1>8 DEF ChildTypes
<1>13. \A u \in Tasks : u # t => StepOfTaskStays(u) /\ links'[u] = links[u] /\ SightStays(u) /\ ModeStays(u)
  BY <1>2, <1>5, <1>7, <1>8, <1>11 DEF StepOfTaskStays, SightStays, FamilyGoesOn
<1> QED
  BY <1>9, <1>10, <1>11, <1>12, <1>13, OneTaskMoves DEF FamilyGoesOn

(* The Activity reads the Step and its link.                               *)
LEMMA ReadKeeps ==
  ASSUME ChildIInv, NEW t \in Tasks, ReadChildStep(t) PROVE ChildIInv'
<1>1. ChildTypes /\ LinksOK(t) /\ SightOK(t)
  BY DEF ChildIInv
<1>2. /\ childStep[t].status = "running" /\ UNCHANGED <<family, childStep, tries, links>>
      /\ \E does \in {"observe", "deny", "settle", "cancelDurable", "cancelLegacy"} :
           /\ Looks(t, does)
           /\ does = "settle" => Newest(t).cancel = "keep_child" \/ StopChild(Newest(t).child) = "settle"
  BY DEF ReadChildStep, StopChild
<1>3. PICK does \in {"observe", "deny", "settle", "cancelDurable", "cancelLegacy"} :
           /\ Looks(t, does)
           /\ does = "settle" => Newest(t).cancel = "keep_child" \/ StopChild(Newest(t).child) = "settle"
  BY <1>2
<1>4. does = "settle" => Stopped(t)
  BY <1>3 DEF StopChild, Stopped
<1> PICK row : row = [does |-> does, version |-> childStep[t].version, child |-> Newest(t).child]
  OBVIOUS
<1>5. links[t] # <<>> /\ Newest(t).child \in Tasks /\ childStep[t].version \in Nat
  BY <1>1, <1>2, RowsAre DEF LinksOK
<1>6. row \in SightRow
  BY <1>5 DEF SightRow
<1>7. /\ sight' \in [Tasks -> SightRow] /\ sight'[t] = row
      /\ \A u \in Tasks : u # t => sight'[u] = sight[u]
  BY <1>1, <1>3, <1>6 DEF Looks, ChildTypes
<1>8. FamilyGoesOn
  BY <1>1, <1>2, FamilyStays
<1>9. /\ Newest(t)' = Newest(t) /\ (links[t] # <<>> /\ Stopped(t) => Stopped(t)')
      /\ Children(t)' = Children(t)
  BY <1>1, <1>2, <1>8, ChildrenStay DEF FamilyGoesOn
<1>10. LinksOK(t)'
  BY <1>1, <1>2, <1>9 DEF LinksOK, TaskEnded, Rests, Stopped
<1>11. SightOK(t)'
  BY <1>2, <1>4, <1>5, <1>7, <1>9 DEF SightOK
<1>12. ChildTypes'
  BY <1>1, <1>2, <1>7 DEF ChildTypes
<1>13. \A u \in Tasks : u # t => StepOfTaskStays(u) /\ links'[u] = links[u] /\ SightStays(u) /\ ModeStays(u)
  BY <1>2, <1>7, <1>8 DEF StepOfTaskStays, SightStays, FamilyGoesOn
<1> QED
  BY <1>8, <1>10, <1>11, <1>12, <1>13, OneTaskMoves DEF FamilyGoesOn

(* The owner decides on the Step, whose Task is durable.                   *)
LEMMA OwnerKeeps ==
  ASSUME ChildIInv, NEW t \in Tasks, AcceptChildStep(t) \/ ReworkChildStep(t) PROVE ChildIInv'
<1>1. ChildTypes /\ LinksOK(t)
  BY DEF ChildIInv
<1>2. family[t].mode = "durable" /\ UNCHANGED <<family, links, sight>>
  BY DEF AcceptChildStep, ReworkChildStep, Live, Durable
<1>3. FamilyGoesOn /\ sight' \in [Tasks -> SightRow] /\ \A u \in Tasks : SightStays(u)
  BY <1>1, <1>2, FamilyStays, SightsStay
<1>4. CASE AcceptChildStep(t)
  <2>1. /\ childStep[t].status = "review" /\ MoveChildStep(t, "succeeded") /\ MoveTries(t, "succeeded")
    BY <1>4 DEF AcceptChildStep
  <2>2. links[t] # <<>> /\ Rests(t)
    BY <1>1, <2>1 DEF LinksOK
  <2>3. "succeeded" \in StepStatus /\ "succeeded" \in TryStatus
    BY DEF StepStatus, TryStatus
  <2> QED
    BY <1>2, <1>3, <2>1, <2>2, <2>3, StepOfTaskLeaves
<1>5. CASE ReworkChildStep(t)
  <2>1. ReworkAllowed(t) /\ MoveChildStep(t, "ready") /\ UNCHANGED tries
    BY <1>5 DEF ReworkChildStep
  <2>2. ASSUME NEW c \in Children(t), childStep[t].status = "review" PROVE TaskEnded(c)
    <3>1. PICK i \in 1..Len(links[t]) : c = links[t][i].child
      BY DEF Children
    <3>2. CASE i < Len(links[t])
      BY <1>1, <3>1, <3>2 DEF LinksOK
    <3>3. CASE i = Len(links[t])
      <4>1. c = Newest(t).child
        BY <3>1, <3>3 DEF Newest
      <4> QED
        BY <1>1, <2>2, <4>1 DEF LinksOK, Rests, TaskEnded, TaskOver
    <3> QED
      BY <1>1, <3>1, <3>2, <3>3, RowsAre
  <2>3. \A c \in Children(t) : TaskEnded(c)
    BY <2>1, <2>2 DEF ReworkAllowed
  <2>4. "ready" \in StepStatus
    BY DEF StepStatus
  <2> QED
    BY <1>2, <1>3, <2>1, <2>3, <2>4, StepOfTaskLeaves
<1> QED
  BY <1>4, <1>5

LEMMA AcceptTaskKeeps ==
  ASSUME ChildIInv, NEW t \in Tasks, AcceptLinkedTask(t) PROVE ChildIInv'
<1>1. ChildTypes /\ UNCHANGED <<childStep, tries, links, sight>>
  BY DEF ChildIInv, AcceptLinkedTask
<1>2. ~TaskEnded(t) /\ family' = [family EXCEPT ![t].status = "DONE"]
  BY DEF AcceptLinkedTask, TaskEnded, TaskOver
<1>3. FamilyGoesOn
  BY <1>1, <1>2, StatusMoves
<1> QED
  BY <1>1, <1>3, OnlyFamily, SightsStay

(* What has not started, or has stopped, is cancelled with the Task.       *)
LEMMA CancelledWith ==
  ASSUME ChildIInv, NEW t \in Tasks, FamilyGoesOn, family[t].mode = "durable",
         IF childStep[t].status \in {"ready", "blocked", "review"}
         THEN MoveChildStep(t, "cancelled") ELSE UNCHANGED childStep,
         UNCHANGED <<tries, links>>, sight' \in [Tasks -> SightRow],
         \A u \in Tasks : SightStays(u)
  PROVE  ChildIInv'
<1>1. "cancelled" \in StepStatus
  BY DEF StepStatus
<1>2. CASE MoveChildStep(t, "cancelled")
  BY <1>1, <1>2, StepOfTaskLeaves
<1>3. CASE UNCHANGED childStep
  BY <1>3, OnlyFamily
<1> QED
  BY <1>2, <1>3

LEMMA RequestKeeps ==
  ASSUME ChildIInv, NEW t \in Tasks, Live(t), RequestCancellation(t), UNCHANGED <<tries, links>>,
         sight' \in [Tasks -> SightRow], \A u \in Tasks : SightStays(u)
  PROVE  ChildIInv'
<1>1. FamilyGoesOn
  BY CancellationMoves DEF RequestCancellation, ChildIInv
<1>2. family[t].mode = "durable"
  BY DEF Live, Durable
<1> QED
  BY <1>1, <1>2, CancelledWith DEF RequestCancellation

LEMMA CancelTaskKeeps ==
  ASSUME ChildIInv, NEW t \in Tasks, CancelTask(t) PROVE ChildIInv'
<1>1. ChildTypes /\ ~TaskEnded(t) /\ UNCHANGED <<tries, links, sight>>
  BY DEF ChildIInv, CancelTask
<1>2. sight' \in [Tasks -> SightRow] /\ \A u \in Tasks : SightStays(u)
  BY <1>1, SightsStay
<1>3. CASE family' = [family EXCEPT ![t].status = "CANCELED"] /\ UNCHANGED childStep
  BY <1>1, <1>2, <1>3, StatusMoves, OnlyFamily
<1>4. CASE Live(t) /\ RequestCancellation(t)
  BY <1>1, <1>2, <1>4, RequestKeeps
<1>5. CASE /\ Durable(t)
           /\ family' = [family EXCEPT ![t].status = "CANCELED", ![t].cancel = "settled"]
           /\ IF childStep[t].status \in {"ready", "blocked", "review"}
              THEN MoveChildStep(t, "cancelled") ELSE UNCHANGED childStep
  <2>1. FamilyGoesOn /\ family[t].mode = "durable"
    BY <1>1, <1>5, TaskSettles DEF Durable
  <2> QED
    BY <1>1, <1>2, <1>5, <2>1, CancelledWith
<1> QED
  BY <1>3, <1>4, <1>5 DEF CancelTask

(***************************************************************************)
(* The Activity acts on what it read.                                      *)
(***************************************************************************)
LEMMA ActsOnStep ==
  ASSUME ChildIInv, NEW t \in Tasks, ActedOn(t), UNCHANGED <<family, links>>,
         \/ UNCHANGED <<childStep, tries>>
         \/ \E st \in StepStatus, tr \in TryStatus :
              /\ SeenStep(t) /\ MoveChildStep(t, st) /\ MoveTries(t, tr)
              /\ st \notin {"running", "ready"}
              /\ st \in {"review", "succeeded"} => Rests(t)
              /\ tr = "canceled" => Stopped(t)
  PROVE  ChildIInv'
<1>1. ChildTypes /\ LinksOK(t)
  BY DEF ChildIInv
<1>2. FamilyGoesOn /\ sight' \in [Tasks -> SightRow] /\ \A u \in Tasks : SightStays(u)
  BY <1>1, FamilyStays, Forgets
<1>3. CASE UNCHANGED <<childStep, tries>>
  BY <1>2, <1>3, OnlyFamily
<1>4. ASSUME NEW st \in StepStatus, NEW tr \in TryStatus,
             SeenStep(t), MoveChildStep(t, st), MoveTries(t, tr), st \notin {"running", "ready"},
             st \in {"review", "succeeded"} => Rests(t), tr = "canceled" => Stopped(t)
      PROVE  ChildIInv'
  <2>1. links[t] # <<>> /\ family[t].mode # "legacy"
    <3>1. childStep[t].status = "running"
      BY <1>4 DEF SeenStep
    <3>2. links[t] # <<>>
      BY <1>1, <3>1 DEF LinksOK
    <3> QED
      BY <1>1, <3>2 DEF LinksOK
  <2>2. family[t].mode = "durable"
    BY <1>1, <2>1 DEF ChildTypes, FamilyRow
  <2> QED
    BY <1>2, <1>4, <2>1, <2>2, StepOfTaskLeaves
<1> QED
  BY <1>3, <1>4

LEMMA ObserveKeeps ==
  ASSUME ChildIInv, NEW t \in Tasks, ObserveLinkedChild(t) PROVE ChildIInv'
<1>1. /\ sight[t].does = "observe" /\ ActedOn(t) /\ UNCHANGED <<family, links>>
      /\ ChildTypes /\ LinksOK(t) /\ SightOK(t)
  BY DEF ObserveLinkedChild, Advancing, ChildIInv
<1> PICK c : c = sight[t].child
  OBVIOUS
<1>2. CASE UNCHANGED <<childStep, tries>>
  BY <1>1, <1>2, ActsOnStep
<1>3. CASE /\ SeenStep(t) /\ TaskEnded(c) /\ MoveChildStep(t, EndOf(t, c))
           /\ MoveTries(t, IF EndOf(t, c) = "review" THEN "review" ELSE "failed")
  <2>1. c = Newest(t).child
    BY <1>1, <1>3 DEF SightOK
  <2>2. links[t] # <<>>
    BY <1>1, <1>3 DEF LinksOK, SeenStep
  <2>3. Newest(t).failure \in {"block_parent", "fail_parent", "review_parent"}
    BY <1>1, <2>2, RowsAre, ChildTasksAssumption DEF LinkRow
  <2>4. /\ EndOf(t, c) \in {"review", "failed", "blocked"}
        /\ EndOf(t, c) = "review" => family[c].status = "DONE" \/ Newest(t).failure = "review_parent"
    BY <2>3 DEF EndOf
  <2>5. EndOf(t, c) = "review" => Rests(t)
    BY <1>3, <2>1, <2>4 DEF Rests, TaskEnded, TaskOver
  <2>6. PICK st : st = EndOf(t, c)
    OBVIOUS
  <2>7. PICK tr : tr = IF st = "review" THEN "review" ELSE "failed"
    OBVIOUS
  <2>8. /\ st \in StepStatus /\ tr \in TryStatus /\ tr # "canceled" /\ st \notin {"running", "ready"}
        /\ st \in {"review", "succeeded"} => Rests(t)
    BY <2>4, <2>5, <2>6, <2>7 DEF StepStatus, TryStatus
  <2> QED
    BY <1>1, <1>3, <2>6, <2>7, <2>8, ActsOnStep
<1> QED
  BY <1>2, <1>3 DEF ObserveLinkedChild

LEMMA DenyKeeps ==
  ASSUME ChildIInv, NEW t \in Tasks, DenyContinuation(t) PROVE ChildIInv'
<1>1. "blocked" \in StepStatus /\ "failed" \in TryStatus
  BY DEF StepStatus, TryStatus
<1> QED
  BY <1>1, ActsOnStep DEF DenyContinuation

LEMMA SettleKeeps ==
  ASSUME ChildIInv, NEW t \in Tasks, SettleCancelledChild(t) PROVE ChildIInv'
<1>1. "cancelled" \in StepStatus /\ "canceled" \in TryStatus
  BY DEF StepStatus, TryStatus
<1>2. SeenStep(t) => Stopped(t)
  BY DEF ChildIInv, SightOK, SettleCancelledChild, Advancing
<1> QED
  BY <1>1, <1>2, ActsOnStep DEF SettleCancelledChild

LEMMA CancelChildKeeps ==
  ASSUME ChildIInv, NEW t \in Tasks, CancelChild(t) PROVE ChildIInv'
<1>1. ChildTypes /\ ActedOn(t) /\ UNCHANGED <<tries, links>>
  BY DEF ChildIInv, CancelChild
<1>2. sight' \in [Tasks -> SightRow] /\ \A u \in Tasks : SightStays(u)
  BY <1>1, Forgets
<1> PICK c : c = sight[t].child
  OBVIOUS
<1>3. CASE UNCHANGED <<family, childStep>>
  BY <1>1, <1>2, <1>3, FamilyStays, OnlyFamily
<1>4. CASE c \in Tasks /\ Live(c) /\ RequestCancellation(c)
  BY <1>1, <1>2, <1>4, RequestKeeps
<1>5. CASE c \in Tasks /\ ~TaskEnded(c) /\ UNCHANGED childStep
           /\ family' = [family EXCEPT ![c].status = "CANCELED"]
  BY <1>1, <1>2, <1>5, StatusMoves, OnlyFamily
<1>6. c \in Tasks
  BY DEF ChildIInv, SightOK, CancelChild
<1> QED
  BY <1>3, <1>4, <1>5, <1>6 DEF CancelChild

LEMMA CompleteKeeps ==
  ASSUME ChildIInv, NEW t \in Tasks, CompleteTask(t) PROVE ChildIInv'
<1>1. ChildTypes /\ UNCHANGED <<childStep, tries, links, sight>>
  BY DEF ChildIInv, CompleteTask
<1>2. FamilyGoesOn
  BY <1>1, FamilyStays, StatusMoves, TaskSettles DEF CompleteTask, Durable, Live
<1> QED
  BY <1>1, <1>2, SightsStay, OnlyFamily

LEMMA ChildrenKept == ChildIInv /\ [ChildTasksNext]_childVars => ChildIInv'
<1> SUFFICES ASSUME ChildIInv, [ChildTasksNext]_childVars PROVE ChildIInv'
  OBVIOUS
<1>1. CASE UNCHANGED childVars
  BY <1>1, FamilyStays, SightsStay, OnlyFamily DEF childVars, ChildIInv
<1> QED
  BY <1>1, PlanKeeps, LinkKeeps, ReadKeeps, OwnerKeeps, AcceptTaskKeeps, CancelTaskKeeps,
     ObserveKeeps, DenyKeeps, SettleKeeps, CancelChildKeeps, CompleteKeeps
     DEF ChildTasksNext, AdvanceTask

(* A Step has at most one child at work, what is reviewed rests on a child *)
(* that is over, and a parent that stopped its child ends after it, for    *)
(* any family of Tasks, policies and order of the owner's decisions.       *)
THEOREM ChildrenAccounted == ChildTasksSpec => []ChildIsAccountedFor
<1>1. ASSUME ChildIInv, NEW t \in Tasks
      PROVE  /\ Cardinality({c \in Children(t) : ~TaskEnded(c)}) <= 1
             /\ childStep[t].status \in {"review", "succeeded"} => Rests(t)
             /\ tries[t] = "canceled" /\ Newest(t).cancel = "cancel_child" => TaskEnded(Newest(t).child)
  <2>1. LinksOK(t) /\ Len(links[t]) \in Nat
    BY <1>1, RowsAre DEF ChildIInv
  <2>2. {c \in Children(t) : ~TaskEnded(c)} \subseteq {Newest(t).child}
    BY <2>1 DEF LinksOK, Children, Newest
  <2>3. Cardinality({c \in Children(t) : ~TaskEnded(c)}) <= 1
    <3>1. IsFiniteSet({Newest(t).child}) /\ Cardinality({Newest(t).child}) = 1
      BY FS_Singleton
    <3>2. Cardinality({c \in Children(t) : ~TaskEnded(c)}) <= Cardinality({Newest(t).child})
      BY <2>2, <3>1, FS_Subset
    <3> QED
      BY <3>1, <3>2
  <2> QED
    BY <2>1, <2>3 DEF LinksOK, Stopped
<1>2. ChildIInv => ChildIsAccountedFor
  BY <1>1 DEF ChildIsAccountedFor, Rests
<1> QED
  BY <1>2, ChildrenBegin, ChildrenKept, PTL DEF ChildTasksSpec
=============================================================================
