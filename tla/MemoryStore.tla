---------------------------- MODULE MemoryStore ----------------------------
(***************************************************************************)
(* LearningStore: suggestions (memory_candidates) wait for the owner's     *)
(* review; promoting one creates, reinforces, replaces or retires a memory. *)
(* The owner also writes, updates and supersedes memories himself, while an *)
(* extraction that read the memories earlier adds suggestions about them.  *)
(*                                                                         *)
(* One subject, scope and type, so that a statement is a signature.  Each  *)
(* method is one transaction, and a refused one leaves nothing.  What a    *)
(* memory was made from is kept beside source_dependencies_json, which     *)
(* decides who may read it.                                                *)
(***************************************************************************)
EXTENDS Naturals, FiniteSets

CONSTANTS
  Statements,
  Origins,        \* the protected sources a Run may have read
  MaxMemories, MaxCandidates,
  MaxVersion,     \* bound: changes of one memory
  MaxTime,        \* bound: the clock
  MaxCalls        \* bound: changes of the store

ASSUME MemoryStoreAssumption ==
  MaxMemories \in Nat /\ MaxCandidates \in Nat /\ MaxVersion \in Nat
  /\ MaxTime \in Nat /\ MaxCalls \in Nat

VARIABLES
  db,       \* memories and memory_candidates
  seen,     \* what the extraction under way has read: a version for each memory
  revoked,  \* the sources whose grant was taken back
  now,
  calls     \* how often the store was changed

memoryVars == <<db, seen, revoked, now, calls>>

Memories   == 1..MaxMemories
Candidates == 1..MaxCandidates
Forever    == MaxTime + 2
NotRead    == [m \in Memories |-> 0]
NoMemory   == [st |-> "none", sig |-> "none", deadline |-> Forever, version |-> 0,
               supersedes |-> {}, sources |-> {}, from |-> {}]
NoCandidate == [st |-> "none", kind |-> "assertion", hint |-> "dedupe", does |-> "none",
                match |-> 0, version |-> 0, sig |-> "none", ttl |-> FALSE,
                sources |-> {}, from |-> {}, memory |-> 0]

MemoryStoreInit ==
  /\ db = [mem |-> [m \in Memories |-> NoMemory], cand |-> [c \in Candidates |-> NoCandidate]]
  /\ seen = NotRead /\ revoked = {} /\ now = 0 /\ calls = 0

(* An expired memory is told by its deadline; its row still says active.    *)
Remembered(d, m)      == d.mem[m].st = "active" /\ d.mem[m].deadline > now
Due(d, m)        == d.mem[m].st = "active" /\ d.mem[m].deadline <= now
Readable(row)    == row.sources \cap revoked = {}
NewMemories(d)   == {m \in Memories : d.mem[m].st = "none" /\ \A n \in 1..(m - 1) : d.mem[n].st # "none"}
NewCandidates(d) == {c \in Candidates : d.cand[c].st = "none" /\ \A b \in 1..(c - 1) : d.cand[b].st # "none"}
Suggested(d, s)  == {c \in Candidates : d.cand[c].st = "pending" /\ d.cand[c].sig = s}
Deadline(ttl, old) == IF ttl THEN now + 1 ELSE old

(* Rows as they are written back; every change of a memory is a new version. *)
PutMemory(d, m, row)    == [mem |-> [d.mem EXCEPT ![m] = row], cand |-> d.cand]
PutCandidate(d, c, row) == [mem |-> d.mem, cand |-> [d.cand EXCEPT ![c] = row]]
EndMemory(row, st)      == [row EXCEPT !.st = st, !.version = @ + 1]

(***************************************************************************)
(* Suggestions.                                                            *)
(***************************************************************************)
(* insertCandidate: a statement that is already under review is not queued  *)
(* again; the sources of the repeated one are added to it.                  *)
Queued(d, new) ==
  IF Suggested(d, new.sig) # {}
  THEN LET c == CHOOSE c \in Suggested(d, new.sig) : TRUE
       IN  [d |-> PutCandidate(d, c, [d.cand[c] EXCEPT !.sources = @ \cup new.sources]), c |-> c,
            ok |-> Readable(d.cand[c]) /\ Readable(new)]
  ELSE LET c == CHOOSE c \in NewCandidates(d) : TRUE
       IN  [d |-> PutCandidate(d, c, new), c |-> c, ok |-> Readable(new)]

Room(s) == Suggested(db, s) # {} \/ NewCandidates(db) # {}

Suggest(new) ==
  /\ Room(new.sig)
  /\ LET q == Queued(db, new) IN q.ok /\ db' = q.d
  /\ UNCHANGED <<seen, revoked, now>>

(* A Tool call of the model, in a Run that may have read a source. *)
SuggestStatement(s, read) ==
  Suggest([NoCandidate EXCEPT !.st = "pending", !.hint = "review", !.sig = s,
                              !.sources = read, !.from = read])

(* consolidate lists the memories, and asks the extractor. *)
ListMemories ==
  /\ seen = NotRead
  /\ seen' = [m \in Memories |-> IF Remembered(db, m) /\ Readable(db.mem[m]) THEN db.mem[m].version ELSE 0]
  /\ seen' # NotRead
  /\ UNCHANGED <<db, revoked, now>>

(* Its decisions depend on all it was shown, and name the version of the    *)
(* memory they are about.                                                   *)
Shown == {m \in Memories : seen[m] > 0}
SourcesOf(M) == UNION {db.mem[m].sources : m \in M}
Extract(s, m, kind, does) ==
  /\ seen[m] > 0 /\ Room(s)
  /\ LET new == [NoCandidate EXCEPT !.st = "pending", !.kind = kind, !.hint = "review", !.does = does,
                   !.match = m, !.version = seen[m], !.sig = s, !.sources = SourcesOf(Shown),
                   !.from = UNION {db.mem[n].from : n \in Shown}]
         q == Queued(db, new)
     IN  q.ok /\ db' = q.d
  /\ seen' = NotRead
  /\ UNCHANGED <<revoked, now>>

(* recordFeedback: a rejection makes a correction of the pending suggestion. *)
RecordFeedback(s, rejects) ==
  /\ IF Suggested(db, s) # {}
     THEN LET c == CHOOSE c \in Suggested(db, s) : TRUE
          IN  /\ Readable(db.cand[c])
              /\ db' = IF rejects THEN PutCandidate(db, c, [db.cand[c] EXCEPT !.kind = "correction"]) ELSE db
     ELSE LET c == CHOOSE c \in NewCandidates(db) : TRUE
          IN  /\ NewCandidates(db) # {}
              /\ db' = PutCandidate(db, c, [NoCandidate EXCEPT !.st = "pending", !.hint = "reinforce",
                        !.does = "taste", !.sig = s, !.kind = IF rejects THEN "correction" ELSE @])
  /\ UNCHANGED <<seen, revoked, now>>

RejectCandidate(c) ==
  /\ db.cand[c].st = "pending"
  /\ db' = PutCandidate(db, c, [db.cand[c] EXCEPT !.st = "rejected"])
  /\ UNCHANGED <<seen, revoked, now>>

(***************************************************************************)
(* promoteInTransaction.                                                   *)
(***************************************************************************)
(* The memory a candidate is about: the one it names, or the one that says  *)
(* the same.                                                                *)
Target(d, cand) ==
  IF cand.match # 0 THEN {cand.match} \cap {m \in Memories : Remembered(d, m)}
  ELSE {m \in Memories : Remembered(d, m) /\ d.mem[m].sig = cand.sig}
Lapsed(d, cand) == {m \in Memories : Due(d, m) /\ d.mem[m].sig = cand.sig}
Retires(cand)   == cand.does = "retire" \/ (cand.does = "taste" /\ cand.kind = "correction")
Replaces(cand)  == cand.kind = "correction" /\ cand.hint = "review"

(* Mutant: the target need not be the one that was read. *)
Unread(d, cand) == (cand.match # 0 \/ Retires(cand)) => Target(d, cand) # {}
Current(d, cand) ==
  /\ (cand.match # 0 \/ Retires(cand)) => Target(d, cand) # {}
  /\ cand.version # 0 => \A m \in Target(d, cand) : d.mem[m].version = cand.version

(* memories_active_signature is unique among the rows that say active.      *)
Free(d, s, except) == \A m \in Memories \ except : d.mem[m].st = "active" => d.mem[m].sig # s

(* Mutant: only the sources of what was known before are kept. *)
OldSources(d, cand, M) == UNION {d.mem[m].sources : m \in M}
AllSources(d, cand, M) == cand.sources \cup UNION {d.mem[m].sources : m \in M}

(* Expired rows of the same statement are closed first, and superseded.     *)
Promoted(d, c) ==
  LET cand == d.cand[c]
      gone == Lapsed(d, cand)
      x    == Target(d, cand)
      all  == AllSources(d, cand, gone \cup x)
      closed == [mem |-> [m \in Memories |-> IF m \in gone THEN EndMemory(d.mem[m], "expired") ELSE d.mem[m]],
                 cand |-> d.cand]
      new    == CHOOSE m \in NewMemories(d) : TRUE
      Memory(deadline, old) ==
        [st |-> "active", sig |-> cand.sig, deadline |-> deadline, version |-> 1,
         supersedes |-> gone \cup old, sources |-> all, from |-> cand.from]
      Become(put, m) == PutCandidate(put, c, [cand EXCEPT !.st = "promoted", !.memory = m])
  IN
  IF x = {}
  THEN Become(PutMemory(closed, new, Memory(Deadline(cand.ttl, Forever), {})), new)
  ELSE LET e == CHOOSE e \in x : TRUE
           old == d.mem[e]
       IN
       IF Retires(cand)
       THEN Become(PutMemory(closed, e, [EndMemory(old, "retired") EXCEPT !.sources = @ \cup all]), e)
       ELSE IF Replaces(cand)
       THEN Become(PutMemory(PutMemory(closed, e, EndMemory(old, "retired")), new,
                     Memory(Deadline(cand.ttl, old.deadline), {e} \cup old.supersedes)), new)
       ELSE Become(PutMemory(closed, e, [old EXCEPT !.version = @ + 1, !.sources = @ \cup all,
                                                    !.from = @ \cup cand.from]), e)

Promotable(d, c) ==
  LET cand == d.cand[c]
      touched == Lapsed(d, cand) \cup Target(d, cand)
      makes == Target(d, cand) = {} \/ (Replaces(cand) /\ ~Retires(cand))
  IN
  /\ cand.st = "pending" /\ Current(d, cand)
  /\ Readable(cand) /\ \A m \in touched : Readable(d.mem[m]) /\ d.mem[m].version < MaxVersion
  /\ makes => NewMemories(d) # {} /\ Free(d, cand.sig, touched)

PromoteCandidate(c) ==
  /\ Promotable(db, c) /\ db' = Promoted(db, c)
  /\ UNCHANGED <<seen, revoked, now>>

(***************************************************************************)
(* The owner's own statements.                                             *)
(***************************************************************************)
(* A suggestion that says the same is promoted in place of the statement.   *)
WriteExplicit(s, ttl) ==
  /\ Room(s)
  /\ LET q == Queued(db, [NoCandidate EXCEPT !.st = "pending", !.sig = s, !.ttl = ttl]) IN
       q.ok /\ Promotable(q.d, q.c) /\ db' = Promoted(q.d, q.c)
  /\ UNCHANGED <<seen, revoked, now>>

SupersedeMemory(m, s, ttl) ==
  /\ Remembered(db, m) /\ Readable(db.mem[m]) /\ Free(db, s, {m})
  /\ NewMemories(db) # {} /\ NewCandidates(db) # {} /\ db.mem[m].version < MaxVersion
  /\ LET new == CHOOSE n \in NewMemories(db) : TRUE
         c   == CHOOSE c \in NewCandidates(db) : TRUE
         said == [st |-> "active", sig |-> s, deadline |-> Deadline(ttl, db.mem[m].deadline),
                  version |-> 1, supersedes |-> {m} \cup db.mem[m].supersedes,
                  sources |-> db.mem[m].sources, from |-> {}]
     IN  db' = PutCandidate(PutMemory(PutMemory(db, m, EndMemory(db.mem[m], "retired")), new, said), c,
                 [NoCandidate EXCEPT !.st = "promoted", !.kind = "correction", !.hint = "replace",
                                     !.match = m, !.sig = s, !.ttl = ttl, !.memory = new])
  /\ UNCHANGED <<seen, revoked, now>>

UpdateMemory(m, s, ttl) ==
  /\ Remembered(db, m) /\ Readable(db.mem[m]) /\ Free(db, s, {m}) /\ db.mem[m].version < MaxVersion
  /\ db' = PutMemory(db, m, [db.mem[m] EXCEPT !.sig = s, !.version = @ + 1,
                                              !.deadline = Deadline(ttl, @)])
  /\ UNCHANGED <<seen, revoked, now>>

(* To what follows, a memory revoked or expired by hand is like a retired one. *)
SetLifecycle(m) ==
  /\ db.mem[m].st = "active" /\ db.mem[m].version < MaxVersion
  /\ db' = PutMemory(db, m, EndMemory(db.mem[m], "retired"))
  /\ UNCHANGED <<seen, revoked, now>>

(* Noticed only by what depends on the source. *)
RevokeSource(o) ==
  /\ o \notin revoked
  /\ \/ \E m \in Memories : o \in db.mem[m].sources
     \/ \E c \in Candidates : db.cand[c].st = "pending" /\ o \in db.cand[c].sources
  /\ revoked' = revoked \cup {o}
  /\ UNCHANGED <<db, seen, now>>

(* Noticed only by what expires. *)
TimePasses ==
  /\ now < MaxTime /\ \E m \in Memories : Due(db, m) \/ db.mem[m].deadline = now + 1
  /\ now' = now + 1
  /\ UNCHANGED <<db, seen, revoked>>

Change ==
  \/ \E c \in Candidates : PromoteCandidate(c) \/ RejectCandidate(c)
  \/ \E m \in Memories : SetLifecycle(m)
  \/ \E s \in Statements :
       \/ \E read \in SUBSET Origins : SuggestStatement(s, read)
       \/ \E rejects \in BOOLEAN : RecordFeedback(s, rejects)
       \/ \E ttl \in BOOLEAN : WriteExplicit(s, ttl)
       \/ \E m \in Memories :
            \/ Extract(s, m, "derived", "none") \/ Extract(s, m, "correction", "none")
            \/ Extract(s, m, "correction", "retire")
            \/ \E ttl \in BOOLEAN : SupersedeMemory(m, s, ttl) \/ UpdateMemory(m, s, ttl)

MemoryStoreNext ==
  \/ calls < MaxCalls /\ calls' = calls + 1 /\ Change
  \/ UNCHANGED calls /\ (ListMemories \/ TimePasses \/ \E o \in Origins : RevokeSource(o))

MemoryStoreSpec == MemoryStoreInit /\ [][MemoryStoreNext]_memoryVars

(* Every source a memory was made from, through suggestions that were       *)
(* repeated, promoted, merged or extracted from other memories, is one its  *)
(* readers need the grant for.                                              *)
ContentIsTraceable ==
  /\ \A m \in Memories : db.mem[m].from \subseteq db.mem[m].sources
  /\ \A c \in Candidates : db.cand[c].from \subseteq db.cand[c].sources

(* A suggestion about a memory is carried out only on the memory as it was  *)
(* read, and a correction keeps the memory's deadline; what it replaced is  *)
(* no longer alive.                                                         *)
CorrectionsAreCurrent ==
  [][\A c \in Candidates :
       LET was == db.cand[c] m == was.match n == db'.cand[c].memory IN
       was.st = "pending" /\ db'.cand[c].st = "promoted" /\ m # 0 =>
         /\ Remembered(db, m) /\ db.mem[m].version = was.version
         /\ n # m => /\ db'.mem[m].st = "retired" /\ m \in db'.mem[n].supersedes
                     /\ db'.mem[n].deadline = db.mem[m].deadline]_memoryVars
=============================================================================
