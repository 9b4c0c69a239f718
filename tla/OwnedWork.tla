----------------------------- MODULE OwnedWork -----------------------------
(***************************************************************************)
(* What a driven Task promises about ownership, without saying how: an     *)
(* Attempt holds its Step from the moment it is taken until its outcome is *)
(* decided, is executed at most once, and never lets go of the Step while  *)
(* it runs; a Task is offered for review, or settled as cancelled, only    *)
(* when nothing holds a Step any more.  LongWork implements this.          *)
(***************************************************************************)
EXTENDS FiniteSets

CONSTANTS Steps, Attempts, None

VARIABLES
  phase,   \* of the Task
  holder,  \* Steps -> the Attempt whose outcome is open, or None
  taken,   \* Attempts that have ever held a Step
  live,    \* Attempts being executed
  begun    \* Attempts that have been executed, or never will be

ownedVars == <<phase, holder, taken, live, begun>>

Free == \A s \in Steps : holder[s] = None

OwnedInit ==
  /\ phase = "open" /\ holder = [s \in Steps |-> None]
  /\ taken = {} /\ live = {} /\ begun = {}

Take(s, a) ==
  /\ phase = "open" /\ holder[s] = None /\ a \notin taken
  /\ holder' = [holder EXCEPT ![s] = a] /\ taken' = taken \cup {a}
  /\ UNCHANGED <<phase, live, begun>>

Start(s) ==
  /\ phase = "open" /\ holder[s] # None /\ holder[s] \notin begun
  /\ live' = live \cup {holder[s]} /\ begun' = begun \cup {holder[s]}
  /\ UNCHANGED <<phase, holder, taken>>

(* Executions end, one or, with their process, several at once. *)
End(S) ==
  /\ live' = live \ S /\ begun' = begun \cup S
  /\ UNCHANGED <<phase, holder, taken>>

Release(s) ==
  /\ holder[s] # None /\ holder[s] \notin live
  /\ holder' = [holder EXCEPT ![s] = None]
  /\ UNCHANGED <<phase, taken, live, begun>>

Phase(from, to) == phase \in from /\ phase' = to /\ UNCHANGED <<holder, taken, live, begun>>

Offer  == Free /\ Phase({"open"}, "review")
Accept == Phase({"review"}, "accepted")
Stop   == Phase({"open", "review"}, "stopping")
Stopped == Free /\ live = {} /\ Phase({"stopping"}, "stopped")

OwnedNext ==
  \/ \E s \in Steps : Start(s) \/ Release(s) \/ \E a \in Attempts : Take(s, a)
  \/ \E S \in SUBSET Attempts : End(S)
  \/ Offer \/ Accept \/ Stop \/ Stopped

OwnedSpec == OwnedInit /\ [][OwnedNext]_ownedVars
=============================================================================
