----------------------------- MODULE MCLongWork -----------------------------
(* Small Tasks, with the policies task_plan gives every Step unless said    *)
(* otherwise, and one fault of each kind that is listed.                    *)
EXTENDS LongWork, TLC

CONSTANTS a1, a2, a3, p1, p2

WriteThenModel == (1 :> "write") @@ (2 :> "model")
ModelThenWrite == (1 :> "model") @@ (2 :> "write")
OneWrite == (1 :> "write")
OneModel == (1 :> "model")
(* A stale timer, a timer, an approval and a join, in turn. *)
Waits == (1 :> "timer") @@ (2 :> "timer") @@ (3 :> "approval") @@ (4 :> "join")
InTurn == [s \in Steps |-> {s - 1} \cap Steps]
Alone == (1 :> {})
Chain == (1 :> {}) @@ (2 :> {1})
Planned == [failed |-> "block", cancelled |-> "cancel", skipped |-> "skip"]
PlannedPolicy == [s \in Steps |-> Planned]
InTurnPolicy == [s \in Steps |-> IF s = 2 THEN [Planned EXCEPT !.failed = "continue"] ELSE Planned]
OneTry == [s \in Steps |-> 1]
BothTries == [s \in Steps |-> 2]

NoFaults == [k \in FaultKinds |-> 0]
OneOf(K) == [k \in FaultKinds |-> IF k \in K THEN 1 ELSE 0]
Lost     == OneOf({"crash", "restart", "call"})
TimedOut == OneOf({"timeout"})
Crashed  == OneOf({"crash"})

AttemptSymmetry == Permutations(Attempts)
(* Executions of the Activity are alike, too. *)
Symmetry == {f @@ g : f \in Permutations(Attempts), g \in Permutations(Procs)}
=============================================================================
