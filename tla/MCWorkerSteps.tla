--------------------------- MODULE MCWorkerSteps ---------------------------
(* One Worker Step, and the bounds under which TLC explores it. *)
EXTENDS WorkerSteps, TLC

MCKind        == [s \in Steps |-> "worker"]
MCMaxAttempts == [s \in Steps |-> 1]
MCMaxMoves    == <<3, 1>>

(* The agents, and the executions, are alike. *)
Alike == Permutations(Attempts) \cup Permutations(Activities)

(* An agent that was done has gone on, idle or to work again. *)
GoneOn(a) == \E i \in 1..(Now(a) - 1) : pane[a].hist[i] = "done"

(* One disturbance at a time: a crash of the Temporal Worker process, a     *)
(* second Attempt, two executions of the Activity at once, the closure with *)
(* which a restarted server begins, or an agent that goes on after it was   *)
(* done.                                                                    *)
OneDisturbance ==
  (inst - 1) + Cardinality({a \in Attempts : att[a].num = 2})
    + (IF \A p \in Activities : ~At(p, "idle") THEN 1 ELSE 0)
    + (IF exec[Server].then = "idle" THEN 1 ELSE 0)
    + (IF \E a \in Attempts : GoneOn(a) THEN 1 ELSE 0) <= 1
=============================================================================
