-------------------------- MODULE MCLongWorkStore --------------------------
(* The store with a checkpoint_write root Step w and one other Step, a Model *)
(* Step r or an approval p, and any caller at all.                           *)
EXTENDS LongWorkStore, TLC

CONSTANTS r, w, p, a1, a2

MCKind == [s \in Steps |-> IF s = w THEN "write" ELSE IF s = r THEN "model" ELSE "approval"]
MCMaxAttempts == [s \in Steps |-> 2]
AttemptSymmetry == Permutations(Attempts)
=============================================================================
