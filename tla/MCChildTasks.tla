---------------------------- MODULE MCChildTasks ----------------------------
(* A Task with one child. *)
EXTENDS ChildTasks

OneChild == <<{"ready"}, {"none"}>>
=============================================================================
