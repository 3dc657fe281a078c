---------------------------- MODULE MCGoalRuntime ----------------------------
(* TLC instances of GoalRuntime. *)
EXTENDS GoalRuntime
=============================================================================
