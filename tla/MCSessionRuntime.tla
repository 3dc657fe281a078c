--------------------------- MODULE MCSessionRuntime ---------------------------
(* TLC instances of SessionRuntime. *)
EXTENDS SessionRuntime, TLC

\* Messages of the same length are alike, and so are reports.
Alike == Permutations(Long) \cup Permutations(Messages \ Long) \cup Permutations(Reports)
=============================================================================
