--------------------------- MODULE MCInputLease -----------------------------
(* TLC instance of InputLease: two terminals, two controllers. *)
EXTENDS InputLease, TLC

\* Neither terminals nor controllers are told apart by any action or property.
LeaseSymmetry == Permutations(Resources) \cup Permutations(Controllers)
=============================================================================
