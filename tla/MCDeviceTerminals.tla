------------------------- MODULE MCDeviceTerminals ---------------------------
(* TLC instances of DeviceTerminals. *)
EXTENDS DeviceTerminals, TLC

TermSymmetry == Permutations(Resources) \cup Permutations(Controllers)
                \cup Permutations(Workspaces)
=============================================================================
