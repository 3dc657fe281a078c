-------------------------- MODULE MCDeviceCommands ---------------------------
(* TLC instance of DeviceCommands: keys are alike, commands are not. *)
EXTENDS DeviceCommands, TLC

KeysAreAlike == Permutations(Keys)
=============================================================================
