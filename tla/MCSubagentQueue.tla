-------------------------- MODULE MCSubagentQueue ---------------------------
(* TLC instances of the subagent queue.                                     *)
EXTENDS SubagentQueue, TLC

OneSlot      == [perSession |-> 1, global |-> 1]
OnePerRun    == [perSession |-> 1, global |-> 2]
TwoSlots     == [perSession |-> 2, global |-> 2]
Disabled     == [perSession |-> 2, global |-> 0]

TightOrWide  == {OneSlot, TwoSlots}
OnlyTwo      == {TwoSlots}
OnlyOnePerRun == {OnePerRun}
OnOrOff      == {OneSlot, Disabled}

DispatchesAreAlike == Permutations(Subs) \cup Permutations(Mains)
=============================================================================
