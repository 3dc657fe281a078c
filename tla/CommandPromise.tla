---------------------------- MODULE CommandPromise ----------------------------
(***************************************************************************)
(* What a device promises about the commands a controller sends it, key by  *)
(* key: the effect happens at most once, a verdict is final, and a verdict  *)
(* means what it says.  "succeeded" is given only when the effect happened, *)
(* "interrupted" only when it has not; after a verdict nothing happens any  *)
(* more.  "failed" and "unknown" promise neither.                           *)
(***************************************************************************)
EXTENDS Naturals

CONSTANT Keys       \* idempotency keys of one controller

VARIABLES
    verdict,        \* "new", "pending" or the final answer
    times           \* how often the effect of a key has happened

promiseVars == <<verdict, times>>

PromiseInit ==
    /\ verdict = [k \in Keys |-> "new"]
    /\ times = [k \in Keys |-> 0]

\* The command is taken on.
Take(k) ==
    /\ verdict[k] = "new"
    /\ verdict' = [verdict EXCEPT ![k] = "pending"]
    /\ UNCHANGED times

\* Its effect happens.
Happen(k) ==
    /\ verdict[k] = "pending" /\ times[k] = 0
    /\ times' = [times EXCEPT ![k] = 1]
    /\ UNCHANGED verdict

\* A command whose effect and verdict are one database transaction.
AtOnce(k) ==
    /\ verdict[k] = "new" /\ times[k] = 0
    /\ verdict' = [verdict EXCEPT ![k] = "succeeded"]
    /\ times' = [times EXCEPT ![k] = 1]

\* Pending commands get their verdict, one of them or, after a restart, all.
Conclude(final) ==
    /\ verdict' = [k \in Keys |-> IF k \in DOMAIN final THEN final[k] ELSE verdict[k]]
    /\ \A k \in DOMAIN final :
           /\ verdict[k] = "pending"
           /\ final[k] = "succeeded" => times[k] = 1
           /\ final[k] = "interrupted" => times[k] = 0
    /\ UNCHANGED times

PromiseNext ==
    \/ \E k \in Keys : Take(k) \/ Happen(k) \/ AtOnce(k)
    \/ \E S \in SUBSET Keys :
           \E final \in [S -> {"succeeded", "failed", "unknown", "interrupted"}] :
               Conclude(final)

PromiseSpec == PromiseInit /\ [][PromiseNext]_promiseVars
=============================================================================
