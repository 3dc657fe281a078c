---------------------------- MODULE DeviceCommands ----------------------------
(***************************************************************************)
(* Commands a controller sends to a device and their durable receipts:      *)
(* DeviceRpcRouter.dispatch and runExecution (src/agent/server/rpc.ts), the *)
(* receipts and their events (src/main/db/device-commands.ts) and what a    *)
(* restart of the service makes of them.                                    *)
(*                                                                         *)
(* A request may arrive at any time, any number of times: controllers       *)
(* resend after a timeout or a lost connection, and one may use a key again *)
(* for another command.  A transaction commits or leaves no trace.  The     *)
(* process may die between any two of them.                                 *)
(***************************************************************************)
EXTENDS Naturals, Sequences

CONSTANTS
    Keys,           \* idempotency keys of one controller
    Commands,       \* method and parameters, as their digest tells them apart
    Transactions,   \* those of "transaction" methods; the others are executed
    NoCommand, NoKey

ASSUME CommandAssumption ==
    /\ Transactions \subseteq Commands
    /\ NoCommand \notin Commands /\ NoKey \notin Keys

VARIABLES
    status,     \* receipt of each key in device_commands
    command,    \* method and params_digest of the row
    outbox,     \* device_events of each key, oldest first
    current,    \* the key whose dispatch is between acceptance and start
    executor,   \* where runExecution stands with each key (memory)
    effects,    \* how often the handler had its effect, in the world
    returned,   \* history: keys whose handler returned a result
    told        \* history: receipts that were sent in answer to a request

vars == <<status, command, outbox, current, executor, effects, returned, told>>

Statuses == {"none", "accepted", "running", "succeeded", "failed", "unknown",
             "interrupted"}
Terminal == {"succeeded", "failed", "unknown", "interrupted"}
Stages   == {"idle", "running", "acted", "returned", "threw", "unwritten"}

TypeOK ==
    /\ status \in [Keys -> Statuses]
    /\ command \in [Keys -> Commands \cup {NoCommand}]
    /\ outbox \in [Keys -> Seq(Statuses)]
    /\ current \in Keys \cup {NoKey}
    /\ executor \in [Keys -> Stages]
    /\ effects \in [Keys -> Nat]
    /\ returned \subseteq Keys
    /\ told \subseteq [key : Keys, command : Commands, status : Statuses]

Init ==
    /\ status = [k \in Keys |-> "none"]
    /\ command = [k \in Keys |-> NoCommand]
    /\ outbox = [k \in Keys |-> <<>>]
    /\ current = NoKey
    /\ executor = [k \in Keys |-> "idle"]
    /\ effects = [k \in Keys |-> 0]
    /\ returned = {}
    /\ told = {}

-----------------------------------------------------------------------------
(* Receipts *)

\* Mutant: the receipt is updated, the event is forgotten.
TransitionSilently(k, from, to) ==
    /\ status[k] = from
    /\ status' = [status EXCEPT ![k] = to]
    /\ UNCHANGED outbox

\* transitionDeviceCommand: the receipt and its event in one transaction.
Transition(k, from, to) ==
    /\ status[k] = from
    /\ status' = [status EXCEPT ![k] = to]
    /\ outbox' = [outbox EXCEPT ![k] = Append(@, to)]

Tell(k, c, s) == told' = told \cup {[key |-> k, command |-> c, status |-> s]}

\* Mutant: the lookup of an earlier receipt is skipped.
UnknownKeyAssumed(k) == status[k] \notin {"accepted", "running"}

\* No receipt under this key yet.
UnknownKey(k) == status[k] = "none"

\* Mutant: the digest is not compared.
SameKey(k, c) == status[k] # "none"

\* A receipt of the same command: method and params_digest are equal.
SameCommand(k, c) == status[k] # "none" /\ command[k] = c

-----------------------------------------------------------------------------
(* dispatch *)

\* The key is known: its receipt is returned and nothing is executed.
Replay(k, c) ==
    /\ current = NoKey
    /\ SameCommand(k, c)
    /\ Tell(k, c, status[k])
    /\ UNCHANGED <<status, command, outbox, current, executor, effects, returned>>

\* A transaction method: acceptance, business write, both transitions and the
\* check of the reply commit together or not at all.
RunTransaction(k, c) ==
    /\ current = NoKey
    /\ c \in Transactions /\ UnknownKey(k)
    /\ status' = [status EXCEPT ![k] = "succeeded"]
    /\ command' = [command EXCEPT ![k] = c]
    /\ outbox' = [outbox EXCEPT ![k] = @ \o <<"accepted", "running", "succeeded">>]
    /\ effects' = [effects EXCEPT ![k] = @ + 1]
    /\ returned' = returned \cup {k}
    /\ Tell(k, c, "succeeded")
    /\ UNCHANGED <<current, executor>>

\* acceptDeviceCommand of an execution method.
Accept(k, c) ==
    /\ current = NoKey
    /\ c \notin Transactions /\ UnknownKey(k)
    /\ status' = [status EXCEPT ![k] = "accepted"]
    /\ outbox' = [outbox EXCEPT ![k] = Append(@, "accepted")]
    /\ command' = [command EXCEPT ![k] = c]
    /\ current' = k
    /\ UNCHANGED <<executor, effects, returned, told>>

\* accepted -> running, then the handler is called.
Start(k) ==
    /\ current = k
    /\ Transition(k, "accepted", "running")
    /\ executor' = [executor EXCEPT ![k] = "running"]
    /\ current' = NoKey
    /\ UNCHANGED <<command, effects, returned, told>>

\* That transition throws; the receipt stays accepted until the next start.
StartFails(k) ==
    /\ current = k
    /\ current' = NoKey
    /\ UNCHANGED <<status, command, outbox, executor, effects, returned, told>>

-----------------------------------------------------------------------------
(* The handler and its verdict *)

\* The effect of the handler: a process, a run, a lease, a repository.
HandlerActs(k) ==
    /\ executor[k] = "running"
    /\ executor' = [executor EXCEPT ![k] = "acted"]
    /\ effects' = [effects EXCEPT ![k] = @ + 1]
    /\ UNCHANGED <<status, command, outbox, current, returned, told>>

HandlerReturns(k) ==
    /\ executor[k] = "acted"
    /\ executor' = [executor EXCEPT ![k] = "returned"]
    /\ returned' = returned \cup {k}
    /\ UNCHANGED <<status, command, outbox, current, effects, told>>

\* It may give up before or after it had an effect.
HandlerThrows(k) ==
    /\ executor[k] \in {"running", "acted"}
    /\ executor' = [executor EXCEPT ![k] = "threw"]
    /\ UNCHANGED <<status, command, outbox, current, effects, returned, told>>

\* Mutant: the receipt is written when the handler has been called, its promise
\* not awaited.
WriteSucceededEarly(k) ==
    /\ executor[k] \in {"running", "returned"}
    /\ Transition(k, "running", "succeeded")
    /\ executor' = [executor EXCEPT ![k] = "idle"]
    /\ Tell(k, command[k], "succeeded")
    /\ UNCHANGED <<command, current, effects, returned>>

WriteSucceeded(k) ==
    /\ executor[k] = "returned"
    /\ Transition(k, "running", "succeeded")
    /\ executor' = [executor EXCEPT ![k] = "idle"]
    /\ Tell(k, command[k], "succeeded")
    /\ UNCHANGED <<command, current, effects, returned>>

\* The result does not fit its schema (checkedOutput) or can not be encoded: the
\* catch block takes over.
WriteSucceededFails(k) ==
    /\ executor[k] = "returned"
    /\ executor' = [executor EXCEPT ![k] = "unwritten"]
    /\ UNCHANGED <<status, command, outbox, current, effects, returned, told>>

\* The catch block: whatever was thrown, the receipt says failed.
WriteFailed(k) ==
    /\ executor[k] \in {"threw", "unwritten"}
    /\ Transition(k, "running", "failed")
    /\ executor' = [executor EXCEPT ![k] = "idle"]
    /\ Tell(k, command[k], "failed")
    /\ UNCHANGED <<command, current, effects, returned>>

\* Not even that can be written (the database is busy with an import): the receipt
\* stays running.
WriteNothing(k) ==
    /\ executor[k] \in {"threw", "unwritten"}
    /\ executor' = [executor EXCEPT ![k] = "idle"]
    /\ UNCHANGED <<status, command, outbox, current, effects, returned, told>>

-----------------------------------------------------------------------------
(* Restart *)

\* Mutant: every receipt that has not succeeded is swept.
NotSucceeded == {k \in Keys : status[k] \notin {"none", "succeeded"}}

\* The rows interruptStaleDeviceCommands selects.
Stale == {k \in Keys : status[k] \in {"accepted", "running"}}

\* Mutant: whatever was under way is taken not to have happened.
SweptAsInterrupted(k) == "interrupted"

\* accepted: nothing was started; running: nobody knows.
Swept(k) == IF status[k] = "running" THEN "unknown" ELSE "interrupted"

\* The process dies and the next one sweeps before it listens.
Restart ==
    /\ status' = [k \in Keys |-> IF k \in Stale THEN Swept(k) ELSE status[k]]
    /\ outbox' = [k \in Keys |->
           IF k \in Stale THEN Append(outbox[k], Swept(k)) ELSE outbox[k]]
    /\ executor' = [k \in Keys |-> "idle"]
    /\ current' = NoKey
    /\ UNCHANGED <<command, effects, returned, told>>

Next ==
    \/ \E k \in Keys :
           \/ \E c \in Commands : Replay(k, c) \/ RunTransaction(k, c) \/ Accept(k, c)
           \/ Start(k) \/ StartFails(k)
           \/ HandlerActs(k) \/ HandlerReturns(k) \/ HandlerThrows(k)
           \/ WriteSucceeded(k) \/ WriteSucceededFails(k)
           \/ WriteFailed(k) \/ WriteNothing(k)
    \/ Restart

Spec == Init /\ [][Next]_vars

-----------------------------------------------------------------------------
(* Properties *)

\* The promise to the controller, over the receipts: effects at most once,
\* final verdicts, and verdicts that mean what they say (device-commands.ts:107-114,
\* rpc.ts:48-53).
Promise == INSTANCE CommandPromise WITH
    verdict <- [k \in Keys |->
        CASE status[k] = "none" -> "new"
          [] status[k] \in {"accepted", "running"} -> "pending"
          [] OTHER -> status[k]],
    times <- effects

KeepsPromise == Promise!PromiseSpec

\* Answers to one key agree: two requests are never told different verdicts, not
\* across a restart either, and a receipt only ever answers the command it was
\* written for (acceptDeviceCommand, the digest comparison).
AnswersAgree ==
    \A a, b \in told : a.key = b.key =>
        /\ a.command = b.command
        /\ a.status \in Terminal /\ b.status \in Terminal => a.status = b.status

\* The event stream of a key ends in the state of its receipt, and every event
\* of it is a step of the receipt's life: a controller that follows the outbox
\* ends up with what a query would tell it (transition and event share a
\* transaction).
OutboxTellsReceipts ==
    \A k \in Keys :
        /\ status[k] = "none" <=> outbox[k] = <<>>
        /\ status[k] # "none" => outbox[k][Len(outbox[k])] = status[k]
        /\ \A i \in 1 .. Len(outbox[k]) - 1 : outbox[k][i] \notin Terminal

\* No receipt lies about the handler (the comment of the catch block, rpc.ts:124):
\* "failed" is not written for a command whose handler returned its result.
NoFalseFailure == \A k \in Keys : status[k] = "failed" => k \notin returned

\* What was told still stands, and was told of the command in the receipt.
ToldInv ==
    \A t \in told :
        /\ status[t.key] # "none"
        /\ command[t.key] = t.command
        /\ t.status \in Terminal => status[t.key] = t.status

\* The inductive invariant behind the promise: what the executor and the receipt
\* say of a command fits what has happened in the world.
CommandInv ==
    /\ TypeOK
    /\ \A k \in Keys :
           /\ status[k] \in {"none", "accepted", "interrupted"} => effects[k] = 0
           /\ status[k] = "succeeded" => effects[k] = 1
           /\ effects[k] \in {0, 1}
           /\ executor[k] # "idle" => status[k] = "running"
           /\ executor[k] = "running" => effects[k] = 0
           /\ executor[k] \in {"acted", "returned", "unwritten"} => effects[k] = 1
           /\ current = k => status[k] = "accepted"
           /\ status[k] # "none" => command[k] \in Commands
=============================================================================
