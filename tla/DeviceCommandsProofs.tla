------------------------- MODULE DeviceCommandsProofs -------------------------
(***************************************************************************)
(* The receipts of a device keep their promise for any number of keys and   *)
(* commands, whatever crashes and resent requests come in between.          *)
(***************************************************************************)
EXTENDS DeviceCommands, SequenceTheorems, TLAPS

\* Writing another status keeps the types of the receipts and of their events.
LEMMA TransitionType ==
    ASSUME TypeOK, NEW k \in Keys, NEW from \in Statuses, NEW to \in Statuses,
           Transition(k, from, to)
    PROVE  status' \in [Keys -> Statuses] /\ outbox' \in [Keys -> Seq(Statuses)]
<1>1. Append(outbox[k], to) \in Seq(Statuses)
  BY AppendProperties DEF TypeOK
<1>2. QED BY <1>1 DEF Transition, TypeOK

LEMMA ReplayKeepsInv ==
    ASSUME CommandInv, NEW k \in Keys, NEW c \in Commands, Replay(k, c)
    PROVE  CommandInv'
BY DEF CommandInv, TypeOK, Replay, SameCommand, Tell

LEMMA TransactionKeepsInv ==
    ASSUME CommandInv, NEW k \in Keys, NEW c \in Commands, RunTransaction(k, c)
    PROVE  CommandInv'
<1>1. outbox[k] \o <<"accepted", "running", "succeeded">> \in Seq(Statuses)
  <2>1. <<"accepted", "running", "succeeded">> \in Seq(Statuses)
    BY DEF Statuses
  <2>2. outbox[k] \in Seq(Statuses)
    BY DEF CommandInv, TypeOK
  <2>3. QED BY <2>1, <2>2, ConcatProperties
<1>2. outbox' \in [Keys -> Seq(Statuses)]
  BY <1>1 DEF RunTransaction, CommandInv, TypeOK
<1>3. TypeOK'
  BY <1>2 DEF RunTransaction, CommandInv, TypeOK, Tell, Statuses
<1>4. \A x \in Keys \ {k} : /\ status'[x] = status[x] /\ effects'[x] = effects[x]
                            /\ executor'[x] = executor[x] /\ command'[x] = command[x]
  BY DEF RunTransaction, CommandInv, TypeOK
<1>5. /\ status'[k] = "succeeded" /\ effects'[k] = 1 /\ executor'[k] = "idle"
      /\ current' = NoKey /\ command'[k] = c
  BY CommandAssumption DEF RunTransaction, CommandInv, TypeOK, UnknownKey
<1>6. QED BY <1>3, <1>4, <1>5, CommandAssumption DEF CommandInv

LEMMA AcceptKeepsInv ==
    ASSUME CommandInv, NEW k \in Keys, NEW c \in Commands, Accept(k, c)
    PROVE  CommandInv'
<1>1. Append(outbox[k], "accepted") \in Seq(Statuses)
  BY AppendProperties DEF CommandInv, TypeOK, Statuses
<1>2. TypeOK'
  BY <1>1 DEF Accept, CommandInv, TypeOK, Statuses
<1>3. QED BY <1>2 DEF Accept, CommandInv, TypeOK, UnknownKey

LEMMA StartKeepsInv ==
    ASSUME CommandInv, NEW k \in Keys, Start(k) \/ StartFails(k)
    PROVE  CommandInv'
<1>1. CASE Start(k)
  <2>1. TypeOK'
    BY <1>1, TransitionType DEF Start, CommandInv, TypeOK, Statuses, Stages
  <2>2. QED
    BY <1>1, <2>1, CommandAssumption DEF Start, Transition, CommandInv, TypeOK
<1>2. CASE StartFails(k)
  BY <1>2, CommandAssumption DEF StartFails, CommandInv, TypeOK
<1>3. QED BY <1>1, <1>2

LEMMA HandlerKeepsInv ==
    ASSUME CommandInv, NEW k \in Keys,
           \/ HandlerActs(k) \/ HandlerReturns(k) \/ HandlerThrows(k)
           \/ WriteSucceededFails(k) \/ WriteNothing(k)
    PROVE  CommandInv'
<1>1. CASE HandlerActs(k)
  BY <1>1 DEF HandlerActs, CommandInv, TypeOK, Stages
<1>2. CASE HandlerReturns(k)
  BY <1>2 DEF HandlerReturns, CommandInv, TypeOK, Stages
<1>3. CASE HandlerThrows(k)
  BY <1>3 DEF HandlerThrows, CommandInv, TypeOK, Stages
<1>4. CASE WriteSucceededFails(k)
  BY <1>4 DEF WriteSucceededFails, CommandInv, TypeOK, Stages
<1>5. CASE WriteNothing(k)
  BY <1>5 DEF WriteNothing, CommandInv, TypeOK, Stages
<1>6. QED BY <1>1, <1>2, <1>3, <1>4, <1>5

LEMMA VerdictKeepsInv ==
    ASSUME CommandInv, NEW k \in Keys, WriteSucceeded(k) \/ WriteFailed(k)
    PROVE  CommandInv'
<1>1. status[k] = "running" /\ command[k] \in Commands
  BY DEF WriteSucceeded, WriteFailed, Transition, CommandInv, TypeOK
<1>2. PICK to \in {"succeeded", "failed"} :
          /\ Transition(k, "running", to)
          /\ executor' = [executor EXCEPT ![k] = "idle"]
          /\ Tell(k, command[k], to)
          /\ to = "succeeded" => executor[k] = "returned"
          /\ UNCHANGED <<command, current, effects, returned>>
  BY DEF WriteSucceeded, WriteFailed
<1>3. status' \in [Keys -> Statuses] /\ outbox' \in [Keys -> Seq(Statuses)]
  BY <1>2, TransitionType DEF CommandInv, Statuses
<1>4. told' \subseteq [key : Keys, command : Commands, status : Statuses]
  BY <1>1, <1>2 DEF Tell, CommandInv, TypeOK, Statuses
<1>5. TypeOK'
  BY <1>2, <1>3, <1>4 DEF CommandInv, TypeOK, Stages
<1>6. QED BY <1>2, <1>5 DEF Transition, CommandInv, TypeOK

\* A restart only concludes what was pending.
LEMMA RestartKeepsInv ==
    ASSUME CommandInv, Restart
    PROVE  CommandInv'
<1>1. \A k \in Keys : Swept(k) \in Statuses
  BY DEF Swept, Statuses
<1>2. ASSUME NEW k \in Keys PROVE Append(outbox[k], Swept(k)) \in Seq(Statuses)
  <2>1. outbox[k] \in Seq(Statuses) /\ Swept(k) \in Statuses
    BY <1>1 DEF CommandInv, TypeOK
  <2>2. QED BY <2>1, AppendProperties
<1>3. TypeOK'
  BY <1>1, <1>2 DEF Restart, CommandInv, TypeOK, Stages
<1>4. QED
  BY <1>3, CommandAssumption DEF Restart, CommandInv, TypeOK, Stale, Swept

\* The receipts, the executor and the world agree in every reachable state.
THEOREM CommandInvariant == Spec => []CommandInv
<1>1. Init => CommandInv
  BY CommandAssumption DEF Init, CommandInv, TypeOK, Statuses, Stages
<1>2. CommandInv /\ [Next]_vars => CommandInv'
  <2> SUFFICES ASSUME CommandInv, [Next]_vars PROVE CommandInv'
    OBVIOUS
  <2>1. CASE UNCHANGED vars
    BY <2>1 DEF vars, CommandInv, TypeOK
  <2>2. QED
    BY <2>1, ReplayKeepsInv, TransactionKeepsInv, AcceptKeepsInv, StartKeepsInv,
       HandlerKeepsInv, VerdictKeepsInv, RestartKeepsInv DEF Next
<1>3. QED BY <1>1, <1>2, PTL DEF Spec

\* What was told about a command stays true (rpc.ts, the replayed receipt).
LEMMA ToldKeepsInv ==
    ASSUME CommandInv, ToldInv, [Next]_vars
    PROVE  ToldInv'
<1>1. ASSUME NEW k \in Keys, NEW c \in Commands, Replay(k, c)
      PROVE  ToldInv'
  BY <1>1 DEF Replay, SameCommand, Tell, ToldInv, CommandInv, TypeOK
<1>2. ASSUME NEW k \in Keys, NEW c \in Commands, RunTransaction(k, c)
      PROVE  ToldInv'
  BY <1>2 DEF RunTransaction, UnknownKey, Tell, ToldInv, CommandInv, TypeOK
<1>3. ASSUME NEW k \in Keys, NEW c \in Commands, Accept(k, c)
      PROVE  ToldInv'
  BY <1>3 DEF Accept, UnknownKey, ToldInv, CommandInv, TypeOK
<1>4. ASSUME NEW k \in Keys, Start(k)
      PROVE  ToldInv'
  BY <1>4 DEF Start, Transition, Terminal, ToldInv, CommandInv, TypeOK
<1>5. ASSUME NEW k \in Keys, WriteSucceeded(k) \/ WriteFailed(k)
      PROVE  ToldInv'
  BY <1>5 DEF WriteSucceeded, WriteFailed, Transition, Tell, Terminal, ToldInv,
              CommandInv, TypeOK
<1>6. CASE Restart
  BY <1>6 DEF Restart, Stale, Swept, Terminal, ToldInv, CommandInv, TypeOK
<1>7. CASE UNCHANGED <<status, command, told>>
  BY <1>7 DEF ToldInv
<1>8. QED
  BY <1>1, <1>2, <1>3, <1>4, <1>5, <1>6, <1>7
     DEF Next, StartFails, HandlerActs, HandlerReturns, HandlerThrows,
         WriteSucceededFails, WriteNothing, vars

\* Whoever asks about a key, whenever and however often, is told of one command
\* and of one verdict (device-commands.ts, acceptDeviceCommand).
THEOREM AnswersNeverDisagree == Spec => []AnswersAgree
<1>1. Init => ToldInv
  BY DEF Init, ToldInv
<1>2. CommandInv /\ ToldInv /\ [Next]_vars => ToldInv'
  BY ToldKeepsInv
<1>3. ToldInv => AnswersAgree
  BY DEF ToldInv, AnswersAgree
<1>4. QED BY <1>1, <1>2, <1>3, CommandInvariant, PTL DEF Spec

-----------------------------------------------------------------------------
(* The events *)

\* What OutboxTellsReceipts says of one key whose receipt is s and whose events
\* are q.
Tells(s, q) ==
    /\ s = "none" <=> q = <<>>
    /\ s # "none" => q[Len(q)] = s
    /\ \A i \in 1 .. Len(q) - 1 : q[i] \notin Terminal

\* A receipt that is not final takes its next state and the event of it together
\* (transitionDeviceCommand, acceptDeviceCommand).
LEMMA NextEventTells ==
    ASSUME NEW s \in Statuses, NEW q \in Seq(Statuses), Tells(s, q),
           s \notin Terminal, NEW t \in Statuses \ {"none"}
    PROVE  Tells(t, Append(q, t))
<1> DEFINE e == Append(q, t)
<1>1. /\ e \in Seq(Statuses) /\ Len(e) = Len(q) + 1 /\ Len(q) \in Nat
      /\ \A i \in 1 .. Len(q) : e[i] = q[i]
      /\ e[Len(q) + 1] = t
  BY AppendProperties, LenProperties
<1> HIDE DEF e
<1>2. t # "none" /\ e # <<>> /\ e[Len(e)] = t
  BY <1>1
<1>3. \A i \in 1 .. Len(e) - 1 : e[i] \notin Terminal
  <2> SUFFICES ASSUME NEW i \in 1 .. Len(q) PROVE q[i] \notin Terminal
    BY <1>1
  <2>1. CASE i = Len(q)
    <3>1. q # <<>>
      BY <2>1, <1>1
    <3>2. QED BY <2>1, <3>1 DEF Tells
  <2>2. CASE i # Len(q)
    BY <2>2, <1>1 DEF Tells
  <2>3. QED BY <2>1, <2>2
<1>4. Tells(t, e)
  BY <1>2, <1>3 DEF Tells
<1>5. QED BY <1>4 DEF e

\* A step that moves one receipt on keeps the events of every key true.
LEMMA OneEventKeepsTelling ==
    ASSUME TypeOK, OutboxTellsReceipts, NEW k \in Keys, NEW t \in Statuses \ {"none"},
           status[k] \notin Terminal,
           status' = [status EXCEPT ![k] = t],
           outbox' = [outbox EXCEPT ![k] = Append(outbox[k], t)]
    PROVE  OutboxTellsReceipts'
<1>1. \A x \in Keys : Tells(status[x], outbox[x])
  BY DEF OutboxTellsReceipts, Tells
<1>2. status[k] \in Statuses /\ outbox[k] \in Seq(Statuses)
  BY DEF TypeOK
<1>3. Tells(t, Append(outbox[k], t))
  BY <1>1, <1>2, NextEventTells
<1>4. \A x \in Keys : Tells(status'[x], outbox'[x])
  BY <1>1, <1>3 DEF TypeOK
<1>5. QED BY <1>4 DEF OutboxTellsReceipts, Tells

\* Every step writes a receipt and its event in one transaction.
LEMMA StepKeepsTelling ==
    ASSUME CommandInv, OutboxTellsReceipts, [Next]_vars
    PROVE  OutboxTellsReceipts'
<1>1. ASSUME NEW k \in Keys, NEW c \in Commands, RunTransaction(k, c)
      PROVE  OutboxTellsReceipts'
  <2> DEFINE all == <<"accepted", "running", "succeeded">>
  <2>1. status[k] = "none" /\ outbox[k] = <<>>
    BY <1>1 DEF RunTransaction, UnknownKey, OutboxTellsReceipts
  <2>2. <<>> \o all = all
    OBVIOUS
  <2>3. Tells("succeeded", all)
    BY DEF Tells, Terminal
  <2>4. status' = [status EXCEPT ![k] = "succeeded"] /\ outbox' = [outbox EXCEPT ![k] = all]
    BY <1>1, <2>1, <2>2 DEF RunTransaction
  <2> HIDE DEF all
  <2>5. \A x \in Keys : Tells(status'[x], outbox'[x])
    BY <2>3, <2>4 DEF OutboxTellsReceipts, Tells, CommandInv, TypeOK
  <2>6. QED BY <2>5 DEF OutboxTellsReceipts, Tells
<1>2. ASSUME NEW k \in Keys, NEW c \in Commands, Accept(k, c)
      PROVE  OutboxTellsReceipts'
  <2>1. status[k] \notin Terminal /\ "accepted" \in Statuses \ {"none"}
    BY <1>2 DEF Accept, UnknownKey, Terminal, Statuses
  <2>2. QED BY <1>2, <2>1, OneEventKeepsTelling DEF Accept, CommandInv
<1>3. ASSUME NEW k \in Keys, NEW from \in {"accepted", "running"},
             NEW to \in {"running", "succeeded", "failed"}, Transition(k, from, to)
      PROVE  OutboxTellsReceipts'
  <2>1. status[k] \notin Terminal /\ to \in Statuses \ {"none"}
    BY <1>3 DEF Transition, Terminal, Statuses
  <2>2. QED BY <1>3, <2>1, OneEventKeepsTelling DEF Transition, CommandInv
<1>4. CASE Restart
  <2>1. \A x \in Keys : Tells(status[x], outbox[x])
    BY DEF OutboxTellsReceipts, Tells
  <2>2. ASSUME NEW x \in Stale PROVE Tells(Swept(x), Append(outbox[x], Swept(x)))
    <3>1. x \in Keys /\ status[x] \notin Terminal /\ Swept(x) \in Statuses \ {"none"}
      BY DEF Stale, Terminal, Swept, Statuses
    <3>2. QED BY <2>1, <3>1, NextEventTells DEF CommandInv, TypeOK
  <2>3. \A x \in Keys : Tells(status'[x], outbox'[x])
    BY <1>4, <2>1, <2>2 DEF Restart
  <2>4. QED BY <2>3 DEF OutboxTellsReceipts, Tells
<1>5. CASE UNCHANGED <<status, outbox>>
  BY <1>5 DEF OutboxTellsReceipts
<1>6. QED
  BY <1>1, <1>2, <1>3, <1>4, <1>5
     DEF Next, Replay, Start, StartFails, HandlerActs, HandlerReturns, HandlerThrows,
         WriteSucceeded, WriteSucceededFails, WriteFailed, WriteNothing, vars

\* A controller that follows the events of a key ends where a query would: the
\* last event is the receipt's state and no event comes after a final one, over
\* any number of crashes (device-commands.ts, transition and sweep).
THEOREM EventsFollowReceipts == Spec => []OutboxTellsReceipts
<1>1. Init => OutboxTellsReceipts
  <2>1. ASSUME Init, NEW k \in Keys PROVE Tells(status[k], outbox[k])
    <3>1. status[k] = "none" /\ outbox[k] = <<>>
      BY <2>1 DEF Init
    <3>2. outbox[k] \in Seq(Statuses) /\ Len(outbox[k]) = 0
      BY <3>1
    <3>3. QED BY <3>1, <3>2 DEF Tells
  <2>2. (\A k \in Keys : Tells(status[k], outbox[k])) => OutboxTellsReceipts
    BY Zenon DEF OutboxTellsReceipts, Tells
  <2>3. QED BY <2>1, <2>2
<1>2. CommandInv /\ OutboxTellsReceipts /\ [Next]_vars => OutboxTellsReceipts'
  BY StepKeepsTelling
<1>3. QED BY <1>1, <1>2, CommandInvariant, PTL DEF Spec

-----------------------------------------------------------------------------
(* The refinement *)

\* Verdicts for any set of pending keys are a step of the promise.
LEMMA Concluding ==
    ASSUME NEW S \in SUBSET Keys,
           NEW final \in [S -> {"succeeded", "failed", "unknown", "interrupted"}],
           Promise!Conclude(final)
    PROVE  Promise!PromiseNext
BY DEF Promise!PromiseNext

\* A step that gives key k the verdict s is a Conclude of the promise.
LEMMA OneVerdict ==
    ASSUME CommandInv, NEW k \in Keys, NEW s \in {"succeeded", "failed"},
           status[k] = "running", status' = [status EXCEPT ![k] = s],
           s = "succeeded" => effects[k] = 1, UNCHANGED effects
    PROVE  Promise!PromiseNext
<1> DEFINE final == [x \in {k} |-> s]
<1>1. final \in [{k} -> {"succeeded", "failed", "unknown", "interrupted"}]
  OBVIOUS
<1>2. Promise!Conclude(final)
  BY DEF Promise!Conclude, CommandInv, TypeOK
<1>3. {k} \in SUBSET Keys
  OBVIOUS
<1>4. QED BY <1>1, <1>2, <1>3 DEF Promise!PromiseNext

\* Receipts and effects behave as CommandPromise says: an effect happens at most
\* once and only while its command is pending, and no verdict is ever revised
\* (rpc.ts:48-53, device-commands.ts:87 and 107-114).
THEOREM CommandsKeepPromise == Spec => KeepsPromise
<1>1. Init => Promise!PromiseInit
  BY DEF Init, Promise!PromiseInit
<1>2. CommandInv /\ [Next]_vars => [Promise!PromiseNext]_(Promise!promiseVars)
  <2> SUFFICES ASSUME CommandInv, [Next]_vars
               PROVE  Promise!PromiseNext \/ UNCHANGED Promise!promiseVars
    OBVIOUS
  <2>1. ASSUME NEW k \in Keys, NEW c \in Commands, RunTransaction(k, c)
        PROVE  Promise!PromiseNext
    <3>1. /\ status[k] = "none" /\ effects[k] = 0
          /\ status' = [status EXCEPT ![k] = "succeeded"]
          /\ effects' = [effects EXCEPT ![k] = 1]
      <4>1. status[k] = "none" /\ effects[k] = 0
        BY <2>1 DEF RunTransaction, UnknownKey, CommandInv
      <4>2. effects[k] + 1 = 1
        BY <4>1
      <4>3. QED BY <2>1, <4>1, <4>2 DEF RunTransaction
    <3>2. Promise!AtOnce(k)
      BY <3>1 DEF Promise!AtOnce, CommandInv, TypeOK
    <3>3. QED BY <3>2 DEF Promise!PromiseNext
  <2>2. ASSUME NEW k \in Keys, NEW c \in Commands, Accept(k, c)
        PROVE  Promise!PromiseNext
    <3>1. Promise!Take(k)
      BY <2>2 DEF Accept, UnknownKey, Promise!Take, CommandInv, TypeOK
    <3>2. QED BY <3>1 DEF Promise!PromiseNext
  <2>3. ASSUME NEW k \in Keys, HandlerActs(k)
        PROVE  Promise!PromiseNext
    <3>1. /\ status[k] = "running" /\ effects[k] = 0
          /\ effects' = [effects EXCEPT ![k] = 1]
          /\ UNCHANGED status
      <4>1. status[k] = "running" /\ effects[k] = 0
        BY <2>3 DEF HandlerActs, CommandInv
      <4>2. effects[k] + 1 = 1
        BY <4>1
      <4>3. QED BY <2>3, <4>1, <4>2 DEF HandlerActs
    <3>2. Promise!Happen(k)
      BY <3>1 DEF Promise!Happen, CommandInv, TypeOK
    <3>3. QED BY <3>2 DEF Promise!PromiseNext
  <2>4. ASSUME NEW k \in Keys, WriteSucceeded(k)
        PROVE  Promise!PromiseNext
    BY <2>4, OneVerdict DEF WriteSucceeded, Transition, CommandInv
  <2>5. ASSUME NEW k \in Keys, WriteFailed(k)
        PROVE  Promise!PromiseNext
    BY <2>5, OneVerdict DEF WriteFailed, Transition
  <2>6. CASE Restart
    <3>1. PICK S \in SUBSET Keys : S = Stale
      BY DEF Stale
    <3>2. PICK final : final = [k \in S |-> Swept(k)]
      OBVIOUS
    <3>3. final \in [S -> {"succeeded", "failed", "unknown", "interrupted"}]
      BY <3>2 DEF Swept
    <3>4. Promise!Conclude(final)
      BY <2>6, <3>1, <3>2
         DEF Restart, Stale, Swept, Promise!Conclude, CommandInv, TypeOK
    <3>5. QED BY <3>3, <3>4, Concluding
  <2>7. ASSUME NEW k \in Keys, Start(k)
        PROVE  UNCHANGED Promise!promiseVars
    BY <2>7 DEF Start, Transition, Promise!promiseVars, CommandInv, TypeOK
  <2>8. CASE UNCHANGED <<status, effects>>
    BY <2>8 DEF Promise!promiseVars
  <2>9. QED
    BY <2>1, <2>2, <2>3, <2>4, <2>5, <2>6, <2>7, <2>8
       DEF Next, Replay, StartFails, HandlerReturns, HandlerThrows,
           WriteSucceededFails, WriteNothing, vars
<1>3. QED
  BY <1>1, <1>2, CommandInvariant, PTL DEF Spec, KeepsPromise, Promise!PromiseSpec
=============================================================================
