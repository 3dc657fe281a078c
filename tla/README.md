# NextCoWork: a TLA+ development

NextCoWork is a desktop workspace for coding agents (Electron, TypeScript). An
agent runs in the main process; the windows, and other computers connected
through the *device service*, only show what it does and send it input. This
directory models the parts of the program that decide **who may act next** when
users, runs, timers, connections and crashes interleave, checks them with TLC and
proves most of what the runs check, for every value of the constants, with TLAPS.

Paths below are relative to `src/src/` of the repository.

## 1. The system

| Part | State it keeps | Operations | Interacts with | What makes it correct |
|---|---|---|---|---|
| Input leases, `agent/server/lease.ts` | map resource -> holder, token, expiry; a token counter | acquire, renew, release, handoff, check, releaseAll | terminals, device calls, revocation | delayed input of an overtaken controller is refused; nobody takes a live lease |
| Device terminals, `agent/server/terminals.ts` | sessions, creates under way, output buffers, subscribers | create (awaits a shell), write, resize, kill, attach, list, reap | leases, RPC | limits hold although create awaits; output has no gaps |
| Device commands, `agent/server/rpc.ts`, `main/db/device-commands.ts` | receipts by idempotency key, outbox | dispatch, run as one transaction or as an execution, sweep at start-up | every mutating device method | a retry never acts twice; a verdict is final and true |
| Controller client, `controller-client/` | requests under way, cursor per stream | request, event, reconnect, switch device | device service | a gap in a stream is noticed; an unknown result is reported as unknown |
| Session runtime, `main/session-runtime.ts` | queue of user input with its disk copy, mailbox entries of the run, internal inputs, draft | queue operations, drain, runStarted/runSettled, reports, retry timer | launch service, run registry, database | no message lost, none sent twice, the queue moves on by itself and only when it may |
| Launch service, `main/services/agent.ts` | event pumps, detached runs | start, launch, abort, attach | registry, session runtime, windows | one run per session; no event lost between replay and push |
| Run registry, `main/kernel/run-registry.ts` | runs with log, mailbox, signal; session mutex | create, emit, finish, abort with cascade, reap | everything that runs | an abort reaches all descendants although ended runs leave; a session has one owner |
| Subagent slots, `main/kernel/subagent-queue.ts` | waiters in order, limits read from settings | acquire, pump, tick, cancel | agent driver, registry | limits hold; everyone who waits is answered |
| Agent driver, `main/runtime.ts`, `main/kernel/agent-session.ts` | transcript of one run | prepare, model/tool loop, inject, finish | model, tools, registry | commits what it was given exactly once |
| Interactions and permissions, `main/kernel/interaction-gate.ts`, `approval.ts` | pending questions | request, respond, abort | driver, windows | one outcome per question |
| Goals, `main/goal/` | active goal of a session, its run context, check-in timer, markers in the transcript | set, clear, pause, evaluate, defer, check in, restore | session runtime, driver, proposals | a verdict belongs to the goal it judged; Stop is the end of it; the transcript brings back the goal there is |
| Scheduler, `main/scheduled/`, `shared/domain/scheduled.ts` | tasks, rows of runs, running set, timer | tick, execute, close one-shot, edit, chain | driver, registry, database | each due time is dealt with once, and is not forgotten |
| Relay, transport, pairing | sockets, keys | forward, handshake | client, service | out of scope here (cryptography, I/O) |
| Everything else: upstream model access, tools, MCP, plugins, document engine, synchronisation, IPC, windows, renderer, shared types | | | | listed with the reason in `PROJECT.json` |

JavaScript runs one handler at a time, so what can interleave is what lies
between two handlers: an `await`, a timer, an event of another socket, a second
window, a failing disk, the death of the process. The hard behaviours are
therefore *stale answers after an await*, *state that two stores must agree on
across a crash*, *an end that is two events* (`run_end` and the release of the
session), and *queues whose waker is somebody else*. `PROJECT.json` lists them as
hazards, each at its line with the properties that watch it.

## 2. Modules

Conventions: one action per handler, named after it; everything the handler does
synchronously, the trailing save or sync included, is in the action. A definition
with the comment "Mutant:" is a plausible bug of the definition below it, and is
part of no specification; it is there to show that the property it belongs to can
fail. History variables are marked as such where they are declared.

### InputLease (`InputLease.tla`, `MCInputLease.tla`, `InputLeaseProofs.tla`)

`leases` is the map of `LeaseManager`, `counter` its counter, `clock` the wall
clock, `revoked` the controllers whose pairing was withdrawn. `granted`,
`earlier` and `handed` are histories: grants of this life of the service, tokens
of earlier lives, explicit hand-overs; `setBack` remembers that the wall clock was
set back. Actions are the device calls `AcquireHeld`,
`AcquireFree`, `AcquireAtLimit`, `Renew`, `Release`, `Handoff`, the lazy expiry
`DropExpired`, the acquire of `terminals.create` for its caller (`CreatorAcquires`, the
one acquirer that nobody asks again whether it is still paired), and `Revoke`, `Restart`,
`Tick`, `ClockSetBack`. A call carries *any* token its sender has ever seen, which is
how a delayed or repeated call is represented. Properties:

* `FencedInput` - input that passes `check()` carries the newest grant of its
  resource. This is the reason for tokens: two controllers never both type.
* `NoTakeoverBeforeExpiry` - a live lease changes hands only by `handoff`.
* `TokensIdentifyGrants`; `TokensSurviveRestart`, which
  `lease.ts:49` promises without condition and which holds as long as the wall
  clock was never set back (the counter starts at zero, only the clock is above
  the old tokens).

### DeviceTerminals (`DeviceTerminals.tla`, ..., `DeviceTerminalsProofs.tla`)

Extends InputLease: its resources are terminals. `create` is two actions,
`CreateBegin` (limit check, `creating++`) and `CreateDone` (the shell is there,
the creator acquires the lease) or `CreateFails`; anything may happen in between. That the
session is stored and the lease acquired in one step leaves out one microtask of the
code, in which no request can name the new terminal. `TotalLimit` says that overlapping
creates never exceed the total. `RevokedHoldOnlyCreated` says what the comment in `revoke()`
leaves of its promise: it says that a revoked controller holds no lease
(`RevokedHoldNothing`), which a create that awaits its shell at the revocation makes
false; but a lease that a revoked controller holds is never more than the first grant of
a terminal it opened itself. `write`,
`resize` and `kill` change nothing of this state besides being fenced, which is
`FencedInput` again, now of the composition (proved, and checked for leases alone);
the process's end is `Exit`.

### CommandPromise, DeviceCommands (..., `DeviceCommandsProofs.tla`)

`CommandPromise` is the abstract specification: per key the effect happens at
most once, verdicts are final, "succeeded" means it happened and "interrupted"
that it did not. `DeviceCommands` is the code: a mutation is one database
transaction (`RunTransaction`) or an execution in steps (`Accept`, `Start`,
`HandlerActs`, `HandlerReturns`/`HandlerThrows`, `WriteSucceeded`, `WriteFailed`,
each write with a variant that fails), any command may be repeated (`Replay`) or
its key reused for another one, and `Restart` may come between any two steps and
sweeps what was under way. `KeepsPromise` is the refinement; `AnswersAgree` and
`OutboxTellsReceipts` say what two askers, and a follower of the events, can rely on.

### SubagentQueue (`SubagentQueue.tla`, `MCSubagentQueue.tla`, `SubagentQueueProofs.tla`)

Runs, their parents, abort signals, the queue and the configured limits. `Acquire` is
`spawnSubagentFor` up to the answer of `acquire()`, in the order the code asks. The
array of waiters is a function from each waiter to the set of those in front of it, so
that leaving the queue, wherever one stands, takes one expression. `PumpEffect` is
`pump()`: a `fate` in which every waiter is judged (`Judged`) by the slots left over
when those in front of it have had theirs. There is exactly one such fate
(`RoundIsDetermined`), the one the loop of the code computes. `Finish` is `run_end` with
its listeners, `Settle` the later moment when the driver has cleaned up and the queue is
told; `Tick` the one-second timer; `Abort` the cascade; `Detach`, `Configure` and
`LoseEnvironment` the things that change under the waiters; `Reap` takes an ended run
out of the registry, in which the cascade looks for descendants. Properties:
`CapacityRespected`, `SessionFifo`, `WaitersHaveLiveParent`, `AbortReachesChildren`
(through ended and reaped runs in between), `WaiterResolved`.

### SessionRuntime (`SessionRuntime.tla`, `MCSessionRuntime.tla`, `SessionRuntimeProofs.tla`)

One session: the queue in memory (`entry`), its `dirty` flag and its copy on
`disk`; the run from launch to settle; the two mailboxes of its handle; internal
inputs that are unconfirmed or deferred; the retry timer; receipts and reports in
the database. `DrainFrom` is `drain()` with all its early ends: the write before
the launch refused, the launch refused and the batch put back, that put-back
refused. `SyncFrom` is `syncInterject()`; `Kept` is the `filter` by which messages
leave a list. User actions are `Enqueue`, `Promote`,
`Edit`, `Withdraw` (drop and take), `Resume`, `Send`, `Abort`; the driver's are
`Prepared` or `PrepareFails`, `Inject`, `Finish`, `Settle`; `ChildFinished`,
`ReportManually` and `RetryTick` deliver reports; `Operation` is manual
compaction, `Crash` the death of the process. `ScheduledSession` chooses between a
session the user opened and one the scheduler created, whose first run is not
known to SessionRuntime. Properties: `NothingTwice`, `Accounted`,
`CleanMeansSaved`, `MailboxIsCurrent`, `WithdrawnStaysOut`, `AckedIsSaved` for
messages, `ReportsTracked`, `ReportedOnce`, `ReportResolved` for reports,
`QueueMovesOn` for both.

### GoalRuntime (`GoalRuntime.tla`, `MCGoalRuntime.tla`, `GoalRuntimeProofs.tla`)

The goal of one session. `rt` is what the process holds: the goal with its identity
and the intent it carries, the bound run context, the check-in timer, the next
identity. `book` is the transcript with the goal markers, the copy of it a run works
on, and the markers that wait for an assistant message. Handlers call each other
synchronously, so `Cleared`, `Activated`, `Paused`, `Bound`, `Recorded`, `Rewritten`
are operators on these records, and an action is what runs between two awaits:
`SendMessage`, `Prepare`, `Bind`, `UseTools`, `EndTurn`, the three outcomes of an
evaluation (`JudgedMet`, `JudgedNotMet`, `NotJudged`), `Break`, `EndEarly`, `Settle`
for a run; `Stop`, `SetGoal`, `ClearGoal`, `OpenSession`, `Approve`, `Decline` for the
user; `Propose` for the model; `Arrive` and `Dispatch` for goal input on its way;
`ChildDone`, `TimerFires` and `Restart`. Properties:

* `TranscriptTellsGoal` - once an assistant has answered in the session, a restart at any
  moment restores exactly the goal that is active: the markers survive the rewrite of the
  transcript at the end of a run. The property looks at the committed messages alone. A
  session without an assistant message has nowhere to put markers; they wait in memory
  (`goal/runtime.ts:99-101`), and a goal set then is lost in a restart.
* `VerdictsAreCurrent` - the evaluator's answer neither ends nor counts against a goal
  that was replaced, cleared or paused while it was being asked.
* `StopIsQuiet` - kickoffs and check-ins that were under way at a Stop are never heard.
* `IdleWakesBounded` - an idle session is woken a bounded number of times.

### ScheduledTime, Scheduler (`MCScheduler.tla`, `SchedulerProofs.tla`)

`ScheduledTime` is the pure part: which instants a rule names, how a local time is
turned into an instant when the zone's offset changes, and which one comes next, in the
code's own order of days and window slots. The zone is part of the rule, as it is of the
task: an instant at which its offset changes, and the offset before and after.
`Scheduler` is the process around it: `TimerFires` is a tick with all its writes,
`SkipDue` the reconciliation after a start or a wake-up (`Start`, `Resume`), `RunNow`
the manual run, `Ends` the end of an execution, `Create`, `Update`, `Remove`,
`DeleteRow` the user, `AgentCreates` the model inside a run. A tick is a loop of
transactions: `CrashInTick` cuts it between any two of them, `CrashInSkip` the same in
the tick of a start or a wake-up, `CrashAtEnd` the writes at the end of a run; `Crash`
is the death of the process between two handlers. Properties: `OneAtATime`,
`AccountedOnce`, `TimerArmed`, `FutureIsPlanned` (the next occurrence compared with the
set of all instants, the reference definition of the timetable) and `NothingStaysDue`.
`FutureIsPlanned` is not so of every rule: a one-off with a window later than tomorrow
is never found (`ScheduledFar`, section 3), and a daily or weekly rule loses an instant
when its zone changes the offset around the end of a local day, so that the next day has
begun before the last instant of that day (section 4).

### TerminalStream (`TerminalStream.tla`, `TerminalStreamProofs.tla`)

The output of one remote terminal from the PTY to the window: `Output`, `Flush`, `Exit`
and `Attach` on the device; the frames of a connection that loses none but may end
(`Lose`) and the frames the gateway skips as too large (`Pushed`); `Receive` on the
client, where an answer only *settles* a promise and `RunOn` resumes its caller in a
later microtask, after frames that came behind it; the bridge's `Resync`, `GivenUp`,
`Deliver`; and the tab, which is mounted twice, subscribes first, asks for the buffer
and joins the two (`Hydrated`). The button of a tab whose create failed runs `start`
again in the same view (`Restart`, `Restarted`): it attaches and does not read the
buffer again. A batch of output is the number of its event, so that "in order, nothing
twice, nothing missing" is a statement about numbers. Properties: `InStep` (what the tab
shows is in order and, unless a gap was reported, complete; when everything is quiet, it
is all there is) and `IsFollowed` (a terminal the bridge holds for alive has a
subscription at both ends, whatever failed before). Two restrictions are part of the
properties. A tab that was started again has not read the buffer it now joins: it shows
its output in order and never twice, but a frame skipped just before is lost without a
report, and nothing is claimed about holes. A tab in status error is not claimed to be
followed: the failed attach of its create leaves the entry alive with nobody to follow
it until the button is pressed.

## 3. Runs

| Run | Shows | Size |
|---|---|---|
| `input_lease` | fencing and the other lease properties, with restarts and a clock that may be set back | two resources, two controllers, a lease map of one entry, leases of one and of two ticks |
| `device_terminals` | the total limit, and what a revocation leaves, with creates that overlap | three terminals, limit two |
| `device_commands` | receipts keep the promise; answers and events agree | two keys, one transactional and two stepwise commands |
| `subagent_queue` | limits, order, cancellation, and aborts through runs that left the registry | two main runs, three subagents, limits one and two that change |
| `subagent_queue_live` | whoever waits is answered | three subagents, fair timer and drivers |
| `session_queue` | the user's messages, with failing writes and crashes | three messages, two of which do not fit together, two faults, an edit, queue limit two |
| `session_reports` | reports and the queue of one session | two messages, two reports, two faults |
| `session_reports_live` | every report under way is resolved | one message, two reports, compaction may keep the session for good |
| `goal_runtime` | verdicts, Stop, check-ins and the transcript, with one restart | three identities, four messages, two runs, a cap of one check-in |
| `scheduler` | the timetable and the process around it, with a fair timer | two tasks, three rules in three zones, two-tick days, clocks that go forward and back, an edit, a manual run, a crash |
| `terminal_stream` | the tab is in step with the device and stays followed | four events, a buffer of two batches, two mounts, a skipped frame, two failed calls, a lost connection |

One run checks a sentence of a comment that the code does not keep; TLC's shortest
counterexample is the demonstration, and `PROJECT.json` records it as a finding:

| Run | The sentence | What happens instead |
|---|---|---|
| `session_lost` | queued messages do not disappear (`session-runtime.ts:396`) | a run ends before it commits its input |

More divergences of this kind were met while modelling. Their properties stand in
the modules, and a configuration for each is kept here, outside the recorded runs (for
two of them the table names the constant to change in a recorded one);
`tlc -config <cfg> <module>` with the `MC` module of the component (TerminalStream
needs none) prints the counterexample. Some are promises broken, some only corners
that a comment does not mention:

| Configuration | Property | The sentence | What happens instead |
|---|---|---|---|
| `TerminalRevocation` | `RevokedHoldNothing` | a revoked controller holds no lease (`service.ts:184`) | `create` awaits its shell, then acquires for it |
| `SubagentDisabled` | `WaiterResolved` | nobody hangs for ever (`subagent-queue.ts:75`) | the limit becomes 0 while somebody waits |
| `SessionScheduled` | `QueueMovesOn` | the queue moves on without a window (`session-runtime.ts:10`) | a scheduled run only releases the session |
| `LeaseLimit` | `LimitMeansActive` | "Too many active leases" | expired leases fill the map until somebody asks for their key |
| `TerminalWorkspaceLimit` | `WorkspaceLimit` | eight per workspace | creates under way count for the total only |
| `TerminalCreator` | `CreatorTypes` | the creator types | the lease map is full after the terminal has been stored |
| `TerminalGap` | `GapMeansSkip` | a gap means a frame the device had to skip (`gateway.ts:190`) | an answer settles a promise, the event behind it is handled before the caller has followed the stream, and the next one looks like a gap |
| `TerminalExit` | `ExitIsTold` | exits are pushed to the window (`terminal-bridge.ts:7`) | the exit falls into an attach that is under way; the answer says so to the bridge, which stops following and tells nobody |
| `DeviceCommandsFailed` | `NoFalseFailure` | success or failure is never claimed falsely | the write of "succeeded" throws inside the handler's `try` |
| `SubagentOvertaking` | `NoOvertaking` | waiters that fit were started already | a newcomer arrives between `run_end` and the pump |
| `SubagentDeadlock` | `DeadlockMeansStuck` | none will free up | a child that waits for a *global* slot counts as stuck behind its *session's* gate |
| `SubagentChain` | `ChainReachesRoot` | the chain of parents lasts until a background child is cleaned up (`run-registry.ts:617`) | it lasts until its `run_end`; when another run's end reaps between that and the driver's `finally`, the child's file changes are filed under itself. The window is a few microtasks |
| `SessionOrder` | `SentInPromotedOrder` | smaller items are not tried after one that does not fit | they are |
| `SessionStopped` | `QueueWaitsAfterStop` | after a stop the queue waits for the user | a report's run ends normally and drains |
| `SessionReports` with `HistoryOps = TRUE` | `QueueMovesOn` | the queue moves on without a window | nobody wakes the queue when compaction ends |
| `SessionScheduledReport` | `ReportResolved` | unconfirmed reports are taken back | not from a scheduled run |
| `SessionRefused` | `RefusedStaysOut` | a failed enqueue queues nothing | the drain behind a saved enqueue throws |
| `SessionQueue` with `ReceiptsMayFail = TRUE` | `NothingTwice` | an executed input is never sent again | its receipt could not be read |
| `GoalKickoff` | `KickoffDelivered` | an entry that misses its run is sent when that is over (`ipc/agent.ts:222`) | it is dropped when the run ends between the answer and the delivery |
| `GoalOddReply` | `TranscriptTellsGoal` | the transcript is the goal's durable record | a reply that ends the turn and still carries tool calls leaves the newest markers before an older one |
| `ScheduledFar` | `FutureIsPlanned` | a schedule with a window fires again between its time and the end of the window (`i18n/index.tsx:211`) | with a repeat window it is searched for today and tomorrow only, and never fires |
| `ScheduledMissed` | `MissedIsSkipped` | an occurrence the application slept through is recorded as missed (`i18n/index.tsx:244`) | the first missed occurrence is; the next, already past, is executed right after |
| `ScheduledChain` | `ChainIsParentPlusOne` | a follow-up is one deeper than its parent (`scheduled.ts:34`) | the parent task or its row is gone, and the depth starts again |

Steps the models contain, on which the repository takes no position, so that no
property is stated: a one-off that ends overwrites an edit made while it ran
(`scheduler.ts:62`); a one-off with a window is closed after its first run; rows
"queued" or "running" survive a crash for ever; a row deleted while its run works
comes back when it ends; an occurrence is lost when the process dies between the
plan and its row, and passed over without a row while an earlier run hangs. After a
Stop, a background report of an older run starts a run whose end judges the paused goal;
a run stopped by a tool with its goal deferred leaves no check-in timer. A resync that
fails drops the terminal without telling the tab.

### Bounds

Two controllers, two keys or two reports are enough for every property that speaks
of two actors; a third terminal, message or subagent is there wherever a limit of
two has to be exceeded or something has to remain in a queue. Time is a small
counter: only the order of expiry and of grants matters. `MaxToken`/`MaxClock` end
the life of a model run, not a behaviour of the code; actions that would pass them
are disabled. `MaxEdits` one distinguishes a stale text from a current one.
`MaxFaults` bounds refused writes, failed reads and refused launches: two, since
the deepest error path of the code (launch refused, put-back refused) needs two.
`MaxAttempts` two lets the retry timer both try again and give up. Crashes and
restarts are not bounded. Symmetry is used in safety runs only, over controllers,
resources, keys, dispatches and messages of equal length.

In GoalRuntime an identity is an `ulid`; three are enough for a goal, its successor and
one rotated by a pause. A cap of one check-in distinguishes "one" from "one too many";
the cap of the code is larger. Days of two ticks and weeks of two days keep the window,
the boundary of a day and the change of offset apart. Of the zones of `Scheduler.cfg`
one skips the first local time of a day, one repeats the last of a day, in the window of
a weekly rule, and one the first, inside the window of a one-off. A ring buffer of two
batches trims from the third; four events leave some before, during and after an attach,
and two failed calls make a create fail, and the start after it. `Reaps` is off where
liveness is checked: reaping changes nothing a waiter sees, since its parent runs.

Deadlock checking is off where the model comes to rest: SubagentQueue has finitely
many dispatches; GoalRuntime runs out of identities or messages; Scheduler reaches its
horizon with every bound used up; a terminal ends.

### Fairness

`SubagentQueue`: the timer fires while somebody waits (`setInterval` in `tick`);
a driver that has ended cleans up (its `finally`); a run that waits for nobody
ends its turn, which is an assumption about agents that the user can enforce
by an abort. `SessionRuntime`: a launched run becomes prepared or fails, a run
ends, it settles (again `finally`), and the retry timer fires. Nothing is assumed
of the user, of crashes, of new reports or of manual compaction, which in
`session_reports_live` may keep the session for ever; the bounded number of
retries is what then resolves a report. `Scheduler`: the timer that is armed fires
(`setTimeout`); nothing is assumed of runs, which may hang, or of the user.
`InputLease`, `DeviceTerminals`, `DeviceCommands`, `GoalRuntime` and `TerminalStream`
state safety only; what "eventually" would say of a terminal, `InStep` and
`IsFollowed` say of its quiet states.

## 4. Proofs

All proofs hold for every value of the constants that satisfies the named
assumptions (`LeaseAssumption`, `TerminalAssumption`, `CommandAssumption`,
`QueueAssumption`, `SessionAssumption`, `GoalAssumption`, `TimeAssumption`,
`SchedulerAssumption`, `TerminalStreamAssumption`: finite
sets where cardinalities are taken, positive limits, a "none" value outside the
set it stands beside; `MaxDepth` is at most the two levels the code allows).
TLC checked every inductive invariant below before it was proved.

* **InputLeaseProofs.** `FencedInput` is not inductive: it says nothing of grants
  nobody holds. `LeaseInv` adds that the counter is at least every token
  granted in this life of the service, and that every entry of the map is the newest grant
  of its resource. Grants then preserve it because `NextToken` is above the
  counter. From it follow `InputIsFenced`, `TokensAreUnique` and
  `LeasesAreNotStolen`. None of them needs the clock to be
  monotone: `ClockMayStepBack` may have either value. `TokensOutliveTheService` does:
  `EarlierBelowClock` says that every token of an earlier life is below the clock as
  long as the clock was never set back, and a new token is above the clock.
* **DeviceTerminalsProofs.** `TerminalsStayWithinLimit`: running terminals and those being
  opened are disjoint finite sets; only `CreateBegin` adds to their union, and its
  guard compares exactly that sum. `TerminalInputIsFenced` lifts the lease steps:
  each terminal action either leaves the leases alone or is a lease step.
  `RevokedKeepOnlyTheirCreates`: whoever gets an entry was authorized when it asked, was checked
  by the handoff, or is the creator at the end of its create, when no grant names the terminal yet
  (`CreatorInv`); and a revocation takes what is held at that moment.
* **DeviceCommandsProofs.** `CommandInv` relates the receipt, the step the
  executor is at and the number of effects: nothing has happened before
  "running", exactly one effect after "succeeded". `ToldInv` adds that what was
  told still stands. From the two follow `AnswersNeverDisagree` and
  `CommandsKeepPromise`, step by step: each code step is a step of
  CommandPromise or leaves its variables alone. `EventsFollowReceipts` is an induction
  over the writes: the events of a key always are the path its receipt has taken
  (`Tells`), since both are written in one transaction.
* **SubagentQueueProofs.** `QueueInv` says that the queue is an order (of two waiters one is
  in front of the other, transitively), that a run has left "idle" exactly when its
  dispatch was started, and that whoever was dispatched has a parent one level up.
  With it a round of the pump can be judged as a whole: a waiter is started only if
  those in front of it, and what runs already, leave a slot, which gives
  `LimitsAreRespected` although a round may admit many, and `SiblingsAreServedInOrder`, as
  what keeps a waiter back keeps back those of its run behind it. `RoundIsDetermined` proves the
  declarative round to have one solution, by a least counterexample along the
  order. `AbortReachesChildren` is not inductive, for ended runs leave the registry and with
  them a link of the chain: `UpwardInv` says that above a running subagent no run
  has left the registry, and none was aborted without it. The proof found two alternatives of
  `AcquireAnswer` that overlapped; they are now asked in the order of the code.
* **SessionRuntimeProofs.** `Accounted` says where each message is, which is not enough: it
  does not say that it is in *one* place. `QueueInv` adds that queue, carried batch and
  withdrawn messages are disjoint and without repetition in memory and on disk (`Places`), that
  a receipt is the trace of a commit (`Commits`), and that the mailbox holds promoted
  messages with their current text (`BoxedIsPromoted`). The drain, the
  flush of reports and the sync are stated once as what they leave behind (`Drained`,
  and the lemmas around it) and used in every handler that ends in them. From `QueueInv` follow
  `NoMessageMislaid`, `CleanIsSaved`, `WithdrawnIsNeverSent`, `MailboxFollowsQueue` and, for each
  step, `AcknowledgedIsSaved`. `CommittedOnce` needs `OnceInv`: what still waits and was already
  committed has a receipt, by which the next look at the queue takes it out. It is therefore
  proved for receipts that can be read. `ReportInv` says that a report is either deferred or
  unconfirmed, never both, and what the run carries is unconfirmed; `ReportsHaveAnOwner` and
  `ReportsAreConsumedOnce` follow for sessions without scheduled runs. `FreeSessionHasSent`
  needs only that whoever frees the session drains (`MovesInv`); it also
  excludes compaction by hand. The four conditions are no
  convenience: without each, TLC violates the property (section 3).
* **GoalRuntimeProofs.** `IdleWakesBounded` and `StopIsQuiet` need the same
  strengthening. `GoalInv` says that the check-ins since the user's last act are at most
  those counted against the goal there is, and that the goal carries an identity not
  older than the last Stop; identities only grow (`WellFormed`). Each handler either
  keeps the goal and its counter (`Keeps`), or makes a goal of a fresh identity after an
  act of the user. `IdleWakesAreBounded` reads the bound off the counter;
  `StoppedInputStaysOut` holds as only input for the goal there is passes `Wanted`.
  `TranscriptInv` is about three copies of the truth at once: the marks of the
  transcript, saved and waiting, say which goal is in memory (`GoalTold`), and the copy
  a run works on, as well as the evaluation under way, are in step with them
  (`RunInStep`). It needs that identities are never used again.
  `RestartsBringTheGoalBack` is about the committed messages, from the first one of an
  assistant on, since waiting marks go with the process; it excludes the odd replies of
  `GoalOddReply`; `VerdictsBelongToTheGoal` does not.
* **SchedulerProofs.** `AccountedOnce` is not inductive either: it must be known that the
  plan of a task is *past* what its rows record. `PlanIsPast` says so, and is
  kept as `NextOccurrence` never returns an instant that is not later than the one it
  is asked about (`NextIsLater`, for every rule and every zone), as an edit plans
  from now, and as a crash inside a tick leaves plans ahead of rows, never behind. With it
  and `OneAtATime` and `TimerArmed`, `SchedInv` is inductive. `InstantsStayPlanned`
  proves `FutureIsPlanned` in two halves. The search: the instants of a day lie on that
  day (`InstantsOfDay`), days are in order, and of any week that is searched one day has the
  weekday of the instant ahead, so the first instant found is not later than it (`SearchFinds`).
  The protocol: a step leaves a task, takes it out of the plan, or plans it from an instant that
  is not ahead (`PlansMove`). The theorem is about one-off rules without repeats, and
  about daily and weekly rules, with or without repeats on the day, in zones that keep their
  offset, when a week or more is searched (the code searches 14 or 370 days). Both exclusions are
  needed: one-off rules with repeats are looked for on two days only (`ScheduledFar`),
  and a change of the offset that skips the end of a local day moves a time of that day behind
  midnight, where a search that starts in between begins with the next day: with
  `Day = 4`, a daily rule at time 3 and the offset going from 0 to 2 at instant 2, TLC finds an
  instant left out. The zones of `Scheduler.cfg` skip or repeat a time at the begin of a day, or
  repeat one at its end, and no instant is left out.
* **TerminalStreamProofs.** `IsFollowed` speaks of quiet states, which no step keeps quiet.
  `FollowInv` says what is under way until then: every call that waits has its request or its
  answer on the wire (`AnswersCome`), the view has at most one call, of the kind its phase
  makes (`OneAtATime`, `PhaseFits`), the device publishes to whoever heard from it
  (`Publishes`), and a terminal held for alive has a stream or somebody *trying*: a
  resync, a create or refresh of the mounted view, the start of a failed one again, or a failure
  the view has yet to show (`Held`). At rest nobody can be trying any more.

  `InStep` takes four invariants more, each proved with those before it. `ChannelInv`:
  the frames under way are in the order of their numbers (`FrameOrder`), although events
  and answers share one wire; an event takes one number; an answer holds a row of output
  that ends with its number (`IsSnapshot`); and nothing comes after the exit. Each
  action of the device appends what is newer (`EmitMoves`), each of the desktop takes
  the first. `ViewInv`: whatever the tab, the bridge's cursor or a settled promise has
  got is older than what is still under way (`Seen`), so what the tab shows and what
  waits in it ascends (`ViewOrder`). It needs that answers come in the order of the
  calls: a second snapshot is never older than the first. `JoinInv`: as long as no gap
  was reported, the snapshot is a row, the items that waited go on where it ends or
  earlier (`Joined`), and the next event goes on where they end (`Joins`); this holds of
  an answer on the wire, of a settled promise, of the reply of create and of the view in
  turn, so it survives the microtasks between them. `OutputInOrder`, which is the half
  of `InStep` about order and holes, follows. `CompleteInv`: as long as nothing failed,
  every number above what the tab has is the number of a frame under way, but for the
  exit, which may be known already (`Covered`). At rest nothing is under way, so nothing
  is missing: `OutputIsShown`. `TabIsInStep` joins the two halves. `CaughtUp`, a loop in
  the code, is a recursive function: that items which wait in order stay in order and
  are written one by one (`BySeqKeeps`, `CatchingUp`) is proved by induction over their
  number, stated with a set of numbers (`UpTo`).

Only model-checked:

* `FutureIsPlanned` in zones that change their offset, and for one-off rules with repeats
  (see above). Every invariant and action property of the runs is otherwise a theorem.
* `WaiterResolved`, `ReportResolved`, `NothingStaysDue`: liveness under fairness, which this
  prover does not do.

## 5. Not modelled, and what comes next

What is left out of modelled parts: text of drafts and the options attached to queued
items; eviction of idle entries; failing writes of report statuses; more than one
session (the slots of SubagentQueue are the only thing sessions share); the bytes of
terminal output, so that a character split by the ring buffer (`shared/device/value.ts`
refuses half of a surrogate pair) is not in the model; clocks that are set back, other
than for leases; an abort without its cascade (the parameter of `RunRegistry.abort` that
every caller sets, but the shutdown, which aborts every run, and whatever a foreign
controller may send); and the terminal that replaces an exited or dropped one when its
tab is started again, whose events begin at one while the tab keeps the number of the
last event of the old one: TerminalStream is one terminal. Not modelled at all:
everything whose substance is I/O, cryptography, layout or an external service; see
`PROJECT.json`.

Next, in order:

1. A second terminal behind one tab in `TerminalStream`, and proofs: `FutureIsPlanned`
   across changes of the offset that fall inside a day, and the lemmas the components
   share (frames in order, numbers in a row) in a module of their own.
2. `RunStream`: the event log with trimming, snapshots and replay, the pumps of
   `services/agent.ts` and the agent bridge of remote sessions.
3. The permission decision that reads the mode after its awaits
   (`kernel/approval.ts`), and the remaining questions of `InteractionGate`.
4. Reconnecting and switching devices in `controller-client/`, with the receipts of
   `DeviceCommands` at the other end.
