--------------------------- MODULE SubagentQueue ----------------------------
(***************************************************************************)
(* The concurrency queue of subagents (kernel/subagent-queue.ts) together   *)
(* with the runs that hold and want its slots: who spawns whom, who waits   *)
(* for whom, how a run ends and how an abort cascades (runtime.ts,          *)
(* spawnSubagentFor and monitorChildRun; kernel/run-registry.ts).           *)
(*                                                                         *)
(* JavaScript runs one handler at a time, so acquire, a dispatch round, an  *)
(* abort with its cascade and a run_end with its listeners are one action   *)
(* each.  Everything in between may interleave: a run_end and the moment    *)
(* its driver has finished are two actions, and only the second one, or     *)
(* the one-second timer, looks at the queue.                                *)
(***************************************************************************)
EXTENDS Integers, FiniteSets

CONSTANTS
    Mains,          \* top-level runs (depth 0)
    Subs,           \* dispatches of the Task tool; each is its child run's id
    NoRun,          \* "not dispatched yet"
    MaxDepth,       \* MAX_DEPTH (2): deepest level that may still be spawned
    MaxQueuedPerParent,     \* MAX_QUEUED_PER_PARENT
    MaxQueuedTotal,         \* MAX_QUEUED_TOTAL
    Capacities,     \* the [perSession, global] limits a user may configure
    InitialCapacity,
    Reaps           \* do ended runs outlast FINISHED_RUN_TTL_MS or their budget?

ASSUME QueueAssumption ==
    /\ Mains \cap Subs = {} /\ NoRun \notin Mains \cup Subs
    /\ MaxDepth \in 0 .. 2 /\ MaxQueuedPerParent \in Nat /\ MaxQueuedTotal \in Nat
    /\ Capacities \subseteq [perSession : Nat \ {0}, global : Nat]
    /\ InitialCapacity \in Capacities
    /\ Reaps \in BOOLEAN

Runs == Mains \cup Subs

VARIABLES
    status,     \* RunHandle.status; "idle" before runs.create
    aborted,    \* runs whose abort signal has fired
    parent,     \* RunHandle.parentRunId
    background, \* dispatches the parent does not wait for (mode.background)
    outcome,    \* what became of each dispatch
    settled,    \* children whose result went back to their parent
    queue,      \* SubagentQueue.waiters: each with those in front of it
    capacity,   \* the limits in the settings file, read at every round
    ready,      \* the workspace environment still passes assertReady()
    reaped      \* ended runs that RunRegistry.runs no longer holds

vars == <<status, aborted, parent, background, outcome, settled, queue,
          capacity, ready, reaped>>

Refusals == {"disabled", "deadlock", "cancelled", "overflow"}

Waiting == DOMAIN queue

TypeOK ==
    /\ status \in [Runs -> {"idle", "running", "ended"}]
    /\ aborted \subseteq Runs
    /\ parent \in [Subs -> Runs \cup {NoRun}]
    /\ background \subseteq Subs
    /\ outcome \in [Subs -> {"none", "queued", "started", "failed"} \cup Refusals]
    /\ settled \subseteq Subs
    /\ queue \in [Waiting -> SUBSET Waiting]
    /\ Waiting = {s \in Subs : outcome[s] = "queued"}
    /\ capacity \in Capacities
    /\ ready \in BOOLEAN
    /\ reaped \subseteq {r \in Runs : status[r] = "ended"}

Init ==
    /\ status = [r \in Runs |-> IF r \in Mains THEN "running" ELSE "idle"]
    /\ aborted = {}
    /\ parent = [s \in Subs |-> NoRun]
    /\ background = {}
    /\ outcome = [s \in Subs |-> "none"]
    /\ settled = {}
    /\ queue = [w \in {} |-> {}]
    /\ capacity = InitialCapacity
    /\ ready = TRUE
    /\ reaped = {}

-----------------------------------------------------------------------------
(* Occupancy and the verdicts of the queue                                  *)

\* activeSubagentRunIds
RunningSubs == {s \in Subs : status[s] = "running"}

ChildrenOf(p) == {s \in Subs : parent[s] = p}

\* hasRoom: both limits judged at once, against the runs that are running.
HasRoom(p, running) ==
    /\ Cardinality(running \cap ChildrenOf(p)) < capacity.perSession
    /\ Cardinality(running) < capacity.global

\* isBlocked: a foreground dispatch of the run waits in the queue.
IsBlocked(r, waiting) == \E w \in waiting : parent[w] = r /\ w \notin background

\* Mutant: only the gate of the parent is looked at.
SessionDeadlockOnly(p, running, waiting, self) ==
    LET stuck == {r \in running : IsBlocked(r, waiting) \/ (self /\ r = p)}
        mine  == running \cap ChildrenOf(p)
    IN  mine # {} /\ Cardinality(mine) >= capacity.perSession /\ mine \subseteq stuck

\* deadlockReason: behind a closed gate every holder of a slot is itself
\* waiting in this queue.  self counts the asking run among them.
DeadlockReason(p, running, waiting, self) ==
    LET stuck == {r \in running : IsBlocked(r, waiting) \/ (self /\ r = p)}
        mine  == running \cap ChildrenOf(p)
    IN  \/ /\ running # {} /\ Cardinality(running) >= capacity.global
           /\ running \subseteq stuck
        \/ /\ mine # {} /\ Cardinality(mine) >= capacity.perSession
           /\ mine \subseteq stuck

QueuedOf(p) == {w \in Waiting : parent[w] = p}

\* The parent awaits the result, or the slot, of a foreground dispatch.
Awaiting(p) ==
    \E s \in ChildrenOf(p) \ background :
        \/ outcome[s] = "queued"
        \/ outcome[s] = "started" /\ s \notin settled

Depth(r) == CASE r \in Mains -> 0
              [] r \in Subs /\ parent[r] \in Mains -> 1
              [] OTHER -> 2

\* The runs below r the registry can find; it looks no further behind one
\* that was reaped.
Descendants(r) ==
    LET started == {s \in Subs : outcome[s] = "started"} \ reaped
        direct  == started \cap ChildrenOf(r)
    IN  IF r \in reaped THEN {} ELSE direct \cup {s \in started : parent[s] \in direct}

\* The queue when the waiters in gone have left it (remove).
Without(gone) == [w \in Waiting \ gone |-> queue[w] \ gone]

\* Mutant: the waiters leave the queue but their promises stay open.
DropWaiters(R) ==
    /\ queue' = Without({w \in Waiting : parent[w] \in R})
    /\ UNCHANGED outcome

\* finishWith("cancelled") for the waiters of the runs in R, called by their
\* abort and run_end listeners.
CancelWaiters(R) ==
    LET gone == {w \in Waiting : parent[w] \in R}
    IN  /\ queue' = Without(gone)
        /\ outcome' = [s \in Subs |-> IF s \in gone THEN "cancelled" ELSE outcome[s]]

-----------------------------------------------------------------------------
(* Dispatch                                                                 *)

\* Mutant: waiters are woken and claim their slots later, so every one of them
\* is judged by the occupancy the round began with.
JudgedAtStart(fate, w) ==
    IF HasRoom(parent[w], RunningSubs) THEN "started"
    ELSE IF DeadlockReason(parent[w], RunningSubs, Waiting, FALSE)
    THEN "deadlock" ELSE "queued"

\* The running subagents and the waiters when a round comes to w: it has
\* dealt with those in front of w as fate says.
RunningAt(fate, w) == RunningSubs \cup {v \in queue[w] : fate[v] = "started"}
WaitingAt(fate, w) == Waiting \ {v \in queue[w] : fate[v] # "queued"}

\* One waiter of a dispatch round: started if it has room now, refused if its
\* gate can not open, left in place otherwise.  A start that throws (the lease
\* of the workspace is gone) rejects the dispatch and takes no slot.
Judged(fate, w) ==
    IF HasRoom(parent[w], RunningAt(fate, w))
    THEN IF ready THEN "started" ELSE "failed"
    ELSE IF DeadlockReason(parent[w], RunningAt(fate, w), WaitingAt(fate, w), FALSE)
    THEN "deadlock" ELSE "queued"

\* pump(): the whole queue in order, occupancy read afresh for each waiter.  The
\* one fate in which every waiter is judged after those in front of it.
PumpEffect ==
    \E fate \in [Waiting -> {"started", "failed", "deadlock", "queued"}] :
        /\ \A w \in Waiting : fate[w] = Judged(fate, w)
        /\ outcome' = [s \in Subs |-> IF s \in Waiting THEN fate[s] ELSE outcome[s]]
        /\ queue' = Without({w \in Waiting : fate[w] # "queued"})
        /\ status' = [r \in Runs |->
               IF r \in Waiting /\ outcome'[r] = "started" THEN "running" ELSE status[r]]

\* The one-second timer: it only exists while somebody waits.
Tick ==
    /\ Waiting # {}
    /\ PumpEffect
    /\ UNCHANGED <<aborted, parent, background, settled, capacity, ready, reaped>>

\* spawnSubagentFor up to the decision of acquire(): all in one turn of the
\* event loop.  p may have ended or been aborted since the model asked for it.
Spawns(s, p, bg) ==
    /\ outcome[s] = "none" /\ s # p
    /\ status[p] # "idle" /\ Depth(p) < MaxDepth
    /\ ready
    /\ parent' = [parent EXCEPT ![s] = p]
    /\ background' = IF bg THEN background \cup {s} ELSE background
    /\ UNCHANGED <<aborted, settled, capacity, ready, reaped>>

Alive(p) == status[p] = "running" /\ p \notin aborted

\* Mutant: a newcomer may pass its own siblings in the queue.
FastPathOvertaking(p) == HasRoom(p, RunningSubs)

\* A slot is free and the parent has nobody waiting: start on the spot.
FastPath(p) == HasRoom(p, RunningSubs) /\ QueuedOf(p) = {}

MayQueue(p) ==
    /\ Cardinality(QueuedOf(p)) < MaxQueuedPerParent
    /\ Cardinality(Waiting) < MaxQueuedTotal

\* What acquire() answers, in the order it asks.
AcquireAnswer(p, bg) ==
    IF ~Alive(p) THEN "cancelled"
    ELSE IF capacity.global <= 0 THEN "disabled"
    ELSE IF FastPath(p) THEN "started"
    ELSE IF DeadlockReason(p, RunningSubs, Waiting, ~bg) THEN "deadlock"
    ELSE IF MayQueue(p) THEN "queued" ELSE "overflow"

Acquire(s, p, bg) ==
    /\ Spawns(s, p, bg)
    /\ outcome' = [outcome EXCEPT ![s] = AcquireAnswer(p, bg)]
    /\ queue' = IF AcquireAnswer(p, bg) = "queued"
                THEN [w \in Waiting \cup {s} |-> IF w = s THEN Waiting ELSE queue[w]]
                ELSE queue
    /\ status' = IF AcquireAnswer(p, bg) = "started"
                 THEN [status EXCEPT ![s] = "running"] ELSE status

-----------------------------------------------------------------------------
(* The life of a run                                                        *)

\* Mutant: the waiter only listens to the abort signal.
FinishKeepingWaiters(r) ==
    /\ status[r] = "running"
    /\ ~Awaiting(r) \/ r \in aborted
    /\ status' = [status EXCEPT ![r] = "ended"]
    /\ UNCHANGED <<aborted, parent, background, outcome, settled, queue, capacity,
                   ready, reaped>>

\* run_end: nothing the run awaits is left, or it was aborted.  Its listeners
\* cancel what it still has in the queue.
Finish(r) ==
    /\ status[r] = "running"
    /\ ~Awaiting(r) \/ r \in aborted
    /\ status' = [status EXCEPT ![r] = "ended"]
    /\ CancelWaiters({r})
    /\ UNCHANGED <<aborted, parent, background, settled, capacity, ready, reaped>>

\* monitorChildRun after run_end and the driver's own cleanup: the freed slot is
\* handed on and the result goes back to the parent.
Settle(s) ==
    /\ status[s] = "ended" /\ s \notin settled
    /\ settled' = settled \cup {s}
    /\ PumpEffect
    /\ UNCHANGED <<aborted, parent, background, capacity, ready, reaped>>

\* agent:abort with its cascade.  A run that ended already is not touched, but
\* children it left in the background are.
Abort(r) ==
    LET hit == {x \in {r} \cup Descendants(r) : status[x] = "running"}
    IN  /\ hit \ aborted # {}
        /\ aborted' = aborted \cup hit
        /\ CancelWaiters(hit)
        /\ UNCHANGED <<status, parent, background, settled, capacity, ready, reaped>>

\* detachForegroundSubagent: the user moves a running child to the background.
Detach(s) ==
    /\ outcome[s] = "started" /\ status[s] = "running" /\ s \notin background
    /\ background' = background \cup {s}
    /\ UNCHANGED <<status, aborted, parent, outcome, settled, queue, capacity, ready,
                   reaped>>

\* The user changes the limits in the settings; nobody is told.
Configure(c) ==
    /\ c # capacity
    /\ capacity' = c
    /\ UNCHANGED <<status, aborted, parent, background, outcome, settled, queue, ready,
                   reaped>>

\* The environment of the workspace is released (remote connection lost).
LoseEnvironment ==
    /\ ready
    /\ ready' = FALSE
    /\ UNCHANGED <<status, aborted, parent, background, outcome, settled, queue,
                   capacity, reaped>>

\* Mutant: only its own children keep a run.
RunsDirectly(r) == \E s \in ChildrenOf(r) : s \in RunningSubs

\* hasRunningDescendant
RunsBelow(r) == Descendants(r) \cap RunningSubs # {}

\* reap: a run that has ended, whose driver has cleaned up, and below which
\* nothing runs leaves the registry.  Which of them are old enough or over the
\* budget is left open.
Reap(r) ==
    /\ Reaps
    /\ status[r] = "ended" /\ r \notin reaped
    /\ r \in Mains \cup settled
    /\ ~RunsBelow(r)
    /\ reaped' = reaped \cup {r}
    /\ UNCHANGED <<status, aborted, parent, background, outcome, settled, queue,
                   capacity, ready>>

Next ==
    \/ \E s \in Subs, p \in Runs, bg \in BOOLEAN : Acquire(s, p, bg)
    \/ Tick
    \/ \E r \in Runs : Finish(r) \/ Abort(r) \/ Reap(r)
    \/ \E s \in Subs : Settle(s) \/ Detach(s)
    \/ \E c \in Capacities : Configure(c)
    \/ LoseEnvironment

\* The timer keeps firing, a driver that ended cleans up, and an agent that waits
\* for nobody eventually ends its turn.
Fairness ==
    /\ WF_vars(Tick)
    /\ \A s \in Subs : WF_vars(Settle(s))
    /\ \A r \in Runs : WF_vars(Finish(r))

Spec == Init /\ [][Next]_vars /\ Fairness
-----------------------------------------------------------------------------
(* Properties                                                               *)

Started(s)    == outcome[s] # "started" /\ outcome'[s] = "started"
Older(s)      == {w \in QueuedOf(parent'[s]) : s \in Waiting => w \in queue[s]}

\* No child run is created past either limit: after a step that starts a
\* subagent, its session and the whole process hold at most as many running
\* subagents as the settings allow, however many waiters one round admits and
\* however far an earlier, higher limit has been exceeded (hasRoom, pump).
CapacityRespected ==
    [][\A s \in Subs : Started(s) =>
           /\ Cardinality(RunningSubs') <= capacity.global
           /\ Cardinality((RunningSubs \cap ChildrenOf(parent[s]))')
                  <= capacity.perSession]_vars

\* Dispatches of one run are served in the order they were made: no dispatch
\* starts while an earlier one of the same run stays in the queue (the fast path
\* of acquire and the order of pump).
SessionFifo ==
    [][\A s \in Subs : Started(s) =>
           \A w \in Older(s) : outcome'[w] # "queued"]_vars

\* Nobody waits for a run that will not take the result: the parent of every
\* waiter is running and its abort signal has not fired (acquire's first check
\* together with the two listeners of enqueue).
WaitersHaveLiveParent == \A w \in Waiting : Alive(parent[w])

\* The dispatches under which s runs, and the top-level run.
Ancestors(s) == {r \in Runs : r = parent[s] \/ (parent[s] \in Subs /\ r = parent[parent[s]])}

\* An abort leaves no orphan: a run that is still running while one above it
\* has been aborted has been aborted too, a background child, the child of a
\* run that has ended and one that left the queue long after it was asked for
\* included; and a Stop of any run above it, ended or not, still finds it
\* (abort, the listeners of enqueue, hasRunningDescendant).
AbortReachesChildren ==
    \A s \in RunningSubs :
        /\ Ancestors(s) \cap aborted # {} => s \in aborted
        /\ \A r \in Ancestors(s) : s \in Descendants(r)

\* Every queued dispatch is eventually answered - started, refused or cancelled
\* - although there is no time limit on waiting (subagent-queue.ts:75-79).
WaiterResolved ==
    \A s \in Subs : outcome[s] = "queued" ~> outcome[s] # "queued"

\* The fast path need not yield to the waiters of other runs, because one that
\* fits would have been started already (subagent-queue.ts:148-149).
NoOvertaking ==
    [][\A s \in Subs : outcome[s] = "none" /\ Started(s) =>
           \A w \in Waiting : ~HasRoom(parent[w], RunningSubs)]_vars

\* A dispatch is refused with "none will free up" only if that is so: every
\* running subagent is itself waiting in the queue, or is the one that asks
\* (subagent-queue.ts:219-225, runtime.ts:2449-2450).
DeadlockMeansStuck ==
    [][\A s \in Subs : outcome[s] # "deadlock" /\ outcome'[s] = "deadlock" =>
           \A r \in RunningSubs :
               r = parent'[s] \/ IsBlocked(r, Waiting) \/ outcome'[r] = "deadlock"]_vars

\* A child that has started finds its way up to the root until its driver has
\* cleaned up, since that is when its changes are filed under the root
\* (run-registry.ts:617, "the cleaning up of a background child climbs the
\* parents up to the root"; runtime.ts:3205-3214).
ChainReachesRoot ==
    \A s \in Subs : outcome[s] = "started" /\ s \notin settled
                        => Ancestors(s) \cap reaped = {}
=============================================================================
