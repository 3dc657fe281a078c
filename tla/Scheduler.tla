------------------------------ MODULE Scheduler ------------------------------
(***************************************************************************)
(* Scheduled tasks (main/scheduled/scheduler.ts, bridge.ts): one timer for  *)
(* the earliest due task, the rows that record runs, executions, and the    *)
(* user and the agents who edit tasks while they run.                       *)
(*                                                                         *)
(* Handlers are synchronous up to the first await of runAgent, so a tick is *)
(* one action; each write is a transaction of its own, so a crash may fall  *)
(* between two of them.  What an execution does is left to the run (module  *)
(* SessionRuntime): here it edits tasks, and it ends.                       *)
(*                                                                         *)
(* Left out: workspaces, models, prompts and the limit on tasks per         *)
(* workspace; the cap on timer delays (32 bits), which only makes the timer *)
(* fire early; a clock that is set back.                                    *)
(***************************************************************************)
EXTENDS ScheduledTime, FiniteSets, Sequences

CONSTANTS
    Tasks,          \* identities of tasks (ulid)
    Rules,          \* the rules users and agents choose from
    Kept,           \* the tasks the database holds at first
    Nobody,         \* "no task": the creator is the user or a chat
    MaxChainDepth,  \* SCHEDULED_AGENT_LIMITS.maxChainDepth
    MaxEdits,       \* bound of the model: edits of tasks, deleted rows
    MaxManual,      \* bound of the model: manual runs
    MaxCrashes      \* bound of the model: restarts

ASSUME SchedulerAssumption ==
    /\ Rules \subseteq RuleSet /\ Rules # {}
    /\ Kept \subseteq Tasks /\ Nobody \notin Tasks
    /\ {MaxChainDepth, MaxEdits, MaxManual, MaxCrashes} \subseteq Nat

VARIABLES
    clock,
    phase,      \* of the process: "down", "up", or "quitting" (stopScheduler)
    tasks,      \* table scheduled_tasks
    rows,       \* table scheduled_runs, by task
    timer,      \* when the timer fires, or Never
    busy,       \* runningTasks
    exec,       \* execute() under way, by task: row, trigger, rule captured
    edits, crashes

vars == <<clock, phase, tasks, rows, timer, busy, exec, edits, crashes>>

\* The schedules, tabulated.
NextDue == [rule \in Rules |-> [after \in Times |-> NextOccurrence(rule, after)]]
Instants == [rule \in Rules |-> Occurrences(rule)]

Unborn == [is |-> "unborn", rule |-> CHOOSE r \in Rules : TRUE, enabled |-> FALSE,
           nextRunAt |-> Never, depth |-> 0, by |-> Nobody]

Live == {t \in Tasks : tasks[t].is = "live"}
Due == {t \in Live : tasks[t].enabled /\ tasks[t].nextRunAt <= clock}

-----------------------------------------------------------------------------
(* Tasks as they are written. *)

\* Mutant: a task that is due is left as it is until its run has ended.
NotAdvanced(task) == task

\* tick: the due time is passed before anything is started for it.
Advanced(task) == [task EXCEPT !.nextRunAt = NextDue[task.rule][@]]

\* normalizeScheduledTaskInput, setScheduledTaskEnabled: the next occurrence
\* is looked for from now.
Planned(rule, enabled) == IF enabled THEN NextDue[rule][clock] ELSE Never

NewTask(rule, enabled, depth, by) ==
    [is |-> "live", rule |-> rule, enabled |-> enabled,
     nextRunAt |-> Planned(rule, enabled), depth |-> depth, by |-> by]

\* What remains of a deleted task is of use to the reader only.
Deleted(task) ==
    [Unborn EXCEPT !.is = "deleted", !.depth = task.depth, !.by = task.by]

\* closeOneShotAfterRun; the rule is the one the run started with.
Closed(task, rule, trigger) ==
    IF trigger = "scheduled" /\ rule.kind = "once" /\ task.is = "live"
      THEN [task EXCEPT !.enabled = FALSE, !.nextRunAt = Never]
      ELSE task

\* Mutant: a write that does not announce itself.
NotRescheduled == UNCHANGED timer

\* Mutant: what is overdue is left out.
EarliestAhead(ts) ==
    Min({Never} \cup {at \in {ts[t].nextRunAt : t \in {u \in Tasks :
              ts[u].is = "live" /\ ts[u].enabled}} : at > clock})

\* reschedule
Earliest(ts) ==
    Min({Never} \cup {ts[t].nextRunAt : t \in {u \in Tasks :
                                        ts[u].is = "live" /\ ts[u].enabled}})
Rescheduled == timer' = IF phase' = "up" THEN Earliest(tasks') ELSE Never

\* `passed' is endedAt of a skipped row; that of other rows is left out.
Row(at, trigger, status) ==
    [at |-> at, trigger |-> trigger, status |-> status,
     passed |-> IF status = "skipped" THEN clock ELSE at]
Execution(t, trigger) ==
    [row |-> Len(rows[t]) + 1, trigger |-> trigger, rule |-> tasks[t].rule]

-----------------------------------------------------------------------------
Init ==
    /\ clock = 0 /\ phase = "down" /\ timer = Never
    /\ tasks \in {ts \in [Tasks -> {Unborn} \cup
                             {NewTask(rule, TRUE, 0, Nobody) : rule \in Rules}] :
                     \A t \in Tasks : ts[t] = Unborn <=> t \notin Kept}
    /\ rows = [t \in Tasks |-> <<>>]
    /\ busy = {} /\ exec = [t \in Tasks |-> {}]
    /\ edits = 0 /\ crashes = 0

Advance ==
    /\ clock < Horizon
    /\ clock' = clock + 1
    /\ UNCHANGED <<phase, tasks, rows, timer, busy, exec, edits,
                   crashes>>

Skipped(t) == Append(rows[t], Row(tasks[t].nextRunAt, "scheduled", "skipped"))

\* tick(true): what is due is recorded as skipped.
SkipDue ==
    /\ tasks' = [t \in Tasks |-> IF t \in Due THEN Advanced(tasks[t]) ELSE tasks[t]]
    /\ rows' = [t \in Tasks |-> IF t \in Due THEN Skipped(t) ELSE rows[t]]

\* startScheduler
Start ==
    /\ phase = "down"
    /\ phase' = "up"
    /\ SkipDue
    /\ UNCHANGED <<clock, busy, exec, edits, crashes>>
    /\ Rescheduled

\* reconcileScheduler, when the machine wakes up
Resume ==
    /\ phase = "up"
    /\ SkipDue
    /\ UNCHANGED <<clock, phase, busy, exec, edits, crashes>>
    /\ Rescheduled

\* tick(false).  Of the due tasks, those already running are passed over;
\* of the others some fail before their first await (no workspace, no model).
TimerFires ==
    /\ phase = "up" /\ timer <= clock
    /\ \E failing \in SUBSET (Due \ busy) :
         LET started == (Due \ busy) \ failing
         IN /\ tasks' = [t \in Tasks |->
                           IF t \in failing
                             THEN Closed(Advanced(tasks[t]), tasks[t].rule, "scheduled")
                           ELSE IF t \in Due THEN Advanced(tasks[t])
                           ELSE tasks[t]]
            /\ rows' = [t \in Tasks |->
                          IF t \in Due \ busy
                            THEN Append(rows[t], Row(tasks[t].nextRunAt, "scheduled",
                                     IF t \in failing THEN "failed" ELSE "running"))
                            ELSE rows[t]]
            /\ exec' = [t \in Tasks |->
                          IF t \in started
                            THEN exec[t] \cup {Execution(t, "scheduled")}
                            ELSE exec[t]]
            /\ busy' = busy \cup started
    /\ UNCHANGED <<clock, phase, edits, crashes>>
    /\ Rescheduled

ManualRows ==
    UNION {{<<t, i>> : i \in {j \in DOMAIN rows[t] : rows[t][j].trigger = "manual"}} :
             t \in Tasks}

\* Mutant: nobody looks whether the task is running.
MayRunAnyway(t) == t \in Live
\* runScheduledTaskNow
MayRunNow(t) == t \in Live \ busy

RunNow(t) ==
    /\ phase # "down" /\ MayRunNow(t) /\ Cardinality(ManualRows) < MaxManual
    /\ \/ /\ rows' = [rows EXCEPT ![t] = Append(@, Row(clock, "manual", "running"))]
          /\ exec' = [exec EXCEPT ![t] = @ \cup {Execution(t, "manual")}]
          /\ busy' = busy \cup {t}
       \/ /\ rows' = [rows EXCEPT ![t] = Append(@, Row(clock, "manual", "failed"))]
          /\ UNCHANGED <<exec, busy>>
    /\ UNCHANGED tasks
    /\ UNCHANGED <<clock, phase, edits, crashes>>
    /\ Rescheduled

\* The end of execute(), whatever the outcome.  A row that was deleted
\* meanwhile is there again.
Ends(t) ==
    /\ phase # "down"
    /\ \E e \in exec[t] :
         /\ rows' = [rows EXCEPT ![t][e.row].status = "ended"]
         /\ tasks' = [tasks EXCEPT ![t] = Closed(@, e.rule, e.trigger)]
         /\ exec' = [exec EXCEPT ![t] = @ \ {e}]
    /\ busy' = busy \ {t}
    /\ UNCHANGED <<clock, phase, edits, crashes>>
    /\ Rescheduled

-----------------------------------------------------------------------------
(* scheduledWrites: the user's edits and those of agents. *)

CanEdit == phase # "down" /\ edits < MaxEdits /\ edits' = edits + 1
Elsewhere == UNCHANGED <<clock, phase, busy, exec, crashes>>

Create(t, rule) ==
    /\ CanEdit /\ tasks[t] = Unborn
    /\ tasks' = [tasks EXCEPT ![t] = NewTask(rule, TRUE, 0, Nobody)]
    /\ UNCHANGED rows /\ Elsewhere /\ Rescheduled

\* update and setEnabled; the chain depth stays.
Update(t, rule, enabled) ==
    /\ CanEdit /\ t \in Live
    /\ tasks' = [tasks EXCEPT ![t].rule = rule, ![t].enabled = enabled,
                              ![t].nextRunAt = Planned(rule, enabled)]
    /\ UNCHANGED rows /\ Elsewhere /\ Rescheduled

Remove(t) ==
    /\ CanEdit /\ t \in Live
    /\ tasks' = [tasks EXCEPT ![t] = Deleted(@)]
    /\ UNCHANGED rows /\ Elsewhere /\ Rescheduled

\* Rows with a session: those of runs that got as far as an agent.
HasSession(row) == row.status \in {"running", "ended", "deleted"}

\* scheduled:deleteRun; the session stays.
DeleteRow(t, i) ==
    /\ CanEdit /\ rows[t][i].status \in {"running", "ended"}
    /\ rows' = [rows EXCEPT ![t][i].status = "deleted"]
    /\ UNCHANGED <<tasks, timer>> /\ Elsewhere

\* chainDepthOf: by way of the row of the session, and the task of the row.
ChainDepthOf(parent, row) ==
    IF rows[parent][row].status = "deleted" \/ parent \notin Live
      THEN 0 ELSE tasks[parent].depth

\* An agent schedules a follow-up: in a chat, or in the session of a task's
\* run, which may go on after the run.  A rule that never fires is refused.
AgentCreates(t, rule) ==
    /\ CanEdit /\ tasks[t] = Unborn
    /\ Planned(rule, TRUE) # Never
    /\ \/ /\ 1 <= MaxChainDepth
          /\ tasks' = [tasks EXCEPT ![t] = NewTask(rule, TRUE, 1, Nobody)]
       \/ \E p \in Tasks : \E i \in DOMAIN rows[p] :
            /\ HasSession(rows[p][i])
            /\ ChainDepthOf(p, i) + 1 <= MaxChainDepth
            /\ tasks' = [tasks EXCEPT ![t] =
                            NewTask(rule, TRUE, ChainDepthOf(p, i) + 1, p)]
    /\ UNCHANGED rows /\ Elsewhere /\ Rescheduled

-----------------------------------------------------------------------------
(* The end of the process. *)

\* stopScheduler, on the way out
Quit ==
    /\ phase = "up"
    /\ phase' = "quitting"
    /\ timer' = Never
    /\ UNCHANGED <<clock, tasks, rows, busy, exec, edits, crashes>>

Gone ==
    /\ crashes < MaxCrashes /\ crashes' = crashes + 1
    /\ phase' = "down" /\ timer' = Never
    /\ busy' = {} /\ exec' = [t \in Tasks |-> {}]
    /\ UNCHANGED <<clock, edits>>

\* The process is gone, and with it what it held in memory (runningTasks, the
\* timer, the runs); the rows stay as they are.
Crash == phase # "down" /\ Gone /\ UNCHANGED <<tasks, rows>>

\* A tick that got no further: `done' are the tasks dealt with, in the order
\* of their due times; the next one is advanced.
UpTo(done, next) ==
    /\ \A t \in done : tasks[t].nextRunAt <= tasks[next].nextRunAt
    /\ \A t \in Due \ done : tasks[next].nextRunAt <= tasks[t].nextRunAt
    /\ tasks' = [t \in Tasks |-> IF t \in done \cup {next}
                                   THEN Advanced(tasks[t]) ELSE tasks[t]]

\* A crash inside tick(false): the next task has no row, or one that is
\* "queued" for ever.
CrashInTick ==
    /\ phase = "up" /\ timer <= clock
    /\ \E done \in SUBSET Due : \E next \in Due \ done :
         /\ UpTo(done, next)
         /\ \E queued \in SUBSET ({next} \ busy) :
              rows' = [t \in Tasks |->
                 IF t \in queued \cup (done \ busy)
                   THEN Append(rows[t], Row(tasks[t].nextRunAt, "scheduled",
                            IF t = next THEN "queued" ELSE "running"))
                   ELSE rows[t]]
    /\ Gone

\* A crash inside tick(true), of start-up or of a wake-up: the next task is
\* advanced and has no row.
CrashInSkip ==
    /\ phase # "quitting"
    /\ \E done \in SUBSET Due : \E next \in Due \ done :
         /\ UpTo(done, next)
         /\ rows' = [t \in Tasks |-> IF t \in done THEN Skipped(t) ELSE rows[t]]
    /\ Gone

\* A crash at the end of a run, between its row and the closing of its task.
CrashAtEnd(t) ==
    /\ phase # "down"
    /\ \E e \in exec[t] : rows' = [rows EXCEPT ![t][e.row].status = "ended"]
    /\ UNCHANGED tasks
    /\ Gone

Next ==
    \/ Advance \/ Start \/ Resume \/ TimerFires \/ Quit
    \/ Crash \/ CrashInTick \/ CrashInSkip
    \/ \E t \in Tasks :
         \/ RunNow(t) \/ Ends(t) \/ Remove(t) \/ CrashAtEnd(t)
         \/ \E rule \in Rules :
              \/ Create(t, rule) \/ AgentCreates(t, rule)
              \/ \E enabled \in BOOLEAN : Update(t, rule, enabled)
         \/ \E i \in DOMAIN rows[t] : DeleteRow(t, i)

\* A timer fires in the end.  Nothing is assumed of runs: they may take for
\* ever, and a task whose run hangs is passed over.
Fairness == WF_vars(TimerFires)
Spec == Init /\ [][Next]_vars /\ Fairness

-----------------------------------------------------------------------------
TaskSet == [is : {"unborn", "live", "deleted"}, rule : Rules, enabled : BOOLEAN,
            nextRunAt : Times \cup {Never}, depth : 0 .. MaxChainDepth,
            by : Tasks \cup {Nobody}]
RowSet == [at : Times, trigger : {"scheduled", "manual"},
           status : {"queued", "running", "ended", "failed", "skipped",
                     "deleted"},
           passed : Times]

\* The state is well typed.
TypeOK ==
    /\ clock \in Times
    /\ phase \in {"down", "up", "quitting"}
    /\ tasks \in [Tasks -> TaskSet]
    /\ rows \in [Tasks -> Seq(RowSet)]
    /\ timer \in Times \cup {Never}
    /\ busy \in SUBSET Tasks
    /\ exec \in [Tasks -> SUBSET [row : Nat, trigger : {"scheduled", "manual"},
                                  rule : Rules]]
    /\ edits \in 0 .. MaxEdits
    /\ crashes \in 0 .. MaxCrashes

\* A task is executed by one run at a time, and runningTasks says so: neither
\* the timer nor the user starts another, and no end of a run clears the mark
\* of a run that still works.
OneAtATime ==
    \A t \in Tasks : \A e \in exec[t] : exec[t] = {e} /\ t \in busy

\* A due time is dealt with once: no two rows record the same occurrence of a
\* task, whatever edits, wake-ups and restarts fall between; a crash inside a
\* tick loses the occurrence and does not repeat it.
AccountedOnce ==
    \A t \in Tasks : \A i, j \in DOMAIN rows[t] :
        /\ i # j
        /\ rows[t][i].trigger = "scheduled" /\ rows[t][j].trigger = "scheduled"
        => rows[t][i].at # rows[t][j].at

\* The plan of a task is past every due time that was dealt with.
PlanIsPast ==
    \A t \in Tasks : \A i \in DOMAIN rows[t] :
        rows[t][i].trigger = "scheduled" =>
            rows[t][i].at <= clock /\ rows[t][i].at < tasks[t].nextRunAt

\* While the scheduler is up, every enabled task with a next occurrence has
\* the timer to wake it, no later than it is due: no write forgets to
\* reschedule.
TimerArmed ==
    phase = "up" =>
        \A t \in Live : tasks[t].enabled => timer <= tasks[t].nextRunAt

SchedInv == TypeOK /\ OneAtATime /\ PlanIsPast /\ AccountedOnce /\ TimerArmed

\* The plan of an enabled task leaves out none of the instants still ahead,
\* whatever edits, runs, wake-ups and crashes came before: not when the zone
\* skips or repeats the time of the rule or the end of its window, nor when the
\* search begins between two repeats.  This is so of rules whose instants the
\* search reaches.  Two kinds of rules are not: a one-off with a window, on a day
\* later than tomorrow when it is planned (scheduled.ts:164), and a daily or
\* weekly rule in a zone that changes its offset around the end of a local day,
\* so that the next day has begun before the last instant of that day.
FutureIsPlanned ==
    \A t \in Live : tasks[t].enabled =>
        \A o \in Instants[tasks[t].rule] :
            o > clock => tasks[t].nextRunAt <= o

\* Due occurrences are dealt with: while the process lives there is again and
\* again a moment at which nothing is due.
NothingStaysDue == []<>(phase # "up" \/ Due = {})

\* A follow-up is one level deeper than the task whose run created it
\* (shared/domain/scheduled.ts: its parent's depth + 1).
ChainIsParentPlusOne ==
    \A t \in Tasks : tasks[t].by # Nobody =>
        tasks[t].depth = tasks[tasks[t].by].depth + 1

\* What was due when the application started or woke up is not executed
\* afterwards: no run of an occurrence that lies before a moment at which the
\* task's missed occurrences were recorded as skipped.
MissedIsSkipped ==
    \A t \in Tasks : \A i, j \in DOMAIN rows[t] :
        /\ i < j /\ rows[t][i].status = "skipped"
        /\ rows[t][j].trigger = "scheduled" /\ rows[t][j].status = "running"
        => rows[t][i].passed < rows[t][j].at
=============================================================================
