--------------------------- MODULE SchedulerProofs ---------------------------
(***************************************************************************)
(* Proofs about Scheduler, for every set of tasks and rules, every zone and *)
(* every bound: a task is executed once at a time, no due time is dealt     *)
(* with twice, and none that lies ahead is left out of the plan.            *)
(***************************************************************************)
EXTENDS Scheduler, WellFoundedInduction, TLAPS

\* A set of integers that is bounded from below has a minimum.
LEMMA MinExists ==
    ASSUME NEW S \in SUBSET Int, S # {}, NEW b \in Int, \A x \in S : b <= x
    PROVE  Min(S) \in S /\ \A y \in S : Min(S) <= y
<1> DEFINE T == {x - b : x \in S}
<1>1. T \subseteq Nat /\ T # {}
    <2>1. \A x \in S : x - b \in Nat
        OBVIOUS
    <2>2. PICK x \in S : TRUE
        OBVIOUS
    <2>3. x - b \in T
        OBVIOUS
    <2> QED
        BY <2>1, <2>3
<1> DEFINE Below == {p \in Nat \X Nat : p[1] < p[2]}
<1>0. IsWellFoundedOn(Below, Nat)
    BY NatLessThanWellFounded DEF OpToRel
<1>2. PICK m \in T : \A y \in T : <<y, m>> \notin Below
    <2> HIDE DEF T, Below
    <2> QED
        BY <1>0, <1>1, WFMin
<1>3. PICK x \in S : m = x - b
    OBVIOUS
<1>4. \A y \in S : x <= y
    <2> SUFFICES ASSUME NEW y \in S, ~ (x <= y)
                 PROVE  FALSE
        OBVIOUS
    <2>1. y - b \in T /\ y - b \in Nat /\ m \in Nat /\ y - b < m
        BY <1>1, <1>3
    <2>2. <<y - b, m>> \in Below
        BY <2>1
    <2> HIDE DEF T, Below
    <2> QED
        BY <1>2, <2>1, <2>2
<1> QED
    BY <1>4 DEF Min

-----------------------------------------------------------------------------
(* Schedules *)

LEMMA InstantsAreIntegers ==
    ASSUME NEW rule \in RuleSet, NEW day \in Int
    PROVE  InstantsOn(rule, day) \subseteq Int
<1>1. rule.time \in Int /\ rule.until \in Int /\ rule.every \in Nat \ {0}
    BY DEF RuleSet
<1>2. \A time \in Int : LocalToUtc(rule.zone, day, time) \in Int
    BY TimeAssumption DEF TimeAssumption, LocalToUtc, ZoneOffset, RuleSet, ZoneSet
<1> DEFINE start == LocalToUtc(rule.zone, day, rule.time)
           last == IF rule.window THEN LocalToUtc(rule.zone, day, rule.until) ELSE start
<1>3. start \in Int /\ last \in Int
    BY <1>1, <1>2
<1>4. \A k \in 0 .. (last - start) \div rule.every : start + k * rule.every \in Int
    <2> HIDE DEF start, last
    <2> QED
        BY <1>1, <1>3
<1> QED
    BY <1>3, <1>4 DEF InstantsOn

LEMMA DaysTriedHaveMinimum ==
    ASSUME NEW rule \in RuleSet, NEW after \in Int,
           NEW D \in SUBSET DaysTried(rule, after), D # {}
    PROVE  Min(D) \in D /\ D \subseteq Int
<1>1. rule.day \in Int
    BY DEF RuleSet
<1>2. LocalDay(rule.zone, after) \in Int
    BY TimeAssumption DEF TimeAssumption, LocalDay, ZoneOffset, RuleSet, ZoneSet
<1>3. CASE rule.kind = "once" /\ ~rule.window
    <2>1. D \subseteq Int /\ \A x \in D : rule.day <= x
        BY <1>1, <1>3 DEF DaysTried
    <2> QED
        BY <1>1, <2>1, MinExists
<1>4. CASE ~(rule.kind = "once" /\ ~rule.window)
    <2>1. D \subseteq Int /\ \A x \in D : LocalDay(rule.zone, after) <= x
        BY <1>2, <1>4, TimeAssumption DEF DaysTried, TimeAssumption
    <2> QED
        BY <1>2, <2>1, MinExists
<1> QED
    BY <1>3, <1>4

\* The next occurrence lies ahead, or there is none.
LEMMA NextIsLater ==
    ASSUME NEW rule \in Rules, NEW after \in Times
    PROVE  /\ NextDue[rule][after] \in Times \cup {Never}
           /\ NextDue[rule][after] > after
<1>1. rule \in RuleSet /\ after \in Int /\ Never \in Int /\ Never > after
    BY SchedulerAssumption, TimeAssumption
       DEF SchedulerAssumption, TimeAssumption, Times, Never
<1>2. NextDue[rule][after] = NextOccurrence(rule, after)
    BY DEF NextDue
<1> DEFINE later(day) == {t \in InstantsOn(rule, day) : t > after}
           days == {day \in DaysTried(rule, after) : later(day) # {}}
           next == Min(later(Min(days)))
<1>3. NextOccurrence(rule, after) =
        IF days = {} THEN Never ELSE IF next \in Times THEN next ELSE Never
    BY DEF NextOccurrence
<1>4. ASSUME days # {}
      PROVE  next > after
    <2>1. Min(days) \in days /\ Min(days) \in Int
        BY <1>1, <1>4, DaysTriedHaveMinimum
    <2>2. later(Min(days)) # {} /\ later(Min(days)) \subseteq Int
        BY <1>1, <2>1, InstantsAreIntegers
    <2>3. \A x \in later(Min(days)) : after <= x
        BY <1>1, <2>2
    <2>4. next \in later(Min(days))
        <3> HIDE DEF later, days
        <3> QED
            BY <1>1, <2>2, <2>3, MinExists
    <2> QED
        BY <2>4
<1> HIDE DEF next, days
<1>5. CASE days = {} \/ next \notin Times
    BY <1>1, <1>2, <1>3, <1>5
<1>6. CASE days # {} /\ next \in Times
    BY <1>1, <1>2, <1>3, <1>4, <1>6
<1> QED
    BY <1>5, <1>6

-----------------------------------------------------------------------------
(* Tasks *)

LEMMA PlannedIsLater ==
    ASSUME NEW rule \in Rules, NEW enabled \in BOOLEAN, clock \in Times
    PROVE  Planned(rule, enabled) \in Times \cup {Never} /\ Planned(rule, enabled) > clock
<1>1. Never > clock
    BY TimeAssumption DEF TimeAssumption, Times, Never
<1> QED
    BY <1>1, NextIsLater DEF Planned

LEMMA AdvancedIsLater ==
    ASSUME NEW task \in TaskSet, task.nextRunAt \in Times
    PROVE  /\ Advanced(task) \in TaskSet
           /\ Advanced(task).nextRunAt > task.nextRunAt
<1>1. task.rule \in Rules
    BY DEF TaskSet
<1>2. /\ NextDue[task.rule][task.nextRunAt] \in Times \cup {Never}
      /\ NextDue[task.rule][task.nextRunAt] > task.nextRunAt
    BY <1>1, NextIsLater
<1>3. DOMAIN task = {"is", "rule", "enabled", "nextRunAt", "depth", "by"}
    BY DEF TaskSet
<1>4. Advanced(task).nextRunAt = NextDue[task.rule][task.nextRunAt]
    BY <1>3 DEF Advanced
<1>5. Advanced(task) \in TaskSet
    BY <1>2 DEF Advanced, TaskSet
<1> QED
    BY <1>2, <1>4, <1>5

LEMMA ClosedIsNotEarlier ==
    ASSUME NEW task \in TaskSet, NEW rule, NEW trigger
    PROVE  /\ Closed(task, rule, trigger) \in TaskSet
           /\ Closed(task, rule, trigger).nextRunAt >= task.nextRunAt
<1>1. /\ task.nextRunAt \in Times \cup {Never} /\ task.nextRunAt \in Int
      /\ Never \in Int /\ Never >= task.nextRunAt
    BY TimeAssumption DEF TimeAssumption, TaskSet, Times, Never
<1>2. DOMAIN task = {"is", "rule", "enabled", "nextRunAt", "depth", "by"}
    BY DEF TaskSet
<1> DEFINE closed == [task EXCEPT !.enabled = FALSE, !.nextRunAt = Never]
<1>3. closed \in TaskSet /\ closed.nextRunAt = Never
    BY <1>2 DEF TaskSet
<1> HIDE DEF closed
<1>4. Closed(task, rule, trigger) \in {closed, task}
    BY DEF Closed, closed
<1> QED
    BY <1>1, <1>3, <1>4

LEMMA NewTaskIsTyped ==
    ASSUME NEW rule \in Rules, NEW enabled \in BOOLEAN, clock \in Times,
           NEW depth \in 0 .. MaxChainDepth, NEW by \in Tasks \cup {Nobody}
    PROVE  /\ NewTask(rule, enabled, depth, by) \in TaskSet
           /\ NewTask(rule, enabled, depth, by).nextRunAt > clock
BY PlannedIsLater DEF NewTask, TaskSet

LEMMA UnbornIsTyped == Unborn \in TaskSet /\ Unborn.nextRunAt = Never
<1>1. PICK r \in Rules : r = CHOOSE x \in Rules : TRUE
    BY SchedulerAssumption DEF SchedulerAssumption
<1>2. 0 \in 0 .. MaxChainDepth
    BY SchedulerAssumption DEF SchedulerAssumption
<1> QED
    BY <1>1, <1>2 DEF Unborn, TaskSet

LEMMA DeletedIsTyped ==
    ASSUME NEW task \in TaskSet
    PROVE  Deleted(task) \in TaskSet /\ Deleted(task).nextRunAt = Never
<1>1. DOMAIN Unborn = {"is", "rule", "enabled", "nextRunAt", "depth", "by"}
    BY DEF Unborn
<1> QED
    BY <1>1, UnbornIsTyped DEF Deleted, TaskSet

\* Rearming the timer: it fires no later than any enabled task is due.
LEMMA TimerFollows ==
    ASSUME tasks' \in [Tasks -> TaskSet], Rescheduled
    PROVE  timer' \in Times \cup {Never} /\ TimerArmed'
<1> DEFINE at(t) == tasks'[t].nextRunAt
           on == {t \in Tasks : tasks'[t].is = "live" /\ tasks'[t].enabled}
           S == {Never} \cup {at(t) : t \in on}
<1>1. S \subseteq Times \cup {Never} /\ S # {} /\ Never \in Int
    BY TimeAssumption DEF TimeAssumption, Never, TaskSet
<1>2. S \subseteq Int /\ \A x \in S : 0 <= x
    BY <1>1, TimeAssumption DEF TimeAssumption, Times, Never
<1>3. Min(S) \in S /\ \A x \in S : Min(S) <= x
    <2> HIDE DEF S
    <2> QED
        BY <1>1, <1>2, MinExists
<1>4. Earliest(tasks') = Min(S)
    BY DEF Earliest
<1>5. timer' = IF phase' = "up" THEN Min(S) ELSE Never
    BY <1>4 DEF Rescheduled
<1>6. timer' \in Times \cup {Never}
    <2> HIDE DEF S
    <2> QED
        BY <1>1, <1>3, <1>5
<1>7. ASSUME phase' = "up", NEW t \in Tasks, tasks'[t].is = "live", tasks'[t].enabled
      PROVE  timer' <= tasks'[t].nextRunAt
    <2>1. tasks'[t].nextRunAt \in S
        BY <1>7
    <2> HIDE DEF S
    <2> QED
        BY <1>3, <1>5, <1>7, <2>1
<1> QED
    BY <1>6, <1>7 DEF TimerArmed, Live

-----------------------------------------------------------------------------
(* Rows *)

\* What an action may do to the rows of a task: leave due times and triggers
\* alone, add a manual row, or add a row for the task's due time, whose plan
\* then moves on.  The plan itself moves on or is made anew from now.
SameRows(t) ==
    /\ DOMAIN rows'[t] = DOMAIN rows[t]
    /\ \A i \in DOMAIN rows[t] : /\ rows'[t][i].at = rows[t][i].at
                                 /\ rows'[t][i].trigger = rows[t][i].trigger
    /\ \/ tasks'[t].nextRunAt >= tasks[t].nextRunAt
       \/ tasks'[t].nextRunAt > clock
ManualRow(t) ==
    /\ \E row \in RowSet : row.trigger = "manual" /\ rows'[t] = Append(rows[t], row)
    /\ tasks'[t] = tasks[t]
DueRow(t) ==
    /\ \E row \in RowSet : /\ row.trigger = "scheduled"
                           /\ row.at = tasks[t].nextRunAt /\ row.at <= clock
                           /\ rows'[t] = Append(rows[t], row)
                           /\ tasks'[t].nextRunAt > row.at

LEMMA RowsStayAccounted ==
    ASSUME TypeOK, PlanIsPast, AccountedOnce,
           tasks' \in [Tasks -> TaskSet], clock' \in Times, clock' >= clock,
           \A t \in Tasks : SameRows(t) \/ ManualRow(t) \/ DueRow(t)
    PROVE  PlanIsPast' /\ AccountedOnce'
<1> SUFFICES ASSUME NEW t \in Tasks
             PROVE  /\ \A i \in DOMAIN rows'[t] :
                          rows'[t][i].trigger = "scheduled" =>
                            /\ rows'[t][i].at <= clock'
                            /\ rows'[t][i].at < tasks'[t].nextRunAt
                    /\ \A i, j \in DOMAIN rows'[t] :
                          /\ i # j
                          /\ rows'[t][i].trigger = "scheduled"
                          /\ rows'[t][j].trigger = "scheduled"
                          => rows'[t][i].at # rows'[t][j].at
    BY DEF PlanIsPast, AccountedOnce
<1>1. /\ rows[t] \in Seq(RowSet) /\ clock \in Int /\ clock' \in Int
      /\ tasks[t].nextRunAt \in Int /\ tasks'[t].nextRunAt \in Int
    BY TimeAssumption DEF TimeAssumption, TypeOK, TaskSet, Times, Never
<1>2. \A i \in DOMAIN rows[t] : rows[t][i].at \in Int
    <2>1. \A i \in DOMAIN rows[t] : rows[t][i] \in RowSet
        BY <1>1
    <2> QED
        BY <2>1 DEF RowSet, Times
<1>3. \A i \in DOMAIN rows[t] : rows[t][i].trigger = "scheduled" =>
          rows[t][i].at <= clock /\ rows[t][i].at < tasks[t].nextRunAt
    BY DEF PlanIsPast
<1>4. \A i, j \in DOMAIN rows[t] :
          i # j /\ rows[t][i].trigger = "scheduled" /\ rows[t][j].trigger = "scheduled"
          => rows[t][i].at # rows[t][j].at
    BY DEF AccountedOnce
<1>5. CASE SameRows(t)
    <2>1. /\ DOMAIN rows'[t] = DOMAIN rows[t]
          /\ \A i \in DOMAIN rows[t] : /\ rows'[t][i].at = rows[t][i].at
                                       /\ rows'[t][i].trigger = rows[t][i].trigger
          /\ \/ tasks'[t].nextRunAt >= tasks[t].nextRunAt
             \/ tasks'[t].nextRunAt > clock
        BY <1>5 DEF SameRows
    <2>2. ASSUME NEW i \in DOMAIN rows[t], rows[t][i].trigger = "scheduled"
          PROVE  rows[t][i].at <= clock' /\ rows[t][i].at < tasks'[t].nextRunAt
        <3> DEFINE a == rows[t][i].at
                   p == tasks[t].nextRunAt
                   q == tasks'[t].nextRunAt
        <3>1. /\ a \in Int /\ p \in Int /\ q \in Int
              /\ a <= clock /\ a < p /\ (q >= p \/ q > clock)
            BY <1>1, <1>2, <1>3, <2>1, <2>2
        <3>2. clock \in Int /\ clock' \in Int /\ clock' >= clock
            BY <1>1
        <3> HIDE DEF a, p, q
        <3>3. a <= clock' /\ a < q
            BY <3>1, <3>2
        <3> QED
            BY <3>3 DEF a, q
    <2>3. \A i \in DOMAIN rows'[t] : rows'[t][i].trigger = "scheduled" =>
            rows'[t][i].at <= clock' /\ rows'[t][i].at < tasks'[t].nextRunAt
        BY <2>1, <2>2
    <2>4. \A i, j \in DOMAIN rows'[t] :
            i # j /\ rows'[t][i].trigger = "scheduled" /\ rows'[t][j].trigger = "scheduled"
            => rows'[t][i].at # rows'[t][j].at
        BY <1>4, <2>1
    <2> QED
        BY <2>3, <2>4
<1>6. ASSUME NEW row \in RowSet, rows'[t] = Append(rows[t], row),
             tasks'[t].nextRunAt >= tasks[t].nextRunAt,
             row.trigger = "manual" \/
               (row.at = tasks[t].nextRunAt /\ row.at <= clock
                  /\ tasks'[t].nextRunAt > row.at)
      PROVE  /\ \A i \in DOMAIN rows'[t] :
                          rows'[t][i].trigger = "scheduled" =>
                            /\ rows'[t][i].at <= clock'
                            /\ rows'[t][i].at < tasks'[t].nextRunAt
             /\ \A i, j \in DOMAIN rows'[t] :
                          /\ i # j
                          /\ rows'[t][i].trigger = "scheduled"
                          /\ rows'[t][j].trigger = "scheduled"
                          => rows'[t][i].at # rows'[t][j].at
    <2> DEFINE n == Len(rows[t]) + 1
    <2>1. /\ DOMAIN rows[t] = 1 .. n - 1 /\ DOMAIN rows'[t] = 1 .. n /\ n \in Nat
          /\ rows'[t][n] = row
          /\ \A i \in DOMAIN rows[t] : rows'[t][i] = rows[t][i]
        BY <1>1, <1>6
    <2>2. row.at \in Int
        BY DEF RowSet, Times
    <2> HIDE DEF n
    <2>3. \A i \in DOMAIN rows'[t] : i = n \/ (i # n /\ i \in DOMAIN rows[t])
        BY <2>1
    <2>4. row.trigger = "scheduled" =>
            /\ row.at = tasks[t].nextRunAt /\ row.at <= clock
            /\ tasks'[t].nextRunAt > row.at
        BY <1>6
    <2>5. \A i \in DOMAIN rows'[t] :
            rows'[t][i].trigger = "scheduled" =>
              rows'[t][i].at <= clock' /\ rows'[t][i].at < tasks'[t].nextRunAt
        <3> SUFFICES ASSUME NEW i \in DOMAIN rows'[t],
                            rows'[t][i].trigger = "scheduled"
                     PROVE  /\ rows'[t][i].at <= clock'
                            /\ rows'[t][i].at < tasks'[t].nextRunAt
            OBVIOUS
        <3>1. CASE i = n
            BY <1>1, <2>1, <2>2, <2>4, <3>1
        <3>2. CASE i \in DOMAIN rows[t]
            <4>1. /\ rows[t][i].at \in Int /\ rows'[t][i].at = rows[t][i].at
                  /\ rows[t][i].at <= clock /\ rows[t][i].at < tasks[t].nextRunAt
                BY <1>2, <1>3, <2>1, <3>2
            <4>2. tasks'[t].nextRunAt >= tasks[t].nextRunAt
                BY <1>6
            <4> DEFINE a == rows'[t][i].at
                       p == tasks[t].nextRunAt
                       q == tasks'[t].nextRunAt
            <4>3. a \in Int /\ p \in Int /\ q \in Int /\ a <= clock /\ a < p /\ q >= p
                BY <1>1, <4>1, <4>2
            <4>4. clock \in Int /\ clock' \in Int /\ clock' >= clock
                BY <1>1
            <4> HIDE DEF a, p, q
            <4>5. a <= clock' /\ a < q
                BY <4>3, <4>4
            <4> QED
                BY <4>5 DEF a, q
        <3> QED
            BY <2>3, <3>1, <3>2
    <2>6. \A i \in DOMAIN rows[t] :
            rows[t][i].trigger = "scheduled" /\ row.trigger = "scheduled"
              => rows[t][i].at # row.at
        BY <1>1, <1>2, <1>3, <2>2, <2>4
    <2>7. ASSUME NEW i \in DOMAIN rows'[t], NEW j \in DOMAIN rows'[t], i # j,
                 rows'[t][i].trigger = "scheduled", rows'[t][j].trigger = "scheduled"
          PROVE  rows'[t][i].at # rows'[t][j].at
        BY <1>4, <2>1, <2>3, <2>6, <2>7
    <2> QED
        BY <2>5, <2>7
<1>7. CASE ManualRow(t)
    <2>1. PICK row \in RowSet :
            row.trigger = "manual" /\ rows'[t] = Append(rows[t], row)
        BY Zenon, <1>7 DEF ManualRow
    <2>2. tasks'[t] = tasks[t]
        BY <1>7 DEF ManualRow
    <2>3. tasks'[t].nextRunAt >= tasks[t].nextRunAt
        BY <1>1, <2>2
    <2> QED
        BY Zenon, <1>6, <2>1, <2>3
<1>8. CASE DueRow(t)
    <2>1. PICK row \in RowSet :
            /\ row.at = tasks[t].nextRunAt /\ row.at <= clock
            /\ rows'[t] = Append(rows[t], row)
            /\ tasks'[t].nextRunAt > row.at
        BY Zenon, <1>8 DEF DueRow
    <2>2. tasks'[t].nextRunAt >= tasks[t].nextRunAt
        BY <1>1, <2>1
    <2> QED
        BY Zenon, <1>6, <2>1, <2>2
<1> QED
    BY <1>5, <1>7, <1>8

LEMMA RowIsTyped ==
    ASSUME NEW at \in Times, clock \in Times,
           NEW trigger \in {"scheduled", "manual"},
           NEW status \in {"queued", "running", "ended", "failed", "skipped"}
    PROVE  /\ Row(at, trigger, status) \in RowSet
           /\ Row(at, trigger, status).at = at
           /\ Row(at, trigger, status).trigger = trigger
BY DEF Row, RowSet

\* A row with a new status: nothing else of it changes.
Restated(s, i, status) == [s EXCEPT ![i].status = status]
LEMMA StatusChanges ==
    ASSUME NEW s \in Seq(RowSet), NEW i \in Nat, NEW status \in {"ended", "deleted"}
    PROVE  /\ Restated(s, i, status) \in Seq(RowSet)
           /\ DOMAIN Restated(s, i, status) = DOMAIN s
           /\ \A j \in DOMAIN s :
                 /\ Restated(s, i, status)[j].at = s[j].at
                 /\ Restated(s, i, status)[j].trigger = s[j].trigger
<1> DEFINE new == [s EXCEPT ![i].status = status]
<1>1. DOMAIN new = DOMAIN s /\ DOMAIN s = 1 .. Len(s) /\ Len(s) \in Nat
    OBVIOUS
<1>2. \A j \in DOMAIN s : s[j] \in RowSet
    OBVIOUS
<1>3. \A j \in DOMAIN s : /\ new[j] \in RowSet
                          /\ new[j].at = s[j].at /\ new[j].trigger = s[j].trigger
    BY <1>2 DEF RowSet
<1>4. new \in Seq(RowSet)
    <2>1. \E n \in Nat : new \in [1 .. n -> RowSet]
        <3>1. new \in [1 .. Len(s) -> RowSet]
            BY <1>1, <1>3
        <3> QED
            BY <1>1, <3>1
    <2> HIDE DEF new
    <2> QED
        BY <2>1
<1> QED
    BY <1>1, <1>3, <1>4 DEF Restated

-----------------------------------------------------------------------------
(* The invariant is inductive. *)

LEMMA DueIsTyped ==
    ASSUME TypeOK, NEW t \in Due
    PROVE  /\ t \in Tasks /\ tasks[t] \in TaskSet
           /\ tasks[t].nextRunAt \in Times /\ tasks[t].nextRunAt <= clock
<1>1. t \in Tasks /\ tasks[t] \in TaskSet /\ tasks[t].nextRunAt <= clock
    BY DEF Due, Live, TypeOK
<1>2. tasks[t].nextRunAt \in Times \cup {Never} /\ clock \in Times
    BY <1>1 DEF TaskSet, TypeOK
<1>3. ~ (Never <= clock)
    BY <1>2, TimeAssumption DEF TimeAssumption, Times, Never
<1> QED
    BY <1>1, <1>2, <1>3

\* A task whose due time is passed and recorded.
LEMMA DueRowHolds ==
    ASSUME TypeOK, NEW t \in Due,
           NEW status \in {"queued", "running", "ended", "failed", "skipped"},
           rows'[t] = Append(rows[t], Row(tasks[t].nextRunAt, "scheduled", status)),
           tasks'[t].nextRunAt >= Advanced(tasks[t]).nextRunAt,
           tasks'[t] \in TaskSet
    PROVE  DueRow(t) /\ rows'[t] \in Seq(RowSet)
<1>1. /\ t \in Tasks /\ tasks[t] \in TaskSet
      /\ tasks[t].nextRunAt \in Times /\ tasks[t].nextRunAt <= clock
    BY DueIsTyped
<1> DEFINE row == Row(tasks[t].nextRunAt, "scheduled", status)
<1>2. row \in RowSet /\ row.at = tasks[t].nextRunAt /\ row.trigger = "scheduled"
    BY <1>1, RowIsTyped DEF TypeOK
<1>3. Advanced(tasks[t]) \in TaskSet /\ Advanced(tasks[t]).nextRunAt > tasks[t].nextRunAt
    BY <1>1, AdvancedIsLater
<1>4. /\ tasks'[t].nextRunAt \in Int /\ Advanced(tasks[t]).nextRunAt \in Int
      /\ tasks[t].nextRunAt \in Int
    BY <1>1, <1>3, TimeAssumption DEF TimeAssumption, TaskSet, Times, Never
<1>5. tasks'[t].nextRunAt > tasks[t].nextRunAt
    BY <1>3, <1>4
<1>6. rows[t] \in Seq(RowSet)
    BY <1>1 DEF TypeOK
<1> HIDE DEF row
<1>7. rows'[t] = Append(rows[t], row)
    BY DEF row
<1> QED
    BY <1>1, <1>2, <1>5, <1>6, <1>7 DEF DueRow

LEMMA SameRowsHold ==
    ASSUME TypeOK, NEW t \in Tasks, rows'[t] = rows[t],
           tasks'[t].nextRunAt >= tasks[t].nextRunAt \/ tasks'[t].nextRunAt > clock
    PROVE  SameRows(t) /\ rows'[t] \in Seq(RowSet)
BY DEF SameRows, TypeOK

LEMMA PlansAreIntegers ==
    ASSUME TypeOK, NEW t \in Tasks
    PROVE  tasks[t].nextRunAt \in Int /\ tasks[t].nextRunAt >= tasks[t].nextRunAt
BY TimeAssumption DEF TimeAssumption, TypeOK, TaskSet, Times, Never

RowsMove == \A t \in Tasks : SameRows(t) \/ ManualRow(t) \/ DueRow(t)

LEMMA SkipDueMoves ==
    ASSUME TypeOK, SkipDue
    PROVE  /\ tasks' \in [Tasks -> TaskSet] /\ rows' \in [Tasks -> Seq(RowSet)]
           /\ RowsMove
<1>1. ASSUME NEW t \in Tasks
      PROVE  /\ tasks'[t] \in TaskSet /\ rows'[t] \in Seq(RowSet)
             /\ SameRows(t) \/ DueRow(t)
    <2>1. CASE t \in Due
        <3>1. /\ tasks'[t] = Advanced(tasks[t])
              /\ rows'[t] = Append(rows[t], Row(tasks[t].nextRunAt, "scheduled", "skipped"))
            BY <2>1 DEF SkipDue, Skipped
        <3>2. Advanced(tasks[t]) \in TaskSet
            BY <2>1, DueIsTyped, AdvancedIsLater
        <3>3. Advanced(tasks[t]).nextRunAt >= Advanced(tasks[t]).nextRunAt
            BY <3>2, TimeAssumption DEF TimeAssumption, TaskSet, Times, Never
        <3> QED
            BY <2>1, <3>1, <3>2, <3>3, DueRowHolds
    <2>2. CASE t \notin Due
        <3>1. tasks'[t] = tasks[t] /\ rows'[t] = rows[t]
            BY <2>2 DEF SkipDue
        <3> QED
            BY <3>1, PlansAreIntegers, SameRowsHold DEF TypeOK
    <2> QED
        BY <2>1, <2>2
<1>2. /\ tasks' = [t \in Tasks |-> tasks'[t]]
      /\ rows' = [t \in Tasks |-> rows'[t]]
    BY DEF SkipDue
<1> QED
    BY <1>1, <1>2 DEF RowsMove

LEMMA TickMoves ==
    ASSUME TypeOK, TimerFires
    PROVE  /\ tasks' \in [Tasks -> TaskSet] /\ rows' \in [Tasks -> Seq(RowSet)]
           /\ RowsMove
<1>1. PICK failing \in SUBSET (Due \ busy) :
        /\ tasks' = [t \in Tasks |->
                       IF t \in failing
                         THEN Closed(Advanced(tasks[t]), tasks[t].rule, "scheduled")
                       ELSE IF t \in Due THEN Advanced(tasks[t])
                       ELSE tasks[t]]
        /\ rows' = [t \in Tasks |->
                      IF t \in Due \ busy
                        THEN Append(rows[t], Row(tasks[t].nextRunAt, "scheduled",
                                 IF t \in failing THEN "failed" ELSE "running"))
                        ELSE rows[t]]
    BY DEF TimerFires
<1>2. ASSUME NEW t \in Tasks
      PROVE  /\ tasks'[t] \in TaskSet /\ rows'[t] \in Seq(RowSet)
             /\ SameRows(t) \/ DueRow(t)
    <2>1. CASE t \in Due
        <3>1. /\ Advanced(tasks[t]) \in TaskSet
              /\ Advanced(tasks[t]).nextRunAt > tasks[t].nextRunAt
            BY <2>1, DueIsTyped, AdvancedIsLater
        <3>2. /\ Advanced(tasks[t]).nextRunAt \in Int
              /\ Advanced(tasks[t]).nextRunAt >= Advanced(tasks[t]).nextRunAt
            BY <3>1, TimeAssumption DEF TimeAssumption, TaskSet, Times, Never
        <3> DEFINE closed == Closed(Advanced(tasks[t]), tasks[t].rule, "scheduled")
        <3>3. closed \in TaskSet /\ closed.nextRunAt >= Advanced(tasks[t]).nextRunAt
            BY <3>1, ClosedIsNotEarlier
        <3>4. tasks'[t] \in {closed, Advanced(tasks[t])}
            BY <1>1, <2>1
        <3> HIDE DEF closed
        <3>5. /\ tasks'[t] \in TaskSet
              /\ tasks'[t].nextRunAt >= Advanced(tasks[t]).nextRunAt
            BY <3>1, <3>2, <3>3, <3>4
        <3>6. CASE t \in busy
            <4>1. rows'[t] = rows[t]
                BY <1>1, <3>6
            <4>2. tasks'[t].nextRunAt \in Int /\ tasks[t].nextRunAt \in Int
                BY <3>5, PlansAreIntegers, TimeAssumption
                   DEF TimeAssumption, TaskSet, Times, Never
            <4>3. tasks'[t].nextRunAt >= tasks[t].nextRunAt
                BY <3>1, <3>2, <3>5, <4>2
            <4> QED
                BY <3>5, <4>1, <4>3, SameRowsHold
        <3>7. CASE t \notin busy
            <4>1. \E status \in {"failed", "running"} :
                    rows'[t] = Append(rows[t], Row(tasks[t].nextRunAt, "scheduled", status))
                BY <1>1, <2>1, <3>7
            <4> QED
                BY <2>1, <3>5, <4>1, DueRowHolds
        <3> QED
            BY <3>6, <3>7
    <2>2. CASE t \notin Due
        <3>1. tasks'[t] = tasks[t] /\ rows'[t] = rows[t]
            BY <1>1, <2>2
        <3> QED
            BY <3>1, PlansAreIntegers, SameRowsHold DEF TypeOK
    <2> QED
        BY <2>1, <2>2
<1>3. tasks' = [t \in Tasks |-> tasks'[t]] /\ rows' = [t \in Tasks |-> rows'[t]]
    BY <1>1
<1> QED
    BY <1>2, <1>3 DEF RowsMove

LEMMA CrashedTickMoves ==
    ASSUME TypeOK, CrashInTick
    PROVE  /\ tasks' \in [Tasks -> TaskSet] /\ rows' \in [Tasks -> Seq(RowSet)]
           /\ RowsMove
<1>0. PICK done \in SUBSET Due, next \in Due :
        /\ tasks' = [t \in Tasks |-> IF t \in done \cup {next}
                                       THEN Advanced(tasks[t]) ELSE tasks[t]]
        /\ \E queued \in SUBSET ({next} \ busy) :
              rows' = [t \in Tasks |->
                 IF t \in queued \cup (done \ busy)
                   THEN Append(rows[t], Row(tasks[t].nextRunAt, "scheduled",
                            IF t = next THEN "queued" ELSE "running"))
                   ELSE rows[t]]
    BY DEF CrashInTick, UpTo
<1>1. PICK queued \in SUBSET ({next} \ busy) :
        /\ tasks' = [t \in Tasks |-> IF t \in done \cup {next}
                                       THEN Advanced(tasks[t]) ELSE tasks[t]]
        /\ rows' = [t \in Tasks |->
                      IF t \in queued \cup (done \ busy)
                        THEN Append(rows[t], Row(tasks[t].nextRunAt, "scheduled",
                                 IF t = next THEN "queued" ELSE "running"))
                        ELSE rows[t]]
    BY <1>0
<1>2. ASSUME NEW t \in Tasks
      PROVE  /\ tasks'[t] \in TaskSet /\ rows'[t] \in Seq(RowSet)
             /\ SameRows(t) \/ DueRow(t)
    <2>1. CASE t \in done \cup {next}
        <3>0. t \in Due
            BY <2>1
        <3>1. /\ Advanced(tasks[t]) \in TaskSet
              /\ Advanced(tasks[t]).nextRunAt > tasks[t].nextRunAt
            BY <3>0, DueIsTyped, AdvancedIsLater
        <3>2. /\ Advanced(tasks[t]).nextRunAt \in Int /\ tasks[t].nextRunAt \in Int
              /\ Advanced(tasks[t]).nextRunAt >= Advanced(tasks[t]).nextRunAt
            BY <3>1, PlansAreIntegers, TimeAssumption
               DEF TimeAssumption, TaskSet, Times, Never
        <3>3. tasks'[t] = Advanced(tasks[t])
            BY <1>1, <2>1
        <3>4. CASE rows'[t] = rows[t]
            BY <3>1, <3>2, <3>3, <3>4, SameRowsHold
        <3>5. CASE \E status \in {"queued", "running"} :
                     rows'[t] = Append(rows[t], Row(tasks[t].nextRunAt, "scheduled", status))
            BY <3>0, <3>1, <3>2, <3>3, <3>5, DueRowHolds
        <3> QED
            BY <1>1, <3>4, <3>5
    <2>2. CASE t \notin done \cup {next}
        <3>1. tasks'[t] = tasks[t] /\ rows'[t] = rows[t]
            BY <1>1, <2>2
        <3> QED
            BY <3>1, PlansAreIntegers, SameRowsHold DEF TypeOK
    <2> QED
        BY <2>1, <2>2
<1>3. tasks' = [t \in Tasks |-> tasks'[t]] /\ rows' = [t \in Tasks |-> rows'[t]]
    BY <1>1
<1> QED
    BY <1>2, <1>3 DEF RowsMove

LEMMA CrashedSkipMoves ==
    ASSUME TypeOK, CrashInSkip
    PROVE  /\ tasks' \in [Tasks -> TaskSet] /\ rows' \in [Tasks -> Seq(RowSet)]
           /\ RowsMove
<1>1. PICK done \in SUBSET Due, next \in Due :
        /\ tasks' = [t \in Tasks |-> IF t \in done \cup {next}
                                       THEN Advanced(tasks[t]) ELSE tasks[t]]
        /\ rows' = [t \in Tasks |-> IF t \in done THEN Skipped(t) ELSE rows[t]]
    BY Zenon DEF CrashInSkip, UpTo
<1>2. ASSUME NEW t \in Tasks
      PROVE  /\ tasks'[t] \in TaskSet /\ rows'[t] \in Seq(RowSet)
             /\ SameRows(t) \/ DueRow(t)
    <2>1. CASE t \in done \cup {next}
        <3>0. t \in Due
            BY <2>1
        <3>1. /\ Advanced(tasks[t]) \in TaskSet
              /\ Advanced(tasks[t]).nextRunAt > tasks[t].nextRunAt
            BY <3>0, DueIsTyped, AdvancedIsLater
        <3>2. /\ Advanced(tasks[t]).nextRunAt \in Int /\ tasks[t].nextRunAt \in Int
              /\ Advanced(tasks[t]).nextRunAt >= Advanced(tasks[t]).nextRunAt
            BY <3>1, PlansAreIntegers, TimeAssumption
               DEF TimeAssumption, TaskSet, Times, Never
        <3>3. tasks'[t] = Advanced(tasks[t])
            BY <1>1, <2>1
        <3>4. CASE rows'[t] = rows[t]
            BY <3>1, <3>2, <3>3, <3>4, SameRowsHold
        <3>5. CASE rows'[t] = Skipped(t)
            BY <3>0, <3>1, <3>2, <3>3, <3>5, DueRowHolds DEF Skipped
        <3> QED
            BY <1>1, <3>4, <3>5
    <2>2. CASE t \notin done \cup {next}
        <3>1. tasks'[t] = tasks[t] /\ rows'[t] = rows[t]
            BY <1>1, <2>2
        <3> QED
            BY <3>1, PlansAreIntegers, SameRowsHold DEF TypeOK
    <2> QED
        BY <2>1, <2>2
<1>3. tasks' = [t \in Tasks |-> tasks'[t]] /\ rows' = [t \in Tasks |-> rows'[t]]
    BY <1>1
<1> QED
    BY <1>2, <1>3 DEF RowsMove

\* One task is written, and no row.
LEMMA EditMoves ==
    ASSUME TypeOK, NEW t \in Tasks, NEW task \in TaskSet,
           task.nextRunAt >= tasks[t].nextRunAt \/ task.nextRunAt > clock,
           tasks' = [tasks EXCEPT ![t] = task], rows' = rows
    PROVE  /\ tasks' \in [Tasks -> TaskSet] /\ rows' \in [Tasks -> Seq(RowSet)]
           /\ RowsMove
<1>1. tasks' \in [Tasks -> TaskSet] /\ rows' \in [Tasks -> Seq(RowSet)]
    BY DEF TypeOK
<1>2. ASSUME NEW u \in Tasks
      PROVE  SameRows(u)
    <2>1. tasks'[u] = IF u = t THEN task ELSE tasks[u]
        BY DEF TypeOK
    <2> QED
        BY <2>1, PlansAreIntegers, SameRowsHold
<1> QED
    BY <1>1, <1>2 DEF RowsMove

ExecSet == [row : Nat, trigger : {"scheduled", "manual"}, rule : Rules]

\* What an action has to show.
LEMMA InvariantKept ==
    ASSUME SchedInv,
           tasks' \in [Tasks -> TaskSet], rows' \in [Tasks -> Seq(RowSet)], RowsMove,
           clock' \in Times, clock' >= clock, phase' \in {"down", "up", "quitting"},
           timer' \in Times \cup {Never}, TimerArmed',
           busy' \in SUBSET Tasks, exec' \in [Tasks -> SUBSET ExecSet], OneAtATime',
           edits' \in 0 .. MaxEdits, crashes' \in 0 .. MaxCrashes
    PROVE  SchedInv'
<1>1. PlanIsPast' /\ AccountedOnce'
    BY RowsStayAccounted DEF RowsMove, SchedInv
<1> QED
    BY <1>1 DEF SchedInv, TypeOK, ExecSet

LEMMA ExecutionIsTyped ==
    ASSUME TypeOK, NEW t \in Tasks, NEW trigger \in {"scheduled", "manual"}
    PROVE  Execution(t, trigger) \in ExecSet
BY DEF TypeOK, Execution, ExecSet, TaskSet

LEMMA InitHolds == Init => SchedInv
<1> SUFFICES ASSUME Init
             PROVE  SchedInv
    OBVIOUS
<1>1. 0 \in Times /\ Never \in Times \cup {Never} /\ clock \in Times
    BY TimeAssumption DEF Init, TimeAssumption, Times
<1>2. 0 \in 0 .. MaxChainDepth /\ 0 \in 0 .. MaxEdits /\ 0 \in 0 .. MaxCrashes
    BY SchedulerAssumption DEF SchedulerAssumption
<1>3. tasks \in [Tasks -> TaskSet]
    <2>1. Unborn \in TaskSet
        BY UnbornIsTyped
    <2>2. \A rule \in Rules : NewTask(rule, TRUE, 0, Nobody) \in TaskSet
        BY <1>1, <1>2, NewTaskIsTyped
    <2>3. tasks \in [Tasks -> {Unborn} \cup
                             {NewTask(rule, TRUE, 0, Nobody) : rule \in Rules}]
        BY DEF Init
    <2> QED
        BY <2>1, <2>2, <2>3
<1>4. rows \in [Tasks -> Seq(RowSet)] /\ \A t \in Tasks : DOMAIN rows[t] = {}
    BY DEF Init
<1>5. TypeOK
    BY <1>1, <1>2, <1>3, <1>4 DEF TypeOK, Init
<1>6. OneAtATime /\ PlanIsPast /\ AccountedOnce /\ TimerArmed
    BY <1>4 DEF OneAtATime, PlanIsPast, AccountedOnce, TimerArmed, Init
<1> QED
    BY <1>5, <1>6 DEF SchedInv

LEMMA StepHolds == SchedInv /\ [Next]_vars => SchedInv'
<1> SUFFICES ASSUME SchedInv, [Next]_vars
             PROVE  SchedInv'
    OBVIOUS
<1> USE DEF ExecSet
<1>0. /\ TypeOK /\ OneAtATime /\ TimerArmed
      /\ tasks \in [Tasks -> TaskSet] /\ rows \in [Tasks -> Seq(RowSet)]
      /\ clock \in Times /\ clock \in Int /\ clock >= clock
      /\ phase \in {"down", "up", "quitting"} /\ timer \in Times \cup {Never}
      /\ Never \in Times \cup {Never}
      /\ busy \in SUBSET Tasks /\ exec \in [Tasks -> SUBSET ExecSet]
      /\ edits \in 0 .. MaxEdits /\ crashes \in 0 .. MaxCrashes
    BY DEF SchedInv, TypeOK, Times
<1>n. MaxEdits \in Nat /\ MaxCrashes \in Nat
    BY SchedulerAssumption DEF SchedulerAssumption
\* Nothing happens to tasks and rows.
<1>s. ASSUME tasks' = tasks, rows' = rows
      PROVE  /\ tasks' \in [Tasks -> TaskSet] /\ rows' \in [Tasks -> Seq(RowSet)]
             /\ RowsMove
    <2>1. \A t \in Tasks : SameRows(t)
        BY <1>0, <1>s, PlansAreIntegers, SameRowsHold
    <2> QED
        BY <1>0, <1>s, <2>1 DEF RowsMove
\* The process is gone.
<1>g. ASSUME Gone, tasks' \in [Tasks -> TaskSet], rows' \in [Tasks -> Seq(RowSet)],
             RowsMove
      PROVE  SchedInv'
    <2>1. /\ clock' = clock /\ phase' = "down" /\ timer' = Never /\ busy' = {}
          /\ exec' = [t \in Tasks |-> {}] /\ edits' = edits
          /\ crashes' \in 0 .. MaxCrashes
        BY <1>0, <1>n, <1>g DEF Gone
    <2>2. TimerArmed' /\ OneAtATime'
        BY <2>1 DEF TimerArmed, OneAtATime
    <2>3. exec' \in [Tasks -> SUBSET ExecSet]
        BY <2>1
    <2> QED
        BY <1>0, <1>g, <2>1, <2>2, <2>3, InvariantKept
\* An edit of tasks or rows.
<1>e. ASSUME CanEdit, Elsewhere, tasks' \in [Tasks -> TaskSet],
             rows' \in [Tasks -> Seq(RowSet)], RowsMove,
             Rescheduled \/ (timer' = timer /\ tasks' = tasks)
      PROVE  SchedInv'
    <2>1. /\ clock' = clock /\ phase' = phase /\ busy' = busy /\ exec' = exec
          /\ crashes' = crashes /\ edits' \in 0 .. MaxEdits
        BY <1>0, <1>n, <1>e DEF CanEdit, Elsewhere
    <2>2. timer' \in Times \cup {Never} /\ TimerArmed'
        <3>1. CASE Rescheduled
            BY <1>e, <3>1, TimerFollows
        <3>2. CASE timer' = timer /\ tasks' = tasks
            BY <1>0, <2>1, <3>2 DEF TimerArmed, Live
        <3> QED
            BY <1>e, <3>1, <3>2
    <2>3. OneAtATime'
        BY <1>0, <2>1 DEF OneAtATime
    <2> QED
        BY <1>0, <1>e, <2>1, <2>2, <2>3, InvariantKept
<1>1. CASE Advance
    <2>1. /\ clock' \in Times /\ clock' >= clock /\ phase' = phase /\ tasks' = tasks
          /\ rows' = rows /\ timer' = timer /\ busy' = busy /\ exec' = exec
          /\ edits' = edits /\ crashes' = crashes
        BY <1>0, <1>1, TimeAssumption DEF Advance, TimeAssumption, Times
    <2>2. TimerArmed' /\ OneAtATime'
        BY <1>0, <2>1 DEF TimerArmed, OneAtATime, Live
    <2> QED
        BY <1>0, <1>s, <2>1, <2>2, InvariantKept
<1>2. CASE Start \/ Resume
    <2>1. /\ SkipDue /\ Rescheduled /\ clock' = clock /\ phase' = "up"
          /\ busy' = busy /\ exec' = exec /\ edits' = edits /\ crashes' = crashes
        BY <1>2 DEF Start, Resume
    <2>2. /\ tasks' \in [Tasks -> TaskSet] /\ rows' \in [Tasks -> Seq(RowSet)]
          /\ RowsMove
        BY <1>0, <2>1, SkipDueMoves
    <2>3. timer' \in Times \cup {Never} /\ TimerArmed'
        BY <2>1, <2>2, TimerFollows
    <2>4. OneAtATime'
        BY <1>0, <2>1 DEF OneAtATime
    <2> QED
        BY <1>0, <2>1, <2>2, <2>3, <2>4, InvariantKept
<1>3. CASE TimerFires
    <2>1. /\ tasks' \in [Tasks -> TaskSet] /\ rows' \in [Tasks -> Seq(RowSet)]
          /\ RowsMove
        BY <1>0, <1>3, TickMoves
    <2>2. /\ Rescheduled /\ clock' = clock /\ phase' = phase
          /\ edits' = edits /\ crashes' = crashes
        BY <1>3 DEF TimerFires
    <2>3. PICK started \in SUBSET (Due \ busy) :
            /\ exec' = [t \in Tasks |-> IF t \in started
                          THEN exec[t] \cup {Execution(t, "scheduled")} ELSE exec[t]]
            /\ busy' = busy \cup started
        <3>1. PICK failing \in SUBSET (Due \ busy) :
                LET started == (Due \ busy) \ failing
                IN /\ exec' = [t \in Tasks |-> IF t \in started
                          THEN exec[t] \cup {Execution(t, "scheduled")} ELSE exec[t]]
                   /\ busy' = busy \cup started
            BY <1>3 DEF TimerFires
        <3>2. (Due \ busy) \ failing \in SUBSET (Due \ busy)
            OBVIOUS
        <3> QED
            BY <3>1, <3>2
    <2>4. Due \subseteq Tasks
        BY DEF Due, Live
    <2>5. busy' \in SUBSET Tasks /\ exec' \in [Tasks -> SUBSET ExecSet]
        <3>1. \A t \in Tasks : Execution(t, "scheduled") \in ExecSet
            BY <1>0, ExecutionIsTyped
        <3> HIDE DEF ExecSet
        <3> QED
            BY <1>0, <2>3, <2>4, <3>1
    <2>6. OneAtATime'
        <3> SUFFICES ASSUME NEW t \in Tasks, NEW e \in exec'[t]
                     PROVE  exec'[t] = {e} /\ t \in busy'
            BY DEF OneAtATime
        <3>1. CASE t \in started
            <4>1. exec[t] = {}
                BY <1>0, <2>3, <3>1 DEF OneAtATime
            <4> QED
                BY <2>3, <3>1, <4>1
        <3>2. CASE t \notin started
            BY <1>0, <2>3, <3>2 DEF OneAtATime
        <3> QED
            BY <3>1, <3>2
    <2>7. timer' \in Times \cup {Never} /\ TimerArmed'
        BY <2>1, <2>2, TimerFollows
    <2> QED
        BY <1>0, <2>1, <2>2, <2>5, <2>6, <2>7, InvariantKept
<1>4. ASSUME NEW t \in Tasks, RunNow(t)
      PROVE  SchedInv'
    <2>1. /\ t \notin busy /\ tasks' = tasks /\ Rescheduled /\ clock' = clock
          /\ phase' = phase /\ edits' = edits /\ crashes' = crashes
        BY <1>4 DEF RunNow, MayRunNow
    <2>2. /\ \E status \in {"running", "failed"} :
               rows' = [rows EXCEPT ![t] = Append(@, Row(clock, "manual", status))]
          /\ \/ /\ exec' = [exec EXCEPT ![t] = @ \cup {Execution(t, "manual")}]
                /\ busy' = busy \cup {t}
             \/ exec' = exec /\ busy' = busy
        BY <1>4 DEF RunNow
    <2>3. PICK row \in RowSet : /\ row.trigger = "manual"
                               /\ rows' = [rows EXCEPT ![t] = Append(@, row)]
        <3>1. PICK status \in {"running", "failed"} :
                 rows' = [rows EXCEPT ![t] = Append(@, Row(clock, "manual", status))]
            BY <2>2
        <3>2. /\ Row(clock, "manual", status) \in RowSet
              /\ Row(clock, "manual", status).trigger = "manual"
            BY <1>0, RowIsTyped
        <3> QED
            BY <3>1, <3>2
    <2>4. rows' \in [Tasks -> Seq(RowSet)] /\ RowsMove
        <3>1. rows[t] \in Seq(RowSet) /\ rows'[t] = Append(rows[t], row)
            BY <1>0, <2>3
        <3>2. rows' \in [Tasks -> Seq(RowSet)] /\ ManualRow(t)
            BY <1>0, <2>1, <2>3, <3>1 DEF ManualRow
        <3>3. \A u \in Tasks \ {t} : SameRows(u)
            BY <1>0, <2>1, <2>3, PlansAreIntegers, SameRowsHold
        <3> QED
            BY <3>2, <3>3 DEF RowsMove
    <2>5. busy' \in SUBSET Tasks /\ exec' \in [Tasks -> SUBSET ExecSet]
        <3>1. Execution(t, "manual") \in ExecSet
            BY <1>0, ExecutionIsTyped
        <3> HIDE DEF ExecSet
        <3> QED
            BY <1>0, <2>2, <3>1
    <2>6. OneAtATime'
        <3>1. exec[t] = {}
            BY <1>0, <2>1 DEF OneAtATime
        <3> QED
            BY <1>0, <2>2, <3>1 DEF OneAtATime
    <2>7. timer' \in Times \cup {Never} /\ TimerArmed'
        BY <1>0, <2>1, TimerFollows
    <2> QED
        BY <1>0, <2>1, <2>4, <2>5, <2>6, <2>7, InvariantKept
<1>5. ASSUME NEW t \in Tasks, Ends(t)
      PROVE  SchedInv'
    <2>1. PICK e \in exec[t] :
             /\ rows' = [rows EXCEPT ![t][e.row].status = "ended"]
             /\ tasks' = [tasks EXCEPT ![t] = Closed(@, e.rule, e.trigger)]
             /\ exec' = [exec EXCEPT ![t] = @ \ {e}]
        BY <1>5 DEF Ends
    <2>2. /\ busy' = busy \ {t} /\ Rescheduled /\ clock' = clock
          /\ phase' = phase /\ edits' = edits /\ crashes' = crashes
        BY <1>5 DEF Ends
    <2>3. e.row \in Nat /\ exec[t] = {e}
        BY <1>0 DEF OneAtATime
    <2>4. /\ tasks'[t] \in TaskSet /\ tasks'[t].nextRunAt >= tasks[t].nextRunAt
          /\ tasks' \in [Tasks -> TaskSet]
          /\ \A u \in Tasks \ {t} : tasks'[u] = tasks[u]
        BY <1>0, <2>1, ClosedIsNotEarlier
    <2>5. /\ rows' \in [Tasks -> Seq(RowSet)]
          /\ \A u \in Tasks \ {t} : rows'[u] = rows[u]
          /\ DOMAIN rows'[t] = DOMAIN rows[t]
          /\ \A i \in DOMAIN rows[t] : /\ rows'[t][i].at = rows[t][i].at
                                       /\ rows'[t][i].trigger = rows[t][i].trigger
        <3> DEFINE new == Restated(rows[t], e.row, "ended")
        <3>1. /\ new \in Seq(RowSet) /\ DOMAIN new = DOMAIN rows[t]
              /\ \A i \in DOMAIN rows[t] : /\ new[i].at = rows[t][i].at
                                           /\ new[i].trigger = rows[t][i].trigger
            <4>1. rows[t] \in Seq(RowSet)
                BY <1>0
            <4> QED
                BY <2>3, <4>1, StatusChanges
        <3>2. rows' = [rows EXCEPT ![t] = new]
            BY <2>1 DEF Restated
        <3> HIDE DEF new
        <3> QED
            BY <1>0, <3>1, <3>2
    <2>6. RowsMove
        <3>1. SameRows(t)
            BY <2>4, <2>5 DEF SameRows
        <3>2. \A u \in Tasks \ {t} : SameRows(u)
            BY <1>0, <2>4, <2>5, PlansAreIntegers, SameRowsHold
        <3> QED
            BY <3>1, <3>2 DEF RowsMove
    <2>7. OneAtATime'
        BY <1>0, <2>1, <2>2, <2>3 DEF OneAtATime
    <2>8. busy' \in SUBSET Tasks /\ exec' \in [Tasks -> SUBSET ExecSet]
        <3> HIDE DEF ExecSet
        <3> QED
            BY <1>0, <2>1, <2>2
    <2>9. timer' \in Times \cup {Never} /\ TimerArmed'
        BY <2>2, <2>4, TimerFollows
    <2> QED
        BY <1>0, <2>2, <2>4, <2>5, <2>6, <2>7, <2>8, <2>9, InvariantKept
<1>6. ASSUME NEW t \in Tasks, NEW rule \in Rules, Create(t, rule)
      PROVE  SchedInv'
    <2>1. 0 \in 0 .. MaxChainDepth
        BY SchedulerAssumption DEF SchedulerAssumption
    <2>2. /\ NewTask(rule, TRUE, 0, Nobody) \in TaskSet
          /\ NewTask(rule, TRUE, 0, Nobody).nextRunAt > clock
        BY <1>0, <2>1, NewTaskIsTyped
    <2> QED
        BY <1>0, <1>6, <1>e, <2>2, EditMoves DEF Create
<1>7. ASSUME NEW t \in Tasks, NEW rule \in Rules, AgentCreates(t, rule)
      PROVE  SchedInv'
    <2>1. PICK depth \in 0 .. MaxChainDepth, by \in Tasks \cup {Nobody} :
             tasks' = [tasks EXCEPT ![t] = NewTask(rule, TRUE, depth, by)]
        <3>1. CASE /\ 1 <= MaxChainDepth
                   /\ tasks' = [tasks EXCEPT ![t] = NewTask(rule, TRUE, 1, Nobody)]
            <4>1. 1 \in 0 .. MaxChainDepth /\ Nobody \in Tasks \cup {Nobody}
                BY <3>1, SchedulerAssumption DEF SchedulerAssumption
            <4> QED
                BY <3>1, <4>1
        <3>2. CASE \E p \in Tasks : \E i \in DOMAIN rows[p] :
                     /\ HasSession(rows[p][i])
                     /\ ChainDepthOf(p, i) + 1 <= MaxChainDepth
                     /\ tasks' = [tasks EXCEPT ![t] =
                                     NewTask(rule, TRUE, ChainDepthOf(p, i) + 1, p)]
            <4>1. PICK p \in Tasks : \E i \in DOMAIN rows[p] :
                     /\ ChainDepthOf(p, i) + 1 <= MaxChainDepth
                     /\ tasks' = [tasks EXCEPT ![t] =
                                     NewTask(rule, TRUE, ChainDepthOf(p, i) + 1, p)]
                BY <3>2
            <4>2. PICK i \in DOMAIN rows[p] :
                     /\ ChainDepthOf(p, i) + 1 <= MaxChainDepth
                     /\ tasks' = [tasks EXCEPT ![t] =
                                     NewTask(rule, TRUE, ChainDepthOf(p, i) + 1, p)]
                BY <4>1
            <4>3. ChainDepthOf(p, i) \in Nat
                BY <1>0 DEF ChainDepthOf, TaskSet
            <4>4. ChainDepthOf(p, i) + 1 \in 0 .. MaxChainDepth
                BY <4>2, <4>3, SchedulerAssumption DEF SchedulerAssumption
            <4> QED
                BY <4>2, <4>4
        <3> QED
            BY <1>7, <3>1, <3>2 DEF AgentCreates
    <2>2. /\ NewTask(rule, TRUE, depth, by) \in TaskSet
          /\ NewTask(rule, TRUE, depth, by).nextRunAt > clock
        BY <1>0, NewTaskIsTyped
    <2> QED
        BY <1>0, <1>7, <1>e, <2>1, <2>2, EditMoves DEF AgentCreates
<1>8. ASSUME NEW t \in Tasks, NEW rule \in Rules, NEW enabled \in BOOLEAN,
             Update(t, rule, enabled)
      PROVE  SchedInv'
    <2> DEFINE task == [tasks[t] EXCEPT !.rule = rule, !.enabled = enabled,
                                        !.nextRunAt = Planned(rule, enabled)]
    <2>1. Planned(rule, enabled) \in Times \cup {Never} /\ Planned(rule, enabled) > clock
        BY <1>0, PlannedIsLater
    <2>2. tasks[t] \in TaskSet
        BY <1>0
    <2>3. DOMAIN tasks[t] = {"is", "rule", "enabled", "nextRunAt", "depth", "by"}
        BY <2>2 DEF TaskSet
    <2>4. task \in TaskSet /\ task.nextRunAt > clock
        BY <2>1, <2>2, <2>3 DEF TaskSet
    <2>5. tasks' = [tasks EXCEPT ![t] = task]
        BY <1>0, <1>8 DEF Update
    <2> HIDE DEF task
    <2> QED
        BY <1>0, <1>8, <1>e, <2>4, <2>5, EditMoves DEF Update
<1>9. ASSUME NEW t \in Tasks, Remove(t)
      PROVE  SchedInv'
    <2>1. Deleted(tasks[t]) \in TaskSet /\ Deleted(tasks[t]).nextRunAt = Never
        BY <1>0, DeletedIsTyped
    <2>2. Never > clock
        BY <1>0, TimeAssumption DEF TimeAssumption, Times, Never
    <2>3. tasks' = [tasks EXCEPT ![t] = Deleted(tasks[t])]
        BY <1>9 DEF Remove
    <2> QED
        BY <1>0, <1>9, <1>e, <2>1, <2>2, <2>3, EditMoves DEF Remove
<1>10. ASSUME NEW t \in Tasks, NEW i \in DOMAIN rows[t], DeleteRow(t, i)
       PROVE  SchedInv'
    <2>1. rows[t] \in Seq(RowSet) /\ i \in Nat
        BY <1>0
    <2> DEFINE new == Restated(rows[t], i, "deleted")
    <2>2. /\ new \in Seq(RowSet) /\ DOMAIN new = DOMAIN rows[t]
          /\ \A j \in DOMAIN rows[t] : /\ new[j].at = rows[t][j].at
                                       /\ new[j].trigger = rows[t][j].trigger
        BY Zenon, <2>1, StatusChanges
    <2>3. rows' = [rows EXCEPT ![t] = new] /\ tasks' = tasks /\ timer' = timer
        BY <1>10 DEF DeleteRow, Restated
    <2> HIDE DEF new
    <2>4. rows' \in [Tasks -> Seq(RowSet)]
        BY <1>0, <2>2, <2>3
    <2>5. RowsMove
        <3>1. SameRows(t)
            BY <1>0, <2>2, <2>3, PlansAreIntegers DEF SameRows
        <3>2. \A u \in Tasks \ {t} : SameRows(u)
            BY <1>0, <2>3, PlansAreIntegers, SameRowsHold
        <3> QED
            BY <3>1, <3>2 DEF RowsMove
    <2> QED
        BY <1>0, <1>10, <1>e, <2>3, <2>4, <2>5 DEF DeleteRow
<1>11. CASE Quit
    <2>1. /\ clock' = clock /\ phase' = "quitting" /\ tasks' = tasks /\ rows' = rows
          /\ timer' = Never /\ busy' = busy /\ exec' = exec
          /\ edits' = edits /\ crashes' = crashes
        BY <1>11 DEF Quit
    <2>2. TimerArmed' /\ OneAtATime'
        BY <1>0, <2>1 DEF TimerArmed, OneAtATime
    <2> QED
        BY <1>0, <1>s, <2>1, <2>2, InvariantKept
<1>12. CASE Crash
    BY <1>12, <1>s, <1>g DEF Crash
<1>13. CASE CrashInTick \/ CrashInSkip
    <2>1. Gone
        BY <1>13 DEF CrashInTick, CrashInSkip
    <2> QED
        BY <1>0, <1>13, <1>g, <2>1, CrashedTickMoves, CrashedSkipMoves
<1>14. ASSUME NEW t \in Tasks, CrashAtEnd(t)
       PROVE  SchedInv'
    <2>1. PICK e \in exec[t] : rows' = [rows EXCEPT ![t][e.row].status = "ended"]
        BY <1>14 DEF CrashAtEnd
    <2>2. tasks' = tasks /\ Gone /\ e.row \in Nat /\ rows[t] \in Seq(RowSet)
        BY <1>0, <1>14 DEF CrashAtEnd
    <2> DEFINE new == Restated(rows[t], e.row, "ended")
    <2>3. /\ new \in Seq(RowSet) /\ DOMAIN new = DOMAIN rows[t]
          /\ \A j \in DOMAIN rows[t] : /\ new[j].at = rows[t][j].at
                                       /\ new[j].trigger = rows[t][j].trigger
        BY Zenon, <2>2, StatusChanges
    <2>4. rows' = [rows EXCEPT ![t] = new]
        BY <2>1 DEF Restated
    <2> HIDE DEF new
    <2>5. rows' \in [Tasks -> Seq(RowSet)]
        BY <1>0, <2>3, <2>4
    <2>6. RowsMove
        <3>1. SameRows(t)
            BY <1>0, <2>2, <2>3, <2>4, PlansAreIntegers DEF SameRows
        <3>2. \A u \in Tasks \ {t} : SameRows(u)
            BY <1>0, <2>2, <2>4, PlansAreIntegers, SameRowsHold
        <3> QED
            BY <3>1, <3>2 DEF RowsMove
    <2> QED
        BY <1>0, <1>g, <2>2, <2>5, <2>6
<1>15. CASE UNCHANGED vars
    <2>1. /\ clock' = clock /\ phase' = phase /\ tasks' = tasks /\ rows' = rows
          /\ timer' = timer /\ busy' = busy /\ exec' = exec
          /\ edits' = edits /\ crashes' = crashes
        BY <1>15 DEF vars
    <2>2. TimerArmed' /\ OneAtATime'
        BY <1>0, <2>1 DEF TimerArmed, OneAtATime, Live
    <2> QED
        BY <1>0, <1>s, <2>1, <2>2, InvariantKept
<1> QED
    BY <1>1, <1>2, <1>3, <1>4, <1>5, <1>6, <1>7, <1>8, <1>9, <1>10, <1>11, <1>12,
       <1>13, <1>14, <1>15 DEF Next

-----------------------------------------------------------------------------
\* The invariant of the scheduler, with the timer: while it is up, the timer
\* wakes every enabled task in time.
THEOREM SchedulerInvariant == Spec => []SchedInv
<1>1. Init => SchedInv
    BY InitHolds
<1>2. SchedInv /\ [Next]_vars => SchedInv'
    BY StepHolds
<1> QED
    BY <1>1, <1>2, PTL DEF Spec

\* scheduler.ts: a task is executed by one run at a time.
THEOREM TasksRunOneAtATime == Spec => []OneAtATime
<1>1. SchedInv => OneAtATime
    BY DEF SchedInv
<1> QED
    BY <1>1, SchedulerInvariant, PTL

\* scheduler.ts tick: no due time of a task is recorded or started twice.
THEOREM DueTimesAccountedOnce == Spec => []AccountedOnce
<1>1. SchedInv => AccountedOnce
    BY DEF SchedInv
<1> QED
    BY <1>1, SchedulerInvariant, PTL

\* scheduler.ts reschedule: every write leaves the timer armed for the
\* earliest task.
THEOREM TimerIsArmed == Spec => []TimerArmed
<1>1. SchedInv => TimerArmed
    BY DEF SchedInv
<1> QED
    BY <1>1, SchedulerInvariant, PTL
-----------------------------------------------------------------------------
(* The search finds what lies ahead. *)

\* Rules whose instants the search reaches: one-off rules without repeats; and
\* daily and weekly rules with times of day, in a zone that keeps its offset,
\* when at least a week is searched (scheduled.ts: 370 or 14 days).
Reached(rule) ==
    \/ rule.kind = "once" /\ ~rule.window
    \/ /\ rule.kind \in {"daily", "weekly"}
       /\ rule.time \in 0 .. Day - 1 /\ rule.until \in 0 .. Day - 1
       /\ rule.zone.before = rule.zone.after
       /\ Week <= DaysAhead

LEMMA Division ==
    ASSUME NEW x \in Int, NEW d \in Nat \ {0}
    PROVE  /\ x \div d \in Int
           /\ (x \div d) * d <= x /\ x < (x \div d) * d + d
OBVIOUS

LEMMA Remainder ==
    ASSUME NEW d \in Nat \ {0}, NEW k \in Int, NEW r \in 0 .. d - 1, NEW x, x = k * d + r
    PROVE  x % d = r
<1>1. k * d \in Int
    OBVIOUS
<1> QED
    BY <1>1

LEMMA Scaled ==
    ASSUME NEW a \in Int, NEW b \in Int, NEW d \in Nat, a < b
    PROVE  a * d \in Int /\ b * d \in Int /\ a * d + d <= b * d
<1>1. PICK c \in Nat : b = a + 1 + c
    <2>1. b - a - 1 \in Nat /\ b = a + 1 + (b - a - 1)
        OBVIOUS
    <2> QED
        BY <2>1
<1>2. b * d = a * d + d + c * d /\ c * d \in Nat /\ a * d \in Int
    BY <1>1
<1> QED
    BY <1>2

\* Of any d days in a row one has the weekday of a later day.
LEMMA CommonRemainder ==
    ASSUME NEW a \in Int, NEW b \in Int, NEW d \in Nat \ {0}, a < b
    PROVE  \E c \in a + 1 .. a + d : c % d = b % d
<1> DEFINE k == (b - a - 1) \div d
           q == b \div d
           s == b - q * d
           c == b - k * d
<1>1. k \in Int /\ q \in Int /\ k * d \in Int /\ q * d \in Int
    BY Division
<1>2. k * d <= b - a - 1 /\ b - a - 1 < k * d + d
    BY Division
<1>3. q * d <= b /\ b < q * d + d
    BY Division
<1> HIDE DEF k, q
<1>4. c \in a + 1 .. a + d
    <2> DEFINE kd == k * d
    <2>1. kd \in Int /\ kd <= b - a - 1 /\ b - a - 1 < kd + d
        BY <1>1, <1>2
    <2> HIDE DEF kd
    <2>2. b - kd \in a + 1 .. a + d
        BY <2>1
    <2> QED
        BY <2>2 DEF kd
<1>5. s \in 0 .. d - 1
    <2> DEFINE qd == q * d
    <2>1. qd \in Int /\ qd <= b /\ b < qd + d
        BY <1>1, <1>3
    <2> HIDE DEF qd
    <2>2. b - qd \in 0 .. d - 1
        BY <2>1
    <2> QED
        BY <2>2 DEF qd
<1>6. b = q * d + s
    BY <1>1
<1> DEFINE g == q - k
<1>7. g \in Int /\ c = g * d + s
    <2>1. (q - k) * d = q * d - k * d
        BY <1>1
    <2> QED
        BY <1>1, <2>1
<1> HIDE DEF c, s, g
<1>8. b % d = s
    BY <1>1, <1>5, <1>6, Remainder
<1>9. c % d = s
    BY <1>5, <1>7, Remainder
<1>10. c \in a + 1 .. a + d /\ c % d = b % d
    BY <1>4, <1>8, <1>9
<1> QED
    BY Zenon, <1>10

LEMMA SameOffset ==
    ASSUME NEW zone \in ZoneSet, zone.before = zone.after,
           NEW day \in Int, NEW time \in Int
    PROVE  LocalToUtc(zone, day, time) = day * Day + time - zone.after
BY TimeAssumption DEF TimeAssumption, LocalToUtc, ZoneOffset, ZoneSet

\* The instants of a daily or weekly rule lie on the day they are computed for.
LEMMA InstantsOfDay ==
    ASSUME NEW rule \in RuleSet, NEW day \in Int, Reached(rule),
           rule.kind # "once"
    PROVE  /\ LocalToUtc(rule.zone, day, rule.time) \in InstantsOn(rule, day)
           /\ \A t \in InstantsOn(rule, day) :
                 /\ t \in Int
                 /\ day * Day <= t + rule.zone.after
                 /\ t + rule.zone.after < day * Day + Day
<1> DEFINE start == LocalToUtc(rule.zone, day, rule.time)
           last == IF rule.window THEN LocalToUtc(rule.zone, day, rule.until) ELSE start
           n == (last - start) \div rule.every
           base == day * Day - rule.zone.after
<1>1. /\ Day \in Nat \ {0} /\ rule.zone.after \in Int /\ rule.zone.before = rule.zone.after
      /\ rule.time \in 0 .. Day - 1 /\ rule.until \in 0 .. Day - 1
      /\ rule.every \in Nat \ {0} /\ rule.zone \in ZoneSet
    BY TimeAssumption DEF TimeAssumption, Reached, RuleSet, ZoneSet
<1>2. day * Day \in Int /\ base \in Int
    BY <1>1
<1>3. \A time \in Int : LocalToUtc(rule.zone, day, time) = base + time
    <2> SUFFICES ASSUME NEW time \in Int
                 PROVE  LocalToUtc(rule.zone, day, time) = base + time
        OBVIOUS
    <2>1. LocalToUtc(rule.zone, day, time) = day * Day + time - rule.zone.after
        BY <1>1, SameOffset
    <2> DEFINE d == day * Day
    <2>2. d \in Int
        BY <1>2
    <2> HIDE DEF d
    <2>3. d + time - rule.zone.after = d - rule.zone.after + time
        BY <1>1, <2>2
    <2> QED
        BY <2>1, <2>3 DEF d
<1>4. start = base + rule.time /\ start \in Int
    BY <1>1, <1>2, <1>3
<1>5. last \in Int /\ last < base + Day
    BY <1>1, <1>2, <1>3, <1>4
<1>6. InstantsOn(rule, day) = {start} \cup {start + k * rule.every : k \in 0 .. n}
    BY DEF InstantsOn
<1> HIDE DEF start, last, base
<1>7. n \in Int /\ n * rule.every <= last - start
    <2> DEFINE span == last - start
    <2>1. span \in Int
        BY <1>4, <1>5
    <2> HIDE DEF span
    <2>2. span \div rule.every \in Int /\ (span \div rule.every) * rule.every <= span
        BY <1>1, <2>1, Division
    <2> QED
        BY <2>2 DEF span
<1> HIDE DEF n
<1>8. ASSUME NEW k \in 0 .. n
      PROVE  k * rule.every \in Nat /\ k * rule.every <= last - start
    <2> DEFINE e == rule.every
    <2>1. e \in Nat /\ k \in Nat /\ k * e \in Nat
        BY <1>1
    <2>2. CASE k = n
        BY <1>7, <2>1, <2>2
    <2>3. CASE k < n
        <3>1. k * e \in Int /\ n * e \in Int /\ k * e + e <= n * e
            BY <1>7, <2>1, <2>3, Scaled
        <3> DEFINE ke == k * e
                   ne == n * e
        <3>2. /\ ke \in Int /\ ne \in Int /\ ke + e <= ne /\ ne <= last - start
              /\ last - start \in Int
            BY <1>4, <1>5, <1>7, <3>1
        <3> HIDE DEF ke, ne, e
        <3>3. ke <= last - start
            BY <2>1, <3>2
        <3> QED
            BY <2>1, <3>3 DEF ke, e
    <2> QED
        BY <1>7, <2>2, <2>3
<1>9. \A t \in InstantsOn(rule, day) : t \in Int /\ base <= t /\ t < base + Day
    <2>1. start \in Int /\ base <= start /\ start < base + Day
        BY <1>1, <1>2, <1>4
    <2>2. ASSUME NEW k \in 0 .. n
          PROVE  /\ start + k * rule.every \in Int
                 /\ base <= start + k * rule.every
                 /\ start + k * rule.every < base + Day
        <3> DEFINE ke == k * rule.every
        <3>1. ke \in Nat /\ ke <= last - start
            BY <1>8
        <3> HIDE DEF ke
        <3>2. start + ke \in Int /\ base <= start + ke /\ start + ke < base + Day
            BY <1>1, <1>2, <1>5, <2>1, <3>1
        <3> QED
            BY <3>2 DEF ke
    <2> QED
        BY <1>6, <2>1, <2>2
<1>10. ASSUME NEW t \in Int, base <= t, t < base + Day
       PROVE  day * Day <= t + rule.zone.after /\ t + rule.zone.after < day * Day + Day
    <2> DEFINE d == day * Day
    <2>1. d \in Int /\ base = d - rule.zone.after
        BY <1>2 DEF base
    <2> HIDE DEF d
    <2>2. d <= t + rule.zone.after /\ t + rule.zone.after < d + Day
        BY <1>1, <1>10, <2>1
    <2> QED
        BY <2>2 DEF d
<1> QED
    BY <1>6, <1>9, <1>10 DEF start

\* The days of a schedule, for an instant that lies ahead: its day is not over,
\* and one of the days tried, not later than its own, has an instant ahead.
LEMMA SomeDayIsTried ==
    ASSUME NEW rule \in RuleSet, Reached(rule), rule.kind # "once",
           NEW after \in Times, NEW day \in Int, RunsOn(rule, day),
           NEW o \in InstantsOn(rule, day), o > after
    PROVE  \E d \in DaysTried(rule, after) :
              /\ d \in Int /\ d <= day
              /\ \E t \in InstantsOn(rule, d) : t > after
<1> DEFINE today == LocalDay(rule.zone, after)
           local == after + rule.zone.after
<1>1. /\ Day \in Nat \ {0} /\ Week \in Nat \ {0} /\ rule.zone.after \in Int
      /\ rule.zone.before = rule.zone.after /\ Week <= DaysAhead /\ DaysAhead \in Nat
      /\ after \in Int /\ local \in Int
      /\ rule.kind \in {"daily", "weekly"}
    BY TimeAssumption DEF TimeAssumption, Reached, Times, RuleSet, ZoneSet
<1>2. today = local \div Day
    BY <1>1 DEF LocalDay, ZoneOffset
<1>3. today \in Int /\ today * Day <= local /\ local < today * Day + Day
    BY <1>1, <1>2, Division
<1>4. DaysTried(rule, after) = {d \in today .. today + DaysAhead : RunsOn(rule, d)}
    BY <1>1 DEF DaysTried
<1> HIDE DEF today
<1>5. today <= day
    <2> SUFFICES ASSUME day < today
                 PROVE  FALSE
        BY <1>3
    <2>1. /\ o \in Int /\ o + rule.zone.after < day * Day + Day
        BY InstantsOfDay
    <2>2. day * Day \in Int /\ today * Day \in Int /\ day * Day + Day <= today * Day
        BY <1>1, <1>3, Scaled
    <2> DEFINE a == day * Day
               b == today * Day
    <2>3. /\ a \in Int /\ b \in Int /\ a + Day <= b /\ o + rule.zone.after < a + Day
          /\ b <= after + rule.zone.after
        BY <1>3, <2>1, <2>2
    <2> HIDE DEF a, b
    <2> QED
        BY <1>1, <2>1, <2>3
<1>6. CASE day <= today + DaysAhead
    <2>1. day \in DaysTried(rule, after)
        BY <1>1, <1>3, <1>4, <1>5, <1>6
    <2> QED
        BY <2>1
<1>7. CASE day > today + DaysAhead
    <2>1. PICK d \in today + 1 .. today + Week : d % Week = day % Week
        <3>1. today < day
            BY <1>1, <1>3, <1>7
        <3>2. today \in Int /\ day \in Int /\ Week \in Nat \ {0}
            BY <1>1, <1>3
        <3> QED
            BY Zenon, <3>1, <3>2, CommonRemainder
    <2>2. d \in Int /\ today < d /\ d <= day /\ d \in today .. today + DaysAhead
        BY <1>1, <1>3, <1>7
    <2>3. RunsOn(rule, d)
        BY <1>1, <2>1 DEF RunsOn
    <2>4. d \in DaysTried(rule, after)
        BY <1>4, <2>2, <2>3
    <2> DEFINE t == LocalToUtc(rule.zone, d, rule.time)
    <2>5. /\ t \in InstantsOn(rule, d) /\ t \in Int
          /\ d * Day <= t + rule.zone.after
        BY <2>2, InstantsOfDay
    <2>6. d * Day \in Int /\ today * Day \in Int /\ today * Day + Day <= d * Day
        BY <1>1, <1>3, <2>2, Scaled
    <2>7. t > after
        <3> DEFINE a == today * Day
                   b == d * Day
        <3>1. /\ a \in Int /\ b \in Int /\ a + Day <= b /\ after + rule.zone.after < a + Day
              /\ b <= t + rule.zone.after
            BY <1>3, <2>5, <2>6
        <3> HIDE DEF a, b, t
        <3> QED
            BY <1>1, <2>5, <3>1
    <2> HIDE DEF t
    <2> QED
        BY <2>2, <2>4, <2>5, <2>7
<1> QED
    BY <1>1, <1>3, <1>6, <1>7

\* Instants of an earlier day are earlier.
LEMMA DaysInOrder ==
    ASSUME NEW rule \in RuleSet, Reached(rule), rule.kind # "once",
           NEW d \in Int, NEW e \in Int, d < e,
           NEW t \in InstantsOn(rule, d), NEW u \in InstantsOn(rule, e)
    PROVE  t < u
<1>1. Day \in Nat /\ rule.zone.after \in Int
    BY TimeAssumption DEF TimeAssumption, RuleSet, ZoneSet
<1>2. t \in Int /\ t + rule.zone.after < d * Day + Day
    BY InstantsOfDay
<1>3. u \in Int /\ e * Day <= u + rule.zone.after
    BY InstantsOfDay
<1> DEFINE a == d * Day
           b == e * Day
<1>4. a \in Int /\ b \in Int /\ a + Day <= b
    BY <1>1, Scaled
<1>5. t + rule.zone.after < a + Day /\ b <= u + rule.zone.after
    BY <1>2, <1>3
<1> HIDE DEF a, b
<1> QED
    BY <1>1, <1>2, <1>3, <1>4, <1>5

\* nextScheduledOccurrence passes over no instant of such a rule.
LEMMA SearchFinds ==
    ASSUME NEW rule \in Rules, Reached(rule), NEW after \in Times,
           NEW o \in Instants[rule], o > after
    PROVE  NextDue[rule][after] <= o
<1>1. rule \in RuleSet /\ after \in Int /\ after >= 0 /\ Horizon \in Nat
    BY SchedulerAssumption, TimeAssumption
       DEF SchedulerAssumption, TimeAssumption, Times
<1>2. NextDue[rule][after] = NextOccurrence(rule, after)
    BY DEF NextDue
<1>3. PICK day \in LocalDay(rule.zone, 0) .. LocalDay(rule.zone, Horizon) + 1 :
        RunsOn(rule, day) /\ o \in InstantsOn(rule, day) /\ o \in Times
    <2>1. o \in Occurrences(rule)
        BY Zenon DEF Instants
    <2> DEFINE D == {d \in LocalDay(rule.zone, 0) .. LocalDay(rule.zone, Horizon) + 1 : RunsOn(rule, d)}
    <2>2. o \in UNION {InstantsOn(rule, d) : d \in D} /\ o \in Times
        BY <2>1 DEF Occurrences
    <2> HIDE DEF D
    <2>3. PICK d \in D : o \in InstantsOn(rule, d)
        BY Zenon, <2>2
    <2> QED
        BY Zenon, <2>2, <2>3 DEF D
<1>4. day \in Int /\ o \in Int /\ o <= Horizon
    BY <1>1, <1>3 DEF Times
<1> DEFINE later(d) == {t \in InstantsOn(rule, d) : t > after}
           days == {d \in DaysTried(rule, after) : later(d) # {}}
           first == Min(days)
           next == Min(later(first))
<1>5. NextOccurrence(rule, after) =
        IF days = {} THEN Never ELSE IF next \in Times THEN next ELSE Never
    BY DEF NextOccurrence
<1>6. /\ days # {} /\ first \in days /\ first \in Int
      /\ rule.kind = "once" => first = day
      /\ first <= day
    <2>1. CASE rule.kind = "once"
        <3>1. ~rule.window
            BY <2>1 DEF Reached
        <3>2. day = rule.day
            BY <1>3, <2>1 DEF RunsOn
        <3>3. DaysTried(rule, after) = {day}
            BY <2>1, <3>1, <3>2 DEF DaysTried
        <3>4. day \in days
            BY <1>3, <3>3
        <3>5. first \in days
            BY <1>1, <3>4, DaysTriedHaveMinimum
        <3>6. first = day
            BY <3>3, <3>5
        <3> HIDE DEF days, first
        <3> QED
            BY <1>4, <3>4, <3>5, <3>6
    <2>2. CASE rule.kind # "once"
        <3>1. PICK d \in DaysTried(rule, after) :
                d \in Int /\ d <= day /\ \E t \in InstantsOn(rule, d) : t > after
            BY <1>1, <1>3, <1>4, <2>2, SomeDayIsTried
        <3>2. d \in days
            BY <3>1
        <3>3. first \in days /\ days \subseteq Int
            BY <1>1, <3>2, DaysTriedHaveMinimum
        <3>4. first <= d
            <4>1. \A x \in days : LocalDay(rule.zone, after) <= x
                BY <1>1, <2>2, TimeAssumption
                   DEF DaysTried, TimeAssumption, LocalDay, ZoneOffset, RuleSet, ZoneSet
            <4>2. LocalDay(rule.zone, after) \in Int
                BY <1>1, TimeAssumption
                   DEF TimeAssumption, LocalDay, ZoneOffset, RuleSet, ZoneSet
            <4> HIDE DEF days
            <4> QED
                BY <3>2, <3>3, <4>1, <4>2, MinExists
        <3> HIDE DEF days, first
        <3> QED
            BY <1>4, <2>2, <3>1, <3>2, <3>3, <3>4
    <2> QED
        BY <2>1, <2>2
<1>7. next \in later(first) /\ next \in Int /\ \A t \in later(first) : next <= t
    <2>1. later(first) # {}
        <3> HIDE DEF first, later
        <3> QED
            BY <1>6
    <2>2. first \in Int
        BY <1>6
    <2> HIDE DEF first
    <2>3. later(first) \subseteq Int /\ \A t \in later(first) : after <= t
        BY <1>1, <2>2, InstantsAreIntegers
    <2> HIDE DEF later
    <2> QED
        BY <1>1, <2>1, <2>3, MinExists
<1>8. next > after /\ next \in InstantsOn(rule, first)
    BY <1>7
<1>9. next <= o
    <2>1. CASE first = day
        <3>1. o \in later(first)
            BY <1>3, <2>1
        <3> HIDE DEF later, first, next
        <3> QED
            BY <1>7, <3>1
    <2>2. CASE first # day
        <3> HIDE DEF later, days, first, next
        <3>1. rule.kind # "once" /\ first < day
            BY <1>4, <1>6, <2>2
        <3>2. next < o
            BY <1>1, <1>3, <1>4, <1>6, <1>8, <3>1, DaysInOrder
        <3> QED
            BY <1>4, <1>7, <3>2
    <2> QED
        BY <2>1, <2>2
<1> HIDE DEF later, days, first, next
<1>10. next \in Times
    BY <1>1, <1>4, <1>7, <1>8, <1>9 DEF Times
<1> QED
    BY <1>2, <1>5, <1>6, <1>9, <1>10

-----------------------------------------------------------------------------
(* What a step may do to a task: leave it, take it out of the plan, or plan it *)
(* anew from an instant that is not ahead.                                     *)

Idle(task) == task.is # "live" \/ ~task.enabled
PlannedAnew(task) ==
    /\ task.rule \in Rules
    /\ \E now \in Times : now <= clock /\ task.nextRunAt = NextDue[task.rule][now]
PlanMoves(old, new) == new = old \/ Idle(new) \/ PlannedAnew(new)

LEMMA AdvancedMoves ==
    ASSUME TypeOK, NEW t \in Due
    PROVE  PlannedAnew(Advanced(tasks[t]))
<1>1. /\ tasks[t] \in TaskSet
      /\ tasks[t].nextRunAt \in Times /\ tasks[t].nextRunAt <= clock
    BY DueIsTyped
<1>2. /\ DOMAIN tasks[t] = {"is", "rule", "enabled", "nextRunAt", "depth", "by"}
      /\ tasks[t].rule \in Rules
    BY <1>1 DEF TaskSet
<1>3. /\ Advanced(tasks[t]).rule = tasks[t].rule
      /\ Advanced(tasks[t]).nextRunAt = NextDue[tasks[t].rule][tasks[t].nextRunAt]
    BY <1>2 DEF Advanced
<1> QED
    BY Zenon, <1>1, <1>2, <1>3 DEF PlannedAnew

LEMMA ClosedMoves ==
    ASSUME NEW task \in TaskSet, NEW rule, NEW trigger
    PROVE  Closed(task, rule, trigger) = task \/ Idle(Closed(task, rule, trigger))
<1>1. DOMAIN task = {"is", "rule", "enabled", "nextRunAt", "depth", "by"}
    BY DEF TaskSet
<1> DEFINE closed == [task EXCEPT !.enabled = FALSE, !.nextRunAt = Never]
<1>2. closed.enabled = FALSE
    BY <1>1
<1> HIDE DEF closed
<1>3. Closed(task, rule, trigger) \in {closed, task}
    BY DEF Closed, closed
<1> QED
    BY <1>2, <1>3 DEF Idle

LEMMA NewMoves ==
    ASSUME clock \in Times, NEW task, NEW rule \in Rules, NEW enabled \in BOOLEAN,
           task.rule = rule, task.enabled = enabled,
           task.nextRunAt = Planned(rule, enabled)
    PROVE  Idle(task) \/ PlannedAnew(task)
<1>1. clock <= clock
    BY DEF Times
<1>2. CASE enabled
    BY Zenon, <1>1, <1>2 DEF PlannedAnew, Planned
<1>3. CASE ~enabled
    BY <1>3 DEF Idle
<1> QED
    BY <1>2, <1>3

\* One task is written; the others stay.
LEMMA OneMoves ==
    ASSUME TypeOK, NEW t \in Tasks, NEW task,
           tasks' = [tasks EXCEPT ![t] = task],
           PlanMoves(tasks[t], task)
    PROVE  \A u \in Tasks : PlanMoves(tasks[u], tasks'[u])
<1>1. tasks \in [Tasks -> TaskSet]
    BY DEF TypeOK
<1>2. ASSUME NEW u \in Tasks
      PROVE  tasks'[u] = tasks[u] \/ (u = t /\ tasks'[u] = task)
    BY <1>1
<1>3. \A u \in Tasks : PlanMoves(tasks[u], tasks[u])
    BY DEF PlanMoves
<1> QED
    BY <1>2, <1>3

\* Due tasks are advanced, or advanced and closed.
LEMMA DueMove ==
    ASSUME TypeOK,
           \A t \in Tasks :
              \/ tasks'[t] = tasks[t]
              \/ t \in Due /\ tasks'[t] = Advanced(tasks[t])
              \/ /\ t \in Due
                 /\ \E rule, trigger :
                      tasks'[t] = Closed(Advanced(tasks[t]), rule, trigger)
    PROVE  \A u \in Tasks : PlanMoves(tasks[u], tasks'[u])
<1> SUFFICES ASSUME NEW t \in Tasks
             PROVE  PlanMoves(tasks[t], tasks'[t])
    OBVIOUS
<1>1. CASE tasks'[t] = tasks[t]
    BY <1>1 DEF PlanMoves
<1>2. CASE t \in Due /\ tasks'[t] = Advanced(tasks[t])
    BY <1>2, AdvancedMoves DEF PlanMoves
<1>3. CASE /\ t \in Due
           /\ \E rule, trigger : tasks'[t] = Closed(Advanced(tasks[t]), rule, trigger)
    <2>1. PICK rule, trigger : tasks'[t] = Closed(Advanced(tasks[t]), rule, trigger)
        BY <1>3
    <2>2. Advanced(tasks[t]) \in TaskSet /\ PlannedAnew(Advanced(tasks[t]))
        BY <1>3, DueIsTyped, AdvancedIsLater, AdvancedMoves
    <2>3. tasks'[t] = Advanced(tasks[t]) \/ Idle(tasks'[t])
        BY <2>1, <2>2, ClosedMoves
    <2> QED
        BY <2>2, <2>3 DEF PlanMoves
<1> QED
    BY <1>1, <1>2, <1>3

LEMMA InstantsAreTimes ==
    ASSUME NEW rule \in Rules
    PROVE  Instants[rule] \subseteq Times
BY DEF Instants, Occurrences

LEMMA PlansStayAhead ==
    ASSUME \A rule \in Rules : Reached(rule), TypeOK, FutureIsPlanned,
           clock' \in Times, clock' >= clock,
           \A t \in Tasks : PlanMoves(tasks[t], tasks'[t])
    PROVE  FutureIsPlanned'
<1> SUFFICES ASSUME NEW t \in Tasks, tasks'[t].is = "live", tasks'[t].enabled,
                    NEW o \in Instants[tasks'[t].rule], o > clock'
             PROVE  tasks'[t].nextRunAt <= o
    BY DEF FutureIsPlanned, Live
<1>1. clock \in Int /\ clock' \in Int
    BY DEF TypeOK, Times
<1>2. CASE tasks'[t] = tasks[t]
    <2>1. o \in Instants[tasks[t].rule] /\ t \in Live /\ tasks[t].enabled
        BY <1>2 DEF Live
    <2>2. o \in Int
        <3>1. tasks[t].rule \in Rules
            BY DEF TypeOK, TaskSet
        <3> QED
            BY <2>1, <3>1, InstantsAreTimes DEF Times
    <2>3. o > clock
        BY <1>1, <2>2
    <2> QED
        BY <1>2, <2>1, <2>3 DEF FutureIsPlanned
<1>3. CASE PlannedAnew(tasks'[t])
    <2>1. PICK now \in Times :
            now <= clock /\ tasks'[t].nextRunAt = NextDue[tasks'[t].rule][now]
        BY <1>3 DEF PlannedAnew
    <2>2. tasks'[t].rule \in Rules
        BY <1>3 DEF PlannedAnew
    <2>3. o \in Int /\ now \in Int
        BY <2>2, InstantsAreTimes DEF Times
    <2>4. o > now
        BY <1>1, <2>1, <2>3
    <2>5. NextDue[tasks'[t].rule][now] <= o
        BY <2>2, <2>4, SearchFinds
    <2> QED
        BY <2>1, <2>5
<1> QED
    BY <1>2, <1>3 DEF PlanMoves, Idle

LEMMA PlansMove ==
    SchedInv /\ [Next]_vars => \A t \in Tasks : PlanMoves(tasks[t], tasks'[t])
<1> SUFFICES ASSUME SchedInv, [Next]_vars
             PROVE  \A t \in Tasks : PlanMoves(tasks[t], tasks'[t])
    OBVIOUS
<1>0. /\ TypeOK /\ clock \in Times /\ tasks \in [Tasks -> TaskSet]
      /\ exec \in [Tasks -> SUBSET ExecSet]
    BY DEF SchedInv, TypeOK, ExecSet
<1>u. ASSUME tasks' = tasks
      PROVE  \A t \in Tasks : PlanMoves(tasks[t], tasks'[t])
    BY <1>u DEF PlanMoves
<1>s. ASSUME SkipDue
      PROVE  \A t \in Tasks : PlanMoves(tasks[t], tasks'[t])
    <2>1. \A t \in Tasks : \/ tasks'[t] = tasks[t]
                           \/ t \in Due /\ tasks'[t] = Advanced(tasks[t])
        BY <1>s DEF SkipDue
    <2> QED
        BY <1>0, <2>1, DueMove
<1>1. CASE Advance
    BY <1>u, <1>1 DEF Advance
<1>2. CASE Start
    BY <1>s, <1>2 DEF Start
<1>3. CASE Resume
    BY <1>s, <1>3 DEF Resume
<1>4. CASE TimerFires
    <2>1. PICK failing \in SUBSET (Due \ busy) :
            tasks' = [t \in Tasks |->
                           IF t \in failing
                             THEN Closed(Advanced(tasks[t]), tasks[t].rule, "scheduled")
                           ELSE IF t \in Due THEN Advanced(tasks[t])
                           ELSE tasks[t]]
        BY Zenon, <1>4 DEF TimerFires
    <2>2. \A t \in Tasks :
              \/ tasks'[t] = tasks[t]
              \/ t \in Due /\ tasks'[t] = Advanced(tasks[t])
              \/ /\ t \in Due
                 /\ tasks'[t] = Closed(Advanced(tasks[t]), tasks[t].rule, "scheduled")
        BY <2>1
    <2> QED
        BY Zenon, <1>0, <2>2, DueMove
<1>5. CASE Quit \/ Crash
    BY <1>u, <1>5 DEF Quit, Crash
<1>6. CASE CrashInTick \/ CrashInSkip
    <2>1. PICK done \in SUBSET Due, next \in Due :
            tasks' = [t \in Tasks |-> IF t \in done \cup {next}
                                        THEN Advanced(tasks[t]) ELSE tasks[t]]
        BY Zenon, <1>6 DEF CrashInTick, CrashInSkip, UpTo
    <2>2. \A t \in Tasks : \/ tasks'[t] = tasks[t]
                           \/ t \in Due /\ tasks'[t] = Advanced(tasks[t])
        BY <2>1
    <2> QED
        BY <1>0, <2>2, DueMove
<1>7. ASSUME NEW t \in Tasks, RunNow(t) \/ CrashAtEnd(t)
             \/ \E i \in DOMAIN rows[t] : DeleteRow(t, i)
      PROVE  tasks' = tasks
    BY <1>7 DEF RunNow, CrashAtEnd, DeleteRow
<1>8. ASSUME NEW t \in Tasks, Ends(t)
      PROVE  \A u \in Tasks : PlanMoves(tasks[u], tasks'[u])
    <2>1. PICK e \in exec[t] :
            tasks' = [tasks EXCEPT ![t] = Closed(tasks[t], e.rule, e.trigger)]
        BY Zenon, <1>8 DEF Ends
    <2>2. PlanMoves(tasks[t], Closed(tasks[t], e.rule, e.trigger))
        BY <1>0, ClosedMoves DEF PlanMoves
    <2> QED
        BY <1>0, <2>1, <2>2, OneMoves
<1>9. ASSUME NEW t \in Tasks, Remove(t)
      PROVE  \A u \in Tasks : PlanMoves(tasks[u], tasks'[u])
    <2>1. tasks' = [tasks EXCEPT ![t] = Deleted(tasks[t])]
        BY <1>9 DEF Remove
    <2>2. Deleted(tasks[t]).is = "deleted"
        BY DEF Deleted, Unborn
    <2>3. PlanMoves(tasks[t], Deleted(tasks[t]))
        BY <2>2 DEF PlanMoves, Idle
    <2> QED
        BY <1>0, <2>1, <2>3, OneMoves
<1>10. ASSUME NEW t \in Tasks, NEW rule \in Rules, NEW depth, NEW by,
              tasks' = [tasks EXCEPT ![t] = NewTask(rule, TRUE, depth, by)]
       PROVE  \A u \in Tasks : PlanMoves(tasks[u], tasks'[u])
    <2> DEFINE task == NewTask(rule, TRUE, depth, by)
    <2>1. /\ task.rule = rule /\ task.enabled = TRUE
          /\ task.nextRunAt = Planned(rule, TRUE)
        BY DEF NewTask
    <2>2. tasks' = [tasks EXCEPT ![t] = task]
        BY <1>10
    <2> HIDE DEF task
    <2>3. PlanMoves(tasks[t], task)
        BY <1>0, <2>1, NewMoves DEF PlanMoves
    <2> QED
        BY <1>0, <2>2, <2>3, OneMoves
<1>11. ASSUME NEW t \in Tasks, NEW rule \in Rules, Create(t, rule)
       PROVE  \A u \in Tasks : PlanMoves(tasks[u], tasks'[u])
    BY <1>10, <1>11 DEF Create
<1>12. ASSUME NEW t \in Tasks, NEW rule \in Rules, AgentCreates(t, rule)
       PROVE  \A u \in Tasks : PlanMoves(tasks[u], tasks'[u])
    BY Zenon, <1>10, <1>12 DEF AgentCreates
<1>13. ASSUME NEW t \in Tasks, NEW rule \in Rules, NEW enabled \in BOOLEAN,
              Update(t, rule, enabled)
       PROVE  \A u \in Tasks : PlanMoves(tasks[u], tasks'[u])
    <2> DEFINE task == [tasks[t] EXCEPT !.rule = rule, !.enabled = enabled,
                                        !.nextRunAt = Planned(rule, enabled)]
    <2>1. tasks[t] \in TaskSet
        BY <1>0
    <2>2. DOMAIN tasks[t] = {"is", "rule", "enabled", "nextRunAt", "depth", "by"}
        BY <2>1 DEF TaskSet
    <2>3. /\ task.rule = rule /\ task.enabled = enabled
          /\ task.nextRunAt = Planned(rule, enabled)
        BY <2>2
    <2>4. tasks' = [tasks EXCEPT ![t] = task]
        BY <1>0, <1>13 DEF Update
    <2> HIDE DEF task
    <2>5. PlanMoves(tasks[t], task)
        BY <1>0, <2>3, NewMoves DEF PlanMoves
    <2> QED
        BY <1>0, <2>4, <2>5, OneMoves
<1>14. CASE UNCHANGED vars
    BY <1>u, <1>14 DEF vars
<1> QED
    BY <1>u, <1>1, <1>2, <1>3, <1>4, <1>5, <1>6, <1>7, <1>8, <1>9, <1>11, <1>12,
       <1>13, <1>14 DEF Next

LEMMA ClockMoves == [Next]_vars => clock' = clock \/ clock' = clock + 1
<1> SUFFICES ASSUME [Next]_vars
             PROVE  clock' = clock \/ clock' = clock + 1
    OBVIOUS
<1>1. CASE Advance \/ UNCHANGED vars
    BY <1>1 DEF Advance, vars
<1>2. CASE Start \/ Resume \/ TimerFires \/ Quit
    BY <1>2 DEF Start, Resume, TimerFires, Quit
<1>3. CASE Crash \/ CrashInTick \/ CrashInSkip
    BY <1>3 DEF Crash, CrashInTick, CrashInSkip, Gone
<1>4. ASSUME NEW t \in Tasks, RunNow(t) \/ Ends(t)
      PROVE  clock' = clock
    BY <1>4 DEF RunNow, Ends
<1>5. ASSUME NEW t \in Tasks, Remove(t) \/ CrashAtEnd(t)
      PROVE  clock' = clock
    BY <1>5 DEF Remove, CrashAtEnd, Elsewhere, Gone
<1>6. ASSUME NEW t \in Tasks, NEW rule \in Rules,
             Create(t, rule) \/ AgentCreates(t, rule)
      PROVE  clock' = clock
    BY <1>6 DEF Create, AgentCreates, Elsewhere
<1>7. ASSUME NEW t \in Tasks, NEW rule \in Rules, NEW enabled \in BOOLEAN,
             Update(t, rule, enabled)
      PROVE  clock' = clock
    BY <1>7 DEF Update, Elsewhere
<1>8. ASSUME NEW t \in Tasks, NEW i \in DOMAIN rows[t], DeleteRow(t, i)
      PROVE  clock' = clock
    BY <1>8 DEF DeleteRow, Elsewhere
<1> QED
    BY <1>1, <1>2, <1>3, <1>4, <1>5, <1>6, <1>7, <1>8 DEF Next

\* scheduled.ts, scheduler.ts, bridge.ts: whatever is edited, run, passed over
\* or interrupted, the plan of an enabled task leaves out no instant ahead,
\* when the rules in use are such that the search reaches their instants.
THEOREM InstantsStayPlanned ==
    (\A rule \in Rules : Reached(rule)) => (Spec => []FutureIsPlanned)
<1> SUFFICES ASSUME \A rule \in Rules : Reached(rule)
             PROVE  Spec => []FutureIsPlanned
    OBVIOUS
<1>1. Init => FutureIsPlanned
    <2> SUFFICES ASSUME Init, NEW t \in Live, tasks[t].enabled,
                        NEW o \in Instants[tasks[t].rule], o > clock
                 PROVE  tasks[t].nextRunAt <= o
        BY DEF FutureIsPlanned
    <2>1. clock = 0 /\ 0 \in Times
        BY TimeAssumption DEF Init, TimeAssumption, Times
    <2>2. /\ t \in Tasks
          /\ tasks[t] \in {Unborn} \cup {NewTask(rule, TRUE, 0, Nobody) : rule \in Rules}
        BY DEF Init, Live
    <2>3. tasks[t] # Unborn
        BY DEF Live, Unborn
    <2>4. PICK rule \in Rules : tasks[t] = NewTask(rule, TRUE, 0, Nobody)
        BY <2>2, <2>3
    <2>5. tasks[t].rule = rule /\ tasks[t].nextRunAt = NextDue[rule][0]
        BY <2>1, <2>4 DEF NewTask, Planned
    <2> QED
        BY <2>1, <2>5, SearchFinds
<1>2. SchedInv /\ FutureIsPlanned /\ [Next]_vars => FutureIsPlanned'
    <2> SUFFICES ASSUME SchedInv, FutureIsPlanned, [Next]_vars
                 PROVE  FutureIsPlanned'
        OBVIOUS
    <2>1. TypeOK /\ SchedInv'
        BY StepHolds DEF SchedInv
    <2>2. clock' \in Times
        BY <2>1 DEF SchedInv, TypeOK
    <2>3. clock' >= clock
        <3>1. clock \in Int
            BY <2>1 DEF TypeOK, Times
        <3>2. clock' = clock \/ clock' = clock + 1
            BY ClockMoves
        <3> QED
            BY <3>1, <3>2
    <2> QED
        BY <2>1, <2>2, <2>3, PlansMove, PlansStayAhead
<1> QED
    BY <1>1, <1>2, SchedulerInvariant, PTL DEF Spec
=============================================================================
