---------------------------- MODULE ScheduledTime ----------------------------
(***************************************************************************)
(* When a schedule fires next (shared/domain/scheduled.ts): one-off, daily  *)
(* and weekly rules in local time, an optional window of repeats on the     *)
(* day, time zones whose offset changes once.  Time is counted in ticks     *)
(* that stand for minutes; a day has Day of them, a week Week days.         *)
(*                                                                         *)
(* A rule is a record: kind, day (of a one-off), weekdays (of a weekly      *)
(* rule), time (of day), window (are repeats enabled?), until, every, and   *)
(* the zone of the task.  Parsing of dates and times is left out: rules are *)
(* well formed.                                                            *)
(***************************************************************************)
EXTENDS Integers, FiniteSetsExt

CONSTANTS
    Day,            \* ticks in a day
    Week,           \* days in a week
    Horizon,        \* bound of the model: later instants are not looked at
    DaysAhead       \* how many days nextScheduledOccurrence tries

ASSUME TimeAssumption ==
    /\ Day \in Nat \ {0} /\ Week \in Nat \ {0}
    /\ Horizon \in Nat /\ DaysAhead \in Nat

\* nextRunAt = null; later than every instant of the model.
Never == Horizon + 1
Times == 0 .. Horizon
\* A zone is `before' ahead of Greenwich until the instant `change', then
\* `after'.
ZoneSet == [change : Int, before : Int, after : Int]
RuleSet ==
    [kind : {"once", "daily", "weekly"}, day : Int, weekdays : SUBSET Nat,
     time : Int, window : BOOLEAN, until : Int, every : Nat \ {0}, zone : ZoneSet]

-----------------------------------------------------------------------------
ZoneOffset(zone, t) == IF t < zone.change THEN zone.before ELSE zone.after

\* localToUtc corrects the offset once; a time the zone skips is moved.
LocalToUtc(zone, day, time) ==
    LET naive == day * Day + time
    IN naive - ZoneOffset(zone, naive - ZoneOffset(zone, naive))

\* The date part of partsInZone.
LocalDay(zone, t) == (t + ZoneOffset(zone, t)) \div Day

RunsOn(rule, day) ==
    \/ rule.kind = "once" /\ day = rule.day
    \/ rule.kind = "daily"
    \/ rule.kind = "weekly" /\ day % Week \in rule.weekdays

\* The instants of one day: the start and, in a window, the repeats up to
\* its end (none when the window ends before it starts).
InstantsOn(rule, day) ==
    LET start == LocalToUtc(rule.zone, day, rule.time)
        last == IF rule.window THEN LocalToUtc(rule.zone, day, rule.until) ELSE start
    IN {start} \cup {start + k * rule.every : k \in 0 .. (last - start) \div rule.every}

\* Mutant: the last day is not tried (offset < maxDays).
DaysTriedBut(rule, after) ==
    IF rule.kind = "once" /\ ~rule.window THEN {rule.day}
    ELSE {day \in LocalDay(rule.zone, after) .. LocalDay(rule.zone, after) - 1
                    + IF rule.kind = "once" THEN 1 ELSE DaysAhead :
            RunsOn(rule, day)}

\* The days that are tried.  With a window, a one-off rule is looked for
\* only today and tomorrow.
DaysTried(rule, after) ==
    IF rule.kind = "once" /\ ~rule.window THEN {rule.day}
    ELSE {day \in LocalDay(rule.zone, after) .. LocalDay(rule.zone, after)
                    + IF rule.kind = "once" THEN 1 ELSE DaysAhead :
            RunsOn(rule, day)}

\* nextScheduledOccurrence: the first instant after `after' on the first day
\* that has one.
NextOccurrence(rule, after) ==
    LET later(day) == {t \in InstantsOn(rule, day) : t > after}
        days == {day \in DaysTried(rule, after) : later(day) # {}}
        next == Min(later(Min(days)))
    IN IF days = {} THEN Never ELSE IF next \in Times THEN next ELSE Never

\* Reference: every instant at which the rule fires within the horizon.
Occurrences(rule) ==
    Times \cap UNION {InstantsOn(rule, day) : day \in
             {d \in LocalDay(rule.zone, 0) .. LocalDay(rule.zone, Horizon) + 1 :
                RunsOn(rule, d)}}
=============================================================================
