----------------------------- MODULE MCScheduler -----------------------------
(* TLC instances of Scheduler: days of two ticks, weeks of two days. *)
EXTENDS Scheduler

Zone(change, before, after) == [change |-> change, before |-> before, after |-> after]
Greenwich == Zone(0, 0, 0)
\* The clock goes forward at 3, and skips local time 2, the first of a day.
Forward == Zone(3, -1, 0)
\* The clock goes back at 2, and repeats the last local time of a day; in the other
\* zone, where the day begins at 1, the first.
BackLate == Zone(2, 0, -1)
BackEarly == Zone(2, -1, -2)

Rule(kind, time, zone) ==
    [kind |-> kind, day |-> 1, weekdays |-> {1}, time |-> time,
     window |-> FALSE, until |-> 0, every |-> 1, zone |-> zone]
Repeating(rule, until) == [rule EXCEPT !.window = TRUE, !.until = until]

Daily == {Rule("daily", 0, Forward)}
\* Every day; both days of a week, until the evening, which comes twice; a one-off
\* of tomorrow whose window holds a repeat because the clock goes back inside it.
Mixed == {Rule("daily", 0, Forward),
          [Repeating(Rule("weekly", 0, BackLate), 1) EXCEPT !.weekdays = {0, 1}],
          [Repeating(Rule("once", 0, BackEarly), 1) EXCEPT !.day = 0, !.every = 2]}
\* A one-off of the day after tomorrow, with a window.
FarOnce == {[Repeating(Rule("once", 0, Greenwich), 1) EXCEPT !.day = 2]}
=============================================================================
