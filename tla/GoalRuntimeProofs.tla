-------------------------- MODULE GoalRuntimeProofs --------------------------
(***************************************************************************)
(* What holds of a session's goal for any number of goals, messages, runs    *)
(* and restarts, and any cap on idle check-ins.                              *)
(***************************************************************************)
EXTENDS GoalRuntime, SequenceTheorems, FiniteSetTheorems, WellFoundedInduction, TLAPS

\* What most handlers do to a goal: end it, or keep its count of check-ins
\* under the same or a newer identity.
Keeps(r, s) ==
    /\ WellFormed(s)
    /\ r.next <= s.next
    /\ HasGoal(s) => /\ HasGoal(r)
                     /\ s.goal.idle = r.goal.idle
                     /\ r.goal.id <= s.goal.id
    /\ r.initialized => s.initialized

\* The helpers of goal/runtime.ts compose.
LEMMA KeepsComposes ==
    ASSUME NEW r, NEW s, NEW t,
           WellFormed(r), Keeps(r, s), Keeps(s, t)
    PROVE  Keeps(r, t)
BY DEF Keeps, WellFormed

\* A handler that touches neither identity nor count keeps the goal.
LEMMA SameGoalKeeps ==
    ASSUME NEW r, NEW s, WellFormed(r),
           DOMAIN s = DOMAIN r, DOMAIN s.goal = DOMAIN r.goal,
           s.initialized = r.initialized, s.next = r.next,
           s.goal.id = r.goal.id, s.goal.idle = r.goal.idle,
           HasGoal(s) <=> HasGoal(r)
    PROVE  Keeps(r, s)
BY DEF Keeps, WellFormed

\* clearActiveGoal leaves no goal.
LEMMA ClearedKeeps ==
    ASSUME NEW r, WellFormed(r)
    PROVE  /\ Keeps(r, Cleared(r))
           /\ ~HasGoal(Cleared(r)) /\ Cleared(r).initialized = TRUE
           /\ Cleared(r).next = r.next
<1>1. /\ Cleared(r).initialized = TRUE /\ Cleared(r).next = r.next
      /\ DOMAIN Cleared(r) = DOMAIN r
      /\ Cleared(r).goal = NoGoal
  BY DEF Cleared, WellFormed, HasGoal
<1>2. QED BY <1>1 DEF Keeps, WellFormed, HasGoal, NoGoal

\* setActiveGoal: a fresh identity that nothing has been counted against.
LEMMA ActivatedIsFresh ==
    ASSUME NEW r, NEW intent, WellFormed(r)
    PROVE  /\ WellFormed(Activated(r, intent))
           /\ HasGoal(Activated(r, intent))
           /\ Activated(r, intent).goal.id = r.next
           /\ Activated(r, intent).goal.idle = 0
           /\ Activated(r, intent).next = r.next + 1
           /\ Activated(r, intent).initialized = TRUE
<1>1. /\ WellFormed(Cleared(r)) /\ Cleared(r).initialized = TRUE
  BY ClearedKeeps DEF Keeps
<1> DEFINE s == Activated(r, intent)
<1>2. /\ s.goal = [id |-> r.next, of |-> intent, deferred |-> FALSE, idle |-> 0]
      /\ s.next = r.next + 1
      /\ DOMAIN s = DOMAIN Cleared(r)
      /\ s.initialized = TRUE
  BY <1>1 DEF Activated, WellFormed, NoGoal
<1>3. s.goal.id = r.next /\ s.goal.idle = 0 /\ DOMAIN s.goal = DOMAIN NoGoal
  BY <1>2 DEF NoGoal
<1>4. r.next \in Nat \ {0} /\ s.goal # NoGoal
  BY <1>3 DEF WellFormed, NoGoal
<1>5. HasGoal(s)
  BY <1>4 DEF HasGoal
<1>6. DOMAIN s = DOMAIN r /\ DOMAIN s.goal = DOMAIN r.goal
  BY <1>1, <1>2, <1>3 DEF WellFormed, NoGoal
<1>7. WellFormed(s)
  BY <1>2, <1>3, <1>4, <1>6 DEF WellFormed
<1>8. QED BY <1>2, <1>3, <1>5, <1>7

\* pauseGoal rotates the identity and keeps everything else of the goal.
LEMMA PausedKeeps ==
    ASSUME NEW r, WellFormed(r)
    PROVE  /\ Keeps(r, Paused(r))
           /\ HasGoal(Paused(r)) => Paused(r).goal.id = r.next
<1> DEFINE s == Paused(r)
<1>1. /\ DOMAIN s = DOMAIN r /\ s.initialized = r.initialized
  BY DEF Paused, WellFormed
<1>2. CASE HasGoal(r)
  <2>1. s.goal = [r.goal EXCEPT !.id = r.next] /\ s.next = r.next + 1
    BY <1>2 DEF Paused, WellFormed
  <2>2. /\ s.goal.id = r.next /\ s.goal.idle = r.goal.idle
        /\ DOMAIN s.goal = DOMAIN r.goal
    BY <2>1 DEF WellFormed
  <2>3. QED
    BY <1>1, <1>2, <2>1, <2>2 DEF Keeps, WellFormed, HasGoal, NoGoal
<1>3. CASE ~HasGoal(r)
  <2>1. s.goal = r.goal /\ s.next = r.next
    BY <1>3 DEF Paused, WellFormed
  <2>2. QED BY <1>1, <1>3, <2>1 DEF Keeps, WellFormed, HasGoal
<1>4. QED BY <1>2, <1>3

\* releaseGoalRun and armCheckin do not touch the goal.
LEMMA ReleasedKeeps ==
    ASSUME NEW r, WellFormed(r)
    PROVE  Keeps(r, Released(r)) /\ Keeps(r, Armed(r))
BY DEF Released, Armed, Keeps, WellFormed, HasGoal

\* bindGoalRun, but for the count that a message of the user starts anew.
LEMMA BoundKeeps ==
    ASSUME NEW r, WellFormed(r)
    PROVE  Keeps(r, Bound(r))
BY DEF Bound, Keeps, WellFormed, HasGoal

\* ... and so is a fresh goal bound to the run that proposed it.
LEMMA BoundIsFresh ==
    ASSUME NEW r, NEW intent, WellFormed(r)
    PROVE  /\ WellFormed(Bound(Activated(r, intent)))
           /\ Bound(Activated(r, intent)).goal.id = r.next
           /\ Bound(Activated(r, intent)).goal.idle = 0
           /\ Bound(Activated(r, intent)).next = r.next + 1
<1> DEFINE s == Activated(r, intent)
<1>1. /\ WellFormed(s) /\ s.goal.id = r.next /\ s.goal.idle = 0
      /\ s.next = r.next + 1
  BY ActivatedIsFresh
<1>2. /\ WellFormed(Bound(s)) /\ Bound(s).goal = s.goal
      /\ Bound(s).next = s.next
  BY <1>1 DEF Bound, WellFormed, HasGoal
<1>3. QED BY <1>1, <1>2

\* The end of a turn defers a goal or takes its deferral back.
LEMMA JudgingKeeps ==
    ASSUME NEW r, WellFormed(r)
    PROVE  Keeps(r, Judging(r))
<1>1. CASE ~HasGoal(r)
  BY <1>1 DEF Judging, Keeps, WellFormed
<1>2. CASE HasGoal(r)
  <2> DEFINE s == Judging(r)
  <2>1. /\ DOMAIN s = DOMAIN r /\ s.initialized = r.initialized
        /\ s.next = r.next
        /\ s.goal = [r.goal EXCEPT !.deferred = (bg # 0)]
    BY <1>2 DEF Judging, Armed, WellFormed
  <2>2. /\ s.goal.id = r.goal.id /\ s.goal.idle = r.goal.idle
        /\ DOMAIN s.goal = DOMAIN r.goal
    BY <2>1 DEF WellFormed
  <2>3. QED BY <1>2, <2>1, <2>2 DEF Keeps, WellFormed, HasGoal, NoGoal
<1>3. QED BY <1>1, <1>2

-----------------------------------------------------------------------------
(* Steps *)

\* What the rest of the invariant asks of the run.
RunKeeps ==
    /\ DOMAIN run' = DOMAIN run
    /\ run'.no \in Nat
    /\ run'.phase \in {"starting", "prepared"} /\ run'.user => wakes' = 0

\* A step that keeps the goal keeps the invariant.
LEMMA KeepsInv ==
    ASSUME GoalInv, Keeps(rt, rt'), RunKeeps,
           wakes' = wakes \/ wakes' = 0, stoppedAt' = stoppedAt
    PROVE  GoalInv'
<1>1. WellFormed(rt') /\ stoppedAt' <= rt'.next
  BY DEF GoalInv, Keeps, WellFormed
<1>2. wakes' \in Nat /\ wakes' <= wakes
  BY DEF GoalInv
<1>3. HasGoal(rt') => stoppedAt' <= rt'.goal.id /\ wakes' <= rt'.goal.idle
  BY <1>2 DEF GoalInv, Keeps, WellFormed
<1>4. wakes' <= IdleCap
  BY <1>2, GoalAssumption DEF GoalInv
<1>5. ~rt'.initialized => wakes' = 0
  BY <1>2 DEF GoalInv, Keeps
<1>6. QED BY <1>1, <1>2, <1>3, <1>4, <1>5 DEF GoalInv, RunKeeps

\* So does a step that sets a goal nothing has been counted against.
LEMMA FreshInv ==
    ASSUME GoalInv, RunKeeps, WellFormed(rt'),
           rt'.goal.id = rt.next, rt'.next = rt.next + 1,
           wakes' = 0, stoppedAt' = stoppedAt
    PROVE  GoalInv'
BY GoalAssumption DEF GoalInv, RunKeeps, WellFormed

\* A run that works on, its mailbox emptied or not.
LEMMA WorkKeepsRun ==
    ASSUME GoalInv, wakes' = wakes,
           \/ run' = [run EXCEPT !.mail = {}]
           \/ run' = [run EXCEPT !.phase = "working"]
           \/ run' = [run EXCEPT !.phase = "working", !.mail = {}]
    PROVE  RunKeeps
<1>1. CASE run' = [run EXCEPT !.mail = {}]
  BY <1>1 DEF RunKeeps, GoalInv
<1>2. CASE run' = [run EXCEPT !.phase = "working"]
  BY <1>2 DEF RunKeeps, GoalInv
<1>3. CASE run' = [run EXCEPT !.phase = "working", !.mail = {}]
  BY <1>3 DEF RunKeeps, GoalInv
<1>4. QED BY <1>1, <1>2, <1>3

\* handle.finish: the goal is released, or paused first.
LEMMA FinishInv ==
    ASSUME GoalInv, NEW r, NEW b, NEW status, Keeps(rt, r),
           Finish(r, b, status), wakes' = wakes, stoppedAt' = stoppedAt
    PROVE  GoalInv'
<1>1. WellFormed(rt) /\ WellFormed(r)
  BY DEF GoalInv, Keeps
<1>2. Keeps(r, r)
  BY <1>1 DEF Keeps, WellFormed
<1>3. PICK s : Keeps(r, s) /\ rt' = Released(s)
  BY <1>1, <1>2, PausedKeeps DEF Finish
<1>4. Keeps(rt, s) /\ WellFormed(s)
  BY <1>1, <1>3, KeepsComposes DEF Keeps
<1>5. Keeps(rt, rt')
  BY <1>1, <1>3, <1>4, ReleasedKeeps, KeepsComposes
<1>6. RunKeeps
  BY DEF Finish, RunKeeps, GoalInv
<1>7. QED BY <1>5, <1>6, KeepsInv

\* Internal input never looks like a message of the user.
LEMMA DeliveredKeepsRun ==
    ASSUME GoalInv, NEW id, Delivered(id)
    PROVE  /\ DOMAIN run' = DOMAIN run /\ run'.no \in Nat
           /\ run'.phase \in {"starting", "prepared"} /\ run'.user =>
                 run.phase \in {"starting", "prepared"} /\ run.user
           /\ posts \subseteq posts'
<1>1. CASE run' = run
  BY <1>1 DEF Delivered, GoalInv
<1>2. CASE run' = [run EXCEPT !.mail = @ \cup {id}] /\ posts' = posts
  BY <1>2 DEF GoalInv
<1>3. CASE run' = NewRun(FALSE) /\ posts' = posts
  BY <1>3 DEF NewRun, GoalInv
<1>4. QED BY <1>1, <1>2, <1>3 DEF Delivered

\* Every step keeps the invariant.
LEMMA GoalStep == GoalInv /\ [Next]_vars => GoalInv'
<1> SUFFICES ASSUME GoalInv, [Next]_vars
             PROVE  GoalInv'
  OBVIOUS
<1>a. WellFormed(rt) /\ Keeps(rt, rt)
  BY DEF GoalInv, Keeps, WellFormed
<1>b. run' = run /\ (wakes' = wakes \/ wakes' = 0) => RunKeeps
  BY DEF RunKeeps, GoalInv
<1>1. CASE SendMessage
  <2>1. RunKeeps /\ rt' = rt /\ wakes' = 0 /\ stoppedAt' = stoppedAt
    BY <1>1 DEF SendMessage, UserActs, NewRun, RunKeeps, GoalInv
  <2>2. QED BY <2>1, <1>a, KeepsInv
<1>2. CASE Prepare
  <2>1. RunKeeps /\ wakes' = wakes /\ stoppedAt' = stoppedAt
    BY <1>2 DEF Prepare, RunKeeps, GoalInv
  <2>2. CASE rt' = rt
    BY <2>1, <2>2, <1>a, KeepsInv
  <2>3. CASE ~rt.initialized /\ rt' = Activated(rt, Restorable(book.messages))
    <3>1. wakes' = 0
      BY <2>1, <2>3 DEF GoalInv
    <3>2. QED BY <2>1, <2>3, <3>1, <1>a, ActivatedIsFresh, FreshInv
  <2>4. CASE ~rt.initialized /\ rt' = [rt EXCEPT !.initialized = TRUE]
    <3>1. Keeps(rt, rt')
      BY <2>4, <1>a DEF Keeps, WellFormed, HasGoal
    <3>2. QED BY <2>1, <3>1, KeepsInv
  <2>5. QED BY <1>2, <2>2, <2>3, <2>4 DEF Prepare, Restored
<1>3. CASE Bind
  <2>1. RunKeeps /\ wakes' = wakes /\ stoppedAt' = stoppedAt
    BY <1>3 DEF Bind, RunKeeps, GoalInv
  <2>2. CASE ~run.user
    BY <1>3, <2>1, <2>2, <1>a, BoundKeeps, KeepsInv DEF Bind
  <2>3. CASE run.user
    <3>1. wakes' = 0
      BY <1>3, <2>1, <2>3 DEF Bind, GoalInv
    <3>2. rt' = [Bound(rt) EXCEPT !.goal.idle = 0]
      BY <1>3, <2>3 DEF Bind
    <3>3. /\ DOMAIN rt' = DOMAIN rt /\ DOMAIN rt'.goal = DOMAIN rt.goal
          /\ rt'.initialized = rt.initialized /\ rt'.next = rt.next
          /\ rt'.goal.id = rt.goal.id /\ rt'.goal.idle = 0
      BY <3>2, <1>a DEF Bound, WellFormed
    <3>4. HasGoal(rt) <=> HasGoal(rt')
      <4>1. CASE HasGoal(rt)
        BY <4>1, <3>3, <1>a DEF WellFormed, HasGoal, NoGoal
      <4>2. CASE ~HasGoal(rt)
        BY <4>2, <3>2 DEF Bound, WellFormed, HasGoal, NoGoal
      <4>3. QED BY <4>1, <4>2
    <3>5. QED
      BY <2>1, <3>1, <3>3, <3>4, GoalAssumption DEF GoalInv, RunKeeps, WellFormed
  <2>4. QED BY <2>2, <2>3 DEF GoalInv
<1>4. CASE EndEarly
  <2>1. RunKeeps /\ wakes' = wakes /\ stoppedAt' = stoppedAt
    BY <1>4 DEF EndEarly, RunKeeps, GoalInv
  <2>2. QED BY <1>4, <2>1, <1>a, PausedKeeps, KeepsInv DEF EndEarly
<1>5. CASE UseTools
  <2>1. wakes' = wakes /\ stoppedAt' = stoppedAt
    BY <1>5 DEF UseTools
  <2>2. CASE rt' = rt /\ run' = [run EXCEPT !.mail = {}]
    <3>1. RunKeeps
      BY <2>1, <2>2, WorkKeepsRun
    <3>2. QED BY <2>1, <2>2, <3>1, <1>a, KeepsInv
  <2>3. CASE \E b : Finish(rt, b, "done")
    BY <2>1, <2>3, <1>a, FinishInv
  <2>4. QED BY <1>5, <2>2, <2>3 DEF UseTools
<1>6. CASE \E odd \in BOOLEAN : EndTurn(odd)
  <2>1. wakes' = wakes /\ stoppedAt' = stoppedAt
    BY <1>6 DEF EndTurn
  <2>2. RunKeeps
    <3>1. \/ run' = [run EXCEPT !.mail = {}]
          \/ run' = [run EXCEPT !.phase = "judging", !.mail = {},
                                !.before = rt.goal.id,
                                !.deferred = HasGoal(rt) /\ bg # 0]
      BY <1>6 DEF EndTurn
    <3>2. CASE run' = [run EXCEPT !.mail = {}]
      BY <2>1, <3>2, WorkKeepsRun
    <3>3. CASE run' = [run EXCEPT !.phase = "judging", !.mail = {},
                                  !.before = rt.goal.id,
                                  !.deferred = HasGoal(rt) /\ bg # 0]
      <4>1. DOMAIN run' = DOMAIN run /\ run'.no = run.no /\ run'.phase = "judging"
        BY <3>3 DEF GoalInv
      <4>2. QED BY <4>1 DEF RunKeeps, GoalInv
    <3>4. QED BY <3>1, <3>2, <3>3
  <2>3. rt' = rt \/ rt' = Judging(rt)
    BY <1>6 DEF EndTurn
  <2>4. QED BY <2>1, <2>2, <2>3, <1>a, JudgingKeeps, KeepsInv
<1>7. CASE JudgedMet
  <2>1. wakes' = wakes /\ stoppedAt' = stoppedAt
        /\ \E b : Finish(Cleared(rt), b, "done")
    BY <1>7 DEF JudgedMet
  <2>2. QED BY <2>1, <1>a, ClearedKeeps, FinishInv
<1>8. CASE JudgedNotMet
  <2>1. wakes' = wakes /\ stoppedAt' = stoppedAt
    BY <1>8 DEF JudgedNotMet
  <2>2. CASE /\ rt' = rt
             /\ \/ run' = [run EXCEPT !.phase = "working"]
                \/ run' = [run EXCEPT !.phase = "working", !.mail = {}]
    <3>1. RunKeeps
      BY <2>1, <2>2, WorkKeepsRun
    <3>2. QED BY <2>1, <2>2, <3>1, <1>a, KeepsInv
  <2>3. CASE \E b : Finish(rt, b, "done")
    BY <2>1, <2>3, <1>a, FinishInv
  <2>4. QED BY <1>8, <2>2, <2>3 DEF JudgedNotMet
<1>9. CASE NotJudged
  <2>1. wakes' = wakes /\ stoppedAt' = stoppedAt
    BY <1>9 DEF NotJudged
  <2>2. CASE /\ rt' = rt \/ rt' = Armed(rt)
             /\ \/ run' = [run EXCEPT !.phase = "working"]
                \/ run' = [run EXCEPT !.phase = "working", !.mail = {}]
    <3>1. RunKeeps
      BY <2>1, <2>2, WorkKeepsRun
    <3>2. QED BY <2>1, <2>2, <3>1, <1>a, ReleasedKeeps, KeepsInv
  <2>3. CASE \E b : Finish(rt, b, "done")
    BY <2>1, <2>3, <1>a, FinishInv
  <2>4. QED BY <1>9, <2>2, <2>3 DEF NotJudged
<1>10. CASE Break
  <2>1. wakes' = wakes /\ stoppedAt' = stoppedAt
        /\ \E b, status : Finish(rt, b, status)
    BY <1>10 DEF Break
  <2>2. QED BY <2>1, <1>a, FinishInv
<1>11. CASE Settle
  <2>1. RunKeeps /\ rt' = rt /\ wakes' = wakes /\ stoppedAt' = stoppedAt
    BY <1>11 DEF Settle, RunKeeps, GoalInv
  <2>2. QED BY <2>1, <1>a, KeepsInv
<1>12. CASE Stop
  <2>1. /\ DOMAIN run' = DOMAIN run /\ run'.no = run.no /\ wakes' = wakes
        /\ run'.phase = run.phase /\ run'.user = run.user
        /\ rt' = Paused(rt) /\ stoppedAt' = rt.next
    BY <1>12 DEF Stop, GoalInv
  <2>2. Keeps(rt, rt') /\ (HasGoal(rt') => rt'.goal.id = rt.next)
    BY <2>1, <1>a, PausedKeeps
  <2>3. WellFormed(rt') /\ stoppedAt' \in Nat /\ stoppedAt' <= rt'.next
    BY <2>1, <2>2, <1>a DEF Keeps, WellFormed
  <2>4. HasGoal(rt') => stoppedAt' <= rt'.goal.id /\ wakes' <= rt'.goal.idle
    BY <2>1, <2>2, <2>3 DEF GoalInv, Keeps, WellFormed
  <2>5. ~rt'.initialized => wakes' = 0
    BY <2>1, <2>2 DEF GoalInv, Keeps
  <2>6. QED BY <2>1, <2>3, <2>4, <2>5 DEF GoalInv
<1>13. CASE SetGoal
  <2>1. /\ run' = run /\ wakes' = 0 /\ stoppedAt' = stoppedAt
        /\ rt' = Activated(rt, rt.next)
    BY <1>13 DEF SetGoal, UserActs
  <2>2. QED BY <2>1, <1>a, <1>b, ActivatedIsFresh, FreshInv
<1>14. CASE ClearGoal
  <2> DEFINE r == Restored(rt, book.messages)
  <2>1. /\ run' = run /\ wakes' = 0 /\ stoppedAt' = stoppedAt
        /\ rt' = IF HasGoal(r) THEN Cleared(r) ELSE r
    BY <1>14 DEF ClearGoal, UserActs
  <2>2. WellFormed(r) /\ rt.next <= r.next
    <3>1. CASE r = rt
      BY <3>1, <1>a DEF WellFormed
    <3>2. CASE r = [rt EXCEPT !.initialized = TRUE]
      BY <3>2, <1>a DEF WellFormed, HasGoal
    <3>3. CASE r = Activated(rt, Restorable(book.messages))
      <4>1. WellFormed(r) /\ r.next = rt.next + 1
        BY <3>3, <1>a, ActivatedIsFresh
      <4>2. QED BY <4>1, <1>a DEF WellFormed
    <3>4. QED BY <3>1, <3>2, <3>3 DEF Restored
  <2>2a. r.initialized
    BY DEF Restored, Activated, Cleared
  <2> HIDE DEF r
  <2>3. /\ WellFormed(rt') /\ ~HasGoal(rt') /\ rt'.next = r.next
        /\ rt'.initialized
    BY <2>1, <2>2, <2>2a, ClearedKeeps DEF Keeps
  <2>4. Keeps(rt, rt')
    BY <2>2, <2>3 DEF Keeps
  <2>5. QED BY <2>1, <2>4, <1>b, KeepsInv
<1>15. CASE OpenSession
  <2>1. run' = run /\ wakes' = wakes /\ stoppedAt' = stoppedAt
        /\ ~rt.initialized
    BY <1>15 DEF OpenSession
  <2>2. CASE rt' = Activated(rt, Restorable(book.messages))
    <3>1. wakes' = 0
      BY <2>1 DEF GoalInv
    <3>2. QED BY <2>1, <2>2, <3>1, <1>a, <1>b, ActivatedIsFresh, FreshInv
  <2>3. CASE rt' = [rt EXCEPT !.initialized = TRUE]
    <3>1. Keeps(rt, rt')
      BY <2>3, <1>a DEF Keeps, WellFormed, HasGoal
    <3>2. QED BY <2>1, <3>1, <1>b, KeepsInv
  <2>4. QED BY <1>15, <2>1, <2>2, <2>3 DEF OpenSession, Restored
<1>16. CASE Propose
  <2>1. stoppedAt' = stoppedAt
    BY <1>16 DEF Propose
  <2>2. CASE rt' = rt /\ run' = run /\ wakes' = wakes
    BY <2>1, <2>2, <1>a, <1>b, KeepsInv
  <2>3. CASE /\ rt' = Bound(Activated(rt, rt.next)) /\ wakes' = 0
             /\ run' = [run EXCEPT !.mail = @ \cup {rt.next}]
    <3>1. RunKeeps
      BY <2>3 DEF RunKeeps, GoalInv
    <3>2. QED BY <2>1, <2>3, <3>1, <1>a, BoundIsFresh, FreshInv
  <2>4. QED BY <1>16, <2>2, <2>3 DEF Propose
<1>17. CASE Approve
  <2>1. /\ rt' = Bound(Activated(rt, rt.next))
        /\ wakes' = 0 /\ stoppedAt' = stoppedAt
        /\ run' = run \/ Delivered(rt.next)
    BY <1>17 DEF Approve, UserActs
  <2>2. RunKeeps
    BY <2>1, <1>b, DeliveredKeepsRun DEF RunKeeps
  <2>3. QED BY <2>1, <2>2, <1>a, BoundIsFresh, FreshInv
<1>18. CASE Decline
  <2>1. rt' = rt /\ run' = run /\ wakes' = 0 /\ stoppedAt' = stoppedAt
    BY <1>18 DEF Decline, UserActs
  <2>2. QED BY <2>1, <1>a, <1>b, KeepsInv
<1>19. CASE Arrive
  <2>1. rt' = rt /\ wakes' = wakes /\ stoppedAt' = stoppedAt
    BY <1>19 DEF Arrive
  <2>2. \/ run' = run \/ run' = NewRun(FALSE)
        \/ \E id : run' = [run EXCEPT !.mail = @ \cup {id}]
    BY <1>19 DEF Arrive
  <2>3. RunKeeps
    <3>1. CASE run' = NewRun(FALSE)
      BY <3>1 DEF NewRun, RunKeeps, GoalInv
    <3>2. CASE \E id : run' = [run EXCEPT !.mail = @ \cup {id}]
      BY <3>2, <2>1 DEF RunKeeps, GoalInv
    <3>3. QED BY <2>1, <2>2, <3>1, <3>2, <1>b
  <2>4. QED BY <2>1, <2>3, <1>a, KeepsInv
<1>20. CASE Dispatch
  <2>1. rt' = rt /\ run' = run /\ wakes' = wakes /\ stoppedAt' = stoppedAt
    BY <1>20 DEF Dispatch
  <2>2. QED BY <2>1, <1>a, <1>b, KeepsInv
<1>21. CASE ChildDone
  <2>1. /\ rt' = rt /\ wakes' = wakes /\ stoppedAt' = stoppedAt
        /\ run' = run \/ Delivered(0)
    BY <1>21 DEF ChildDone
  <2>2. RunKeeps
    BY <2>1, <1>b, DeliveredKeepsRun DEF RunKeeps, GoalInv
  <2>3. QED BY <2>1, <2>2, <1>a, KeepsInv
<1>22. CASE TimerFires
  <2>1. stoppedAt' = stoppedAt
    BY <1>22 DEF TimerFires
  <2>2. CASE rt' = [rt EXCEPT !.timer = 0] /\ run' = run /\ wakes' = wakes
    <3>1. Keeps(rt, rt')
      BY <2>2, <1>a DEF Keeps, WellFormed, HasGoal
    <3>2. QED BY <2>1, <2>2, <3>1, <1>b, KeepsInv
  <2>3. CASE rt' = Armed(rt) /\ run' = run /\ wakes' = wakes
    BY <2>1, <2>3, <1>a, <1>b, ReleasedKeeps, KeepsInv
  <2>4. CASE /\ rt.timer # 0 /\ rt.goal.id = rt.timer /\ ~Active
             /\ rt.goal.idle < IdleCap /\ Delivered(rt.goal.id)
             /\ rt' = Armed([rt EXCEPT !.timer = 0, !.goal.idle = @ + 1])
             /\ wakes' = wakes + 1
    <3>1. /\ DOMAIN rt' = DOMAIN rt /\ DOMAIN rt'.goal = DOMAIN rt.goal
          /\ rt'.initialized = rt.initialized /\ rt'.next = rt.next
          /\ rt'.goal.id = rt.goal.id /\ rt'.goal.idle = rt.goal.idle + 1
      BY <2>4, <1>a DEF Armed, WellFormed
    <3>2. HasGoal(rt) /\ rt.initialized
      BY <2>4, <1>a DEF WellFormed, HasGoal, NoGoal
    <3>3. HasGoal(rt')
      BY <3>1, <3>2, <1>a DEF WellFormed, HasGoal, NoGoal
    <3>4. ~(run'.phase \in {"starting", "prepared"} /\ run'.user)
      BY <2>4, DeliveredKeepsRun DEF Active
    <3>5. DOMAIN run' = DOMAIN run /\ run'.no \in Nat
      BY <2>4, DeliveredKeepsRun
    <3>6. WellFormed(rt')
      BY <3>1, <3>2, <3>3, <1>a DEF WellFormed
    <3>7. /\ wakes' \in Nat /\ wakes' <= IdleCap /\ wakes' <= rt'.goal.idle
          /\ stoppedAt' <= rt'.goal.id /\ stoppedAt' <= rt'.next
      BY <2>1, <2>4, <3>1, <3>2, <1>a, GoalAssumption DEF GoalInv, WellFormed
    <3>8. QED
      BY <2>1, <3>1, <3>2, <3>4, <3>5, <3>6, <3>7 DEF GoalInv
  <2>5. QED BY <1>22, <2>2, <2>3, <2>4 DEF TimerFires
<1>23. CASE Restart
  <2>1. /\ rt' = [rt EXCEPT !.goal = NoGoal, !.context = FALSE, !.timer = 0,
                            !.initialized = FALSE]
        /\ run' = [run EXCEPT !.phase = "none", !.aborted = FALSE, !.mail = {}]
        /\ wakes' = 0 /\ stoppedAt' = stoppedAt
    BY <1>23 DEF Restart
  <2>2. DOMAIN run' = DOMAIN run /\ run'.no = run.no /\ run'.phase = "none"
    BY <2>1 DEF GoalInv
  <2>3. /\ DOMAIN rt' = DOMAIN rt /\ rt'.goal = NoGoal /\ rt'.next = rt.next
    BY <2>1, <1>a DEF WellFormed
  <2>4. WellFormed(rt') /\ ~HasGoal(rt')
    BY <2>3, <1>a DEF WellFormed, HasGoal, NoGoal
  <2>5. QED BY <2>1, <2>2, <2>3, <2>4, GoalAssumption DEF GoalInv
<1>24. CASE UNCHANGED vars
  <2>1. rt' = rt /\ run' = run /\ wakes' = wakes /\ stoppedAt' = stoppedAt
    BY <1>24 DEF vars
  <2>2. QED BY <2>1, <1>a, <1>b, KeepsInv
<1>25. QED
  BY <1>1, <1>2, <1>3, <1>4, <1>5, <1>6, <1>7, <1>8, <1>9, <1>10, <1>11,
     <1>12, <1>13, <1>14, <1>15, <1>16, <1>17, <1>18, <1>19, <1>20, <1>21,
     <1>22, <1>23, <1>24 DEF Next

LEMMA GoalStarts == Init => GoalInv
<1> SUFFICES ASSUME Init PROVE GoalInv
  OBVIOUS
<1>1. /\ DOMAIN rt = {"goal", "context", "timer", "next", "initialized"}
      /\ rt.goal = NoGoal /\ rt.next = 1
  BY DEF Init
<1>2. WellFormed(rt) /\ ~HasGoal(rt)
  BY <1>1 DEF WellFormed, HasGoal, NoGoal
<1>3. QED BY <1>1, <1>2, GoalAssumption DEF Init, GoalInv

\* The invariant holds in every state, for any number of identities, messages,
\* runs and restarts and any cap.
THEOREM GoalInvariant == Spec => []GoalInv
<1>1. Init => GoalInv
  BY GoalStarts
<1>2. GoalInv /\ [Next]_vars => GoalInv'
  BY GoalStep
<1>3. QED BY <1>1, <1>2, PTL DEF Spec

\* IdleWakesBounded (main/goal/runtime.ts, armCheckin and advanceCheckin): a
\* goal nobody looks after wakes its session at most IdleCap times.
THEOREM IdleWakesAreBounded == Spec => []IdleWakesBounded
<1>1. GoalInv => IdleWakesBounded
  BY DEF GoalInv, IdleWakesBounded
<1>2. QED BY <1>1, GoalInvariant, PTL

\* StopIsQuiet (pauseGoal, acceptsGoalInput): goal input sent before the user
\* pressed Stop never reaches the model.
THEOREM StoppedInputStaysOut == Spec => StopIsQuiet
<1>1. GoalInv /\ [Next]_vars => [\A id \in Heard : id >= stoppedAt]_vars
  <2> SUFFICES ASSUME GoalInv, [Next]_vars, vars' # vars, NEW id \in Heard
               PROVE  id >= stoppedAt
    OBVIOUS
  <2>1. \A items : \A i \in Wanted(items) : i = 0 \/ i >= stoppedAt
    BY DEF Wanted, GoalInv, WellFormed
  <2>2. CASE ~(run'.no > run.no)
    BY <2>1, <2>2 DEF Heard
  <2>3. CASE run'.no > run.no
    <3>1. PICK p \in posts \ posts' : id = p.id /\ id # 0
      BY <2>3 DEF Heard
    <3>2. CASE Arrive
      <4>1. PICK q \in posts : posts' = posts \ {q} /\ Wanted({q.id}) # {}
        <5>1. run' # run /\ (\A x : run' # [run EXCEPT !.mail = x])
          BY <2>3 DEF GoalInv
        <5>2. QED BY <3>2, <5>1 DEF Arrive
      <4>2. p = q
        BY <3>1, <4>1
      <4>3. id \in Wanted({q.id})
        BY <3>1, <4>1, <4>2 DEF Wanted
      <4>4. QED BY <2>1, <3>1, <4>3
    <3>3. CASE ~Arrive
      <4>1. posts \subseteq posts' \/ run'.no = run.no
        <5>1. CASE SendMessage BY <5>1 DEF SendMessage
        <5>2. CASE Approve BY <5>2, DeliveredKeepsRun DEF Approve
        <5>3. CASE ChildDone BY <5>3, DeliveredKeepsRun DEF ChildDone
        <5>4. CASE TimerFires BY <5>4, DeliveredKeepsRun DEF TimerFires
        <5>5. CASE Restart BY <5>5 DEF Restart, GoalInv
        <5>6. CASE /\ ~SendMessage /\ ~Approve /\ ~ChildDone
                   /\ ~TimerFires /\ ~Restart
          BY <3>3, <5>6
          DEF Next, Prepare, Bind, EndEarly, UseTools, EndTurn, JudgedMet,
              JudgedNotMet, NotJudged, Break, Finish, Settle, Stop, SetGoal,
              ClearGoal, OpenSession, Propose, Decline, Dispatch, vars
        <5>7. QED BY <5>1, <5>2, <5>3, <5>4, <5>5, <5>6
      <4>2. QED BY <2>3, <3>1, <4>1 DEF GoalInv
    <3>4. QED BY <3>2, <3>3
  <2>4. QED BY <2>2, <2>3
<1>2. QED BY <1>1, GoalInvariant, PTL DEF Spec, StopIsQuiet

-----------------------------------------------------------------------------
(* The transcript                                                           *)

Roles    == {"user", "assistant", "tool"}
MarkType == [at : Nat, kind : {"open", "met", "cleared"}, of : Nat]
Message  == [role : Roles, marks : SUBSET MarkType]

\* What every handler leaves of the transcript: markers are on assistant messages,
\* or wait while there is none; what was recorded out of band is in the
\* transcript; and a new marker is newer than all others.
BookOK(b) ==
    /\ DOMAIN b = {"messages", "copy", "pending", "durable"}
    /\ b.messages \in Seq(Message) /\ b.copy \in Seq(Message)
    /\ Len(b.messages) <= MaxMessages
    /\ b.pending \subseteq MarkType
    /\ b.durable \in [1..MaxMessages -> SUBSET MarkType]
    /\ \A i \in 1..MaxMessages : b.durable[i] \subseteq
           IF i <= Len(b.messages) THEN b.messages[i].marks ELSE {}
    /\ \A i \in 1..Len(b.messages) :
           b.messages[i].role # "assistant" => b.messages[i].marks = {}
    /\ b.pending # {} => \A i \in 1..Len(b.messages) : b.messages[i].role # "assistant"
    /\ IsFiniteSet(Marks(b))
    /\ \A m \in Marks(b) : m.at <= Cardinality(Marks(b))

\* The marker that decides: newer than all others, and where a restart looks.
IsTop(b, top) ==
    /\ top \in Marks(b)
    /\ \A m \in Marks(b) \ {top} : m.at < top.at
    /\ \/ top \in b.pending
       \/ \E i \in 1..Len(b.messages) :
              /\ top \in b.messages[i].marks
              /\ \A j \in 1..Len(b.messages) : j > i => b.messages[j].marks = {}

Intent(mark) == IF mark.kind \in {"met", "cleared"} THEN 0 ELSE mark.of

\* A restart now would bring back the goal set under identity v, or none.
Says(b, v) ==
    \/ Marks(b) = {} /\ v = 0
    \/ \E top \in Marks(b) : IsTop(b, top) /\ v = Intent(top)

\* The running session's own list: the same messages, and it lacks only markers
\* that were recorded out of band.
CopyInStep(b) ==
    /\ Len(b.copy) = Len(b.messages)
    /\ \A i \in 1..Len(b.messages) :
           /\ b.copy[i].role = b.messages[i].role
           /\ b.copy[i].marks \subseteq b.messages[i].marks
           /\ b.messages[i].marks \subseteq b.copy[i].marks \cup b.durable[i]

EndsWithReply(b) == Len(b.copy) > 0 /\ b.copy[Len(b.copy)].role = "assistant"

Phases == {"none", "starting", "prepared", "working", "judging", "settling"}

\* The transcript tells the goal, if it is known whether there is one ...
GoalTold ==
    /\ BookOK(book)
    /\ Marks(book) # {} => \E top \in Marks(book) : IsTop(book, top)
    /\ ~OddReplies /\ rt.initialized => Says(book, rt.goal.of)
    /\ ~rt.initialized => book.pending = {}
    /\ rt.goal.of \in Nat /\ rt.goal.of < rt.next
    /\ \A m \in Marks(book) : m.of < rt.next

\* ... and the run's own list and the evaluation under way are in step with it.
RunInStep ==
    /\ run.phase \in Phases
    /\ run.phase \in {"prepared", "working", "judging"} => CopyInStep(book)
    /\ run.phase = "judging" =>
           /\ OddReplies \/ EndsWithReply(book)
           /\ run.before \in Nat /\ run.before < rt.next
           /\ touched /\ HasGoal(rt) => rt.goal.id # run.before

\* The inductive invariant behind TranscriptTellsGoal and VerdictsAreCurrent.
TranscriptInv == GoalTold /\ RunInStep

\* A bounded set of naturals has a largest element, which Max chooses.
LEMMA MaxIsLargest ==
    ASSUME NEW n \in Nat, NEW S \in SUBSET (1..n), S # {}
    PROVE  Max(S) \in S /\ \A y \in S : y <= Max(S)
<1> DEFINE T == {k \in Nat : \E x \in S : k = n - x}
           Below == {p \in Nat \X Nat : p[1] < p[2]}
<1>1. T \subseteq Nat /\ T # {}
  <2>1. PICK x \in S : TRUE
    OBVIOUS
  <2>2. n - x \in T
    BY <2>1
  <2>3. QED BY <2>2
<1>2. PICK t \in T : \A u \in T : <<u, t>> \notin Below
  <2>1. IsWellFoundedOn(Below, Nat)
    BY NatLessThanWellFounded DEF OpToRel
  <2> HIDE DEF Below, T
  <2>2. QED BY <1>1, <2>1, WFMin
<1>3. PICK x \in S : t = n - x
  OBVIOUS
<1>4. ASSUME NEW y \in S PROVE y <= x
  <2>1. y \in 1..n /\ x \in 1..n
    OBVIOUS
  <2>2. n - y \in T /\ t \in Nat /\ n - y \in Nat
    BY <2>1, <1>1
  <2>3. ~(n - y < t)
    BY <1>2, <2>2
  <2>4. QED BY <2>1, <2>3, <1>3
<1>5. \E z \in S : \A y \in S : z >= y
  <2>1. \A y \in S : x >= y
    <3>1. SUFFICES ASSUME NEW y \in S PROVE x >= y
      OBVIOUS
    <3>2. x \in 1..n /\ y \in 1..n /\ y <= x
      BY <1>4
    <3>3. QED BY <3>2
  <2>2. QED BY <2>1
<1>6. Max(S) \in S /\ \A y \in S : Max(S) >= y
  BY <1>5 DEF Max
<1>7. QED BY <1>6

\* What is in the transcript, and what waits to be written to it.
LEMMA MarksAre ==
    ASSUME NEW b, b.messages \in Seq(Message), NEW m
    PROVE  m \in Marks(b) <=>
               m \in b.pending \/ \E i \in 1..Len(b.messages) : m \in b.messages[i].marks
BY DEF Marks

\* A marker is on an assistant message, and then none waits.
LEMMA MarkedIsReply ==
    ASSUME NEW b, BookOK(b), NEW i \in 1..Len(b.messages),
           b.messages[i].role = "assistant" \/ b.messages[i].marks # {}
    PROVE  b.messages[i].role = "assistant" /\ b.pending = {}
BY DEF BookOK

\* The marker that decides stays the one, when no marker comes or goes and it is
\* still found where a restart looks.
Carried(b, c) ==
    /\ BookOK(c)
    /\ Marks(c) = Marks(b)
    /\ \A top : IsTop(b, top) => IsTop(c, top)

\* AgentSession.commit: a message takes along what waited for an assistant's.
LEMMA CommittedCarries ==
    ASSUME NEW b, NEW role \in Roles, BookOK(b), Len(b.messages) < MaxMessages
    PROVE  /\ Carried(b, Committed(b, role))
           /\ CopyInStep(b) => CopyInStep(Committed(b, role))
           /\ role = "assistant" => EndsWithReply(Committed(b, role))
           /\ Len(Committed(b, role).messages) = Len(b.messages) + 1
           /\ Committed(b, role).pending \subseteq b.pending
           /\ Committed(b, role).durable = b.durable
<1> DEFINE n == Len(b.messages)
           c == Committed(b, role)
           message == Prepared(b, n + 1, [role |-> role, marks |-> {}])
<1>1. n \in Nat /\ n + 1 \in 1..MaxMessages /\ b.durable[n + 1] = {}
  BY GoalAssumption DEF BookOK
<1>2. /\ message \in Message /\ message.role = role
      /\ message.marks = IF role = "assistant" THEN b.pending ELSE {}
  BY <1>1 DEF Prepared, Message, Roles, BookOK
<1>3. /\ c.messages = Append(b.messages, message)
      /\ c.copy = Append(b.copy, message)
      /\ c.pending = IF role = "assistant" THEN {} ELSE b.pending
      /\ c.durable = b.durable /\ DOMAIN c = DOMAIN b
  BY DEF Committed, BookOK
<1> HIDE DEF message, c
<1>4. /\ c.messages \in Seq(Message) /\ c.copy \in Seq(Message)
      /\ Len(c.messages) = n + 1 /\ Len(c.copy) = Len(b.copy) + 1
      /\ \A i \in 1..n : c.messages[i] = b.messages[i]
      /\ c.messages[n + 1] = message
      /\ \A i \in 1..Len(b.copy) : c.copy[i] = b.copy[i]
      /\ c.copy[Len(b.copy) + 1] = message
  BY <1>2, <1>3, AppendProperties DEF BookOK
<1>5. Marks(c) = Marks(b)
  <2>1. ASSUME NEW m PROVE m \in Marks(c) <=> m \in Marks(b)
    <3>1. m \in Marks(c) <=>
              m \in c.pending \/ \E i \in 1..(n + 1) : m \in c.messages[i].marks
      BY <1>4, MarksAre
    <3>2. m \in Marks(b) <=>
              m \in b.pending \/ \E i \in 1..n : m \in b.messages[i].marks
      BY MarksAre DEF BookOK
    <3>3. (\E i \in 1..(n + 1) : m \in c.messages[i].marks) <=>
              (\E i \in 1..n : m \in b.messages[i].marks) \/ m \in message.marks
      <4>1. 1..(n + 1) = (1..n) \cup {n + 1}
        BY <1>1
      <4>2. QED BY <4>1, <1>4
    <3>4. QED BY <3>1, <3>2, <3>3, <1>2, <1>3
  <2>2. QED BY <2>1
<1>6. BookOK(c)
  <2>1. \A i \in 1..MaxMessages : c.durable[i] \subseteq
            IF i <= Len(c.messages) THEN c.messages[i].marks ELSE {}
    <3>1. SUFFICES ASSUME NEW i \in 1..MaxMessages
                   PROVE  c.durable[i] \subseteq
                              IF i <= Len(c.messages) THEN c.messages[i].marks ELSE {}
      OBVIOUS
    <3>2. CASE i <= n
      BY <3>2, <1>1, <1>3, <1>4 DEF BookOK
    <3>3. CASE ~(i <= n)
      BY <3>3, <1>1, <1>3 DEF BookOK
    <3>4. QED BY <3>2, <3>3
  <2>2. \A i \in 1..Len(c.messages) :
            c.messages[i].role # "assistant" => c.messages[i].marks = {}
    BY <1>1, <1>2, <1>4 DEF BookOK
  <2>3. c.pending # {} =>
            \A i \in 1..Len(c.messages) : c.messages[i].role # "assistant"
    BY <1>1, <1>2, <1>3, <1>4 DEF BookOK
  <2>4. c.pending \subseteq MarkType /\ Len(c.messages) <= MaxMessages
    BY <1>1, <1>3, <1>4 DEF BookOK
  <2>5. QED BY <1>3, <1>4, <1>5, <2>1, <2>2, <2>3, <2>4 DEF BookOK
<1>7. ASSUME NEW top, IsTop(b, top) PROVE IsTop(c, top)
  <2>1. top \in Marks(c) /\ \A m \in Marks(c) \ {top} : m.at < top.at
    BY <1>5, <1>7 DEF IsTop
  <2>2. CASE top \in b.pending /\ role = "assistant"
    BY <2>1, <2>2, <1>1, <1>2, <1>4 DEF IsTop
  <2>3. CASE top \in b.pending /\ role # "assistant"
    BY <2>1, <2>3, <1>3 DEF IsTop
  <2>4. CASE top \notin b.pending
    <3>1. PICK i \in 1..n : /\ top \in b.messages[i].marks
                            /\ \A j \in 1..n : j > i => b.messages[j].marks = {}
      BY <1>7, <2>4 DEF IsTop
    <3>2. b.pending = {}
      BY <3>1, MarkedIsReply
    <3>3. message.marks = {}
      BY <3>2, <1>2
    <3>4. /\ i \in 1..Len(c.messages) /\ top \in c.messages[i].marks
          /\ \A j \in 1..Len(c.messages) : j > i => c.messages[j].marks = {}
      <4>1. 1..(n + 1) = (1..n) \cup {n + 1} /\ Len(c.messages) = n + 1
        BY <1>1, <1>4
      <4>2. i \in 1..Len(c.messages) /\ top \in c.messages[i].marks
        BY <3>1, <4>1, <1>4
      <4>3. ASSUME NEW j \in 1..Len(c.messages), j > i
            PROVE  c.messages[j].marks = {}
        BY <3>1, <3>3, <4>1, <4>3, <1>4
      <4>4. QED BY <4>2, <4>3
    <3>5. QED BY <2>1, <3>4 DEF IsTop
  <2>5. QED BY <2>2, <2>3, <2>4
<1>8. CopyInStep(b) => CopyInStep(c)
  BY <1>1, <1>3, <1>4 DEF CopyInStep
<1>9. role = "assistant" => EndsWithReply(c)
  BY <1>2, <1>4 DEF EndsWithReply, BookOK
<1>10. QED BY <1>3, <1>4, <1>5, <1>6, <1>7, <1>8, <1>9 DEF Carried, c

Kinds == {"open", "met", "cleared"}

\* The book has got one more marker, and that is the one that decides.
Told(b, c, mark) ==
    /\ BookOK(c)
    /\ Marks(c) = Marks(b) \cup {mark}
    /\ IsTop(c, mark)

\* Everything in a transcript is a marker.
LEMMA MarksAreTyped ==
    ASSUME NEW b, BookOK(b)
    PROVE  Marks(b) \subseteq MarkType
<1>1. b.messages \in Seq(Message) /\ b.pending \subseteq MarkType
  BY DEF BookOK
<1>2. ASSUME NEW i \in 1..Len(b.messages) PROVE b.messages[i].marks \subseteq MarkType
  <2>1. b.messages[i] \in Message
    BY <1>1, ElementOfSeq
  <2>2. QED BY <2>1 DEF Message
<1>3. ASSUME NEW m \in Marks(b) PROVE m \in MarkType
  <2>1. m \in b.pending \/ \E i \in 1..Len(b.messages) : m \in b.messages[i].marks
    BY <1>1, MarksAre
  <2>2. QED BY <1>1, <1>2, <2>1
<1>4. QED BY <1>3

\* A marker made now is newer than all others.
LEMMA NewMarkIsNewest ==
    ASSUME NEW b, NEW kind \in Kinds, NEW intent \in Nat, BookOK(b)
    PROVE  /\ Mark(b, kind, intent) \in MarkType
           /\ Mark(b, kind, intent).kind = kind /\ Mark(b, kind, intent).of = intent
           /\ \A m \in Marks(b) : m.at < Mark(b, kind, intent).at
           /\ IsFiniteSet(Marks(b) \cup {Mark(b, kind, intent)})
           /\ \A m \in Marks(b) \cup {Mark(b, kind, intent)} :
                  m.at <= Cardinality(Marks(b) \cup {Mark(b, kind, intent)})
<1> DEFINE n == Cardinality(Marks(b))
           mark == Mark(b, kind, intent)
           all == Marks(b) \cup {mark}
<1>1. /\ IsFiniteSet(Marks(b)) /\ n \in Nat
      /\ \A m \in Marks(b) : m.at <= n
      /\ Marks(b) \subseteq MarkType
  BY MarksAreTyped, FS_CardinalityType DEF BookOK
<1>2. mark.at = n + 1 /\ mark \in MarkType /\ mark.kind = kind /\ mark.of = intent
  BY <1>1 DEF Mark, Stamp, MarkType, Kinds
<1> HIDE DEF mark
<1>3. \A m \in Marks(b) : m.at \in Nat /\ m.at < mark.at
  <2>1. \A m \in MarkType : m.at \in Nat
    BY DEF MarkType
  <2>2. QED BY <2>1, <1>1, <1>2
<1>4. mark \notin Marks(b)
  BY <1>2, <1>3
<1>5. IsFiniteSet(all) /\ Cardinality(all) = n + 1
  BY <1>1, <1>4, FS_AddElement
<1>6. \A m \in all : m.at <= Cardinality(all)
  BY <1>1, <1>2, <1>3, <1>5
<1>7. QED BY <1>2, <1>3, <1>5, <1>6 DEF mark

\* A marker that joins the newest assistant message is told by the transcript.
LEMMA JoinedIsTold ==
    ASSUME NEW b, NEW kind \in Kinds, NEW intent \in Nat, BookOK(b),
           NEW i \in 1..Len(b.messages), b.messages[i].role = "assistant",
           \A j \in 1..Len(b.messages) : j > i => b.messages[j].role # "assistant",
           NEW c, DOMAIN c = DOMAIN b, c.messages \in Seq(Message),
           c.copy \in Seq(Message), Len(c.messages) = Len(b.messages),
           c.messages[i].role = "assistant",
           c.messages[i].marks = b.messages[i].marks \cup {Mark(b, kind, intent)},
           \A j \in (1..Len(b.messages)) \ {i} : c.messages[j] = b.messages[j],
           c.pending = {}, c.durable \in [1..MaxMessages -> SUBSET MarkType],
           \A j \in (1..MaxMessages) \ {i} : c.durable[j] = b.durable[j],
           c.durable[i] \subseteq c.messages[i].marks
    PROVE  Told(b, c, Mark(b, kind, intent))
<1> DEFINE mark == Mark(b, kind, intent)
           n == Len(b.messages)
<1>1. b.pending = {} /\ n \in Nat
  BY MarkedIsReply DEF BookOK
<1>2. Marks(c) = Marks(b) \cup {mark}
  <2>1. ASSUME NEW m PROVE m \in Marks(c) <=> m \in Marks(b) \/ m = mark
    <3>1. m \in Marks(c) <=> \E j \in 1..n : m \in c.messages[j].marks
      BY MarksAre
    <3>2. m \in Marks(b) <=> \E j \in 1..n : m \in b.messages[j].marks
      BY MarksAre, <1>1 DEF BookOK
    <3>3. c.messages[i].marks = b.messages[i].marks \cup {mark}
      OBVIOUS
    <3> HIDE DEF mark
    <3>4. QED BY <3>1, <3>2, <3>3
  <2>2. QED BY <2>1
<1>3. /\ mark \in MarkType /\ \A m \in Marks(b) : m.at < mark.at
      /\ IsFiniteSet(Marks(c))
      /\ \A m \in Marks(c) : m.at <= Cardinality(Marks(c))
  <2>1. mark \in MarkType /\ \A m \in Marks(b) : m.at < mark.at
    BY <1>2, NewMarkIsNewest
  <2> DEFINE all == Marks(b) \cup {mark}
  <2>2. IsFiniteSet(all) /\ \A m \in all : m.at <= Cardinality(all)
    BY NewMarkIsNewest
  <2>3. Marks(c) = all
    BY <1>2
  <2> HIDE DEF all
  <2>4. IsFiniteSet(Marks(c)) /\ \A m \in Marks(c) : m.at <= Cardinality(Marks(c))
    BY <2>2, <2>3
  <2>5. QED BY <2>1, <2>4
<1>4. c.messages[i].marks = b.messages[i].marks \cup {mark}
  OBVIOUS
<1> HIDE DEF mark
<1>5. \A j \in 1..n : c.messages[j].role # "assistant" => c.messages[j].marks = {}
  BY DEF BookOK
<1>6. \A j \in 1..MaxMessages : c.durable[j] \subseteq
          IF j <= Len(c.messages) THEN c.messages[j].marks ELSE {}
  <2>1. i <= n
    BY <1>1
  <2>2. ASSUME NEW j \in 1..MaxMessages
        PROVE  c.durable[j] \subseteq
                   IF j <= Len(c.messages) THEN c.messages[j].marks ELSE {}
    <3>1. CASE j = i
      BY <3>1, <2>1
    <3>2. CASE j # i
      <4>1. c.durable[j] \subseteq IF j <= n THEN b.messages[j].marks ELSE {}
        BY <3>2 DEF BookOK
      <4>2. j <= n => j \in 1..n
        BY <1>1
      <4>3. QED BY <3>2, <4>1, <4>2
    <3>3. QED BY <3>1, <3>2
  <2>3. QED BY <2>2
<1>7. BookOK(c)
  BY <1>3, <1>5, <1>6 DEF BookOK
<1>8. IsTop(c, mark)
  <2>1. mark \in Marks(c) /\ \A m \in Marks(c) \ {mark} : m.at < mark.at
    BY <1>2, <1>3
  <2>2. mark \in c.messages[i].marks
    BY <1>4
  <2>3. ASSUME NEW j \in 1..Len(c.messages), j > i PROVE c.messages[j].marks = {}
    BY <2>3, <1>1 DEF BookOK
  <2>4. QED BY <2>1, <2>2, <2>3 DEF IsTop
<1>9. QED BY <1>2, <1>7, <1>8 DEF Told, mark

\* recordStatus: the marker goes to the newest assistant message, or waits for one.
LEMMA RecordedIsTold ==
    ASSUME NEW b, NEW kind \in Kinds, NEW intent \in Nat, BookOK(b)
    PROVE  LET c == Recorded(b, Mark(b, kind, intent)) IN
           /\ Told(b, c, Mark(b, kind, intent))
           /\ CopyInStep(b) => CopyInStep(c)
           /\ EndsWithReply(b) => EndsWithReply(c)
<1> DEFINE mark == Mark(b, kind, intent)
           c == Recorded(b, mark)
           n == Len(b.messages)
           assistants == {i \in DOMAIN b.messages : b.messages[i].role = "assistant"}
           i == Max(assistants)
           with == Prepared(b, i, [b.messages[i] EXCEPT !.marks = @ \cup {mark}])
<1>1. /\ n \in Nat /\ DOMAIN b.messages = 1..n /\ b.messages \in Seq(Message)
      /\ assistants \subseteq 1..n /\ n <= MaxMessages
  BY DEF BookOK
<1>2. mark \in MarkType
  BY NewMarkIsNewest
<1> HIDE DEF mark
<1>3. CASE assistants = {}
  <2>1. c = [b EXCEPT !.pending = @ \cup {mark}]
    BY <1>3 DEF Recorded
  <2>2. /\ c.messages = b.messages /\ c.copy = b.copy /\ c.durable = b.durable
        /\ c.pending = b.pending \cup {mark} /\ DOMAIN c = DOMAIN b
    BY <2>1 DEF BookOK
  <2> HIDE DEF c
  <2>3. Marks(c) = Marks(b) \cup {mark}
    BY <2>2 DEF Marks
  <2>4. /\ \A m \in Marks(b) : m.at < mark.at
        /\ IsFiniteSet(Marks(c)) /\ \A m \in Marks(c) : m.at <= Cardinality(Marks(c))
    <3>1. \A m \in Marks(b) : m.at < mark.at
      BY NewMarkIsNewest DEF mark
    <3> DEFINE all == Marks(b) \cup {mark}
    <3>2. IsFiniteSet(all) /\ \A m \in all : m.at <= Cardinality(all)
      BY NewMarkIsNewest DEF mark
    <3> HIDE DEF all
    <3>3. Marks(c) = all
      BY <2>3 DEF all
    <3>4. QED BY <3>1, <3>2, <3>3
  <2>5. BookOK(c)
    <3>1. \A j \in 1..n : c.messages[j].role # "assistant"
      BY <1>1, <1>3, <2>2
    <3>2. c.pending \subseteq MarkType
      BY <1>2, <2>2 DEF BookOK
    <3>3. QED BY <1>1, <2>2, <2>4, <3>1, <3>2 DEF BookOK
  <2>6. IsTop(c, mark)
    BY <2>2, <2>3, <2>4 DEF IsTop
  <2>7. /\ CopyInStep(b) => CopyInStep(c)
        /\ EndsWithReply(b) => EndsWithReply(c)
    BY <2>2 DEF CopyInStep, EndsWithReply
  <2>8. QED BY <2>3, <2>5, <2>6, <2>7 DEF Told, mark, c
<1>4. CASE assistants # {}
  <2>1. i \in assistants /\ \A j \in assistants : j <= i
    BY <1>1, <1>4, MaxIsLargest
  <2>2. i \in 1..n /\ b.messages[i].role = "assistant"
    BY <2>1, <1>1
  <2>3. \A j \in 1..n : j > i => b.messages[j].role # "assistant"
    <3>1. SUFFICES ASSUME NEW j \in 1..n, j > i, b.messages[j].role = "assistant"
                   PROVE  FALSE
      OBVIOUS
    <3>2. j \in assistants
      BY <3>1, <1>1
    <3> HIDE DEF i, assistants
    <3>3. j <= i /\ j \in Int /\ i \in Int
      BY <2>1, <2>2, <3>2
    <3>4. QED BY <3>1, <3>3
  <2>4. c = [b EXCEPT !.messages[i] = with, !.durable[i] = with.marks, !.pending = {}]
    BY <1>4 DEF Recorded
  <2> HIDE DEF i, assistants
  <2>5. b.messages[i] \in Message /\ b.pending = {}
    BY <2>2, <1>1, ElementOfSeq, MarkedIsReply
  <2>6. i \in 1..MaxMessages /\ b.durable[i] \subseteq b.messages[i].marks
    BY <2>2, <1>1, GoalAssumption DEF BookOK
  <2>7. with.role = "assistant" /\ with.marks = b.messages[i].marks \cup {mark}
        /\ with \in Message
    BY <1>2, <2>2, <2>5, <2>6 DEF Prepared, Message
  <2> HIDE DEF with
  <2>8. /\ c.messages = [b.messages EXCEPT ![i] = with] /\ c.copy = b.copy
        /\ c.durable = [b.durable EXCEPT ![i] = with.marks] /\ c.pending = {}
        /\ DOMAIN c = DOMAIN b
    BY <2>4 DEF BookOK
  <2> HIDE DEF c
  <2>9. /\ c.messages \in Seq(Message) /\ Len(c.messages) = n
        /\ c.messages[i] = with
        /\ \A j \in (1..n) \ {i} : c.messages[j] = b.messages[j]
    BY <2>2, <2>7, <2>8, <1>1, ExceptSeq
  <2>10. /\ c.durable \in [1..MaxMessages -> SUBSET MarkType]
         /\ c.durable[i] = with.marks
         /\ \A j \in (1..MaxMessages) \ {i} : c.durable[j] = b.durable[j]
    <3>1. with.marks \in SUBSET MarkType
      BY <2>7 DEF Message
    <3>2. b.durable \in [1..MaxMessages -> SUBSET MarkType]
      BY DEF BookOK
    <3>3. QED BY <3>1, <3>2, <2>6, <2>8
  <2>11. Told(b, c, mark)
    <3>1. c.copy \in Seq(Message)
      BY <2>8 DEF BookOK
    <3>2. c.durable[i] \subseteq c.messages[i].marks
      BY <2>9, <2>10
    <3>3. /\ c.messages[i].role = "assistant"
          /\ c.messages[i].marks = b.messages[i].marks \cup {Mark(b, kind, intent)}
      BY <2>7, <2>9 DEF mark
    <3>4. Told(b, c, Mark(b, kind, intent))
      BY <2>2, <2>3, <2>8, <2>9, <2>10, <3>1, <3>2, <3>3, JoinedIsTold
    <3>5. QED BY <3>4 DEF mark
  <2>12. CopyInStep(b) => CopyInStep(c)
    <3>1. SUFFICES ASSUME CopyInStep(b), NEW j \in 1..n
                   PROVE  /\ c.copy[j].role = c.messages[j].role
                          /\ c.copy[j].marks \subseteq c.messages[j].marks
                          /\ c.messages[j].marks \subseteq c.copy[j].marks \cup c.durable[j]
      BY <2>8, <2>9 DEF CopyInStep
    <3>2. CASE j = i
      BY <3>1, <3>2, <2>2, <2>7, <2>8, <2>9, <2>10 DEF CopyInStep
    <3>3. CASE j # i
      <4>1. j \in 1..MaxMessages
        BY <1>1, GoalAssumption
      <4>2. QED BY <3>1, <3>3, <4>1, <2>8, <2>9, <2>10 DEF CopyInStep
    <3>4. QED BY <3>2, <3>3
  <2>13. EndsWithReply(b) => EndsWithReply(c)
    BY <2>8 DEF EndsWithReply
  <2>14. QED BY <2>11, <2>12, <2>13 DEF c, mark
<1>5. QED BY <1>3, <1>4

\* attachUiParts: the verdict joins the reply that was judged, and takes along
\* what was recorded out of band; without such a reply nothing happens.
LEMMA AttachedIsTold ==
    ASSUME NEW b, NEW kind \in Kinds, NEW intent \in Nat, BookOK(b), CopyInStep(b)
    PROVE  LET c == Attached(b, Mark(b, kind, intent)) IN
           /\ CopyInStep(c)
           /\ ~EndsWithReply(b) => c = b
           /\ EndsWithReply(b) => EndsWithReply(c) /\ Told(b, c, Mark(b, kind, intent))
           /\ Len(c.messages) = Len(b.messages)
<1> DEFINE mark == Mark(b, kind, intent)
           c == Attached(b, mark)
           n == Len(b.messages)
           i == Len(b.copy)
           with == Prepared(b, i, [b.copy[i] EXCEPT !.marks = @ \cup {mark}])
<1>1. /\ n \in Nat /\ b.messages \in Seq(Message) /\ b.copy \in Seq(Message)
      /\ n <= MaxMessages /\ Len(b.copy) = n
  BY DEF BookOK, CopyInStep
<1>2. mark \in MarkType
  BY NewMarkIsNewest
<1> HIDE DEF mark
<1>3. CASE ~EndsWithReply(b)
  <2>1. c = b
    BY <1>1, <1>3 DEF Attached, EndsWithReply
  <2>2. QED BY <1>3, <2>1 DEF c, mark
<1>4. CASE EndsWithReply(b)
  <2>1. c = [b EXCEPT !.messages[i] = with, !.copy[i] = with, !.pending = {}]
    BY <1>4 DEF Attached, EndsWithReply
  <2>2. /\ i \in 1..n /\ i = n /\ b.copy[i].role = "assistant"
        /\ b.messages[i].role = "assistant"
    BY <1>1, <1>4 DEF EndsWithReply, CopyInStep
  <2>3. b.copy[i] \in Message /\ b.messages[i] \in Message /\ b.pending = {}
    BY <2>2, <1>1, ElementOfSeq, MarkedIsReply
  <2>4. i \in 1..MaxMessages /\ b.durable[i] \subseteq b.messages[i].marks
    BY <2>2, <1>1, GoalAssumption DEF BookOK
  <2>5. /\ b.copy[i].marks \subseteq b.messages[i].marks
        /\ b.messages[i].marks \subseteq b.copy[i].marks \cup b.durable[i]
    BY <2>2 DEF CopyInStep
  <2>6. /\ with.role = "assistant" /\ with \in Message
        /\ with.marks = b.copy[i].marks \cup {mark} \cup b.durable[i]
    BY <1>2, <2>2, <2>3, <2>4, <2>5 DEF Prepared, Message
  <2>7. with.marks = b.messages[i].marks \cup {mark}
    BY <2>4, <2>5, <2>6
  <2> HIDE DEF with
  <2>8. /\ c.messages = [b.messages EXCEPT ![i] = with] /\ c.durable = b.durable
        /\ c.copy = [b.copy EXCEPT ![i] = with] /\ c.pending = {}
        /\ DOMAIN c = DOMAIN b
    BY <2>1 DEF BookOK
  <2> HIDE DEF c
  <2>9. /\ c.messages \in Seq(Message) /\ Len(c.messages) = n
        /\ c.messages[i] = with
        /\ \A j \in (1..n) \ {i} : c.messages[j] = b.messages[j]
    BY <2>2, <2>6, <2>8, <1>1, ExceptSeq
  <2>10. /\ c.copy \in Seq(Message) /\ Len(c.copy) = n
         /\ c.copy[i] = with
         /\ \A j \in (1..n) \ {i} : c.copy[j] = b.copy[j]
    BY <2>2, <2>6, <2>8, <1>1, ExceptSeq
  <2>11. Told(b, c, mark)
    <3>1. \A j \in 1..n : j > i => b.messages[j].role # "assistant"
      BY <2>2, <1>1
    <3>2. c.durable[i] \subseteq c.messages[i].marks
      BY <2>4, <2>7, <2>8, <2>9
    <3>3. /\ c.messages[i].role = "assistant"
          /\ c.messages[i].marks = b.messages[i].marks \cup {Mark(b, kind, intent)}
      BY <2>6, <2>7, <2>9 DEF mark
    <3>4. /\ c.durable \in [1..MaxMessages -> SUBSET MarkType]
          /\ \A j \in (1..MaxMessages) \ {i} : c.durable[j] = b.durable[j]
      BY <2>8 DEF BookOK
    <3> HIDE DEF i
    <3>5. Told(b, c, Mark(b, kind, intent))
      BY <2>2, <2>8, <2>9, <2>10, <3>1, <3>2, <3>3, <3>4, JoinedIsTold
    <3>6. QED BY <3>5 DEF mark
  <2>12. CopyInStep(c)
    <3>1. SUFFICES ASSUME NEW j \in 1..n
                   PROVE  /\ c.copy[j].role = c.messages[j].role
                          /\ c.copy[j].marks \subseteq c.messages[j].marks
                          /\ c.messages[j].marks \subseteq c.copy[j].marks \cup c.durable[j]
      BY <2>9, <2>10 DEF CopyInStep
    <3>2. CASE j = i
      BY <3>2, <2>9, <2>10
    <3>3. CASE j # i
      BY <3>1, <3>3, <2>8, <2>9, <2>10 DEF CopyInStep
    <3>4. QED BY <3>2, <3>3
  <2>13. EndsWithReply(c)
    BY <2>2, <2>6, <2>10, <1>1 DEF EndsWithReply
  <2>14. QED BY <1>4, <2>9, <2>11, <2>12, <2>13 DEF c, mark
<1>5. QED BY <1>3, <1>4

\* A message is its role and its markers.
LEMMA SameMessage ==
    ASSUME NEW m \in Message, NEW o \in Message,
           m.role = o.role, m.marks = o.marks
    PROVE  m = o
<1>1. m = [role |-> m.role, marks |-> m.marks] /\ o = [role |-> o.role, marks |-> o.marks]
  BY DEF Message
<1>2. QED BY <1>1

\* The rewrite at the end of a run loses nothing and changes nothing.
LEMMA RewrittenCarries ==
    ASSUME NEW b, BookOK(b), CopyInStep(b)
    PROVE  /\ Carried(b, Rewritten(b))
           /\ Rewritten(b).pending = b.pending
<1> DEFINE c == Rewritten(b)
           n == Len(b.messages)
<1>1. /\ n \in Nat /\ b.messages \in Seq(Message) /\ b.copy \in Seq(Message)
      /\ Len(b.copy) = n /\ DOMAIN b.copy = 1..n /\ DOMAIN b.messages = 1..n
  BY DEF BookOK, CopyInStep
<1>2. /\ c.messages = [i \in DOMAIN b.copy |->
             IF b.copy[i].role # "assistant" THEN b.copy[i]
             ELSE [b.copy[i] EXCEPT !.marks = @ \cup b.messages[i].marks]]
      /\ c.copy = <<>> /\ c.pending = b.pending /\ c.durable = b.durable
      /\ DOMAIN c = DOMAIN b
  BY DEF Rewritten, BookOK
<1> HIDE DEF c
<1>3. ASSUME NEW i \in 1..n PROVE c.messages[i] = b.messages[i]
  <2>1. b.messages[i] \in Message /\ b.copy[i] \in Message
    BY <1>1, ElementOfSeq
  <2>2. b.copy[i].role = b.messages[i].role /\ b.copy[i].marks \subseteq b.messages[i].marks
    BY DEF CopyInStep
  <2>3. CASE b.copy[i].role # "assistant"
    <3>1. b.messages[i].marks = {} /\ b.copy[i].marks = {}
      BY <2>2, <2>3 DEF BookOK
    <3>2. b.copy[i] = b.messages[i]
      BY <2>1, <2>2, <3>1, SameMessage
    <3>3. QED BY <2>3, <3>2, <1>1, <1>2
  <2>4. CASE b.copy[i].role = "assistant"
    <3>1. c.messages[i] = [b.copy[i] EXCEPT !.marks = @ \cup b.messages[i].marks]
      BY <2>4, <1>1, <1>2
    <3>2. b.copy[i].marks \cup b.messages[i].marks = b.messages[i].marks
      BY <2>2
    <3>3. /\ c.messages[i].role = b.messages[i].role
          /\ c.messages[i].marks = b.messages[i].marks
          /\ c.messages[i] \in Message
      BY <2>1, <2>2, <3>1, <3>2 DEF Message
    <3>4. QED BY <2>1, <3>3, SameMessage
  <2>5. QED BY <2>3, <2>4
<1>4. c.messages = b.messages
  <2>1. c.messages = [i \in 1..n |-> c.messages[i]]
    BY <1>1, <1>2
  <2>2. b.messages = [i \in 1..n |-> b.messages[i]]
    BY <1>1
  <2>3. QED BY <2>1, <2>2, <1>3
<1>5. Marks(c) = Marks(b)
  <2>1. c.messages \in Seq(Message)
    BY <1>1, <1>4
  <2>2. ASSUME NEW m PROVE m \in Marks(c) <=> m \in Marks(b)
    BY <2>1, <1>1, <1>2, <1>4, MarksAre
  <2>3. QED BY <2>2
<1>6. BookOK(c)
  <2>1. c.copy \in Seq(Message)
    BY <1>2
  <2>2. QED BY <1>2, <1>4, <1>5, <2>1 DEF BookOK
<1>7. \A top : IsTop(b, top) => IsTop(c, top)
  BY <1>2, <1>4, <1>5 DEF IsTop
<1>8. QED BY <1>2, <1>5, <1>6, <1>7 DEF Carried, c

\* restorableGoalCondition finds the newest marker ...
LEMMA RestorableFindsNewest ==
    ASSUME NEW ms \in Seq(Message), NEW i \in 1..Len(ms), NEW top \in ms[i].marks,
           ms[i].role = "assistant",
           \A j \in 1..Len(ms) : j > i => ms[j].marks = {},
           \A m \in ms[i].marks \ {top} : m.at < top.at
    PROVE  Restorable(ms) = Intent(top)
<1> DEFINE n == Len(ms)
           marked == {j \in DOMAIN ms : ms[j].role = "assistant" /\ ms[j].marks # {}}
           last == CHOOSE m \in ms[Max(marked)].marks :
                       \A o \in ms[Max(marked)].marks : o.at <= m.at
<1>1. n \in Nat /\ DOMAIN ms = 1..n /\ marked \subseteq 1..n /\ i \in marked
  OBVIOUS
<1>2. Max(marked) = i
  <2>1. Max(marked) \in marked /\ \A j \in marked : j <= Max(marked)
    BY <1>1, MaxIsLargest
  <2> DEFINE k == Max(marked)
  <2>2. k \in 1..n /\ ms[k].marks # {} /\ i <= k
    BY <1>1, <2>1
  <2> HIDE DEF k
  <2>3. ~(k > i)
    BY <2>2
  <2>4. k = i
    BY <1>1, <2>2, <2>3
  <2>5. QED BY <2>4 DEF k
<1>3. \A m \in ms[i].marks : m \in MarkType
  <2>1. ms[i] \in Message
    BY ElementOfSeq
  <2>2. QED BY <2>1 DEF Message
<1>4. \A m \in ms[i].marks : m.at \in Nat
  BY <1>3 DEF MarkType
<1>5. \A m \in ms[i].marks : m.at <= top.at
  BY <1>4
<1>6. ASSUME NEW m \in ms[i].marks, \A o \in ms[i].marks : o.at <= m.at
      PROVE  m = top
  <2>1. top.at <= m.at /\ top.at \in Nat /\ m.at \in Nat
    BY <1>4, <1>6
  <2>2. QED BY <2>1
<1>7. last = top
  <2>1. last = CHOOSE m \in ms[i].marks : \A o \in ms[i].marks : o.at <= m.at
    BY <1>2
  <2>2. /\ last \in ms[i].marks
        /\ \A o \in ms[i].marks : o.at <= last.at
    BY <1>5, <2>1
  <2> HIDE DEF last
  <2>3. QED BY <1>6, <2>2
<1>8. Restorable(ms) = IF marked = {} \/ last.kind \in {"met", "cleared"}
                         THEN 0 ELSE last.of
  BY DEF Restorable
<1> HIDE DEF marked, last
<1>9. QED BY <1>1, <1>7, <1>8 DEF Intent

\* ... and where there is none, no goal.
LEMMA RestorableFindsNothing ==
    ASSUME NEW ms \in Seq(Message), \A i \in 1..Len(ms) : ms[i].marks = {}
    PROVE  Restorable(ms) = 0
<1> DEFINE marked == {j \in DOMAIN ms : ms[j].role = "assistant" /\ ms[j].marks # {}}
<1>1. marked = {}
  OBVIOUS
<1>2. QED BY <1>1 DEF Restorable

\* A process that starts again finds what the transcript says, nothing waiting
\* that was not written to it.
LEMMA RestorableIsTold ==
    ASSUME NEW b, BookOK(b), b.pending = {},
           Marks(b) # {} => \E top \in Marks(b) : IsTop(b, top)
    PROVE  Says(b, Restorable(b.messages))
<1>1. b.messages \in Seq(Message)
  BY DEF BookOK
<1>2. CASE Marks(b) = {}
  <2>1. \A i \in 1..Len(b.messages) : b.messages[i].marks = {}
    BY <1>1, <1>2, MarksAre
  <2>2. QED BY <1>1, <1>2, <2>1, RestorableFindsNothing DEF Says
<1>3. CASE Marks(b) # {}
  <2>1. PICK top \in Marks(b) : IsTop(b, top)
    BY <1>3
  <2>2. PICK i \in 1..Len(b.messages) :
              /\ top \in b.messages[i].marks
              /\ \A j \in 1..Len(b.messages) : j > i => b.messages[j].marks = {}
    BY <2>1 DEF IsTop
  <2>3. b.messages[i].role = "assistant"
    BY <2>2, MarkedIsReply
  <2>4. \A m \in b.messages[i].marks : m \in Marks(b)
    BY <1>1, MarksAre
  <2>5. \A m \in b.messages[i].marks \ {top} : m.at < top.at
    BY <2>1, <2>4 DEF IsTop
  <2>6. Restorable(b.messages) = Intent(top)
    BY <1>1, <2>2, <2>3, <2>5, RestorableFindsNewest
  <2>7. QED BY <2>1, <2>6 DEF Says
<1>4. QED BY <1>2, <1>3

\* What is told is restored, when nothing waits for an assistant message.
LEMMA ToldIsRestored ==
    ASSUME NEW b, BookOK(b), b.pending = {}, NEW v, Says(b, v)
    PROVE  Restorable(b.messages) = v
<1>1. b.messages \in Seq(Message)
  BY DEF BookOK
<1>2. CASE Marks(b) = {}
  <2>1. \A i \in 1..Len(b.messages) : b.messages[i].marks = {}
    BY <1>1, <1>2, MarksAre
  <2>2. v = 0
    BY <1>2 DEF Says
  <2>3. QED BY <1>1, <2>1, <2>2, RestorableFindsNothing
<1>3. CASE Marks(b) # {}
  <2>1. PICK top \in Marks(b) : IsTop(b, top) /\ v = Intent(top)
    BY <1>3 DEF Says
  <2>2. PICK i \in 1..Len(b.messages) :
            /\ top \in b.messages[i].marks
            /\ \A j \in 1..Len(b.messages) : j > i => b.messages[j].marks = {}
    BY <2>1 DEF IsTop
  <2>3. b.messages[i].role = "assistant"
    BY <2>2, MarkedIsReply
  <2>4. \A m \in b.messages[i].marks : m \in Marks(b)
    BY <1>1, MarksAre
  <2>5. \A m \in b.messages[i].marks \ {top} : m.at < top.at
    BY <2>1, <2>4 DEF IsTop
  <2>6. QED BY <1>1, <2>1, <2>2, <2>3, <2>5, RestorableFindsNewest
<1>4. QED BY <1>2, <1>3

\* What the helpers that neither set nor end a goal leave of it.
IntentKept(r, s) ==
    /\ WellFormed(s)
    /\ s.goal.of = r.goal.of
    /\ r.next <= s.next
    /\ s.initialized = r.initialized

LEMMA IntentKeptComposes ==
    ASSUME NEW r, NEW s, NEW t, WellFormed(r), IntentKept(r, s), IntentKept(s, t)
    PROVE  IntentKept(r, t)
BY DEF IntentKept, WellFormed

\* pauseGoal, releaseGoalRun, armCheckin, bindGoalRun and the end of a turn
\* leave the intent alone ...
LEMMA IntentSurvives ==
    ASSUME NEW r, WellFormed(r)
    PROVE  /\ IntentKept(r, r) /\ IntentKept(r, Paused(r)) /\ IntentKept(r, Released(r))
           /\ IntentKept(r, Armed(r)) /\ IntentKept(r, Bound(r))
           /\ IntentKept(r, Judging(r))
<1>1. IntentKept(r, r)
  BY DEF IntentKept, WellFormed
<1>2. IntentKept(r, Paused(r))
  <2>1. WellFormed(Paused(r)) /\ r.next <= Paused(r).next
    BY PausedKeeps DEF Keeps
  <2>2. Paused(r).goal.of = r.goal.of /\ Paused(r).initialized = r.initialized
    BY DEF Paused, WellFormed
  <2>3. QED BY <2>1, <2>2 DEF IntentKept
<1>3. IntentKept(r, Released(r))
  <2>1. WellFormed(Released(r)) /\ r.next <= Released(r).next
    BY ReleasedKeeps DEF Keeps
  <2>2. Released(r).goal.of = r.goal.of /\ Released(r).initialized = r.initialized
    BY DEF Released, WellFormed
  <2>3. QED BY <2>1, <2>2 DEF IntentKept
<1>4. IntentKept(r, Armed(r))
  <2>1. WellFormed(Armed(r)) /\ r.next <= Armed(r).next
    BY ReleasedKeeps DEF Keeps
  <2>2. Armed(r).goal.of = r.goal.of /\ Armed(r).initialized = r.initialized
    BY DEF Armed, WellFormed
  <2>3. QED BY <2>1, <2>2 DEF IntentKept
<1>5. IntentKept(r, Bound(r))
  <2>1. WellFormed(Bound(r)) /\ r.next <= Bound(r).next
    BY BoundKeeps DEF Keeps
  <2>2. Bound(r).goal.of = r.goal.of /\ Bound(r).initialized = r.initialized
    BY DEF Bound, WellFormed
  <2>3. QED BY <2>1, <2>2 DEF IntentKept
<1>6. IntentKept(r, Judging(r))
  <2>1. WellFormed(Judging(r)) /\ r.next <= Judging(r).next
    BY JudgingKeeps DEF Keeps
  <2>2. Judging(r).goal.of = r.goal.of /\ Judging(r).initialized = r.initialized
    BY DEF Judging, Armed, WellFormed
  <2>3. QED BY <2>1, <2>2 DEF IntentKept
<1>7. QED BY <1>1, <1>2, <1>3, <1>4, <1>5, <1>6

\* ... clearActiveGoal leaves none, and setActiveGoal leaves the one it was given.
LEMMA IntentChanges ==
    ASSUME NEW r, NEW intent, WellFormed(r)
    PROVE  /\ Cleared(r).goal.of = 0
           /\ Activated(r, intent).goal.of = intent
           /\ Bound(Activated(r, intent)).goal.of = intent
           /\ Bound(Activated(r, intent)).initialized = TRUE
<1>1. Cleared(r).goal = NoGoal
  BY DEF Cleared, WellFormed, HasGoal
<1>2. Cleared(r).goal.of = 0
  BY <1>1 DEF NoGoal
<1> DEFINE s == Activated(r, intent)
<1>3. WellFormed(s) /\ s.initialized = TRUE
  BY ActivatedIsFresh
<1>4. WellFormed(Cleared(r))
  BY ClearedKeeps DEF Keeps
<1>5. s.goal.of = intent
  BY <1>4 DEF Activated, WellFormed, NoGoal
<1>6. Bound(s).goal.of = s.goal.of /\ Bound(s).initialized = s.initialized
  BY <1>3, IntentSurvives DEF IntentKept
<1>7. QED BY <1>2, <1>3, <1>5, <1>6

\* Relations between books compose.
LEMMA CarriedComposes ==
    ASSUME NEW b, NEW c, NEW d, Carried(c, d)
    PROVE  /\ Carried(b, c) => Carried(b, d)
           /\ \A m : Told(b, c, m) => Told(b, d, m)
BY DEF Carried, Told

\* A step that carries the markers along and keeps the goal's intent.
LEMMA CarriedTold ==
    ASSUME GoalTold, Carried(book, book'), book'.pending \subseteq book.pending,
           OddReplies \/ (rt'.goal.of = rt.goal.of /\ rt'.initialized = rt.initialized),
           rt.initialized => rt'.initialized,
           WellFormed(rt), WellFormed(rt'), rt.next <= rt'.next,
           rt'.goal.of \in Nat, rt'.goal.of < rt'.next
    PROVE  GoalTold'
<1>1. BookOK(book') /\ Marks(book') = Marks(book)
  BY DEF Carried
<1>2. Marks(book') # {} => \E top \in Marks(book') : IsTop(book', top)
  BY DEF GoalTold, Carried
<1>3. ~OddReplies /\ rt'.initialized => Says(book', rt'.goal.of)
  BY DEF GoalTold, Carried, Says
<1>4. ~rt'.initialized => book'.pending = {}
  BY DEF GoalTold
<1>5. \A m \in Marks(book') : m.of < rt'.next
  <2>1. SUFFICES ASSUME NEW m \in Marks(book) PROVE m.of < rt'.next
    BY <1>1
  <2>2. m \in MarkType
    BY MarksAreTyped DEF GoalTold
  <2>3. QED BY <2>2 DEF GoalTold, MarkType, WellFormed
<1>6. QED BY <1>1, <1>2, <1>3, <1>4, <1>5 DEF GoalTold

\* A step that records a marker of what it does to the goal.
LEMMA FreshTold ==
    ASSUME GoalTold, NEW kind \in Kinds, NEW intent \in Nat,
           Told(book, book', Mark(book, kind, intent)),
           rt'.goal.of = IF kind = "open" THEN intent ELSE 0,
           rt'.initialized, WellFormed(rt), rt.next <= rt'.next,
           intent < rt'.next, rt'.next \in Nat
    PROVE  GoalTold'
<1> DEFINE mark == Mark(book, kind, intent)
<1>1. mark \in MarkType /\ mark.kind = kind /\ mark.of = intent
  <2>1. BookOK(book)
    BY DEF GoalTold
  <2>2. mark \in MarkType
    BY <2>1, NewMarkIsNewest
  <2>3. mark.kind = kind
    BY DEF Mark
  <2>4. mark.of = intent
    BY DEF Mark
  <2>5. QED BY <2>2, <2>3, <2>4
<1>2. /\ BookOK(book') /\ Marks(book') = Marks(book) \cup {mark}
      /\ IsTop(book', mark)
  BY DEF Told
<1> HIDE DEF mark
<1>3. Says(book', rt'.goal.of)
  BY <1>1, <1>2 DEF Says, Intent, Kinds
<1>4. \A m \in Marks(book') : m.of < rt'.next
  <2>1. SUFFICES ASSUME NEW m \in Marks(book) PROVE m.of < rt'.next
    BY <1>1, <1>2
  <2>2. m \in MarkType
    BY MarksAreTyped DEF GoalTold
  <2>3. QED BY <2>2 DEF GoalTold, MarkType, WellFormed
<1>5. Marks(book') # {} => \E top \in Marks(book') : IsTop(book', top)
  BY <1>2
<1>6. rt'.goal.of \in Nat /\ rt'.goal.of < rt'.next
  BY DEF WellFormed
<1>7. QED BY <1>2, <1>3, <1>4, <1>5, <1>6 DEF GoalTold

\* restoreGoal: a process that has not looked yet takes over what is told.
LEMMA RestoredTold ==
    ASSUME GoalTold, Carried(book, book'), book'.pending \subseteq book.pending,
           WellFormed(rt), rt' = Restored(rt, book.messages)
    PROVE  /\ GoalTold'
           /\ rt.next <= rt'.next
<1>1. CASE rt.initialized
  <2>1. rt' = rt
    BY <1>1 DEF Restored
  <2>2. WellFormed(rt')
    BY <2>1
  <2>3. rt'.goal.of \in Nat /\ rt'.goal.of < rt'.next /\ rt.next <= rt'.next
    BY <2>1 DEF GoalTold, WellFormed
  <2>4. QED BY <2>1, <2>2, <2>3, CarriedTold
<1>2. CASE ~rt.initialized
  <2> DEFINE v == Restorable(book.messages)
  <2>1. Says(book, v) /\ book'.pending = {}
    BY <1>2, RestorableIsTold DEF GoalTold
  <2>2. v \in Nat /\ v < rt.next
    <3>1. CASE v = 0
      BY <3>1 DEF WellFormed
    <3>2. CASE \E top \in Marks(book) : v = Intent(top)
      <4>1. PICK top \in Marks(book) : v = Intent(top)
        BY <3>2
      <4>2. top \in MarkType /\ top.of < rt.next
        BY MarksAreTyped DEF GoalTold
      <4>3. QED BY <4>1, <4>2 DEF Intent, MarkType, WellFormed
    <3>3. QED BY <2>1, <3>1, <3>2 DEF Says
  <2> HIDE DEF v
  <2>3. rt'.goal.of = v /\ rt.next <= rt'.next /\ rt'.next \in Nat
    <3>1. CASE v = 0
      <4>1. rt' = [rt EXCEPT !.initialized = TRUE]
        BY <1>2, <3>1 DEF Restored, v
      <4>2. rt'.goal = rt.goal /\ rt'.next = rt.next
        BY <4>1 DEF WellFormed
      <4>3. rt.goal = NoGoal
        BY <1>2 DEF WellFormed, HasGoal
      <4>4. QED BY <3>1, <4>2, <4>3 DEF WellFormed, NoGoal
    <3>2. CASE v # 0
      <4>1. rt' = Activated(rt, v)
        BY <1>2, <3>2 DEF Restored, v
      <4>2. rt'.goal.of = v /\ rt'.next = rt.next + 1
        <5>1. Activated(rt, v).goal.of = v
          BY IntentChanges
        <5>2. Activated(rt, v).next = rt.next + 1
          BY ActivatedIsFresh
        <5>3. QED BY <4>1, <5>1, <5>2
      <4>3. QED BY <4>2 DEF WellFormed
    <3>3. QED BY <3>1, <3>2
  <2>4. Says(book', rt'.goal.of)
    BY <2>1, <2>3 DEF Says, Carried
  <2>5. Marks(book') # {} => \E top \in Marks(book') : IsTop(book', top)
    BY DEF GoalTold, Carried
  <2>6. \A m \in Marks(book') : m.of < rt'.next
    <3>1. SUFFICES ASSUME NEW m \in Marks(book) PROVE m.of < rt'.next
      BY DEF Carried
    <3>2. m \in MarkType /\ m.of < rt.next
      BY MarksAreTyped DEF GoalTold
    <3>3. QED BY <2>3, <3>2 DEF MarkType, WellFormed
  <2>7. rt'.goal.of \in Nat /\ rt'.goal.of < rt'.next
    BY <2>2, <2>3 DEF WellFormed
  <2>8. QED BY <2>1, <2>3, <2>4, <2>5, <2>6, <2>7 DEF GoalTold, Carried
<1>3. QED BY <1>1, <1>2

\* A book that is left alone.
LEMMA UntouchedCarries ==
    ASSUME NEW b, BookOK(b)
    PROVE  /\ Carried(b, b)
           /\ Carried(b, [b EXCEPT !.copy = <<>>])
           /\ Carried(b, [b EXCEPT !.copy = b.messages])
           /\ CopyInStep([b EXCEPT !.copy = b.messages])
<1>1. Carried(b, b)
  BY DEF Carried
<1>2. ASSUME NEW ms \in Seq(Message)
      PROVE  Carried(b, [b EXCEPT !.copy = ms])
  <2> DEFINE c == [b EXCEPT !.copy = ms]
  <2>1. /\ c.messages = b.messages /\ c.copy = ms /\ c.pending = b.pending
        /\ c.durable = b.durable /\ DOMAIN c = DOMAIN b
    BY DEF BookOK
  <2> HIDE DEF c
  <2>2. b.messages \in Seq(Message)
    BY DEF BookOK
  <2>3. Marks(c) = Marks(b)
    <3>1. ASSUME NEW m PROVE m \in Marks(c) <=> m \in Marks(b)
      BY <2>1, <2>2, MarksAre
    <3>2. QED BY <3>1
  <2>4. BookOK(c)
    BY <2>1, <2>3 DEF BookOK
  <2>5. \A top : IsTop(b, top) => IsTop(c, top)
    BY <2>1, <2>3 DEF IsTop
  <2>6. QED BY <2>3, <2>4, <2>5 DEF Carried, c
<1>3. b.messages \in Seq(Message) /\ <<>> \in Seq(Message)
  BY DEF BookOK
<1>4. CopyInStep([b EXCEPT !.copy = b.messages])
  <2> DEFINE c == [b EXCEPT !.copy = b.messages]
  <2>1. c.messages = b.messages /\ c.copy = b.messages
    BY DEF BookOK
  <2> HIDE DEF c
  <2>2. CopyInStep(c)
    BY <2>1 DEF CopyInStep
  <2>3. QED BY <2>2 DEF c
<1>5. QED BY <1>1, <1>2, <1>3, <1>4

\* injectInterjections adds a message at most.
LEMMA InjectedCarries ==
    ASSUME NEW b, BookOK(b),
           Wanted(run.mail) # {} => Len(b.messages) < MaxMessages
    PROVE  /\ Carried(b, Injected(b))
           /\ CopyInStep(b) => CopyInStep(Injected(b))
           /\ Injected(b).pending \subseteq b.pending
<1>1. CASE Wanted(run.mail) = {}
  BY <1>1, UntouchedCarries DEF Injected
<1>2. CASE Wanted(run.mail) # {}
  <2>1. Injected(b) = Committed(b, "user") /\ "user" \in Roles
    BY <1>2 DEF Injected, Roles
  <2>2. QED BY <1>2, <2>1, CommittedCarries
<1>3. QED BY <1>1, <1>2

\* A reply, and the results of the calls in it.
LEMMA ReplyCarries ==
    ASSUME NEW b, BookOK(b), CopyInStep(b), Len(b.messages) < MaxMessages
    PROVE  /\ Carried(b, Committed(b, "assistant"))
           /\ CopyInStep(Committed(b, "assistant"))
           /\ EndsWithReply(Committed(b, "assistant"))
           /\ Committed(b, "assistant").pending \subseteq b.pending
           /\ Len(Committed(b, "assistant").messages) = Len(b.messages) + 1
           /\ Len(b.messages) + 2 <= MaxMessages =>
                 LET c == Committed(Committed(b, "assistant"), "tool") IN
                 /\ Carried(b, c) /\ CopyInStep(c)
                 /\ c.pending \subseteq b.pending
                 /\ Len(c.messages) = Len(b.messages) + 2
<1> DEFINE c == Committed(b, "assistant")
           d == Committed(c, "tool")
<1>1. "assistant" \in Roles /\ "tool" \in Roles
  BY DEF Roles
<1>2. /\ Carried(b, c) /\ CopyInStep(c) /\ EndsWithReply(c)
      /\ c.pending \subseteq b.pending /\ Len(c.messages) = Len(b.messages) + 1
  BY <1>1, CommittedCarries
<1>3. BookOK(c) /\ Len(b.messages) \in Nat
  BY <1>2 DEF Carried, BookOK
<1> HIDE DEF c
<1>4. ASSUME Len(b.messages) + 2 <= MaxMessages
      PROVE  /\ Carried(b, d) /\ CopyInStep(d)
             /\ d.pending \subseteq b.pending
             /\ Len(d.messages) = Len(b.messages) + 2
  <2>1. Len(c.messages) < MaxMessages
    BY <1>2, <1>3, <1>4, GoalAssumption
  <2>2. /\ Carried(c, d) /\ CopyInStep(d) /\ d.pending \subseteq c.pending
        /\ Len(d.messages) = Len(c.messages) + 1
    BY <1>1, <1>2, <1>3, <2>1, CommittedCarries
  <2> HIDE DEF d
  <2>3. QED BY <1>2, <1>3, <2>2, CarriedComposes
<1>5. QED BY <1>2, <1>4 DEF c, d

\* handle.finish leaves the run's own list behind.
LEMMA FinishTold ==
    ASSUME GoalInv, NEW r, NEW b, NEW status, WellFormed(r), Finish(r, b, status),
           BookOK(b), CopyInStep(b)
    PROVE  /\ RunInStep'
           /\ IntentKept(r, rt')
           /\ Carried(b, book') /\ book'.pending = b.pending
<1>1. run'.phase = "settling"
  BY DEF Finish, GoalInv
<1>2. RunInStep'
  BY <1>1 DEF RunInStep, Phases
<1>3. PICK s \in {r, Paused(r)} : rt' = Released(s)
  BY DEF Finish
<1>4. IntentKept(r, s) /\ WellFormed(s)
  BY <1>3, IntentSurvives DEF IntentKept
<1>5. IntentKept(s, Released(s))
  BY <1>4, IntentSurvives
<1>6. IntentKept(r, rt')
  BY <1>3, <1>4, <1>5, IntentKeptComposes
<1>7. Carried(b, book') /\ book'.pending = b.pending
  BY RewrittenCarries DEF Finish
<1>8. QED BY <1>2, <1>6, <1>7

\* Internal input starts a run or leaves the phase of the current one.
LEMMA DeliveredPhase ==
    ASSUME GoalInv, NEW id, Delivered(id)
    PROVE  \/ run'.phase = "starting"
           \/ run'.phase = run.phase /\ run'.before = run.before
<1>1. CASE run' = run
  BY <1>1
<1>2. CASE run' = [run EXCEPT !.mail = @ \cup {id}]
  BY <1>2 DEF GoalInv
<1>3. CASE run' = NewRun(FALSE)
  BY <1>3 DEF NewRun
<1>4. QED BY <1>1, <1>2, <1>3 DEF Delivered

\* A run whose phase does not change stays in step with the transcript; a goal
\* that is set or paused meanwhile gets an identity that is not the evaluated one.
LEMMA PhaseKeepsStep ==
    ASSUME RunInStep, GoalInv, run'.phase = run.phase, run'.before = run.before,
           CopyInStep(book) => CopyInStep(book'),
           EndsWithReply(book) => EndsWithReply(book'),
           rt.next <= rt'.next, rt'.next \in Nat,
           HasGoal(rt') => \/ rt'.goal.id = rt.next
                           \/ /\ rt'.goal.id = rt.goal.id /\ HasGoal(rt)
                              /\ touched' = touched
    PROVE  RunInStep'
<1>1. run'.phase \in Phases
  BY DEF RunInStep
<1>2. run'.phase \in {"prepared", "working", "judging"} => CopyInStep(book')
  BY DEF RunInStep
<1>3. ASSUME run'.phase = "judging"
      PROVE  /\ OddReplies \/ EndsWithReply(book')
             /\ run'.before \in Nat /\ run'.before < rt'.next
             /\ touched' /\ HasGoal(rt') => rt'.goal.id # run'.before
  <2>1. /\ OddReplies \/ EndsWithReply(book)
        /\ run.before \in Nat
        /\ run.before < rt.next
        /\ touched /\ HasGoal(rt) => rt.goal.id # run.before
    BY <1>3 DEF RunInStep
  <2>2. run'.before < rt'.next
    BY <2>1 DEF GoalInv, WellFormed
  <2>3. ASSUME touched', HasGoal(rt') PROVE rt'.goal.id # run'.before
    <3>1. CASE rt'.goal.id = rt.next
      BY <3>1, <2>1 DEF GoalInv, WellFormed
    <3>2. CASE rt'.goal.id = rt.goal.id /\ HasGoal(rt) /\ touched' = touched
      <4>1. touched
        BY <2>3, <3>2, Zenon
      <4>2. rt.goal.id # run.before
        BY <4>1, <3>2, <2>1
      <4>3. QED BY <3>2, <4>2
    <3>3. QED BY <2>3, <3>1, <3>2
  <2>4. QED BY <2>1, <2>2, <2>3
<1>4. QED BY <1>1, <1>2, <1>3 DEF RunInStep

\* What VerdictsAreCurrent says of a step.
VerdictsCurrent ==
    \A m \in Marks(book') \ Marks(book) :
        m.kind = "met" \/ (m.kind = "open" /\ m.of = rt.goal.of)
          => ~touched /\ ~run.aborted

\* The step of a handler that neither sets nor ends the goal.
LEMMA IntentTold ==
    ASSUME GoalTold, GoalInv, GoalInv', IntentKept(rt, rt'),
           Carried(book, book'), book'.pending \subseteq book.pending
    PROVE  GoalTold'
<1>1. WellFormed(rt) /\ WellFormed(rt') /\ rt.next <= rt'.next
  BY DEF GoalInv, IntentKept
<1>2. rt'.goal.of = rt.goal.of /\ rt'.initialized = rt.initialized
  BY DEF IntentKept
<1>3. rt'.goal.of \in Nat /\ rt'.goal.of < rt'.next
  BY <1>1, <1>2 DEF GoalTold, WellFormed
<1>4. QED BY <1>1, <1>2, <1>3, CarriedTold

\* Setting a goal records it (recordStatus), whatever the run is doing.
LEMMA ActivatedTold ==
    ASSUME TranscriptInv, GoalInv, RecordsOpen,
           rt' = Activated(rt, rt.next) \/ rt' = Bound(Activated(rt, rt.next))
    PROVE  /\ GoalTold'
           /\ run'.phase = run.phase /\ run'.before = run.before => RunInStep'
           /\ run'.phase = "starting" => RunInStep'
           /\ VerdictsCurrent
<1>1. WellFormed(rt) /\ BookOK(book) /\ rt.next \in Nat
  BY DEF GoalInv, TranscriptInv, GoalTold, WellFormed
<1>2. /\ rt'.goal.of = rt.next /\ rt'.initialized /\ rt'.goal.id = rt.next
      /\ rt'.next = rt.next + 1
  <2>1. /\ Activated(rt, rt.next).goal.of = rt.next
        /\ Bound(Activated(rt, rt.next)).goal.of = rt.next
        /\ Bound(Activated(rt, rt.next)).initialized = TRUE
    BY <1>1, IntentChanges
  <2>2. /\ Activated(rt, rt.next).initialized = TRUE
        /\ Activated(rt, rt.next).goal.id = rt.next
        /\ Activated(rt, rt.next).next = rt.next + 1
    BY <1>1, ActivatedIsFresh
  <2>3. /\ Bound(Activated(rt, rt.next)).goal.id = rt.next
        /\ Bound(Activated(rt, rt.next)).next = rt.next + 1
    BY <1>1, BoundIsFresh
  <2>4. QED BY <2>1, <2>2, <2>3
<1> DEFINE mark == Mark(book, "open", rt.next)
<1>3. "open" \in Kinds
  BY DEF Kinds
<1>4. /\ Told(book, book', mark)
      /\ CopyInStep(book) => CopyInStep(book')
      /\ EndsWithReply(book) => EndsWithReply(book')
  <2>1. book' = Recorded(book, mark)
    BY DEF RecordsOpen
  <2>2. QED BY <1>1, <1>3, <2>1, RecordedIsTold
<1>5. GoalTold'
  <2>1. GoalTold /\ rt.next <= rt'.next /\ rt.next < rt'.next /\ rt'.next \in Nat
    BY <1>1, <1>2 DEF TranscriptInv
  <2>2. rt'.goal.of = IF "open" = "open" THEN rt.next ELSE 0
    BY <1>2
  <2> HIDE DEF mark
  <2>3. Told(book, book', Mark(book, "open", rt.next))
    BY <1>4 DEF mark
  <2>4. QED BY <1>1, <1>2, <1>3, <2>1, <2>2, <2>3, FreshTold
<1>6. run'.phase = run.phase /\ run'.before = run.before => RunInStep'
  <2>1. rt.next <= rt'.next /\ rt'.next \in Nat
    BY <1>1, <1>2
  <2>2. QED BY <1>2, <1>4, <2>1, PhaseKeepsStep DEF TranscriptInv
<1>7. run'.phase = "starting" => RunInStep'
  BY DEF RunInStep, Phases
<1>8. VerdictsCurrent
  <2>1. rt.goal.of \in Nat /\ rt.goal.of < rt.next
    BY DEF TranscriptInv, GoalTold
  <2>2. mark.of = rt.next /\ mark.kind = "open"
    BY DEF Mark
  <2>3. Marks(book') = Marks(book) \cup {mark}
    BY <1>4 DEF Told
  <2> HIDE DEF mark
  <2>4. QED BY <1>1, <2>1, <2>2, <2>3 DEF VerdictsCurrent
<1>9. QED BY <1>5, <1>6, <1>7, <1>8

\* A verdict joins the reply it judges.
LEMMA VerdictTold ==
    ASSUME TranscriptInv, GoalInv, run.phase = "judging",
           NEW kind \in Kinds, NEW b, b = Attached(book, Mark(book, kind, rt.goal.of))
    PROVE  /\ BookOK(b) /\ CopyInStep(b) /\ Len(b.messages) = Len(book.messages)
           /\ \/ OddReplies /\ b = book
              \/ Told(book, b, Mark(book, kind, rt.goal.of))
<1>1. BookOK(book) /\ CopyInStep(book) /\ rt.goal.of \in Nat
  BY DEF TranscriptInv, GoalTold, RunInStep
<1>2. OddReplies \/ EndsWithReply(book)
  BY DEF TranscriptInv, RunInStep
<1> DEFINE mark == Mark(book, kind, rt.goal.of)
<1>3. /\ CopyInStep(b)
      /\ ~EndsWithReply(book) => b = book
      /\ EndsWithReply(book) => Told(book, b, mark)
      /\ Len(b.messages) = Len(book.messages)
  BY <1>1, AttachedIsTold
<1> HIDE DEF mark
<1>4. CASE EndsWithReply(book)
  BY <1>3, <1>4 DEF Told, mark
<1>5. CASE ~EndsWithReply(book)
  BY <1>1, <1>2, <1>3, <1>5
<1>6. QED BY <1>4, <1>5

\* ... and what the handler writes after it keeps it there.
LEMMA VerdictKept ==
    ASSUME TranscriptInv, GoalInv, GoalInv', run.phase = "judging",
           NEW kind \in Kinds, NEW b, b = Attached(book, Mark(book, kind, rt.goal.of)),
           Carried(b, book'), book'.pending \subseteq b.pending, HasGoal(rt),
           rt'.goal.of = IF kind = "open" THEN rt.goal.of ELSE 0,
           rt.next <= rt'.next, rt'.initialized, Unchanged, ~run.aborted
    PROVE  GoalTold' /\ VerdictsCurrent
<1>1. /\ WellFormed(rt) /\ WellFormed(rt') /\ GoalTold
      /\ rt.goal.of \in Nat /\ rt.goal.of < rt.next /\ rt.initialized
  BY DEF GoalInv, TranscriptInv, GoalTold, WellFormed
<1>2. rt'.goal.of \in Nat /\ rt'.goal.of < rt'.next /\ rt'.next \in Nat
      /\ rt.goal.of < rt'.next
  BY <1>1 DEF WellFormed
<1>3. ASSUME OddReplies /\ b = book PROVE GoalTold'
  BY <1>1, <1>2, <1>3, CarriedTold
<1>4. ASSUME Told(book, b, Mark(book, kind, rt.goal.of)) PROVE GoalTold'
  <2>1. Told(book, book', Mark(book, kind, rt.goal.of))
    BY <1>4, CarriedComposes
  <2>2. QED BY <1>1, <1>2, <2>1, FreshTold
<1>5. ~touched
  BY DEF TranscriptInv, RunInStep, Unchanged
<1>6. VerdictsCurrent
  BY <1>5 DEF VerdictsCurrent
<1>7. QED BY <1>3, <1>4, <1>6, VerdictTold

\* A restart loses what had not reached a message; the rest decides.
LeftByRestart(b) ==
    [b EXCEPT !.copy = <<>>, !.pending = {}, !.durable = [i \in 1..MaxMessages |-> {}]]

LEMMA RestartedBook ==
    ASSUME NEW b, BookOK(b), Marks(b) # {} => \E top \in Marks(b) : IsTop(b, top),
           NEW c, c = LeftByRestart(b)
    PROVE  /\ BookOK(c) /\ c.pending = {} /\ Marks(c) \subseteq Marks(b)
           /\ Marks(c) # {} => \E top \in Marks(c) : IsTop(c, top)
<1>1. /\ c.messages = b.messages /\ c.copy = <<>> /\ c.pending = {}
      /\ c.durable = [i \in 1..MaxMessages |-> {}] /\ DOMAIN c = DOMAIN b
      /\ b.messages \in Seq(Message)
  BY DEF BookOK, LeftByRestart
<1>2. \A m : m \in Marks(c) <=> \E i \in 1..Len(b.messages) : m \in b.messages[i].marks
  BY <1>1, MarksAre
<1>3. \A m : m \in Marks(b) <=> m \in b.pending \/
                              \E i \in 1..Len(b.messages) : m \in b.messages[i].marks
  BY <1>1, MarksAre
<1>4. CASE b.pending # {}
  <2>1. \A i \in 1..Len(b.messages) : b.messages[i].marks = {}
    BY <1>4, MarkedIsReply
  <2>2. Marks(c) = {}
    BY <1>2, <2>1
  <2>3. IsFiniteSet(Marks(c)) /\ \A m \in Marks(c) : m.at <= Cardinality(Marks(c))
    BY <2>2, FS_EmptySet
  <2>4. <<>> \in Seq(Message)
    OBVIOUS
  <2>5. BookOK(c)
    BY <1>1, <2>1, <2>3, <2>4 DEF BookOK
  <2>6. QED BY <1>1, <2>2, <2>5
<1>5. CASE b.pending = {}
  <2>1. Marks(c) = Marks(b)
    BY <1>2, <1>3, <1>5
  <2>2. <<>> \in Seq(Message)
    OBVIOUS
  <2>3. BookOK(c)
    BY <1>1, <2>1, <2>2 DEF BookOK
  <2>4. \A top : IsTop(b, top) => IsTop(c, top)
    BY <1>1, <1>5, <2>1 DEF IsTop
  <2>5. QED BY <1>1, <2>1, <2>3, <2>4
<1>6. QED BY <1>4, <1>5

\* Every step keeps the transcript, the run's own list and the goal in step,
\* and records a verdict only for the goal that was evaluated.
LEMMA TranscriptStep ==
    GoalInv /\ TranscriptInv /\ [Next]_vars => TranscriptInv' /\ VerdictsCurrent
<1> SUFFICES ASSUME GoalInv, TranscriptInv, [Next]_vars
             PROVE  TranscriptInv' /\ VerdictsCurrent
  OBVIOUS
<1>a. GoalInv'
  BY GoalStep
<1>b. /\ WellFormed(rt) /\ WellFormed(rt') /\ BookOK(book) /\ GoalTold /\ RunInStep
      /\ rt.next \in Nat /\ rt'.next \in Nat
      /\ DOMAIN run = {"no", "phase", "user", "aborted", "mail", "before", "deferred"}
  BY <1>a DEF GoalInv, TranscriptInv, GoalTold, WellFormed
<1>c. /\ IntentKept(rt, rt) /\ Carried(book, book)
      /\ Len(book.messages) \in Nat /\ MaxMessages \in Nat
  <2>1. Len(book.messages) \in Nat
    BY <1>b DEF BookOK
  <2>2. MaxMessages \in Nat
    BY GoalAssumption
  <2>3. QED BY <2>1, <2>2, <1>b, IntentSurvives, UntouchedCarries
<1>d. ASSUME IntentKept(rt, rt'), Carried(book, book'),
             book'.pending \subseteq book.pending
      PROVE  GoalTold' /\ VerdictsCurrent
  <2>1. Marks(book') = Marks(book)
    BY <1>d DEF Carried
  <2>2. VerdictsCurrent
    BY <2>1 DEF VerdictsCurrent
  <2>3. QED BY <2>2, <1>a, <1>b, <1>d, IntentTold
<1>e. ASSUME IntentKept(rt, rt'), book' = book
      PROVE  GoalTold' /\ VerdictsCurrent
  BY <1>c, <1>d, <1>e
<1>f. ASSUME run'.phase \in {"none", "starting", "settling"}
      PROVE  RunInStep'
  BY <1>f DEF RunInStep, Phases
<1>g. ASSUME run'.phase \in {"prepared", "working"}, CopyInStep(book')
      PROVE  RunInStep'
  BY <1>g DEF RunInStep, Phases
<1>h. ASSUME book' = book, rt' = rt, touched' = touched, run'.phase = run.phase,
             run'.before = run.before
      PROVE  RunInStep'
  <2>1. RunInStep /\ rt.next <= rt'.next
    BY <1>b, <1>h
  <2>2. HasGoal(rt') => \/ rt'.goal.id = rt.next
                        \/ /\ rt'.goal.id = rt.goal.id /\ HasGoal(rt)
                           /\ touched' = touched
    BY <1>h
  <2>3. /\ CopyInStep(book) => CopyInStep(book')
        /\ EndsWithReply(book) => EndsWithReply(book')
    BY <1>h
  <2>4. QED BY <1>b, <1>h, <2>1, <2>2, <2>3, PhaseKeepsStep
<1>i. ASSUME NEW r, NEW b, NEW status, Finish(r, b, status), WellFormed(r),
             BookOK(b), CopyInStep(b)
      PROVE  /\ RunInStep' /\ IntentKept(r, rt')
             /\ Carried(b, book') /\ book'.pending = b.pending
  BY <1>i, FinishTold
<1>1. CASE SendMessage
  <2>1. rt' = rt /\ book' = book /\ run'.phase = "starting"
    BY <1>1 DEF SendMessage, NewRun
  <2>2. QED BY <2>1, <1>c, <1>e, <1>f DEF TranscriptInv
<1>2. CASE Prepare
  <2>1. /\ rt' = Restored(rt, book.messages)
        /\ book' = [book EXCEPT !.copy = book.messages]
        /\ run' = [run EXCEPT !.phase = "prepared"]
    BY <1>2 DEF Prepare
  <2>2. run'.phase = "prepared" /\ book'.pending = book.pending
    BY <2>1, <1>b DEF BookOK
  <2>3. Carried(book, book') /\ CopyInStep(book')
    BY <2>1, <1>b, UntouchedCarries
  <2>4. GoalTold'
    BY <2>1, <2>2, <2>3, <1>b, RestoredTold
  <2>5. VerdictsCurrent
    BY <2>3 DEF VerdictsCurrent, Carried
  <2>6. QED BY <2>2, <2>3, <2>4, <2>5, <1>g DEF TranscriptInv
<1>3. CASE Bind
  <2>1. /\ rt' = Bound(rt) \/ rt' = [Bound(rt) EXCEPT !.goal.idle = 0]
        /\ book' = Committed(book, "user") /\ run' = [run EXCEPT !.phase = "working"]
        /\ run.phase = "prepared" /\ Len(book.messages) < MaxMessages
    BY <1>3, <1>c DEF Bind, Room
  <2>2. IntentKept(rt, rt')
    <3>1. CASE rt' = Bound(rt)
      BY <3>1, <1>b, IntentSurvives
    <3>2. CASE rt' = [Bound(rt) EXCEPT !.goal.idle = 0]
      <4>1. /\ rt'.goal.of = rt.goal.of /\ rt'.next = rt.next
            /\ rt'.initialized = rt.initialized
        BY <3>2, <1>b DEF Bound, WellFormed
      <4>2. QED BY <4>1, <1>b DEF IntentKept
    <3>3. QED BY <2>1, <3>1, <3>2
  <2>3. "user" \in Roles /\ CopyInStep(book)
    BY <2>1, <1>b DEF Roles, RunInStep
  <2>4. /\ Carried(book, book') /\ CopyInStep(book')
        /\ book'.pending \subseteq book.pending
    BY <2>1, <2>3, <1>b, CommittedCarries
  <2>5. run'.phase = "working"
    BY <2>1, <1>b
  <2>6. QED BY <2>2, <2>4, <2>5, <1>d, <1>g DEF TranscriptInv
<1>4. CASE EndEarly
  <2>1. /\ rt' = Paused(rt) /\ book' = [book EXCEPT !.copy = <<>>]
        /\ run'.phase = "settling"
    BY <1>4, <1>b DEF EndEarly
  <2>2. book'.pending = book.pending /\ Carried(book, book')
    BY <2>1, <1>b, UntouchedCarries DEF BookOK
  <2>3. IntentKept(rt, rt')
    BY <2>1, <1>b, IntentSurvives
  <2>4. QED BY <2>1, <2>2, <2>3, <1>d, <1>f DEF TranscriptInv
<1>5. CASE UseTools
  <2> DEFINE replied == Committed(Committed(book, "assistant"), "tool")
  <2>1. /\ run.phase = "working" /\ Len(book.messages) + 3 <= MaxMessages
        /\ \/ book' = Injected(replied) /\ run' = [run EXCEPT !.mail = {}] /\ rt' = rt
           \/ Finish(rt, replied, "done")
    BY <1>5 DEF UseTools, Room
  <2>2. CopyInStep(book)
    BY <2>1, <1>b DEF RunInStep
  <2>3. Len(book.messages) < MaxMessages /\ Len(book.messages) + 2 <= MaxMessages
    BY <2>1, <1>c
  <2>4. /\ Carried(book, replied) /\ CopyInStep(replied)
        /\ replied.pending \subseteq book.pending
        /\ Len(replied.messages) = Len(book.messages) + 2
    BY <2>2, <2>3, <1>b, ReplyCarries
  <2>5. BookOK(replied) /\ Len(replied.messages) < MaxMessages
    <3>1. BookOK(replied)
      BY <2>4 DEF Carried
    <3>2. Len(replied.messages) < MaxMessages
      BY <2>1, <2>4, <1>c
    <3>3. QED BY <3>1, <3>2
  <2> HIDE DEF replied
  <2>6. CASE book' = Injected(replied) /\ run' = [run EXCEPT !.mail = {}] /\ rt' = rt
    <3>1. /\ Carried(replied, book') /\ CopyInStep(book')
          /\ book'.pending \subseteq replied.pending
      BY <2>4, <2>5, <2>6, InjectedCarries
    <3>2. Carried(book, book') /\ book'.pending \subseteq book.pending
      BY <2>4, <3>1, CarriedComposes
    <3>3. run'.phase = "working" /\ IntentKept(rt, rt')
      BY <2>1, <2>6, <1>b, <1>c
    <3>4. QED BY <3>1, <3>2, <3>3, <1>d, <1>g DEF TranscriptInv
  <2>7. CASE Finish(rt, replied, "done")
    <3>1. /\ RunInStep' /\ IntentKept(rt, rt') /\ Carried(replied, book')
          /\ book'.pending = replied.pending
      BY <2>4, <2>5, <2>7, <1>b, <1>i
    <3>2. Carried(book, book') /\ book'.pending \subseteq book.pending
      BY <2>4, <3>1, CarriedComposes
    <3>3. QED BY <3>1, <3>2, <1>d DEF TranscriptInv
  <2>8. QED BY <2>1, <2>6, <2>7
<1>6. CASE \E odd \in BOOLEAN : EndTurn(odd)
  <2>1. PICK odd \in BOOLEAN : EndTurn(odd)
    BY <1>6
  <2> DEFINE one == Committed(book, "assistant")
             two == Committed(Committed(book, "assistant"), "tool")
             replied == IF odd THEN two ELSE one
  <2>2. /\ run.phase = "working" /\ Room(1) /\ (odd => OddReplies /\ Room(2))
        /\ Wanted(run.mail) # {} => (odd => Room(3)) /\ (~odd => Room(2))
        /\ book' = Injected(replied)
    BY <2>1 DEF EndTurn
  <2>3. CopyInStep(book)
    BY <2>2, <1>b DEF RunInStep
  <2>4. /\ Len(book.messages) < MaxMessages
        /\ odd => Len(book.messages) + 2 <= MaxMessages
    BY <2>2, <1>c DEF Room
  <2>5. /\ Carried(book, one) /\ CopyInStep(one) /\ EndsWithReply(one)
        /\ one.pending \subseteq book.pending
        /\ Len(one.messages) = Len(book.messages) + 1
        /\ odd => /\ Carried(book, two) /\ CopyInStep(two)
                  /\ two.pending \subseteq book.pending
                  /\ Len(two.messages) = Len(book.messages) + 2
    BY <2>3, <2>4, <1>b, ReplyCarries
  <2> HIDE DEF one, two
  <2>6. /\ Carried(book, replied) /\ CopyInStep(replied)
        /\ replied.pending \subseteq book.pending
        /\ OddReplies \/ EndsWithReply(replied)
        /\ Wanted(run.mail) # {} => Len(replied.messages) < MaxMessages
    <3>1. CASE odd
      <4>1. Wanted(run.mail) # {} => Len(two.messages) < MaxMessages
        BY <3>1, <2>2, <2>5, <1>c DEF Room
      <4>2. QED BY <3>1, <4>1, <2>2, <2>5
    <3>2. CASE ~odd
      <4>1. Wanted(run.mail) # {} => Len(one.messages) < MaxMessages
        BY <3>2, <2>2, <2>5, <1>c DEF Room
      <4>2. QED BY <3>2, <4>1, <2>5
    <3>3. QED BY <3>1, <3>2
  <2> HIDE DEF replied
  <2>7. BookOK(replied)
    BY <2>6 DEF Carried
  <2>8. /\ Carried(replied, book') /\ CopyInStep(book')
        /\ book'.pending \subseteq replied.pending
    BY <2>2, <2>6, <2>7, InjectedCarries
  <2>9. Carried(book, book') /\ book'.pending \subseteq book.pending
    BY <2>6, <2>8, CarriedComposes
  <2>10. CASE Wanted(run.mail) # {}
    <3>1. run' = [run EXCEPT !.mail = {}] /\ rt' = rt
      BY <2>1, <2>10 DEF EndTurn
    <3>2. run'.phase = "working" /\ IntentKept(rt, rt')
      BY <2>2, <3>1, <1>b, <1>c
    <3>3. QED BY <2>8, <2>9, <3>2, <1>d, <1>g DEF TranscriptInv
  <2>11. CASE Wanted(run.mail) = {}
    <3>1. /\ rt' = Judging(rt) /\ touched' = FALSE
          /\ run' = [run EXCEPT !.phase = "judging", !.mail = {},
                                !.before = rt.goal.id,
                                !.deferred = HasGoal(rt) /\ bg # 0]
      BY <2>1, <2>11 DEF EndTurn
    <3>2. IntentKept(rt, rt')
      BY <3>1, <1>b, IntentSurvives
    <3>3. book' = replied
      BY <2>2, <2>11 DEF Injected
    <3>4. run'.phase = "judging" /\ run'.before = rt.goal.id
      BY <3>1, <1>b
    <3>5. run'.before \in Nat /\ run'.before < rt'.next
      BY <3>2, <3>4, <1>b DEF IntentKept, WellFormed
    <3>6. RunInStep'
      BY <2>6, <2>8, <3>1, <3>3, <3>4, <3>5 DEF RunInStep, Phases
    <3>7. QED BY <2>9, <3>2, <3>6, <1>d DEF TranscriptInv
  <2>12. QED BY <2>10, <2>11
<1>7. CASE JudgedMet
  <2> DEFINE b == Attached(book, Mark(book, "met", rt.goal.of))
  <2>1. /\ run.phase = "judging" /\ HasGoal(rt) /\ Finish(Cleared(rt), b, "done")
        /\ Unchanged /\ ~run.aborted
    BY <1>7 DEF JudgedMet, Accepted, Unchanged
  <2>2. "met" \in Kinds
    BY DEF Kinds
  <2>3. BookOK(b) /\ CopyInStep(b)
    BY <2>1, <2>2, VerdictTold
  <2>4. /\ WellFormed(Cleared(rt)) /\ Cleared(rt).goal.of = 0
        /\ Cleared(rt).initialized = TRUE /\ Cleared(rt).next = rt.next
    BY <1>b, ClearedKeeps, IntentChanges DEF Keeps
  <2>5. /\ RunInStep' /\ IntentKept(Cleared(rt), rt')
        /\ Carried(b, book') /\ book'.pending \subseteq b.pending
    BY <2>1, <2>3, <2>4, <1>i
  <2>6. rt'.goal.of = 0 /\ rt.next <= rt'.next /\ rt'.initialized
    BY <2>4, <2>5 DEF IntentKept
  <2>7. rt'.goal.of = IF "met" = "open" THEN rt.goal.of ELSE 0
    BY <2>6
  <2> HIDE DEF b
  <2>8. b = Attached(book, Mark(book, "met", rt.goal.of))
    BY DEF b
  <2>9. GoalTold' /\ VerdictsCurrent
    BY <2>1, <2>2, <2>5, <2>6, <2>7, <2>8, <1>a, VerdictKept
  <2>10. QED BY <2>5, <2>9 DEF TranscriptInv
<1>8. CASE JudgedNotMet
  <2> DEFINE b == Attached(book, Mark(book, "open", rt.goal.of))
  <2>1. /\ run.phase = "judging" /\ HasGoal(rt) /\ Unchanged /\ ~run.aborted
        /\ \/ /\ Room(1) /\ book' = Committed(b, "user") /\ rt' = rt
              /\ run' = [run EXCEPT !.phase = "working"]
           \/ /\ Room(1) /\ book' = Injected(b) /\ rt' = rt
              /\ run' = [run EXCEPT !.phase = "working", !.mail = {}]
           \/ Finish(rt, b, "done")
    BY <1>8 DEF JudgedNotMet, Accepted, Unchanged
  <2>2. "open" \in Kinds /\ "user" \in Roles
    BY DEF Kinds, Roles
  <2>3. /\ BookOK(b) /\ CopyInStep(b)
        /\ Len(b.messages) = Len(book.messages)
    BY <2>1, <2>2, VerdictTold
  <2>4. rt.initialized
    BY <2>1, <1>b DEF WellFormed
  <2>5. b = Attached(book, Mark(book, "open", rt.goal.of))
    OBVIOUS
  <2> HIDE DEF b
  <2>6. ASSUME Carried(b, book'), book'.pending \subseteq b.pending,
               IntentKept(rt, rt')
        PROVE  GoalTold' /\ VerdictsCurrent
    <3>1. /\ rt'.goal.of = IF "open" = "open" THEN rt.goal.of ELSE 0
          /\ rt.next <= rt'.next /\ rt'.initialized
      BY <2>4, <2>6 DEF IntentKept
    <3>2. QED BY <2>1, <2>2, <2>5, <2>6, <3>1, <1>a, VerdictKept
  <2>7. CASE /\ Room(1) /\ rt' = rt
             /\ \/ /\ book' = Committed(b, "user")
                   /\ run' = [run EXCEPT !.phase = "working"]
                \/ /\ book' = Injected(b)
                   /\ run' = [run EXCEPT !.phase = "working", !.mail = {}]
    <3>1. Len(b.messages) < MaxMessages
      BY <2>3, <2>7, <1>c DEF Room
    <3>2. /\ Carried(b, book') /\ CopyInStep(book')
          /\ book'.pending \subseteq b.pending
      BY <2>2, <2>3, <2>7, <3>1, CommittedCarries, InjectedCarries
    <3>3. run'.phase = "working" /\ IntentKept(rt, rt')
      BY <2>7, <1>b, <1>c
    <3>4. QED BY <3>2, <3>3, <2>6, <1>g DEF TranscriptInv
  <2>8. CASE Finish(rt, b, "done")
    <3>1. /\ RunInStep' /\ IntentKept(rt, rt')
          /\ Carried(b, book') /\ book'.pending \subseteq b.pending
      BY <2>3, <2>8, <1>b, <1>i
    <3>2. QED BY <3>1, <2>6 DEF TranscriptInv
  <2>9. QED BY <2>1, <2>7, <2>8
<1>9. CASE NotJudged
  <2>1. /\ run.phase = "judging"
        /\ \/ /\ Room(1) /\ book' = Injected(book) /\ rt' = rt
              /\ run' = [run EXCEPT !.phase = "working", !.mail = {}]
           \/ Finish(rt, book, "done")
           \/ /\ Room(1) /\ rt' = Armed(rt) /\ book' = Committed(book, "user")
              /\ run' = [run EXCEPT !.phase = "working"]
    BY <1>9 DEF NotJudged
  <2>2. CopyInStep(book) /\ "user" \in Roles
    BY <2>1, <1>b DEF RunInStep, Roles
  <2>3. CASE /\ Room(1) /\ (rt' = rt \/ rt' = Armed(rt))
             /\ \/ /\ book' = Committed(book, "user")
                   /\ run' = [run EXCEPT !.phase = "working"]
                \/ /\ book' = Injected(book)
                   /\ run' = [run EXCEPT !.phase = "working", !.mail = {}]
    <3>1. Len(book.messages) < MaxMessages
      BY <2>3, <1>c DEF Room
    <3>2. /\ Carried(book, book') /\ CopyInStep(book')
          /\ book'.pending \subseteq book.pending
      BY <2>2, <2>3, <3>1, <1>b, CommittedCarries, InjectedCarries
    <3>3. run'.phase = "working"
      BY <2>3, <1>b
    <3>4. IntentKept(rt, rt')
      BY <2>3, <1>b, <1>c, IntentSurvives
    <3>5. QED BY <3>2, <3>3, <3>4, <1>d, <1>g DEF TranscriptInv
  <2>4. CASE Finish(rt, book, "done")
    <3>1. /\ RunInStep' /\ IntentKept(rt, rt')
          /\ Carried(book, book') /\ book'.pending \subseteq book.pending
      BY <2>2, <2>4, <1>b, <1>i
    <3>2. QED BY <3>1, <1>d DEF TranscriptInv
  <2>5. QED BY <2>1, <2>3, <2>4
<1>10. CASE Break
  <2>1. /\ run.phase \in {"working", "judging"}
        /\ \E status : \/ Finish(rt, book, status)
                       \/ Room(1) /\ Finish(rt, Committed(book, "assistant"), status)
    BY <1>10 DEF Break
  <2>2. CopyInStep(book)
    BY <2>1, <1>b DEF RunInStep
  <2>3. PICK b, status : /\ Finish(rt, b, status) /\ Carried(book, b)
                         /\ CopyInStep(b) /\ b.pending \subseteq book.pending
    <3>1. CASE \E status : Finish(rt, book, status)
      BY <3>1, <2>2, <1>c
    <3>2. CASE \E status : Room(1) /\ Finish(rt, Committed(book, "assistant"), status)
      <4>1. Len(book.messages) < MaxMessages
        BY <3>2, <1>c DEF Room
      <4>2. QED BY <3>2, <4>1, <2>2, <1>b, ReplyCarries
    <3>3. QED BY <2>1, <3>1, <3>2
  <2>4. BookOK(b)
    BY <2>3 DEF Carried
  <2>5. /\ RunInStep' /\ IntentKept(rt, rt')
        /\ Carried(b, book') /\ book'.pending = b.pending
    BY <2>3, <2>4, <1>b, <1>i
  <2>6. Carried(book, book') /\ book'.pending \subseteq book.pending
    BY <2>3, <2>5, CarriedComposes
  <2>7. QED BY <2>5, <2>6, <1>d DEF TranscriptInv
<1>11. CASE Settle
  <2>1. rt' = rt /\ book' = book /\ run'.phase = "none"
    BY <1>11, <1>b DEF Settle
  <2>2. QED BY <2>1, <1>c, <1>e, <1>f DEF TranscriptInv
<1>12. CASE Stop
  <2>1. /\ rt' = Paused(rt) /\ book' = book /\ run'.phase = run.phase
        /\ run'.before = run.before
    BY <1>12, <1>b DEF Stop
  <2>2. IntentKept(rt, rt') /\ rt.next <= rt'.next
    BY <2>1, <1>b, IntentSurvives DEF IntentKept
  <2>3. HasGoal(rt') => rt'.goal.id = rt.next
    BY <2>1, <1>b, PausedKeeps
  <2>4. RunInStep'
    BY <2>1, <2>2, <2>3, <1>b, PhaseKeepsStep
  <2>5. QED BY <2>1, <2>2, <2>4, <1>e DEF TranscriptInv
<1>13. CASE SetGoal
  <2>1. rt' = Activated(rt, rt.next) /\ RecordsOpen /\ run' = run
    BY <1>13 DEF SetGoal
  <2>2. QED BY <2>1, ActivatedTold DEF TranscriptInv
<1>14. CASE ClearGoal
  <2> DEFINE r == Restored(rt, book.messages)
  <2>1. run' = run
    BY <1>14 DEF ClearGoal
  <2>2. CASE HasGoal(r)
    <3>1. /\ HasGoal(r) /\ rt' = Cleared(r) /\ run' = run
          /\ book' = Recorded(book, Mark(book, "cleared", r.goal.of))
      BY <2>2, <1>14 DEF ClearGoal
    <3>2. /\ WellFormed(r) /\ rt.next <= r.next
          /\ r.goal.of \in Nat /\ r.goal.of < r.next
      <4>1. CASE rt.initialized
        <5>1. r = rt
          BY <4>1 DEF Restored
        <5>2. QED BY <5>1, <1>b DEF GoalTold, WellFormed
      <4>2. CASE ~rt.initialized
        <5> DEFINE v == Restorable(book.messages)
        <5>1. v # 0
          BY <3>1, <4>2, <1>b DEF Restored, HasGoal, WellFormed
        <5>2. Says(book, v)
          BY <4>2, <1>b, RestorableIsTold DEF GoalTold
        <5>3. PICK top \in Marks(book) : v = Intent(top)
          BY <5>1, <5>2 DEF Says
        <5>4. top \in MarkType /\ top.of < rt.next
          BY <1>b, MarksAreTyped DEF GoalTold
        <5>5. v \in Nat /\ v < rt.next
          BY <5>1, <5>3, <5>4 DEF Intent, MarkType
        <5>6. r = Activated(rt, v)
          BY <4>2, <5>1 DEF Restored
        <5> HIDE DEF v, r
        <5>7. WellFormed(Activated(rt, v)) /\ Activated(rt, v).next = rt.next + 1
          BY <1>b, ActivatedIsFresh
        <5>8. Activated(rt, v).goal.of = v
          BY <1>b, IntentChanges
        <5>9. QED BY <5>5, <5>6, <5>7, <5>8, <1>b
      <4>3. QED BY <4>1, <4>2
    <3> HIDE DEF r
    <3>3. /\ rt'.goal.of = 0 /\ rt'.next = r.next /\ ~HasGoal(rt') /\ rt'.initialized
      BY <3>1, <3>2, ClearedKeeps, IntentChanges
    <3>4. "cleared" \in Kinds
      BY DEF Kinds
    <3>5. /\ Told(book, book', Mark(book, "cleared", r.goal.of))
          /\ CopyInStep(book) => CopyInStep(book')
          /\ EndsWithReply(book) => EndsWithReply(book')
      BY <3>1, <3>2, <3>4, <1>b, RecordedIsTold
    <3>6. rt'.goal.of = IF "cleared" = "open" THEN r.goal.of ELSE 0
      BY <3>3
    <3>7. rt.next <= rt'.next /\ r.goal.of < rt'.next
      BY <3>2, <3>3
    <3>8. GoalTold'
      BY <3>2, <3>3, <3>4, <3>5, <3>6, <3>7, <1>b, FreshTold
    <3>9. RunInStep'
      BY <3>1, <3>3, <3>5, <3>7, <1>b, PhaseKeepsStep
    <3>10. VerdictsCurrent
      <4>1. Mark(book, "cleared", r.goal.of).kind = "cleared"
        BY DEF Mark
      <4>2. QED BY <3>5, <4>1 DEF VerdictsCurrent, Told
    <3>11. QED BY <3>8, <3>9, <3>10 DEF TranscriptInv
  <2>3. CASE ~HasGoal(r)
    <3>1. book' = book
      BY <2>3, <1>14 DEF ClearGoal
    <3>2. rt' = Restored(rt, book.messages)
      BY <2>3, <1>14 DEF ClearGoal
    <3>3. GoalTold' /\ rt.next <= rt'.next
      BY <3>1, <3>2, <1>b, <1>c, RestoredTold
    <3>4. ~HasGoal(rt')
      BY <2>3, <3>2
    <3>5. RunInStep'
      BY <2>1, <3>1, <3>3, <3>4, <1>b, PhaseKeepsStep
    <3>6. VerdictsCurrent
      BY <3>1 DEF VerdictsCurrent
    <3>7. QED BY <3>3, <3>5, <3>6 DEF TranscriptInv
  <2>4. QED BY <2>2, <2>3
<1>15. CASE OpenSession
  <2>1. /\ rt' = Restored(rt, book.messages) /\ book' = book /\ run' = run
        /\ ~rt.initialized
    BY <1>15 DEF OpenSession
  <2>2. GoalTold' /\ rt.next <= rt'.next
    BY <2>1, <1>b, <1>c, RestoredTold
  <2>3. HasGoal(rt') => rt'.goal.id = rt.next
    <3>1. CASE rt' = [rt EXCEPT !.initialized = TRUE]
      BY <2>1, <3>1, <1>b DEF WellFormed, HasGoal
    <3>2. CASE rt' = Activated(rt, Restorable(book.messages))
      BY <3>2, <1>b, ActivatedIsFresh
    <3>3. QED BY <2>1, <3>1, <3>2 DEF Restored
  <2>4. RunInStep'
    BY <2>1, <2>2, <2>3, <1>b, PhaseKeepsStep
  <2>5. VerdictsCurrent
    BY <2>1 DEF VerdictsCurrent
  <2>6. QED BY <2>2, <2>4, <2>5 DEF TranscriptInv
<1>16. CASE Propose
  <2>1. CASE /\ rt' = Bound(Activated(rt, rt.next)) /\ RecordsOpen
             /\ run' = [run EXCEPT !.mail = @ \cup {rt.next}]
    <3>1. run'.phase = run.phase /\ run'.before = run.before
      BY <2>1, <1>b
    <3>2. QED BY <2>1, <3>1, ActivatedTold DEF TranscriptInv
  <2>2. CASE rt' = rt /\ book' = book /\ run' = run /\ touched' = touched
    BY <2>2, <1>c, <1>e, <1>h DEF TranscriptInv
  <2>3. QED BY <1>16, <2>1, <2>2 DEF Propose
<1>17. CASE Approve
  <2>1. /\ rt' = Bound(Activated(rt, rt.next)) /\ RecordsOpen
        /\ run' = run \/ Delivered(rt.next)
    BY <1>17 DEF Approve
  <2>2. \/ run'.phase = "starting"
        \/ run'.phase = run.phase /\ run'.before = run.before
    BY <2>1, DeliveredPhase
  <2>3. QED BY <2>1, <2>2, ActivatedTold DEF TranscriptInv
<1>18. CASE Decline
  <2>1. rt' = rt /\ book' = book /\ run' = run /\ touched' = touched
    BY <1>18 DEF Decline
  <2>2. QED BY <2>1, <1>c, <1>e, <1>h DEF TranscriptInv
<1>19. CASE Arrive
  <2>1. /\ rt' = rt /\ book' = book /\ touched' = touched
        /\ \/ run' = run \/ run' = NewRun(FALSE)
           \/ \E id : run' = [run EXCEPT !.mail = @ \cup {id}]
    BY <1>19 DEF Arrive
  <2>2. \/ run'.phase = "starting"
        \/ run'.phase = run.phase /\ run'.before = run.before
    BY <2>1, <1>b DEF NewRun
  <2>3. QED BY <2>1, <2>2, <1>c, <1>e, <1>f, <1>h DEF TranscriptInv
<1>20. CASE Dispatch
  <2>1. rt' = rt /\ book' = book /\ run' = run /\ touched' = touched
    BY <1>20 DEF Dispatch
  <2>2. QED BY <2>1, <1>c, <1>e, <1>h DEF TranscriptInv
<1>21. CASE ChildDone
  <2>1. /\ rt' = rt /\ book' = book /\ touched' = touched
        /\ run' = run \/ Delivered(0)
    BY <1>21 DEF ChildDone
  <2>2. \/ run'.phase = "starting"
        \/ run'.phase = run.phase /\ run'.before = run.before
    BY <2>1, DeliveredPhase
  <2>3. QED BY <2>1, <2>2, <1>c, <1>e, <1>f, <1>h DEF TranscriptInv
<1>22. CASE TimerFires
  <2>1. /\ book' = book /\ touched' = touched
        /\ run' = run \/ Delivered(rt.goal.id)
    BY <1>22 DEF TimerFires
  <2>2. \/ run'.phase = "starting"
        \/ run'.phase = run.phase /\ run'.before = run.before
    BY <2>1, DeliveredPhase
  <2>3. /\ IntentKept(rt, rt') /\ rt'.goal.id = rt.goal.id /\ rt'.next = rt.next
        /\ HasGoal(rt') => HasGoal(rt)
    <3>1. CASE rt' = [rt EXCEPT !.timer = 0]
      BY <3>1, <1>b DEF IntentKept, WellFormed, HasGoal
    <3>2. CASE rt' = Armed(rt)
      <4>1. IntentKept(rt, rt')
        BY <3>2, <1>b, IntentSurvives
      <4>2. rt'.goal = rt.goal /\ rt'.next = rt.next
        BY <3>2, <1>b DEF Armed, WellFormed
      <4>3. QED BY <4>1, <4>2 DEF HasGoal
    <3>3. CASE /\ rt.timer # 0 /\ rt.goal.id = rt.timer
               /\ rt' = Armed([rt EXCEPT !.timer = 0, !.goal.idle = @ + 1])
      <4>1. /\ rt'.goal.id = rt.goal.id /\ rt'.goal.of = rt.goal.of
            /\ rt'.next = rt.next /\ rt'.initialized = rt.initialized
        BY <3>3, <1>b DEF Armed, WellFormed
      <4>2. HasGoal(rt)
        BY <3>3, <1>b DEF WellFormed, HasGoal, NoGoal
      <4>3. QED BY <4>1, <4>2, <1>b DEF IntentKept, WellFormed
    <3>4. QED BY <1>22, <3>1, <3>2, <3>3 DEF TimerFires
  <2>4. rt.next <= rt'.next
    BY <2>3, <1>b
  <2>5. run'.phase = run.phase /\ run'.before = run.before => RunInStep'
    BY <2>1, <2>3, <2>4, <1>b, PhaseKeepsStep
  <2>6. QED BY <2>1, <2>2, <2>3, <2>5, <1>e, <1>f DEF TranscriptInv
<1>23. CASE Restart
  <2>1. /\ rt' = [rt EXCEPT !.goal = NoGoal, !.context = FALSE, !.timer = 0,
                            !.initialized = FALSE]
        /\ book' = [book EXCEPT !.copy = <<>>, !.pending = {},
                                !.durable = [i \in 1..MaxMessages |-> {}]]
        /\ run'.phase = "none"
    BY <1>23, <1>b DEF Restart
  <2>2. /\ rt'.goal = NoGoal /\ rt'.next = rt.next /\ ~rt'.initialized
    BY <2>1, <1>b DEF WellFormed
  <2>3. /\ rt'.goal.of \in Nat /\ rt'.goal.of < rt'.next
    BY <2>2, <1>b DEF NoGoal, WellFormed
  <2>4. /\ BookOK(book') /\ book'.pending = {} /\ Marks(book') \subseteq Marks(book)
        /\ Marks(book') # {} => \E top \in Marks(book') : IsTop(book', top)
    <3>1. BookOK(book) /\ (Marks(book) # {} => \E top \in Marks(book) : IsTop(book, top))
      BY <1>b DEF GoalTold
    <3>2. book' = LeftByRestart(book)
      BY <2>1 DEF LeftByRestart
    <3>3. QED BY <3>1, <3>2, RestartedBook
  <2>5. \A m \in Marks(book') : m.of < rt'.next
    BY <2>2, <2>4, <1>b DEF GoalTold
  <2>6. GoalTold'
    BY <2>2, <2>3, <2>4, <2>5 DEF GoalTold
  <2>7. VerdictsCurrent
    BY <2>4 DEF VerdictsCurrent
  <2>8. QED BY <2>1, <2>6, <2>7, <1>f DEF TranscriptInv
<1>24. CASE UNCHANGED vars
  <2>1. rt' = rt /\ book' = book /\ run' = run /\ touched' = touched
    BY <1>24 DEF vars
  <2>2. QED BY <2>1, <1>c, <1>e, <1>h DEF TranscriptInv
<1>25. QED
  BY <1>1, <1>2, <1>3, <1>4, <1>5, <1>6, <1>7, <1>8, <1>9, <1>10, <1>11,
     <1>12, <1>13, <1>14, <1>15, <1>16, <1>17, <1>18, <1>19, <1>20, <1>21,
     <1>22, <1>23, <1>24 DEF Next

\* The invariant holds in every state.
THEOREM TranscriptInvariant == Spec => [](GoalInv /\ TranscriptInv)
<1>1. Init => GoalInv /\ TranscriptInv
  <2> SUFFICES ASSUME Init PROVE GoalInv /\ TranscriptInv
    OBVIOUS
  <2>1. GoalInv
    BY GoalStarts
  <2>2. /\ book.messages = <<>> /\ book.copy = <<>> /\ book.pending = {}
        /\ book.durable = [i \in 1..MaxMessages |-> {}]
        /\ DOMAIN book = {"messages", "copy", "pending", "durable"}
        /\ rt.goal = NoGoal /\ rt.next = 1 /\ ~rt.initialized /\ run.phase = "none"
    BY DEF Init
  <2>3. <<>> \in Seq(Message) /\ Len(<<>>) = 0 /\ MaxMessages \in Nat
    BY GoalAssumption
  <2>4. Marks(book) = {}
    <3>1. ASSUME NEW m PROVE m \notin Marks(book)
      <4>1. book.messages \in Seq(Message) /\ 1..Len(book.messages) = {}
        BY <2>2, <2>3
      <4>2. QED BY <4>1, <2>2, MarksAre
    <3>2. QED BY <3>1
  <2>5. IsFiniteSet(Marks(book)) /\ \A m \in Marks(book) : m.at <= Cardinality(Marks(book))
    BY <2>4, FS_EmptySet
  <2>6. BookOK(book)
    BY <2>2, <2>3, <2>5 DEF BookOK
  <2>7. rt.goal.of = 0
    BY <2>2 DEF NoGoal
  <2>8. GoalTold
    BY <2>2, <2>4, <2>6, <2>7 DEF GoalTold
  <2>9. RunInStep
    BY <2>2 DEF RunInStep, Phases
  <2>10. QED BY <2>1, <2>8, <2>9 DEF TranscriptInv
<1>2. GoalInv /\ TranscriptInv /\ [Next]_vars => GoalInv' /\ TranscriptInv'
  BY GoalStep, TranscriptStep
<1>3. QED BY <1>1, <1>2, PTL DEF Spec

\* TranscriptTellsGoal (restoreGoal, recordStatus, attachUiParts, the rewrite at the
\* end of a run): once an assistant has answered in the session, a restart brings
\* back the goal there is and no other, for any length of the transcript and any
\* number of goals, provided that no reply that ends a turn carries unexecuted
\* calls (with such replies the run of GoalOddReply.cfg shows a met goal that comes
\* back).  A goal set before the first answer is in memory only.
THEOREM RestartsBringTheGoalBack ==
    ASSUME ~OddReplies
    PROVE  Spec => []TranscriptTellsGoal
<1>1. TranscriptInv => TranscriptTellsGoal
  <2> SUFFICES ASSUME TranscriptInv, rt.initialized, NEW i \in DOMAIN book.messages,
                      book.messages[i].role = "assistant"
               PROVE  Restorable(book.messages) = rt.goal.of
    BY DEF TranscriptTellsGoal
  <2>1. BookOK(book) /\ Says(book, rt.goal.of)
    BY DEF TranscriptInv, GoalTold
  <2>2. book.messages \in Seq(Message) /\ i \in 1..Len(book.messages)
    BY <2>1 DEF BookOK
  <2>3. book.pending = {}
    BY <2>1, <2>2, MarkedIsReply
  <2>4. QED BY <2>1, <2>3, ToldIsRestored
<1>2. QED BY <1>1, TranscriptInvariant, PTL

\* VerdictsAreCurrent (handleTurnEnd, `unchanged'): a verdict is recorded only for
\* the goal that was evaluated, and never after it was set, ended or paused.
THEOREM VerdictsBelongToTheGoal == Spec => VerdictsAreCurrent
<1>1. GoalInv /\ TranscriptInv /\ [Next]_vars => [VerdictsCurrent]_vars
  BY TranscriptStep
<1>2. Spec => [][VerdictsCurrent]_vars
  BY <1>1, TranscriptInvariant, PTL DEF Spec
<1>3. QED BY <1>2 DEF VerdictsAreCurrent, VerdictsCurrent
=============================================================================
