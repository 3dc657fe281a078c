----------------------------- MODULE GoalRuntime -----------------------------
(***************************************************************************)
(* The goal of one session (main/goal/runtime.ts, state.ts, restore.ts):    *)
(* who sets it, who ends it, the evaluation at the end of a turn, check-ins *)
(* while background work defers it, proposals of the model                  *)
(* (kernel/interaction-gate.ts), and the markers in the transcript from     *)
(* which it is restored after a restart.  The runs of the session are       *)
(* modelled as far as goals see them (runtime.ts runAgent,                  *)
(* kernel/agent-session.ts, services/agent.ts).                             *)
(*                                                                         *)
(* Two records hold most of the state: rt, what lives in the process, and   *)
(* book, the transcript with what waits to be written to it.  Handlers call *)
(* each other synchronously, so they are operators on these records and one *)
(* action is what runs between two awaits.                                  *)
(*                                                                         *)
(* Left out: token and iteration counts, wording, the revision counter of   *)
(* state.ts (every path that bumps it also cancels the proposals it would   *)
(* invalidate), other Stop hooks than the goal's own.                       *)
(***************************************************************************)
EXTENDS Integers, Sequences, SequencesExt, FiniteSets, FiniteSetsExt

CONSTANTS
    MaxIds,         \* bound on identities handed out (ulid)
    MaxMessages,    \* bound on the length of the transcript
    MaxRuns,        \* bound on runs
    IdleCap,        \* GOAL_IDLE_CHECKIN_CAP
    OddReplies,     \* may a reply that ends the turn carry unexecuted calls?
    MaxRestarts     \* bound on restarts

ASSUME GoalAssumption ==
    /\ {MaxIds, MaxMessages, MaxRuns, IdleCap, MaxRestarts} \subseteq Nat
    /\ OddReplies \in BOOLEAN

VARIABLES
    rt,         \* goal, bound context, check-in timer, next identity
    book,       \* transcript, the run's copy, markers not yet written
    run,        \* the session's current run, if any
    posts,      \* goal input under way to a run or to a launch
    proposal,   \* number of the run whose proposal the user may answer, or 0
    bg,         \* number of the run whose background child still works, or 0
    restarts,
    touched,    \* history: the goal was set, cleared or paused since the
                \* evaluation under way began
    stoppedAt,  \* history: the next identity when the user last pressed Stop
    wakes       \* history: check-ins sent to an idle session since the user
                \* last did something, or the model set a goal by itself

vars == <<rt, book, run, posts, proposal, bg, restarts, touched, stoppedAt, wakes>>

-----------------------------------------------------------------------------
(* The goal: identity, the intent it carries (the identity under which it   *)
(* was set), whether background work defers its evaluation, idle check-ins. *)

NoGoal == [id |-> 0, of |-> 0, deferred |-> FALSE, idle |-> 0]
HasGoal(r) == r.goal # NoGoal

Cleared(r) ==
    IF HasGoal(r) THEN [r EXCEPT !.initialized = TRUE, !.goal = NoGoal,
                                 !.timer = 0, !.context = FALSE]
                  ELSE [r EXCEPT !.initialized = TRUE]

\* A new goal supersedes the old one and keeps the bound run's context.
Activated(r, intent) ==
    [Cleared(r) EXCEPT !.goal = [NoGoal EXCEPT !.id = r.next, !.of = intent],
                       !.next = r.next + 1, !.context = r.context]

\* Mutant: input already under way still matches after a pause.
PausedSameId(r) == [r EXCEPT !.timer = 0, !.context = FALSE]

\* Pausing keeps the goal under another identity, so that check-ins and
\* kickoffs already under way no longer match.
Paused(r) ==
    [r EXCEPT !.timer = 0, !.context = FALSE,
              !.goal = IF HasGoal(r) THEN [@ EXCEPT !.id = r.next] ELSE @,
              !.next = IF HasGoal(r) THEN @ + 1 ELSE @]

\* Mutant: a check-in, too, counts as an act of the user.
BoundAfresh(r) == [r EXCEPT !.context = TRUE, !.timer = 0, !.goal.idle = 0]

\* Check-ins already sent count on, unless the user sent the message.
Bound(r) == [r EXCEPT !.context = TRUE, !.timer = 0]

Released(r) ==
    IF r.goal.deferred THEN r ELSE [r EXCEPT !.timer = 0, !.context = FALSE]

Armed(r) ==
    [r EXCEPT !.timer = IF r.goal.deferred /\ r.context THEN r.goal.id ELSE 0]

-----------------------------------------------------------------------------
(* The transcript: messages with the goal markers attached to them.  `at'   *)
(* orders markers; `copy' is the running session's own list of messages.    *)

Marks(b) == (UNION {b.messages[i].marks : i \in DOMAIN b.messages})
            \cup b.pending

Stamp(b) == Cardinality(Marks(b)) + 1
Mark(b, kind, intent) == [at |-> Stamp(b), kind |-> kind, of |-> intent]

\* restorableGoalCondition: the newest marker decides; 0 is "no goal".
Restorable(messages) ==
    LET marked == {i \in DOMAIN messages :
                     messages[i].role = "assistant" /\ messages[i].marks # {}}
        last == CHOOSE m \in messages[Max(marked)].marks :
                    \A o \in messages[Max(marked)].marks : o.at <= m.at
    IN IF marked = {} \/ last.kind \in {"met", "cleared"} THEN 0 ELSE last.of

\* prepareGoalMessage: markers recorded out of band, and those waiting for
\* an assistant message, join the message that is about to be written.
Prepared(b, i, message) ==
    IF message.role # "assistant" THEN message
    ELSE [message EXCEPT !.marks = @ \cup b.durable[i] \cup b.pending]

\* recordStatus: the marker goes to the newest assistant message.
Recorded(b, mark) ==
    LET assistants == {i \in DOMAIN b.messages : b.messages[i].role = "assistant"}
        i == Max(assistants)
        with == Prepared(b, i, [b.messages[i] EXCEPT !.marks = @ \cup {mark}])
    IN IF assistants = {} THEN [b EXCEPT !.pending = @ \cup {mark}]
       ELSE [b EXCEPT !.messages[i] = with, !.durable[i] = with.marks,
                      !.pending = {}]

\* AgentSession.commit
Committed(b, role) ==
    LET message == Prepared(b, Len(b.messages) + 1, [role |-> role, marks |-> {}])
    IN [b EXCEPT !.messages = Append(@, message), !.copy = Append(@, message),
                 !.pending = IF role = "assistant" THEN {} ELSE @]

\* AgentSession.attachUiParts: the verdict joins the session's last message,
\* provided that is an assistant's.
Attached(b, mark) ==
    LET i == Len(b.copy)
        with == Prepared(b, i, [b.copy[i] EXCEPT !.marks = @ \cup {mark}])
    IN IF i = 0 \/ b.copy[i].role # "assistant" THEN b
       ELSE [b EXCEPT !.messages[i] = with, !.copy[i] = with, !.pending = {}]

\* Mutant: markers that others attached meanwhile are overwritten.
RewrittenBlindly(b) == [b EXCEPT !.copy = <<>>, !.messages = b.copy]

\* The end of a run rewrites the history from the session's own list.
Rewritten(b) ==
    [b EXCEPT !.copy = <<>>,
              !.messages = [i \in DOMAIN b.copy |->
                  IF b.copy[i].role # "assistant" THEN b.copy[i]
                  ELSE [b.copy[i] EXCEPT !.marks = @ \cup b.messages[i].marks]]]

Restored(r, messages) ==
    IF r.initialized THEN r
    ELSE IF Restorable(messages) = 0 THEN [r EXCEPT !.initialized = TRUE]
    ELSE Activated(r, Restorable(messages))

-----------------------------------------------------------------------------
(* Runs *)

Active == run.phase \in {"starting", "prepared", "working", "judging"}
NewRun(user) == [no |-> run.no + 1, phase |-> "starting", user |-> user,
                 aborted |-> FALSE, mail |-> {}, before |-> 0, deferred |-> FALSE]

Room(n) == Len(book.messages) + n <= MaxMessages
Ids(n) == rt.next + n <= MaxIds + 1
CanLaunch == run.phase = "none" /\ run.no < MaxRuns /\ Room(1)

\* The items of the mailbox that are still wanted: reports, and goal input
\* for the current identity (acceptsGoalInput).
Wanted(items) == {id \in items : id = 0 \/ (HasGoal(rt) /\ rt.goal.id = id)}

\* handle.finish and what the driver does before its first await after it.
\* A report the session never took is delivered again (session-runtime.ts).
Finish(r, b, status) ==
    /\ rt' = Released(IF status = "done" THEN r ELSE Paused(r))
    /\ book' = Rewritten(b)
    /\ run' = [run EXCEPT !.phase = "settling", !.mail = {}]
    /\ posts' = posts \cup IF 0 \in run.mail
                             THEN {[id |-> 0, via |-> "wake", to |-> 0]} ELSE {}
    /\ proposal' = IF status # "done" /\ proposal = run.no THEN 0 ELSE proposal

\* SessionRuntime.deliverInternal: to the active run's mailbox, behind a
\* session that is settling, or as the input of a new run.
Delivered(id) ==
    IF Active /\ ~run.aborted
      THEN /\ run' = [run EXCEPT !.mail = @ \cup {id}]
           /\ UNCHANGED posts
    ELSE IF run.phase # "none"
      THEN /\ posts' = posts \cup {[id |-> id, via |-> "wake", to |-> 0]}
           /\ UNCHANGED run
    ELSE /\ CanLaunch
         /\ run' = NewRun(FALSE)
         /\ UNCHANGED posts

Init ==
    /\ rt = [goal |-> NoGoal, context |-> FALSE, timer |-> 0, next |-> 1,
             initialized |-> FALSE]
    /\ book = [messages |-> <<>>, copy |-> <<>>, pending |-> {},
               durable |-> [i \in 1..MaxMessages |-> {}]]
    /\ run = [no |-> 0, phase |-> "none", user |-> FALSE, aborted |-> FALSE,
              mail |-> {}, before |-> 0, deferred |-> FALSE]
    /\ posts = {} /\ proposal = 0 /\ bg = 0 /\ restarts = 0
    /\ touched = FALSE /\ stoppedAt = 0 /\ wakes = 0

UserActs == wakes' = 0 /\ UNCHANGED stoppedAt

SendMessage ==
    /\ CanLaunch
    /\ run' = NewRun(TRUE)
    /\ UserActs
    /\ UNCHANGED <<rt, book, posts, proposal, bg, restarts, touched>>

\* After the first awaits of runAgent: restore the goal, take the history.
Prepare ==
    /\ run.phase = "starting" /\ ~run.aborted /\ Ids(1)
    /\ rt' = Restored(rt, book.messages)
    /\ book' = [book EXCEPT !.copy = book.messages]
    /\ run' = [run EXCEPT !.phase = "prepared"]
    /\ UNCHANGED <<posts, proposal, bg, restarts, touched, stoppedAt, wakes>>

\* bindGoalRun and the session's input message.
Bind ==
    /\ run.phase = "prepared" /\ ~run.aborted /\ Room(1)
    /\ rt' = IF run.user THEN [Bound(rt) EXCEPT !.goal.idle = 0] ELSE Bound(rt)
    /\ book' = Committed(book, "user")
    /\ run' = [run EXCEPT !.phase = "working"]
    /\ UNCHANGED <<posts, proposal, bg, restarts, touched, stoppedAt, wakes>>

\* The run ends before there is a session: a hook refuses the prompt, or the
\* abort is noticed.  The driver's finally is not reached.
EndEarly ==
    /\ run.phase \in {"starting", "prepared"} /\ Ids(1)
    /\ run.aborted \/ (run.phase = "prepared" /\ run.user)
    /\ rt' = Paused(rt)
    /\ book' = [book EXCEPT !.copy = <<>>]
    /\ run' = [run EXCEPT !.phase = "settling", !.mail = {}]
    /\ posts' = posts \cup IF 0 \in run.mail
                             THEN {[id |-> 0, via |-> "wake", to |-> 0]} ELSE {}
    /\ UNCHANGED <<proposal, bg, restarts, touched, stoppedAt, wakes>>

\* injectInterjections: the mailbox is emptied, what is still wanted becomes
\* user messages.
Injected(b) == IF Wanted(run.mail) = {} THEN b ELSE Committed(b, "user")

\* A reply with tool calls, and their results; one of the tools may ask for
\* the end of the run (stopAfterTool), and then the mailbox is not looked at.
UseTools ==
    LET replied == Committed(Committed(book, "assistant"), "tool")
    IN /\ run.phase = "working" /\ ~run.aborted /\ Room(3)
       /\ \/ /\ book' = Injected(replied)
             /\ run' = [run EXCEPT !.mail = {}]
             /\ UNCHANGED <<rt, posts, proposal>>
          \/ Finish(rt, replied, "done")
       /\ UNCHANGED <<bg, restarts, touched, stoppedAt, wakes>>

\* The synchronous part of handleTurnEnd.
Judging(r) ==
    IF ~HasGoal(r) THEN r
    ELSE IF bg # 0
      THEN Armed([r EXCEPT !.goal.deferred = TRUE, !.context = TRUE])
      ELSE [r EXCEPT !.goal.deferred = FALSE, !.timer = 0]

\* A reply without calls to execute ends the turn: input that arrived goes
\* first, otherwise the Stop hooks are asked.  Calls in a reply that ends the
\* turn are closed unexecuted, and their results follow it.
EndTurn(odd) ==
    LET replied == IF odd THEN Committed(Committed(book, "assistant"), "tool")
                          ELSE Committed(book, "assistant")
    IN /\ run.phase = "working" /\ ~run.aborted
       /\ Room(1) /\ (odd => OddReplies /\ Room(2))
       /\ Wanted(run.mail) # {} => Room(IF odd THEN 3 ELSE 2)
       /\ book' = Injected(replied)
       /\ IF Wanted(run.mail) # {}
            THEN /\ run' = [run EXCEPT !.mail = {}]
                 /\ UNCHANGED <<rt, touched>>
            ELSE /\ rt' = Judging(rt)
                 /\ run' = [run EXCEPT !.phase = "judging", !.mail = {},
                                !.before = rt.goal.id,
                                !.deferred = HasGoal(rt) /\ bg # 0]
                 /\ touched' = FALSE
       /\ UNCHANGED <<posts, proposal, bg, restarts, stoppedAt, wakes>>

\* Mutant: a verdict belongs to the goal there is.
AnyGoal == HasGoal(rt)

\* A verdict belongs to the identity that was evaluated.
Unchanged == HasGoal(rt) /\ rt.goal.id = run.before

Accepted == Unchanged /\ ~run.deferred

\* met or impossible: the goal is over and the run ends.
JudgedMet ==
    /\ run.phase = "judging" /\ ~run.aborted /\ Accepted
    /\ Finish(Cleared(rt), Attached(book, Mark(book, "met", rt.goal.of)), "done")
    /\ UNCHANGED <<bg, restarts, touched, stoppedAt, wakes>>

\* not met: the run goes on with the evaluator's reason, or stops with a
\* warning after too many turns without tools; it still takes waiting input.
JudgedNotMet ==
    LET judged == Attached(book, Mark(book, "open", rt.goal.of))
    IN /\ run.phase = "judging" /\ ~run.aborted /\ Accepted
       /\ \/ /\ Room(1)
             /\ book' = Committed(judged, "user")
             /\ run' = [run EXCEPT !.phase = "working"]
             /\ UNCHANGED <<rt, posts, proposal>>
          \/ /\ Wanted(run.mail) # {} /\ Room(1)
             /\ book' = Injected(judged)
             /\ run' = [run EXCEPT !.phase = "working", !.mail = {}]
             /\ UNCHANGED <<rt, posts, proposal>>
          \/ /\ Wanted(run.mail) = {}
             /\ Finish(rt, judged, "done")
       /\ UNCHANGED <<bg, restarts, touched, stoppedAt, wakes>>

\* No verdict: no goal, another goal by now, a hook that timed out, or
\* background work.  A deferred goal may be due for a check-in in this turn.
NotJudged ==
    /\ run.phase = "judging" /\ ~run.aborted
    /\ \/ /\ Wanted(run.mail) # {} /\ Room(1)
          /\ book' = Injected(book)
          /\ run' = [run EXCEPT !.phase = "working", !.mail = {}]
          /\ UNCHANGED <<rt, posts, proposal>>
       \/ /\ Wanted(run.mail) = {}
          /\ Finish(rt, book, "done")
       \/ /\ run.deferred /\ Unchanged /\ Room(1)
          /\ rt' = Armed(rt)
          /\ book' = Committed(book, "user")
          /\ run' = [run EXCEPT !.phase = "working"]
          /\ UNCHANGED <<posts, proposal>>
    /\ UNCHANGED <<bg, restarts, touched, stoppedAt, wakes>>

\* Upstream fails, or the abort is noticed; half a reply may be kept.
Break ==
    /\ run.phase \in {"working", "judging"} /\ Ids(1)
    /\ \E b \in {book} \cup IF run.phase = "working" /\ Room(1)
                               THEN {Committed(book, "assistant")} ELSE {} :
          Finish(rt, b, IF run.aborted THEN "aborted" ELSE "error")
    /\ UNCHANGED <<bg, restarts, touched, stoppedAt, wakes>>

\* The session is free again.
Settle ==
    /\ run.phase = "settling"
    /\ run' = [run EXCEPT !.phase = "none", !.aborted = FALSE]
    /\ UNCHANGED <<rt, book, posts, proposal, bg, restarts, touched, stoppedAt, wakes>>

\* The user presses Stop (services/agent.ts abortRun): pause, withdraw the
\* proposal, abort the run with the background children it dispatched.
Stop ==
    /\ Active /\ ~run.aborted /\ Ids(2)
    /\ rt' = Paused(rt)
    /\ proposal' = 0
    /\ run' = [run EXCEPT !.aborted = TRUE]
    /\ bg' = IF bg = run.no THEN 0 ELSE bg
    /\ touched' = TRUE /\ stoppedAt' = rt.next
    /\ UNCHANGED <<book, posts, restarts, wakes>>

-----------------------------------------------------------------------------
(* What the user and the model do with the goal *)

\* recordStatus of the goal activated in the same breath
RecordsOpen == book' = Recorded(book, Mark(book, "open", rt.next))

\* goal:set; the window sends the kickoff afterwards, to the run it believes
\* active or as the input of a new run.
SetGoal ==
    /\ Ids(2)
    /\ rt' = Activated(rt, rt.next) /\ RecordsOpen
    /\ \E via \in IF Active THEN {"run"}
                  ELSE IF run.phase = "settling" THEN {"run", "start"}
                  ELSE {"start"} :
          posts' = posts \cup {[id |-> rt.next, via |-> via, to |-> run.no]}
    /\ proposal' = 0
    /\ touched' = TRUE
    /\ UserActs
    /\ UNCHANGED <<run, bg, restarts>>

\* goal:clear; without a goal it still withdraws a proposal that is open.
ClearGoal ==
    LET r == Restored(rt, book.messages)
    IN /\ Ids(1)
       /\ \/ /\ HasGoal(r)
             /\ rt' = Cleared(r)
             /\ book' = Recorded(book, Mark(book, "cleared", r.goal.of))
          \/ ~HasGoal(r) /\ rt' = r /\ UNCHANGED book
       /\ proposal' = 0
       /\ touched' = TRUE
       /\ UserActs
       /\ UNCHANGED <<run, posts, bg, restarts>>

OpenSession ==
    /\ ~rt.initialized /\ Ids(1)
    /\ rt' = Restored(rt, book.messages)
    /\ UNCHANGED <<book, run, posts, proposal, bg, restarts, touched, stoppedAt, wakes>>

\* The ProposeGoal tool: set at once, or a question that outlives the run.
Propose ==
    /\ run.phase = "working" /\ ~run.aborted /\ proposal = 0
    /\ \/ /\ Ids(2)
          /\ rt' = Bound(Activated(rt, rt.next)) /\ RecordsOpen
          /\ run' = [run EXCEPT !.mail = @ \cup {rt.next}]
          /\ wakes' = 0
          /\ UNCHANGED proposal
       \/ /\ proposal' = run.no
          /\ UNCHANGED <<rt, book, run, wakes>>
    /\ UNCHANGED <<posts, bg, restarts, touched, stoppedAt>>

\* The answer; an approved goal is bound to the context of the run that
\* asked, and its kickoff goes where internal input goes.
Approve ==
    /\ proposal # 0 /\ Ids(2)
    /\ proposal' = 0
    /\ rt' = Bound(Activated(rt, rt.next)) /\ RecordsOpen
    /\ IF Active /\ run.aborted THEN UNCHANGED <<run, posts>> ELSE Delivered(rt.next)
    /\ touched' = TRUE
    /\ UserActs
    /\ UNCHANGED <<bg, restarts>>

Decline ==
    /\ proposal # 0
    /\ proposal' = 0
    /\ UserActs
    /\ UNCHANGED <<rt, book, run, posts, bg, restarts, touched>>

-----------------------------------------------------------------------------
(* Goal input under way, background work, the check-in timer, restarts *)

\* Internal input reaches a run's mailbox or starts a run; input for an
\* identity that has changed, and input to a run that has ended, is dropped.
\* setInterject replaces the user's items only: internal ones are kept by id.
Arrive ==
    \E p \in posts :
        /\ posts' = posts \ {p}
        /\ \/ /\ p.via = "run"
              /\ run' = IF Active /\ ~run.aborted /\ p.to = run.no
                          THEN [run EXCEPT !.mail = @ \cup {p.id}] ELSE run
           \/ /\ p.via \in {"start", "wake"}
              /\ p.via = "wake" => run.phase = "none"
              /\ IF run.phase = "none" /\ Wanted({p.id}) # {}
                   THEN CanLaunch /\ run' = NewRun(FALSE) ELSE UNCHANGED run
        /\ UNCHANGED <<rt, book, proposal, bg, restarts, touched, stoppedAt, wakes>>

Dispatch ==
    /\ run.phase = "working" /\ ~run.aborted /\ bg = 0
    /\ bg' = run.no
    /\ UNCHANGED <<rt, book, run, posts, proposal, restarts, touched, stoppedAt, wakes>>

\* A background child ends; unless it was aborted its result is reported.
ChildDone ==
    /\ bg # 0
    /\ bg' = 0
    /\ Delivered(0) \/ UNCHANGED <<run, posts>>
    /\ UNCHANGED <<rt, book, proposal, restarts, touched, stoppedAt, wakes>>

\* The check-in timer fires: not for another identity or a goal no longer
\* deferred; to an idle session at most IdleCap times.  A delivery that
\* fails is tried again later.
TimerFires ==
    LET sent == [rt EXCEPT !.timer = 0, !.goal.idle = @ + 1]
    IN /\ rt.timer # 0
       /\ IF rt.goal.id # rt.timer \/ ~rt.goal.deferred
            THEN rt' = [rt EXCEPT !.timer = 0] /\ UNCHANGED <<run, posts, wakes>>
          ELSE IF ~Active /\ rt.goal.idle < IdleCap /\ rt.context
            THEN /\ Delivered(rt.goal.id)
                 /\ rt' = Armed(sent)
                 /\ wakes' = wakes + 1
            ELSE rt' = Armed(rt) /\ UNCHANGED <<run, posts, wakes>>
       /\ UNCHANGED <<book, proposal, bg, restarts, touched, stoppedAt>>

Restart ==
    /\ restarts < MaxRestarts
    /\ restarts' = restarts + 1
    /\ rt' = [rt EXCEPT !.goal = NoGoal, !.context = FALSE, !.timer = 0,
                        !.initialized = FALSE]
    /\ book' = [book EXCEPT !.copy = <<>>, !.pending = {},
                            !.durable = [i \in 1..MaxMessages |-> {}]]
    /\ run' = [run EXCEPT !.phase = "none", !.aborted = FALSE, !.mail = {}]
    /\ posts' = {} /\ proposal' = 0 /\ bg' = 0
    /\ wakes' = 0
    /\ UNCHANGED <<touched, stoppedAt>>

Next ==
    \/ SendMessage \/ Prepare \/ Bind \/ EndEarly \/ UseTools
    \/ \E odd \in BOOLEAN : EndTurn(odd)
    \/ JudgedMet \/ JudgedNotMet \/ NotJudged \/ Break \/ Settle \/ Stop
    \/ SetGoal \/ ClearGoal \/ OpenSession \/ Propose \/ Approve \/ Decline
    \/ Arrive \/ Dispatch \/ ChildDone \/ TimerFires \/ Restart

Spec == Init /\ [][Next]_vars

-----------------------------------------------------------------------------
(* Properties *)

\* What the transcript says is what the process holds: once an assistant has
\* answered in the session, a restart at any moment brings back the goal that is
\* active and no other (restoreGoal, recordStatus, attachUiParts, the rewrite at
\* the end of a run).  Before its first assistant message a session has nowhere
\* to put markers: they wait in pendingStatuses, which is memory, and a goal set
\* then is lost in a restart.
TranscriptTellsGoal ==
    rt.initialized /\ (\E i \in DOMAIN book.messages : book.messages[i].role = "assistant")
        => Restorable(book.messages) = rt.goal.of

\* A verdict never ends or counts against a goal that was set, ended or
\* paused after its evaluation began (handleTurnEnd, `unchanged').
VerdictsAreCurrent ==
    [][\A m \in Marks(book') \ Marks(book) :
          m.kind = "met" \/ (m.kind = "open" /\ m.of = rt.goal.of)
            => ~touched /\ ~run.aborted]_vars

\* Identities whose goal input this step hands to the model: as the input of
\* a new run, or out of the mailbox of the one that works.
Heard ==
    (IF run'.no > run.no THEN {p.id : p \in posts \ posts'}
     ELSE IF run'.phase = "working" THEN Wanted(run.mail) \ run'.mail
     ELSE {}) \ {0}

\* Kickoffs and check-ins that were under way when the user pressed Stop never
\* reach the model, whatever starts the session again (pauseGoal rotates the
\* identity, acceptsGoalInput is asked when the input is taken).
StopIsQuiet == [][\A id \in Heard : id >= stoppedAt]_vars

\* For one goal, an idle session is woken at most IdleCap times between two acts
\* of the user, whatever the runs it wakes do (idleCheckinCount, bindGoalRun).
IdleWakesBounded == wakes <= IdleCap

\* Goal input for the goal there is reaches the run it was sent to or starts
\* one; a run that has just ended costs nothing, since the entry is still
\* queued and is sent when the run is over (main/ipc/agent.ts:222-226).
KickoffDelivered ==
    [][\A p \in posts \ posts' :
          p.id # 0 /\ p.id = rt.goal.id /\ p.via = "run" /\ ~Active
            => p.id \in run'.mail \/ run'.no > run.no]_vars

-----------------------------------------------------------------------------
(* The inductive invariant behind the bound on check-ins and behind Stop:    *)
(* every check-in since the user's last act has been counted against the     *)
(* goal there is, and every goal carries an identity newer than that Stop.    *)

WellFormed(r) ==
    /\ DOMAIN r = {"goal", "context", "timer", "next", "initialized"}
    /\ DOMAIN r.goal = {"id", "of", "deferred", "idle"}
    /\ r.goal.id \in Nat /\ r.goal.idle \in Nat /\ r.next \in Nat \ {0}
    /\ r.goal.id < r.next
    /\ r.goal.id = 0 => ~HasGoal(r)
    /\ ~r.initialized => ~HasGoal(r)

GoalInv ==
    /\ WellFormed(rt)
    /\ DOMAIN run = {"no", "phase", "user", "aborted", "mail", "before", "deferred"}
    /\ run.no \in Nat /\ wakes \in Nat /\ stoppedAt \in Nat
    /\ stoppedAt <= rt.next
    /\ HasGoal(rt) => stoppedAt <= rt.goal.id /\ wakes <= rt.goal.idle
    /\ wakes <= IdleCap
    /\ ~rt.initialized => wakes = 0
    /\ run.phase \in {"starting", "prepared"} /\ run.user => wakes = 0
=============================================================================
