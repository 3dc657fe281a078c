--------------------------- MODULE TerminalStream ---------------------------
(***************************************************************************)
(* The output of one remote terminal, from the PTY on the device to the    *)
(* xterm in a window of the controlling desktop:                           *)
(*                                                                         *)
(*   TerminalManager (agent/server/terminals.ts)  batches the output,      *)
(*     keeps a ring buffer and numbers what it emits;                      *)
(*   terminals.attach (methods/terminals.ts)  answers with a snapshot and  *)
(*     replaces the connection's subscription;                             *)
(*   ControllerClient (controller-client/client.ts)  matches answers with  *)
(*     calls and checks that each event follows the one before it;         *)
(*   TerminalBridge (main/device/terminal-bridge.ts)  follows the stream   *)
(*     and attaches again when the client reports a gap;                   *)
(*   TerminalView (renderer)  subscribes, asks for the buffer and joins    *)
(*     the two.                                                            *)
(*                                                                         *)
(* A batch of output is the number of the event that carries it.  The      *)
(* frames of one connection arrive in order or not at all.  An answer      *)
(* wakes its caller in a later microtask: the frame behind it may be       *)
(* handled first.  The input lease of the same terminal is the subject of  *)
(* DeviceTerminals.                                                        *)
(***************************************************************************)
EXTENDS Naturals, Sequences, SequencesExt

CONSTANTS
    Keep,           \* batches that fit into the ring buffer (TERMINAL_BUFFER_BYTES)
    MaxEvents,      \* bound: events the terminal emits
    MaxMounts,      \* bound: times the tab is mounted
    MaxSkips,       \* bound: event frames the device skips as too large
    MaxFailures,    \* bound: calls that fail or time out
    Connected       \* bound: whether the connection stays up (FALSE: it may end)

ASSUME TerminalStreamAssumption ==
    /\ Keep \in Nat \ {0}
    /\ {MaxEvents, MaxMounts, MaxSkips, MaxFailures} \subseteq Nat
    /\ Connected \in BOOLEAN

VARIABLES
    pty,        \* device: Session -- pending, seq, exitAt (0 while it runs)
    sub,        \* device: the connection's subscription and its `last`
    requests,   \* attach calls under way to the device
    frames,     \* frames under way to the desktop
    up,         \* the connection
    sent,       \* ControllerClient.requestSequence
    waiting,    \* ControllerClient.pending: the calls that still wait
    settled,    \* calls whose promise is settled and whose caller has not run on
    stream,     \* ControllerClient.streams["terminal:<id>"]
    entry,      \* TerminalBridge.entries[localId]: "alive", "ended" or "dropped"
    reply,      \* what the main process has answered and the view has not read
    view,       \* the mounted TerminalView
    reported,   \* history: a gap was reported since the view was mounted
    clean,      \* history: no frame skipped, no call failed since then
    skips,      \* bound: frames skipped so far
    failures    \* bound: calls failed so far

device == <<pty, sub>>
client == <<sent, waiting, settled, stream>>
history == <<reported, clean, skips, failures>>
vars == <<device, requests, frames, up, client, entry, reply, view, history>>

-----------------------------------------------------------------------------
(* The device.                                                             *)

NoSub == [on |-> FALSE, last |-> 0]

Alive(session) == session.exitAt = 0

\* The events that carry output: all but the exit.
Batches(session) == IF Alive(session) THEN session.seq ELSE session.exitAt - 1

\* The numbers first .. last, as a sequence.
Run(first, last) == [i \in 1..(last + 1 - first) |-> first + i - 1]

\* What the ring buffer holds: the last Keep batches.
Buffer(session) ==
    LET n == Batches(session)
    IN  Run(IF n > Keep THEN n - Keep + 1 ELSE 1, n)

Flushed(session) ==
    IF session.pending
    THEN [session EXCEPT !.pending = FALSE, !.seq = @ + 1] ELSE session

Exited(session) ==
    [session EXCEPT !.seq = @ + 1, !.exitAt = session.seq + 1]

\* publish: event n, linked to the event the subscription published before.
EventFrame(session, n, previous) ==
    [kind |-> IF n = session.exitAt THEN "exit" ELSE "data",
     cursor |-> n, previous |-> previous]

\* pushEvent: a frame above the negotiated limit is skipped although the
\* subscription has moved past it.
Pushed(session, n, previous, skipped) ==
    IF n \in skipped THEN <<>> ELSE <<EventFrame(session, n, previous)>>

\* The events from `before` to `after`: none, one, or output and an exit.
Published(before, after, skipped) ==
    LET first == before.seq + 1
    IN  (IF after.seq < first THEN <<>> ELSE Pushed(after, first, sub.last, skipped))
        \o (IF after.seq <= first THEN <<>> ELSE Pushed(after, first + 1, first, skipped))

\* emit: the session goes from `before` to `after`; its subscriber is told.
Emit(before, after, subscription, answer) ==
    \E skipped \in SUBSET ((before.seq + 1)..after.seq) :
        /\ skipped # {} => sub.on /\ skips < MaxSkips
        /\ skips' = IF skipped = {} THEN skips ELSE skips + 1
        /\ clean' = (clean /\ skipped = {} /\ \A i \in DOMAIN answer : answer[i].ok)
        /\ pty' = after
        /\ sub' = subscription
        /\ frames' = frames \o (IF sub.on THEN Published(before, after, skipped)
                                          ELSE <<>>) \o answer

Moved(after) == IF sub.on THEN [sub EXCEPT !.last = after.seq] ELSE sub

\* onData below the batch limit: the output waits for the timer.
Output ==
    /\ Alive(pty)
    /\ ~pty.pending
    /\ pty.seq + 2 <= MaxEvents
    /\ pty' = [pty EXCEPT !.pending = TRUE]
    /\ UNCHANGED <<sub, requests, frames, up, client, entry, reply, view, history>>

\* The flush timer, or onData at the batch limit.
Flush ==
    /\ pty.pending
    /\ Emit(pty, Flushed(pty), Moved(Flushed(pty)), <<>>)
    /\ UNCHANGED <<requests, up, client, entry, reply, view, reported, failures>>

Exit ==
    /\ Alive(pty)
    /\ LET after == Exited(Flushed(pty)) IN Emit(pty, after, Moved(after), <<>>)
    /\ UNCHANGED <<requests, up, client, entry, reply, view, reported, failures>>

\* terminals.attach: flush to the subscriber of before, then snapshot and new
\* subscription in one block.  An answer that can not be encoded (a buffer cut
\* inside a character) is an error, and the subscription is replaced all the
\* same.
Attached(session) == [on |-> TRUE, last |-> session.seq]

Answer(id, ok, session) ==
    [kind |-> "answer", id |-> id, ok |-> ok, alive |-> Alive(session),
     seq |-> session.seq, data |-> Buffer(session)]

Attach ==
    /\ requests # <<>>
    /\ requests' = Tail(requests)
    /\ LET after == Flushed(pty)
       IN  \E ok \in BOOLEAN :
               /\ ~ok => failures < MaxFailures
               /\ failures' = IF ok THEN failures ELSE failures + 1
               /\ Emit(pty, after, Attached(after), <<Answer(Head(requests), ok, after)>>)
    /\ UNCHANGED <<up, client, entry, reply, view, reported>>

-----------------------------------------------------------------------------
(* The window.                                                             *)

NoReply == [for |-> "none", ok |-> FALSE, alive |-> FALSE, seq |-> 0, data |-> <<>>]

Mounted(n) ==
    [mount |-> n, phase |-> "creating", alive |-> FALSE, failed |-> FALSE,
     status |-> "starting", lastSeq |-> 0, queued |-> <<>>, shown |-> <<>>,
     read |-> FALSE, metExit |-> FALSE]

\* onTerminalData: what the buffer already holds is dropped; what arrives
\* before the buffer waits for it.
Written(v, item) ==
    IF item.seq <= v.lastSeq THEN v
    ELSE IF v.phase # "ready" THEN [v EXCEPT !.queued = Append(@, item)]
    ELSE [v EXCEPT !.lastSeq = item.seq, !.shown = @ \o item.data]

\* onTerminalExit.
ToldExit(v) == [v EXCEPT !.status = "exited"]

\* What has waited, by number: a stable sort.
BySeq(items) ==
    LET before(i) == {j \in DOMAIN items :
                          \/ items[j].seq < items[i].seq
                          \/ items[j].seq = items[i].seq /\ j < i}
        at(k) == CHOOSE i \in DOMAIN items : Cardinality(before(i)) = k - 1
    IN  [k \in DOMAIN items |-> items[at(k)]]

\* It is written one after the other.
CaughtUp(v, items) ==
    LET written[i \in 0..Len(items)] ==
            IF i = 0 THEN v ELSE Written(written[i - 1], BySeq(items)[i])
    IN  written[Len(items)]

\* hydrateBuffer: the buffer, then what has waited.
Hydrated(v, r) ==
    LET started == [v EXCEPT !.phase = "ready", !.queued = <<>>,
                             !.read = r.ok, !.shown = IF r.ok THEN r.data ELSE <<>>,
                             !.lastSeq = IF r.ok THEN r.seq ELSE 0]
        caughtUp == CaughtUp(started, v.queued)
    IN  [started EXCEPT !.shown = caughtUp.shown, !.lastSeq = caughtUp.lastSeq]

\* start, after hydrateBuffer: the status is the one create answered with.
Settled(v) ==
    [v EXCEPT !.status = IF v.failed THEN "error"
                         ELSE IF v.alive THEN "connected" ELSE "exited",
              !.metExit = ~Alive(pty)]

-----------------------------------------------------------------------------
(* ControllerClient and TerminalBridge.                                    *)

NoStream == [on |-> FALSE, cursor |-> 0, previous |-> {}, stale |-> FALSE]

\* follow: the stream starts at the snapshot's cursor; lastPrevious is unset.
Followed(cursor) == [on |-> TRUE, cursor |-> cursor, previous |-> {}, stale |-> FALSE]

Call(purpose) == [id |-> sent + 1, for |-> purpose, mount |-> view.mount]

\* query('terminals.attach').
Ask(call) ==
    /\ sent' = sent + 1
    /\ waiting' = waiting \cup {call}
    /\ requests' = Append(requests, call.id)

Outcome(call, answer) ==
    [call |-> call, ok |-> answer.ok, alive |-> answer.alive,
     seq |-> answer.seq, data |-> answer.data]

\* A response wakes the caller it belongs to; one nobody waits for is ignored.
ReceiveAnswer(frame) ==
    /\ waiting' = {call \in waiting : call.id # frame.id}
    /\ \/ waiting' = waiting /\ UNCHANGED settled
       \/ \E call \in waiting \ waiting' : settled' = Append(settled, Outcome(call, frame))
    /\ UNCHANGED <<sent, requests, stream, entry, view, reported>>

\* An event the stream has passed: it must have the predecessor it had.
Repeats(frame) == frame.cursor = stream.cursor
Contradicts(frame) == stream.previous # {} /\ frame.previous \notin stream.previous
\* Mutant of InOrder: any later event will do.
InOrderIfLater(frame) == frame.cursor > stream.cursor
InOrder(frame) == ~Repeats(frame) /\ frame.previous = stream.cursor
Gap(frame) == IF Repeats(frame) THEN Contradicts(frame) ELSE ~InOrder(frame)

\* onResyncRequired: TerminalBridge.resync stops following and attaches again;
\* an entry that has ended keeps its stale stream.
Resync ==
    /\ reported' = TRUE
    /\ UNCHANGED <<settled, entry, view>>
    /\ IF entry = "alive"
       THEN Ask(Call("resync")) /\ stream' = NoStream
       ELSE /\ stream' = [stream EXCEPT !.stale = TRUE]
            /\ UNCHANGED <<sent, waiting, requests>>

\* The listener of TerminalBridge.attach.
Deliver(frame) ==
    /\ IF frame.kind = "data"
       THEN /\ view' = Written(view, [seq |-> frame.cursor, data |-> <<frame.cursor>>])
            /\ stream' = [stream EXCEPT !.cursor = frame.cursor,
                                        !.previous = {frame.previous}]
            /\ UNCHANGED entry
       ELSE /\ view' = ToldExit(view)
            /\ stream' = NoStream
            /\ entry' = IF entry = "alive" THEN "ended" ELSE entry
    /\ UNCHANGED <<sent, waiting, requests, settled, reported>>

Ignored == UNCHANGED <<sent, waiting, requests, settled, stream, entry, view, reported>>

ReceiveEvent(frame) ==
    IF ~stream.on \/ stream.stale THEN Ignored
    ELSE IF Gap(frame) THEN Resync
    ELSE IF Repeats(frame) THEN Ignored
    ELSE Deliver(frame)

Receive ==
    /\ frames # <<>>
    /\ frames' = Tail(frames)
    /\ IF Head(frames).kind = "answer"
       THEN ReceiveAnswer(Head(frames)) ELSE ReceiveEvent(Head(frames))
    /\ UNCHANGED <<device, up, reply, clean, skips, failures>>

\* The main process answers the window that still waits for it.
ReplyTo(call, ok, outcome) ==
    IF call.for # "resync" /\ call.mount = view.mount
    THEN [for |-> call.for, ok |-> ok, seq |-> outcome.seq, data |-> outcome.data,
          alive |-> (call.for = "create" \/ outcome.alive)]
    ELSE reply

\* TerminalBridge.attach after its await: follow from the snapshot; a terminal
\* that has exited is not followed.  create shows the snapshot at once; resync
\* has no use for it.
Proceed(outcome) ==
    /\ stream' = IF outcome.alive THEN Followed(outcome.seq) ELSE NoStream
    /\ entry' = IF entry = "alive" /\ ~outcome.alive THEN "ended" ELSE entry
    /\ view' = IF outcome.call.for = "create" /\ outcome.data # <<>>
               THEN Written(view, [seq |-> outcome.seq, data |-> outcome.data])
               ELSE view

\* Mutant of GivenUp: the entry of a resync that failed stays.
StillHeld(call) == entry

\* A resync that fails gives the entry up.
GivenUp(call) == IF call.for = "resync" THEN "dropped" ELSE entry

Fail(call) ==
    /\ entry' = GivenUp(call)
    /\ stream' = IF call.for = "resync" THEN NoStream ELSE stream
    /\ UNCHANGED view

RunOn ==
    /\ settled # <<>>
    /\ settled' = Tail(settled)
    /\ LET outcome == Head(settled)
           ok == outcome.ok /\ up
       IN  /\ IF ok THEN Proceed(outcome) ELSE Fail(outcome.call)
           /\ reply' = ReplyTo(outcome.call, ok, outcome)
    /\ UNCHANGED <<device, requests, frames, up, sent, waiting, history>>

Failed(call) == [call |-> call, ok |-> FALSE, alive |-> FALSE, seq |-> 0, data |-> <<>>]

\* The client's own timer; the device may still act on the request.
Timeout ==
    \E call \in waiting :
        /\ failures < MaxFailures
        /\ failures' = failures + 1
        /\ clean' = FALSE
        /\ waiting' = waiting \ {call}
        /\ settled' = Append(settled, Failed(call))
        /\ UNCHANGED <<device, requests, frames, up, sent, stream, entry, reply,
                       view, reported, skips>>

\* ControllerClient.detach when the transport closes: streams and calls end;
\* the bridge keeps its entry.
Lose ==
    /\ ~Connected
    /\ up
    /\ up' = FALSE
    /\ sub' = NoSub
    /\ requests' = <<>>
    /\ frames' = <<>>
    /\ waiting' = {}
    /\ settled' = settled \o SetToSeq({Failed(call) : call \in waiting})
    /\ stream' = NoStream
    /\ UNCHANGED <<pty, sent, entry, reply, view, history>>

\* The view's calls.  Without a connection, or without an entry to read, they
\* fail at once.
Invoke(purpose, possible) ==
    /\ UNCHANGED <<settled, stream>>
    /\ IF possible
       THEN /\ Ask([Call(purpose) EXCEPT !.mount = view'.mount])
            /\ reply' = NoReply
       ELSE /\ reply' = [NoReply EXCEPT !.for = purpose]
            /\ UNCHANGED <<sent, waiting, requests>>

\* create has answered, or has failed: read the buffer.
Created ==
    /\ reply.for \in {"create", "refresh"}
    /\ view' = [view EXCEPT !.phase = "filling", !.alive = reply.alive,
                            !.failed = ~reply.ok]
    /\ Invoke("buffer", up /\ entry # "dropped")
    /\ UNCHANGED <<device, frames, up, entry, history>>

Filled ==
    /\ reply.for = "buffer"
    /\ view' = Settled(Hydrated(view, reply))
    /\ reply' = NoReply
    /\ UNCHANGED <<device, requests, frames, up, client, entry, history>>

\* The tab is unmounted and mounted again: create finds the entry alive (a dead
\* one would be replaced by another terminal).
Remount ==
    /\ view.mount < MaxMounts
    /\ entry = "alive"
    /\ view' = Mounted(view.mount + 1)
    /\ reported' = FALSE
    /\ clean' = TRUE
    /\ Invoke("refresh", up)
    /\ UNCHANGED <<device, frames, up, entry, skips, failures>>

\* The button of a tab whose create failed: start runs again in the same view,
\* which keeps what it shows and its lastSeq.  create finds the entry alive and
\* attaches.  History: what is shown no longer joins a buffer that was read.
Restart ==
    /\ view.phase = "ready" /\ view.status = "error"
    /\ entry = "alive"
    /\ view' = [view EXCEPT !.status = "starting", !.read = FALSE]
    /\ clean' = FALSE
    /\ Invoke("restart", up)
    /\ UNCHANGED <<device, frames, up, entry, reported, skips, failures>>

\* hydrateBuffer has nothing left to do: the buffer is not read again.
Restarted ==
    /\ reply.for = "restart"
    /\ view' = Settled([view EXCEPT !.alive = reply.alive, !.failed = ~reply.ok])
    /\ reply' = NoReply
    /\ UNCHANGED <<device, requests, frames, up, client, entry, history>>

-----------------------------------------------------------------------------
\* terminals.create has answered, the entry is stored and its attach is sent.
Init ==
    /\ pty = [pending |-> FALSE, seq |-> 0, exitAt |-> 0]
    /\ sub = NoSub
    /\ requests = <<1>>
    /\ frames = <<>>
    /\ up = TRUE
    /\ sent = 1
    /\ waiting = {[id |-> 1, for |-> "create", mount |-> 1]}
    /\ settled = <<>>
    /\ stream = NoStream
    /\ entry = "alive"
    /\ reply = NoReply
    /\ view = Mounted(1)
    /\ reported = FALSE
    /\ clean = TRUE
    /\ skips = 0
    /\ failures = 0

Next ==
    \/ Output \/ Flush \/ Exit \/ Attach
    \/ Receive \/ RunOn \/ Timeout \/ Lose
    \/ Created \/ Filled \/ Remount \/ Restart \/ Restarted

Spec == Init /\ [][Next]_vars

-----------------------------------------------------------------------------
(* Properties.                                                             *)

\* Nothing is under way between the PTY and the view.
Quiet ==
    /\ ~pty.pending
    /\ requests = <<>> /\ frames = <<>> /\ settled = <<>>
    /\ reply = NoReply
    /\ view.phase = "ready"

Numbers(s, relation(_, _)) ==
    \A i \in 1..(Len(s) - 1) : relation(s[i], s[i + 1])

\* A terminal tab shows the output of its terminal in order and never twice.
\* When it could read the buffer, and no gap was reported since it was mounted,
\* nothing is missing in between, whichever came first of the snapshot, the
\* subscription replaced under it and the events queued for it.  This is not so
\* of a tab that was started again: it attaches and does not read the buffer, so
\* that a frame that was skipped just before is lost without a report.
ShownInOrder ==
    /\ Numbers(view.shown, LAMBDA m, n : m < n)
    /\ view.read /\ ~reported => Numbers(view.shown, LAMBDA m, n : n = m + 1)

\* When nothing is under way and nothing has gone wrong since it was mounted,
\* the tab shows the last output there is; and it does not pass for connected
\* when the shell has exited after the tab was ready.
ShowsAll ==
    Quiet /\ up /\ view.read /\ clean /\ ~reported /\ entry # "dropped" =>
        /\ Batches(pty) > 0 => view.shown # <<>> /\ Last(view.shown) = Batches(pty)
        /\ ~view.metExit /\ view.status = "connected" => Alive(pty)

\* The tab is in step with the device (agent/server/terminals.ts:117, "the
\* subscription and the snapshot in one synchronous block"; TerminalView.tsx).
InStep == ShownInOrder /\ ShowsAll

\* A terminal the bridge holds for alive is followed: whatever became of the
\* calls and resyncs, once nothing is under way the client has a stream for it
\* that is not stale, and the device publishes to this connection.  A tab in
\* status error is left out: the attach of its create has failed, the entry stays
\* alive, and nothing need follow it until the tab is started again.
IsFollowed ==
    Quiet /\ up /\ entry = "alive" /\ view.status # "error" =>
        stream.on /\ ~stream.stale /\ sub.on

\* Not so (see the README).  Every exit is told to the window
\* (main/device/terminal-bridge.ts:7, "output is pushed as terminal:data /
\* terminal:exit to the windows that subscribed").
ExitIsTold ==
    Quiet /\ up /\ clean /\ view.status = "connected" => Alive(pty)

\* Not so (see the README).  A gap means a frame the device had to skip
\* (agent/server/gateway.ts:190, "frames above the negotiated limit are
\* skipped -- the controller finds the gap at the next frame").
GapMeansSkip == reported /\ failures = 0 => skips > 0

=============================================================================
