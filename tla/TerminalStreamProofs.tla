------------------------ MODULE TerminalStreamProofs -------------------------
(***************************************************************************)
(* What holds of the terminal stream for a ring buffer of any size and any *)
(* number of events, mounts, skipped frames and failed calls, whether the  *)
(* connection stays up or not.  The invariants are proved in layers, each  *)
(* with the help of those before it:                                       *)
(*   - FollowInv, of the calls: a terminal that is held is followed, or a  *)
(*     call is under way that decides about it (IsFollowed);               *)
(*   - ChannelInv, of the frames: they are in the order of their numbers;  *)
(*   - ViewInv, of the view: what it has is older than what is under way,  *)
(*     and in ascending order;                                             *)
(*   - JoinInv, of the output: the buffer that create or refresh has read, *)
(*     the events that waited for it and those that came after it are one  *)
(*     row (ShownInOrder);                                                 *)
(*   - CompleteInv, of what is missing: it is under way (ShowsAll).        *)
(* The last two give InStep.  None of them would do alone: that a snapshot *)
(* meets the events behind it, for one, needs the order of the frames.     *)
(***************************************************************************)
EXTENDS TerminalStream, SequenceTheorems, FiniteSetTheorems,
        WellFoundedInduction, NaturalsInduction, TLAPS

-----------------------------------------------------------------------------
(* Sequences                                                                *)

\* At most one place of s holds a member of T.
Once(s, T) == \A i, j \in DOMAIN s : s[i] \in T /\ s[j] \in T => i = j

LEMMA AppendFacts ==
    ASSUME NEW S, NEW s \in Seq(S), NEW e \in S, NEW T
    PROVE  /\ Append(s, e) \in Seq(S)
           /\ Append(s, e) # <<>>
           /\ ToSet(Append(s, e)) = ToSet(s) \cup {e}
           /\ Once(s, T) /\ (e \in T => ToSet(s) \cap T = {})
                  => Once(Append(s, e), T)
<1> DEFINE a == Append(s, e)
           n == Len(s)
<1>1. /\ a \in Seq(S) /\ n \in Nat /\ Len(a) = n + 1
      /\ DOMAIN s = 1 .. n /\ DOMAIN a = 1 .. n + 1
      /\ \A i \in 1 .. n : a[i] = s[i]
      /\ a[n + 1] = e
  BY AppendProperties, LenProperties
<1>2. 1 .. n + 1 = (1 .. n) \cup {n + 1}
  BY <1>1
<1>3. a # <<>>
  BY <1>1, EmptySeq
<1> HIDE DEF a, n
<1>4. ToSet(a) = ToSet(s) \cup {e}
  BY <1>1, <1>2 DEF ToSet
<1>5. ASSUME Once(s, T), e \in T => ToSet(s) \cap T = {}
      PROVE  Once(a, T)
  <2>1. ASSUME NEW i \in 1 .. n + 1, NEW j \in 1 .. n + 1, a[i] \in T, a[j] \in T
        PROVE  i = j
    <3>1. CASE i \in 1 .. n /\ j \in 1 .. n
      BY <1>1, <1>5, <2>1, <3>1 DEF Once
    <3>2. CASE i = n + 1 /\ j \in 1 .. n
      BY <1>1, <1>5, <2>1, <3>2 DEF ToSet
    <3>3. CASE j = n + 1 /\ i \in 1 .. n
      BY <1>1, <1>5, <2>1, <3>3 DEF ToSet
    <3>4. QED BY <1>2, <3>1, <3>2, <3>3
  <2>2. QED BY <1>1, <2>1 DEF Once
<1>6. QED BY <1>1, <1>3, <1>4, <1>5 DEF a

LEMMA TailFacts ==
    ASSUME NEW S, NEW s \in Seq(S), s # <<>>, NEW T
    PROVE  /\ Head(s) \in S
           /\ Tail(s) \in Seq(S)
           /\ ToSet(s) = {Head(s)} \cup ToSet(Tail(s))
           /\ Once(s, T) => /\ Once(Tail(s), T)
                            /\ Head(s) \in T => ToSet(Tail(s)) \cap T = {}
<1> DEFINE t == Tail(s)
           h == Head(s)
           n == Len(t)
<1>1. /\ t \in Seq(S) /\ h \in S /\ n \in Nat /\ Len(s) = n + 1
      /\ DOMAIN t = 1 .. n /\ DOMAIN s = 1 .. n + 1
      /\ h = s[1]
      /\ \A i \in 1 .. n : t[i] = s[i + 1]
  <2>1. t \in Seq(S) /\ Head(s) \in S /\ Head(s) = s[1]
    BY HeadTailProperties
  <2>2. n \in Nat /\ DOMAIN t = 1 .. n
    BY <2>1, LenProperties
  <2>3. Len(s) \in Nat /\ Len(t) = Len(s) - 1 /\ DOMAIN s = 1 .. Len(s)
    BY LenProperties, HeadTailProperties
  <2>4. \A i \in 1 .. n : t[i] = s[i + 1]
    BY HeadTailProperties
  <2>5. QED BY <2>1, <2>2, <2>3, <2>4
<1> HIDE DEF t, h, n
<1>2. \A i \in 1 .. n : i + 1 \in 1 .. n + 1 /\ i + 1 # 1
  BY <1>1
<1>3. \A i \in 1 .. n + 1 : i = 1 \/ \E k \in 1 .. n : i = k + 1
  <2>1. ASSUME NEW i \in 1 .. n + 1, i # 1 PROVE i - 1 \in 1 .. n /\ i = (i - 1) + 1
    BY <1>1, <2>1
  <2>2. QED BY <2>1
<1>4. 1 \in 1 .. n + 1
  BY <1>1
<1>5. ToSet(s) = {h} \cup ToSet(t)
  <2>1. ASSUME NEW i \in 1 .. n + 1 PROVE s[i] \in {h} \cup ToSet(t)
    <3>1. CASE i = 1
      BY <1>1, <3>1
    <3>2. CASE \E k \in 1 .. n : i = k + 1
      BY <1>1, <3>2 DEF ToSet
    <3>3. QED BY <1>3, <3>1, <3>2
  <2>2. ToSet(s) \subseteq {h} \cup ToSet(t)
    BY <1>1, <2>1 DEF ToSet
  <2>3. h \in ToSet(s)
    BY <1>1, <1>4 DEF ToSet
  <2>4. ToSet(t) \subseteq ToSet(s)
    BY <1>1, <1>2 DEF ToSet
  <2>5. QED BY <2>2, <2>3, <2>4
<1>6. ASSUME Once(s, T) PROVE Once(t, T)
  <2>1. ASSUME NEW i \in 1 .. n, NEW j \in 1 .. n, t[i] \in T, t[j] \in T
        PROVE  i = j
    <3>1. i + 1 = j + 1
      BY <1>1, <1>2, <1>6, <2>1 DEF Once
    <3>2. QED BY <1>1, <3>1
  <2>2. QED BY <1>1, <2>1 DEF Once
<1>7. ASSUME Once(s, T), h \in T PROVE ToSet(t) \cap T = {}
  BY <1>1, <1>2, <1>4, <1>7 DEF Once, ToSet
<1>8. QED BY <1>1, <1>5, <1>6, <1>7 DEF t, h

LEMMA ConcatFacts ==
    ASSUME NEW S, NEW s \in Seq(S), NEW t \in Seq(S)
    PROVE  /\ s \o t \in Seq(S)
           /\ ToSet(s) \subseteq ToSet(s \o t)
           /\ ToSet(t) \subseteq ToSet(s \o t)
           /\ s = <<>> => s \o t = t
<1> DEFINE c == s \o t
           m == Len(s)
           n == Len(t)
<1>1. /\ c \in Seq(S) /\ m \in Nat /\ n \in Nat
      /\ DOMAIN s = 1 .. m /\ DOMAIN t = 1 .. n /\ DOMAIN c = 1 .. m + n
      /\ \A i \in 1 .. m + n : c[i] = IF i <= m THEN s[i] ELSE t[i - m]
  BY ConcatProperties, LenProperties
<1>2. s = <<>> => c = t
  BY ConcatEmptySeq
<1> HIDE DEF c, m, n
<1>3. \A i \in 1 .. m : i \in 1 .. m + n /\ c[i] = s[i]
  BY <1>1
<1>4. \A j \in 1 .. n : m + j \in 1 .. m + n /\ c[m + j] = t[j]
  BY <1>1
<1>5. ToSet(s) \subseteq ToSet(c) /\ ToSet(t) \subseteq ToSet(c)
  <2>1. \A i \in DOMAIN s : s[i] \in ToSet(c)
    BY <1>1, <1>3 DEF ToSet
  <2>2. \A i \in DOMAIN t : t[i] \in ToSet(c)
    BY <1>1, <1>4 DEF ToSet
  <2>3. QED BY <2>1, <2>2 DEF ToSet
<1>6. QED BY <1>1, <1>2, <1>5 DEF c

LEMMA EmptyHasNone ==
    ASSUME NEW S, NEW s \in Seq(S)
    PROVE  /\ s = <<>> <=> ToSet(s) = {}
           /\ \A x \in ToSet(s) : x \in S
<1>1. /\ Len(s) \in Nat /\ DOMAIN s = 1 .. Len(s)
      /\ \A i \in 1 .. Len(s) : s[i] \in S
  BY LenProperties, ElementOfSeq
<1>2. s = <<>> => Len(s) = 0
  BY EmptySeq
<1>3. s # <<>> => Len(s) \in Nat \ {0}
  BY EmptySeq
<1>4. Len(s) \in Nat \ {0} => 1 \in DOMAIN s
  BY <1>1
<1>5. s = <<>> => DOMAIN s = {}
  BY <1>1, <1>2
<1>6. QED BY <1>1, <1>3, <1>4, <1>5 DEF ToSet

-----------------------------------------------------------------------------
(* The inductive invariant.  It speaks of the time the connection is up: a  *)
(* connection that has ended does not come back in this model.              *)

Calls == [id : Nat, for : {"create", "refresh", "buffer", "restart", "resync"},
          mount : Nat]

Outcomes == [call : Calls, ok : BOOLEAN, alive : BOOLEAN, seq : Nat, data : Seq(Nat)]

Answers == [kind : {"answer"}, id : Nat, ok : BOOLEAN, alive : BOOLEAN,
            seq : Nat, data : Seq(Nat)]

Events == [kind : {"data", "exit"}, cursor : Nat, previous : Nat]

Frames == Answers \cup Events

Ptys == [pending : BOOLEAN, seq : Nat, exitAt : Nat]

Subs == [on : BOOLEAN, last : Nat]

Streams == [on : BOOLEAN, cursor : Nat, previous : SUBSET Nat, stale : BOOLEAN]

Replies == [for : {"none", "create", "refresh", "buffer", "restart"}, ok : BOOLEAN,
            alive : BOOLEAN, seq : Nat, data : Seq(Nat)]

\* A view, whatever it shows.
IsView(v) ==
    v \in [mount : Nat, phase : {"creating", "filling", "ready"}, alive : BOOLEAN,
           failed : BOOLEAN, status : {"starting", "connected", "exited", "error"},
           lastSeq : {v.lastSeq}, queued : {v.queued}, shown : {v.shown},
           read : {v.read}, metExit : {v.metExit}]

Types ==
    /\ pty \in Ptys
    /\ sub \in Subs
    /\ requests \in Seq(Nat)
    /\ frames \in Seq(Frames)
    /\ sent \in Nat
    /\ waiting \subseteq Calls
    /\ settled \in Seq(Outcomes)
    /\ stream \in Streams
    /\ entry \in {"alive", "ended", "dropped"}
    /\ reply \in Replies
    /\ IsView(view)

\* The calls of the mounted view, and their outcomes.
Current == {call \in Calls : call.for # "resync" /\ call.mount = view.mount}
Mine == {outcome \in Outcomes : outcome.call \in Current}

\* Every call that waits has a request or an answer under way.
AnswersCome ==
    \A call \in waiting :
        \/ call.id \in ToSet(requests)
        \/ \E frame \in ToSet(frames) : frame.kind = "answer" /\ frame.id = call.id

\* A call has its number for itself, and no call is of a later mount.
CallsAreKnown ==
    /\ \A one, two \in waiting : one.id = two.id => one = two
    /\ \A call \in waiting : call.id <= sent /\ call.mount <= view.mount
    /\ \A outcome \in ToSet(settled) : outcome.call.mount <= view.mount

\* The view has at most one call: one that waits, one that is settled, or one that
\* is answered.
OneAtATime ==
    /\ \A one, two \in waiting \cap Current : one = two
    /\ Once(settled, Mine)
    /\ waiting \cap Current # {} => ToSet(settled) \cap Mine = {}
    /\ reply.for # "none" =>
           waiting \cap Current = {} /\ ToSet(settled) \cap Mine = {}

\* The call is the one its phase makes.
Fits(purpose) ==
    /\ view.phase = CASE purpose = "buffer" -> "filling"
                      [] purpose = "restart" -> "ready"
                      [] OTHER -> "creating"
    /\ purpose = "restart" => view.status # "error"

PhaseFits ==
    /\ \A call \in waiting \cap Current : Fits(call.for)
    /\ \A outcome \in ToSet(settled) \cap Mine : Fits(outcome.call.for)
    /\ reply.for # "none" => Fits(reply.for)
    /\ view.phase = "creating" => ~view.failed

\* The device publishes to whoever got anything from it.
Publishes ==
    \/ sub.on
    \/ /\ frames = <<>>
       /\ ~stream.on
       /\ \A outcome \in ToSet(settled) : ~outcome.ok

\* A call that makes the entry followed, or ended, or dropped, or the view failed.
Helps(call) ==
    call.for = "resync"
    \/ (call \in Current /\ call.for \in {"create", "refresh", "restart"})

Trying ==
    \/ \E call \in waiting : Helps(call)
    \/ \E outcome \in ToSet(settled) : Helps(outcome.call)
    \/ reply.for \in {"create", "refresh", "restart"} /\ ~reply.ok
    \/ view.failed /\ (view.phase = "ready" => view.status = "error")

Held == entry = "alive" => ~stream.stale /\ (stream.on \/ Trying)

\* What the call that is under way will do for the terminal.
InHand ==
    /\ Types
    /\ AnswersCome
    /\ CallsAreKnown
    /\ OneAtATime
    /\ PhaseFits
    /\ Publishes
    /\ Held

FollowInv == up => InHand

-----------------------------------------------------------------------------
(* Types                                                                    *)

\* What the device does to a session leaves it a session.
LEMMA SessionsAreTyped ==
    ASSUME NEW session \in Ptys
    PROVE  /\ Flushed(session) \in Ptys
           /\ Exited(session) \in Ptys
           /\ Batches(session) \in Nat
           /\ Buffer(session) \in Seq(Nat)
<1>1. Flushed(session) \in Ptys
  <2>1. session.seq + 1 \in Nat
    BY DEF Ptys
  <2> DEFINE quiet == [session EXCEPT !.pending = FALSE]
  <2>2. quiet \in Ptys
    BY DEF Ptys
  <2> HIDE DEF quiet
  <2>3. [quiet EXCEPT !.seq = session.seq + 1] \in Ptys
    BY <2>1, <2>2 DEF Ptys
  <2>4. Flushed(session) = IF session.pending
                           THEN [quiet EXCEPT !.seq = session.seq + 1] ELSE session
    BY Zenon DEF Flushed, quiet
  <2>5. QED BY <2>3, <2>4
<1>2. Exited(session) \in Ptys
  <2>1. session.seq + 1 \in Nat
    BY DEF Ptys
  <2>2. [session EXCEPT !.seq = session.seq + 1] \in Ptys
    BY <2>1 DEF Ptys
  <2>3. QED BY <2>1, <2>2 DEF Exited, Ptys
<1>3. Batches(session) \in Nat
  BY DEF Batches, Alive, Ptys
<1>4. ASSUME NEW first \in Nat \ {0}, NEW last \in Nat, first <= last + 1
      PROVE  Run(first, last) \in Seq(Nat)
  <2>1. last + 1 - first \in Nat
    BY <1>4
  <2>2. Run(first, last) \in [1 .. (last + 1 - first) -> Nat]
    BY <1>4, <2>1 DEF Run
  <2>3. QED BY <2>1, <2>2, SeqDef
<1>5. Keep \in Nat \ {0}
  BY TerminalStreamAssumption
<1>6. Buffer(session) \in Seq(Nat)
  <2>1. CASE Batches(session) > Keep
    <3>1. /\ Batches(session) - Keep + 1 \in Nat \ {0}
          /\ Batches(session) - Keep + 1 <= Batches(session) + 1
      BY <1>3, <1>5, <2>1
    <3>2. Buffer(session) = Run(Batches(session) - Keep + 1, Batches(session))
      BY <2>1 DEF Buffer
    <3>3. QED BY <1>3, <1>4, <3>1, <3>2
  <2>2. CASE ~(Batches(session) > Keep)
    <3>1. Buffer(session) = Run(1, Batches(session))
      BY <2>2 DEF Buffer
    <3>2. 1 \in Nat \ {0} /\ 1 <= Batches(session) + 1
      BY <1>3
    <3>3. QED BY <1>3, <1>4, <3>1, <3>2
  <2>3. QED BY <2>1, <2>2
<1>7. QED BY <1>1, <1>2, <1>3, <1>6

\* What a subscriber is sent is a sequence of events.
LEMMA PublishedIsTyped ==
    ASSUME NEW before \in Ptys, NEW after \in Ptys, NEW skipped, sub \in Subs
    PROVE  Published(before, after, skipped) \in Seq(Frames)
<1>1. ASSUME NEW n \in Nat, NEW previous \in Nat
      PROVE  Pushed(after, n, previous, skipped) \in Seq(Frames)
  <2>1. EventFrame(after, n, previous) \in Frames
    BY <1>1 DEF EventFrame, Frames, Events
  <2>2. <<EventFrame(after, n, previous)>> \in Seq(Frames)
    BY <2>1
  <2>3. <<>> \in Seq(Frames)
    BY EmptySeq
  <2>4. QED BY <2>2, <2>3 DEF Pushed
<1>2. /\ before.seq + 1 \in Nat /\ before.seq + 1 + 1 \in Nat
      /\ sub.last \in Nat
  BY DEF Ptys, Subs
<1>3. <<>> \in Seq(Frames)
  BY EmptySeq
<1>4. (IF after.seq < before.seq + 1 THEN <<>>
       ELSE Pushed(after, before.seq + 1, sub.last, skipped)) \in Seq(Frames)
  BY <1>1, <1>2, <1>3
<1>5. (IF after.seq <= before.seq + 1 THEN <<>>
       ELSE Pushed(after, before.seq + 1 + 1, before.seq + 1, skipped)) \in Seq(Frames)
  BY <1>1, <1>2, <1>3
<1>6. QED BY <1>4, <1>5, ConcatProperties DEF Published

\* Emitting adds frames behind the frames under way; without a subscription the
\* answer is all there is to add.
LEMMA EmitFacts ==
    ASSUME Types, NEW after \in Ptys, NEW subscription \in Subs,
           NEW answer \in Seq(Answers), Emit(pty, after, subscription, answer)
    PROVE  /\ pty' \in Ptys /\ sub' = subscription
           /\ frames' \in Seq(Frames)
           /\ ToSet(frames) \subseteq ToSet(frames')
           /\ ToSet(answer) \subseteq ToSet(frames')
           /\ ~sub.on /\ answer = <<>> => frames' = frames
<1>1. PICK skipped : /\ pty' = after
                     /\ sub' = subscription
                     /\ frames' = frames \o (IF sub.on
                                             THEN Published(pty, after, skipped)
                                             ELSE <<>>) \o answer
  BY DEF Emit
<1> DEFINE news == IF sub.on THEN Published(pty, after, skipped) ELSE <<>>
<1>2. news \in Seq(Frames)
  <2>1. Published(pty, after, skipped) \in Seq(Frames)
    BY PublishedIsTyped DEF Types
  <2>2. <<>> \in Seq(Frames)
    BY EmptySeq
  <2>3. QED BY <2>1, <2>2
<1>3. answer \in Seq(Frames)
  <2>1. Answers \subseteq Frames
    BY DEF Frames
  <2>2. QED BY <2>1, SeqMonotonic
<1>4. frames' = frames \o news \o answer
  BY <1>1
<1>5. ~sub.on => news = <<>>
  OBVIOUS
<1> HIDE DEF news
<1>6. frames \in Seq(Frames)
  BY DEF Types
<1>7. frames \o news \in Seq(Frames) /\ ToSet(frames) \subseteq ToSet(frames \o news)
  BY <1>2, <1>6, ConcatFacts
<1>8. /\ (frames \o news) \o answer \in Seq(Frames)
      /\ ToSet(frames \o news) \subseteq ToSet((frames \o news) \o answer)
      /\ ToSet(answer) \subseteq ToSet((frames \o news) \o answer)
  BY <1>3, <1>7, ConcatFacts
<1>9. ASSUME ~sub.on, answer = <<>> PROVE frames' = frames
  <2>1. news = <<>> /\ frames \o news = frames
    BY <1>5, <1>6, <1>9, ConcatEmptySeq
  <2>2. (frames \o news) \o answer = frames \o news
    BY <1>7, <1>9, ConcatEmptySeq
  <2>3. QED BY <1>4, <2>1, <2>2
<1>10. QED BY <1>1, <1>4, <1>7, <1>8, <1>9

\* What is written to a view, or told to it, leaves alone what the calls depend on.
SameCalls(v, w) ==
    /\ IsView(w)
    /\ w.mount = v.mount /\ w.phase = v.phase /\ w.failed = v.failed
    /\ w.status = "error" => v.status = "error"

LEMMA WrittenFacts ==
    ASSUME NEW v, IsView(v), NEW item
    PROVE  /\ SameCalls(v, Written(v, item)) /\ Written(v, item).status = v.status
           /\ SameCalls(v, ToldExit(v))
<1>1. /\ SameCalls(v, v)
  BY DEF SameCalls
<1>2. SameCalls(v, [v EXCEPT !.queued = Append(@, item)])
  BY DEF SameCalls, IsView
<1>3. SameCalls(v, [v EXCEPT !.lastSeq = item.seq, !.shown = @ \o item.data])
  BY DEF SameCalls, IsView
<1>4. SameCalls(v, ToldExit(v))
  BY DEF SameCalls, IsView, ToldExit
<1>5. QED BY <1>1, <1>2, <1>3, <1>4 DEF Written, SameCalls, IsView

-----------------------------------------------------------------------------
(* The steps, one lemma for each actor or handler                           *)

\* The timer, the exit and an attach on the device leave the desktop alone.
LEMMA DeviceKeepsInHand ==
    ASSUME InHand, Output \/ Flush \/ Exit \/ Attach
    PROVE  InHand'
<1>1. UNCHANGED <<client, entry, reply, view>>
  BY DEF Output, Flush, Exit, Attach, history
<1>2. CallsAreKnown' /\ OneAtATime' /\ PhaseFits' /\ Held'
  <2>1. UNCHANGED <<sent, waiting, settled, stream, entry, reply, view>>
    BY <1>1 DEF client
  <2>2. CallsAreKnown'
    BY <2>1 DEF InHand, CallsAreKnown
  <2>3. OneAtATime'
    BY <2>1 DEF InHand, OneAtATime, Current, Mine
  <2>4. PhaseFits'
    BY <2>1 DEF InHand, PhaseFits, Fits, Current, Mine
  <2>5. Held'
    BY <2>1 DEF InHand, Held, Trying, Helps, Current
  <2>6. QED BY <2>2, <2>3, <2>4, <2>5
<1>3. Types
  BY DEF InHand
<1>4. ASSUME pty' \in Ptys, sub' \in Subs, requests' \in Seq(Nat),
             frames' \in Seq(Frames)
      PROVE  Types'
  <2>1. UNCHANGED <<sent, waiting, settled, stream, entry, reply, view>>
    BY <1>1 DEF client
  <2>2. IsView(view)'
    BY <1>3, <2>1 DEF Types, IsView
  <2>3. QED BY <1>3, <1>4, <2>1, <2>2 DEF Types
<1>5. ASSUME ToSet(frames) \subseteq ToSet(frames'),
             \A id \in ToSet(requests) :
                 \/ id \in ToSet(requests')
                 \/ \E frame \in ToSet(frames') : frame.kind = "answer" /\ frame.id = id
      PROVE  AnswersCome'
  <2>1. waiting' = waiting
    BY <1>1 DEF client
  <2>2. QED BY <1>5, <2>1 DEF InHand, AnswersCome
<1>6. ASSUME sub'.on \/ (~sub.on /\ frames' = frames) PROVE Publishes'
  <2>1. UNCHANGED <<stream, settled>>
    BY <1>1 DEF client
  <2>2. CASE sub'.on
    BY <2>2 DEF Publishes
  <2>3. CASE ~sub.on /\ frames' = frames
    BY <2>1, <2>3 DEF InHand, Publishes
  <2>4. QED BY <1>6, <2>2, <2>3
<1>7. ASSUME NEW after \in Ptys, Emit(pty, after, Moved(after), <<>>), requests' = requests
      PROVE  InHand'
  <2>1. Moved(after) \in Subs /\ (sub.on => Moved(after).on)
    BY <1>3 DEF Moved, Subs, Ptys, Types
  <2>2. <<>> \in Seq(Answers)
    BY EmptySeq
  <2>3. /\ pty' \in Ptys /\ sub' = Moved(after)
        /\ frames' \in Seq(Frames) /\ ToSet(frames) \subseteq ToSet(frames')
        /\ ~sub.on => frames' = frames
    BY <1>3, <1>7, <2>1, <2>2, EmitFacts
  <2>4. Types'
    BY <1>3, <1>4, <1>7, <2>1, <2>3 DEF Types
  <2>5. AnswersCome'
    BY <1>5, <1>7, <2>3
  <2>6. Publishes'
    BY <1>6, <2>1, <2>3
  <2>7. QED BY <1>2, <2>4, <2>5, <2>6 DEF InHand
<1>8. CASE Output
  <2>1. pty' \in Ptys /\ UNCHANGED <<sub, requests, frames>>
    BY <1>3, <1>8 DEF Output, Types, Ptys
  <2>2. Types'
    BY <1>3, <1>4, <2>1 DEF Types
  <2>3. AnswersCome'
    BY <1>5, <2>1
  <2>4. Publishes'
    BY <1>6, <2>1 DEF Types, Subs
  <2>5. QED BY <1>2, <2>2, <2>3, <2>4 DEF InHand
<1>9. CASE Flush
  <2>1. Flushed(pty) \in Ptys
    BY <1>3, SessionsAreTyped DEF Types
  <2>2. QED BY <1>7, <1>9, <2>1 DEF Flush
<1>10. CASE Exit
  <2>1. Exited(Flushed(pty)) \in Ptys
    BY <1>3, SessionsAreTyped DEF Types
  <2>2. QED BY <1>7, <1>10, <2>1 DEF Exit
<1>11. CASE Attach
  <2>1. PICK ok \in BOOLEAN :
            Emit(pty, Flushed(pty), Attached(Flushed(pty)),
                 <<Answer(Head(requests), ok, Flushed(pty))>>)
    BY <1>11 DEF Attach
  <2>2. requests # <<>> /\ requests' = Tail(requests) /\ requests \in Seq(Nat)
    BY <1>3, <1>11 DEF Attach, Types
  <2> DEFINE after == Flushed(pty)
             answer == Answer(Head(requests), ok, after)
  <2>3. /\ Head(requests) \in Nat /\ requests' \in Seq(Nat)
        /\ ToSet(requests) = {Head(requests)} \cup ToSet(requests')
    BY <2>2, TailFacts
  <2>4. /\ after \in Ptys /\ Buffer(after) \in Seq(Nat)
        /\ Attached(after) \in Subs /\ Attached(after).on
    <3>1. after \in Ptys
      BY <1>3, SessionsAreTyped DEF Types
    <3> HIDE DEF after
    <3>2. Buffer(after) \in Seq(Nat)
      BY <3>1, SessionsAreTyped
    <3>3. Attached(after) \in Subs /\ Attached(after).on
      BY <3>1 DEF Attached, Subs, Ptys
    <3>4. QED BY <3>1, <3>2, <3>3
  <2>5. Emit(pty, after, Attached(after), <<answer>>)
    BY <2>1
  <2> HIDE DEF after
  <2>6. answer \in Answers /\ answer.kind = "answer" /\ answer.id = Head(requests)
    <3>1. Alive(after) \in BOOLEAN
      BY DEF Alive
    <3>2. QED BY <2>3, <2>4, <3>1 DEF Answer, Answers, Ptys
  <2> HIDE DEF answer
  <2>7. <<answer>> \in Seq(Answers) /\ ToSet(<<answer>>) = {answer}
    <3>1. <<answer>> \in Seq(Answers)
      BY <2>6
    <3>2. DOMAIN <<answer>> = {1} /\ <<answer>>[1] = answer
      OBVIOUS
    <3>3. QED BY <3>1, <3>2 DEF ToSet
  <2>8. /\ pty' \in Ptys /\ sub' = Attached(after)
        /\ frames' \in Seq(Frames) /\ ToSet(frames) \subseteq ToSet(frames')
        /\ answer \in ToSet(frames')
    BY <1>3, <2>4, <2>5, <2>7, EmitFacts
  <2>9. Types'
    BY <1>4, <2>3, <2>4, <2>8
  <2>10. AnswersCome'
    BY <1>5, <2>3, <2>6, <2>8
  <2>11. Publishes'
    BY <1>6, <2>4, <2>8
  <2>12. QED BY <1>2, <2>9, <2>10, <2>11 DEF InHand
<1>12. QED BY <1>8, <1>9, <1>10, <1>11

\* A call that is answered or times out goes from those that wait to those whose
\* callers will run on.
LEMMA CallIsSettled ==
    ASSUME InHand, NEW call \in waiting, NEW outcome \in Outcomes, outcome.call = call,
           waiting' = waiting \ {call}, settled' = Append(settled, outcome),
           UNCHANGED <<sent, reply, view>>
    PROVE  /\ waiting' \subseteq Calls /\ settled' \in Seq(Outcomes)
           /\ ToSet(settled') = ToSet(settled) \cup {outcome}
           /\ CallsAreKnown' /\ OneAtATime' /\ PhaseFits'
           /\ Trying => Trying'
<1>1. /\ waiting \subseteq Calls /\ settled \in Seq(Outcomes)
      /\ CallsAreKnown /\ OneAtATime /\ PhaseFits
  BY DEF InHand, Types
<1>2. Current' = Current /\ Mine' = Mine
  BY DEF Current, Mine
<1>3. /\ settled' \in Seq(Outcomes)
      /\ ToSet(settled') = ToSet(settled) \cup {outcome}
      /\ Once(settled, Mine) /\ (outcome \in Mine => ToSet(settled) \cap Mine = {})
             => Once(settled', Mine)
  BY <1>1, AppendFacts
<1>4. outcome \in Mine => call \in Current
  BY DEF Mine
<1>5. CallsAreKnown'
  BY <1>1, <1>3 DEF CallsAreKnown
<1>6. OneAtATime'
  <2>1. outcome \in Mine => /\ ToSet(settled) \cap Mine = {}
                            /\ waiting' \cap Current = {}
                            /\ reply.for = "none"
    BY <1>1, <1>4 DEF OneAtATime
  <2>2. Once(settled, Mine)
    BY <1>1 DEF OneAtATime
  <2>3. Once(settled', Mine)
    BY <1>3, <2>1, <2>2
  <2>4. \A one, two \in waiting' \cap Current : one = two
    BY <1>1 DEF OneAtATime
  <2>5. waiting' \cap Current # {} => ToSet(settled') \cap Mine = {}
    BY <1>1, <1>3, <2>1 DEF OneAtATime
  <2>6. reply.for # "none" => /\ waiting' \cap Current = {}
                              /\ ToSet(settled') \cap Mine = {}
    BY <1>1, <1>3, <2>1 DEF OneAtATime
  <2>7. QED BY <1>2, <2>3, <2>4, <2>5, <2>6 DEF OneAtATime
<1>7. PhaseFits'
  <2>1. \A one \in waiting' \cap Current : Fits(one.for)
    BY <1>1 DEF PhaseFits
  <2>2. \A one \in ToSet(settled') \cap Mine : Fits(one.call.for)
    BY <1>1, <1>3, <1>4 DEF PhaseFits
  <2>3. QED BY <1>1, <1>2, <2>1, <2>2 DEF PhaseFits, Fits
<1>8. Trying => Trying'
  BY <1>2, <1>3 DEF Trying, Helps
<1>9. QED BY <1>1, <1>3, <1>5, <1>6, <1>7, <1>8

\* A new call waits with its request under way.
LEMMA CallIsAsked ==
    ASSUME InHand, NEW call \in Calls, Ask(call), call.id = sent + 1
    PROVE  /\ sent' \in Nat /\ waiting' \subseteq Calls /\ requests' \in Seq(Nat)
           /\ waiting' = waiting \cup {call}
           /\ frames' = frames => AnswersCome'
           /\ /\ view'.mount \in Nat /\ view.mount <= view'.mount
              /\ call.mount <= view'.mount /\ settled' = settled
              => CallsAreKnown'
<1>1. /\ sent' = sent + 1 /\ waiting' = waiting \cup {call}
      /\ requests' = Append(requests, call.id)
  BY DEF Ask
<1>2. /\ sent \in Nat /\ waiting \subseteq Calls /\ requests \in Seq(Nat)
      /\ settled \in Seq(Outcomes) /\ view.mount \in Nat
      /\ AnswersCome /\ CallsAreKnown
  BY DEF InHand, Types, IsView
<1>3. call.id \in Nat
  BY DEF Calls
<1>4. requests' \in Seq(Nat) /\ ToSet(requests') = ToSet(requests) \cup {call.id}
  BY <1>1, <1>2, <1>3, AppendFacts
<1>5. frames' = frames => AnswersCome'
  BY <1>1, <1>2, <1>4 DEF AnswersCome
<1>6. ASSUME view'.mount \in Nat, view.mount <= view'.mount,
             call.mount <= view'.mount, settled' = settled
      PROVE  CallsAreKnown'
  <2>1. \A one \in waiting : one.id \in Nat /\ one.mount \in Nat
    BY <1>2 DEF Calls
  <2>2. \A one \in waiting : one.id <= sent /\ one.mount <= view.mount
    BY <1>2 DEF CallsAreKnown
  <2>3. \A one \in waiting : /\ one.id <= sent' /\ one.id # call.id
                             /\ one.mount <= view'.mount
    BY <1>1, <1>2, <1>6, <2>1, <2>2
  <2>4. call.id <= sent'
    BY <1>1, <1>2
  <2>5. \A one, two \in waiting' : one.id = two.id => one = two
    BY <1>1, <1>2, <2>3 DEF CallsAreKnown
  <2>6. \A one \in ToSet(settled') : one.call.mount <= view'.mount
    <3>1. \A one \in ToSet(settled) : one.call.mount \in Nat
      <4>1. \A one \in ToSet(settled) : one \in Outcomes
        BY <1>2, EmptyHasNone
      <4>2. QED BY <4>1 DEF Outcomes, Calls
    <3>2. \A one \in ToSet(settled) : one.call.mount <= view.mount
      BY <1>2 DEF CallsAreKnown
    <3>3. QED BY <1>2, <1>6, <3>1, <3>2
  <2>7. QED BY <1>1, <1>6, <2>3, <2>4, <2>5, <2>6 DEF CallsAreKnown
<1>7. QED BY <1>1, <1>2, <1>4, <1>5, <1>6

\* A frame that arrives was sent to a subscriber.
LEMMA FrameIsTaken ==
    ASSUME InHand, frames # <<>>, frames' = Tail(frames)
    PROVE  /\ Head(frames) \in Frames /\ frames' \in Seq(Frames)
           /\ ToSet(frames) = {Head(frames)} \cup ToSet(frames')
           /\ sub.on
BY TailFacts DEF InHand, Types, Publishes

\* A response: one call that waits for it is settled, or none.
LEMMA AnswerKeepsInHand ==
    ASSUME InHand, Receive, Head(frames).kind = "answer"
    PROVE  InHand'
<1> DEFINE frame == Head(frames)
<1>1. /\ frames # <<>> /\ frames' = Tail(frames) /\ ReceiveAnswer(frame)
      /\ UNCHANGED <<pty, sub, reply>>
  BY DEF Receive, device
<1>2. /\ frame \in Frames /\ frames' \in Seq(Frames)
      /\ ToSet(frames) = {frame} \cup ToSet(frames') /\ sub.on
  BY <1>1, FrameIsTaken
<1>3. frame.kind = "answer"
  OBVIOUS
<1> HIDE DEF frame
<1>4. frame \in Answers
  BY <1>2, <1>3 DEF Frames, Events
<1>5. UNCHANGED <<sent, requests, stream, entry, view, reply>>
  BY <1>1 DEF ReceiveAnswer
<1>6. Types /\ AnswersCome /\ CallsAreKnown
  BY DEF InHand
<1>7. AnswersCome'
  <2>1. waiting' = {call \in waiting : call.id # frame.id}
    BY <1>1 DEF ReceiveAnswer
  <2>2. QED BY <1>2, <1>5, <1>6, <2>1 DEF AnswersCome
<1>8. Publishes'
  BY <1>1, <1>2 DEF Publishes
<1>9. ASSUME waiting' \subseteq Calls, settled' \in Seq(Outcomes) PROVE Types'
  <2>1. IsView(view)'
    BY <1>5, <1>6 DEF Types, IsView
  <2>2. QED BY <1>1, <1>2, <1>5, <1>6, <1>9, <2>1 DEF Types
<1>10. CASE waiting' = waiting /\ UNCHANGED settled
  <2>1. UNCHANGED <<sent, waiting, settled, stream, entry, view, reply>>
    BY <1>5, <1>10
  <2>2. CallsAreKnown'
    BY <2>1 DEF InHand, CallsAreKnown
  <2>3. OneAtATime'
    BY <2>1 DEF InHand, OneAtATime, Current, Mine
  <2>4. PhaseFits'
    BY <2>1 DEF InHand, PhaseFits, Fits, Current, Mine
  <2>5. Held'
    BY <2>1 DEF InHand, Held, Trying, Helps, Current
  <2>6. Types'
    BY <1>6, <1>9, <2>1 DEF Types
  <2>7. QED BY <1>7, <1>8, <2>2, <2>3, <2>4, <2>5, <2>6 DEF InHand
<1>11. CASE \E call \in waiting \ waiting' :
                settled' = Append(settled, Outcome(call, frame))
  <2>1. PICK call \in waiting \ waiting' :
                 settled' = Append(settled, Outcome(call, frame))
    BY <1>11
  <2>2. waiting' = waiting \ {call}
    <3>1. waiting' = {one \in waiting : one.id # frame.id}
      BY <1>1 DEF ReceiveAnswer
    <3>2. call.id = frame.id
      BY <2>1, <3>1
    <3>3. \A one \in waiting : one.id = frame.id => one = call
      BY <1>6, <2>1, <3>2 DEF CallsAreKnown
    <3>4. QED BY <3>1, <3>2, <3>3
  <2>3. Outcome(call, frame) \in Outcomes /\ Outcome(call, frame).call = call
    BY <1>4, <1>6, <2>1 DEF Types, Outcome, Outcomes, Answers
  <2>4. /\ waiting' \subseteq Calls /\ settled' \in Seq(Outcomes)
        /\ CallsAreKnown' /\ OneAtATime' /\ PhaseFits'
        /\ Trying => Trying'
    BY <1>5, <2>1, <2>2, <2>3, CallIsSettled
  <2>5. Held'
    BY <1>5, <2>4 DEF InHand, Held
  <2>6. QED BY <1>7, <1>8, <1>9, <2>4, <2>5 DEF InHand
<1>12. QED BY <1>1, <1>10, <1>11 DEF ReceiveAnswer

\* An event: it is ignored, it is delivered, or a gap makes the bridge attach again.
LEMMA EventKeepsInHand ==
    ASSUME InHand, Receive, Head(frames).kind # "answer"
    PROVE  InHand'
<1> DEFINE frame == Head(frames)
<1>1. /\ frames # <<>> /\ frames' = Tail(frames) /\ ReceiveEvent(frame)
      /\ UNCHANGED <<pty, sub, reply>>
  BY DEF Receive, device
<1>2. /\ frame \in Frames /\ frames' \in Seq(Frames)
      /\ ToSet(frames) = {frame} \cup ToSet(frames') /\ sub.on
  BY <1>1, FrameIsTaken
<1>3. frame.kind # "answer"
  OBVIOUS
<1> HIDE DEF frame
<1>4. frame \in Events
  BY <1>2, <1>3 DEF Frames, Answers
<1>5. Types /\ AnswersCome /\ CallsAreKnown /\ OneAtATime /\ PhaseFits /\ Held
  BY DEF InHand
<1>6. Publishes'
  BY <1>1, <1>2 DEF Publishes
<1>7. \A call \in waiting :
          \/ call.id \in ToSet(requests)
          \/ \E one \in ToSet(frames') : one.kind = "answer" /\ one.id = call.id
  BY <1>2, <1>3, <1>5 DEF AnswersCome
<1>8. ASSUME SameCalls(view, view'), stream' \in Streams,
             entry' \in {"alive", "ended", "dropped"},
             entry' = "alive" =>
                 /\ entry = "alive"
                 /\ ~stream'.stale
                 /\ \/ stream'.on
                    \/ stream'.on = stream.on /\ view'.status = view.status,
             UNCHANGED <<sent, waiting, requests, settled>>
      PROVE  InHand'
  <2>1. view'.mount = view.mount /\ view'.phase = view.phase /\ view'.failed = view.failed
        /\ (view'.status = "error" => view.status = "error") /\ IsView(view)'
    BY <1>8 DEF SameCalls, IsView
  <2>2. Current' = Current /\ Mine' = Mine
    BY <2>1 DEF Current, Mine
  <2>3. Types'
    BY <1>1, <1>2, <1>5, <1>8, <2>1 DEF Types
  <2>4. AnswersCome'
    BY <1>7, <1>8 DEF AnswersCome
  <2>5. CallsAreKnown'
    BY <1>5, <1>8, <2>1 DEF CallsAreKnown
  <2>6. OneAtATime'
    BY <1>1, <1>5, <1>8, <2>2 DEF OneAtATime
  <2>7. PhaseFits'
    BY <1>1, <1>5, <1>8, <2>1, <2>2 DEF PhaseFits, Fits
  <2>8. ASSUME entry' = "alive" PROVE ~stream'.stale /\ (stream'.on \/ Trying')
    <3>1. CASE stream'.on
      BY <1>8, <2>8, <3>1
    <3>2. CASE ~stream'.on /\ stream'.on = stream.on /\ view'.status = view.status
      <4>1. Trying
        BY <1>5, <1>8, <2>8, <3>2 DEF Held
      <4>2. Trying'
        BY <1>1, <1>8, <2>1, <2>2, <3>2, <4>1 DEF Trying, Helps
      <4>3. QED BY <1>8, <2>8, <4>2
    <3>3. QED BY <1>8, <2>8, <3>1, <3>2
  <2>9. QED BY <1>6, <2>3, <2>4, <2>5, <2>6, <2>7, <2>8 DEF InHand, Held
<1>9. SameCalls(view, view)
  BY <1>5 DEF SameCalls, Types
<1>10. CASE Ignored
  <2>1. UNCHANGED <<sent, waiting, requests, settled, stream, entry, view>>
    BY <1>10 DEF Ignored
  <2>2. entry = "alive" => ~stream.stale
    BY <1>5 DEF Held
  <2>3. stream \in Streams /\ entry \in {"alive", "ended", "dropped"}
    BY <1>5 DEF Types
  <2>4. QED BY <1>8, <1>9, <2>1, <2>2, <2>3
<1>11. CASE Deliver(frame) /\ stream.on /\ ~stream.stale
  <2>1. UNCHANGED <<sent, waiting, requests, settled>>
    BY <1>11 DEF Deliver
  <2>2. CASE frame.kind = "data"
    <3>1. /\ view' = Written(view, [seq |-> frame.cursor, data |-> <<frame.cursor>>])
          /\ stream' = [stream EXCEPT !.cursor = frame.cursor,
                                      !.previous = {frame.previous}]
          /\ entry' = entry
      BY <1>11, <2>2 DEF Deliver
    <3>2. SameCalls(view, view')
      BY <1>5, <3>1, WrittenFacts DEF Types
    <3>3. stream' \in Streams /\ stream'.on /\ ~stream'.stale
      <4>1. frame.cursor \in Nat /\ {frame.previous} \in SUBSET Nat
        BY <1>4 DEF Events
      <4>2. stream \in Streams
        BY <1>5 DEF Types
      <4>3. QED BY <1>11, <3>1, <4>1, <4>2 DEF Streams
    <3>4. QED BY <1>5, <1>8, <2>1, <3>1, <3>2, <3>3 DEF Types
  <2>3. CASE frame.kind # "data"
    <3>1. /\ view' = ToldExit(view) /\ stream' = NoStream
          /\ entry' = IF entry = "alive" THEN "ended" ELSE entry
      BY <1>11, <2>3 DEF Deliver
    <3>2. SameCalls(view, view')
      BY <1>5, <3>1, WrittenFacts DEF Types
    <3>3. stream' \in Streams
      BY <3>1 DEF NoStream, Streams
    <3>4. entry' \in {"alive", "ended", "dropped"} /\ entry' # "alive"
      BY <1>5, <3>1 DEF Types
    <3>5. QED BY <1>8, <2>1, <3>2, <3>3, <3>4
  <2>4. QED BY <2>2, <2>3
<1>12. CASE Resync /\ entry # "alive"
  <2>1. /\ stream' = [stream EXCEPT !.stale = TRUE]
        /\ UNCHANGED <<sent, waiting, requests, settled, entry, view>>
    BY <1>12 DEF Resync
  <2>2. stream' \in Streams
    BY <1>5, <2>1 DEF Types, Streams
  <2>3. entry \in {"alive", "ended", "dropped"}
    BY <1>5 DEF Types
  <2>4. QED BY <1>8, <1>9, <1>12, <2>1, <2>2, <2>3
<1>13. CASE Resync /\ entry = "alive"
  <2>1. /\ Ask(Call("resync")) /\ stream' = NoStream
        /\ UNCHANGED <<settled, entry, view>>
    BY <1>13 DEF Resync
  <2> DEFINE call == Call("resync")
  <2>2. /\ call \in Calls /\ call.id = sent + 1 /\ call.for = "resync"
        /\ call.mount = view.mount
    BY <1>5 DEF Call, Calls, Types, IsView
  <2>3. Ask(call)
    BY <2>1
  <2> HIDE DEF call
  <2>4. view.mount \in Nat
    BY <1>5 DEF Types, IsView
  <2>5. /\ sent' \in Nat /\ waiting' \subseteq Calls /\ requests' \in Seq(Nat)
        /\ waiting' = waiting \cup {call}
        /\ CallsAreKnown'
    BY <2>1, <2>2, <2>3, <2>4, CallIsAsked
  <2>6. requests' = Append(requests, call.id) /\ requests \in Seq(Nat) /\ call.id \in Nat
    BY <1>5, <2>2, <2>3 DEF Ask, Types, Calls
  <2>7. ToSet(requests') = ToSet(requests) \cup {call.id}
    BY <2>6, AppendFacts
  <2>8. AnswersCome'
    BY <1>7, <2>5, <2>7 DEF AnswersCome
  <2>9. Current' = Current /\ Mine' = Mine /\ call \notin Current
    BY <2>1, <2>2 DEF Current, Mine
  <2>10. waiting' \cap Current = waiting \cap Current
    BY <2>5, <2>9
  <2>11. OneAtATime'
    BY <1>1, <1>5, <2>1, <2>9, <2>10 DEF OneAtATime
  <2>12. PhaseFits'
    BY <1>1, <1>5, <2>1, <2>9, <2>10 DEF PhaseFits, Fits
  <2>13. Held'
    BY <2>1, <2>2, <2>5 DEF Held, Trying, Helps, NoStream
  <2>14. Types'
    <3>1. IsView(view)'
      BY <1>5, <2>1 DEF Types, IsView
    <3>2. stream' \in Streams
      BY <2>1 DEF NoStream, Streams
    <3>3. QED BY <1>1, <1>2, <1>5, <2>1, <2>5, <3>1, <3>2 DEF Types
  <2>15. QED BY <1>6, <2>5, <2>8, <2>11, <2>12, <2>13, <2>14 DEF InHand
<1>14. QED BY <1>1, <1>10, <1>11, <1>12, <1>13 DEF ReceiveEvent

\* A settled call runs on: the entry is followed, ended or dropped, and the view is
\* answered when it is the view's call.
LEMMA RunOnKeepsInHand ==
    ASSUME InHand, up, RunOn
    PROVE  InHand'
<1> DEFINE outcome == Head(settled)
<1>1. /\ settled # <<>> /\ settled' = Tail(settled)
      /\ IF outcome.ok THEN Proceed(outcome) ELSE Fail(outcome.call)
      /\ reply' = ReplyTo(outcome.call, outcome.ok, outcome)
      /\ UNCHANGED <<pty, sub, requests, frames, sent, waiting>>
  <2>1. /\ IF outcome.ok /\ up THEN Proceed(outcome) ELSE Fail(outcome.call)
        /\ reply' = ReplyTo(outcome.call, outcome.ok /\ up, outcome)
        /\ settled # <<>> /\ settled' = Tail(settled)
        /\ UNCHANGED <<pty, sub, requests, frames, sent, waiting>>
    BY DEF RunOn, device
  <2>2. Head(settled) \in Outcomes
    BY <2>1, TailFacts DEF InHand, Types
  <2> HIDE DEF outcome
  <2>3. outcome.ok \in BOOLEAN
    BY <2>2 DEF outcome, Outcomes
  <2>4. (outcome.ok /\ up) = outcome.ok
    BY <2>3
  <2>5. QED BY <2>1, <2>4
<1>2. Types /\ AnswersCome /\ CallsAreKnown /\ OneAtATime /\ PhaseFits /\ Publishes /\ Held
  BY DEF InHand
<1>3. /\ outcome \in Outcomes /\ settled' \in Seq(Outcomes)
      /\ ToSet(settled) = {outcome} \cup ToSet(settled')
      /\ Once(settled, Mine) =>
             /\ Once(settled', Mine)
             /\ outcome \in Mine => ToSet(settled') \cap Mine = {}
  BY <1>1, <1>2, TailFacts DEF Types
<1> HIDE DEF outcome
<1>4. /\ outcome.call \in Calls /\ outcome.ok \in BOOLEAN /\ outcome.alive \in BOOLEAN
      /\ outcome.seq \in Nat /\ outcome.data \in Seq(Nat)
  BY <1>3 DEF Outcomes
<1>5. SameCalls(view, view') /\ view'.status = view.status
  <2>1. SameCalls(view, view)
    BY <1>2 DEF SameCalls, Types
  <2>2. ASSUME NEW item
        PROVE  /\ SameCalls(view, Written(view, item))
               /\ Written(view, item).status = view.status
    BY <1>2, WrittenFacts DEF Types
  <2>3. view' = view \/ \E item : view' = Written(view, item)
    <3>1. CASE outcome.ok
      BY <1>1, <3>1 DEF Proceed
    <3>2. CASE ~outcome.ok
      BY <1>1, <3>2 DEF Fail
    <3>3. QED BY <3>1, <3>2
  <2>4. QED BY <2>1, <2>2, <2>3
<1>6. /\ view'.mount = view.mount /\ view'.phase = view.phase
      /\ view'.failed = view.failed /\ view'.status = view.status
      /\ IsView(view)'
  BY <1>5 DEF SameCalls, IsView
<1>7. Current' = Current /\ Mine' = Mine
  BY <1>6 DEF Current, Mine
<1>8. outcome \in Mine <=> outcome.call.for # "resync" /\ outcome.call.mount = view.mount
  BY <1>3, <1>4 DEF Mine, Current
<1>9. ASSUME outcome \in Mine
      PROVE  /\ reply' \in Replies /\ reply'.for = outcome.call.for
             /\ reply'.ok = outcome.ok
  <2>1. reply' = [for |-> outcome.call.for, ok |-> outcome.ok, seq |-> outcome.seq,
                  data |-> outcome.data,
                  alive |-> (outcome.call.for = "create" \/ outcome.alive)]
    BY <1>1, <1>8, <1>9 DEF ReplyTo
  <2>2. outcome.call.for \in {"create", "refresh", "buffer", "restart"}
    BY <1>4, <1>8, <1>9 DEF Calls
  <2>3. (outcome.call.for = "create" \/ outcome.alive) \in BOOLEAN
    OBVIOUS
  <2>4. QED BY <1>4, <2>1, <2>2, <2>3 DEF Replies
<1>10. ASSUME outcome \notin Mine PROVE reply' = reply
  BY <1>1, <1>8, <1>10 DEF ReplyTo
<1>11. reply' \in Replies
  BY <1>2, <1>9, <1>10 DEF Types
<1>12. ASSUME outcome.ok
       PROVE  /\ stream' = IF outcome.alive THEN Followed(outcome.seq) ELSE NoStream
              /\ entry' = IF entry = "alive" /\ ~outcome.alive THEN "ended" ELSE entry
  BY <1>1, <1>12 DEF Proceed
<1>13. ASSUME ~outcome.ok
       PROVE  /\ entry' = IF outcome.call.for = "resync" THEN "dropped" ELSE entry
              /\ stream' = IF outcome.call.for = "resync" THEN NoStream ELSE stream
  BY <1>1, <1>13 DEF Fail, GivenUp
<1>14. Followed(outcome.seq) \in Streams /\ NoStream \in Streams
  BY <1>4 DEF Followed, NoStream, Streams
<1>15. Types'
  <2>1. entry' \in {"alive", "ended", "dropped"}
    BY <1>2, <1>12, <1>13 DEF Types
  <2>2. stream' \in Streams
    BY <1>2, <1>12, <1>13, <1>14 DEF Types
  <2>3. QED BY <1>1, <1>2, <1>3, <1>6, <1>11, <2>1, <2>2 DEF Types
<1>16. AnswersCome'
  BY <1>1, <1>2 DEF AnswersCome
<1>17. CallsAreKnown'
  BY <1>1, <1>2, <1>3, <1>6 DEF CallsAreKnown
<1>18. OneAtATime'
  <2>1. CASE outcome \in Mine
    BY <1>1, <1>2, <1>3, <1>7, <2>1 DEF OneAtATime
  <2>2. CASE outcome \notin Mine
    BY <1>1, <1>2, <1>3, <1>7, <1>10, <2>2 DEF OneAtATime
  <2>3. QED BY <2>1, <2>2
<1>19. PhaseFits'
  <2>1. outcome \in Mine => Fits(outcome.call.for)
    BY <1>2, <1>3 DEF PhaseFits
  <2>2. CASE outcome \in Mine
    BY <1>1, <1>2, <1>3, <1>6, <1>7, <1>9, <2>1, <2>2 DEF PhaseFits, Fits
  <2>3. CASE outcome \notin Mine
    BY <1>1, <1>2, <1>3, <1>6, <1>7, <1>10, <2>3 DEF PhaseFits, Fits
  <2>4. QED BY <2>2, <2>3
<1>20. Publishes'
  <2>1. CASE sub.on
    BY <1>1, <2>1 DEF Publishes
  <2>2. CASE ~sub.on
    <3>1. ~stream.on /\ ~outcome.ok /\ frames = <<>>
          /\ \A one \in ToSet(settled) : ~one.ok
      BY <1>2, <1>3, <2>2 DEF Publishes
    <3>2. ~stream'.on
      BY <1>13, <3>1 DEF NoStream
    <3>3. QED BY <1>1, <1>3, <3>1, <3>2 DEF Publishes
  <2>3. QED BY <2>1, <2>2
<1>21. ASSUME entry' = "alive" PROVE ~stream'.stale /\ (stream'.on \/ Trying')
  <2>1. CASE outcome.ok
    BY <1>12, <1>21, <2>1 DEF Followed
  <2>2. CASE ~outcome.ok
    <3>1. outcome.call.for # "resync" /\ entry = "alive" /\ stream' = stream
      BY <1>13, <1>21, <2>2
    <3>2. ~stream.stale /\ (stream.on \/ Trying)
      BY <1>2, <3>1 DEF Held
    <3>3. ASSUME Trying PROVE Trying'
      <4>1. CASE outcome.call \in Current
        <5>1. outcome \in Mine
          BY <1>3, <4>1 DEF Mine
        <5>2. CASE outcome.call.for \in {"create", "refresh", "restart"}
          BY <1>9, <2>2, <5>1, <5>2 DEF Trying
        <5>3. CASE outcome.call.for \notin {"create", "refresh", "restart"}
          <6>1. ~Helps(outcome.call)
            BY <3>1, <5>3 DEF Helps
          <6>2. reply.for = "none"
            BY <1>2, <1>3, <5>1 DEF OneAtATime
          <6>3. QED BY <1>1, <1>3, <1>6, <1>7, <3>3, <6>1, <6>2 DEF Trying, Helps
        <5>4. QED BY <5>2, <5>3
      <4>2. CASE outcome.call \notin Current
        <5>1. reply' = reply /\ ~Helps(outcome.call)
          BY <1>10, <3>1, <4>2 DEF Mine, Helps
        <5>2. QED BY <1>1, <1>3, <1>6, <1>7, <3>3, <5>1 DEF Trying, Helps
      <4>3. QED BY <4>1, <4>2
    <3>4. QED BY <3>1, <3>2, <3>3
  <2>3. QED BY <2>1, <2>2
<1>22. QED BY <1>15, <1>16, <1>17, <1>18, <1>19, <1>20, <1>21 DEF InHand, Held

\* The client's timer: the call is settled as failed.
LEMMA TimeoutKeepsInHand ==
    ASSUME InHand, Timeout
    PROVE  InHand'
<1>1. PICK call \in waiting :
          /\ waiting' = waiting \ {call}
          /\ settled' = Append(settled, Failed(call))
          /\ UNCHANGED <<pty, sub, requests, frames, sent, stream, entry, reply, view>>
  BY DEF Timeout, device
<1>2. Types /\ AnswersCome /\ Publishes /\ Held
  BY DEF InHand
<1>3. Failed(call) \in Outcomes /\ Failed(call).call = call /\ ~Failed(call).ok
  <2>1. <<>> \in Seq(Nat)
    BY EmptySeq
  <2>2. call \in Calls
    BY <1>2 DEF Types
  <2>3. QED BY <2>1, <2>2 DEF Failed, Outcomes
<1>4. /\ waiting' \subseteq Calls /\ settled' \in Seq(Outcomes)
      /\ ToSet(settled') = ToSet(settled) \cup {Failed(call)}
      /\ CallsAreKnown' /\ OneAtATime' /\ PhaseFits'
      /\ Trying => Trying'
  BY <1>1, <1>3, CallIsSettled
<1>5. Types'
  <2>1. IsView(view)'
    BY <1>1, <1>2 DEF Types, IsView
  <2>2. QED BY <1>1, <1>2, <1>4, <2>1 DEF Types
<1>6. AnswersCome'
  BY <1>1, <1>2 DEF AnswersCome
<1>7. Publishes'
  BY <1>1, <1>2, <1>3, <1>4 DEF Publishes
<1>8. Held'
  BY <1>1, <1>2, <1>4 DEF Held
<1>9. QED BY <1>4, <1>5, <1>6, <1>7, <1>8 DEF InHand

\* A view that has no call under way makes its next one, or is refused it at once: it
\* is its only one, and whatever else was helping the entry still does.
LEMMA NextCallIsTheOnlyOne ==
    ASSUME InHand, NEW purpose \in {"buffer", "refresh", "restart"}, NEW possible \in BOOLEAN,
           Invoke(purpose, possible), UNCHANGED <<pty, sub, frames, entry>>,
           IsView(view)', view.mount <= view'.mount,
           waiting \cap Current' = {}, ToSet(settled) \cap Mine' = {},
           Fits(purpose)', view'.phase = "creating" => ~view'.failed
    PROVE  /\ Types' /\ AnswersCome' /\ CallsAreKnown' /\ OneAtATime' /\ PhaseFits'
           /\ Publishes'
           /\ settled' = settled /\ stream' = stream /\ waiting \subseteq waiting'
           /\ possible /\ purpose # "buffer" => Trying'
<1> DEFINE call == [Call(purpose) EXCEPT !.mount = view'.mount]
<1>1. Types /\ AnswersCome /\ CallsAreKnown /\ Publishes
  BY DEF InHand
<1>2. settled' = settled /\ stream' = stream
  BY DEF Invoke
<1>3. /\ view.mount \in Nat /\ view'.mount \in Nat /\ sent + 1 \in Nat
      /\ settled \in Seq(Outcomes)
  BY <1>1 DEF Types, IsView
<1>4. /\ call \in Calls /\ call.id = sent + 1 /\ call.for = purpose
      /\ call.mount = view'.mount
  BY <1>3 DEF Call, Calls
<1>5. possible => Ask(call) /\ reply' = NoReply
  BY DEF Invoke
<1> HIDE DEF call
<1>6. ~possible => /\ reply' = [NoReply EXCEPT !.for = purpose]
                   /\ UNCHANGED <<sent, waiting, requests>>
  BY DEF Invoke
<1>7. NoReply \in Replies /\ [NoReply EXCEPT !.for = purpose] \in Replies
  <2>1. <<>> \in Seq(Nat)
    BY EmptySeq
  <2>2. QED BY <2>1 DEF NoReply, Replies
<1>8. NoReply.for = "none" /\ [NoReply EXCEPT !.for = purpose].for = purpose
  BY DEF NoReply
<1>9. Publishes'
  BY <1>1, <1>2 DEF Publishes
<1>10. CASE possible
  <2>1. Ask(call) /\ reply' = NoReply
    BY <1>5, <1>10
  <2>2. /\ sent' \in Nat /\ waiting' \subseteq Calls /\ requests' \in Seq(Nat)
        /\ waiting' = waiting \cup {call}
        /\ AnswersCome' /\ CallsAreKnown'
    BY <1>2, <1>3, <1>4, <2>1, CallIsAsked
  <2>3. Types'
    BY <1>1, <1>2, <1>7, <2>1, <2>2 DEF Types
  <2>4. call \in Current'
    BY <1>4 DEF Current
  <2>5. waiting' \cap Current' = {call}
    BY <2>2, <2>4
  <2>6. Once(settled, Mine')
    BY DEF Once, ToSet
  <2>7. OneAtATime'
    BY <1>2, <1>8, <2>1, <2>5, <2>6 DEF OneAtATime
  <2>8. PhaseFits'
    BY <1>2, <1>4, <1>8, <2>1, <2>5 DEF PhaseFits
  <2>9. purpose # "buffer" => Trying'
    BY <1>4, <2>2, <2>4 DEF Trying, Helps
  <2>10. QED BY <1>2, <1>9, <2>2, <2>3, <2>7, <2>8, <2>9
<1>11. CASE ~possible
  <2>1. /\ reply' = [NoReply EXCEPT !.for = purpose]
        /\ UNCHANGED <<sent, waiting, requests>>
    BY <1>6, <1>11
  <2>2. Types'
    BY <1>1, <1>2, <1>7, <2>1 DEF Types
  <2>3. AnswersCome'
    BY <1>1, <2>1 DEF AnswersCome
  <2>4. CallsAreKnown'
    <3>1. \A one \in waiting : one.mount \in Nat
      BY <1>1 DEF Types, Calls
    <3>2. \A one \in ToSet(settled) : one.call.mount \in Nat
      <4>1. \A one \in ToSet(settled) : one \in Outcomes
        BY <1>3, EmptyHasNone
      <4>2. QED BY <4>1 DEF Outcomes, Calls
    <3>3. \A one \in waiting : one.mount <= view'.mount
      <4>1. \A one \in waiting : one.mount <= view.mount
        BY <1>1 DEF CallsAreKnown
      <4>2. QED BY <1>3, <3>1, <4>1
    <3>4. \A one \in ToSet(settled) : one.call.mount <= view'.mount
      <4>1. \A one \in ToSet(settled) : one.call.mount <= view.mount
        BY <1>1 DEF CallsAreKnown
      <4>2. QED BY <1>3, <3>2, <4>1
    <3>5. QED BY <1>1, <1>2, <2>1, <3>3, <3>4 DEF CallsAreKnown
  <2>5. Once(settled, Mine')
    BY DEF Once, ToSet
  <2>6. OneAtATime'
    BY <1>2, <2>1, <2>5 DEF OneAtATime
  <2>7. PhaseFits'
    BY <1>2, <1>8, <2>1 DEF PhaseFits
  <2>8. QED BY <1>2, <1>9, <1>11, <2>1, <2>2, <2>3, <2>4, <2>6, <2>7
<1>12. QED BY <1>10, <1>11

\* create has answered or failed: its failure is now the view's.
LEMMA CreatedKeepsInHand ==
    ASSUME InHand, up, Created
    PROVE  InHand'
<1>1. Types /\ OneAtATime /\ PhaseFits /\ Held
  BY DEF InHand
<1>2. /\ reply.for \in {"create", "refresh"}
      /\ view' = [view EXCEPT !.phase = "filling", !.alive = reply.alive,
                              !.failed = ~reply.ok]
      /\ Invoke("buffer", up /\ entry # "dropped")
      /\ UNCHANGED <<pty, sub, frames, entry>>
  BY DEF Created, device
<1>3. reply \in Replies /\ IsView(view)
  BY <1>1 DEF Types
<1>4. /\ IsView(view)' /\ view'.mount = view.mount /\ view'.phase = "filling"
      /\ view'.failed = ~reply.ok /\ view'.status = view.status
  BY <1>2, <1>3 DEF IsView, Replies
<1>5. Current' = Current /\ Mine' = Mine
  BY <1>4 DEF Current, Mine
<1>6. waiting \cap Current = {} /\ ToSet(settled) \cap Mine = {} /\ ~view.failed
  BY <1>1, <1>2 DEF OneAtATime, PhaseFits, Fits
<1>7. view.mount <= view'.mount
  BY <1>3, <1>4 DEF IsView
<1>8. PICK possible \in BOOLEAN : Invoke("buffer", possible)
  BY <1>2 DEF Invoke
<1>9. /\ Types' /\ AnswersCome' /\ CallsAreKnown' /\ OneAtATime' /\ PhaseFits'
      /\ Publishes'
      /\ settled' = settled /\ stream' = stream /\ waiting \subseteq waiting'
  <2>1. Fits("buffer")'
    BY <1>4 DEF Fits
  <2>2. "buffer" \in {"buffer", "refresh", "restart"}
    OBVIOUS
  <2>3. QED BY <1>2, <1>4, <1>5, <1>6, <1>7, <1>8, <2>1, <2>2, NextCallIsTheOnlyOne
<1>10. ASSUME Trying PROVE Trying'
  <2>1. CASE reply.for \in {"create", "refresh"} /\ ~reply.ok
    BY <1>4, <2>1 DEF Trying
  <2>2. CASE ~(reply.for \in {"create", "refresh"} /\ ~reply.ok)
    BY <1>2, <1>5, <1>6, <1>9, <1>10, <2>2 DEF Trying, Helps
  <2>3. QED BY <2>1, <2>2
<1>11. Held'
  BY <1>1, <1>2, <1>9, <1>10 DEF Held
<1>12. QED BY <1>9, <1>11 DEF InHand

\* The buffer has come: the view is ready, and shows the error of its create.
LEMMA FilledKeepsInHand ==
    ASSUME InHand, Filled
    PROVE  InHand'
<1>1. Types /\ AnswersCome /\ CallsAreKnown /\ OneAtATime /\ PhaseFits /\ Publishes /\ Held
  BY DEF InHand
<1>2. /\ reply.for = "buffer"
      /\ view' = Settled(Hydrated(view, reply))
      /\ reply' = NoReply
      /\ UNCHANGED <<pty, sub, requests, frames, sent, waiting, settled, stream, entry>>
  BY DEF Filled, device, client
<1>3. /\ IsView(view)' /\ view'.mount = view.mount /\ view'.phase = "ready"
      /\ view'.failed = view.failed /\ (view.failed => view'.status = "error")
  <2>1. IsView(view)
    BY <1>1 DEF Types
  <2> DEFINE started == [view EXCEPT !.phase = "ready", !.queued = <<>>,
                             !.read = reply.ok,
                             !.shown = IF reply.ok THEN reply.data ELSE <<>>,
                             !.lastSeq = IF reply.ok THEN reply.seq ELSE 0]
             shown == CaughtUp(started, view.queued).shown
             lastSeq == CaughtUp(started, view.queued).lastSeq
  <2>2. Hydrated(view, reply) = [started EXCEPT !.shown = shown, !.lastSeq = lastSeq]
    BY Zenon DEF Hydrated
  <2> HIDE DEF shown, lastSeq
  <2>3. /\ IsView(started) /\ started.mount = view.mount /\ started.phase = "ready"
        /\ started.failed = view.failed /\ started.alive = view.alive
    BY <2>1 DEF IsView
  <2> HIDE DEF started
  <2> DEFINE h == Hydrated(view, reply)
  <2>4. /\ IsView(h) /\ h.mount = view.mount /\ h.phase = "ready"
        /\ h.failed = view.failed
    <3> DEFINE half == [started EXCEPT !.shown = shown]
    <3>1. /\ IsView(half) /\ half.mount = view.mount /\ half.phase = "ready"
          /\ half.failed = view.failed
      BY <2>3 DEF IsView
    <3>2. h = [half EXCEPT !.lastSeq = lastSeq]
      BY <2>2
    <3> HIDE DEF half, h
    <3>3. QED BY <3>1, <3>2 DEF IsView
  <2>5. view' = [h EXCEPT !.status = IF h.failed THEN "error"
                                     ELSE IF h.alive THEN "connected" ELSE "exited",
                          !.metExit = ~Alive(pty)]
    BY <1>2 DEF Settled
  <2> HIDE DEF h
  <2>6. QED BY <2>4, <2>5 DEF IsView
<1>4. Current' = Current /\ Mine' = Mine
  BY <1>3 DEF Current, Mine
<1>5. waiting \cap Current = {} /\ ToSet(settled) \cap Mine = {}
  BY <1>1, <1>2 DEF OneAtATime
<1>6. NoReply \in Replies /\ NoReply.for = "none"
  <2>1. <<>> \in Seq(Nat)
    BY EmptySeq
  <2>2. QED BY <2>1 DEF NoReply, Replies
<1>7. Types'
  BY <1>1, <1>2, <1>3, <1>6 DEF Types
<1>8. AnswersCome'
  BY <1>1, <1>2 DEF AnswersCome
<1>9. CallsAreKnown'
  BY <1>1, <1>2, <1>3 DEF CallsAreKnown
<1>10. OneAtATime'
  BY <1>1, <1>2, <1>4, <1>6 DEF OneAtATime
<1>11. PhaseFits'
  BY <1>2, <1>3, <1>4, <1>5, <1>6 DEF PhaseFits
<1>12. Publishes'
  BY <1>1, <1>2 DEF Publishes
<1>13. ASSUME Trying PROVE Trying'
  BY <1>2, <1>3, <1>4, <1>13 DEF Trying, Helps
<1>14. Held'
  BY <1>1, <1>2, <1>13 DEF Held
<1>15. QED BY <1>7, <1>8, <1>9, <1>10, <1>11, <1>12, <1>14 DEF InHand

\* The tab is mounted again: its first call refreshes the entry.
LEMMA RemountKeepsInHand ==
    ASSUME InHand, up, Remount
    PROVE  InHand'
<1>1. Types /\ CallsAreKnown /\ Held
  BY DEF InHand
<1>2. /\ view' = Mounted(view.mount + 1)
      /\ Invoke("refresh", up)
      /\ UNCHANGED <<pty, sub, frames, entry>>
  BY DEF Remount, device
<1>3. view.mount \in Nat
  BY <1>1 DEF Types, IsView
<1>4. /\ IsView(view)' /\ view'.mount = view.mount + 1 /\ view'.phase = "creating"
      /\ ~view'.failed
  BY <1>2, <1>3 DEF Mounted, IsView
<1>5. waiting \cap Current' = {}
  <2>1. \A call \in waiting : call.mount \in Nat /\ call.mount <= view.mount
    BY <1>1 DEF Types, CallsAreKnown, Calls
  <2>2. \A call \in waiting : call.mount # view'.mount
    BY <1>3, <1>4, <2>1
  <2>3. QED BY <2>2 DEF Current
<1>6. ToSet(settled) \cap Mine' = {}
  <2>1. \A outcome \in ToSet(settled) : outcome.call.mount <= view.mount
    BY <1>1 DEF CallsAreKnown
  <2>2. \A outcome \in ToSet(settled) : outcome.call.mount \in Nat
    <3>1. \A outcome \in ToSet(settled) : outcome \in Outcomes
      BY <1>1, EmptyHasNone DEF Types
    <3>2. QED BY <3>1 DEF Outcomes, Calls
  <2>3. \A outcome \in ToSet(settled) : outcome.call.mount # view'.mount
    BY <1>3, <1>4, <2>1, <2>2
  <2>4. QED BY <2>3 DEF Current, Mine
<1>7. PICK possible \in BOOLEAN : Invoke("refresh", possible) /\ possible
  BY <1>2 DEF Invoke
<1>8. /\ Types' /\ AnswersCome' /\ CallsAreKnown' /\ OneAtATime' /\ PhaseFits'
      /\ Publishes' /\ stream' = stream /\ Trying'
  <2>1. Fits("refresh")'
    BY <1>4 DEF Fits
  <2>2. view.mount <= view'.mount
    BY <1>3, <1>4
  <2>3. "refresh" \in {"buffer", "refresh", "restart"}
    OBVIOUS
  <2>4. QED BY <1>2, <1>4, <1>5, <1>6, <1>7, <2>1, <2>2, <2>3, NextCallIsTheOnlyOne
<1>9. Held'
  BY <1>1, <1>2, <1>8 DEF Held
<1>10. QED BY <1>8, <1>9 DEF InHand

\* A tab that can be started again has no call under way.
LEMMA RestartIsAlone ==
    ASSUME PhaseFits, Restart
    PROVE  waiting \cap Current = {} /\ ToSet(settled) \cap Mine = {}
<1>1. view.phase = "ready" /\ view.status = "error"
  BY DEF Restart
<1>2. ~Fits("buffer") /\ ~Fits("restart")
  BY <1>1 DEF Fits
<1>3. ASSUME NEW purpose, purpose # "buffer", purpose # "restart" PROVE ~Fits(purpose)
  BY <1>1, <1>3 DEF Fits
<1>4. ASSUME NEW purpose PROVE ~Fits(purpose)
  BY <1>2, <1>3
<1>5. QED BY <1>4 DEF PhaseFits

\* The failed tab is started again: its call refreshes the entry.
LEMMA RestartKeepsInHand ==
    ASSUME InHand, up, Restart
    PROVE  InHand'
<1>1. Types /\ PhaseFits /\ Held
  BY DEF InHand
<1>2. /\ view.phase = "ready" /\ view.status = "error"
      /\ view' = [view EXCEPT !.status = "starting", !.read = FALSE]
      /\ Invoke("restart", up)
      /\ UNCHANGED <<pty, sub, frames, entry>>
  BY DEF Restart, device
<1>3. /\ IsView(view)' /\ view'.mount = view.mount /\ view'.phase = "ready"
      /\ view'.status = "starting" /\ view.mount <= view'.mount
  <2>1. IsView(view) /\ view.mount \in Nat
    BY <1>1 DEF Types, IsView
  <2>2. /\ view' = [view EXCEPT !.status = "starting", !.read = FALSE]
        /\ view.phase = "ready"
    BY <1>2
  <2>3. /\ IsView(view)' /\ view'.mount = view.mount /\ view'.phase = "ready"
        /\ view'.status = "starting"
    BY <2>1, <2>2 DEF IsView
  <2>4. QED BY <2>1, <2>3
<1>4. Current' = Current /\ Mine' = Mine
  BY <1>3 DEF Current, Mine
<1>5. waiting \cap Current = {} /\ ToSet(settled) \cap Mine = {}
  BY <1>1, RestartIsAlone
<1>6. PICK possible \in BOOLEAN : Invoke("restart", possible) /\ possible
  BY <1>2 DEF Invoke
<1>7. /\ Types' /\ AnswersCome' /\ CallsAreKnown' /\ OneAtATime' /\ PhaseFits'
      /\ Publishes' /\ stream' = stream /\ Trying'
  <2>1. Fits("restart")'
    BY <1>3 DEF Fits
  <2>2. "restart" \in {"buffer", "refresh", "restart"}
    OBVIOUS
  <2>3. QED BY <1>2, <1>3, <1>4, <1>5, <1>6, <2>1, <2>2, NextCallIsTheOnlyOne
<1>8. Held'
  BY <1>1, <1>2, <1>7 DEF Held
<1>9. QED BY <1>7, <1>8 DEF InHand

\* start has ended again: its failure, if it failed, is now the view's.
LEMMA RestartedKeepsInHand ==
    ASSUME InHand, Restarted
    PROVE  InHand'
<1>1. Types /\ AnswersCome /\ CallsAreKnown /\ OneAtATime /\ PhaseFits /\ Publishes /\ Held
  BY DEF InHand
<1>2. /\ reply.for = "restart"
      /\ view' = Settled([view EXCEPT !.alive = reply.alive, !.failed = ~reply.ok])
      /\ reply' = NoReply
      /\ UNCHANGED <<pty, sub, requests, frames, sent, waiting, settled, stream, entry>>
  BY DEF Restarted, device, client
<1>3. view.phase = "ready" /\ view.status # "error"
  BY <1>1, <1>2 DEF PhaseFits, Fits
<1>4. /\ IsView(view)' /\ view'.mount = view.mount /\ view'.phase = "ready"
      /\ view'.failed = ~reply.ok /\ (~reply.ok => view'.status = "error")
  <2>1. IsView(view) /\ reply \in Replies
    BY <1>1 DEF Types
  <2> DEFINE again == [view EXCEPT !.alive = reply.alive, !.failed = ~reply.ok]
  <2>2. /\ IsView(again) /\ again.mount = view.mount /\ again.phase = "ready"
        /\ again.failed = ~reply.ok
    BY <1>3, <2>1 DEF IsView, Replies
  <2>3. view' = [again EXCEPT !.status = IF again.failed THEN "error"
                                     ELSE IF again.alive THEN "connected" ELSE "exited",
                              !.metExit = ~Alive(pty)]
    BY <1>2 DEF Settled
  <2> HIDE DEF again
  <2>4. QED BY <2>2, <2>3 DEF IsView
<1>5. Current' = Current /\ Mine' = Mine
  BY <1>4 DEF Current, Mine
<1>6. waiting \cap Current = {} /\ ToSet(settled) \cap Mine = {}
  BY <1>1, <1>2 DEF OneAtATime
<1>7. NoReply \in Replies /\ NoReply.for = "none"
  <2>1. <<>> \in Seq(Nat)
    BY EmptySeq
  <2>2. QED BY <2>1 DEF NoReply, Replies
<1>8. Types'
  BY <1>1, <1>2, <1>4, <1>7 DEF Types
<1>9. AnswersCome'
  BY <1>1, <1>2 DEF AnswersCome
<1>10. CallsAreKnown'
  BY <1>1, <1>2, <1>4 DEF CallsAreKnown
<1>11. OneAtATime'
  BY <1>1, <1>2, <1>5, <1>7 DEF OneAtATime
<1>12. PhaseFits'
  BY <1>2, <1>4, <1>5, <1>6, <1>7 DEF PhaseFits
<1>13. Publishes'
  BY <1>1, <1>2 DEF Publishes
<1>14. ASSUME Trying PROVE Trying'
  <2>1. CASE reply.ok
    BY <1>2, <1>3, <1>5, <1>14, <2>1 DEF Trying, Helps
  <2>2. CASE ~reply.ok
    BY <1>4, <2>2 DEF Trying
  <2>3. QED BY <2>1, <2>2
<1>15. Held'
  BY <1>1, <1>2, <1>14 DEF Held
<1>16. QED BY <1>8, <1>9, <1>10, <1>11, <1>12, <1>13, <1>15 DEF InHand

-----------------------------------------------------------------------------
(* The invariant and what it says of a terminal at rest                     *)

LEMMA FollowInit == Init => FollowInv
<1> SUFFICES ASSUME Init PROVE InHand
  BY DEF FollowInv
<1> DEFINE call == [id |-> 1, for |-> "create", mount |-> 1]
<1>1. call \in Calls
  BY DEF Calls
<1>2. /\ requests = <<1>> /\ frames = <<>> /\ settled = <<>> /\ sent = 1
      /\ waiting = {call} /\ stream = NoStream /\ entry = "alive"
      /\ reply = NoReply /\ view = Mounted(1) /\ sub = NoSub
      /\ pty = [pending |-> FALSE, seq |-> 0, exitAt |-> 0]
  BY DEF Init
<1>3. /\ <<>> \in Seq(Nat) /\ <<>> \in Seq(Frames) /\ <<>> \in Seq(Outcomes)
      /\ <<1>> \in Seq(Nat)
  BY EmptySeq
<1>4. /\ IsView(view) /\ view.mount = 1 /\ view.phase = "creating" /\ ~view.failed
  BY <1>2 DEF Mounted, IsView
<1>5. Types
  <2>1. pty \in Ptys /\ sub \in Subs
    BY <1>2 DEF Ptys, Subs, NoSub
  <2>2. stream \in Streams
    BY <1>2 DEF Streams, NoStream
  <2>3. reply \in Replies
    BY <1>2, <1>3 DEF Replies, NoReply
  <2>4. QED BY <1>1, <1>2, <1>3, <1>4, <2>1, <2>2, <2>3 DEF Types
<1>6. 1 \in ToSet(requests)
  <2>1. DOMAIN <<1>> = {1} /\ <<1>>[1] = 1
    OBVIOUS
  <2>2. QED BY <1>2, <2>1 DEF ToSet
<1>7. ToSet(settled) = {}
  BY <1>2, <1>3, EmptyHasNone
<1>8. call.id = 1 /\ call.for = "create" /\ call.mount = 1
  OBVIOUS
<1> HIDE DEF call
<1>9. AnswersCome
  BY <1>2, <1>6, <1>8 DEF AnswersCome
<1>10. CallsAreKnown
  BY <1>2, <1>4, <1>7, <1>8 DEF CallsAreKnown
<1>11. OneAtATime
  <2>1. Once(settled, Mine)
    BY <1>7 DEF Once, ToSet
  <2>2. reply.for = "none"
    BY <1>2 DEF NoReply
  <2>3. QED BY <1>2, <1>7, <2>1, <2>2 DEF OneAtATime
<1>12. PhaseFits
  BY <1>2, <1>4, <1>7, <1>8 DEF PhaseFits, Fits, NoReply
<1>13. Publishes
  BY <1>2, <1>7 DEF Publishes, NoStream
<1>14. Held
  <2>1. Helps(call)
    BY <1>1, <1>4, <1>8 DEF Helps, Current
  <2>2. QED BY <1>2, <2>1 DEF Held, Trying, NoStream
<1>15. QED BY <1>5, <1>9, <1>10, <1>11, <1>12, <1>13, <1>14 DEF InHand

\* A connection that has ended does not come back.
LEMMA EndedStaysEnded == Next => (up' => up)
BY DEF Next, Output, Flush, Exit, Attach, Receive, RunOn, Timeout, Lose, Created, Filled,
       Remount, Restart, Restarted

LEMMA FollowStep == FollowInv /\ [Next]_vars => FollowInv'
<1>1. ASSUME InHand, up, up', Next PROVE InHand'
  <2>1. CASE Output \/ Flush \/ Exit \/ Attach
    BY <1>1, <2>1, DeviceKeepsInHand
  <2>2. CASE Receive
    BY <1>1, <2>2, AnswerKeepsInHand, EventKeepsInHand
  <2>3. CASE RunOn
    BY <1>1, <2>3, RunOnKeepsInHand
  <2>4. CASE Timeout
    BY <1>1, <2>4, TimeoutKeepsInHand
  <2>5. CASE Lose
    BY <1>1, <2>5 DEF Lose
  <2>6. CASE Created
    BY <1>1, <2>6, CreatedKeepsInHand
  <2>7. CASE Filled
    BY <1>1, <2>7, FilledKeepsInHand
  <2>8. CASE Remount
    BY <1>1, <2>8, RemountKeepsInHand
  <2>9. CASE Restart \/ Restarted
    BY <1>1, <2>9, RestartKeepsInHand, RestartedKeepsInHand
  <2>10. QED BY <1>1, <2>1, <2>2, <2>3, <2>4, <2>5, <2>6, <2>7, <2>8, <2>9 DEF Next
<1>2. ASSUME FollowInv, Next PROVE FollowInv'
  BY <1>1, <1>2, EndedStaysEnded DEF FollowInv
<1>3. ASSUME FollowInv, UNCHANGED vars PROVE FollowInv'
  <2>1. UNCHANGED <<pty, sub, requests, frames, up, sent, waiting, settled, stream,
                    entry, reply, view>>
    BY <1>3 DEF vars, device, client
  <2>2. IsView(view) => IsView(view)'
    BY <2>1 DEF IsView
  <2>3. Types => Types'
    BY <2>1, <2>2 DEF Types
  <2>4. AnswersCome => AnswersCome'
    BY <2>1 DEF AnswersCome
  <2>5. CallsAreKnown => CallsAreKnown'
    BY <2>1 DEF CallsAreKnown
  <2>6. OneAtATime => OneAtATime'
    BY <2>1 DEF OneAtATime, Current, Mine
  <2>7. PhaseFits => PhaseFits'
    BY <2>1 DEF PhaseFits, Fits, Current, Mine
  <2>8. Publishes => Publishes'
    BY <2>1 DEF Publishes
  <2>9. Held => Held'
    BY <2>1 DEF Held, Trying, Helps, Current
  <2>10. QED BY <1>3, <2>1, <2>3, <2>4, <2>5, <2>6, <2>7, <2>8, <2>9
             DEF FollowInv, InHand
<1>4. QED BY <1>2, <1>3

\* While the connection is up, every call that waits has its answer coming, and a
\* terminal the bridge holds for alive is followed, or some call is under way that
\* will follow it, end it or drop it, or fail the view.
THEOREM StreamInvariant == Spec => []FollowInv
BY FollowInit, FollowStep, PTL DEF Spec

\* A terminal held for alive is followed once nothing is under way: no number of gaps,
\* resyncs, failed calls and mounts leaves it behind.
THEOREM FollowedAtRest == Spec => []IsFollowed
<1>1. FollowInv => IsFollowed
  <2> SUFFICES ASSUME FollowInv, Quiet, up, entry = "alive", view.status # "error"
               PROVE  stream.on /\ ~stream.stale /\ sub.on
    BY DEF IsFollowed
  <2>1. Types /\ AnswersCome /\ Publishes /\ Held
    BY DEF FollowInv, InHand
  <2>2. /\ requests = <<>> /\ frames = <<>> /\ settled = <<>>
        /\ reply.for = "none" /\ view.phase = "ready"
    BY DEF Quiet, NoReply
  <2>3. ToSet(requests) = {} /\ ToSet(frames) = {} /\ ToSet(settled) = {}
    BY <2>1, <2>2, EmptyHasNone DEF Types
  <2>4. waiting = {}
    BY <2>1, <2>3 DEF AnswersCome
  <2>5. ~Trying
    BY <2>2, <2>3, <2>4 DEF Trying
  <2>6. stream.on /\ ~stream.stale
    BY <2>1, <2>5 DEF Held
  <2>7. QED BY <2>1, <2>6 DEF Publishes
<1>2. QED BY <1>1, StreamInvariant, PTL

-----------------------------------------------------------------------------
(* Sequences in order                                                       *)

\* Every two elements of s, one before the other, are related by R.
Sorted(s, R) == \A i, j \in DOMAIN s : i < j => <<s[i], s[j]>> \in R

LEMMA SortedAppend ==
    ASSUME NEW S, NEW s \in Seq(S), NEW e \in S, NEW R,
           Sorted(s, R), \A x \in ToSet(s) : <<x, e>> \in R
    PROVE  Sorted(Append(s, e), R)
<1> DEFINE a == Append(s, e)
           n == Len(s)
<1>1. /\ n \in Nat /\ DOMAIN s = 1 .. n /\ DOMAIN a = 1 .. n + 1
      /\ \A i \in 1 .. n : a[i] = s[i]
      /\ a[n + 1] = e
  BY AppendProperties, LenProperties
<1> HIDE DEF a, n
<1>2. ASSUME NEW i \in 1 .. n + 1, NEW j \in 1 .. n + 1, i < j
      PROVE  <<a[i], a[j]>> \in R
  <2>1. i \in 1 .. n
    BY <1>1, <1>2
  <2>2. CASE j \in 1 .. n
    BY <1>1, <1>2, <2>1, <2>2 DEF Sorted
  <2>3. CASE j = n + 1
    BY <1>1, <2>1, <2>3 DEF ToSet
  <2>4. QED BY <1>1, <2>2, <2>3
<1>3. QED BY <1>1, <1>2 DEF Sorted, a

LEMMA SortedTail ==
    ASSUME NEW S, NEW s \in Seq(S), s # <<>>, NEW R, Sorted(s, R)
    PROVE  /\ Sorted(Tail(s), R)
           /\ \A x \in ToSet(Tail(s)) : <<Head(s), x>> \in R
<1> DEFINE t == Tail(s)
           h == Head(s)
           n == Len(t)
<1>1. /\ n \in Nat /\ DOMAIN t = 1 .. n /\ DOMAIN s = 1 .. n + 1
      /\ h = s[1] /\ \A i \in 1 .. n : t[i] = s[i + 1]
  <2>1. t \in Seq(S) /\ Head(s) = s[1] /\ Len(t) = Len(s) - 1
        /\ \A i \in 1 .. Len(t) : t[i] = s[i + 1]
    BY HeadTailProperties
  <2>2. n \in Nat /\ DOMAIN t = 1 .. n
    BY <2>1, LenProperties
  <2>3. Len(s) \in Nat /\ DOMAIN s = 1 .. Len(s)
    BY LenProperties
  <2>4. QED BY <2>1, <2>2, <2>3
<1> HIDE DEF t, h, n
<1>2. \A i \in 1 .. n : i + 1 \in 1 .. n + 1 /\ 1 < i + 1
  BY <1>1
<1>3. Sorted(t, R)
  <2>1. ASSUME NEW i \in 1 .. n, NEW j \in 1 .. n, i < j PROVE <<t[i], t[j]>> \in R
    <3>1. i + 1 < j + 1
      BY <1>1, <2>1
    <3>2. QED BY <1>1, <1>2, <3>1 DEF Sorted
  <2>2. QED BY <1>1, <2>1 DEF Sorted
<1>4. \A x \in ToSet(t) : <<h, x>> \in R
  <2>1. 1 \in 1 .. n + 1
    BY <1>1
  <2>2. ASSUME NEW i \in 1 .. n PROVE <<h, t[i]>> \in R
    BY <1>1, <1>2, <2>1 DEF Sorted
  <2>3. QED BY <1>1, <2>2 DEF ToSet
<1>5. QED BY <1>3, <1>4 DEF t, h

LEMMA SortedEmpty ==
    ASSUME NEW R PROVE Sorted(<<>>, R)
BY DEF Sorted

\* What is concatenated to nothing, or is one element.
LEMMA ConcatOne ==
    ASSUME NEW S, NEW s \in Seq(S)
    PROVE  /\ <<>> \o s = s
           /\ s \o <<>> = s
           /\ \A e \in S : s \o <<e>> = Append(s, e)
BY ConcatEmptySeq, AppendIsConcat

\* The elements of s are numbers that follow each other.
InARow(s) == \A i \in DOMAIN s : s[i] + 1 = s[1] + i

Ascending == {p \in Nat \X Nat : p[1] < p[2]}

LEMMA RowFacts ==
    ASSUME NEW s \in Seq(Nat), InARow(s), s # <<>>
    PROVE  /\ Len(s) \in DOMAIN s /\ s[Len(s)] \in Nat
           /\ Sorted(s, Ascending)
           /\ \A n \in ToSet(s) : n <= s[Len(s)]
           /\ InARow(Append(s, s[Len(s)] + 1))
<1> DEFINE n == Len(s)
<1>1. n \in Nat \ {0} /\ DOMAIN s = 1 .. n /\ \A i \in 1 .. n : s[i] \in Nat
  BY LenProperties, EmptySeq, ElementOfSeq
<1> HIDE DEF n
<1>2. n \in 1 .. n /\ 1 \in 1 .. n
  BY <1>1
<1>3. \A i \in 1 .. n : s[i] + 1 = s[1] + i
  BY <1>1 DEF InARow
<1>4. \A i, j \in 1 .. n : i < j => s[i] < s[j]
  <2>1. ASSUME NEW i \in 1 .. n, NEW j \in 1 .. n, i < j PROVE s[i] < s[j]
    <3>1. s[i] \in Nat /\ s[j] \in Nat /\ s[1] \in Nat
      BY <1>1, <1>2
    <3>2. s[i] + 1 = s[1] + i /\ s[j] + 1 = s[1] + j
      BY <1>3
    <3>3. QED BY <1>1, <2>1, <3>1, <3>2
  <2>2. QED BY <2>1
<1>5. \A i \in 1 .. n : s[i] <= s[n]
  <2>1. ASSUME NEW i \in 1 .. n PROVE s[i] <= s[n]
    BY <1>1, <1>2, <1>4
  <2>2. QED BY <2>1
<1>6. InARow(Append(s, s[n] + 1))
  <2> DEFINE a == Append(s, s[n] + 1)
  <2>1. s[n] + 1 \in Nat
    BY <1>1, <1>2
  <2>2. /\ DOMAIN a = 1 .. n + 1
        /\ \A i \in 1 .. n : a[i] = s[i]
        /\ a[n + 1] = s[n] + 1
    BY <1>1, <2>1, AppendProperties, LenProperties DEF n
  <2> HIDE DEF a
  <2>3. ASSUME NEW i \in 1 .. n + 1 PROVE a[i] + 1 = a[1] + i
    <3>1. CASE i \in 1 .. n
      BY <1>2, <1>3, <2>2, <3>1
    <3>2. CASE i = n + 1
      <4>1. s[n] + 1 = s[1] + n
        BY <1>2, <1>3
      <4>2. s[n] \in Nat /\ s[1] \in Nat
        BY <1>1, <1>2
      <4>3. QED BY <1>1, <1>2, <2>2, <3>2, <4>1, <4>2
    <3>3. QED BY <1>1, <3>1, <3>2
  <2>4. QED BY <2>2, <2>3 DEF InARow, a
<1>7. Sorted(s, Ascending)
  BY <1>1, <1>4 DEF Sorted, Ascending
<1>8. QED BY <1>1, <1>2, <1>5, <1>6, <1>7 DEF n, ToSet

-----------------------------------------------------------------------------
(* What has waited, in the order of its numbers                             *)

\* Induction up to n, for a set of numbers.
LEMMA UpTo ==
    ASSUME NEW n \in Nat, NEW S, 0 \in S, \A i \in 0 .. n : i < n /\ i \in S => i + 1 \in S
    PROVE  \A i \in 0 .. n : i \in S
<1> DEFINE T == {i \in 0 .. n : i \notin S}
           Below == {p \in Nat \X Nat : p[1] < p[2]}
<1>1. IsWellFoundedOn(Below, Nat)
  BY NatLessThanWellFounded DEF OpToRel
<1>2. SUFFICES ASSUME T # {} PROVE FALSE
  OBVIOUS
<1>3. T \subseteq Nat
  OBVIOUS
<1>4. PICK m \in T : \A y \in T : <<y, m>> \notin Below
  <2> HIDE DEF T, Below
  <2>1. QED BY <1>1, <1>2, <1>3, WFMin
<1>5. m # 0 /\ m \in 0 .. n
  OBVIOUS
<1>6. m - 1 \in 0 .. n /\ m - 1 < n /\ (m - 1) + 1 = m /\ <<m - 1, m>> \in Below
  BY <1>5
<1>7. m - 1 \notin T
  BY <1>4, <1>6
<1>8. m - 1 \in S
  BY <1>6, <1>7
<1>9. QED BY <1>6, <1>8

Items == [seq : Nat, data : Seq(Nat)]

ItemOrder == {p \in Items \X Items : p[1].seq < p[2].seq}

\* What is in order stays as it is.
LEMMA BySeqKeeps ==
    ASSUME NEW q \in Seq(Items), Sorted(q, ItemOrder)
    PROVE  BySeq(q) = q
<1> DEFINE n == Len(q)
           before(i) == {j \in DOMAIN q : \/ q[j].seq < q[i].seq
                                          \/ q[j].seq = q[i].seq /\ j < i}
           at(k) == CHOOSE i \in DOMAIN q : Cardinality(before(i)) = k - 1
<1>1. n \in Nat /\ DOMAIN q = 1 .. n /\ \A i \in 1 .. n : q[i] \in Items
  BY LenProperties, ElementOfSeq
<1> HIDE DEF n
<1>2. \A i, j \in 1 .. n : i < j => q[i].seq < q[j].seq
  BY <1>1 DEF Sorted, ItemOrder
<1>3. ASSUME NEW i \in 1 .. n PROVE before(i) = 1 .. (i - 1)
  <2>1. ASSUME NEW j \in 1 .. n PROVE j \in before(i) <=> j < i
    <3>1. q[i].seq \in Nat /\ q[j].seq \in Nat
      BY <1>1 DEF Items
    <3>2. CASE j < i
      BY <1>1, <1>2, <3>2
    <3>3. CASE i < j
      <4>1. q[i].seq < q[j].seq
        BY <1>2, <3>3
      <4>2. QED BY <1>1, <3>1, <3>3, <4>1
    <3>4. CASE i = j
      BY <1>1, <3>1, <3>4
    <3>5. QED BY <1>1, <3>2, <3>3, <3>4
  <2>2. before(i) \subseteq 1 .. n
    BY <1>1
  <2> HIDE DEF before
  <2>3. \A j : j \in 1 .. (i - 1) <=> j \in 1 .. n /\ j < i
    BY <1>1
  <2>4. \A j : j \in before(i) <=> j \in 1 .. (i - 1)
    BY <2>1, <2>2, <2>3
  <2>5. QED BY <2>4
<1>4. ASSUME NEW i \in 1 .. n PROVE Cardinality(before(i)) = i - 1
  <2>1. before(i) = 1 .. (i - 1)
    BY <1>3
  <2>2. 1 \in Int /\ i - 1 \in Int
    BY <1>1
  <2>3. Cardinality(1 .. (i - 1)) = IF 1 > i - 1 THEN 0 ELSE (i - 1) - 1 + 1
    BY <2>2, FS_Interval
  <2> HIDE DEF before
  <2>4. QED BY <1>1, <2>1, <2>3
<1>5. ASSUME NEW k \in 1 .. n PROVE at(k) = k
  <2>1. \A i \in 1 .. n : Cardinality(before(i)) = k - 1 => i = k
    <3>1. ASSUME NEW i \in 1 .. n, Cardinality(before(i)) = k - 1 PROVE i = k
      <4> HIDE DEF before
      <4>1. QED BY <1>1, <1>4, <3>1
    <3>2. QED BY <3>1
  <2>2. Cardinality(before(k)) = k - 1
    BY <1>4
  <2> HIDE DEF before
  <2>3. QED BY <1>1, <2>1, <2>2
<1>6. BySeq(q) = [k \in DOMAIN q |-> q[at(k)]]
  BY Zenon DEF BySeq
<1> HIDE DEF at
<1>7. BySeq(q) = [k \in 1 .. n |-> q[k]]
  BY <1>1, <1>5, <1>6
<1>8. q = [k \in 1 .. n |-> q[k]]
  BY LenProperties DEF n
<1>9. QED BY <1>7, <1>8

\* The items are written one after the other.
LEMMA CatchingUp ==
    ASSUME NEW v, NEW q \in Seq(Items), Sorted(q, ItemOrder)
    PROVE  \E written : /\ written[0] = v
                        /\ \A i \in 1 .. Len(q) :
                               written[i] = Written(written[i - 1], q[i])
                        /\ CaughtUp(v, q) = written[Len(q)]
<1> DEFINE n == Len(q)
           IsWriting(g, k) ==
               g = [i \in 0 .. k |-> IF i = 0 THEN v ELSE Written(g[i - 1], q[i])]
           S == {k \in 0 .. n : \E g : IsWriting(g, k)}
<1>1. n \in Nat
  BY LenProperties
<1>2. 0 \in S
  <2>1. IsWriting([i \in 0 .. 0 |-> v], 0)
    OBVIOUS
  <2> HIDE DEF IsWriting
  <2>2. QED BY <1>1, <2>1
<1>3. ASSUME NEW k \in 0 .. n, k < n, k \in S PROVE k + 1 \in S
  <2>1. PICK g : IsWriting(g, k)
    BY <1>3
  <2> DEFINE h == [i \in 0 .. k + 1 |-> IF i = k + 1 THEN Written(g[k], q[k + 1]) ELSE g[i]]
  <2>2. ASSUME NEW i \in 0 .. k + 1
        PROVE  h[i] = IF i = 0 THEN v ELSE Written(h[i - 1], q[i])
    <3>1. CASE i = k + 1
      <4>1. k \in 0 .. k + 1 /\ k # k + 1 /\ i - 1 = k /\ i # 0
        BY <1>1, <3>1
      <4>2. h[k] = g[k] /\ h[i] = Written(g[k], q[k + 1])
        BY <3>1, <4>1
      <4>3. QED BY <3>1, <4>1, <4>2
    <3>2. CASE i # k + 1
      <4>1. i \in 0 .. k
        BY <1>1, <3>2
      <4>2. h[i] = g[i]
        BY <3>2
      <4>3. g[i] = IF i = 0 THEN v ELSE Written(g[i - 1], q[i])
        BY <2>1, <4>1
      <4>4. i # 0 => i - 1 \in 0 .. k + 1 /\ i - 1 # k + 1
        BY <1>1, <4>1
      <4>5. i # 0 => h[i - 1] = g[i - 1]
        BY <4>4
      <4> HIDE DEF h
      <4>6. QED BY <4>2, <4>3, <4>5
    <3>3. QED BY <3>1, <3>2
  <2>3. h = [i \in 0 .. k + 1 |-> h[i]]
    OBVIOUS
  <2> HIDE DEF h
  <2>4. IsWriting(h, k + 1)
    BY <2>2, <2>3
  <2> HIDE DEF IsWriting
  <2>5. k + 1 \in 0 .. n
    BY <1>1, <1>3
  <2>6. QED BY <2>4, <2>5
<1> DEFINE writing == CHOOSE g : IsWriting(g, n)
<1>4. \A i \in 0 .. n : i \in S
  <2> HIDE DEF S
  <2>1. QED BY <1>1, <1>2, <1>3, UpTo
<1>5. n \in 0 .. n
  BY <1>1
<1>6. n \in S
  BY <1>4, <1>5
<1>7. \E g : IsWriting(g, n)
  <2> HIDE DEF IsWriting
  <2>1. QED BY <1>6
<1>8. IsWriting(writing, n)
  <2> HIDE DEF IsWriting
  <2>1. QED BY <1>7
<1>9. BySeq(q) = q
  BY BySeqKeeps
<1>10. CaughtUp(v, q) = (CHOOSE g : g = [i \in 0 .. Len(q) |->
            IF i = 0 THEN v ELSE Written(g[i - 1], BySeq(q)[i])])[Len(q)]
  BY Zenon DEF CaughtUp
<1>11. CaughtUp(v, q) = writing[n]
  BY <1>9, <1>10
<1> HIDE DEF writing
<1>12. /\ writing[0] = v
       /\ \A i \in 1 .. n : writing[i] = Written(writing[i - 1], q[i])
  <2>1. writing = [i \in 0 .. n |-> IF i = 0 THEN v ELSE Written(writing[i - 1], q[i])]
    BY <1>8
  <2>2. 0 \in 0 .. n /\ \A i \in 1 .. n : i \in 0 .. n /\ i # 0
    BY <1>1
  <2>3. QED BY <2>1, <2>2
<1>13. QED BY <1>11, <1>12 DEF n

-----------------------------------------------------------------------------
(* What is under way from the device, in the order in which it was sent     *)

Number(frame) == IF frame.kind = "answer" THEN frame.seq ELSE frame.cursor

\* An event is new to whoever got the frames before it; an answer is of its time.
FrameOrder ==
    {p \in Frames \X Frames :
        IF p[2].kind = "answer"
        THEN /\ Number(p[1]) <= p[2].seq
             /\ p[1].kind = "answer" => p[1].id < p[2].id
        ELSE Number(p[1]) < p[2].cursor}

\* An answer holds the output up to its number.  The exit takes a number and has
\* no output, and it is the last event.
IsSnapshot(x, session) ==
    /\ InARow(x.data)
    /\ x.data # <<>> => x.data[Len(x.data)] = IF x.alive THEN x.seq ELSE x.seq - 1
    /\ x.data = <<>> => x.seq = 0 \/ (~x.alive /\ x.seq = 1)
    /\ IF x.alive THEN x.seq <= Batches(session)
       ELSE ~Alive(session) /\ x.seq = session.seq

FrameFits(frame, session) ==
    /\ Number(frame) <= session.seq
    /\ IF frame.kind = "answer" THEN IsSnapshot(frame, session)
       ELSE /\ frame.cursor = frame.previous + 1
            /\ frame.kind = "exit" <=> frame.cursor = session.exitAt

ExitIsLast(session) ==
    ~Alive(session) => session.exitAt = session.seq /\ ~session.pending

Device ==
    /\ ExitIsLast(pty)
    /\ sub.on => sub.last = pty.seq

Channel ==
    /\ Sorted(frames, FrameOrder)
    /\ \A frame \in ToSet(frames) : FrameFits(frame, pty)
    /\ Sorted(requests, Ascending)
    /\ \A id \in ToSet(requests) : id <= sent
    /\ \A frame \in ToSet(frames) :
           frame.kind = "answer" =>
               frame.id <= sent /\ \A id \in ToSet(requests) : frame.id < id

\* Without a connection nothing is under way, and nothing will be.
Cut == frames = <<>> /\ requests = <<>> /\ ~sub.on

ChannelInv == IF up THEN Device /\ Channel ELSE Cut

\* What a session may become.
Grows(before, after) ==
    /\ before.seq <= after.seq
    /\ Alive(before) \/ (after.seq = before.seq /\ after.exitAt = before.exitAt)
    /\ Alive(after) \/ ~Alive(before) \/ before.seq < after.exitAt

LEMMA NumberIsTyped ==
    ASSUME NEW frame \in Frames
    PROVE  /\ Number(frame) \in Nat
           /\ frame.kind = "answer" => frame \in Answers
           /\ frame.kind # "answer" => frame \in Events
BY DEF Number, Frames, Answers, Events

LEMMA SessionsGrow ==
    ASSUME NEW session \in Ptys, ExitIsLast(session)
    PROVE  /\ Flushed(session) \in Ptys /\ ExitIsLast(Flushed(session))
           /\ Grows(session, Flushed(session))
           /\ Flushed(session).seq <= session.seq + 1
           /\ ~Flushed(session).pending
           /\ Flushed(session).exitAt = session.exitAt
           /\ Alive(session) =>
                  LET after == Exited(Flushed(session))
                  IN  /\ after \in Ptys /\ ExitIsLast(after)
                      /\ Grows(session, after)
                      /\ after.seq = Flushed(session).seq + 1 /\ after.exitAt = after.seq
<1> DEFINE f == Flushed(session)
           after == Exited(f)
<1>1. /\ f \in Ptys /\ ~f.pending /\ f.exitAt = session.exitAt
      /\ f.seq = IF session.pending THEN session.seq + 1 ELSE session.seq
  <2>1. session.seq + 1 \in Nat
    BY DEF Ptys
  <2> DEFINE quiet == [session EXCEPT !.pending = FALSE]
  <2>2. /\ quiet \in Ptys /\ ~quiet.pending
        /\ quiet.seq = session.seq /\ quiet.exitAt = session.exitAt
    BY DEF Ptys
  <2> HIDE DEF quiet
  <2> DEFINE next == [quiet EXCEPT !.seq = session.seq + 1]
  <2>3. /\ next \in Ptys /\ ~next.pending
        /\ next.seq = session.seq + 1 /\ next.exitAt = session.exitAt
    BY <2>1, <2>2 DEF Ptys
  <2>4. f = IF session.pending THEN next ELSE session
    BY Zenon DEF Flushed, quiet
  <2> HIDE DEF next, f
  <2>5. session.pending \in BOOLEAN
    BY DEF Ptys
  <2>6. QED BY <2>3, <2>4, <2>5
<1> HIDE DEF f
<1>2. session.seq \in Nat /\ session.exitAt \in Nat /\ f.seq \in Nat
  BY <1>1 DEF Ptys
<1>3. ExitIsLast(f) /\ Grows(session, f) /\ f.seq <= session.seq + 1
  BY <1>1, <1>2 DEF ExitIsLast, Grows, Alive
<1>4. /\ after \in Ptys /\ after.seq = f.seq + 1 /\ after.exitAt = f.seq + 1
      /\ ~after.pending
  <2>1. f.seq + 1 \in Nat
    BY <1>2
  <2> DEFINE next == [f EXCEPT !.seq = f.seq + 1]
  <2>2. next \in Ptys /\ next.seq = f.seq + 1 /\ ~next.pending
    BY <1>1, <2>1 DEF Ptys
  <2>3. after = [next EXCEPT !.exitAt = f.seq + 1]
    BY DEF Exited
  <2> HIDE DEF next, after
  <2>4. QED BY <2>1, <2>2, <2>3 DEF Ptys
<1> HIDE DEF after
<1>5. ExitIsLast(after)
  BY <1>4 DEF ExitIsLast
<1>6. Alive(session) => Grows(session, after)
  BY <1>1, <1>2, <1>4 DEF Grows, Alive
<1>7. QED BY <1>1, <1>3, <1>4, <1>5, <1>6 DEF f, after

LEMMA GrowingKeeps ==
    ASSUME NEW before \in Ptys, NEW after \in Ptys, Grows(before, after),
           ExitIsLast(before), ExitIsLast(after)
    PROVE  /\ Batches(before) <= Batches(after)
           /\ \A frame \in Frames : FrameFits(frame, before) => FrameFits(frame, after)
           /\ \A x : x.seq \in Nat /\ IsSnapshot(x, before) => IsSnapshot(x, after)
<1>1. /\ before.seq \in Nat /\ before.exitAt \in Nat
      /\ after.seq \in Nat /\ after.exitAt \in Nat
  BY DEF Ptys
<1>2. /\ Batches(before) <= Batches(after)
      /\ Batches(before) \in Nat /\ Batches(after) \in Nat
      /\ ~Alive(before) => ~Alive(after) /\ after.seq = before.seq
  BY <1>1, SessionsAreTyped DEF Batches, Alive, Grows, ExitIsLast
<1>3. ASSUME NEW x, x.seq \in Nat, IsSnapshot(x, before) PROVE IsSnapshot(x, after)
  <2>1. CASE x.alive
    <3>1. x.seq <= Batches(after)
      BY <1>2, <1>3, <2>1 DEF IsSnapshot
    <3>2. QED BY <1>3, <2>1, <3>1 DEF IsSnapshot
  <2>2. CASE ~x.alive
    <3>1. ~Alive(after) /\ x.seq = after.seq
      BY <1>2, <1>3, <2>2 DEF IsSnapshot
    <3>2. QED BY <1>3, <2>2, <3>1 DEF IsSnapshot
  <2>3. QED BY <2>1, <2>2
<1>4. ASSUME NEW frame \in Frames, FrameFits(frame, before) PROVE FrameFits(frame, after)
  <2>1. Number(frame) <= after.seq
    BY <1>1, <1>4, NumberIsTyped DEF FrameFits, Grows
  <2>2. CASE frame.kind = "answer"
    <3>1. frame.seq \in Nat
      BY <2>2, NumberIsTyped DEF Answers
    <3>2. QED BY <1>3, <1>4, <2>1, <2>2, <3>1 DEF FrameFits
  <2>3. CASE frame.kind # "answer"
    <3>1. /\ frame.cursor \in Nat /\ frame.previous \in Nat
          /\ frame.cursor = frame.previous + 1 /\ frame.cursor <= before.seq
          /\ frame.kind = "exit" <=> frame.cursor = before.exitAt
      BY <1>4, <2>3, NumberIsTyped DEF FrameFits, Number, Events
    <3>2. frame.cursor = before.exitAt <=> frame.cursor = after.exitAt
      BY <1>1, <3>1 DEF Grows, Alive
    <3>3. QED BY <2>1, <2>3, <3>1, <3>2 DEF FrameFits
  <2>4. QED BY <2>2, <2>3
<1>5. QED BY <1>2, <1>3, <1>4

\* A frame that is sent goes behind the frames that are under way.
LEMMA SentBehind ==
    ASSUME NEW s \in Seq(Frames), Sorted(s, FrameOrder), NEW frame \in Frames,
           \A one \in ToSet(s) :
               IF frame.kind = "answer"
               THEN Number(one) <= frame.seq /\ (one.kind = "answer" => one.id < frame.id)
               ELSE Number(one) < frame.cursor
    PROVE  /\ s \o <<frame>> \in Seq(Frames)
           /\ Sorted(s \o <<frame>>, FrameOrder)
           /\ ToSet(s \o <<frame>>) = ToSet(s) \cup {frame}
<1>1. s \o <<frame>> = Append(s, frame)
  BY ConcatOne
<1>2. ASSUME NEW one \in ToSet(s) PROVE <<one, frame>> \in FrameOrder
  <2>1. one \in Frames
    BY EmptyHasNone
  <2>2. QED BY <2>1 DEF FrameOrder
<1>3. Sorted(Append(s, frame), FrameOrder)
  BY <1>2, SortedAppend
<1>4. Append(s, frame) \in Seq(Frames) /\ ToSet(Append(s, frame)) = ToSet(s) \cup {frame}
  BY AppendFacts
<1>5. QED BY <1>1, <1>3, <1>4

IsEvent(frame, n) == frame.kind # "answer" /\ frame.cursor = n

With(s, session, n, previous, skipped) == s \o Pushed(session, n, previous, skipped)

LEMMA PushedBehind ==
    ASSUME NEW s \in Seq(Frames), Sorted(s, FrameOrder),
           NEW previous \in Nat, NEW n \in Nat, n = previous + 1,
           \A one \in ToSet(s) : Number(one) < n,
           NEW session \in Ptys, n <= session.seq, NEW skipped,
           NEW t, t = With(s, session, n, previous, skipped)
    PROVE  /\ t \in Seq(Frames) /\ Sorted(t, FrameOrder)
           /\ ToSet(s) \subseteq ToSet(t)
           /\ \A one \in ToSet(t) :
                  one \in ToSet(s) \/ (IsEvent(one, n) /\ FrameFits(one, session))
           /\ n \notin skipped => \E one \in ToSet(t) : IsEvent(one, n)
<1> DEFINE frame == EventFrame(session, n, previous)
<1>1. /\ frame \in Frames /\ frame.kind # "answer" /\ frame.cursor = n
      /\ frame.previous = previous
      /\ frame.kind = "exit" <=> n = session.exitAt
  BY DEF EventFrame, Frames, Events
<1>2. t = s \o (IF n \in skipped THEN <<>> ELSE <<frame>>)
  BY DEF Pushed, With
<1> HIDE DEF frame
<1>3. IsEvent(frame, n) /\ FrameFits(frame, session)
  BY <1>1 DEF IsEvent, FrameFits, Number
<1>4. CASE n \in skipped
  <2>1. t = s
    BY <1>2, <1>4, ConcatOne
  <2>2. QED BY <1>4, <2>1
<1>5. CASE n \notin skipped
  <2>1. t = s \o <<frame>>
    BY <1>2, <1>5
  <2>2. /\ t \in Seq(Frames) /\ Sorted(t, FrameOrder)
        /\ ToSet(t) = ToSet(s) \cup {frame}
    <3>1. \A one \in ToSet(s) :
              IF frame.kind = "answer"
              THEN Number(one) <= frame.seq /\ (one.kind = "answer" => one.id < frame.id)
              ELSE Number(one) < frame.cursor
      BY <1>1
    <3>2. frame \in Frames
      BY <1>1
    <3> QED BY <2>1, <3>1, <3>2, SentBehind
  <2>3. QED BY <1>3, <2>2
<1>6. QED BY <1>4, <1>5

\* The subscriber is sent what is new to it, without a hole unless it is skipped.
LEMMA PublishedBehind ==
    ASSUME pty \in Ptys, sub \in Subs, sub.last = pty.seq,
           frames \in Seq(Frames), Sorted(frames, FrameOrder),
           \A one \in ToSet(frames) : FrameFits(one, pty),
           NEW after \in Ptys, pty.seq <= after.seq, after.seq <= pty.seq + 2,
           NEW skipped,
           NEW t, t = frames \o Published(pty, after, skipped)
    PROVE  /\ t \in Seq(Frames) /\ Sorted(t, FrameOrder)
           /\ ToSet(frames) \subseteq ToSet(t)
           /\ \A one \in ToSet(t) :
                  \/ one \in ToSet(frames)
                  \/ one.kind # "answer" /\ one.cursor > pty.seq /\ FrameFits(one, after)
           /\ skipped = {} => \A n \in (pty.seq + 1) .. after.seq :
                                  \E one \in ToSet(t) : IsEvent(one, n)
<1> DEFINE first == pty.seq + 1
           one1 == IF after.seq < first THEN <<>>
                   ELSE Pushed(after, first, sub.last, skipped)
           one2 == IF after.seq <= first THEN <<>>
                   ELSE Pushed(after, first + 1, first, skipped)
           half == frames \o one1
<1>1. /\ pty.seq \in Nat /\ after.seq \in Nat /\ first \in Nat /\ first + 1 \in Nat
      /\ first = pty.seq + 1
  BY DEF Ptys
<1>2. t = frames \o (one1 \o one2)
  BY DEF Published
<1>3. \A one \in ToSet(frames) : one \in Frames /\ Number(one) < first
  <2>1. ASSUME NEW one \in ToSet(frames) PROVE one \in Frames /\ Number(one) < first
    <3>1. one \in Frames
      BY EmptyHasNone
    <3>2. Number(one) \in Nat /\ Number(one) <= pty.seq
      BY <3>1, NumberIsTyped DEF FrameFits
    <3>3. QED BY <1>1, <3>1, <3>2
  <2>2. QED BY <2>1
<1>4. sub.last \in Nat /\ first = sub.last + 1
  BY <1>1
<1>5. one1 \in Seq(Frames) /\ one2 \in Seq(Frames)
  <2>1. ASSUME NEW n \in Nat, NEW previous \in Nat
        PROVE  Pushed(after, n, previous, skipped) \in Seq(Frames)
    <3>1. EventFrame(after, n, previous) \in Frames
      BY <2>1 DEF EventFrame, Frames, Events
    <3>2. <<EventFrame(after, n, previous)>> \in Seq(Frames)
      BY <3>1
    <3>3. <<>> \in Seq(Frames)
      BY EmptySeq
    <3>4. QED BY <3>2, <3>3 DEF Pushed
  <2>2. <<>> \in Seq(Frames)
    BY EmptySeq
  <2>3. QED BY <1>1, <1>4, <2>1, <2>2
<1>6. /\ half \in Seq(Frames) /\ Sorted(half, FrameOrder)
      /\ ToSet(frames) \subseteq ToSet(half)
      /\ \A one \in ToSet(half) :
             \/ one \in ToSet(frames)
             \/ IsEvent(one, first) /\ FrameFits(one, after) /\ first <= after.seq
      /\ first <= after.seq /\ skipped = {} => \E one \in ToSet(half) : IsEvent(one, first)
  <2>1. CASE after.seq < first
    <3>1. one1 = <<>>
      BY <2>1
    <3>2. half = frames
      BY <3>1, ConcatOne
    <3>3. ~(first <= after.seq)
      BY <1>1, <2>1
    <3> HIDE DEF half
    <3>4. QED BY <3>2, <3>3
  <2>2. CASE ~(after.seq < first)
    <3>1. half = With(frames, after, first, sub.last, skipped)
      BY <2>2 DEF With
    <3>2. first <= after.seq
      BY <1>1, <2>2
    <3>3. \A one \in ToSet(frames) : Number(one) < first
      BY <1>3
    <3> HIDE DEF half, first
    <3>4. /\ half \in Seq(Frames) /\ Sorted(half, FrameOrder)
          /\ ToSet(frames) \subseteq ToSet(half)
          /\ \A one \in ToSet(half) :
                 one \in ToSet(frames) \/ (IsEvent(one, first) /\ FrameFits(one, after))
          /\ first \notin skipped => \E one \in ToSet(half) : IsEvent(one, first)
      <4> DEFINE last == sub.last
      <4>1. last \in Nat /\ first = last + 1 /\ half = With(frames, after, first, last, skipped)
        BY <1>4, <3>1
      <4>2. first \in Nat
        BY <1>1
      <4> HIDE DEF last
      <4>3. QED BY <3>2, <3>3, <4>1, <4>2, PushedBehind
    <3>5. QED BY <3>2, <3>4
  <2>3. QED BY <2>1, <2>2
<1>7. t = half \o one2
  <2>1. (frames \o one1) \o one2 = frames \o (one1 \o one2)
    <3> HIDE DEF one1, one2
    <3>1. QED BY <1>5, ConcatAssociative
  <2>2. QED BY <1>2, <2>1
<1>8. \A one \in ToSet(half) : Number(one) < first + 1
  <2>1. ASSUME NEW one \in ToSet(half) PROVE Number(one) < first + 1
    <3>1. CASE one \in ToSet(frames)
      <4>1. Number(one) < first /\ Number(one) \in Nat
        BY <1>3, <3>1, NumberIsTyped
      <4> HIDE DEF first
      <4>2. QED BY <1>1, <4>1
    <3>2. CASE IsEvent(one, first)
      <4>1. Number(one) = first
        BY <3>2 DEF IsEvent, Number
      <4> HIDE DEF first
      <4>2. QED BY <1>1, <4>1
    <3>3. QED BY <1>6, <2>1, <3>1, <3>2
  <2>2. QED BY <2>1
<1> HIDE DEF half, one1
<1>9. CASE after.seq <= first
  <2>1. one2 = <<>>
    BY <1>9
  <2>2. t = half
    BY <1>6, <1>7, <2>1, ConcatOne
  <2>3. \A one \in ToSet(t) :
            \/ one \in ToSet(frames)
            \/ one.kind # "answer" /\ one.cursor > pty.seq /\ FrameFits(one, after)
    BY <1>1, <1>6, <2>2 DEF IsEvent
  <2>4. ASSUME skipped = {}, NEW n \in (pty.seq + 1) .. after.seq
        PROVE  \E one \in ToSet(t) : IsEvent(one, n)
    <3>1. n = first /\ first <= after.seq
      BY <1>1, <1>9, <2>4
    <3>2. QED BY <1>6, <2>2, <2>4, <3>1
  <2>5. QED BY <1>6, <2>2, <2>3, <2>4
<1>10. CASE ~(after.seq <= first)
  <2>1. t = With(half, after, first + 1, first, skipped)
    BY <1>7, <1>10 DEF With
  <2>2. first + 1 <= after.seq /\ after.seq = first + 1
    BY <1>1, <1>10
  <2> HIDE DEF first
  <2>3. /\ t \in Seq(Frames) /\ Sorted(t, FrameOrder)
        /\ ToSet(half) \subseteq ToSet(t)
        /\ \A one \in ToSet(t) :
               one \in ToSet(half) \/ (IsEvent(one, first + 1) /\ FrameFits(one, after))
        /\ first + 1 \notin skipped => \E one \in ToSet(t) : IsEvent(one, first + 1)
    BY <1>1, <1>6, <1>8, <2>1, <2>2, PushedBehind
  <2>4. \A one \in ToSet(t) :
            \/ one \in ToSet(frames)
            \/ one.kind # "answer" /\ one.cursor > pty.seq /\ FrameFits(one, after)
    <3>1. ASSUME NEW one \in ToSet(t), IsEvent(one, first + 1), FrameFits(one, after)
          PROVE  one.kind # "answer" /\ one.cursor > pty.seq
      BY <1>1, <3>1 DEF IsEvent
    <3>2. ASSUME NEW one \in ToSet(t), IsEvent(one, first), FrameFits(one, after)
          PROVE  one.kind # "answer" /\ one.cursor > pty.seq
      BY <1>1, <3>2 DEF IsEvent
    <3>3. QED BY <1>6, <2>3, <3>1, <3>2
  <2>5. ASSUME skipped = {}, NEW n \in (pty.seq + 1) .. after.seq
        PROVE  \E one \in ToSet(t) : IsEvent(one, n)
    <3>1. n = first \/ n = first + 1
      BY <1>1, <2>2, <2>5
    <3>2. first <= after.seq
      BY <1>1, <2>2
    <3>3. QED BY <1>6, <2>3, <2>5, <3>1, <3>2
  <2>6. ToSet(frames) \subseteq ToSet(t)
    BY <1>6, <2>3
  <2>7. QED BY <2>3, <2>4, <2>5, <2>6
<1>11. QED BY <1>9, <1>10

\* The ring buffer holds the last batches, in a row.
LEMMA AnswerIsSnapshot ==
    ASSUME NEW session \in Ptys, ExitIsLast(session), NEW id \in Nat, NEW ok \in BOOLEAN
    PROVE  LET answer == Answer(id, ok, session)
           IN  /\ answer \in Answers /\ answer.kind = "answer" /\ answer.id = id
               /\ answer.ok = ok /\ answer.seq = session.seq
               /\ IsSnapshot(answer, session)
<1> DEFINE answer == Answer(id, ok, session)
           n == Batches(session)
           first == IF n > Keep THEN n - Keep + 1 ELSE 1
           data == Buffer(session)
<1>1. /\ session.seq \in Nat /\ session.exitAt \in Nat
      /\ n \in Nat /\ Keep \in Nat \ {0} /\ data \in Seq(Nat)
  BY SessionsAreTyped, TerminalStreamAssumption DEF Ptys
<1>2. n = IF Alive(session) THEN session.seq ELSE session.exitAt - 1
  BY DEF Batches
<1>3. data = [i \in 1 .. (n + 1 - first) |-> first + i - 1]
  BY DEF Buffer, Run
<1>4. /\ answer.kind = "answer" /\ answer.id = id /\ answer.ok = ok
      /\ answer.seq = session.seq /\ answer.alive = Alive(session)
      /\ answer.data = data /\ answer \in Answers
  <2>1. Alive(session) \in BOOLEAN
    BY DEF Alive
  <2>2. QED BY <1>1, <2>1 DEF Answer, Answers
<1> HIDE DEF answer, n, data
<1>5. first \in Nat \ {0} /\ first <= n + 1 /\ (n # 0 => first <= n)
  BY <1>1
<1> HIDE DEF first
<1>6. n + 1 - first \in Nat
  BY <1>1, <1>5
<1>7. Len(data) = n + 1 - first /\ DOMAIN data = 1 .. (n + 1 - first)
  BY <1>3, <1>6
<1>8. InARow(data)
  <2>1. ASSUME NEW i \in 1 .. (n + 1 - first) PROVE data[i] + 1 = data[1] + i
    <3>1. 1 \in 1 .. (n + 1 - first)
      BY <1>6, <2>1
    <3>2. data[i] = first + i - 1 /\ data[1] = first + 1 - 1
      BY <1>3, <2>1, <3>1
    <3>3. QED BY <1>5, <2>1, <3>2
  <2>2. QED BY <1>7, <2>1 DEF InARow
<1>9. data # <<>> => data[Len(data)] = n
  <2>1. ASSUME data # <<>> PROVE data[Len(data)] = n
    <3>1. Len(data) \in Nat \ {0}
      BY <1>1, <2>1, EmptySeq
    <3>2. Len(data) \in 1 .. (n + 1 - first)
      BY <1>6, <1>7, <3>1
    <3>3. data[Len(data)] = first + (n + 1 - first) - 1
      BY <1>3, <1>7, <3>2
    <3>4. QED BY <1>1, <1>5, <3>3
  <2>2. QED BY <2>1
<1>10. data = <<>> => n = 0
  <2>1. data = <<>> => Len(data) = 0
    BY EmptySeq
  <2>2. QED BY <1>1, <1>5, <1>7, <2>1
<1>11. ~Alive(session) => session.exitAt = session.seq /\ session.exitAt # 0
  BY DEF ExitIsLast, Alive
<1>12. IsSnapshot(answer, session)
  <2>1. answer.data # <<>> =>
            answer.data[Len(answer.data)] = IF answer.alive THEN answer.seq ELSE answer.seq - 1
    BY <1>2, <1>4, <1>9, <1>11
  <2>2. answer.data = <<>> => answer.seq = 0 \/ (~answer.alive /\ answer.seq = 1)
    BY <1>1, <1>2, <1>4, <1>10, <1>11
  <2>3. IF answer.alive THEN answer.seq <= Batches(session)
        ELSE ~Alive(session) /\ answer.seq = session.seq
    BY <1>1, <1>2, <1>4 DEF n
  <2>4. QED BY <1>4, <1>8, <2>1, <2>2, <2>3 DEF IsSnapshot
<1>13. QED BY <1>4, <1>12 DEF answer

LEMMA EmitMoves ==
    ASSUME Types, Device, Sorted(frames, FrameOrder),
           \A one \in ToSet(frames) : FrameFits(one, pty),
           NEW after \in Ptys, pty.seq <= after.seq, after.seq <= pty.seq + 2,
           NEW subscription \in Subs, NEW answer \in Seq(Answers),
           Emit(pty, after, subscription, answer),
           \/ answer = <<>>
           \/ \E one \in Answers :
                  /\ answer = <<one>> /\ one.seq = after.seq
                  /\ \A frame \in ToSet(frames) : frame.kind = "answer" => frame.id < one.id
    PROVE  /\ pty' = after /\ sub' = subscription
           /\ Sorted(frames', FrameOrder)
           /\ ToSet(frames) \subseteq ToSet(frames')
           /\ \A one \in ToSet(frames') :
                  \/ one \in ToSet(frames) \/ one \in ToSet(answer)
                  \/ one.kind # "answer" /\ one.cursor > pty.seq /\ FrameFits(one, after)
           /\ clean' => clean /\ \A one \in ToSet(answer) : one.ok
           /\ clean' /\ sub.on => \A n \in (pty.seq + 1) .. after.seq :
                                      \E one \in ToSet(frames') : IsEvent(one, n)
<1>1. PICK skipped : /\ pty' = after
                     /\ sub' = subscription
                     /\ clean' = (clean /\ skipped = {} /\ \A i \in DOMAIN answer : answer[i].ok)
                     /\ frames' = frames \o (IF sub.on
                                             THEN Published(pty, after, skipped)
                                             ELSE <<>>) \o answer
  BY DEF Emit
<1> DEFINE news == IF sub.on THEN Published(pty, after, skipped) ELSE <<>>
           t == frames \o news
<1>2. pty \in Ptys /\ sub \in Subs /\ frames \in Seq(Frames)
  BY DEF Types
<1>3. /\ t \in Seq(Frames) /\ Sorted(t, FrameOrder)
      /\ ToSet(frames) \subseteq ToSet(t)
      /\ \A one \in ToSet(t) :
             \/ one \in ToSet(frames)
             \/ one.kind # "answer" /\ one.cursor > pty.seq /\ FrameFits(one, after)
      /\ skipped = {} /\ sub.on => \A n \in (pty.seq + 1) .. after.seq :
                                       \E one \in ToSet(t) : IsEvent(one, n)
  <2>1. CASE sub.on
    <3>1. t = frames \o Published(pty, after, skipped)
      BY <2>1
    <3>2. sub.last = pty.seq
      BY <2>1 DEF Device
    <3> HIDE DEF t
    <3>3. QED BY <1>2, <3>1, <3>2, PublishedBehind
  <2>2. CASE ~sub.on
    <3>1. t = frames
      BY <1>2, <2>2, ConcatOne
    <3>2. QED BY <1>2, <2>2, <3>1
  <2>3. QED BY <2>1, <2>2
<1>4. frames' = t \o answer
  BY <1>1
<1> HIDE DEF t, news
<1>5. clean' => clean /\ skipped = {} /\ \A one \in ToSet(answer) : one.ok
  BY <1>1 DEF ToSet
<1>6. CASE answer = <<>>
  <2>1. frames' = t
    BY <1>3, <1>4, <1>6, ConcatOne
  <2>2. QED BY <1>1, <1>3, <1>5, <2>1
<1>7. CASE \E one \in Answers :
                  /\ answer = <<one>> /\ one.seq = after.seq
                  /\ \A frame \in ToSet(frames) : frame.kind = "answer" => frame.id < one.id
  <2>1. PICK last \in Answers :
                  /\ answer = <<last>> /\ last.seq = after.seq
                  /\ \A frame \in ToSet(frames) : frame.kind = "answer" => frame.id < last.id
    BY <1>7
  <2>2. last \in Frames /\ last.kind = "answer"
    BY DEF Frames, Answers
  <2>3. \A one \in ToSet(t) : IF last.kind = "answer"
                              THEN Number(one) <= last.seq /\ (one.kind = "answer" => one.id < last.id)
                              ELSE Number(one) < last.cursor
    <3>1. ASSUME NEW one \in ToSet(t)
          PROVE  Number(one) <= last.seq /\ (one.kind = "answer" => one.id < last.id)
      <4>1. CASE one \in ToSet(frames)
        <5>1. Number(one) <= pty.seq
          BY <4>1 DEF FrameFits
        <5>2. Number(one) \in Nat /\ pty.seq \in Nat /\ after.seq \in Nat
          BY <1>2, <4>1, EmptyHasNone, NumberIsTyped DEF Ptys
        <5>3. QED BY <2>1, <4>1, <5>1, <5>2
      <4>2. CASE one.kind # "answer" /\ FrameFits(one, after)
        BY <2>1, <4>2 DEF FrameFits
      <4>3. QED BY <1>3, <4>1, <4>2
    <3>2. QED BY <2>2, <3>1
  <2>4. frames' = t \o <<last>>
    BY <1>4, <2>1
  <2>5. /\ Sorted(frames', FrameOrder)
        /\ ToSet(frames') = ToSet(t) \cup {last}
    BY <1>3, <2>2, <2>3, <2>4, SentBehind
  <2>6. last \in ToSet(answer)
    <3>1. DOMAIN <<last>> = {1} /\ <<last>>[1] = last
      OBVIOUS
    <3>2. QED BY <2>1, <3>1 DEF ToSet
  <2>7. \A one \in ToSet(frames') :
            \/ one \in ToSet(frames) \/ one \in ToSet(answer)
            \/ one.kind # "answer" /\ one.cursor > pty.seq /\ FrameFits(one, after)
    BY <1>3, <2>5, <2>6
  <2>8. skipped = {} /\ sub.on => \A n \in (pty.seq + 1) .. after.seq :
                                      \E one \in ToSet(frames') : IsEvent(one, n)
    BY <1>3, <2>5
  <2>9. QED BY <1>1, <1>3, <1>5, <2>5, <2>7, <2>8
<1>8. QED BY <1>6, <1>7

-----------------------------------------------------------------------------
(* The two kinds of steps, as far as what is under way is concerned          *)

\* A step of the device: what it sends is newer than what it has sent.
DeviceMoves ==
    /\ UNCHANGED <<up, sent, waiting, settled, stream, entry, reply, view, reported>>
    /\ Grows(pty, pty') /\ Device'
    /\ sub.on => sub'.on
    /\ Sorted(frames', FrameOrder)
    /\ ToSet(frames) \subseteq ToSet(frames')
    /\ \A frame \in ToSet(frames') :
           \/ frame \in ToSet(frames)
           \/ frame.kind # "answer" /\ frame.cursor > pty.seq /\ FrameFits(frame, pty')
           \/ /\ frame.kind = "answer" /\ frame.seq = pty'.seq /\ FrameFits(frame, pty')
              /\ frame.id \in ToSet(requests)
              /\ \A id \in ToSet(requests') : frame.id < id
              /\ clean' => frame.ok
    /\ ToSet(requests') \subseteq ToSet(requests)
    /\ Sorted(requests', Ascending)
    /\ clean' => clean
    /\ clean' /\ sub.on => \A n \in (pty.seq + 1) .. pty'.seq :
                               \E frame \in ToSet(frames') : IsEvent(frame, n)

LEMMA DeviceSteps ==
    ASSUME Types, Device, Channel, Output \/ Flush \/ Exit \/ Attach
    PROVE  DeviceMoves
<1>1. UNCHANGED <<up, sent, waiting, settled, stream, entry, reply, view, reported>>
  BY DEF Output, Flush, Exit, Attach, client, history
<1>2. /\ pty \in Ptys /\ sub \in Subs /\ requests \in Seq(Nat) /\ frames \in Seq(Frames)
      /\ pty.seq \in Nat
  BY DEF Types, Ptys
<1>3. ExitIsLast(pty)
  BY DEF Device
<1>4. ASSUME NEW after \in Ptys, Grows(pty, after), ExitIsLast(after),
             after.seq <= pty.seq + 2,
             Emit(pty, after, Moved(after), <<>>), requests' = requests
      PROVE  DeviceMoves
  <2>1. /\ Moved(after) \in Subs
        /\ sub.on => Moved(after).on
        /\ Moved(after).on => Moved(after).last = after.seq
    BY <1>2 DEF Moved, Subs, Ptys
  <2>2. <<>> \in Seq(Answers) /\ ToSet(<<>>) = {}
    BY EmptySeq, EmptyHasNone
  <2>3. pty.seq <= after.seq
    BY <1>4 DEF Grows
  <2>4. /\ pty' = after /\ sub' = Moved(after)
        /\ Sorted(frames', FrameOrder)
        /\ ToSet(frames) \subseteq ToSet(frames')
        /\ \A one \in ToSet(frames') :
               \/ one \in ToSet(frames) \/ one \in ToSet(<<>>)
               \/ one.kind # "answer" /\ one.cursor > pty.seq /\ FrameFits(one, after)
        /\ clean' => clean
        /\ clean' /\ sub.on => \A n \in (pty.seq + 1) .. after.seq :
                                   \E one \in ToSet(frames') : IsEvent(one, n)
    BY <1>4, <2>1, <2>2, <2>3, EmitMoves DEF Channel
  <2>5. Device'
    BY <1>4, <2>1, <2>4 DEF Device
  <2>6. Sorted(requests', Ascending)
    BY <1>4 DEF Channel
  <2>7. QED BY <1>1, <1>4, <2>1, <2>2, <2>4, <2>5, <2>6 DEF DeviceMoves
<1>5. CASE Output
  <2>1. /\ pty' = [pty EXCEPT !.pending = TRUE] /\ Alive(pty)
        /\ UNCHANGED <<sub, requests, frames, clean>>
    BY <1>5 DEF Output, history
  <2>2. /\ pty'.seq = pty.seq /\ pty'.exitAt = pty.exitAt
    BY <1>2, <2>1 DEF Ptys
  <2>3. Grows(pty, pty') /\ Device'
    BY <1>2, <2>1, <2>2 DEF Grows, Device, ExitIsLast, Alive
  <2>4. \A n \in (pty.seq + 1) .. pty'.seq : FALSE
    BY <1>2, <2>2
  <2>5. QED BY <1>1, <2>1, <2>3, <2>4 DEF DeviceMoves, Channel
<1>6. CASE Flush
  <2>1. Emit(pty, Flushed(pty), Moved(Flushed(pty)), <<>>) /\ requests' = requests
    BY <1>6 DEF Flush
  <2>2. /\ Flushed(pty) \in Ptys /\ Grows(pty, Flushed(pty)) /\ ExitIsLast(Flushed(pty))
        /\ Flushed(pty).seq <= pty.seq + 1
    BY <1>2, <1>3, SessionsGrow
  <2>3. Flushed(pty).seq <= pty.seq + 2
    BY <1>2, <2>2 DEF Ptys
  <2>4. QED BY <1>4, <2>1, <2>2, <2>3
<1>7. CASE Exit
  <2> DEFINE after == Exited(Flushed(pty))
  <2>1. Emit(pty, after, Moved(after), <<>>) /\ requests' = requests /\ Alive(pty)
    BY <1>7 DEF Exit
  <2>2. /\ after \in Ptys /\ Grows(pty, after) /\ ExitIsLast(after)
        /\ Flushed(pty) \in Ptys
        /\ Flushed(pty).seq <= pty.seq + 1 /\ after.seq = Flushed(pty).seq + 1
    BY <1>2, <1>3, <2>1, SessionsGrow
  <2> HIDE DEF after
  <2>3. after.seq <= pty.seq + 2
    BY <1>2, <2>2 DEF Ptys
  <2>4. QED BY <1>4, <2>1, <2>2, <2>3
<1>8. CASE Attach
  <2> DEFINE after == Flushed(pty)
             id == Head(requests)
  <2>1. PICK ok \in BOOLEAN : Emit(pty, after, Attached(after), <<Answer(id, ok, after)>>)
    BY <1>8 DEF Attach
  <2>2. requests # <<>> /\ requests' = Tail(requests)
    BY <1>8 DEF Attach
  <2>3. /\ id \in Nat /\ requests' \in Seq(Nat)
        /\ ToSet(requests) = {id} \cup ToSet(requests')
    BY <1>2, <2>2, TailFacts
  <2>4. Sorted(requests', Ascending) /\ \A x \in ToSet(requests') : id < x
    <3>1. Sorted(requests, Ascending)
      BY DEF Channel
    <3>2. Sorted(requests', Ascending) /\ \A x \in ToSet(requests') : <<id, x>> \in Ascending
      BY <1>2, <2>2, <3>1, SortedTail
    <3>3. QED BY <3>2 DEF Ascending
  <2>5. /\ after \in Ptys /\ Grows(pty, after) /\ ExitIsLast(after)
        /\ after.seq <= pty.seq + 1
    BY <1>2, <1>3, SessionsGrow
  <2> HIDE DEF after, id
  <2>6. pty.seq <= after.seq /\ after.seq <= pty.seq + 2
    BY <1>2, <2>5 DEF Grows, Ptys
  <2>7. Attached(after) \in Subs /\ Attached(after).on /\ Attached(after).last = after.seq
    BY <2>5 DEF Attached, Subs, Ptys
  <2> DEFINE answer == Answer(id, ok, after)
  <2>8. /\ answer \in Answers /\ answer.kind = "answer" /\ answer.id = id
        /\ answer.ok = ok /\ answer.seq = after.seq
        /\ IsSnapshot(answer, after)
    BY <2>3, <2>5, AnswerIsSnapshot
  <2>9. Emit(pty, after, Attached(after), <<answer>>)
    BY <2>1
  <2> HIDE DEF answer
  <2>10. <<answer>> \in Seq(Answers) /\ ToSet(<<answer>>) = {answer}
    <3>1. <<answer>> \in Seq(Answers)
      BY <2>8
    <3>2. DOMAIN <<answer>> = {1} /\ <<answer>>[1] = answer
      OBVIOUS
    <3>3. QED BY <3>1, <3>2 DEF ToSet
  <2>11. \A frame \in ToSet(frames) : frame.kind = "answer" => frame.id < answer.id
    BY <2>3, <2>8 DEF Channel
  <2>12. \E one \in Answers :
             /\ <<answer>> = <<one>> /\ one.seq = after.seq
             /\ \A frame \in ToSet(frames) : frame.kind = "answer" => frame.id < one.id
    BY <2>8, <2>11
  <2>13. Sorted(frames, FrameOrder) /\ \A one \in ToSet(frames) : FrameFits(one, pty)
    BY DEF Channel
  <2> DEFINE answers == <<answer>>
  <2>14. /\ answers \in Seq(Answers)
         /\ Emit(pty, after, Attached(after), answers)
         /\ \E one \in Answers :
               /\ answers = <<one>> /\ one.seq = after.seq
               /\ \A frame \in ToSet(frames) : frame.kind = "answer" => frame.id < one.id
         /\ ToSet(answers) = {answer}
    BY <2>9, <2>10, <2>12
  <2> HIDE DEF answers
  <2>15. /\ pty' = after /\ sub' = Attached(after)
         /\ Sorted(frames', FrameOrder)
         /\ ToSet(frames) \subseteq ToSet(frames')
         /\ \A one \in ToSet(frames') :
                \/ one \in ToSet(frames) \/ one \in ToSet(answers)
                \/ one.kind # "answer" /\ one.cursor > pty.seq /\ FrameFits(one, after)
         /\ clean' => clean /\ \A one \in ToSet(answers) : one.ok
         /\ clean' /\ sub.on => \A n \in (pty.seq + 1) .. after.seq :
                                    \E one \in ToSet(frames') : IsEvent(one, n)
    BY <2>5, <2>6, <2>7, <2>13, <2>14, EmitMoves
  <2>16. Device'
    BY <2>5, <2>7, <2>15 DEF Device
  <2>17. FrameFits(answer, after)
    <3>1. Number(answer) = after.seq /\ after.seq \in Nat
      BY <2>5, <2>8 DEF Number, Ptys
    <3>2. QED BY <2>8, <3>1 DEF FrameFits
  <2>18. clean' => answer.ok
    BY <2>14, <2>15
  <2>19. \A frame \in ToSet(frames') :
           \/ frame \in ToSet(frames)
           \/ frame.kind # "answer" /\ frame.cursor > pty.seq /\ FrameFits(frame, pty')
           \/ /\ frame.kind = "answer" /\ frame.seq = pty'.seq /\ FrameFits(frame, pty')
              /\ frame.id \in ToSet(requests)
              /\ \A x \in ToSet(requests') : frame.id < x
              /\ clean' => frame.ok
    BY <2>3, <2>4, <2>8, <2>14, <2>15, <2>17, <2>18
  <2>20. sub'.on /\ Grows(pty, pty') /\ (clean' => clean)
         /\ ToSet(requests') \subseteq ToSet(requests)
         /\ (clean' /\ sub.on => \A n \in (pty.seq + 1) .. pty'.seq :
                                    \E one \in ToSet(frames') : IsEvent(one, n))
    BY <2>3, <2>5, <2>7, <2>15
  <2>21. QED BY <1>1, <2>4, <2>15, <2>16, <2>19, <2>20 DEF DeviceMoves
<1>9. QED BY <1>5, <1>6, <1>7, <1>8

\* A step of the desktop: it takes the first frame, and it may ask.
DesktopMoves ==
    /\ UNCHANGED <<pty, sub>>
    /\ frames' = frames \/ (frames # <<>> /\ frames' = Tail(frames))
    /\ \/ requests' = requests /\ sent' = sent
       \/ requests' = Append(requests, sent + 1) /\ sent' = sent + 1

LEMMA AskingMoves ==
    /\ \A purpose : Ask(Call(purpose)) =>
           requests' = Append(requests, sent + 1) /\ sent' = sent + 1
    /\ \A purpose, possible : Invoke(purpose, possible) =>
           \/ requests' = requests /\ sent' = sent
           \/ possible /\ requests' = Append(requests, sent + 1) /\ sent' = sent + 1
<1>1. ASSUME NEW purpose, Ask(Call(purpose))
      PROVE  requests' = Append(requests, sent + 1) /\ sent' = sent + 1
  <2>1. Call(purpose).id = sent + 1
    BY DEF Call
  <2>2. QED BY <1>1, <2>1 DEF Ask
<1>2. ASSUME NEW purpose, NEW possible, Invoke(purpose, possible)
      PROVE  \/ requests' = requests /\ sent' = sent
             \/ possible /\ requests' = Append(requests, sent + 1) /\ sent' = sent + 1
  <2> DEFINE call == [Call(purpose) EXCEPT !.mount = view'.mount]
  <2>1. call.id = sent + 1
    BY DEF Call
  <2>2. possible => Ask(call)
    BY <1>2 DEF Invoke
  <2> HIDE DEF call
  <2>3. QED BY <1>2, <2>1, <2>2 DEF Invoke, Ask
<1>3. QED BY <1>1, <1>2

LEMMA DesktopSteps ==
    ASSUME \/ Receive \/ RunOn \/ Timeout \/ Created \/ Filled
           \/ Remount \/ Restart \/ Restarted
    PROVE  DesktopMoves
<1>1. CASE Receive
  <2>1. UNCHANGED <<pty, sub>> /\ frames # <<>> /\ frames' = Tail(frames)
    BY <1>1 DEF Receive, device
  <2>2. ReceiveAnswer(Head(frames)) \/ ReceiveEvent(Head(frames))
    BY <1>1 DEF Receive
  <2>3. CASE ReceiveAnswer(Head(frames))
    BY <2>1, <2>3 DEF ReceiveAnswer, DesktopMoves
  <2>4. CASE ReceiveEvent(Head(frames))
    <3>1. Ignored \/ Resync \/ Deliver(Head(frames))
      BY <2>4, Zenon DEF ReceiveEvent
    <3>2. CASE Ignored
      BY <2>1, <3>2 DEF Ignored, DesktopMoves
    <3>3. CASE Deliver(Head(frames))
      BY <2>1, <3>3 DEF Deliver, DesktopMoves
    <3>4. CASE Resync
      <4>1. (requests' = requests /\ sent' = sent) \/ Ask(Call("resync"))
        BY <3>4 DEF Resync
      <4>2. QED BY <2>1, <4>1, AskingMoves DEF DesktopMoves
    <3>5. QED BY <3>1, <3>2, <3>3, <3>4
  <2>5. QED BY <2>2, <2>3, <2>4
<1>2. CASE RunOn
  BY <1>2 DEF RunOn, DesktopMoves, device
<1>3. CASE Timeout
  BY <1>3 DEF Timeout, DesktopMoves, device
<1>4. CASE Created
  BY <1>4, AskingMoves DEF Created, DesktopMoves, device
<1>5. CASE Filled
  BY <1>5 DEF Filled, DesktopMoves, device, client
<1>6. CASE Remount
  BY <1>6, AskingMoves DEF Remount, DesktopMoves, device
<1>7. CASE Restart
  BY <1>7, AskingMoves DEF Restart, DesktopMoves, device
<1>8. CASE Restarted
  BY <1>8 DEF Restarted, DesktopMoves, device, client
<1>9. QED BY <1>1, <1>2, <1>3, <1>4, <1>5, <1>6, <1>7, <1>8

LEMMA DeviceKeepsChannel ==
    ASSUME Types, pty' \in Ptys, Device, Channel, DeviceMoves
    PROVE  Device' /\ Channel'
<1>1. /\ pty \in Ptys /\ frames \in Seq(Frames) /\ sent \in Nat
      /\ requests \in Seq(Nat)
  BY DEF Types
<1>2. Device' /\ Sorted(frames', FrameOrder) /\ Sorted(requests', Ascending)
  BY DEF DeviceMoves
<1>3. pty' \in Ptys => \A frame \in ToSet(frames') : FrameFits(frame, pty')
  <2>1. ASSUME pty' \in Ptys, NEW frame \in ToSet(frames) PROVE FrameFits(frame, pty')
    <3>1. FrameFits(frame, pty) /\ frame \in Frames
      BY <1>1, EmptyHasNone DEF Channel
    <3>2. Grows(pty, pty') /\ ExitIsLast(pty) /\ ExitIsLast(pty')
      BY DEF DeviceMoves, Device
    <3>3. QED BY <1>1, <2>1, <3>1, <3>2, GrowingKeeps
  <2>2. QED BY <2>1 DEF DeviceMoves
<1>4. \A id \in ToSet(requests') : id <= sent'
  BY DEF DeviceMoves, Channel
<1>5. \A frame \in ToSet(frames') :
           frame.kind = "answer" =>
               frame.id <= sent' /\ \A id \in ToSet(requests') : frame.id < id
  BY DEF DeviceMoves, Channel
<1>6. ASSUME pty' \in Ptys PROVE Channel'
  BY <1>2, <1>3, <1>4, <1>5, <1>6 DEF Channel
<1>7. QED BY <1>2, <1>6

LEMMA DesktopKeepsChannel ==
    ASSUME Types, Device, Channel, DesktopMoves
    PROVE  Device' /\ Channel'
<1>1. /\ frames \in Seq(Frames) /\ sent \in Nat /\ requests \in Seq(Nat)
      /\ pty' = pty /\ sub' = sub
  BY DEF Types, DesktopMoves
<1>2. Device'
  BY <1>1 DEF Device
<1>3. Sorted(frames', FrameOrder) /\ ToSet(frames') \subseteq ToSet(frames)
  <2>1. CASE frames' = frames
    BY <2>1 DEF Channel
  <2>2. CASE frames # <<>> /\ frames' = Tail(frames)
    BY <1>1, <2>2, TailFacts, SortedTail DEF Channel
  <2>3. QED BY <2>1, <2>2 DEF DesktopMoves
<1>4. ASSUME NEW frame \in ToSet(frames), frame.kind = "answer"
      PROVE  frame.id \in Nat /\ frame.id <= sent /\ \A id \in ToSet(requests) : frame.id < id
  <2>1. frame \in Answers
    BY <1>1, <1>4, EmptyHasNone, NumberIsTyped
  <2>2. QED BY <1>4, <2>1 DEF Channel, Answers
<1>5. /\ Sorted(requests', Ascending)
      /\ \A id \in ToSet(requests') : id <= sent'
      /\ \A frame \in ToSet(frames) :
             frame.kind = "answer" =>
                 frame.id <= sent' /\ \A id \in ToSet(requests') : frame.id < id
  <2>1. CASE requests' = requests /\ sent' = sent
    BY <2>1 DEF Channel
  <2>2. CASE requests' = Append(requests, sent + 1) /\ sent' = sent + 1
    <3>1. sent + 1 \in Nat
      BY <1>1
    <3>2. \A id \in ToSet(requests) : id \in Nat /\ id <= sent
      BY <1>1, EmptyHasNone DEF Channel
    <3>3. \A id \in ToSet(requests) : <<id, sent + 1>> \in Ascending
      BY <1>1, <3>1, <3>2 DEF Ascending
    <3>4. Sorted(requests, Ascending)
      BY DEF Channel
    <3>5. /\ Sorted(requests', Ascending)
          /\ ToSet(requests') = ToSet(requests) \cup {sent + 1}
      BY <1>1, <2>2, <3>1, <3>3, <3>4, SortedAppend, AppendFacts
    <3>6. \A id \in ToSet(requests') : id <= sent'
      BY <1>1, <2>2, <3>2, <3>5
    <3>7. \A frame \in ToSet(frames) :
             frame.kind = "answer" =>
                 frame.id <= sent' /\ \A id \in ToSet(requests') : frame.id < id
      BY <1>1, <1>4, <2>2, <3>5
    <3>8. QED BY <3>5, <3>6, <3>7
  <2>3. QED BY <2>1, <2>2 DEF DesktopMoves
<1>6. \A frame \in ToSet(frames') : FrameFits(frame, pty')
  BY <1>1, <1>3 DEF Channel
<1>7. Channel'
  BY <1>3, <1>5, <1>6 DEF Channel
<1>8. QED BY <1>2, <1>7

\* Nothing is sent, and nothing arrives, once the connection has ended.
LEMMA CutStays ==
    ASSUME ~up, Cut, Next
    PROVE  Cut'
<1>1. frames = <<>> /\ requests = <<>> /\ ~sub.on
  BY DEF Cut
<1>2. ASSUME NEW after, Emit(pty, after, Moved(after), <<>>), requests' = requests
      PROVE  Cut'
  <2>1. sub' = sub
    BY <1>1, <1>2 DEF Emit, Moved
  <2>2. frames' = (frames \o <<>>) \o <<>>
    BY <1>1, <1>2 DEF Emit
  <2>3. frames' = <<>>
    BY <1>1, <2>2, EmptySeq, ConcatOne
  <2>4. QED BY <1>1, <1>2, <2>1, <2>3 DEF Cut
<1>3. CASE Output
  BY <1>1, <1>3 DEF Output, Cut
<1>4. CASE Flush
  BY <1>2, <1>4 DEF Flush
<1>5. CASE Exit
  BY <1>2, <1>5 DEF Exit
<1>6. CASE Attach \/ Receive \/ Lose
  BY <1>1, <1>6 DEF Attach, Receive, Lose
<1>7. CASE RunOn \/ Timeout \/ Filled \/ Restarted
  BY <1>1, <1>7 DEF RunOn, Timeout, Filled, Restarted, device, Cut
<1>8. CASE Created
  <2>1. Invoke("buffer", up /\ entry # "dropped") /\ UNCHANGED <<sub, frames>>
    BY <1>8 DEF Created, device
  <2>2. requests' = requests
    BY <2>1 DEF Invoke
  <2>3. QED BY <1>1, <2>1, <2>2 DEF Cut
<1>9. CASE Remount
  <2>1. Invoke("refresh", up) /\ UNCHANGED <<sub, frames>>
    BY <1>9 DEF Remount, device
  <2>2. requests' = requests
    BY <2>1 DEF Invoke
  <2>3. QED BY <1>1, <2>1, <2>2 DEF Cut
<1>10. CASE Restart
  <2>1. Invoke("restart", up) /\ UNCHANGED <<sub, frames>>
    BY <1>10 DEF Restart, device
  <2>2. requests' = requests
    BY <2>1 DEF Invoke
  <2>3. QED BY <1>1, <2>1, <2>2 DEF Cut
<1>11. QED BY <1>3, <1>4, <1>5, <1>6, <1>7, <1>8, <1>9, <1>10 DEF Next

LEMMA ChannelInit == Init => ChannelInv
<1> SUFFICES ASSUME Init PROVE Device /\ Channel
  BY DEF ChannelInv, Init
<1>1. /\ pty = [pending |-> FALSE, seq |-> 0, exitAt |-> 0]
      /\ sub = NoSub /\ requests = <<1>> /\ frames = <<>> /\ sent = 1
  BY DEF Init
<1>2. Device
  BY <1>1 DEF Device, ExitIsLast, Alive, NoSub
<1>3. Sorted(frames, FrameOrder) /\ ToSet(frames) = {}
  BY <1>1, SortedEmpty, EmptySeq, EmptyHasNone
<1>4. Sorted(requests, Ascending) /\ \A id \in ToSet(requests) : id <= sent
  <2>1. DOMAIN <<1>> = {1} /\ <<1>>[1] = 1
    OBVIOUS
  <2>2. Sorted(requests, Ascending)
    BY <1>1, <2>1 DEF Sorted
  <2>3. \A id \in ToSet(requests) : id <= sent
    BY <1>1, <2>1 DEF ToSet
  <2>4. QED BY <2>2, <2>3
<1>5. QED BY <1>2, <1>3, <1>4 DEF Channel

LEMMA LosingCuts == Lose => ~up' /\ Cut'
BY DEF Lose, Cut, NoSub

\* A step while the connection is up is one of the device, one of the desktop, or
\* the end of the connection.
LEMMA StepsWhileUp ==
    ASSUME FollowInv, FollowInv', up, Device, Channel, Next
    PROVE  \/ up' /\ InHand /\ InHand' /\ DeviceMoves
           \/ up' /\ InHand /\ InHand' /\ DesktopMoves
              /\ \/ Receive \/ RunOn \/ Timeout \/ Created \/ Filled
                 \/ Remount \/ Restart \/ Restarted
           \/ Lose /\ ~up' /\ Cut'
<1>1. InHand /\ Types
  BY DEF FollowInv, InHand
<1>2. CASE Output \/ Flush \/ Exit \/ Attach
  <2>1. DeviceMoves
    BY <1>1, <1>2, DeviceSteps
  <2>2. up'
    BY <2>1 DEF DeviceMoves
  <2>3. QED BY <1>1, <2>1, <2>2 DEF FollowInv
<1>3. CASE \/ Receive \/ RunOn \/ Timeout \/ Created \/ Filled
           \/ Remount \/ Restart \/ Restarted
  <2>1. up'
    BY <1>3 DEF Receive, RunOn, Timeout, Created, Filled, Remount, Restart, Restarted
  <2>2. QED BY <1>1, <1>3, <2>1, DesktopSteps DEF FollowInv
<1>4. CASE Lose
  BY <1>4, LosingCuts
<1>5. QED BY <1>2, <1>3, <1>4 DEF Next

LEMMA ChannelStep ==
    FollowInv /\ FollowInv' /\ ChannelInv /\ [Next]_vars => ChannelInv'
<1> SUFFICES ASSUME FollowInv, FollowInv', ChannelInv, [Next]_vars PROVE ChannelInv'
  OBVIOUS
<1>1. CASE up /\ Next
  <2>1. Device /\ Channel
    BY <1>1 DEF ChannelInv
  <2>2. CASE up' /\ InHand /\ InHand' /\ DeviceMoves
    BY <2>1, <2>2, DeviceKeepsChannel DEF ChannelInv, InHand, Types
  <2>3. CASE up' /\ InHand /\ InHand' /\ DesktopMoves
    BY <2>1, <2>3, DesktopKeepsChannel DEF ChannelInv, InHand
  <2>4. CASE ~up' /\ Cut'
    BY <2>4 DEF ChannelInv
  <2>5. QED BY <1>1, <2>1, <2>2, <2>3, <2>4, StepsWhileUp
<1>2. CASE ~up /\ Next
  <2>1. ~up'
    BY <1>2, EndedStaysEnded
  <2>2. QED BY <1>2, <2>1, CutStays DEF ChannelInv
<1>3. CASE UNCHANGED vars
  BY <1>3 DEF vars, device, client, ChannelInv, Device, Channel, Cut
<1>4. QED BY <1>1, <1>2, <1>3

\* What is under way is in the order of its numbers, events and answers alike; an
\* answer holds a row of output up to its number, and nothing comes after the exit.
THEOREM ChannelInvariant == Spec => []ChannelInv
BY ChannelInit, ChannelStep, StreamInvariant, PTL DEF Spec

-----------------------------------------------------------------------------
(* What the desktop has seen                                                *)

\* What is still under way is newer than n.
Passed(n, session, way) ==
    /\ n <= session.seq
    /\ \A frame \in ToSet(way) :
           IF frame.kind = "answer" THEN n <= frame.seq ELSE n < frame.cursor

SeenStream == stream.on => Passed(stream.cursor, pty, frames)

SeenOutcomes ==
    \A outcome \in ToSet(settled) :
        /\ Passed(outcome.seq, pty, frames)
        /\ outcome.ok => IsSnapshot(outcome, pty)

SeenReply ==
    /\ Passed(reply.seq, pty, frames)
    /\ reply.for = "buffer" /\ reply.ok => IsSnapshot(reply, pty)

\* An item of the queue, or of an event, that holds the output of one event.
IsOutput(item) == item.data = <<item.seq>>

SeenView ==
    /\ Passed(view.lastSeq, pty, frames)
    /\ \A item \in ToSet(view.queued) :
           /\ Passed(item.seq, pty, frames)
           /\ IsOutput(item) => item.seq <= Batches(pty)

Seen == SeenStream /\ SeenOutcomes /\ SeenReply /\ SeenView

\* Snapshots are answered in the order of the calls, and the first of create's.
OutcomeOrder ==
    {p \in Outcomes \X Outcomes :
        p[1].ok /\ p[2].ok => p[1].seq <= p[2].seq /\ p[2].call.for # "create"}

Blank ==
    ~stream.on /\ view.queued = <<>> /\ view.shown = <<>> /\ view.lastSeq = 0 /\ ~reply.ok

CreateFirst ==
    /\ \A call \in waiting : call.id >= 1 /\ (call.for = "create" => call.id = 1)
    /\ Sorted(settled, OutcomeOrder)
    /\ (\E call \in waiting : call.for = "create") =>
           Blank /\ \A outcome \in ToSet(settled) : ~outcome.ok
    /\ (\E outcome \in ToSet(settled) : outcome.ok /\ outcome.call.for = "create") => Blank

\* What waits in the view is older than a snapshot that is coming, or an event's.
OlderWaits ==
    \A item \in ToSet(view.queued) : \A outcome \in ToSet(settled) :
        outcome.ok => IsOutput(item) \/ item.seq <= outcome.seq

\* Before it is filled a view shows nothing.
EmptyUntilReady ==
    view.phase # "ready" => view.shown = <<>> /\ view.lastSeq = 0 /\ ~view.read

-----------------------------------------------------------------------------
(* What the view holds, whether the connection is up or not                 *)

HasShape(v) ==
    v \in [mount : {v.mount}, phase : {v.phase}, alive : {v.alive}, failed : {v.failed},
           status : {v.status}, lastSeq : Nat, queued : Seq(Items), shown : Seq(Nat),
           read : {v.read}, metExit : {v.metExit}]

IsAscending(s, last) == Sorted(s, Ascending) /\ \A n \in ToSet(s) : n <= last

ViewOrder ==
    /\ HasShape(view)
    /\ Sorted(view.queued, ItemOrder)
    /\ \A i \in DOMAIN view.queued :
           \/ IsOutput(view.queued[i])
           \/ i = 1 /\ IsAscending(view.queued[i].data, view.queued[i].seq)
    /\ IsAscending(view.shown, view.lastSeq)

ReplyFits ==
    reply.for = "buffer" /\ reply.ok =>
        /\ reply.seq \in Nat /\ reply.data \in Seq(Nat)
        /\ InARow(reply.data) /\ IsAscending(reply.data, reply.seq)
        /\ \A item \in ToSet(view.queued) : IsOutput(item) \/ item.seq <= reply.seq

ViewFits == Seen /\ CreateFirst /\ OlderWaits /\ EmptyUntilReady

ViewInv ==
    /\ ViewOrder /\ ReplyFits
    /\ up => ViewFits

-----------------------------------------------------------------------------
(* Output that joins                                                        *)

\* The number that is shown last when s and then the queue is shown.
Top(q, s) == IF q # <<>> /\ q[Len(q)].seq > s THEN q[Len(q)].seq ELSE s

\* What the queue holds above s follows s without a hole.
Joined(q, s) ==
    \A i \in DOMAIN q :
        q[i].seq > s =>
            /\ IsOutput(q[i])
            /\ q[i].seq = s + 1 \/ (i > 1 /\ q[i].seq = q[i - 1].seq + 1)

\* The stream goes on where the snapshot and the queue end.
Joins(s) == Joined(view.queued, s) /\ (stream.on => stream.cursor <= Top(view.queued, s))

Newest == ~reported => \A call \in waiting \cap Current : call.id = sent

OutcomeJoins ==
    ~reported => \A outcome \in ToSet(settled) \cap Mine :
        outcome.ok /\ outcome.call.for = "buffer" =>
            waiting = {} /\ settled[Len(settled)] = outcome /\ Joins(outcome.seq)

ReplyJoins ==
    ~reported /\ reply.for = "buffer" /\ reply.ok =>
        waiting = {} /\ settled = <<>> /\ Joins(reply.seq)

\* What is shown ends with the last number, unless that is the number of the exit.
EndsWith(s, last) ==
    \/ /\ s # <<>> /\ s[Len(s)] = last /\ last <= Batches(pty)
    \/ /\ ~Alive(pty) /\ last = pty.seq /\ (s # <<>> => s[Len(s)] + 1 = last)
       /\ s = <<>> => last = 1
    \/ s = <<>> /\ last = 0

ViewJoins ==
    ~reported /\ view.read =>
        /\ waiting = {} /\ settled = <<>>
        /\ stream.on => stream.cursor <= view.lastSeq
        /\ EndsWith(view.shown, view.lastSeq)

ReplyJoined ==
    ~reported /\ reply.for = "buffer" /\ reply.ok =>
        /\ Joined(view.queued, reply.seq)
        /\ \/ reply.data = <<>> \/ reply.data[Len(reply.data)] = reply.seq
           \/ \A item \in ToSet(view.queued) : item.seq <= reply.seq

ReadInOrder == ~reported /\ view.read => InARow(view.shown)

Joining == Newest /\ OutcomeJoins /\ ReplyJoins /\ ViewJoins

JoinInv == ReadInOrder /\ IF up THEN Joining ELSE ReplyJoined

-----------------------------------------------------------------------------
(* What is shown last                                                       *)

LEMMA TopFacts ==
    ASSUME NEW q \in Seq(Items), Sorted(q, ItemOrder), NEW s \in Nat
    PROVE  /\ Top(q, s) \in Nat /\ s <= Top(q, s)
           /\ \A i \in DOMAIN q : q[i] \in Items /\ q[i].seq <= Top(q, s)
           /\ Top(q, s) = s \/ (q # <<>> /\ Len(q) \in DOMAIN q /\ Top(q, s) = q[Len(q)].seq
                                /\ q[Len(q)] \in ToSet(q) /\ s < Top(q, s))
           /\ (\A item \in ToSet(q) : item.seq <= s) => Top(q, s) = s
<1> DEFINE n == Len(q)
<1>1. n \in Nat /\ DOMAIN q = 1 .. n /\ \A i \in 1 .. n : q[i] \in Items
  BY LenProperties, ElementOfSeq
<1>2. \A i \in 1 .. n : q[i].seq \in Nat
  BY <1>1 DEF Items
<1>3. CASE q = <<>>
  <2>1. n = 0
    BY <1>3, EmptySeq
  <2>2. Top(q, s) = s /\ DOMAIN q = {}
    BY <1>1, <1>3, <2>1 DEF Top
  <2>3. QED BY <2>2
<1>4. CASE q # <<>>
  <2>1. n \in 1 .. n /\ n \in DOMAIN q
    BY <1>1, <1>4, EmptySeq
  <2>2. q[n] \in ToSet(q)
    BY <2>1 DEF ToSet
  <2>3. Top(q, s) = IF q[n].seq > s THEN q[n].seq ELSE s
    BY <1>4 DEF Top
  <2> HIDE DEF n
  <2>4. \A i \in 1 .. n : q[i].seq <= q[n].seq
    <3>1. ASSUME NEW i \in 1 .. n PROVE q[i].seq <= q[n].seq
      <4>1. CASE i = n
        BY <1>2, <4>1
      <4>2. CASE i # n
        <5>1. i < n
          BY <1>1, <4>2
        <5>2. <<q[i], q[n]>> \in ItemOrder
          BY <1>1, <2>1, <5>1 DEF Sorted
        <5>3. QED BY <1>2, <2>1, <5>2 DEF ItemOrder
      <4>3. QED BY <4>1, <4>2
    <3>2. QED BY <3>1
  <2>5. Top(q, s) \in Nat /\ s <= Top(q, s) /\ q[n].seq <= Top(q, s)
    BY <1>2, <2>1, <2>3
  <2>6. \A i \in 1 .. n : q[i].seq <= Top(q, s)
    <3>1. ASSUME NEW i \in 1 .. n PROVE q[i].seq <= Top(q, s)
      <4>1. q[i].seq <= q[n].seq /\ q[i].seq \in Nat /\ q[n].seq \in Nat
        BY <1>2, <2>1, <2>4
      <4>2. QED BY <2>5, <4>1
    <3>2. QED BY <3>1
  <2>7. Top(q, s) = s \/ (Top(q, s) = q[n].seq /\ s < Top(q, s))
    BY <1>2, <2>1, <2>3
  <2>8. (\A item \in ToSet(q) : item.seq <= s) => Top(q, s) = s
    <3>1. ASSUME \A item \in ToSet(q) : item.seq <= s PROVE Top(q, s) = s
      <4>1. q[n].seq <= s
        BY <2>2, <3>1
      <4>2. QED BY <1>2, <2>1, <2>3, <4>1
    <3>2. QED BY <3>1
  <2>9. QED BY <1>1, <1>4, <2>1, <2>2, <2>5, <2>6, <2>7, <2>8 DEF n
<1>5. QED BY <1>3, <1>4

\* An item that is newer than the queue waits at its end.
LEMMA QueueGrows ==
    ASSUME NEW q \in Seq(Items), Sorted(q, ItemOrder), NEW item \in Items,
           \A one \in ToSet(q) : one.seq < item.seq
    PROVE  LET longer == Append(q, item)
           IN  /\ longer \in Seq(Items) /\ longer # <<>> /\ Sorted(longer, ItemOrder)
               /\ ToSet(longer) = ToSet(q) \cup {item}
               /\ Len(q) \in Nat /\ Len(longer) = Len(q) + 1
               /\ DOMAIN q = 1 .. Len(q) /\ DOMAIN longer = 1 .. Len(q) + 1
               /\ \A i \in 1 .. Len(q) : longer[i] = q[i]
               /\ longer[Len(q) + 1] = item
               /\ q = <<>> => Len(q) = 0
               /\ \A s \in Nat : Top(longer, s) = IF item.seq > s THEN item.seq ELSE s
<1> DEFINE longer == Append(q, item)
<1>1. /\ longer \in Seq(Items) /\ Len(q) \in Nat /\ Len(longer) = Len(q) + 1
      /\ DOMAIN q = 1 .. Len(q) /\ DOMAIN longer = 1 .. Len(q) + 1
      /\ \A i \in 1 .. Len(q) : longer[i] = q[i]
      /\ longer[Len(q) + 1] = item
  BY AppendProperties, LenProperties
<1>2. ToSet(longer) = ToSet(q) \cup {item} /\ longer # <<>>
  BY AppendFacts
<1>3. \A one \in ToSet(q) : <<one, item>> \in ItemOrder
  BY EmptyHasNone DEF ItemOrder
<1>4. Sorted(longer, ItemOrder)
  BY <1>3, SortedAppend
<1>5. q = <<>> => Len(q) = 0
  BY EmptySeq
<1> HIDE DEF longer
<1>6. \A s \in Nat : Top(longer, s) = IF item.seq > s THEN item.seq ELSE s
  BY <1>1, <1>2 DEF Top
<1>7. QED BY <1>1, <1>2, <1>4, <1>5, <1>6 DEF longer

-----------------------------------------------------------------------------
(* What writing does                                                        *)

\* Nothing but these parts changes.
SameRest(v, w) ==
    /\ w.mount = v.mount /\ w.phase = v.phase /\ w.alive = v.alive /\ w.failed = v.failed
    /\ w.status = v.status /\ w.read = v.read /\ w.metExit = v.metExit

LEMMA WrittenParts ==
    ASSUME NEW v, HasShape(v), NEW item \in Items
    PROVE  LET w == Written(v, item)
           IN  /\ HasShape(w) /\ SameRest(v, w)
               /\ item.seq <= v.lastSeq =>
                      w.lastSeq = v.lastSeq /\ w.queued = v.queued /\ w.shown = v.shown
               /\ item.seq > v.lastSeq /\ v.phase # "ready" =>
                      /\ w.lastSeq = v.lastSeq /\ w.queued = Append(v.queued, item)
                      /\ w.shown = v.shown
               /\ item.seq > v.lastSeq /\ v.phase = "ready" =>
                      /\ w.lastSeq = item.seq /\ w.queued = v.queued
                      /\ w.shown = v.shown \o item.data
<1> DEFINE w == Written(v, item)
<1>1. item.seq \in Nat /\ item.data \in Seq(Nat)
  BY DEF Items
<1>2. v.lastSeq \in Nat /\ v.queued \in Seq(Items) /\ v.shown \in Seq(Nat)
  BY DEF HasShape
<1>3. CASE item.seq <= v.lastSeq
  <2>1. w = v
    BY <1>3 DEF Written
  <2> HIDE DEF w
  <2>2. HasShape(w)
    BY <2>1
  <2>3. ~(item.seq > v.lastSeq)
    BY <1>1, <1>2, <1>3
  <2>4. QED BY <1>3, <2>1, <2>2, <2>3 DEF SameRest, w
<1>4. CASE ~(item.seq <= v.lastSeq) /\ v.phase # "ready"
  <2> DEFINE longer == Append(v.queued, item)
  <2>1. w = [v EXCEPT !.queued = longer]
    BY <1>4 DEF Written
  <2>2. longer \in Seq(Items)
    BY <1>2, AppendProperties
  <2> HIDE DEF longer, w
  <2>3. /\ HasShape(w) /\ SameRest(v, w)
        /\ w.lastSeq = v.lastSeq /\ w.shown = v.shown /\ w.queued = longer
    BY <2>1, <2>2 DEF HasShape, SameRest
  <2>4. QED BY <1>4, <2>3 DEF longer, w
<1>5. CASE ~(item.seq <= v.lastSeq) /\ v.phase = "ready"
  <2> DEFINE longer == v.shown \o item.data
  <2>1. w = [v EXCEPT !.lastSeq = item.seq, !.shown = longer]
    BY <1>5 DEF Written
  <2>2. longer \in Seq(Nat)
    BY <1>1, <1>2, ConcatFacts
  <2> HIDE DEF longer, w
  <2>3. /\ HasShape(w) /\ SameRest(v, w)
        /\ w.lastSeq = item.seq /\ w.shown = longer /\ w.queued = v.queued
    BY <1>1, <2>1, <2>2 DEF HasShape, SameRest
  <2>4. QED BY <1>5, <2>3 DEF longer, w
<1>6. QED BY <1>3, <1>4, <1>5

\* Output that is newer than what is shown.
LEMMA ShownGrows ==
    ASSUME NEW s \in Seq(Nat), NEW last \in Nat, IsAscending(s, last),
           NEW n \in Nat, last < n
    PROVE  /\ s \o <<n>> \in Seq(Nat) /\ IsAscending(s \o <<n>>, n)
           /\ s \o <<n>> # <<>> /\ (s \o <<n>>)[Len(s \o <<n>>)] = n
           /\ s = <<>> => InARow(s \o <<n>>)
           /\ s # <<>> /\ InARow(s) /\ n = s[Len(s)] + 1 => InARow(s \o <<n>>)
<1> DEFINE longer == Append(s, n)
<1>1. s \o <<n>> = longer
  BY ConcatOne
<1>2. /\ longer \in Seq(Nat) /\ Len(longer) = Len(s) + 1 /\ longer[Len(s) + 1] = n
      /\ Len(s) \in Nat /\ DOMAIN longer = 1 .. Len(s) + 1
  BY AppendProperties, LenProperties
<1>3. ToSet(longer) = ToSet(s) \cup {n} /\ longer # <<>>
  BY AppendFacts
<1>4. \A x \in ToSet(s) : x \in Nat /\ x <= last
  BY EmptyHasNone DEF IsAscending
<1>5. \A x \in ToSet(s) : <<x, n>> \in Ascending
  BY <1>4 DEF Ascending
<1>6. Sorted(longer, Ascending)
  BY <1>5, SortedAppend DEF IsAscending
<1>7. s # <<>> /\ InARow(s) /\ n = s[Len(s)] + 1 => InARow(longer)
  BY RowFacts
<1> HIDE DEF longer
<1>8. s = <<>> => InARow(longer)
  <2>1. s = <<>> => Len(s) = 0
    BY EmptySeq
  <2>2. ASSUME s = <<>>, NEW i \in DOMAIN longer PROVE longer[i] + 1 = longer[1] + i
    <3>1. i = 1 /\ longer[1] = n
      BY <1>2, <2>1, <2>2
    <3>2. QED BY <3>1
  <2>3. QED BY <2>2 DEF InARow
<1>9. \A x \in ToSet(longer) : x <= n
  BY <1>3, <1>4
<1>10. IsAscending(longer, n)
  BY <1>6, <1>9 DEF IsAscending
<1>11. QED BY <1>1, <1>2, <1>3, <1>7, <1>8, <1>10

\* What holds of the output shown goes on to hold when what has waited is written.
LEMMA CatchUp ==
    ASSUME NEW v, HasShape(v), v.phase = "ready",
           NEW q \in Seq(Items), Sorted(q, ItemOrder), IsAscending(v.shown, v.lastSeq),
           \A i \in DOMAIN q : q[i].seq > v.lastSeq =>
               \/ IsOutput(q[i])
               \/ i = 1 /\ v.shown = <<>> /\ IsAscending(q[i].data, q[i].seq)
    PROVE  LET w == CaughtUp(v, q)
           IN  /\ w.lastSeq = Top(q, v.lastSeq)
               /\ w.shown \in Seq(Nat) /\ IsAscending(w.shown, w.lastSeq)
               /\ (\A item \in ToSet(q) : item.seq <= v.lastSeq) => w.shown = v.shown
               /\ /\ Joined(q, v.lastSeq) /\ InARow(v.shown)
                  /\ v.shown = <<>> \/ v.shown[Len(v.shown)] = v.lastSeq
                  => /\ InARow(w.shown)
                     /\ w.lastSeq > v.lastSeq =>
                            w.shown # <<>> /\ w.shown[Len(w.shown)] = w.lastSeq
<1>1. PICK written : /\ written[0] = v
                     /\ \A i \in 1 .. Len(q) : written[i] = Written(written[i - 1], q[i])
                     /\ CaughtUp(v, q) = written[Len(q)]
  BY CatchingUp
<1> DEFINE n == Len(q)
           s == v.lastSeq
           InStepWith == /\ Joined(q, s) /\ InARow(v.shown)
                         /\ v.shown = <<>> \/ v.shown[Len(v.shown)] = s
           Claim(x, i) ==
               /\ HasShape(x) /\ x.phase = "ready" /\ s <= x.lastSeq
               /\ \A j \in 1 .. i : q[j].seq <= x.lastSeq
               /\ \/ x.lastSeq = s /\ x.shown = v.shown
                  \/ s < x.lastSeq /\ \E j \in 1 .. i : x.lastSeq = q[j].seq
               /\ IsAscending(x.shown, x.lastSeq)
               /\ InStepWith => InARow(x.shown)
               /\ InStepWith /\ x.lastSeq > s =>
                      x.shown # <<>> /\ x.shown[Len(x.shown)] = x.lastSeq
           S == {i \in 0 .. n : Claim(written[i], i)}
<1>2. /\ n \in Nat /\ DOMAIN q = 1 .. n /\ \A i \in 1 .. n : q[i] \in Items
      /\ \A i \in 1 .. n : q[i].seq \in Nat
      /\ s \in Nat /\ v.shown \in Seq(Nat)
  <2>1. n \in Nat /\ DOMAIN q = 1 .. n /\ \A i \in 1 .. n : q[i] \in Items
    BY LenProperties, ElementOfSeq
  <2>2. \A one \in Items : one.seq \in Nat
    BY DEF Items
  <2>3. s \in Nat /\ v.shown \in Seq(Nat)
    BY DEF HasShape
  <2> HIDE DEF n
  <2>4. QED BY <2>1, <2>2, <2>3
<1> HIDE DEF n, InStepWith
<1>3. 0 \in S
  <2>1. Claim(v, 0)
    BY <1>2 DEF InStepWith
  <2> HIDE DEF Claim
  <2>2. QED BY <1>1, <1>2, <2>1
<1>4. ASSUME NEW i \in 0 .. n, i < n, NEW x, Claim(x, i)
      PROVE  Claim(Written(x, q[i + 1]), i + 1)
  <2> DEFINE item == q[i + 1]
             y == Written(x, item)
  <2>1. i \in Nat /\ i + 1 \in 1 .. n /\ item \in Items
    BY <1>2, <1>4
  <2>2. item.seq \in Nat /\ x.lastSeq \in Nat /\ x.shown \in Seq(Nat)
    BY <1>4, <2>1 DEF Items, HasShape
  <2>3. HasShape(x) /\ x.phase = "ready"
    BY <1>4
  <2>4. /\ HasShape(y) /\ y.phase = "ready"
        /\ item.seq <= x.lastSeq => y.lastSeq = x.lastSeq /\ y.shown = x.shown
        /\ item.seq > x.lastSeq => y.lastSeq = item.seq /\ y.shown = x.shown \o item.data
    BY <2>1, <2>3, WrittenParts DEF SameRest
  <2>5. \A j \in 1 .. i + 1 : j \in 1 .. i \/ j = i + 1
    BY <2>1
  <2>6. CASE item.seq <= x.lastSeq
    <3> HIDE DEF y
    <3>1. y.lastSeq = x.lastSeq /\ y.shown = x.shown
      BY <2>4, <2>6
    <3>2. \A j \in 1 .. i + 1 : q[j].seq <= y.lastSeq
      BY <1>4, <2>5, <2>6, <3>1
    <3>3. \A j \in 1 .. i : j \in 1 .. i + 1
      BY <2>1
    <3>4. \/ y.lastSeq = s /\ y.shown = v.shown
          \/ s < y.lastSeq /\ \E j \in 1 .. i + 1 : y.lastSeq = q[j].seq
      BY <1>4, <3>1, <3>3
    <3>5. Claim(y, i + 1)
      BY <1>4, <2>4, <3>1, <3>2, <3>4
    <3>6. QED BY <3>5 DEF y
  <2>7. CASE item.seq > x.lastSeq
    <3>1. y.lastSeq = item.seq /\ y.shown = x.shown \o item.data
      BY <2>4, <2>7
    <3>2. /\ s \in Nat /\ x.lastSeq \in Nat /\ item.seq \in Nat
          /\ s <= x.lastSeq /\ x.lastSeq < item.seq /\ s < item.seq
      <4>1. s \in Nat /\ x.lastSeq \in Nat /\ item.seq \in Nat
        BY <1>2, <2>2
      <4>2. s <= x.lastSeq
        BY <1>4
      <4>3. QED BY <2>7, <4>1, <4>2
    <3>3. \A j \in 1 .. i + 1 : q[j].seq <= item.seq
      <4>1. ASSUME NEW j \in 1 .. i PROVE q[j].seq <= item.seq
        <5>1. q[j].seq <= x.lastSeq /\ q[j].seq \in Nat
          BY <1>2, <1>4, <2>1, <4>1
        <5>2. QED BY <3>2, <5>1
      <4>2. ASSUME NEW j \in 1 .. i + 1, j = i + 1 PROVE q[j].seq <= item.seq
        BY <2>2, <4>2
      <4>3. QED BY <2>5, <4>1, <4>2
    <3>4. s < y.lastSeq /\ \E j \in 1 .. i + 1 : y.lastSeq = q[j].seq
      <4>1. i + 1 \in 1 .. i + 1
        BY <2>1
      <4>2. QED BY <3>1, <3>2, <4>1
    <3>5. InStepWith => IsOutput(item) /\ item.seq = x.lastSeq + 1
      <4>1. ASSUME InStepWith
            PROVE  /\ IsOutput(item)
                   /\ item.seq = s + 1 \/ (i + 1 > 1 /\ item.seq = q[(i + 1) - 1].seq + 1)
        BY <1>2, <2>1, <3>2, <4>1 DEF InStepWith, Joined
      <4>2. CASE item.seq = s + 1
        BY <3>2, <4>1, <4>2
      <4>3. CASE i + 1 > 1 /\ item.seq = q[(i + 1) - 1].seq + 1
        <5>1. i \in 1 .. i /\ (i + 1) - 1 = i /\ i \in 1 .. n
          BY <1>2, <2>1, <4>3
        <5>2. q[i].seq <= x.lastSeq /\ q[i].seq \in Nat /\ item.seq = q[i].seq + 1
          BY <1>2, <1>4, <4>3, <5>1
        <5>3. item.seq = x.lastSeq + 1
          <6> HIDE DEF item, s
          <6>1. QED BY <3>2, <5>2
        <5>4. QED BY <4>1, <5>3
      <4>4. QED BY <4>1, <4>2, <4>3
    <3>6. CASE IsOutput(item)
      <4>1. y.shown = x.shown \o <<item.seq>>
        BY <3>1, <3>6 DEF IsOutput
      <4>2. x.lastSeq < item.seq /\ IsAscending(x.shown, x.lastSeq)
        BY <1>4, <2>2, <2>7
      <4> HIDE DEF y, item
      <4>3. /\ IsAscending(y.shown, item.seq)
            /\ y.shown # <<>> /\ y.shown[Len(y.shown)] = item.seq
            /\ x.shown = <<>> => InARow(y.shown)
            /\ x.shown # <<>> /\ InARow(x.shown) /\ item.seq = x.shown[Len(x.shown)] + 1
                  => InARow(y.shown)
        BY <2>2, <4>1, <4>2, ShownGrows
      <4>4. InStepWith => InARow(y.shown)
        <5>1. ASSUME InStepWith, x.shown # <<>>
              PROVE  InARow(x.shown) /\ x.shown[Len(x.shown)] = x.lastSeq
          <6>1. CASE x.lastSeq = s /\ x.shown = v.shown
            BY <1>4, <5>1, <6>1 DEF InStepWith
          <6>2. CASE s < x.lastSeq
            BY <1>2, <1>4, <2>2, <5>1, <6>2
          <6>3. QED BY <1>4, <6>1, <6>2
        <5>2. QED BY <3>5, <4>3, <5>1
      <4>5. IsAscending(y.shown, y.lastSeq) /\ y.shown[Len(y.shown)] = y.lastSeq
        BY <3>1, <4>3
      <4>6. \A j \in 1 .. i + 1 : q[j].seq <= y.lastSeq
        BY <3>1, <3>3
      <4>7. s <= y.lastSeq
        BY <1>2, <2>2, <3>1, <3>2
      <4>8. Claim(y, i + 1)
        BY <2>4, <3>4, <4>3, <4>4, <4>5, <4>6, <4>7
      <4>9. QED BY <4>8 DEF y, item
    <3>7. CASE ~IsOutput(item)
      <4>1. i + 1 = 1 /\ v.shown = <<>> /\ IsAscending(item.data, item.seq)
        BY <1>2, <2>1, <3>2, <3>7
      <4>2. ~ \E j \in 1 .. i : TRUE
        BY <2>1, <4>1
      <4>3. x.shown = <<>>
        BY <1>4, <4>1, <4>2
      <4>4. y.shown = item.data
        BY <2>1, <3>1, <4>3, ConcatOne DEF Items
      <4>5. ~InStepWith
        BY <3>5, <3>7
      <4>6. s <= y.lastSeq /\ IsAscending(y.shown, y.lastSeq)
        BY <1>2, <2>2, <3>1, <3>2, <4>1, <4>4
      <4>7. \A j \in 1 .. i + 1 : q[j].seq <= y.lastSeq
        BY <3>1, <3>3
      <4> HIDE DEF y, item
      <4>8. Claim(y, i + 1)
        BY <2>4, <3>4, <4>5, <4>6, <4>7
      <4>9. QED BY <4>8 DEF y, item
    <3>8. QED BY <3>6, <3>7
  <2>8. QED BY <2>2, <2>6, <2>7
<1>5. ASSUME NEW i \in 0 .. n, i < n, i \in S PROVE i + 1 \in S
  <2>1. i + 1 \in 1 .. n /\ (i + 1) - 1 = i /\ i + 1 \in 0 .. n
    BY <1>2, <1>5
  <2>2. written[i + 1] = Written(written[i], q[i + 1])
    BY <1>1, <2>1 DEF n
  <2> HIDE DEF Claim
  <2>3. QED BY <1>4, <1>5, <2>1, <2>2
<1>6. \A i \in 0 .. n : i \in S
  <2> HIDE DEF S
  <2>1. QED BY <1>2, <1>3, <1>5, UpTo
<1> DEFINE w == CaughtUp(v, q)
<1>7. Claim(w, n)
  <2>1. n \in 0 .. n /\ w = written[n]
    BY <1>1, <1>2 DEF n
  <2> HIDE DEF Claim, w
  <2>2. QED BY <1>6, <2>1
<1> HIDE DEF w
<1>8. /\ w.shown \in Seq(Nat) /\ w.lastSeq \in Nat
  BY <1>7 DEF HasShape
<1>9. w.lastSeq = Top(q, s)
  <2>1. /\ Top(q, s) \in Nat /\ s <= Top(q, s)
        /\ \A i \in DOMAIN q : q[i].seq <= Top(q, s)
        /\ Top(q, s) = s \/ (n \in DOMAIN q /\ Top(q, s) = q[n].seq)
    <3> HIDE DEF s
    <3>1. QED BY <1>2, TopFacts DEF n
  <2>2. Top(q, s) <= w.lastSeq
    BY <1>2, <1>7, <2>1
  <2>3. w.lastSeq <= Top(q, s)
    BY <1>2, <1>7, <2>1
  <2>4. QED BY <1>8, <2>1, <2>2, <2>3
<1>10. (\A item \in ToSet(q) : item.seq <= s) => w.shown = v.shown
  <2>1. ASSUME \A item \in ToSet(q) : item.seq <= s, NEW j \in 1 .. n, w.lastSeq = q[j].seq,
               s < w.lastSeq
        PROVE  FALSE
    <3>1. q[j] \in ToSet(q)
      BY <1>2 DEF ToSet
    <3>2. QED BY <1>2, <1>8, <2>1, <3>1
  <2>2. QED BY <1>7, <2>1
<1>11. QED BY <1>7, <1>8, <1>9, <1>10 DEF w, InStepWith

\* The buffer a view starts with, and the number it ends with.
Start(r) == IF r.ok THEN r.seq ELSE 0
Given(r) == IF r.ok THEN r.data ELSE <<>>

\* The buffer, then what has waited.
LEMMA Filling ==
    ASSUME ViewOrder, ReplyFits, Filled
    PROVE  /\ HasShape(view') /\ view'.mount = view.mount /\ view'.phase = "ready"
           /\ view'.read = reply.ok /\ view'.queued = <<>>
           /\ view'.status = IF view.failed THEN "error"
                             ELSE IF view.alive THEN "connected" ELSE "exited"
           /\ view'.metExit = ~Alive(pty)
           /\ Start(reply) \in Nat /\ Given(reply) \in Seq(Nat)
           /\ view'.lastSeq = Top(view.queued, Start(reply))
           /\ IsAscending(view'.shown, view'.lastSeq)
           /\ (\A item \in ToSet(view.queued) : item.seq <= Start(reply)) =>
                  view'.shown = Given(reply)
           /\ /\ Joined(view.queued, Start(reply)) /\ InARow(Given(reply))
              /\ Given(reply) = <<>> \/ Given(reply)[Len(Given(reply))] = Start(reply)
              => /\ InARow(view'.shown)
                 /\ view'.lastSeq > Start(reply) =>
                        view'.shown # <<>> /\ view'.shown[Len(view'.shown)] = view'.lastSeq
<1> DEFINE s == Start(reply)
           d == Given(reply)
           q == view.queued
           started == [view EXCEPT !.phase = "ready", !.queued = <<>>, !.read = reply.ok,
                                   !.shown = d, !.lastSeq = s]
           w == CaughtUp(started, q)
           filled == [started EXCEPT !.shown = w.shown, !.lastSeq = w.lastSeq]
<1>1. reply.for = "buffer" /\ view' = Settled(Hydrated(view, reply))
  BY DEF Filled
<1>2. Hydrated(view, reply) = filled
  BY Zenon DEF Hydrated, Start, Given
<1>3. s \in Nat /\ d \in Seq(Nat) /\ IsAscending(d, s)
  <2>1. CASE reply.ok
    BY <1>1, <2>1 DEF ReplyFits, Start, Given
  <2>2. CASE ~reply.ok
    <3>1. s = 0 /\ d = <<>>
      BY <2>2 DEF Start, Given
    <3>2. <<>> \in Seq(Nat) /\ ToSet(<<>>) = {}
      BY EmptySeq, EmptyHasNone
    <3>3. QED BY <3>1, <3>2, SortedEmpty DEF IsAscending
  <2>3. QED BY <2>1, <2>2
<1>4. q \in Seq(Items) /\ Sorted(q, ItemOrder) /\ HasShape(view)
  BY DEF ViewOrder, HasShape
<1>5. \A i \in DOMAIN q : q[i].seq > s =>
          \/ IsOutput(q[i])
          \/ i = 1 /\ d = <<>> /\ IsAscending(q[i].data, q[i].seq)
  <2>1. ASSUME NEW i \in DOMAIN q, q[i].seq > s, ~IsOutput(q[i])
        PROVE  i = 1 /\ d = <<>> /\ IsAscending(q[i].data, q[i].seq)
    <3>1. i = 1 /\ IsAscending(q[i].data, q[i].seq)
      BY <2>1 DEF ViewOrder
    <3>2. CASE reply.ok
      <4>1. q[i] \in ToSet(q) /\ q[i] \in Items
        BY <1>4, EmptyHasNone DEF ToSet
      <4>2. q[i].seq <= reply.seq /\ s = reply.seq
        BY <1>1, <2>1, <3>2, <4>1 DEF ReplyFits, Start
      <4>3. q[i].seq \in Nat
        BY <4>1 DEF Items
      <4>4. FALSE
        <5> HIDE DEF s, q
        <5>1. QED BY <1>3, <2>1, <4>2, <4>3
      <4>5. QED BY <4>4
    <3>3. CASE ~reply.ok
      BY <3>1, <3>3 DEF Given
    <3>4. QED BY <3>2, <3>3
  <2>2. QED BY <2>1
<1> HIDE DEF s, d
<1>6. /\ HasShape(started) /\ started.phase = "ready" /\ started.lastSeq = s
      /\ started.shown = d /\ started.read = reply.ok /\ started.queued = <<>>
      /\ started.mount = view.mount /\ started.alive = view.alive
      /\ started.failed = view.failed
  <2>1. <<>> \in Seq(Items)
    BY EmptySeq
  <2>2. QED BY <1>3, <1>4, <2>1 DEF HasShape
<1> HIDE DEF started
<1>7. /\ w.lastSeq = Top(q, s) /\ w.shown \in Seq(Nat) /\ IsAscending(w.shown, w.lastSeq)
      /\ (\A item \in ToSet(q) : item.seq <= s) => w.shown = d
      /\ Joined(q, s) /\ InARow(d) /\ (d = <<>> \/ d[Len(d)] = s)
         => /\ InARow(w.shown)
            /\ w.lastSeq > s => w.shown # <<>> /\ w.shown[Len(w.shown)] = w.lastSeq
  <2> HIDE DEF q, w
  <2>1. /\ IsAscending(started.shown, started.lastSeq)
        /\ \A i \in DOMAIN q : q[i].seq > started.lastSeq =>
               \/ IsOutput(q[i])
               \/ i = 1 /\ started.shown = <<>> /\ IsAscending(q[i].data, q[i].seq)
    BY <1>3, <1>5, <1>6
  <2>2. q \in Seq(Items) /\ Sorted(q, ItemOrder) /\ HasShape(started) /\ started.phase = "ready"
    BY <1>4, <1>6
  <2>3. w = CaughtUp(started, q)
    BY DEF w
  <2>4. /\ w.lastSeq = Top(q, started.lastSeq)
        /\ w.shown \in Seq(Nat) /\ IsAscending(w.shown, w.lastSeq)
        /\ (\A item \in ToSet(q) : item.seq <= started.lastSeq) => w.shown = started.shown
        /\ /\ Joined(q, started.lastSeq) /\ InARow(started.shown)
           /\ started.shown = <<>> \/ started.shown[Len(started.shown)] = started.lastSeq
           => /\ InARow(w.shown)
              /\ w.lastSeq > started.lastSeq =>
                     w.shown # <<>> /\ w.shown[Len(w.shown)] = w.lastSeq
    BY <2>1, <2>2, <2>3, CatchUp
  <2>5. QED BY <1>6, <2>4
<1>8. w.lastSeq \in Nat
  BY <1>3, <1>4, <1>7, TopFacts
<1> HIDE DEF w, q
<1>9. /\ HasShape(filled) /\ filled.phase = "ready" /\ filled.lastSeq = w.lastSeq
      /\ filled.shown = w.shown /\ filled.read = reply.ok /\ filled.queued = <<>>
      /\ filled.mount = view.mount /\ filled.alive = view.alive /\ filled.failed = view.failed
  BY <1>6, <1>7, <1>8 DEF HasShape
<1> HIDE DEF filled
<1> DEFINE status == IF filled.failed THEN "error"
                     ELSE IF filled.alive THEN "connected" ELSE "exited"
<1>10. view' = [filled EXCEPT !.status = status, !.metExit = ~Alive(pty)]
  BY <1>1, <1>2 DEF Settled
<1>11. status = IF view.failed THEN "error" ELSE IF view.alive THEN "connected" ELSE "exited"
  BY <1>9
<1> DEFINE met == ~Alive(pty)
<1> HIDE DEF status, met
<1>12. /\ HasShape(view') /\ view'.phase = "ready" /\ view'.lastSeq = w.lastSeq
       /\ view'.shown = w.shown /\ view'.read = reply.ok /\ view'.queued = <<>>
       /\ view'.mount = view.mount /\ view'.status = status /\ view'.metExit = met
  <2>1. view' = [filled EXCEPT !.status = status, !.metExit = met]
    BY <1>10 DEF met
  <2>2. QED BY <1>9, <2>1 DEF HasShape
<1>13. view'.metExit = ~Alive(pty)
  BY <1>12 DEF met
<1>14. QED BY <1>3, <1>7, <1>11, <1>12, <1>13 DEF s, d, q

-----------------------------------------------------------------------------
(* What was passed stays passed                                             *)

Later ==
    /\ \A n \in Nat : Passed(n, pty, frames) => Passed(n, pty', frames')
    /\ \A x : x.seq \in Nat /\ IsSnapshot(x, pty) => IsSnapshot(x, pty')
    /\ Batches(pty) \in Nat /\ Batches(pty') \in Nat /\ Batches(pty) <= Batches(pty')

LEMMA DesktopIsLater ==
    ASSUME Types, DesktopMoves
    PROVE  Later
<1>1. pty' = pty /\ pty \in Ptys /\ frames \in Seq(Frames)
  BY DEF Types, DesktopMoves
<1>2. Batches(pty) \in Nat
  BY <1>1, SessionsAreTyped
<1>3. ToSet(frames') \subseteq ToSet(frames)
  BY <1>1, TailFacts DEF DesktopMoves
<1>4. \A n \in Nat : Passed(n, pty, frames) => Passed(n, pty', frames')
  BY <1>1, <1>3 DEF Passed
<1>5. QED BY <1>1, <1>2, <1>4 DEF Later

LEMMA DeviceIsLater ==
    ASSUME Types, Types', Device, DeviceMoves
    PROVE  Later
<1>1. /\ pty \in Ptys /\ Grows(pty, pty') /\ ExitIsLast(pty) /\ ExitIsLast(pty')
      /\ pty.seq \in Nat /\ pty'.seq \in Nat /\ pty' \in Ptys /\ frames' \in Seq(Frames)
  BY DEF Types, Device, DeviceMoves, Ptys
<1>2. Batches(pty) \in Nat /\ Batches(pty') \in Nat
  BY <1>1, SessionsAreTyped
<1>3. /\ Batches(pty) <= Batches(pty')
      /\ \A x : x.seq \in Nat /\ IsSnapshot(x, pty) => IsSnapshot(x, pty')
  BY <1>1, GrowingKeeps
<1>4. ASSUME NEW n \in Nat, Passed(n, pty, frames) PROVE Passed(n, pty', frames')
  <2>1. n <= pty.seq /\ pty.seq <= pty'.seq
    BY <1>1, <1>4 DEF Passed, Grows
  <2>2. n <= pty'.seq
    BY <1>1, <2>1
  <2>3. ASSUME NEW frame \in ToSet(frames')
        PROVE  IF frame.kind = "answer" THEN n <= frame.seq ELSE n < frame.cursor
    <3>1. CASE frame \in ToSet(frames)
      BY <1>4, <3>1 DEF Passed
    <3>2. CASE frame.kind # "answer" /\ frame.cursor > pty.seq /\ FrameFits(frame, pty')
      <4>1. frame.cursor \in Nat
        BY <1>1, <2>3, <3>2, EmptyHasNone, NumberIsTyped DEF Events
      <4>2. QED BY <1>1, <1>4, <2>1, <3>2, <4>1
    <3>3. CASE frame.kind = "answer" /\ frame.seq = pty'.seq
      BY <2>2, <3>3
    <3>4. QED BY <2>3, <3>1, <3>2, <3>3 DEF DeviceMoves
  <2>4. QED BY <2>2, <2>3 DEF Passed
<1>5. QED BY <1>2, <1>3, <1>4 DEF Later

\* What is behind the first frame is newer.
LEMMA HeadIsPassed ==
    ASSUME Types, Channel, frames # <<>>, frames' = Tail(frames), pty' = pty
    PROVE  /\ Head(frames) \in Frames /\ FrameFits(Head(frames), pty)
           /\ Number(Head(frames)) \in Nat
           /\ Passed(Number(Head(frames)), pty', frames')
           /\ Head(frames) \in ToSet(frames)
           /\ \A n \in Nat : Passed(n, pty, frames) =>
                  IF Head(frames).kind = "answer"
                  THEN n <= Head(frames).seq ELSE n < Head(frames).cursor
<1> DEFINE head == Head(frames)
           rest == Tail(frames)
<1>1. frames \in Seq(Frames)
  BY DEF Types
<1>2. head \in Frames /\ ToSet(frames) = {head} \cup ToSet(rest)
  BY <1>1, TailFacts
<1>3. \A x \in ToSet(rest) : <<head, x>> \in FrameOrder
  BY <1>1, SortedTail DEF Channel
<1>4. head \in ToSet(frames) /\ FrameFits(head, pty)
  BY <1>2 DEF Channel
<1> HIDE DEF head, rest
<1>5. Number(head) \in Nat /\ Number(head) <= pty.seq
  BY <1>2, <1>4, NumberIsTyped DEF FrameFits
<1>6. Passed(Number(head), pty, rest)
  BY <1>3, <1>5 DEF Passed, FrameOrder
<1>7. \A n \in Nat : Passed(n, pty, frames) =>
          IF head.kind = "answer" THEN n <= head.seq ELSE n < head.cursor
  BY <1>4 DEF Passed
<1>8. QED BY <1>2, <1>4, <1>5, <1>6, <1>7 DEF head, rest

LEMMA ZeroIsPassed ==
    ASSUME Types, Device, Channel
    PROVE  Passed(0, pty, frames)
<1>1. pty.seq \in Nat /\ frames \in Seq(Frames)
  BY DEF Types, Ptys
<1>2. ASSUME NEW frame \in ToSet(frames)
      PROVE  IF frame.kind = "answer" THEN 0 <= frame.seq ELSE 0 < frame.cursor
  <2>1. frame \in Frames /\ FrameFits(frame, pty)
    BY <1>1, EmptyHasNone DEF Channel
  <2>2. CASE frame.kind = "answer"
    <3>1. frame.seq \in Nat
      BY <2>1, <2>2, NumberIsTyped DEF Answers
    <3>2. QED BY <2>2, <3>1
  <2>3. CASE frame.kind # "answer"
    <3>1. frame.cursor \in Nat /\ frame.previous \in Nat /\ frame.cursor = frame.previous + 1
      BY <2>1, <2>3, NumberIsTyped DEF Events, FrameFits
    <3>2. QED BY <2>3, <3>1
  <2>4. QED BY <2>2, <2>3
<1>3. QED BY <1>1, <1>2 DEF Passed

\* The answer that comes first is the one of the call that was made first.
LEMMA OldestIsAnswered ==
    ASSUME InHand, Channel, frames # <<>>, Head(frames).kind = "answer",
           NEW call \in waiting, call.id = Head(frames).id,
           NEW other \in waiting, other # call
    PROVE  call.id < other.id
<1> DEFINE head == Head(frames)
           rest == Tail(frames)
<1>1. frames \in Seq(Frames) /\ waiting \subseteq Calls
  BY DEF InHand, Types
<1>2. head \in Frames /\ ToSet(frames) = {head} \cup ToSet(rest)
  BY <1>1, TailFacts
<1>3. \A x \in ToSet(rest) : <<head, x>> \in FrameOrder
  BY <1>1, SortedTail DEF Channel
<1>4. head.kind = "answer" /\ call.id = head.id
  OBVIOUS
<1> HIDE DEF head, rest
<1>5. other.id # call.id
  BY DEF InHand, CallsAreKnown
<1>6. CASE other.id \in ToSet(requests)
  BY <1>2, <1>4, <1>6 DEF Channel
<1>7. CASE \E frame \in ToSet(frames) : frame.kind = "answer" /\ frame.id = other.id
  BY <1>2, <1>3, <1>4, <1>5, <1>7 DEF FrameOrder
<1>8. QED BY <1>6, <1>7 DEF InHand, AnswersCome

\* What did not change was passed and stays so.
LEMMA SeenStays ==
    ASSUME Types, HasShape(view), Later
    PROVE  /\ SeenStream /\ stream' = stream => SeenStream'
           /\ SeenOutcomes /\ ToSet(settled') \subseteq ToSet(settled) => SeenOutcomes'
           /\ SeenReply /\ reply' = reply => SeenReply'
           /\ SeenView /\ view'.lastSeq = view.lastSeq /\ view'.queued = view.queued
                  => SeenView'
<1>1. /\ stream.cursor \in Nat /\ reply.seq \in Nat
      /\ \A outcome \in ToSet(settled) : outcome.seq \in Nat
      /\ view.lastSeq \in Nat /\ \A item \in ToSet(view.queued) : item.seq \in Nat
  <2>1. stream.cursor \in Nat /\ reply.seq \in Nat /\ settled \in Seq(Outcomes)
    BY DEF Types, Streams, Replies
  <2>2. \A outcome \in ToSet(settled) : outcome \in Outcomes
    BY <2>1, EmptyHasNone
  <2>3. view.lastSeq \in Nat /\ view.queued \in Seq(Items)
    BY DEF HasShape
  <2>4. \A item \in ToSet(view.queued) : item \in Items
    BY <2>3, EmptyHasNone
  <2>5. QED BY <2>1, <2>2, <2>3, <2>4 DEF Outcomes, Items
<1>2. SeenStream /\ stream' = stream => SeenStream'
  BY <1>1 DEF SeenStream, Later
<1>3. SeenOutcomes /\ ToSet(settled') \subseteq ToSet(settled) => SeenOutcomes'
  BY <1>1 DEF SeenOutcomes, Later
<1>4. SeenReply /\ reply' = reply => SeenReply'
  BY <1>1 DEF SeenReply, Later
<1>5. ASSUME SeenView, view'.lastSeq = view.lastSeq, view'.queued = view.queued
      PROVE  SeenView'
  <2>1. \A item \in ToSet(view.queued) : IsOutput(item) => item.seq <= Batches(pty')
    BY <1>1, <1>5 DEF SeenView, Later
  <2>2. QED BY <1>1, <1>5, <2>1 DEF SeenView, Later
<1>6. QED BY <1>2, <1>3, <1>4, <1>5

-----------------------------------------------------------------------------
(* What the view holds, step by step while the connection is up              *)

LEMMA DeviceKeepsView ==
    ASSUME InHand, InHand', Device, DeviceMoves, ViewOrder, ReplyFits, ViewFits
    PROVE  ViewOrder' /\ ReplyFits' /\ ViewFits'
<1>1. UNCHANGED <<waiting, settled, stream, entry, reply, view>>
  BY DEF DeviceMoves
<1>2. Later
  BY DeviceIsLater DEF InHand
<1>3. Seen'
  BY <1>1, <1>2, SeenStays DEF Seen, ViewFits, InHand, ViewOrder
<1>4. CreateFirst' /\ OlderWaits' /\ EmptyUntilReady'
  BY <1>1 DEF ViewFits, CreateFirst, Blank, OlderWaits, EmptyUntilReady
<1>5. ViewOrder' /\ ReplyFits'
  BY <1>1 DEF ViewOrder, ReplyFits, HasShape
<1>6. QED BY <1>3, <1>4, <1>5 DEF ViewFits

\* A call is settled, and not with a snapshot that would come before another.
LEMMA SettlingKeepsFirst ==
    ASSUME InHand, CreateFirst, UNCHANGED <<stream, reply, view>>,
           NEW call \in waiting, waiting' = waiting \ {call},
           NEW outcome \in Outcomes, outcome.call = call,
           settled' = Append(settled, outcome),
           outcome.ok => /\ \A other \in waiting : other # call => call.id < other.id
                         /\ \A one \in ToSet(settled) : one.seq <= outcome.seq
    PROVE  CreateFirst'
<1>1. settled \in Seq(Outcomes) /\ waiting \subseteq Calls
  BY DEF InHand, Types
<1>2. ToSet(settled') = ToSet(settled) \cup {outcome}
  BY <1>1, AppendFacts
<1>3. Blank' = Blank
  BY DEF Blank
<1>4. outcome.ok => \A other \in waiting' : other.for # "create"
  <2>1. ASSUME outcome.ok, NEW other \in waiting', other.for = "create" PROVE FALSE
    <3>1. other \in waiting /\ other # call
      OBVIOUS
    <3>2. other.id = 1 /\ call.id >= 1 /\ call.id < other.id
      BY <2>1, <3>1 DEF CreateFirst
    <3>3. call.id \in Nat
      BY <1>1 DEF Calls
    <3>4. QED BY <3>2, <3>3
  <2>2. QED BY <2>1
<1>5. call.for = "create" => Blank /\ \A one \in ToSet(settled) : ~one.ok
  BY DEF CreateFirst
<1>6. \A one \in waiting' : one.id >= 1 /\ (one.for = "create" => one.id = 1)
  BY DEF CreateFirst
<1>7. Sorted(settled', OutcomeOrder)
  <2>1. \A one \in ToSet(settled) : <<one, outcome>> \in OutcomeOrder
    BY <1>1, <1>5, EmptyHasNone DEF OutcomeOrder
  <2>2. Sorted(settled, OutcomeOrder)
    BY DEF CreateFirst
  <2>3. QED BY <1>1, <2>1, <2>2, SortedAppend
<1>8. (\E one \in waiting' : one.for = "create") =>
          Blank' /\ \A one \in ToSet(settled') : ~one.ok
  BY <1>2, <1>3, <1>4 DEF CreateFirst
<1>9. (\E one \in ToSet(settled') : one.ok /\ one.call.for = "create") => Blank'
  BY <1>2, <1>3, <1>5 DEF CreateFirst
<1>10. QED BY <1>6, <1>7, <1>8, <1>9 DEF CreateFirst

LEMMA AnswerKeepsView ==
    ASSUME InHand, InHand', Device, Channel, Receive, Head(frames).kind = "answer",
           ViewOrder, ReplyFits, ViewFits
    PROVE  ViewOrder' /\ ReplyFits' /\ ViewFits'
<1> DEFINE frame == Head(frames)
<1>1. /\ frames # <<>> /\ frames' = Tail(frames) /\ ReceiveAnswer(frame)
      /\ UNCHANGED <<pty, sub, reply>> /\ frame.kind = "answer"
  BY DEF Receive, device
<1>2. UNCHANGED <<sent, requests, stream, entry, view>>
  BY <1>1 DEF ReceiveAnswer
<1>3. Types /\ DesktopMoves
  BY <1>1, DesktopSteps DEF InHand
<1>4. Later
  BY <1>3, DesktopIsLater
<1>5. ViewOrder' /\ ReplyFits' /\ EmptyUntilReady'
  BY <1>1, <1>2 DEF ViewOrder, ReplyFits, HasShape, ViewFits, EmptyUntilReady
<1>6. SeenStream' /\ SeenReply' /\ SeenView'
  BY <1>1, <1>2, <1>3, <1>4, SeenStays DEF ViewFits, Seen, ViewOrder
<1>7. settled \in Seq(Outcomes) /\ waiting \subseteq Calls
  BY <1>3 DEF Types
<1>8. \A one \in ToSet(settled) : one.seq \in Nat
  <2>1. \A one \in ToSet(settled) : one \in Outcomes
    BY <1>7, EmptyHasNone
  <2>2. QED BY <2>1 DEF Outcomes
<1>9. \A item \in ToSet(view.queued) : item.seq \in Nat
  <2>1. view.queued \in Seq(Items)
    BY DEF ViewOrder, HasShape
  <2>2. \A item \in ToSet(view.queued) : item \in Items
    BY <2>1, EmptyHasNone
  <2>3. QED BY <2>2 DEF Items
<1>10. \/ waiting' = waiting /\ settled' = settled
       \/ \E call \in waiting : /\ call.id = frame.id /\ waiting' = waiting \ {call}
                                /\ settled' = Append(settled, Outcome(call, frame))
  <2>1. waiting' = {call \in waiting : call.id # frame.id}
    BY <1>1 DEF ReceiveAnswer
  <2>2. CASE \E call \in waiting \ waiting' : settled' = Append(settled, Outcome(call, frame))
    <3>1. PICK call \in waiting \ waiting' : settled' = Append(settled, Outcome(call, frame))
      BY <2>2
    <3>2. call.id = frame.id
      BY <2>1
    <3>3. waiting' = waiting \ {call}
      BY <2>1, <3>2 DEF InHand, CallsAreKnown
    <3>4. QED BY <3>1, <3>2, <3>3
  <2>3. QED BY <1>1, <2>2 DEF ReceiveAnswer
<1>11. /\ frame \in Answers /\ Passed(frame.seq, pty', frames') /\ IsSnapshot(frame, pty)
       /\ \A n \in Nat : Passed(n, pty, frames) => n <= frame.seq
  <2>1. /\ frame \in Frames /\ FrameFits(frame, pty)
        /\ Passed(Number(frame), pty', frames')
        /\ \A n \in Nat : Passed(n, pty, frames) =>
               IF frame.kind = "answer" THEN n <= frame.seq ELSE n < frame.cursor
    BY <1>1, <1>3, HeadIsPassed
  <2> HIDE DEF frame
  <2>2. Number(frame) = frame.seq
    BY <1>1 DEF Number
  <2>3. QED BY <1>1, <2>1, <2>2, NumberIsTyped DEF FrameFits
<1>12. \A call \in waiting : call.id = frame.id =>
           \A other \in waiting : other # call => call.id < other.id
  BY <1>1, OldestIsAnswered
<1>13. pty' = pty
  BY <1>1
<1> HIDE DEF frame
<1>14. CASE waiting' = waiting /\ settled' = settled
  <2>1. SeenOutcomes'
    BY <1>3, <1>4, <1>14, SeenStays DEF ViewFits, Seen, ViewOrder
  <2>2. CreateFirst' /\ OlderWaits'
    BY <1>1, <1>2, <1>14 DEF ViewFits, CreateFirst, Blank, OlderWaits
  <2>3. QED BY <1>5, <1>6, <2>1, <2>2 DEF ViewFits, Seen
<1>15. CASE \E call \in waiting : /\ call.id = frame.id /\ waiting' = waiting \ {call}
                                  /\ settled' = Append(settled, Outcome(call, frame))
  <2>1. PICK call \in waiting : /\ call.id = frame.id /\ waiting' = waiting \ {call}
                                /\ settled' = Append(settled, Outcome(call, frame))
    BY <1>15
  <2> DEFINE outcome == Outcome(call, frame)
  <2>2. /\ outcome \in Outcomes /\ outcome.call = call /\ outcome.seq = frame.seq
        /\ outcome.data = frame.data /\ outcome.alive = frame.alive
    BY <1>7, <1>11 DEF Outcome, Outcomes, Answers
  <2>3. settled' = Append(settled, outcome)
    BY <2>1
  <2> HIDE DEF outcome
  <2>4. ToSet(settled') = ToSet(settled) \cup {outcome}
    BY <1>7, <2>2, <2>3, AppendFacts
  <2>5. Passed(outcome.seq, pty', frames') /\ IsSnapshot(outcome, pty')
    BY <1>11, <1>13, <2>2 DEF IsSnapshot
  <2>6. SeenOutcomes'
    <3>1. \A one \in ToSet(settled) :
              one.seq \in Nat /\ Passed(one.seq, pty, frames) /\ (one.ok => IsSnapshot(one, pty))
      BY <1>8 DEF ViewFits, Seen, SeenOutcomes
    <3>2. \A one \in ToSet(settled) :
              Passed(one.seq, pty', frames') /\ (one.ok => IsSnapshot(one, pty'))
      BY <1>4, <3>1 DEF Later
    <3>3. QED BY <2>4, <2>5, <3>2 DEF SeenOutcomes
  <2>7. CreateFirst'
    <3>1. \A one \in ToSet(settled) : one.seq <= outcome.seq
      BY <1>11, <1>8, <2>2 DEF ViewFits, Seen, SeenOutcomes
    <3>2. \A other \in waiting : other # call => call.id < other.id
      BY <1>12, <2>1
    <3>3. UNCHANGED <<stream, reply, view>> /\ CreateFirst
      BY <1>1, <1>2 DEF ViewFits
    <3>4. QED BY <2>1, <2>2, <2>3, <3>1, <3>2, <3>3, SettlingKeepsFirst
  <2>8. OlderWaits'
    <3>1. \A item \in ToSet(view.queued) : item.seq <= outcome.seq
      BY <1>11, <1>9, <2>2 DEF ViewFits, Seen, SeenView
    <3>2. QED BY <1>2, <2>4, <3>1 DEF ViewFits, OlderWaits
  <2>9. QED BY <1>5, <1>6, <2>6, <2>7, <2>8 DEF ViewFits, Seen
<1>16. QED BY <1>10, <1>14, <1>15

\* The output of one event, newer than all that the view has.
LEMMA OutputIsWritten ==
    ASSUME ViewOrder, NEW item \in Items, IsOutput(item), view.lastSeq < item.seq,
           \A one \in ToSet(view.queued) : one.seq < item.seq,
           view' = Written(view, item)
    PROVE  /\ ViewOrder' /\ SameRest(view, view')
           /\ ToSet(view'.queued) \subseteq ToSet(view.queued) \cup {item}
           /\ view'.lastSeq = view.lastSeq \/ view'.lastSeq = item.seq
           /\ view.phase # "ready" =>
                  /\ view'.lastSeq = view.lastSeq /\ view'.shown = view.shown
                  /\ view'.queued = Append(view.queued, item)
           /\ view.phase = "ready" =>
                  /\ view'.lastSeq = item.seq /\ view'.queued = view.queued
                  /\ view'.shown = view.shown \o <<item.seq>>
<1>1. /\ HasShape(view) /\ view.lastSeq \in Nat /\ view.queued \in Seq(Items)
      /\ view.shown \in Seq(Nat) /\ Sorted(view.queued, ItemOrder)
      /\ IsAscending(view.shown, view.lastSeq)
      /\ item.seq \in Nat /\ item.data = <<item.seq>>
  BY DEF ViewOrder, HasShape, Items, IsOutput
<1>2. item.seq > view.lastSeq
  BY <1>1
<1>3. HasShape(view') /\ SameRest(view, view')
  BY <1>1, WrittenParts
<1>4. CASE view.phase # "ready"
  <2>1. /\ view'.lastSeq = view.lastSeq /\ view'.shown = view.shown
        /\ view'.queued = Append(view.queued, item)
    BY <1>1, <1>2, <1>4, WrittenParts, Zenon
  <2> DEFINE longer == Append(view.queued, item)
             n == Len(view.queued)
  <2>2. /\ Sorted(longer, ItemOrder) /\ ToSet(longer) = ToSet(view.queued) \cup {item}
        /\ n \in Nat /\ DOMAIN view.queued = 1 .. n /\ DOMAIN longer = 1 .. n + 1
        /\ \A i \in 1 .. n : longer[i] = view.queued[i]
        /\ longer[n + 1] = item
    BY <1>1, QueueGrows
  <2> HIDE DEF longer, n
  <2>3. ASSUME NEW i \in 1 .. n + 1
        PROVE  \/ IsOutput(longer[i])
               \/ i = 1 /\ IsAscending(longer[i].data, longer[i].seq)
    <3>1. CASE i \in 1 .. n
      BY <2>2, <3>1 DEF ViewOrder
    <3>2. CASE i = n + 1
      BY <2>2, <3>2
    <3>3. QED BY <2>2, <3>1, <3>2
  <2>4. view'.queued = longer
    BY <2>1 DEF longer
  <2>5. ViewOrder'
    BY <1>1, <1>3, <2>1, <2>2, <2>3, <2>4 DEF ViewOrder
  <2>6. QED BY <1>3, <1>4, <2>1, <2>2, <2>4, <2>5
<1>5. CASE view.phase = "ready"
  <2>1. /\ view'.lastSeq = item.seq /\ view'.queued = view.queued
        /\ view'.shown = view.shown \o <<item.seq>>
    <3>1. /\ view'.lastSeq = item.seq /\ view'.queued = view.queued
          /\ view'.shown = view.shown \o item.data
      BY <1>1, <1>2, <1>5, WrittenParts, Zenon
    <3>2. QED BY <1>1, <3>1
  <2>2. IsAscending(view.shown \o <<item.seq>>, item.seq)
    BY <1>1, ShownGrows
  <2>3. IsAscending(view'.shown, view'.lastSeq)
    BY <2>1, <2>2
  <2>4. ViewOrder'
    BY <1>1, <1>3, <2>1, <2>3 DEF ViewOrder
  <2>5. QED BY <1>3, <1>5, <2>1, <2>4
<1>6. QED BY <1>4, <1>5

LEMMA EventKeepsView ==
    ASSUME InHand, InHand', Device, Channel, Receive, Head(frames).kind # "answer",
           ViewOrder, ReplyFits, ViewFits
    PROVE  ViewOrder' /\ ReplyFits' /\ ViewFits'
<1> DEFINE frame == Head(frames)
<1>1. /\ frames # <<>> /\ frames' = Tail(frames) /\ ReceiveEvent(frame)
      /\ UNCHANGED <<pty, sub, reply>> /\ frame.kind # "answer"
  BY DEF Receive, device
<1>2. Types /\ DesktopMoves /\ HasShape(view)
  BY <1>1, DesktopSteps DEF InHand, ViewOrder
<1>3. Later
  BY <1>2, DesktopIsLater
<1>4. /\ frame \in Events /\ frame.cursor \in Nat
      /\ Passed(frame.cursor, pty', frames')
      /\ \A n \in Nat : Passed(n, pty, frames) => n < frame.cursor
      /\ FrameFits(frame, pty)
  <2>1. /\ frame \in Frames /\ FrameFits(frame, pty)
        /\ Passed(Number(frame), pty', frames')
        /\ \A n \in Nat : Passed(n, pty, frames) =>
               IF frame.kind = "answer" THEN n <= frame.seq ELSE n < frame.cursor
    BY <1>1, <1>2, HeadIsPassed
  <2> HIDE DEF frame
  <2>2. Number(frame) = frame.cursor
    BY <1>1 DEF Number
  <2>3. frame \in Events
    BY <1>1, <2>1, NumberIsTyped
  <2>4. frame.cursor \in Nat
    BY <2>3 DEF Events
  <2>5. QED BY <1>1, <2>1, <2>2, <2>3, <2>4
<1>5. pty' = pty /\ reply' = reply
  BY <1>1
<1>6. Seen /\ CreateFirst /\ OlderWaits /\ EmptyUntilReady
  BY DEF ViewFits
<1> HIDE DEF frame
<1>7. settled' = settled
  BY <1>1, Zenon DEF ReceiveEvent, Ignored, Resync, Deliver
<1>8. SeenOutcomes' /\ SeenReply'
  BY <1>2, <1>3, <1>5, <1>6, <1>7, SeenStays DEF Seen
<1>9. CASE Ignored
  <2>1. UNCHANGED <<waiting, stream, view>>
    BY <1>9 DEF Ignored
  <2>2. SeenStream' /\ SeenView'
    BY <1>2, <1>3, <1>6, <2>1, SeenStays DEF Seen
  <2>3. CreateFirst' /\ OlderWaits' /\ EmptyUntilReady'
    BY <1>5, <1>6, <1>7, <2>1 DEF CreateFirst, Blank, OlderWaits, EmptyUntilReady
  <2>4. ViewOrder' /\ ReplyFits'
    BY <1>5, <2>1 DEF ViewOrder, HasShape, ReplyFits
  <2>5. QED BY <1>8, <2>2, <2>3, <2>4 DEF ViewFits, Seen
<1>10. stream.on => /\ \A call \in waiting : call.for # "create"
                    /\ \A one \in ToSet(settled) : ~(one.ok /\ one.call.for = "create")
  BY <1>6 DEF CreateFirst, Blank
<1>11. CASE stream.on /\ Resync
  <2>1. view' = view
    BY <1>11 DEF Resync
  <2>2. SeenView'
    BY <1>2, <1>3, <1>6, <2>1, SeenStays DEF Seen
  <2>3. stream'.on => stream' = [stream EXCEPT !.stale = TRUE]
    BY <1>11 DEF Resync, NoStream
  <2>4. stream'.on => stream'.cursor = stream.cursor
    BY <1>2, <2>3 DEF Types, Streams
  <2>5. SeenStream'
    <3>1. stream.cursor \in Nat
      BY <1>2 DEF Types, Streams
    <3>2. Passed(stream.cursor, pty', frames')
      BY <1>3, <1>6, <1>11, <3>1 DEF Seen, SeenStream, Later
    <3>3. QED BY <2>4, <3>2 DEF SeenStream
  <2>6. \A call \in waiting' : call \in waiting \/ (call.id = sent + 1 /\ call.for = "resync")
    <3>1. waiting' = waiting \/ Ask(Call("resync"))
      BY <1>11 DEF Resync
    <3>2. Call("resync").id = sent + 1 /\ Call("resync").for = "resync"
      BY DEF Call
    <3>3. QED BY <3>1, <3>2 DEF Ask
  <2>7. CreateFirst'
    <3>1. sent + 1 >= 1
      BY <1>2 DEF Types
    <3>2. \A call \in waiting' : call.id >= 1 /\ call.for # "create"
      BY <1>6, <1>10, <1>11, <2>6, <3>1 DEF CreateFirst
    <3>3. QED BY <1>6, <1>7, <1>10, <1>11, <3>2 DEF CreateFirst
  <2>8. OlderWaits' /\ EmptyUntilReady'
    BY <1>6, <1>7, <2>1 DEF OlderWaits, EmptyUntilReady
  <2>9. ViewOrder' /\ ReplyFits'
    BY <1>5, <2>1 DEF ViewOrder, HasShape, ReplyFits
  <2>10. QED BY <1>8, <2>2, <2>5, <2>7, <2>8, <2>9 DEF ViewFits, Seen
<1>12. CASE stream.on /\ Deliver(frame) /\ frame.kind = "data"
  <2> DEFINE item == [seq |-> frame.cursor, data |-> <<frame.cursor>>]
  <2>1. /\ view' = Written(view, item) /\ waiting' = waiting
        /\ stream' = [stream EXCEPT !.cursor = frame.cursor, !.previous = {frame.previous}]
    BY <1>12 DEF Deliver
  <2>2. item \in Items /\ IsOutput(item) /\ item.seq = frame.cursor
    BY <1>4 DEF Items, IsOutput
  <2>3. stream'.cursor = frame.cursor
    BY <1>2, <2>1 DEF Types, Streams
  <2> HIDE DEF item
  <2>4. view.lastSeq < item.seq /\ \A one \in ToSet(view.queued) : one.seq < item.seq
    <3>1. view.lastSeq \in Nat /\ view.queued \in Seq(Items)
      BY <1>2 DEF HasShape
    <3>2. \A one \in ToSet(view.queued) : one \in Items
      BY <3>1, EmptyHasNone
    <3>3. \A one \in ToSet(view.queued) : one.seq \in Nat
      BY <3>2 DEF Items
    <3>4. QED BY <1>4, <1>6, <2>2, <3>1, <3>3 DEF Seen, SeenView
  <2>5. /\ ViewOrder' /\ SameRest(view, view')
        /\ ToSet(view'.queued) \subseteq ToSet(view.queued) \cup {item}
        /\ view'.lastSeq = view.lastSeq \/ view'.lastSeq = item.seq
        /\ view.phase # "ready" => view'.lastSeq = view.lastSeq /\ view'.shown = view.shown
    BY <2>1, <2>2, <2>4, OutputIsWritten
  <2>6. SeenStream'
    BY <1>4, <2>3 DEF SeenStream
  <2>7. item.seq <= Batches(pty)
    <3>1. frame.cursor <= pty.seq /\ frame.cursor # pty.exitAt
      BY <1>1, <1>4, <1>12 DEF FrameFits, Number
    <3>2. pty \in Ptys /\ ExitIsLast(pty)
      BY <1>2 DEF Types, Device
    <3>3. QED BY <1>4, <2>2, <3>1, <3>2 DEF Batches, Alive, ExitIsLast, Ptys
  <2>8. SeenView'
    <3>1. \A n \in Nat : Passed(n, pty, frames) => Passed(n, pty', frames')
      BY <1>3 DEF Later
    <3>2. view.lastSeq \in Nat /\ view.queued \in Seq(Items)
      BY <1>2 DEF HasShape
    <3>3. \A one \in ToSet(view.queued) : one \in Items
      BY <3>2, EmptyHasNone
    <3>4. \A one \in ToSet(view.queued) : Passed(one.seq, pty', frames')
      BY <1>6, <3>1, <3>3 DEF Seen, SeenView, Items
    <3>5. Passed(view'.lastSeq, pty', frames')
      BY <1>4, <1>6, <2>2, <2>5, <3>1, <3>2 DEF Seen, SeenView
    <3>6. QED BY <1>4, <1>5, <1>6, <2>2, <2>5, <2>7, <3>4, <3>5 DEF Seen, SeenView
  <2>9. CreateFirst'
    BY <1>6, <1>7, <1>10, <1>12, <2>1 DEF CreateFirst
  <2>10. OlderWaits'
    BY <1>6, <1>7, <2>2, <2>5 DEF OlderWaits
  <2>11. EmptyUntilReady'
    BY <1>6, <2>5 DEF EmptyUntilReady, SameRest
  <2>12. ReplyFits'
    BY <1>5, <2>2, <2>5 DEF ReplyFits
  <2>13. QED BY <1>8, <2>5, <2>6, <2>8, <2>9, <2>10, <2>11, <2>12 DEF ViewFits, Seen
<1>13. CASE stream.on /\ Deliver(frame) /\ frame.kind # "data"
  <2>1. view' = [view EXCEPT !.status = "exited"] /\ waiting' = waiting /\ stream' = NoStream
    BY <1>13 DEF Deliver, ToldExit
  <2>2. /\ HasShape(view') /\ view'.lastSeq = view.lastSeq /\ view'.queued = view.queued
        /\ view'.shown = view.shown /\ view'.phase = view.phase /\ view'.read = view.read
    BY <1>2, <2>1 DEF HasShape
  <2>3. ViewOrder' /\ ReplyFits'
    BY <1>5, <2>2 DEF ViewOrder, ReplyFits
  <2>4. SeenView'
    BY <1>2, <1>3, <1>6, <2>2, SeenStays DEF Seen
  <2>5. SeenStream'
    BY <2>1 DEF SeenStream, NoStream
  <2>6. CreateFirst'
    BY <1>6, <1>7, <1>10, <1>13, <2>1 DEF CreateFirst
  <2>7. OlderWaits' /\ EmptyUntilReady'
    BY <1>6, <1>7, <2>2 DEF OlderWaits, EmptyUntilReady
  <2>8. QED BY <1>8, <2>3, <2>4, <2>5, <2>6, <2>7 DEF ViewFits, Seen
<1>14. Ignored \/ (stream.on /\ (Resync \/ Deliver(frame)))
  BY <1>1, Zenon DEF ReceiveEvent
<1>15. QED BY <1>9, <1>11, <1>12, <1>13, <1>14

LEMMA SnapshotIsAscending ==
    ASSUME NEW x, x.seq \in Nat, x.data \in Seq(Nat), NEW session, IsSnapshot(x, session)
    PROVE  InARow(x.data) /\ IsAscending(x.data, x.seq)
<1> DEFINE d == x.data
           n == x.seq
<1>1. /\ InARow(d) /\ d \in Seq(Nat) /\ n \in Nat
      /\ d # <<>> => d[Len(d)] = n \/ d[Len(d)] = n - 1
  BY DEF IsSnapshot
<1> SUFFICES InARow(d) /\ IsAscending(d, n)
  OBVIOUS
<1> HIDE DEF d, n
<1>2. CASE d = <<>>
  <2>1. ToSet(d) = {} /\ Sorted(d, Ascending)
    BY <1>1, <1>2, SortedEmpty, EmptyHasNone
  <2>2. QED BY <1>1, <2>1 DEF IsAscending
<1>3. CASE d # <<>>
  <2>1. /\ d[Len(d)] \in Nat /\ Sorted(d, Ascending)
        /\ \A m \in ToSet(d) : m <= d[Len(d)]
    BY <1>1, <1>3, RowFacts
  <2>2. d[Len(d)] <= n
    BY <1>1, <1>3, <2>1
  <2>3. \A m \in ToSet(d) : m \in Nat
    BY <1>1, EmptyHasNone
  <2>4. \A m \in ToSet(d) : m <= n
    BY <1>1, <2>1, <2>2, <2>3
  <2>5. QED BY <1>1, <2>1, <2>4 DEF IsAscending
<1>4. QED BY <1>2, <1>3

\* The snapshot create has read meets a view that has nothing.
LEMMA SnapshotIsWritten ==
    ASSUME ViewOrder, NEW item \in Items, IsAscending(item.data, item.seq),
           view.queued = <<>>, view.shown = <<>>, view.lastSeq = 0,
           view' = Written(view, item)
    PROVE  /\ ViewOrder' /\ SameRest(view, view')
           /\ ToSet(view'.queued) \subseteq {item}
           /\ view'.lastSeq = 0 \/ view'.lastSeq = item.seq
           /\ view.phase # "ready" => view'.lastSeq = 0 /\ view'.shown = <<>>
<1>1. /\ HasShape(view) /\ item.seq \in Nat /\ item.data \in Seq(Nat)
      /\ Sorted(view.queued, ItemOrder) /\ IsAscending(view.shown, view.lastSeq)
  BY DEF ViewOrder, Items
<1>2. HasShape(view') /\ SameRest(view, view')
  BY <1>1, WrittenParts
<1>3. <<>> \in Seq(Items) /\ ToSet(<<>>) = {}
  BY EmptySeq, EmptyHasNone
<1>4. CASE item.seq <= view.lastSeq
  <2>1. view'.lastSeq = view.lastSeq /\ view'.queued = view.queued /\ view'.shown = view.shown
    BY <1>1, <1>4, WrittenParts
  <2>2. ViewOrder'
    BY <1>2, <2>1 DEF ViewOrder
  <2>3. QED BY <1>2, <1>3, <2>1, <2>2
<1>5. CASE item.seq > view.lastSeq /\ view.phase # "ready"
  <2>1. /\ view'.lastSeq = view.lastSeq /\ view'.queued = Append(<<>>, item)
        /\ view'.shown = view.shown
    BY <1>1, <1>5, WrittenParts
  <2> DEFINE longer == Append(<<>>, item)
  <2>2. /\ Sorted(longer, ItemOrder) /\ ToSet(longer) = ToSet(<<>>) \cup {item}
        /\ Len(<<>>) = 0 /\ DOMAIN longer = 1 .. Len(<<>>) + 1 /\ longer[Len(<<>>) + 1] = item
    BY <1>3, SortedEmpty, QueueGrows
  <2> HIDE DEF longer
  <2>3. \A i \in DOMAIN longer : i = 1 /\ longer[i] = item
    BY <2>2
  <2>4. view'.queued = longer
    BY <2>1 DEF longer
  <2>5. ViewOrder'
    BY <1>1, <1>2, <2>1, <2>2, <2>3, <2>4 DEF ViewOrder
  <2>6. QED BY <1>2, <1>3, <1>5, <2>1, <2>2, <2>4, <2>5
<1>6. CASE item.seq > view.lastSeq /\ view.phase = "ready"
  <2>1. /\ view'.lastSeq = item.seq /\ view'.queued = view.queued
        /\ view'.shown = <<>> \o item.data
    <3>1. /\ view'.lastSeq = item.seq /\ view'.queued = view.queued
          /\ view'.shown = view.shown \o item.data
      BY <1>1, <1>6, WrittenParts
    <3>2. QED BY <3>1
  <2>2. view'.shown = item.data
    BY <1>1, <2>1, ConcatOne
  <2>3. ViewOrder'
    BY <1>1, <1>2, <2>1, <2>2 DEF ViewOrder
  <2>4. QED BY <1>2, <1>3, <1>6, <2>1, <2>3
<1>7. QED BY <1>1, <1>4, <1>5, <1>6

LEMMA RunOnKeepsView ==
    ASSUME InHand, InHand', Device, Channel, up, RunOn, ViewOrder, ReplyFits, ViewFits
    PROVE  ViewOrder' /\ ReplyFits' /\ ViewFits'
<1> DEFINE outcome == Head(settled)
<1>1. /\ settled # <<>> /\ settled' = Tail(settled)
      /\ IF outcome.ok THEN Proceed(outcome) ELSE Fail(outcome.call)
      /\ reply' = ReplyTo(outcome.call, outcome.ok, outcome)
      /\ UNCHANGED <<pty, sub, requests, frames, sent, waiting>>
  <2>1. /\ IF outcome.ok /\ up THEN Proceed(outcome) ELSE Fail(outcome.call)
        /\ reply' = ReplyTo(outcome.call, outcome.ok /\ up, outcome)
        /\ settled # <<>> /\ settled' = Tail(settled)
        /\ UNCHANGED <<pty, sub, requests, frames, sent, waiting>>
    BY DEF RunOn, device
  <2>2. Head(settled) \in Outcomes
    BY <2>1, TailFacts DEF InHand, Types
  <2>3. (outcome.ok /\ up) = outcome.ok
    BY <2>2 DEF Outcomes
  <2>4. QED BY <2>1, <2>3
<1>2. /\ Types /\ DesktopMoves /\ HasShape(view)
  BY DesktopSteps DEF InHand, ViewOrder
<1>3. Seen /\ CreateFirst /\ OlderWaits /\ EmptyUntilReady
  BY DEF ViewFits
<1>4. /\ settled \in Seq(Outcomes) /\ outcome \in Outcomes
      /\ ToSet(settled) = {outcome} \cup ToSet(settled')
      /\ Sorted(settled', OutcomeOrder)
      /\ \A x \in ToSet(settled') : <<outcome, x>> \in OutcomeOrder
  <2>1. settled \in Seq(Outcomes) /\ Sorted(settled, OutcomeOrder)
    BY <1>2, <1>3 DEF Types, CreateFirst
  <2>2. QED BY <1>1, <2>1, TailFacts, SortedTail
<1>5. Later
  BY <1>2, DesktopIsLater
<1> HIDE DEF outcome
<1>6. /\ Passed(outcome.seq, pty, frames) /\ Passed(outcome.seq, pty', frames')
      /\ outcome.ok => IsSnapshot(outcome, pty)
      /\ outcome.seq \in Nat /\ outcome.data \in Seq(Nat) /\ outcome.ok \in BOOLEAN
      /\ outcome.alive \in BOOLEAN /\ outcome.call \in Calls
  BY <1>1, <1>3, <1>4 DEF Seen, SeenOutcomes, Outcomes
<1>7. SeenOutcomes'
  BY <1>2, <1>3, <1>4, <1>5, SeenStays DEF Seen
<1>8. \/ reply' = reply
      \/ /\ reply'.for = outcome.call.for /\ reply'.ok = outcome.ok
         /\ reply'.seq = outcome.seq /\ reply'.data = outcome.data
         /\ reply'.alive = (outcome.call.for = "create" \/ outcome.alive)
  BY <1>1 DEF ReplyTo
<1>9. SeenReply'
  <2>1. CASE reply' = reply
    BY <1>2, <1>3, <1>5, <2>1, SeenStays DEF Seen
  <2>2. CASE /\ reply'.for = outcome.call.for /\ reply'.ok = outcome.ok
             /\ reply'.seq = outcome.seq /\ reply'.data = outcome.data
             /\ reply'.alive = (outcome.call.for = "create" \/ outcome.alive)
    <3>1. Passed(reply'.seq, pty', frames')
      BY <1>6, <2>2
    <3>2. ASSUME reply'.for = "buffer", reply'.ok PROVE IsSnapshot(reply', pty')
      <4>1. reply'.alive <=> outcome.alive
        BY <1>6, <2>2, <3>2
      <4>2. IsSnapshot(outcome, pty') /\ reply'.seq = outcome.seq /\ reply'.data = outcome.data
        BY <1>1, <1>6, <2>2, <3>2
      <4>3. QED BY <4>1, <4>2 DEF IsSnapshot
    <3>3. QED BY <3>1, <3>2 DEF SeenReply
  <2>3. QED BY <1>8, <2>1, <2>2
<1>10. CASE ~outcome.ok
  <2>1. view' = view /\ (stream' = stream \/ stream' = NoStream)
    BY <1>1, <1>10 DEF Fail
  <2>2. SeenView'
    BY <1>2, <1>3, <1>5, <2>1, SeenStays DEF Seen
  <2>3. SeenStream'
    BY <1>2, <1>3, <1>5, <2>1, SeenStays DEF Seen, SeenStream, NoStream
  <2>4. Blank => Blank'
    BY <1>8, <1>10, <2>1 DEF Blank, NoStream
  <2>5. CreateFirst'
    BY <1>1, <1>3, <1>4, <2>4 DEF CreateFirst
  <2>6. OlderWaits' /\ EmptyUntilReady'
    BY <1>3, <1>4, <2>1 DEF OlderWaits, EmptyUntilReady
  <2>7. ViewOrder' /\ ReplyFits'
    BY <1>8, <1>10, <2>1 DEF ViewOrder, HasShape, ReplyFits
  <2>8. QED BY <1>7, <1>9, <2>2, <2>3, <2>5, <2>6, <2>7 DEF ViewFits, Seen
<1>11. CASE outcome.ok
  <2> DEFINE item == [seq |-> outcome.seq, data |-> outcome.data]
  <2>1. /\ stream' = Followed(outcome.seq) \/ stream' = NoStream
        /\ view' = IF outcome.call.for = "create" /\ outcome.data # <<>>
                   THEN Written(view, item) ELSE view
    BY <1>1, <1>11 DEF Proceed
  <2>2. item \in Items /\ item.seq = outcome.seq /\ item.data = outcome.data
    BY <1>6 DEF Items
  <2> HIDE DEF item
  <2>3. InARow(outcome.data) /\ IsAscending(outcome.data, outcome.seq)
    BY <1>6, <1>11, SnapshotIsAscending
  <2>4. SeenStream'
    BY <1>6, <2>1 DEF SeenStream, Followed, NoStream
  <2>5. CreateFirst'
    <3>1. \A call \in waiting' : call.for # "create"
      BY <1>1, <1>3, <1>4, <1>11 DEF CreateFirst
    <3>2. \A x \in ToSet(settled') : ~(x.ok /\ x.call.for = "create")
      BY <1>4, <1>11 DEF OutcomeOrder
    <3>3. QED BY <1>1, <1>3, <1>4, <3>1, <3>2 DEF CreateFirst
  <2>6. CASE view' = view
    <3>1. SeenView'
      BY <1>2, <1>3, <1>5, <2>6, SeenStays DEF Seen
    <3>2. OlderWaits' /\ EmptyUntilReady'
      BY <1>3, <1>4, <2>6 DEF OlderWaits, EmptyUntilReady
    <3>3. ViewOrder'
      BY <2>6 DEF ViewOrder, HasShape
    <3>4. ReplyFits'
      <4>1. \A one \in ToSet(view.queued) : IsOutput(one) \/ one.seq <= outcome.seq
        BY <1>3, <1>4, <1>11 DEF OlderWaits
      <4>2. QED BY <1>6, <1>8, <2>3, <2>6, <4>1 DEF ReplyFits
    <3>5. QED BY <1>7, <1>9, <2>4, <2>5, <3>1, <3>2, <3>3, <3>4 DEF ViewFits, Seen
  <2>7. CASE outcome.call.for = "create" /\ view' = Written(view, item)
    <3>1. view.queued = <<>> /\ view.shown = <<>> /\ view.lastSeq = 0 /\ ~reply.ok
      BY <1>3, <1>4, <1>11, <2>7 DEF CreateFirst, Blank
    <3>2. /\ ViewOrder' /\ SameRest(view, view')
          /\ ToSet(view'.queued) \subseteq {item}
          /\ view'.lastSeq = 0 \/ view'.lastSeq = item.seq
          /\ view.phase # "ready" => view'.lastSeq = 0 /\ view'.shown = <<>>
      BY <2>2, <2>3, <2>7, <3>1, SnapshotIsWritten
    <3>3. SeenView'
      <4>1. Passed(0, pty', frames')
        BY <1>1, <1>2, ZeroIsPassed
      <4>2. IsOutput(item) => item.seq <= Batches(pty)
        <5>1. ASSUME IsOutput(item) PROVE outcome.alive
          <6>1. DOMAIN <<item.seq>> = {1} /\ Len(<<item.seq>>) = 1 /\ <<item.seq>>[1] = item.seq
            OBVIOUS
          <6>2. outcome.data = <<item.seq>> /\ <<item.seq>> # <<>>
            BY <2>2, <5>1, <6>1 DEF IsOutput
          <6>3. outcome.data[Len(outcome.data)] = outcome.seq
            BY <2>2, <6>1, <6>2
          <6>4. outcome.data[Len(outcome.data)]
                    = IF outcome.alive THEN outcome.seq ELSE outcome.seq - 1
            BY <1>6, <1>11, <6>2 DEF IsSnapshot
          <6>5. QED BY <1>6, <6>3, <6>4
        <5>2. QED BY <1>6, <1>11, <2>2, <5>1 DEF IsSnapshot
      <4>3. QED BY <1>1, <1>6, <2>2, <3>2, <4>1, <4>2 DEF SeenView
    <3>4. OlderWaits'
      <4>1. \A x \in ToSet(settled') : x.ok => outcome.seq <= x.seq
        BY <1>4, <1>11 DEF OutcomeOrder
      <4>2. QED BY <2>2, <3>2, <4>1 DEF OlderWaits
    <3>5. EmptyUntilReady'
      BY <1>3, <3>2 DEF EmptyUntilReady, SameRest
    <3>6. ReplyFits'
      BY <1>8, <2>7, <3>1 DEF ReplyFits
    <3>7. QED BY <1>7, <1>9, <2>4, <2>5, <3>2, <3>3, <3>4, <3>5, <3>6 DEF ViewFits, Seen
  <2>8. QED BY <2>1, <2>6, <2>7
<1>12. QED BY <1>10, <1>11

LEMMA EmptyFacts ==
    /\ <<>> \in Seq(Items) /\ <<>> \in Seq(Nat)
    /\ ToSet(<<>>) = {} /\ DOMAIN <<>> = {}
<1>1. <<>> \in Seq(Items) /\ <<>> \in Seq(Nat)
  BY EmptySeq
<1>2. ToSet(<<>>) = {}
  BY <1>1, EmptyHasNone
<1>3. DOMAIN <<>> = {}
  OBVIOUS
<1>4. QED BY <1>1, <1>2, <1>3

LEMMA TimeoutKeepsView ==
    ASSUME InHand, InHand', Device, Channel, Timeout, ViewOrder, ReplyFits, ViewFits
    PROVE  ViewOrder' /\ ReplyFits' /\ ViewFits'
<1>1. PICK call \in waiting :
          /\ waiting' = waiting \ {call}
          /\ settled' = Append(settled, Failed(call))
          /\ UNCHANGED <<pty, sub, requests, frames, sent, stream, entry, reply, view>>
  BY DEF Timeout, device
<1>2. Types /\ DesktopMoves /\ HasShape(view)
  BY DesktopSteps DEF InHand, ViewOrder
<1>3. Seen /\ CreateFirst /\ OlderWaits /\ EmptyUntilReady
  BY DEF ViewFits
<1>4. Later
  BY <1>2, DesktopIsLater
<1> DEFINE outcome == Failed(call)
<1>5. outcome \in Outcomes /\ outcome.call = call /\ ~outcome.ok /\ outcome.seq = 0
  <2>1. <<>> \in Seq(Nat)
    BY EmptySeq
  <2>2. call \in Calls
    BY <1>2 DEF Types
  <2>3. QED BY <2>1, <2>2 DEF Failed, Outcomes
<1>6. settled' = Append(settled, outcome) /\ settled \in Seq(Outcomes)
  BY <1>1, <1>2 DEF Types
<1> HIDE DEF outcome
<1>7. ToSet(settled') = ToSet(settled) \cup {outcome}
  BY <1>5, <1>6, AppendFacts
<1>8. SeenStream' /\ SeenReply' /\ SeenView'
  BY <1>1, <1>2, <1>3, <1>4, SeenStays DEF Seen
<1>9. SeenOutcomes'
  <2>1. Passed(0, pty', frames')
    BY <1>1, <1>2, ZeroIsPassed
  <2>2. QED BY <1>1, <1>3, <1>5, <1>7, <2>1 DEF Seen, SeenOutcomes
<1>10. CreateFirst'
  <2>1. UNCHANGED <<stream, reply, view>>
    BY <1>1
  <2>2. QED BY <1>1, <1>3, <1>5, <1>6, <2>1, SettlingKeepsFirst
<1>11. OlderWaits' /\ EmptyUntilReady'
  BY <1>1, <1>3, <1>5, <1>7 DEF OlderWaits, EmptyUntilReady
<1>12. ViewOrder' /\ ReplyFits'
  BY <1>1 DEF ViewOrder, HasShape, ReplyFits
<1>13. QED BY <1>8, <1>9, <1>10, <1>11, <1>12 DEF ViewFits, Seen

LEMMA InvokeKeeps ==
    ASSUME NEW purpose \in {"buffer", "refresh", "restart"}, NEW possible,
           Invoke(purpose, possible)
    PROVE  /\ UNCHANGED <<settled, stream>>
           /\ reply'.seq = 0 /\ ~reply'.ok
           /\ \A call \in waiting' : \/ call \in waiting
                                     \/ /\ call.id = sent + 1 /\ call.id = sent'
                                        /\ call.for = purpose /\ call.mount = view'.mount
           /\ waiting \subseteq waiting'
<1> DEFINE call == [Call(purpose) EXCEPT !.mount = view'.mount]
<1>1. call.id = sent + 1 /\ call.for = purpose /\ call.mount = view'.mount
  BY DEF Call
<1>2. UNCHANGED <<settled, stream>>
  BY DEF Invoke
<1>3. \/ Ask(call) /\ reply' = NoReply
      \/ reply' = [NoReply EXCEPT !.for = purpose] /\ waiting' = waiting
  BY DEF Invoke
<1> HIDE DEF call
<1>4. reply'.seq = 0 /\ ~reply'.ok
  BY <1>3 DEF NoReply
<1>5. QED BY <1>1, <1>2, <1>3, <1>4 DEF Ask

\* The view goes on to its next call.
LEMMA InvokeKeepsView ==
    ASSUME InHand, InHand', Device, Channel, ViewOrder, ReplyFits, ViewFits, ViewOrder',
           Created \/ Remount,
           NEW purpose \in {"buffer", "refresh"}, NEW possible, Invoke(purpose, possible),
           view'.lastSeq = view.lastSeq \/ view'.lastSeq = 0,
           view'.queued = view.queued \/ view'.queued = <<>>,
           view'.shown = <<>>, view'.phase # "ready" => view'.lastSeq = 0 /\ ~view'.read
    PROVE  ReplyFits' /\ ViewFits'
<1>1. /\ UNCHANGED <<settled, stream>> /\ reply'.seq = 0 /\ ~reply'.ok
      /\ \A call \in waiting' : \/ call \in waiting
                                \/ call.id = sent + 1 /\ call.for = purpose
  BY InvokeKeeps
<1>2. /\ Types /\ DesktopMoves /\ HasShape(view) /\ pty' = pty /\ frames' = frames
  BY DesktopSteps DEF InHand, ViewOrder, Created, Remount, device
<1>3. Seen /\ CreateFirst /\ OlderWaits /\ EmptyUntilReady
  BY DEF ViewFits
<1>4. Later
  BY <1>2, DesktopIsLater
<1>5. Passed(0, pty', frames')
  BY <1>2, ZeroIsPassed
<1>6. SeenStream' /\ SeenOutcomes'
  BY <1>1, <1>2, <1>3, <1>4, SeenStays DEF Seen
<1>7. SeenReply'
  BY <1>1, <1>5 DEF SeenReply
<1>8. ToSet(view'.queued) \subseteq ToSet(view.queued)
  <2>1. <<>> \in Seq(Items) /\ ToSet(<<>>) = {}
    BY EmptySeq, EmptyHasNone
  <2>2. QED BY <2>1
<1>9. SeenView'
  BY <1>2, <1>3, <1>5, <1>8 DEF Seen, SeenView
<1>10. Blank => Blank'
  BY <1>1 DEF Blank
<1>11. CreateFirst'
  <2>1. sent + 1 >= 1
    BY <1>2 DEF Types
  <2>2. \A call \in waiting' : call.id >= 1 /\ (call.for = "create" => call \in waiting)
    BY <1>1, <1>3, <2>1 DEF CreateFirst
  <2>3. QED BY <1>1, <1>3, <1>10, <2>2 DEF CreateFirst
<1>12. OlderWaits' /\ EmptyUntilReady'
  BY <1>1, <1>3, <1>8 DEF OlderWaits, EmptyUntilReady
<1>13. ReplyFits'
  BY <1>1 DEF ReplyFits
<1>14. QED BY <1>6, <1>7, <1>9, <1>11, <1>12, <1>13 DEF ViewFits, Seen

LEMMA CreatedParts ==
    ASSUME ViewOrder, Created
    PROVE  /\ ViewOrder' /\ view'.phase = "filling" /\ view'.mount = view.mount
           /\ view'.lastSeq = view.lastSeq /\ view'.queued = view.queued
           /\ view'.shown = view.shown /\ view'.read = view.read
           /\ view'.alive = reply.alive /\ view'.failed = ~reply.ok
           /\ view'.status = view.status /\ view'.metExit = view.metExit
<1> DEFINE failed == ~reply.ok
<1>1. view' = [view EXCEPT !.phase = "filling", !.alive = reply.alive, !.failed = failed]
  BY DEF Created
<1> HIDE DEF failed
<1>2. HasShape(view)
  BY DEF ViewOrder
<1>3. /\ HasShape(view') /\ view'.phase = "filling" /\ view'.mount = view.mount
      /\ view'.lastSeq = view.lastSeq /\ view'.queued = view.queued
      /\ view'.shown = view.shown /\ view'.read = view.read
      /\ view'.alive = reply.alive /\ view'.failed = failed
      /\ view'.status = view.status /\ view'.metExit = view.metExit
  BY <1>1, <1>2 DEF HasShape
<1>4. ViewOrder'
  BY <1>3 DEF ViewOrder
<1>5. QED BY <1>3, <1>4 DEF failed

LEMMA RemountParts ==
    ASSUME Remount
    PROVE  /\ ViewOrder' /\ view'.phase = "creating" /\ view'.mount = view.mount + 1
           /\ view'.lastSeq = 0 /\ view'.queued = <<>> /\ view'.shown = <<>> /\ ~view'.read
<1>1. view' = Mounted(view.mount + 1)
  BY DEF Remount
<1>2. /\ view'.phase = "creating" /\ view'.mount = view.mount + 1
      /\ view'.lastSeq = 0 /\ view'.queued = <<>> /\ view'.shown = <<>> /\ ~view'.read
  BY <1>1 DEF Mounted
<1>3. /\ <<>> \in Seq(Items) /\ <<>> \in Seq(Nat) /\ ToSet(<<>>) = {} /\ DOMAIN <<>> = {}
  BY EmptyFacts
<1>4. HasShape(view')
  <2> DEFINE n == view.mount + 1
  <2>1. view' = Mounted(n)
    BY <1>1
  <2> HIDE DEF n
  <2>2. QED BY <1>3, <2>1 DEF Mounted, HasShape
<1>5. Sorted(<<>>, ItemOrder) /\ IsAscending(<<>>, 0)
  <2>1. \A x \in ToSet(<<>>) : x <= 0
    BY <1>3
  <2>2. QED BY <2>1, SortedEmpty DEF IsAscending
<1>6. ViewOrder'
  BY <1>2, <1>3, <1>4, <1>5 DEF ViewOrder
<1>7. QED BY <1>2, <1>6

LEMMA CreatedKeepsView ==
    ASSUME InHand, InHand', Device, Channel, Created, ViewOrder, ReplyFits, ViewFits
    PROVE  ViewOrder' /\ ReplyFits' /\ ViewFits'
<1>1. /\ reply.for \in {"create", "refresh"} /\ Invoke("buffer", up /\ entry # "dropped")
  BY DEF Created
<1>2. view.phase = "creating"
  BY <1>1 DEF InHand, PhaseFits, Fits
<1>3. view.shown = <<>> /\ view.lastSeq = 0 /\ ~view.read
  BY <1>2 DEF ViewFits, EmptyUntilReady
<1>4. /\ ViewOrder' /\ view'.lastSeq = view.lastSeq /\ view'.queued = view.queued
      /\ view'.shown = <<>> /\ ~view'.read /\ view'.lastSeq = 0
  BY <1>3, CreatedParts
<1> DEFINE possible == up /\ entry # "dropped"
<1>5. Invoke("buffer", possible)
  BY <1>1
<1> HIDE DEF possible
<1>6. QED BY <1>4, <1>5, InvokeKeepsView

LEMMA RemountKeepsView ==
    ASSUME InHand, InHand', Device, Channel, Remount, ViewOrder, ReplyFits, ViewFits
    PROVE  ViewOrder' /\ ReplyFits' /\ ViewFits'
<1>1. Invoke("refresh", up)
  BY DEF Remount
<1>2. /\ ViewOrder' /\ view'.lastSeq = 0 /\ view'.queued = <<>>
      /\ view'.shown = <<>> /\ ~view'.read
  BY RemountParts
<1>3. QED BY <1>1, <1>2, InvokeKeepsView

\* A tab that is started again keeps what it shows and what waits for it.
LEMMA RestartParts ==
    ASSUME ViewOrder, Restart
    PROVE  /\ ViewOrder' /\ view'.phase = view.phase /\ view'.mount = view.mount
           /\ view'.lastSeq = view.lastSeq /\ view'.queued = view.queued
           /\ view'.shown = view.shown /\ ~view'.read /\ ~reply'.ok
<1>1. HasShape(view)
  BY DEF ViewOrder
<1>2. view' = [view EXCEPT !.status = "starting", !.read = FALSE]
  BY DEF Restart
<1>3. /\ HasShape(view') /\ view'.phase = view.phase /\ view'.mount = view.mount
      /\ view'.lastSeq = view.lastSeq /\ view'.queued = view.queued
      /\ view'.shown = view.shown /\ ~view'.read
  BY <1>1, <1>2 DEF HasShape
<1>4. ViewOrder'
  BY <1>3 DEF ViewOrder
<1>5. Invoke("restart", up)
  BY DEF Restart
<1>6. ~reply'.ok
  BY <1>5, InvokeKeeps
<1>7. QED BY <1>3, <1>4, <1>6

LEMMA RestartedParts ==
    ASSUME ViewOrder, Restarted
    PROVE  /\ ViewOrder' /\ view'.phase = view.phase /\ view'.mount = view.mount
           /\ view'.lastSeq = view.lastSeq /\ view'.queued = view.queued
           /\ view'.shown = view.shown /\ view'.read = view.read
           /\ view'.metExit = ~Alive(pty)
           /\ reply'.for = "none" /\ reply'.seq = 0 /\ ~reply'.ok
<1> DEFINE failed == ~reply.ok
           again == [view EXCEPT !.alive = reply.alive, !.failed = failed]
           status == IF again.failed THEN "error"
                     ELSE IF again.alive THEN "connected" ELSE "exited"
           met == ~Alive(pty)
<1>1. HasShape(view)
  BY DEF ViewOrder
<1>2. view' = Settled(again) /\ reply' = NoReply
  BY DEF Restarted
<1>3. view' = [again EXCEPT !.status = status, !.metExit = met]
  BY <1>2 DEF Settled
<1> HIDE DEF failed, status, met
<1>4. /\ HasShape(view') /\ view'.phase = view.phase /\ view'.mount = view.mount
      /\ view'.lastSeq = view.lastSeq /\ view'.queued = view.queued
      /\ view'.shown = view.shown /\ view'.read = view.read /\ view'.metExit = met
  BY <1>1, <1>3 DEF HasShape
<1>5. ViewOrder'
  BY <1>4 DEF ViewOrder
<1>6. QED BY <1>2, <1>4, <1>5 DEF NoReply, met

LEMMA RestartKeepsView ==
    ASSUME InHand, InHand', Device, Channel, Restart, ViewOrder, ReplyFits, ViewFits
    PROVE  ViewOrder' /\ ReplyFits' /\ ViewFits'
<1>1. Invoke("restart", up) /\ pty' = pty /\ frames' = frames /\ view.phase = "ready"
  BY DEF Restart, device
<1>2. /\ UNCHANGED <<settled, stream>> /\ reply'.seq = 0 /\ ~reply'.ok
      /\ \A call \in waiting' : \/ call \in waiting
                                \/ call.id = sent + 1 /\ call.for = "restart"
  BY <1>1, InvokeKeeps
<1>3. /\ Types /\ DesktopMoves /\ HasShape(view)
  BY DesktopSteps DEF InHand, ViewOrder
<1>4. Seen /\ CreateFirst /\ OlderWaits /\ EmptyUntilReady
  BY DEF ViewFits
<1>5. Later
  BY <1>3, DesktopIsLater
<1>6. Passed(0, pty', frames')
  BY <1>1, <1>3, ZeroIsPassed
<1>7. /\ ViewOrder' /\ view'.phase = view.phase
      /\ view'.lastSeq = view.lastSeq /\ view'.queued = view.queued
      /\ view'.shown = view.shown
  BY RestartParts
<1>8. SeenStream' /\ SeenOutcomes'
  BY <1>1, <1>2, <1>3, <1>4, <1>5, SeenStays DEF Seen
<1>9. SeenReply'
  BY <1>2, <1>6 DEF SeenReply
<1>10. SeenView'
  BY <1>1, <1>4, <1>7 DEF Seen, SeenView
<1>11. Blank => Blank'
  BY <1>2, <1>7 DEF Blank
<1>12. CreateFirst'
  <2>1. sent + 1 >= 1
    BY <1>3 DEF Types
  <2>2. \A call \in waiting' : call.id >= 1 /\ (call.for = "create" => call \in waiting)
    BY <1>2, <1>4, <2>1 DEF CreateFirst
  <2>3. QED BY <1>2, <1>4, <1>11, <2>2 DEF CreateFirst
<1>13. OlderWaits' /\ EmptyUntilReady'
  BY <1>1, <1>2, <1>4, <1>7 DEF OlderWaits, EmptyUntilReady
<1>14. ReplyFits'
  BY <1>2 DEF ReplyFits
<1>15. QED BY <1>7, <1>8, <1>9, <1>10, <1>12, <1>13, <1>14 DEF ViewFits, Seen

LEMMA RestartedKeepsView ==
    ASSUME InHand, InHand', Device, Channel, Restarted, ViewOrder, ReplyFits, ViewFits
    PROVE  ViewOrder' /\ ReplyFits' /\ ViewFits'
<1>1. UNCHANGED <<pty, frames, waiting, settled, stream>>
  BY DEF Restarted, device, client
<1>2. Types /\ DesktopMoves /\ HasShape(view)
  BY DesktopSteps DEF InHand, ViewOrder
<1>3. Seen /\ CreateFirst /\ OlderWaits /\ EmptyUntilReady
  BY DEF ViewFits
<1>4. Later
  BY <1>2, DesktopIsLater
<1>5. Passed(0, pty', frames')
  BY <1>1, <1>2, ZeroIsPassed
<1>6. /\ ViewOrder' /\ view'.phase = view.phase
      /\ view'.lastSeq = view.lastSeq /\ view'.queued = view.queued
      /\ view'.shown = view.shown /\ view'.read = view.read
      /\ reply'.seq = 0 /\ ~reply'.ok
  BY RestartedParts
<1>7. SeenStream' /\ SeenOutcomes'
  BY <1>1, <1>2, <1>3, <1>4, SeenStays DEF Seen
<1>8. SeenReply' /\ SeenView'
  BY <1>1, <1>3, <1>5, <1>6 DEF Seen, SeenReply, SeenView
<1>9. Blank => Blank'
  BY <1>1, <1>6 DEF Blank
<1>10. CreateFirst' /\ OlderWaits' /\ EmptyUntilReady'
  BY <1>1, <1>3, <1>6, <1>9 DEF CreateFirst, OlderWaits, EmptyUntilReady
<1>11. ReplyFits'
  BY <1>6 DEF ReplyFits
<1>12. QED BY <1>6, <1>7, <1>8, <1>10, <1>11 DEF ViewFits, Seen

\* A view that has been filled has nothing that waits.
LEMMA FilledParts ==
    ASSUME ViewOrder, ReplyFits, Filled
    PROVE  ViewOrder' /\ ReplyFits'
<1>1. HasShape(view') /\ view'.queued = <<>> /\ IsAscending(view'.shown, view'.lastSeq)
  BY Filling
<1>2. DOMAIN <<>> = {} /\ Sorted(<<>>, ItemOrder)
  BY SortedEmpty, EmptySeq
<1>3. reply' = NoReply
  BY DEF Filled
<1>4. QED BY <1>1, <1>2, <1>3 DEF ViewOrder, ReplyFits, NoReply

LEMMA FilledKeepsView ==
    ASSUME InHand, InHand', Device, Channel, Filled, ViewOrder, ReplyFits, ViewFits
    PROVE  ViewOrder' /\ ReplyFits' /\ ViewFits'
<1> DEFINE q == view.queued
           s == Start(reply)
<1>1. /\ reply' = NoReply /\ reply.for = "buffer"
      /\ UNCHANGED <<pty, sub, requests, frames, sent, waiting, settled, stream, entry>>
  BY DEF Filled, device, client
<1>2. Types /\ DesktopMoves /\ HasShape(view)
  BY DesktopSteps DEF InHand, ViewOrder
<1>3. Seen /\ CreateFirst /\ OlderWaits /\ EmptyUntilReady
  BY DEF ViewFits
<1>4. Later
  BY <1>2, DesktopIsLater
<1>5. /\ HasShape(view') /\ view'.phase = "ready" /\ view'.queued = <<>>
      /\ s \in Nat /\ view'.lastSeq = Top(q, s)
      /\ (\A item \in ToSet(q) : item.seq <= s) => view'.shown = Given(reply)
  BY Filling
<1>6. ViewOrder' /\ ReplyFits'
  BY FilledParts
<1>7. Passed(0, pty', frames')
  BY <1>1, <1>2, ZeroIsPassed
<1>8. SeenStream' /\ SeenOutcomes'
  BY <1>1, <1>2, <1>3, <1>4, SeenStays DEF Seen
<1>9. SeenReply'
  BY <1>1, <1>7 DEF SeenReply, NoReply
<1>10. <<>> \in Seq(Items) /\ ToSet(<<>>) = {}
  BY EmptySeq, EmptyHasNone
<1>11. SeenView'
  <2>1. Passed(s, pty', frames')
    BY <1>1, <1>3, <1>7 DEF Seen, SeenReply, Start
  <2>2. q \in Seq(Items) /\ Sorted(q, ItemOrder)
    BY DEF ViewOrder, HasShape
  <2>3. Top(q, s) = s \/ \E item \in ToSet(q) : Top(q, s) = item.seq
    <3> HIDE DEF q, s
    <3>1. QED BY <1>5, <2>2, TopFacts
  <2>4. Passed(Top(q, s), pty', frames')
    BY <1>1, <1>3, <2>1, <2>3 DEF Seen, SeenView
  <2>5. QED BY <1>5, <1>10, <2>4 DEF SeenView
<1>12. Blank => Blank'
  <2>1. ASSUME Blank PROVE Blank'
    <3>1. q = <<>> /\ s = 0 /\ Given(reply) = <<>> /\ ~stream.on
      BY <2>1 DEF Blank, Start, Given
    <3>2. Top(q, s) = 0
      BY <3>1 DEF Top
    <3>3. view'.shown = <<>>
      BY <1>5, <1>10, <3>1
    <3>4. QED BY <1>1, <1>5, <3>1, <3>2, <3>3 DEF Blank, NoReply
  <2>2. QED BY <2>1
<1>13. CreateFirst' /\ OlderWaits' /\ EmptyUntilReady'
  BY <1>1, <1>3, <1>5, <1>10, <1>12 DEF CreateFirst, OlderWaits, EmptyUntilReady
<1>14. QED BY <1>6, <1>8, <1>9, <1>11, <1>13 DEF ViewFits, Seen

\* Without a connection nothing arrives, and nothing but the view's own doing changes it.
LEMMA AloneSteps ==
    ASSUME ~up, Cut, Next
    PROVE  \/ UNCHANGED <<view, reply, reported>>
           \/ RunOn /\ UNCHANGED <<view, reported>> /\ (reply' = reply \/ ~reply'.ok)
           \/ Created \/ Filled \/ Remount \/ Restart \/ Restarted
<1>1. ~Attach /\ ~Receive /\ ~Lose
  BY DEF Attach, Receive, Lose, Cut
<1>2. CASE RunOn
  <2>1. Fail(Head(settled).call) /\ reply' = ReplyTo(Head(settled).call, FALSE, Head(settled))
    <3>1. (Head(settled).ok /\ up) = FALSE
      OBVIOUS
    <3>2. QED BY <1>2, <3>1, Zenon DEF RunOn
  <2>2. view' = view /\ reported' = reported
    BY <1>2, <2>1 DEF Fail, RunOn, history
  <2>3. reply' = reply \/ ~reply'.ok
    BY <2>1 DEF ReplyTo
  <2>4. QED BY <1>2, <2>2, <2>3
<1>3. CASE Output \/ Flush \/ Exit \/ Timeout
  BY <1>3 DEF Output, Flush, Exit, Timeout, history
<1>4. QED BY <1>1, <1>2, <1>3 DEF Next

LEMMA AloneKeepsView ==
    ASSUME ~up, Cut, Next, ViewOrder, ReplyFits
    PROVE  ViewOrder' /\ ReplyFits'
<1>1. CASE UNCHANGED view /\ (reply' = reply \/ ~reply'.ok)
  BY <1>1 DEF ViewOrder, HasShape, ReplyFits
<1>2. CASE Created
  <2>1. Invoke("buffer", up /\ entry # "dropped")
    BY <1>2 DEF Created
  <2> DEFINE possible == up /\ entry # "dropped"
  <2>2. Invoke("buffer", possible)
    BY <2>1
  <2> HIDE DEF possible
  <2>3. ~reply'.ok
    BY <2>2, InvokeKeeps
  <2>4. QED BY <1>2, <2>3, CreatedParts DEF ReplyFits
<1>3. CASE Filled
  BY <1>3, FilledParts
<1>4. CASE Remount
  <2>1. Invoke("refresh", up)
    BY <1>4 DEF Remount
  <2>2. ~reply'.ok
    BY <2>1, InvokeKeeps
  <2>3. QED BY <1>4, <2>2, RemountParts DEF ReplyFits
<1>5. CASE Restart
  BY <1>5, RestartParts DEF ReplyFits
<1>6. CASE Restarted
  BY <1>6, RestartedParts DEF ReplyFits
<1>7. QED BY <1>1, <1>2, <1>3, <1>4, <1>5, <1>6, AloneSteps

LEMMA ViewInit == Init => ViewInv
<1> SUFFICES ASSUME Init PROVE ViewOrder /\ ReplyFits /\ ViewFits
  BY DEF ViewInv
<1>1. /\ frames = <<>> /\ settled = <<>> /\ stream = NoStream /\ reply = NoReply
      /\ view = Mounted(1) /\ waiting = {[id |-> 1, for |-> "create", mount |-> 1]}
      /\ pty = [pending |-> FALSE, seq |-> 0, exitAt |-> 0]
  BY DEF Init
<1>2. /\ view.phase = "creating" /\ view.lastSeq = 0 /\ view.queued = <<>>
      /\ view.shown = <<>> /\ ~view.read
  BY <1>1 DEF Mounted
<1>3. /\ <<>> \in Seq(Items) /\ <<>> \in Seq(Nat) /\ ToSet(<<>>) = {} /\ DOMAIN <<>> = {}
  BY EmptyFacts
<1>4. HasShape(view)
  BY <1>1, <1>3 DEF Mounted, HasShape
<1>5. Sorted(<<>>, ItemOrder) /\ IsAscending(<<>>, 0) /\ Sorted(<<>>, OutcomeOrder)
  BY <1>3, SortedEmpty DEF IsAscending
<1>6. ViewOrder
  BY <1>2, <1>3, <1>4, <1>5 DEF ViewOrder
<1>7. ReplyFits /\ reply.seq = 0 /\ ~reply.ok
  BY <1>1 DEF ReplyFits, NoReply
<1>8. Passed(0, pty, frames)
  BY <1>1, <1>3 DEF Passed
<1>9. Seen
  BY <1>1, <1>2, <1>3, <1>7, <1>8
     DEF Seen, SeenStream, SeenOutcomes, SeenReply, SeenView, NoStream
<1>10. CreateFirst /\ OlderWaits /\ EmptyUntilReady
  BY <1>1, <1>2, <1>3, <1>5, <1>7
     DEF CreateFirst, Blank, NoStream, OlderWaits, EmptyUntilReady
<1>11. QED BY <1>6, <1>7, <1>9, <1>10 DEF ViewFits

LEMMA ViewStep ==
    FollowInv /\ FollowInv' /\ ChannelInv /\ ViewInv /\ [Next]_vars => ViewInv'
<1> SUFFICES ASSUME FollowInv, FollowInv', ChannelInv, ViewInv, [Next]_vars
             PROVE  ViewInv'
  OBVIOUS
<1>1. ViewOrder /\ ReplyFits
  BY DEF ViewInv
<1>2. CASE up /\ Next
  <2>1. Device /\ Channel /\ ViewFits
    BY <1>2 DEF ChannelInv, ViewInv
  <2>2. CASE up' /\ InHand /\ InHand' /\ DeviceMoves
    BY <1>1, <2>1, <2>2, DeviceKeepsView DEF ViewInv
  <2>3. CASE /\ up' /\ InHand /\ InHand' /\ DesktopMoves
             /\ \/ Receive \/ RunOn \/ Timeout \/ Created \/ Filled
                \/ Remount \/ Restart \/ Restarted
    <3>1. CASE Receive
      BY <1>1, <2>1, <2>3, <3>1, AnswerKeepsView, EventKeepsView DEF ViewInv
    <3>2. CASE RunOn
      BY <1>1, <1>2, <2>1, <2>3, <3>2, RunOnKeepsView DEF ViewInv
    <3>3. CASE Timeout
      BY <1>1, <2>1, <2>3, <3>3, TimeoutKeepsView DEF ViewInv
    <3>4. CASE Created
      BY <1>1, <2>1, <2>3, <3>4, CreatedKeepsView DEF ViewInv
    <3>5. CASE Filled
      BY <1>1, <2>1, <2>3, <3>5, FilledKeepsView DEF ViewInv
    <3>6. CASE Remount
      BY <1>1, <2>1, <2>3, <3>6, RemountKeepsView DEF ViewInv
    <3>7. CASE Restart
      BY <1>1, <2>1, <2>3, <3>7, RestartKeepsView DEF ViewInv
    <3>8. CASE Restarted
      BY <1>1, <2>1, <2>3, <3>8, RestartedKeepsView DEF ViewInv
    <3>9. QED BY <2>3, <3>1, <3>2, <3>3, <3>4, <3>5, <3>6, <3>7, <3>8
  <2>4. CASE Lose /\ ~up'
    <3>1. view' = view /\ reply' = reply
      BY <2>4 DEF Lose
    <3>2. QED BY <1>1, <2>4, <3>1 DEF ViewInv, ViewOrder, HasShape, ReplyFits
  <2>5. QED BY <1>2, <2>1, <2>2, <2>3, <2>4, StepsWhileUp
<1>3. CASE ~up /\ Next
  <2>1. ~up' /\ Cut
    BY <1>3, EndedStaysEnded DEF ChannelInv
  <2>2. QED BY <1>1, <1>3, <2>1, AloneKeepsView DEF ViewInv
<1>4. CASE UNCHANGED vars
  BY <1>4 DEF vars, device, client, history, ViewInv, ViewOrder, HasShape, ReplyFits, ViewFits,
              Seen, SeenStream, SeenOutcomes, SeenReply, SeenView, CreateFirst, Blank,
              OlderWaits, EmptyUntilReady
<1>5. QED BY <1>2, <1>3, <1>4

\* Whatever has reached the desktop is older than what is still under way, and what a
\* view shows, and what waits for it, is in ascending order.
THEOREM ViewInvariant == Spec => []ViewInv
BY ViewInit, ViewStep, StreamInvariant, ChannelInvariant, PTL DEF Spec

-----------------------------------------------------------------------------
(* Output that joins, step by step while the connection is up                *)

\* An answered buffer joins the queue, the exit included.
LEMMA ReplyIsJoined ==
    ASSUME ViewOrder, ViewFits, ReplyJoins
    PROVE  ReplyJoined
<1> SUFFICES ASSUME ~reported, reply.for = "buffer", reply.ok
             PROVE  /\ Joined(view.queued, reply.seq)
                    /\ \/ reply.data = <<>> \/ reply.data[Len(reply.data)] = reply.seq
                       \/ \A item \in ToSet(view.queued) : item.seq <= reply.seq
  BY DEF ReplyJoined
<1>1. Joined(view.queued, reply.seq)
  BY DEF ReplyJoins, Joins
<1>2. IsSnapshot(reply, pty)
  BY DEF ViewFits, Seen, SeenReply
<1>3. CASE reply.alive
  BY <1>1, <1>2, <1>3 DEF IsSnapshot
<1>4. CASE ~reply.alive
  <2>1. reply.seq = pty.seq
    BY <1>2, <1>4 DEF IsSnapshot
  <2>2. \A item \in ToSet(view.queued) : item.seq <= reply.seq
    BY <2>1 DEF ViewFits, Seen, SeenView, Passed
  <2>3. QED BY <1>1, <2>2
<1>5. QED BY <1>3, <1>4

LEMMA DeviceKeepsJoin ==
    ASSUME InHand, InHand', Device, DeviceMoves, ViewOrder, Joining, ReadInOrder
    PROVE  Joining' /\ ReadInOrder'
<1>1. UNCHANGED <<sent, waiting, settled, stream, reply, view, reported>>
  BY DEF DeviceMoves
<1>2. /\ Newest' /\ OutcomeJoins' /\ ReplyJoins' /\ ReadInOrder'
  <2>1. Current' = Current /\ Mine' = Mine
    BY <1>1 DEF Current, Mine
  <2>2. Newest' /\ ReplyJoins' /\ ReadInOrder'
    BY <1>1, <2>1 DEF Joining, Newest, ReplyJoins, Joins, ReadInOrder
  <2>3. OutcomeJoins'
    BY <1>1, <2>1 DEF Joining, OutcomeJoins, Joins
  <2>4. QED BY <2>2, <2>3
<1>3. Later /\ Grows(pty, pty')
  BY DeviceIsLater DEF InHand, DeviceMoves
<1>4. ASSUME EndsWith(view.shown, view.lastSeq) PROVE EndsWith(view.shown, view.lastSeq)'
  <2>1. view.lastSeq \in Nat
    BY DEF ViewOrder, HasShape
  <2>2. view.lastSeq <= Batches(pty) => view.lastSeq <= Batches(pty')
    BY <1>3, <2>1 DEF Later
  <2>3. ~Alive(pty) => ~Alive(pty') /\ pty'.seq = pty.seq
    BY <1>3 DEF Grows, Alive
  <2>4. QED BY <1>1, <1>4, <2>2, <2>3 DEF EndsWith
<1>5. ViewJoins'
  BY <1>1, <1>4 DEF Joining, ViewJoins
<1>6. QED BY <1>2, <1>5 DEF Joining

\* A snapshot that arrives now is not older than anything in the view.
LEMMA NewSnapshotJoins ==
    ASSUME ViewOrder, Types, SeenStream, SeenView, NEW s \in Nat,
           \A n \in Nat : Passed(n, pty, frames) => n <= s
    PROVE  Joins(s)
<1>1. view.queued \in Seq(Items) /\ Sorted(view.queued, ItemOrder)
  BY DEF ViewOrder, HasShape
<1>2. \A i \in DOMAIN view.queued : view.queued[i].seq \in Nat /\ view.queued[i].seq <= s
  <2>1. \A item \in ToSet(view.queued) : item \in Items
    BY <1>1, EmptyHasNone
  <2>2. \A item \in ToSet(view.queued) : item.seq \in Nat /\ item.seq <= s
    BY <2>1 DEF Items, SeenView
  <2>3. QED BY <2>2 DEF ToSet
<1>3. Joined(view.queued, s)
  <2>1. \A i \in DOMAIN view.queued : ~(view.queued[i].seq > s)
    BY <1>2
  <2>2. QED BY <2>1 DEF Joined
<1>4. s <= Top(view.queued, s) /\ Top(view.queued, s) \in Nat
  BY <1>1, TopFacts
<1>5. stream.on => stream.cursor <= Top(view.queued, s)
  <2>1. stream.cursor \in Nat
    BY DEF Types, Streams
  <2>2. stream.on => stream.cursor <= s
    BY <2>1 DEF SeenStream
  <2>3. QED BY <1>4, <2>1, <2>2
<1>6. QED BY <1>3, <1>5 DEF Joins

LEMMA AnswerKeepsJoin ==
    ASSUME InHand, InHand', Device, Channel, Receive, Head(frames).kind = "answer",
           ViewOrder, ViewFits, Joining, ReadInOrder
    PROVE  Joining' /\ ReadInOrder'
<1> DEFINE frame == Head(frames)
<1>1. /\ frames # <<>> /\ frames' = Tail(frames) /\ ReceiveAnswer(frame)
      /\ UNCHANGED <<pty, sub, reply>> /\ frame.kind = "answer"
  BY DEF Receive, device
<1>2. UNCHANGED <<sent, stream, view, reported>>
  BY <1>1 DEF ReceiveAnswer
<1>3. Types /\ settled \in Seq(Outcomes) /\ waiting \subseteq Calls
  BY DEF InHand, Types
<1>4. waiting' = {call \in waiting : call.id # frame.id}
  BY <1>1 DEF ReceiveAnswer
<1>5. \/ settled' = settled
      \/ \E call \in waiting : call.id = frame.id /\ settled' = Append(settled, Outcome(call, frame))
  BY <1>1, <1>4 DEF ReceiveAnswer
<1>6. /\ frame \in Answers /\ \A n \in Nat : Passed(n, pty, frames) => n <= frame.seq
  <2>1. /\ frame \in Frames
        /\ \A n \in Nat : Passed(n, pty, frames) =>
               IF frame.kind = "answer" THEN n <= frame.seq ELSE n < frame.cursor
    BY <1>1, <1>3, HeadIsPassed
  <2> HIDE DEF frame
  <2>2. QED BY <1>1, <2>1, NumberIsTyped
<1>7. \A call \in waiting : call.id = frame.id =>
           \A other \in waiting : other # call => call.id < other.id
  BY <1>1, OldestIsAnswered
<1> HIDE DEF frame
<1>8. Current' = Current /\ Mine' = Mine
  BY <1>2 DEF Current, Mine
<1>9. Newest'
  BY <1>2, <1>4, <1>8 DEF Joining, Newest
<1>10. pty' = pty /\ reply' = reply
  BY <1>1
<1>11. ReadInOrder'
  BY <1>2 DEF ReadInOrder
<1>12. CASE settled' = settled
  <2>1. ReplyJoins' /\ ViewJoins'
    BY <1>2, <1>4, <1>10, <1>12 DEF Joining, ReplyJoins, ViewJoins, Joins, EndsWith
  <2>2. OutcomeJoins'
    BY <1>2, <1>4, <1>8, <1>12 DEF Joining, OutcomeJoins, Joins
  <2>3. QED BY <1>9, <1>11, <2>1, <2>2 DEF Joining
<1>13. CASE \E call \in waiting :
               call.id = frame.id /\ settled' = Append(settled, Outcome(call, frame))
  <2>1. PICK call \in waiting :
               call.id = frame.id /\ settled' = Append(settled, Outcome(call, frame))
    BY <1>13
  <2> DEFINE outcome == Outcome(call, frame)
  <2>2. outcome \in Outcomes /\ outcome.call = call /\ outcome.seq = frame.seq
    BY <1>3, <1>6 DEF Outcome, Outcomes, Answers
  <2>3. settled' = Append(settled, outcome)
    BY <2>1
  <2> HIDE DEF outcome
  <2>4. ToSet(settled') = ToSet(settled) \cup {outcome} /\ settled'[Len(settled')] = outcome
    <3>1. ToSet(settled') = ToSet(settled) \cup {outcome}
      BY <1>3, <2>2, <2>3, AppendFacts
    <3>2. Len(settled') = Len(settled) + 1 /\ settled'[Len(settled) + 1] = outcome
      BY <1>3, <2>2, <2>3, AppendProperties
    <3>3. QED BY <3>1, <3>2
  <2>5. waiting # {}
    BY <2>1
  <2>6. ReplyJoins' /\ ViewJoins'
    BY <1>2, <1>10, <2>5 DEF Joining, ReplyJoins, ViewJoins
  <2>7. ASSUME ~reported, outcome \in Mine PROVE waiting' = {}
    <3>1. call \in waiting \cap Current
      BY <2>2, <2>7 DEF Mine
    <3>2. call.id = sent
      BY <2>7, <3>1 DEF Joining, Newest
    <3>3. ASSUME NEW other \in waiting' PROVE FALSE
      <4>1. other \in waiting /\ other # call
        BY <1>4, <2>1
      <4>2. call.id < other.id /\ other.id <= sent
        BY <1>7, <2>1, <4>1 DEF InHand, CallsAreKnown
      <4>3. other.id \in Nat /\ sent \in Nat
        BY <1>3, <4>1 DEF Calls, Types
      <4>4. QED BY <3>2, <4>2, <4>3
    <3>4. QED BY <3>3
  <2>8. Joins(outcome.seq)
    <3>1. outcome.seq \in Nat
      BY <2>2 DEF Outcomes
    <3>2. \A n \in Nat : Passed(n, pty, frames) => n <= outcome.seq
      BY <1>6, <2>2
    <3>3. QED BY <1>3, <3>1, <3>2, NewSnapshotJoins DEF ViewFits, Seen
  <2>9. OutcomeJoins'
    <3> SUFFICES ASSUME ~reported', NEW one \in ToSet(settled') \cap Mine',
                        one.ok, one.call.for = "buffer"
                 PROVE  /\ waiting' = {} /\ settled'[Len(settled')] = one
                        /\ Joins(one.seq)'
      BY DEF OutcomeJoins
    <3>1. one = outcome
      BY <1>2, <1>8, <2>4, <2>5 DEF Joining, OutcomeJoins
    <3>2. waiting' = {}
      BY <1>2, <1>8, <2>7, <3>1
    <3>3. Joins(one.seq)'
      BY <1>2, <2>8, <3>1 DEF Joins
    <3>4. QED BY <2>4, <3>1, <3>2, <3>3
  <2>10. QED BY <1>9, <1>11, <2>6, <2>9 DEF Joining
<1>14. QED BY <1>5, <1>12, <1>13

\* The next output joins what waits.
LEMMA OutputJoins ==
    ASSUME NEW q \in Seq(Items), Sorted(q, ItemOrder), NEW item \in Items, IsOutput(item),
           \A one \in ToSet(q) : one.seq < item.seq,
           NEW s \in Nat, s < item.seq, Joined(q, s), item.seq <= Top(q, s) + 1
    PROVE  Joined(Append(q, item), s) /\ item.seq <= Top(Append(q, item), s)
<1> DEFINE longer == Append(q, item)
           n == Len(q)
<1>1. /\ n \in Nat /\ DOMAIN q = 1 .. n /\ DOMAIN longer = 1 .. n + 1
      /\ \A i \in 1 .. n : longer[i] = q[i]
      /\ longer[n + 1] = item
      /\ Top(longer, s) = IF item.seq > s THEN item.seq ELSE s
  BY QueueGrows
<1>2. item.seq \in Nat
  BY DEF Items
<1>3. /\ Top(q, s) \in Nat
      /\ Top(q, s) = s \/ (n \in DOMAIN q /\ Top(q, s) = q[n].seq /\ q[n] \in ToSet(q))
  BY TopFacts
<1> HIDE DEF longer, n
<1>4. ASSUME NEW i \in 1 .. n + 1, longer[i].seq > s
      PROVE  /\ IsOutput(longer[i])
             /\ longer[i].seq = s + 1 \/ (i > 1 /\ longer[i].seq = longer[i - 1].seq + 1)
  <2>1. CASE i \in 1 .. n
    <3>1. /\ IsOutput(q[i])
          /\ q[i].seq = s + 1 \/ (i > 1 /\ q[i].seq = q[i - 1].seq + 1)
      BY <1>1, <1>4, <2>1 DEF Joined
    <3>2. i > 1 => i - 1 \in 1 .. n
      BY <1>1, <2>1
    <3>3. QED BY <1>1, <2>1, <3>1, <3>2
  <2>2. CASE i = n + 1
    <3>1. longer[i] = item
      BY <1>1, <2>2
    <3>2. CASE Top(q, s) = s
      <4>1. item.seq = s + 1
        BY <1>2, <3>2
      <4>2. QED BY <3>1, <4>1
    <3>3. CASE n \in DOMAIN q /\ Top(q, s) = q[n].seq /\ q[n] \in ToSet(q)
      <4>1. q[n].seq < item.seq /\ item.seq <= q[n].seq + 1 /\ q[n].seq \in Nat
        BY <1>3, <3>3
      <4>2. item.seq = q[n].seq + 1
        BY <1>2, <4>1
      <4>3. i > 1 /\ i - 1 = n /\ longer[n] = q[n]
        BY <1>1, <2>2, <3>3
      <4>4. QED BY <3>1, <4>2, <4>3
    <3>4. QED BY <1>3, <3>2, <3>3
  <2>3. QED BY <1>1, <2>1, <2>2
<1>5. Joined(longer, s)
  BY <1>1, <1>4 DEF Joined
<1>6. item.seq <= Top(longer, s)
  BY <1>1, <1>2
<1>7. QED BY <1>5, <1>6 DEF longer

LEMMA OutputKeepsJoin ==
    ASSUME InHand, Device, ViewOrder, ViewFits, Joining, ReadInOrder,
           UNCHANGED <<pty, sent, waiting, settled, reply, reported>>,
           NEW item \in Items, IsOutput(item), view' = Written(view, item),
           view.lastSeq < item.seq, \A one \in ToSet(view.queued) : one.seq < item.seq,
           \A outcome \in ToSet(settled) : outcome.seq < item.seq, reply.seq < item.seq,
           stream.on, item.seq = stream.cursor + 1, stream'.cursor = item.seq,
           item.seq <= Batches(pty), item.seq <= pty.seq
    PROVE  Joining' /\ ReadInOrder'
<1>1. /\ view.queued \in Seq(Items) /\ Sorted(view.queued, ItemOrder)
      /\ view.lastSeq \in Nat /\ view.shown \in Seq(Nat)
      /\ IsAscending(view.shown, view.lastSeq)
  BY DEF ViewOrder, HasShape
<1>2. /\ item.seq \in Nat /\ stream.cursor \in Nat /\ reply.seq \in Nat /\ pty.seq \in Nat
      /\ settled \in Seq(Outcomes)
  BY DEF InHand, Types, Streams, Replies, Items, Ptys
<1>3. \A outcome \in ToSet(settled) : outcome.seq \in Nat
  <2>1. \A outcome \in ToSet(settled) : outcome \in Outcomes
    BY <1>2, EmptyHasNone
  <2>2. QED BY <2>1 DEF Outcomes
<1>4. /\ SameRest(view, view')
      /\ view.phase # "ready" =>
             /\ view'.lastSeq = view.lastSeq /\ view'.shown = view.shown
             /\ view'.queued = Append(view.queued, item)
      /\ view.phase = "ready" =>
             /\ view'.lastSeq = item.seq /\ view'.queued = view.queued
             /\ view'.shown = view.shown \o <<item.seq>>
  BY OutputIsWritten
<1>5. Current' = Current /\ Mine' = Mine
  BY <1>4 DEF SameRest, Current, Mine
<1>6. Newest'
  BY <1>5 DEF Joining, Newest
<1>7. ASSUME view.phase # "ready", NEW s \in Nat, s < item.seq, Joins(s)
      PROVE  /\ Joined(view'.queued, s)
             /\ stream'.cursor <= Top(view'.queued, s)
  <2>1. Joined(view.queued, s) /\ stream.cursor <= Top(view.queued, s)
    BY <1>7 DEF Joins
  <2>2. Top(view.queued, s) \in Nat
    BY <1>1, TopFacts
  <2>3. item.seq <= Top(view.queued, s) + 1
    BY <1>2, <2>1, <2>2
  <2>4. /\ Joined(Append(view.queued, item), s)
        /\ item.seq <= Top(Append(view.queued, item), s)
    BY <1>1, <1>7, <2>1, <2>3, OutputJoins
  <2>5. QED BY <1>4, <1>7, <2>4
<1>8. OutcomeJoins'
  <2> SUFFICES ASSUME ~reported', NEW one \in ToSet(settled') \cap Mine',
                      one.ok, one.call.for = "buffer"
               PROVE  /\ waiting' = {} /\ settled'[Len(settled')] = one
                      /\ Joins(one.seq)'
    BY DEF OutcomeJoins
  <2>1. one \in ToSet(settled) \cap Mine /\ ~reported
    BY <1>5
  <2>2. waiting = {} /\ settled[Len(settled)] = one /\ Joins(one.seq)
    BY <2>1 DEF Joining, OutcomeJoins
  <2>3. view.phase # "ready"
    BY <2>1 DEF InHand, PhaseFits, Fits
  <2>4. one.seq \in Nat /\ one.seq < item.seq
    BY <1>3, <2>1
  <2>5. Joined(view'.queued, one.seq) /\ stream'.cursor <= Top(view'.queued, one.seq)
    BY <1>7, <2>2, <2>3, <2>4
  <2>6. QED BY <2>2, <2>5 DEF Joins
<1>9. ReplyJoins'
  <2> SUFFICES ASSUME ~reported, reply.for = "buffer", reply.ok
               PROVE  waiting = {} /\ settled = <<>> /\ Joins(reply.seq)'
    BY DEF ReplyJoins
  <2>1. waiting = {} /\ settled = <<>> /\ Joins(reply.seq)
    BY DEF Joining, ReplyJoins
  <2>2. view.phase # "ready"
    BY DEF InHand, PhaseFits, Fits
  <2>3. Joined(view'.queued, reply.seq) /\ stream'.cursor <= Top(view'.queued, reply.seq)
    BY <1>2, <1>7, <2>1, <2>2
  <2>4. QED BY <2>1, <2>3 DEF Joins
<1>10. ASSUME ~reported, view.read
       PROVE  /\ waiting = {} /\ settled = <<>>
              /\ stream'.cursor <= view'.lastSeq
              /\ EndsWith(view.shown, view.lastSeq)'
              /\ InARow(view'.shown)
  <2>1. view.phase = "ready"
    BY <1>10 DEF ViewFits, EmptyUntilReady
  <2>2. /\ waiting = {} /\ settled = <<>> /\ stream.cursor <= view.lastSeq
        /\ EndsWith(view.shown, view.lastSeq) /\ InARow(view.shown)
    BY <1>10 DEF Joining, ViewJoins, ReadInOrder
  <2>3. item.seq = view.lastSeq + 1
    BY <1>1, <1>2, <2>2
  <2> DEFINE longer == view.shown \o <<item.seq>>
  <2>4. /\ longer # <<>> /\ longer[Len(longer)] = item.seq
        /\ view.shown = <<>> => InARow(longer)
        /\ view.shown # <<>> /\ InARow(view.shown)
               /\ item.seq = view.shown[Len(view.shown)] + 1 => InARow(longer)
    BY <1>1, <1>2, ShownGrows
  <2>5. InARow(longer)
    <3>1. view.shown # <<>> => view.shown[Len(view.shown)] = view.lastSeq
      BY <1>1, <1>2, <2>2, <2>3 DEF EndsWith
    <3>2. QED BY <2>2, <2>3, <2>4, <3>1
  <2>6. view'.shown = longer /\ view'.lastSeq = item.seq
    BY <1>4, <2>1
  <2> HIDE DEF longer
  <2>7. EndsWith(view.shown, view.lastSeq)'
    BY <2>4, <2>6 DEF EndsWith
  <2>8. stream'.cursor <= view'.lastSeq
    BY <1>2, <2>6
  <2>9. QED BY <2>2, <2>5, <2>6, <2>7, <2>8
<1>11. ViewJoins' /\ ReadInOrder'
  <2>1. view'.read = view.read /\ reported' = reported
    BY <1>4 DEF SameRest
  <2>2. QED BY <1>10, <2>1 DEF ViewJoins, ReadInOrder
<1>12. QED BY <1>6, <1>8, <1>9, <1>11 DEF Joining

LEMMA EventKeepsJoin ==
    ASSUME InHand, InHand', Device, Channel, Receive, Head(frames).kind # "answer",
           ViewOrder, ViewFits, Joining, ReadInOrder
    PROVE  Joining' /\ ReadInOrder'
<1> DEFINE frame == Head(frames)
<1>1. /\ frames # <<>> /\ frames' = Tail(frames) /\ ReceiveEvent(frame)
      /\ UNCHANGED <<pty, sub, reply>> /\ frame.kind # "answer"
  BY DEF Receive, device
<1>2. Types /\ HasShape(view)
  BY DEF InHand, ViewOrder
<1>3. /\ frame \in Events /\ FrameFits(frame, pty)
      /\ \A n \in Nat : Passed(n, pty, frames) => n < frame.cursor
  <2>1. /\ frame \in Frames /\ FrameFits(frame, pty)
        /\ \A n \in Nat : Passed(n, pty, frames) =>
               IF frame.kind = "answer" THEN n <= frame.seq ELSE n < frame.cursor
    BY <1>1, <1>2, HeadIsPassed
  <2> HIDE DEF frame
  <2>2. frame \in Events
    BY <1>1, <2>1, NumberIsTyped
  <2>3. QED BY <1>1, <2>1, <2>2
<1> HIDE DEF frame
<1>4. frame.cursor \in Nat /\ frame.previous \in Nat /\ frame.cursor = frame.previous + 1
  BY <1>1, <1>3 DEF Events, FrameFits
<1>5. settled' = settled
  BY <1>1, Zenon DEF ReceiveEvent, Ignored, Resync, Deliver
<1>6. pty' = pty /\ reply' = reply
  BY <1>1
<1>7. CASE Ignored
  <2>1. UNCHANGED <<sent, waiting, settled, stream, view, reported>>
    BY <1>7 DEF Ignored
  <2>2. Current' = Current /\ Mine' = Mine
    BY <2>1 DEF Current, Mine
  <2>3. Newest' /\ ReplyJoins' /\ ViewJoins' /\ ReadInOrder'
    BY <1>6, <2>1, <2>2
       DEF Joining, Newest, ReplyJoins, ViewJoins, Joins, EndsWith, ReadInOrder
  <2>4. OutcomeJoins'
    BY <2>1, <2>2 DEF Joining, OutcomeJoins, Joins
  <2>5. QED BY <2>3, <2>4 DEF Joining
<1>8. CASE Resync
  <2>1. reported'
    BY <1>8 DEF Resync
  <2>2. QED BY <2>1 DEF Joining, Newest, OutcomeJoins, ReplyJoins, ViewJoins, ReadInOrder
<1>9. CASE stream.on /\ ~Gap(frame) /\ ~Repeats(frame) /\ Deliver(frame) /\ frame.kind = "data"
  <2> DEFINE item == [seq |-> frame.cursor, data |-> <<frame.cursor>>]
  <2>1. /\ view' = Written(view, item)
        /\ UNCHANGED <<pty, sent, waiting, settled, reply, reported>>
        /\ stream' = [stream EXCEPT !.cursor = frame.cursor, !.previous = {frame.previous}]
    BY <1>6, <1>9 DEF Deliver
  <2>2. item \in Items /\ IsOutput(item) /\ item.seq = frame.cursor
    BY <1>4 DEF Items, IsOutput
  <2>3. stream'.cursor = frame.cursor
    BY <1>2, <2>1 DEF Types, Streams
  <2>4. frame.previous = stream.cursor
    BY <1>9, Zenon DEF Gap, InOrder
  <2> HIDE DEF item
  <2>5. view.lastSeq < item.seq /\ \A one \in ToSet(view.queued) : one.seq < item.seq
    <3>1. view.lastSeq \in Nat /\ view.queued \in Seq(Items)
      BY <1>2 DEF HasShape
    <3>2. \A one \in ToSet(view.queued) : one \in Items
      BY <3>1, EmptyHasNone
    <3>3. \A one \in ToSet(view.queued) : one.seq \in Nat
      BY <3>2 DEF Items
    <3>4. QED BY <1>3, <2>2, <3>1, <3>3 DEF ViewFits, Seen, SeenView
  <2>6. (\A one \in ToSet(settled) : one.seq < item.seq) /\ reply.seq < item.seq
    <3>1. settled \in Seq(Outcomes) /\ reply.seq \in Nat
      BY <1>2 DEF Types, Replies
    <3>2. \A one \in ToSet(settled) : one \in Outcomes
      BY <3>1, EmptyHasNone
    <3>3. \A one \in ToSet(settled) : one.seq \in Nat
      BY <3>2 DEF Outcomes
    <3>4. QED BY <1>3, <2>2, <3>1, <3>3 DEF ViewFits, Seen, SeenOutcomes, SeenReply
  <2>7. item.seq <= Batches(pty) /\ item.seq <= pty.seq
    <3>1. frame.cursor <= pty.seq /\ frame.cursor # pty.exitAt
      BY <1>1, <1>3, <1>9 DEF FrameFits, Number
    <3>2. pty \in Ptys /\ ExitIsLast(pty)
      BY <1>2 DEF Types, Device
    <3>3. QED BY <1>4, <2>2, <3>1, <3>2 DEF Batches, Alive, ExitIsLast, Ptys
  <2>8. item.seq = stream.cursor + 1 /\ stream'.cursor = item.seq /\ stream.on
    BY <1>4, <1>9, <2>2, <2>3, <2>4
  <2>9. QED BY <2>1, <2>2, <2>5, <2>6, <2>7, <2>8, OutputKeepsJoin
<1>10. CASE stream.on /\ Deliver(frame) /\ frame.kind # "data"
  <2>1. /\ view' = [view EXCEPT !.status = "exited"] /\ stream' = NoStream
        /\ UNCHANGED <<sent, waiting, settled, reported>>
    BY <1>10 DEF Deliver, ToldExit
  <2>2. /\ view'.lastSeq = view.lastSeq /\ view'.queued = view.queued
        /\ view'.shown = view.shown /\ view'.read = view.read /\ view'.mount = view.mount
    BY <1>2, <2>1 DEF HasShape
  <2>3. Current' = Current /\ Mine' = Mine /\ ~stream'.on
    BY <2>1, <2>2 DEF Current, Mine, NoStream
  <2>4. \A s : Joins(s) => Joined(view'.queued, s)
    BY <2>2 DEF Joins
  <2>5. Newest' /\ ReplyJoins' /\ ViewJoins' /\ ReadInOrder'
    BY <1>6, <2>1, <2>2, <2>3
       DEF Joining, Newest, ReplyJoins, ViewJoins, Joins, EndsWith, ReadInOrder
  <2>6. OutcomeJoins'
    BY <2>1, <2>2, <2>3 DEF Joining, OutcomeJoins, Joins
  <2>7. QED BY <2>5, <2>6 DEF Joining
<1>11. \/ Ignored \/ Resync
       \/ stream.on /\ ~Gap(frame) /\ ~Repeats(frame) /\ Deliver(frame)
  BY <1>1, Zenon DEF ReceiveEvent
<1>12. QED BY <1>7, <1>8, <1>9, <1>10, <1>11

\* The last element stays the last one.
LEMMA LastOfTail ==
    ASSUME NEW S, NEW s \in Seq(S), s # <<>>, Tail(s) # <<>>
    PROVE  /\ Tail(s)[Len(Tail(s))] = s[Len(s)]
           /\ s[Len(s)] \in ToSet(Tail(s))
<1> DEFINE t == Tail(s)
<1>1. /\ t \in Seq(S) /\ Len(t) = Len(s) - 1 /\ Len(s) \in Nat /\ Len(t) \in Nat
      /\ DOMAIN t = 1 .. Len(t) /\ \A i \in 1 .. Len(t) : t[i] = s[i + 1]
  BY HeadTailProperties, LenProperties
<1>2. Len(t) # 0
  BY <1>1, EmptySeq
<1> HIDE DEF t
<1>3. Len(t) \in 1 .. Len(t) /\ Len(t) + 1 = Len(s)
  BY <1>1, <1>2
<1>4. t[Len(t)] = s[Len(s)]
  BY <1>1, <1>3
<1>5. t[Len(t)] \in ToSet(t)
  BY <1>1, <1>3 DEF ToSet
<1>6. QED BY <1>4, <1>5 DEF t

LEMMA RunOnKeepsJoin ==
    ASSUME InHand, up, RunOn, ViewOrder, ViewFits, Joining, ReadInOrder
    PROVE  Joining' /\ ReadInOrder'
<1> DEFINE outcome == Head(settled)
           item == [seq |-> outcome.seq, data |-> outcome.data]
<1>1. /\ settled # <<>> /\ settled' = Tail(settled)
      /\ IF outcome.ok THEN Proceed(outcome) ELSE Fail(outcome.call)
      /\ reply' = ReplyTo(outcome.call, outcome.ok, outcome)
      /\ UNCHANGED <<pty, sent, waiting, reported>>
  <2>1. /\ IF outcome.ok /\ up THEN Proceed(outcome) ELSE Fail(outcome.call)
        /\ reply' = ReplyTo(outcome.call, outcome.ok /\ up, outcome)
        /\ settled # <<>> /\ settled' = Tail(settled)
        /\ UNCHANGED <<pty, sent, waiting, reported>>
    BY DEF RunOn, device, history
  <2>2. Head(settled) \in Outcomes
    BY <2>1, TailFacts DEF InHand, Types
  <2>3. (outcome.ok /\ up) = outcome.ok
    BY <2>2 DEF Outcomes
  <2>4. QED BY <2>1, <2>3
<1>2. Types /\ HasShape(view)
  BY DEF InHand, ViewOrder
<1>3. /\ settled \in Seq(Outcomes) /\ outcome \in Outcomes
      /\ ToSet(settled) = {outcome} \cup ToSet(settled')
      /\ \A x \in ToSet(settled') : <<outcome, x>> \in OutcomeOrder
      /\ outcome \in Mine => ToSet(settled') \cap Mine = {}
  <2>1. settled \in Seq(Outcomes) /\ Sorted(settled, OutcomeOrder) /\ Once(settled, Mine)
    BY <1>2 DEF InHand, Types, OneAtATime, ViewFits, CreateFirst
  <2>2. QED BY <1>1, <2>1, TailFacts, SortedTail
<1>4. /\ settled' # <<>> => /\ settled'[Len(settled')] = settled[Len(settled)]
                            /\ settled[Len(settled)] \in ToSet(settled')
  BY <1>1, <1>3, LastOfTail
<1>5. Proceed(outcome) =>
          /\ stream' = Followed(outcome.seq) \/ stream' = NoStream
          /\ \/ view' = view
             \/ outcome.call.for = "create" /\ view' = Written(view, item)
  BY DEF Proceed
<1> HIDE DEF outcome
<1>6. item \in Items /\ item.seq = outcome.seq /\ item.data = outcome.data
  BY <1>3 DEF Outcomes, Items
<1> HIDE DEF item
<1>7. \/ view' = view
      \/ outcome.ok /\ outcome.call.for = "create" /\ view' = Written(view, item)
  BY <1>1, <1>5 DEF Fail
<1>8. \/ stream' = stream /\ ~outcome.ok
      \/ stream' = NoStream
      \/ outcome.ok /\ stream' = Followed(outcome.seq)
  BY <1>1, <1>5 DEF Fail
<1>9. view'.mount = view.mount /\ view'.read = view.read
  BY <1>2, <1>6, <1>7, WrittenParts DEF SameRest
<1>10. Current' = Current /\ Mine' = Mine
  BY <1>9 DEF Current, Mine
<1>11. Newest'
  BY <1>1, <1>10 DEF Joining, Newest
<1>12. ~(~reported /\ view.read)
  BY <1>1 DEF Joining, ViewJoins
<1>13. ViewJoins' /\ ReadInOrder'
  BY <1>1, <1>9, <1>12 DEF ViewJoins, ReadInOrder
<1>14. outcome.seq \in Nat /\ view.queued \in Seq(Items) /\ Sorted(view.queued, ItemOrder)
  BY <1>3 DEF Outcomes, ViewOrder, HasShape
\* A snapshot that is not older than the one that is read now.
<1>15. ASSUME NEW s \in Nat, Joins(s), outcome.ok => outcome.seq <= s
       PROVE  Joined(view'.queued, s) /\ (stream'.on => stream'.cursor <= Top(view'.queued, s))
  <2>1. CASE view' = view
    <3>1. Top(view.queued, s) \in Nat /\ s <= Top(view.queued, s)
      BY <1>14, TopFacts
    <3>2. stream'.on => stream'.cursor <= Top(view.queued, s)
      <4>1. CASE outcome.ok /\ stream' = Followed(outcome.seq)
        <5>1. stream'.cursor = outcome.seq
          BY <4>1 DEF Followed
        <5>2. QED BY <1>14, <1>15, <3>1, <4>1, <5>1
      <4>2. CASE stream' = stream \/ stream' = NoStream
        BY <1>15, <4>2 DEF Joins, NoStream
      <4>3. QED BY <1>8, <4>1, <4>2
    <3>3. QED BY <1>15, <2>1, <3>2 DEF Joins
  <2>2. CASE outcome.ok /\ outcome.call.for = "create" /\ view' = Written(view, item)
    <3>1. view.queued = <<>> /\ view.shown = <<>> /\ view.lastSeq = 0
      BY <1>3, <2>2 DEF ViewFits, CreateFirst, Blank
    <3>2. IsSnapshot(outcome, pty)
      BY <1>3, <2>2 DEF ViewFits, Seen, SeenOutcomes
    <3>3. IsAscending(item.data, item.seq)
      <4>1. outcome.data \in Seq(Nat)
        BY <1>3 DEF Outcomes
      <4>2. QED BY <1>6, <1>14, <3>2, <4>1, SnapshotIsAscending
    <3>4. ViewOrder' /\ ToSet(view'.queued) \subseteq {item}
      BY <1>6, <2>2, <3>1, <3>3, SnapshotIsWritten
    <3>5. \A i \in DOMAIN view'.queued : ~(view'.queued[i].seq > s)
      <4>1. \A i \in DOMAIN view'.queued : view'.queued[i].seq = outcome.seq
        BY <1>6, <3>4 DEF ToSet
      <4>2. ~(outcome.seq > s)
        BY <1>14, <1>15, <2>2
      <4>3. QED BY <4>1, <4>2
    <3>6. Joined(view'.queued, s)
      BY <3>5 DEF Joined
    <3>7. view'.queued \in Seq(Items) /\ Sorted(view'.queued, ItemOrder)
      BY <3>4 DEF ViewOrder, HasShape
    <3>8. Top(view'.queued, s) \in Nat /\ s <= Top(view'.queued, s)
      BY <3>7, TopFacts
    <3>9. stream'.on => stream'.cursor = outcome.seq
      BY <1>8, <2>2 DEF Followed, NoStream
    <3>10. QED BY <1>14, <1>15, <2>2, <3>6, <3>8, <3>9
  <2>3. QED BY <1>7, <2>1, <2>2
<1>16. OutcomeJoins'
  <2> SUFFICES ASSUME ~reported', NEW one \in ToSet(settled') \cap Mine',
                      one.ok, one.call.for = "buffer"
               PROVE  /\ waiting' = {} /\ settled'[Len(settled')] = one
                      /\ Joins(one.seq)'
    BY DEF OutcomeJoins
  <2>1. one \in ToSet(settled) \cap Mine /\ ~reported /\ one \in Outcomes
    BY <1>1, <1>3, <1>10 DEF Mine
  <2>2. waiting = {} /\ settled[Len(settled)] = one /\ Joins(one.seq)
    BY <2>1 DEF Joining, OutcomeJoins
  <2>3. settled' # <<>>
    <3>1. settled' \in Seq(Outcomes)
      BY <1>1, <1>3, TailFacts
    <3>2. QED BY <3>1, EmptyHasNone
  <2>4. one.seq \in Nat /\ (outcome.ok => outcome.seq <= one.seq)
    BY <1>3, <2>1 DEF Outcomes, OutcomeOrder
  <2>5. /\ Joined(view'.queued, one.seq)
        /\ stream'.on => stream'.cursor <= Top(view'.queued, one.seq)
    BY <1>15, <2>2, <2>4
  <2>6. QED BY <1>1, <1>4, <2>2, <2>3, <2>5 DEF Joins
<1>17. ReplyJoins'
  <2> SUFFICES ASSUME ~reported', reply'.for = "buffer", reply'.ok
               PROVE  waiting' = {} /\ settled' = <<>> /\ Joins(reply.seq)'
    BY DEF ReplyJoins
  <2>1. reply' # reply
    BY <1>1 DEF Joining, ReplyJoins
  <2>2. /\ outcome.call.for = "buffer" /\ outcome.call.mount = view.mount
        /\ outcome.ok /\ reply'.seq = outcome.seq
    BY <1>1, <2>1 DEF ReplyTo
  <2>3. outcome \in Mine
    BY <1>3, <2>2 DEF Mine, Current, Outcomes
  <2>4. waiting = {} /\ settled[Len(settled)] = outcome /\ Joins(outcome.seq)
    BY <1>1, <1>3, <2>2, <2>3 DEF Joining, OutcomeJoins
  <2>5. settled' = <<>>
    BY <1>3, <1>4, <2>3, <2>4
  <2>6. /\ Joined(view'.queued, outcome.seq)
        /\ stream'.on => stream'.cursor <= Top(view'.queued, outcome.seq)
    BY <1>14, <1>15, <2>4
  <2>7. QED BY <1>1, <2>2, <2>4, <2>5, <2>6 DEF Joins
<1>18. QED BY <1>11, <1>13, <1>16, <1>17 DEF Joining

LEMMA TimeoutKeepsJoin ==
    ASSUME InHand, Timeout, Joining, ReadInOrder
    PROVE  Joining' /\ ReadInOrder'
<1>1. PICK call \in waiting :
          /\ waiting' = waiting \ {call}
          /\ settled' = Append(settled, Failed(call))
          /\ UNCHANGED <<pty, sent, stream, reply, view, reported>>
  BY DEF Timeout, device
<1> DEFINE outcome == Failed(call)
<1>2. outcome \in Outcomes /\ ~outcome.ok
  <2>1. <<>> \in Seq(Nat)
    BY EmptySeq
  <2>2. call \in Calls
    BY DEF InHand, Types
  <2>3. QED BY <2>1, <2>2 DEF Failed, Outcomes
<1>3. settled' = Append(settled, outcome) /\ settled \in Seq(Outcomes)
  BY <1>1 DEF InHand, Types
<1> HIDE DEF outcome
<1>4. ToSet(settled') = ToSet(settled) \cup {outcome}
  BY <1>2, <1>3, AppendFacts
<1>5. Current' = Current /\ Mine' = Mine /\ waiting # {}
  BY <1>1 DEF Current, Mine
<1>6. Newest' /\ ReplyJoins' /\ ViewJoins' /\ ReadInOrder'
  BY <1>1, <1>5 DEF Joining, Newest, ReplyJoins, ViewJoins, ReadInOrder
<1>7. OutcomeJoins'
  BY <1>1, <1>2, <1>4, <1>5 DEF Joining, OutcomeJoins
<1>8. QED BY <1>6, <1>7 DEF Joining

LEMMA CreatedKeepsJoin ==
    ASSUME InHand, Created, ViewOrder, ViewFits, Joining, ReadInOrder
    PROVE  Joining' /\ ReadInOrder'
<1> DEFINE possible == up /\ entry # "dropped"
<1>1. /\ reply.for \in {"create", "refresh"} /\ Invoke("buffer", possible)
      /\ reported' = reported
  BY DEF Created, history
<1> HIDE DEF possible
<1>2. /\ UNCHANGED settled /\ ~reply'.ok
      /\ \A call \in waiting' : call \in waiting \/ call.id = sent'
  BY <1>1, InvokeKeeps
<1>3. /\ view'.mount = view.mount /\ view'.shown = view.shown /\ view'.read = view.read
  BY CreatedParts
<1>4. Current' = Current /\ Mine' = Mine
  BY <1>3 DEF Current, Mine
<1>5. waiting \cap Current = {} /\ ToSet(settled) \cap Mine = {} /\ view.phase = "creating"
  BY <1>1 DEF InHand, OneAtATime, PhaseFits, Fits
<1>6. ~view.read
  BY <1>5 DEF ViewFits, EmptyUntilReady
<1>7. Newest' /\ ReplyJoins' /\ ViewJoins' /\ ReadInOrder'
  BY <1>2, <1>3, <1>4, <1>5, <1>6 DEF Newest, ReplyJoins, ViewJoins, ReadInOrder
<1>8. OutcomeJoins'
  BY <1>2, <1>4, <1>5 DEF OutcomeJoins
<1>9. QED BY <1>7, <1>8 DEF Joining

LEMMA RemountKeepsJoin ==
    ASSUME InHand, Remount
    PROVE  Joining' /\ ReadInOrder'
<1>1. Invoke("refresh", up)
  BY DEF Remount
<1>2. /\ UNCHANGED settled /\ ~reply'.ok
      /\ \A call \in waiting' : call \in waiting \/ call.id = sent'
  BY <1>1, InvokeKeeps
<1>3. view'.mount = view.mount + 1 /\ ~view'.read
  BY RemountParts
<1>4. /\ view.mount \in Nat /\ waiting \subseteq Calls
      /\ \A outcome \in ToSet(settled) : outcome \in Outcomes
  <2>1. view.mount \in Nat /\ waiting \subseteq Calls /\ settled \in Seq(Outcomes)
    BY DEF InHand, Types, IsView
  <2>2. QED BY <2>1, EmptyHasNone
<1>5. waiting \cap Current' = {}
  <2>1. \A call \in waiting : call.mount \in Nat /\ call.mount <= view.mount
    BY <1>4 DEF Calls, InHand, CallsAreKnown
  <2>2. \A call \in waiting : call.mount # view'.mount
    BY <1>3, <1>4, <2>1
  <2>3. QED BY <2>2 DEF Current
<1>6. ToSet(settled) \cap Mine' = {}
  <2>1. \A outcome \in ToSet(settled) :
            outcome.call.mount \in Nat /\ outcome.call.mount <= view.mount
    BY <1>4 DEF Outcomes, Calls, InHand, CallsAreKnown
  <2>2. \A outcome \in ToSet(settled) : outcome.call.mount # view'.mount
    BY <1>3, <1>4, <2>1
  <2>3. QED BY <2>2 DEF Mine, Current
<1>7. Newest' /\ ReplyJoins' /\ ViewJoins' /\ ReadInOrder'
  BY <1>2, <1>3, <1>5 DEF Newest, ReplyJoins, ViewJoins, ReadInOrder
<1>8. OutcomeJoins'
  BY <1>2, <1>6 DEF OutcomeJoins
<1>9. QED BY <1>7, <1>8 DEF Joining

LEMMA RestartKeepsJoin ==
    ASSUME InHand, Restart, ViewOrder, Joining
    PROVE  Joining' /\ ReadInOrder'
<1>1. Invoke("restart", up) /\ view.phase = "ready" /\ reported' = reported
  BY DEF Restart
<1>2. /\ UNCHANGED settled /\ ~reply'.ok
      /\ \A call \in waiting' : call \in waiting \/ call.id = sent'
  BY <1>1, InvokeKeeps
<1>3. view'.mount = view.mount /\ ~view'.read
  BY RestartParts
<1>4. Current' = Current /\ Mine' = Mine
  BY <1>3 DEF Current, Mine
<1>5. waiting \cap Current = {} /\ ToSet(settled) \cap Mine = {}
  BY RestartIsAlone DEF InHand
<1>6. Newest' /\ ReplyJoins' /\ ViewJoins' /\ ReadInOrder'
  BY <1>2, <1>3, <1>4, <1>5 DEF Newest, ReplyJoins, ViewJoins, ReadInOrder
<1>7. OutcomeJoins'
  BY <1>2, <1>4, <1>5 DEF OutcomeJoins
<1>8. QED BY <1>6, <1>7 DEF Joining

LEMMA RestartedKeepsJoin ==
    ASSUME InHand, Restarted, ViewOrder, Joining, ReadInOrder
    PROVE  Joining' /\ ReadInOrder'
<1>1. UNCHANGED <<pty, sent, waiting, settled, stream, reported>>
  BY DEF Restarted, device, client, history
<1>2. /\ view'.mount = view.mount /\ view'.read = view.read /\ view'.shown = view.shown
      /\ view'.lastSeq = view.lastSeq /\ view'.queued = view.queued
      /\ ~reply'.ok
  BY RestartedParts
<1>3. Current' = Current /\ Mine' = Mine
  BY <1>2 DEF Current, Mine
<1>4. Newest' /\ ReplyJoins' /\ ViewJoins' /\ ReadInOrder'
  BY <1>1, <1>2, <1>3
     DEF Joining, Newest, ReplyJoins, ViewJoins, EndsWith, ReadInOrder
<1>5. OutcomeJoins'
  BY <1>1, <1>2, <1>3 DEF Joining, OutcomeJoins, Joins
<1>6. QED BY <1>4, <1>5 DEF Joining

\* What has been read and what has waited are one row.
LEMMA FilledReadsInOrder ==
    ASSUME ViewOrder, ReplyFits, ReplyJoined, Filled
    PROVE  ReadInOrder'
<1> SUFFICES ASSUME ~reported', view'.read PROVE InARow(view'.shown)
  BY DEF ReadInOrder
<1>1. reply.for = "buffer" /\ reported' = reported /\ view'.read = reply.ok
  BY Filling DEF Filled, history
<1>2. reply.ok /\ Start(reply) = reply.seq /\ Given(reply) = reply.data
  BY <1>1 DEF Start, Given
<1>3. InARow(reply.data)
  BY <1>1, <1>2 DEF ReplyFits
<1>4. /\ Joined(view.queued, reply.seq)
      /\ \/ reply.data = <<>> \/ reply.data[Len(reply.data)] = reply.seq
         \/ \A item \in ToSet(view.queued) : item.seq <= reply.seq
  BY <1>1, <1>2 DEF ReplyJoined
<1>5. /\ (\A item \in ToSet(view.queued) : item.seq <= reply.seq) => view'.shown = reply.data
      /\ /\ Joined(view.queued, reply.seq) /\ InARow(reply.data)
         /\ reply.data = <<>> \/ reply.data[Len(reply.data)] = reply.seq
         => InARow(view'.shown)
  BY <1>2, Filling
<1>6. QED BY <1>3, <1>4, <1>5

\* And they end with the number the view has reached.
LEMMA FilledEnds ==
    ASSUME InHand, Filled, ViewOrder, ReplyFits, ViewFits, ReplyJoined, reply.ok, ~reported
    PROVE  EndsWith(view.shown, view.lastSeq)'
<1> DEFINE q == view.queued
           s == reply.seq
           d == reply.data
<1>1. /\ reply.for = "buffer" /\ pty' = pty
  BY DEF Filled, device
<1>2. IsSnapshot(reply, pty) /\ s \in Nat /\ d \in Seq(Nat)
  BY <1>1 DEF ViewFits, Seen, SeenReply, InHand, Types, Replies
<1>3. /\ view'.lastSeq = Top(q, s)
      /\ (\A item \in ToSet(q) : item.seq <= s) => view'.shown = d
      /\ /\ Joined(q, s) /\ InARow(d)
         /\ d = <<>> \/ d[Len(d)] = s
         => (view'.lastSeq > s =>
                 view'.shown # <<>> /\ view'.shown[Len(view'.shown)] = view'.lastSeq)
  <2>1. Start(reply) = s /\ Given(reply) = d
    BY DEF Start, Given
  <2>2. QED BY <2>1, Filling
<1>4. /\ q \in Seq(Items) /\ Sorted(q, ItemOrder)
  BY DEF ViewOrder, HasShape
<1>5. /\ Top(q, s) \in Nat /\ s <= Top(q, s)
      /\ \A i \in DOMAIN q : q[i].seq <= Top(q, s)
      /\ \/ Top(q, s) = s
         \/ /\ Len(q) \in DOMAIN q /\ Top(q, s) = q[Len(q)].seq
            /\ q[Len(q)] \in ToSet(q) /\ s < Top(q, s)
  BY <1>2, <1>4, TopFacts
<1>6. /\ Joined(q, s)
      /\ \/ d = <<>> \/ d[Len(d)] = s
         \/ \A item \in ToSet(q) : item.seq <= s
  BY <1>1 DEF ReplyJoined
<1>7. CASE Top(q, s) = s
  <2>1. view'.shown = d /\ view'.lastSeq = s
    BY <1>3, <1>5, <1>7 DEF ToSet
  <2>2. EndsWith(d, s)
    <3>1. CASE reply.alive
      BY <1>2, <3>1 DEF IsSnapshot, EndsWith
    <3>2. CASE ~reply.alive
      <4>1. d # <<>> => d[Len(d)] = s - 1
        BY <1>2, <3>2 DEF IsSnapshot
      <4>2. d # <<>> => d[Len(d)] + 1 = s
        BY <1>2, <4>1
      <4>3. ~Alive(pty) /\ s = pty.seq /\ (d = <<>> => s = 0 \/ s = 1)
        BY <1>2, <3>2 DEF IsSnapshot
      <4>4. QED BY <4>2, <4>3 DEF EndsWith
    <3>3. QED BY <3>1, <3>2
  <2>3. QED BY <1>1, <2>1, <2>2 DEF EndsWith
<1>8. CASE /\ Len(q) \in DOMAIN q /\ Top(q, s) = q[Len(q)].seq
           /\ q[Len(q)] \in ToSet(q) /\ s < Top(q, s)
  <2>1. ~(q[Len(q)].seq <= s) /\ q[Len(q)].seq > s
    BY <1>2, <1>5, <1>8
  <2>2. d = <<>> \/ d[Len(d)] = s
    BY <1>6, <1>8, <2>1
  <2>3. InARow(d)
    BY <1>2 DEF IsSnapshot
  <2>4. view'.shown # <<>> /\ view'.shown[Len(view'.shown)] = view'.lastSeq
    BY <1>3, <1>6, <1>8, <2>1, <2>2, <2>3
  <2>5. IsOutput(q[Len(q)])
    BY <1>6, <1>8, <2>1 DEF Joined
  <2>6. view'.lastSeq <= Batches(pty)
    BY <1>3, <1>8, <2>5 DEF ViewFits, Seen, SeenView
  <2>7. QED BY <1>1, <2>4, <2>6 DEF EndsWith
<1>9. QED BY <1>5, <1>7, <1>8

LEMMA FilledKeepsJoin ==
    ASSUME InHand, Filled, ViewOrder, ReplyFits, ViewFits, Joining
    PROVE  Joining' /\ ReadInOrder'
<1>1. /\ reply' = NoReply /\ reply.for = "buffer"
      /\ UNCHANGED <<pty, sent, waiting, settled, stream, reported>>
  BY DEF Filled, device, client, history
<1>2. view'.mount = view.mount /\ view'.read = reply.ok
  BY Filling
<1>3. Current' = Current /\ Mine' = Mine
  BY <1>2 DEF Current, Mine
<1>4. ReplyJoined
  BY ReplyIsJoined DEF Joining
<1>5. Newest' /\ ReplyJoins'
  BY <1>1, <1>3 DEF Joining, Newest, ReplyJoins, NoReply
<1>6. OutcomeJoins'
  BY <1>1, <1>3 DEF OutcomeJoins, InHand, OneAtATime
<1>7. ViewJoins'
  <2> SUFFICES ASSUME ~reported, reply.ok
               PROVE  /\ waiting = {} /\ settled = <<>>
                      /\ stream.on => stream.cursor <= view'.lastSeq
                      /\ EndsWith(view.shown, view.lastSeq)'
    BY <1>1, <1>2 DEF ViewJoins
  <2>1. waiting = {} /\ settled = <<>> /\ Joins(reply.seq)
    BY <1>1 DEF Joining, ReplyJoins
  <2>2. view'.lastSeq = Top(view.queued, reply.seq)
    <3>1. Start(reply) = reply.seq
      BY DEF Start
    <3>2. QED BY <3>1, Filling
  <2>3. EndsWith(view.shown, view.lastSeq)'
    BY <1>4, FilledEnds
  <2>4. QED BY <2>1, <2>2, <2>3 DEF Joins
<1>8. ReadInOrder'
  BY <1>4, FilledReadsInOrder
<1>9. QED BY <1>5, <1>6, <1>7, <1>8 DEF Joining

LEMMA AloneKeepsJoin ==
    ASSUME ~up, Cut, Next, ViewOrder, ReplyFits, ReplyJoined, ReadInOrder
    PROVE  ReplyJoined' /\ ReadInOrder'
<1>1. CASE UNCHANGED <<view, reported>> /\ (reply' = reply \/ ~reply'.ok)
  BY <1>1 DEF ReplyJoined, ReadInOrder
<1>2. CASE Created
  <2> DEFINE possible == up /\ entry # "dropped"
  <2>1. Invoke("buffer", possible) /\ reported' = reported
    BY <1>2 DEF Created, history
  <2> HIDE DEF possible
  <2>2. ~reply'.ok
    BY <2>1, InvokeKeeps
  <2>3. view'.shown = view.shown /\ view'.read = view.read
    BY <1>2, CreatedParts
  <2>4. QED BY <2>1, <2>2, <2>3 DEF ReplyJoined, ReadInOrder
<1>3. CASE Filled
  <2>1. reply' = NoReply
    BY <1>3 DEF Filled
  <2>2. QED BY <1>3, <2>1, FilledReadsInOrder DEF ReplyJoined, NoReply
<1>4. CASE Remount
  <2>1. Invoke("refresh", up)
    BY <1>4 DEF Remount
  <2>2. ~reply'.ok
    BY <2>1, InvokeKeeps
  <2>3. ~view'.read
    BY <1>4, RemountParts
  <2>4. QED BY <2>2, <2>3 DEF ReplyJoined, ReadInOrder
<1>5. CASE Restart
  BY <1>5, RestartParts DEF ReplyJoined, ReadInOrder
<1>6. CASE Restarted
  <2>1. reported' = reported
    BY <1>6 DEF Restarted, history
  <2>2. QED BY <1>6, <2>1, RestartedParts DEF ReplyJoined, ReadInOrder
<1>7. QED BY <1>1, <1>2, <1>3, <1>4, <1>5, <1>6, AloneSteps

LEMMA JoinInit == Init => JoinInv
<1> SUFFICES ASSUME Init PROVE Joining /\ ReadInOrder
  BY DEF JoinInv, Init
<1>1. /\ up /\ settled = <<>> /\ reply = NoReply /\ view = Mounted(1) /\ sent = 1
      /\ waiting = {[id |-> 1, for |-> "create", mount |-> 1]}
  BY DEF Init
<1>2. ~view.read /\ ~reply.ok /\ ToSet(settled) = {}
  BY <1>1, EmptyFacts DEF Mounted, NoReply
<1>3. QED BY <1>1, <1>2
          DEF Joining, Newest, OutcomeJoins, ReplyJoins, ViewJoins, ReadInOrder

LEMMA JoinStep ==
    FollowInv /\ FollowInv' /\ ChannelInv /\ ViewInv /\ JoinInv /\ [Next]_vars => JoinInv'
<1> SUFFICES ASSUME FollowInv, FollowInv', ChannelInv, ViewInv, JoinInv, [Next]_vars
             PROVE  JoinInv'
  OBVIOUS
<1>1. ViewOrder /\ ReplyFits /\ ReadInOrder
  BY DEF ViewInv, JoinInv
<1>2. CASE up /\ Next
  <2>1. Device /\ Channel /\ ViewFits /\ Joining
    BY <1>2 DEF ChannelInv, ViewInv, JoinInv
  <2>2. CASE up' /\ InHand /\ InHand' /\ DeviceMoves
    BY <1>1, <2>1, <2>2, DeviceKeepsJoin DEF JoinInv
  <2>3. CASE /\ up' /\ InHand /\ InHand' /\ DesktopMoves
             /\ \/ Receive \/ RunOn \/ Timeout \/ Created \/ Filled
                \/ Remount \/ Restart \/ Restarted
    <3>1. CASE Receive
      BY <1>1, <2>1, <2>3, <3>1, AnswerKeepsJoin, EventKeepsJoin DEF JoinInv
    <3>2. CASE RunOn
      BY <1>1, <1>2, <2>1, <2>3, <3>2, RunOnKeepsJoin DEF JoinInv
    <3>3. CASE Timeout
      BY <1>1, <2>1, <2>3, <3>3, TimeoutKeepsJoin DEF JoinInv
    <3>4. CASE Created
      BY <1>1, <2>1, <2>3, <3>4, CreatedKeepsJoin DEF JoinInv
    <3>5. CASE Filled
      BY <1>1, <2>1, <2>3, <3>5, FilledKeepsJoin DEF JoinInv
    <3>6. CASE Remount
      BY <2>3, <3>6, RemountKeepsJoin DEF JoinInv
    <3>7. CASE Restart
      BY <1>1, <2>1, <2>3, <3>7, RestartKeepsJoin DEF JoinInv
    <3>8. CASE Restarted
      BY <1>1, <2>1, <2>3, <3>8, RestartedKeepsJoin DEF JoinInv
    <3>9. QED BY <2>3, <3>1, <3>2, <3>3, <3>4, <3>5, <3>6, <3>7, <3>8
  <2>4. CASE Lose /\ ~up'
    <3>1. view' = view /\ reply' = reply /\ reported' = reported
      BY <2>4 DEF Lose, history
    <3>2. ReplyJoined
      BY <1>1, <2>1, ReplyIsJoined DEF Joining
    <3>3. QED BY <1>1, <2>4, <3>1, <3>2 DEF JoinInv, ReplyJoined, ReadInOrder
  <2>5. QED BY <1>2, <2>1, <2>2, <2>3, <2>4, StepsWhileUp
<1>3. CASE ~up /\ Next
  <2>1. ~up' /\ Cut /\ ReplyJoined
    BY <1>3, EndedStaysEnded DEF ChannelInv, JoinInv
  <2>2. QED BY <1>1, <1>3, <2>1, AloneKeepsJoin DEF JoinInv
<1>4. CASE UNCHANGED vars
  BY <1>4 DEF vars, device, client, history, JoinInv, ReadInOrder, Joining, Newest, Current,
              OutcomeJoins, Mine, ReplyJoins, ViewJoins, Joins, EndsWith, ReplyJoined
<1>5. QED BY <1>2, <1>3, <1>4

\* As long as no gap has been reported, the snapshot, the events that waited for it and
\* those that came after it are one row without a hole.
THEOREM JoinInvariant == Spec => []JoinInv
BY JoinInit, JoinStep, StreamInvariant, ChannelInvariant, ViewInvariant, PTL DEF Spec

\* A tab shows its output in order and never twice; and without a hole, if it could read
\* the buffer and no gap was reported since it was mounted.
THEOREM OutputInOrder == Spec => []ShownInOrder
<1>1. ViewInv /\ JoinInv => ShownInOrder
  <2> SUFFICES ASSUME ViewInv, JoinInv PROVE ShownInOrder
    OBVIOUS
  <2> DEFINE s == view.shown
  <2>1. s \in Seq(Nat) /\ Sorted(s, Ascending)
    BY DEF ViewInv, ViewOrder, HasShape, IsAscending
  <2>2. DOMAIN s = 1 .. Len(s) /\ Len(s) \in Nat /\ \A i \in 1 .. Len(s) : s[i] \in Nat
    BY <2>1, LenProperties, ElementOfSeq
  <2> HIDE DEF s
  <2>3. \A i \in 1 .. (Len(s) - 1) :
            i \in DOMAIN s /\ i + 1 \in DOMAIN s /\ 1 \in DOMAIN s /\ i < i + 1 /\ i \in Nat
    BY <2>2
  <2>4. \A i \in 1 .. (Len(s) - 1) : s[i] < s[i + 1]
    BY <2>1, <2>3 DEF Sorted, Ascending
  <2>5. view.read /\ ~reported => \A i \in 1 .. (Len(s) - 1) : s[i + 1] = s[i] + 1
    <3> SUFFICES ASSUME view.read, ~reported, NEW i \in 1 .. (Len(s) - 1)
                 PROVE  s[i + 1] = s[i] + 1
      OBVIOUS
    <3>1. InARow(s)
      BY DEF JoinInv, ReadInOrder, s
    <3>2. s[i] + 1 = s[1] + i /\ s[i + 1] + 1 = s[1] + (i + 1)
      BY <2>3, <3>1 DEF InARow
    <3>3. s[i] \in Nat /\ s[i + 1] \in Nat /\ s[1] \in Nat /\ i \in Nat
      BY <2>2, <2>3
    <3>4. QED BY <3>2, <3>3
  <2>6. QED BY <2>4, <2>5, Zenon DEF ShownInOrder, Numbers, s
<1>2. QED BY <1>1, ViewInvariant, JoinInvariant, PTL

-----------------------------------------------------------------------------
(* Nothing is missing                                                       *)

\* Nothing has gone wrong since the view was mounted, and the entry is held.
Good == clean /\ ~reported /\ entry # "dropped"

CallsSucceed ==
    clean =>
        /\ \A call \in waiting \cap Current : \A frame \in ToSet(frames) :
               frame.kind = "answer" /\ frame.id = call.id => frame.ok
        /\ \A outcome \in ToSet(settled) \cap Mine : outcome.ok
        /\ entry # "dropped" /\ reply.for # "none" => reply.ok

\* The events are taken in, or there will be none.
Following ==
    \/ stream.on /\ ~stream.stale
    \/ ~Alive(pty) /\ \A frame \in ToSet(frames) : frame.kind = "answer"

Follows ==
    Good /\ (reply.for \in {"create", "refresh"} \/ view.phase # "creating") => Following

\* All the events after n are under way; or only the exit was missing.
Behind(n, session, way) ==
    \A m \in (n + 1) .. session.seq : \E frame \in ToSet(way) : IsEvent(frame, m)

Covered(n, session, way) ==
    Behind(n, session, way) \/ (~Alive(session) /\ n >= Batches(session))

AnswersCovered ==
    Good => \A call \in waiting \cap Current : \A frame \in ToSet(frames) :
                frame.kind = "answer" /\ frame.id = call.id => Behind(frame.seq, pty, frames)

OutcomesCovered ==
    Good => \A outcome \in ToSet(settled) \cap Mine :
                outcome.call.for = "buffer" =>
                    Covered(Top(view.queued, outcome.seq), pty, frames)

ReplyCovered ==
    Good /\ reply.for = "buffer" => Covered(Top(view.queued, reply.seq), pty, frames)

ViewCovered == Good /\ view.read => Covered(view.lastSeq, pty, frames)

ExitIsTaken ==
    Good /\ view.read =>
        \/ Alive(pty) \/ view.metExit \/ view.status # "connected"
        \/ \E frame \in ToSet(frames) : frame.kind = "exit"

Complete ==
    /\ CallsSucceed /\ Follows
    /\ AnswersCovered /\ OutcomesCovered /\ ReplyCovered /\ ViewCovered /\ ExitIsTaken

CompleteInv == up => Complete

-----------------------------------------------------------------------------
(* What is under way stays under way, or is the next to be taken             *)

LEMMA GrowingCovers ==
    ASSUME InHand, InHand', DeviceMoves, clean', sub.on \/ ~Alive(pty), NEW n \in Nat
    PROVE  /\ Behind(n, pty, frames) => Behind(n, pty', frames')
           /\ Covered(n, pty, frames) => Covered(n, pty', frames')
<1>1. /\ pty.seq \in Nat /\ pty'.seq \in Nat /\ Grows(pty, pty')
      /\ ToSet(frames) \subseteq ToSet(frames')
      /\ sub.on => \A m \in (pty.seq + 1) .. pty'.seq :
                       \E frame \in ToSet(frames') : IsEvent(frame, m)
  BY DEF InHand, Types, Ptys, DeviceMoves
<1>2. ASSUME Behind(n, pty, frames), NEW m \in (n + 1) .. pty'.seq
      PROVE  \E frame \in ToSet(frames') : IsEvent(frame, m)
  <2>1. m \in (n + 1) .. pty.seq \/ m \in (pty.seq + 1) .. pty'.seq
    BY <1>1
  <2>2. CASE m \in (n + 1) .. pty.seq
    BY <1>1, <1>2, <2>2 DEF Behind
  <2>3. CASE m \in (pty.seq + 1) .. pty'.seq
    <3>1. sub.on
      BY <1>1, <2>3 DEF Grows
    <3>2. QED BY <1>1, <2>3, <3>1
  <2>4. QED BY <2>1, <2>2, <2>3
<1>3. Behind(n, pty, frames) => Behind(n, pty', frames')
  BY <1>2 DEF Behind
<1>4. ~Alive(pty) => ~Alive(pty') /\ Batches(pty') = Batches(pty)
  BY <1>1 DEF Grows, Alive, Batches
<1>5. QED BY <1>3, <1>4 DEF Covered

LEMMA TakingAnswerCovers ==
    ASSUME Types, frames # <<>>, Head(frames).kind = "answer", frames' = Tail(frames),
           pty' = pty, NEW n
    PROVE  /\ Behind(n, pty, frames) => Behind(n, pty', frames')
           /\ Covered(n, pty, frames) => Covered(n, pty', frames')
           /\ \A frame \in ToSet(frames) :
                  frame.kind # "answer" => frame \in ToSet(frames')
<1>1. ToSet(frames) = {Head(frames)} \cup ToSet(frames')
  BY TailFacts DEF Types
<1>2. \A frame \in ToSet(frames) : frame.kind # "answer" => frame \in ToSet(frames')
  BY <1>1
<1>3. \A m : (\E frame \in ToSet(frames) : IsEvent(frame, m)) =>
                 (\E frame \in ToSet(frames') : IsEvent(frame, m))
  BY <1>2 DEF IsEvent
<1>4. Behind(n, pty, frames) => Behind(n, pty', frames')
  BY <1>3 DEF Behind
<1>5. QED BY <1>2, <1>4 DEF Covered

\* The event that is taken in is the first one of those that are missing.
LEMMA TakingEventCovers ==
    ASSUME Types, Device, Channel, frames # <<>>, Head(frames).kind # "answer",
           frames' = Tail(frames), pty' = pty
    PROVE  LET c == Head(frames).cursor
           IN  /\ c \in Nat /\ c <= pty.seq
               /\ \A n \in Nat : n < c /\ Covered(n, pty, frames) =>
                      IF Head(frames).kind = "data"
                      THEN Covered(c, pty', frames') ELSE Covered(n, pty', frames')
               /\ \A frame \in ToSet(frames') :
                      frame.kind = "answer" /\ Behind(frame.seq, pty, frames) =>
                          Behind(frame.seq, pty', frames')
               /\ Head(frames).kind # "data" =>
                      ~Alive(pty) /\ \A frame \in ToSet(frames') : frame.kind = "answer"
               /\ \A frame \in ToSet(frames) :
                      frame \in ToSet(frames') \/ frame.kind = Head(frames).kind
<1> DEFINE head == Head(frames)
           c == head.cursor
<1>1. /\ frames \in Seq(Frames) /\ head \in Frames /\ frames' \in Seq(Frames)
      /\ ToSet(frames) = {head} \cup ToSet(frames')
      /\ \A frame \in ToSet(frames') : <<head, frame>> \in FrameOrder
      /\ head.kind # "answer"
  BY TailFacts, SortedTail DEF Types, Channel
<1>2. FrameFits(head, pty) /\ \A frame \in ToSet(frames') : FrameFits(frame, pty)
  BY <1>1 DEF Channel
<1>3. \A frame \in ToSet(frames') : frame \in Frames
  BY <1>1, EmptyHasNone
<1> HIDE DEF head
<1>4. /\ head \in Events /\ c \in Nat /\ c <= pty.seq /\ head.previous \in Nat
      /\ c = head.previous + 1
      /\ head.kind = "exit" <=> c = pty.exitAt
  BY <1>1, <1>2, NumberIsTyped DEF Events, FrameFits, Number
<1>5. pty.seq \in Nat /\ pty.exitAt \in Nat /\ ExitIsLast(pty) /\ Batches(pty) \in Nat
  BY SessionsAreTyped DEF Types, Device, Ptys
<1>6. \A frame \in ToSet(frames') :
          /\ frame.kind = "answer" => frame.seq \in Nat /\ c <= frame.seq
          /\ frame.kind # "answer" =>
                 frame.cursor \in Nat /\ c < frame.cursor /\ frame.cursor <= pty.seq
  <2>1. ASSUME NEW frame \in ToSet(frames')
        PROVE  /\ frame.kind = "answer" => frame.seq \in Nat /\ c <= frame.seq
               /\ frame.kind # "answer" =>
                      frame.cursor \in Nat /\ c < frame.cursor /\ frame.cursor <= pty.seq
    <3>1. frame \in Frames /\ FrameFits(frame, pty) /\ <<head, frame>> \in FrameOrder
      BY <1>1, <1>2, <1>3
    <3>2. Number(head) = c
      BY <1>1 DEF Number
    <3>3. CASE frame.kind = "answer"
      BY <3>1, <3>2, <3>3, NumberIsTyped DEF FrameOrder, Answers
    <3>4. CASE frame.kind # "answer"
      BY <3>1, <3>2, <3>4, NumberIsTyped DEF FrameOrder, Events, FrameFits, Number
    <3>5. QED BY <3>3, <3>4
  <2>2. QED BY <2>1
\* Whatever is missing above c is behind it.
<1>7. ASSUME NEW n \in Nat, Behind(n, pty, frames), NEW m \in (n + 1) .. pty.seq, m # c
      PROVE  c < m /\ \E frame \in ToSet(frames') : IsEvent(frame, m)
  <2>1. PICK frame \in ToSet(frames) : IsEvent(frame, m)
    BY <1>7 DEF Behind
  <2>2. frame \in ToSet(frames')
    BY <1>1, <1>7, <2>1 DEF IsEvent
  <2>3. QED BY <1>6, <2>1, <2>2 DEF IsEvent
<1>8. ASSUME NEW n \in Nat, n < c, Covered(n, pty, frames), head.kind = "data"
      PROVE  Covered(c, pty', frames')
  <2>1. c <= Batches(pty)
    BY <1>4, <1>5, <1>8 DEF Batches, Alive, ExitIsLast
  <2>2. Behind(n, pty, frames)
    BY <1>4, <1>5, <1>8, <2>1 DEF Covered
  <2>3. ASSUME NEW m \in (c + 1) .. pty.seq
        PROVE  \E frame \in ToSet(frames') : IsEvent(frame, m)
    <3>1. m \in (n + 1) .. pty.seq /\ m # c
      BY <1>4, <1>5, <1>8
    <3>2. QED BY <1>7, <2>2, <3>1
  <2>4. Behind(c, pty', frames')
    BY <2>3 DEF Behind
  <2>5. QED BY <2>4 DEF Covered
<1>9. ASSUME head.kind # "data" PROVE ~Alive(pty) /\ c = pty.seq /\ Batches(pty) = c - 1
  <2>1. head.kind = "exit"
    BY <1>4, <1>9 DEF Events
  <2>2. c = pty.exitAt /\ c # 0
    BY <1>4, <2>1
  <2>3. QED BY <1>5, <2>2 DEF Alive, ExitIsLast, Batches
<1>10. ASSUME head.kind # "data", NEW frame \in ToSet(frames') PROVE frame.kind = "answer"
  BY <1>4, <1>5, <1>6, <1>9, <1>10
<1>11. ASSUME NEW n \in Nat, n < c, Covered(n, pty, frames), head.kind # "data"
       PROVE  Covered(n, pty', frames')
  <2>1. ~Alive(pty) /\ c = pty.seq /\ Batches(pty) = c - 1
    BY <1>9, <1>11
  <2>2. n >= Batches(pty)
    <3>1. ASSUME ~(n >= Batches(pty)) PROVE FALSE
      <4>1. Behind(n, pty, frames)
        BY <1>11, <3>1 DEF Covered
      <4>2. c - 1 \in (n + 1) .. pty.seq /\ c - 1 # c /\ ~(c < c - 1)
        BY <1>4, <1>5, <2>1, <3>1
      <4>3. QED BY <1>7, <4>1, <4>2
    <3>2. QED BY <3>1
  <2>3. QED BY <2>1, <2>2 DEF Covered
<1>12. ASSUME NEW frame \in ToSet(frames'), frame.kind = "answer", Behind(frame.seq, pty, frames)
       PROVE  Behind(frame.seq, pty', frames')
  <2>1. frame.seq \in Nat /\ c <= frame.seq
    BY <1>6, <1>12
  <2>2. \A m \in (frame.seq + 1) .. pty.seq : m # c
    BY <1>4, <1>5, <2>1
  <2>3. QED BY <1>7, <1>12, <2>1, <2>2 DEF Behind
<1>13. QED BY <1>1, <1>4, <1>8, <1>9, <1>10, <1>11, <1>12 DEF head

-----------------------------------------------------------------------------
(* Nothing is missing, step by step                                         *)

\* Outcomes, replies and frames are typed.
LEMMA NumbersAreTyped ==
    ASSUME Types, ViewOrder
    PROVE  /\ \A outcome \in ToSet(settled) : outcome \in Outcomes /\ outcome.seq \in Nat
           /\ reply.seq \in Nat /\ view.lastSeq \in Nat /\ pty.seq \in Nat
           /\ \A frame \in ToSet(frames) :
                  /\ frame.kind = "answer" => frame.seq \in Nat /\ frame.id \in Nat
                  /\ frame.kind # "answer" =>
                         frame.kind \in {"data", "exit"} /\ frame.cursor \in Nat
           /\ \A s \in Nat : Top(view.queued, s) \in Nat /\ s <= Top(view.queued, s)
<1>1. /\ settled \in Seq(Outcomes) /\ frames \in Seq(Frames) /\ reply \in Replies
      /\ view.lastSeq \in Nat /\ view.queued \in Seq(Items)
      /\ Sorted(view.queued, ItemOrder) /\ pty.seq \in Nat
  BY DEF Types, ViewOrder, HasShape, Ptys
<1>2. \A outcome \in ToSet(settled) : outcome \in Outcomes
  BY <1>1, EmptyHasNone
<1>3. \A outcome \in ToSet(settled) : outcome.seq \in Nat
  BY <1>2 DEF Outcomes
<1>4. \A frame \in ToSet(frames) : frame \in Frames
  BY <1>1, EmptyHasNone
<1>5. \A frame \in ToSet(frames) :
          /\ frame.kind = "answer" => frame.seq \in Nat /\ frame.id \in Nat
          /\ frame.kind # "answer" => frame.kind \in {"data", "exit"} /\ frame.cursor \in Nat
  BY <1>4, NumberIsTyped DEF Answers, Events
<1>6. \A s \in Nat : Top(view.queued, s) \in Nat /\ s <= Top(view.queued, s)
  BY <1>1, TopFacts
<1>7. QED BY <1>1, <1>2, <1>3, <1>5, <1>6 DEF Replies

\* The calls of the view fit its phase.
LEMMA PhaseOfCalls ==
    ASSUME InHand, ViewFits
    PROVE  /\ \A outcome \in ToSet(settled) \cap Mine :
                  outcome.call.for = "buffer" => view.phase = "filling"
           /\ reply.for = "buffer" => view.phase = "filling"
           /\ view.read => view.phase = "ready"
           /\ reply.for \in {"create", "refresh"} => view.phase = "creating" /\ ~view.read
<1>1. PhaseFits
  BY DEF InHand
<1>2. view.read => view.phase = "ready"
  BY DEF ViewFits, EmptyUntilReady
<1>3. QED BY <1>1, <1>2 DEF PhaseFits, Fits

LEMMA DeviceKeepsComplete ==
    ASSUME InHand, InHand', Device, Channel, Channel', DeviceMoves,
           ViewOrder, ViewFits, Complete
    PROVE  Complete'
<1>1. /\ UNCHANGED <<up, sent, waiting, settled, stream, entry, reply, view, reported>>
      /\ clean' => clean
      /\ ToSet(frames) \subseteq ToSet(frames')
      /\ Grows(pty, pty') /\ Device'
  BY DEF DeviceMoves
<1>2. Current' = Current /\ Mine' = Mine /\ (Good' => Good /\ clean')
  BY <1>1 DEF Current, Mine, Good
<1>3. \A frame \in ToSet(frames') :
          \/ frame \in ToSet(frames)
          \/ frame.kind # "answer" /\ frame.cursor > pty.seq /\ FrameFits(frame, pty')
          \/ /\ frame.kind = "answer" /\ frame.seq = pty'.seq
             /\ clean' => frame.ok
  BY DEF DeviceMoves
<1>4. Types /\ Types' /\ Publishes
  BY DEF InHand
<1>5. /\ CallsSucceed /\ Follows /\ AnswersCovered /\ OutcomesCovered
      /\ ReplyCovered /\ ViewCovered /\ ExitIsTaken
  BY DEF Complete
<1>6. /\ \A outcome \in ToSet(settled) : outcome.seq \in Nat
      /\ reply.seq \in Nat /\ view.lastSeq \in Nat /\ pty.seq \in Nat
      /\ \A frame \in ToSet(frames) : frame.kind = "answer" => frame.seq \in Nat
      /\ \A s \in Nat : Top(view.queued, s) \in Nat
  BY <1>4, NumbersAreTyped
<1>7. /\ pty'.seq \in Nat
      /\ \A frame \in ToSet(frames') : frame.kind # "answer" =>
             frame.kind \in {"data", "exit"} /\ frame.cursor \in Nat
  <2>1. pty'.seq \in Nat /\ frames' \in Seq(Frames)
    BY <1>4 DEF Types, Ptys
  <2>2. \A frame \in ToSet(frames') : frame \in Frames
    BY <2>1, EmptyHasNone
  <2>3. QED BY <2>1, <2>2, NumberIsTyped DEF Events
<1>8. CallsSucceed'
  <2>1. ASSUME clean', NEW call \in waiting \cap Current, NEW frame \in ToSet(frames'),
               frame.kind = "answer", frame.id = call.id
        PROVE  frame.ok
    BY <1>1, <1>3, <1>5, <2>1 DEF CallsSucceed
  <2>2. clean' => /\ \A outcome \in ToSet(settled) \cap Mine : outcome.ok
                  /\ entry # "dropped" /\ reply.for # "none" => reply.ok
    BY <1>1, <1>5 DEF CallsSucceed
  <2>3. QED BY <1>1, <1>2, <2>1, <2>2 DEF CallsSucceed
<1>9. Follows'
  <2>1. ASSUME ~Alive(pty), \A frame \in ToSet(frames) : frame.kind = "answer"
        PROVE  ~Alive(pty') /\ \A frame \in ToSet(frames') : frame.kind = "answer"
    <3>1. ~Alive(pty') /\ pty'.seq = pty.seq
      BY <1>1, <2>1 DEF Grows, Alive
    <3>2. ASSUME NEW frame \in ToSet(frames'), frame.kind # "answer" PROVE FALSE
      <4>1. frame.cursor > pty.seq /\ FrameFits(frame, pty') /\ frame.cursor \in Nat
        BY <1>3, <1>7, <2>1, <3>2
      <4>2. frame.cursor <= pty'.seq
        BY <3>2, <4>1 DEF FrameFits, Number
      <4>3. QED BY <1>6, <3>1, <4>1, <4>2
    <3>3. QED BY <3>1, <3>2
  <2>2. Following => Following'
    BY <1>1, <2>1 DEF Following
  <2>3. QED BY <1>1, <1>2, <1>5, <2>2 DEF Follows
<1>10. ASSUME Good', view.phase # "creating", NEW n \in Nat, Covered(n, pty, frames)
       PROVE  Covered(n, pty', frames')
  <2>1. Following
    BY <1>2, <1>5, <1>10 DEF Follows
  <2>2. sub.on \/ ~Alive(pty)
    BY <1>4, <2>1 DEF Following, Publishes
  <2>3. QED BY <1>2, <1>10, <2>2, GrowingCovers
<1>11. AnswersCovered'
  <2>1. ASSUME Good', NEW call \in waiting \cap Current, NEW frame \in ToSet(frames'),
               frame.kind = "answer", frame.id = call.id
        PROVE  Behind(frame.seq, pty', frames')
    <3>1. CASE frame \in ToSet(frames)
      <4>1. Behind(frame.seq, pty, frames)
        BY <1>2, <1>5, <2>1, <3>1 DEF AnswersCovered
      <4>2. sub.on
        BY <1>4, <3>1, EmptyFacts DEF Publishes
      <4>3. frame.seq \in Nat
        BY <1>6, <2>1, <3>1
      <4>4. QED BY <1>2, <2>1, <4>1, <4>2, <4>3, GrowingCovers
    <3>2. CASE frame.seq = pty'.seq
      <4>1. (pty'.seq + 1) .. pty'.seq = {}
        BY <1>7
      <4>2. QED BY <3>2, <4>1 DEF Behind
    <3>3. QED BY <1>3, <2>1, <3>1, <3>2
  <2>2. QED BY <1>1, <1>2, <2>1 DEF AnswersCovered
<1>12. OutcomesCovered'
  <2>1. ASSUME Good', NEW outcome \in ToSet(settled) \cap Mine, outcome.call.for = "buffer"
        PROVE  Covered(Top(view.queued, outcome.seq), pty', frames')
    <3>1. Covered(Top(view.queued, outcome.seq), pty, frames) /\ view.phase = "filling"
      BY <1>2, <1>5, <2>1, PhaseOfCalls DEF OutcomesCovered
    <3>2. Top(view.queued, outcome.seq) \in Nat
      BY <1>6, <2>1
    <3>3. QED BY <1>10, <2>1, <3>1, <3>2
  <2>2. QED BY <1>1, <1>2, <2>1 DEF OutcomesCovered
<1>13. ReplyCovered'
  <2>1. ASSUME Good', reply.for = "buffer"
        PROVE  Covered(Top(view.queued, reply.seq), pty', frames')
    <3>1. Covered(Top(view.queued, reply.seq), pty, frames) /\ view.phase = "filling"
      BY <1>2, <1>5, <2>1, PhaseOfCalls DEF ReplyCovered
    <3>2. Top(view.queued, reply.seq) \in Nat
      BY <1>6
    <3>3. QED BY <1>10, <2>1, <3>1, <3>2
  <2>2. QED BY <1>1, <1>2, <2>1 DEF ReplyCovered
<1>14. ViewCovered'
  <2>1. ASSUME Good', view.read PROVE Covered(view.lastSeq, pty', frames')
    <3>1. Covered(view.lastSeq, pty, frames) /\ view.phase = "ready"
      BY <1>2, <1>5, <2>1, PhaseOfCalls DEF ViewCovered
    <3>2. QED BY <1>6, <1>10, <2>1, <3>1
  <2>2. QED BY <1>1, <2>1 DEF ViewCovered
<1>15. ExitIsTaken'
  <2>1. ASSUME Good', view.read, ~Alive(pty'), ~view.metExit, view.status = "connected"
        PROVE  \E frame \in ToSet(frames') : frame.kind = "exit"
    <3>1. CASE ~Alive(pty)
      BY <1>1, <1>2, <1>5, <2>1, <3>1 DEF ExitIsTaken
    <3>2. CASE Alive(pty)
      <4>1. Following
        BY <1>2, <1>5, <2>1, PhaseOfCalls DEF Follows
      <4>2. sub.on
        BY <1>4, <3>2, <4>1 DEF Following, Publishes
      <4>3. pty'.exitAt = pty'.seq /\ pty.seq < pty'.seq
        BY <1>1, <2>1, <3>2 DEF Grows, Device, ExitIsLast
      <4>4. pty'.seq \in (pty.seq + 1) .. pty'.seq
        BY <1>6, <1>7, <4>3
      <4>5. PICK frame \in ToSet(frames') : IsEvent(frame, pty'.seq)
        BY <1>2, <2>1, <4>2, <4>4 DEF DeviceMoves
      <4>6. FrameFits(frame, pty')
        BY DEF Channel
      <4>7. frame.kind = "exit"
        BY <4>3, <4>5, <4>6 DEF FrameFits, IsEvent
      <4>8. QED BY <4>7
    <3>3. QED BY <3>1, <3>2
  <2>2. QED BY <1>1, <2>1 DEF ExitIsTaken
<1>16. QED BY <1>8, <1>9, <1>11, <1>12, <1>13, <1>14, <1>15 DEF Complete

LEMMA AnswerKeepsComplete ==
    ASSUME InHand, Device, Channel, Receive, Head(frames).kind = "answer",
           ViewOrder, ViewFits, Complete
    PROVE  Complete'
<1> DEFINE frame == Head(frames)
<1>1. /\ frames # <<>> /\ frames' = Tail(frames) /\ ReceiveAnswer(frame)
      /\ UNCHANGED <<pty, reply, clean>> /\ frame.kind = "answer"
  BY DEF Receive, device
<1>2. UNCHANGED <<stream, entry, view, reported>>
  BY <1>1 DEF ReceiveAnswer
<1>3. Types /\ settled \in Seq(Outcomes) /\ waiting \subseteq Calls
  BY DEF InHand, Types
<1>4. waiting' = {call \in waiting : call.id # frame.id}
  BY <1>1 DEF ReceiveAnswer
<1>5. \/ settled' = settled
      \/ \E call \in waiting : call.id = frame.id /\ settled' = Append(settled, Outcome(call, frame))
  BY <1>1, <1>4 DEF ReceiveAnswer
<1>6. /\ frame \in Answers /\ frame \in ToSet(frames)
      /\ \A n \in Nat : Passed(n, pty, frames) => n <= frame.seq
  <2>1. /\ frame \in Frames /\ frame \in ToSet(frames)
        /\ \A n \in Nat : Passed(n, pty, frames) =>
               IF frame.kind = "answer" THEN n <= frame.seq ELSE n < frame.cursor
    BY <1>1, <1>3, HeadIsPassed
  <2> HIDE DEF frame
  <2>2. QED BY <1>1, <2>1, NumberIsTyped
<1>7. ToSet(frames') \subseteq ToSet(frames)
  BY <1>1, <1>3, TailFacts DEF Types
<1>8. \A n : /\ Behind(n, pty, frames) => Behind(n, pty', frames')
             /\ Covered(n, pty, frames) => Covered(n, pty', frames')
  BY <1>1, <1>3, TakingAnswerCovers
<1>9. \A one \in ToSet(frames) : one.kind # "answer" => one \in ToSet(frames')
  BY <1>1, <1>3, TakingAnswerCovers
<1> HIDE DEF frame
<1>10. Current' = Current /\ Mine' = Mine /\ Good' = Good
  BY <1>1, <1>2 DEF Current, Mine, Good
<1>11. /\ CallsSucceed /\ Follows /\ AnswersCovered /\ OutcomesCovered
       /\ ReplyCovered /\ ViewCovered /\ ExitIsTaken
  BY DEF Complete
\* What has been settled is as good as its answer.
<1>12. ASSUME NEW outcome \in ToSet(settled') \cap Mine, outcome \notin ToSet(settled)
       PROVE  \E call \in waiting \cap Current :
                  /\ frame.id = call.id /\ outcome.call = call
                  /\ outcome.ok = frame.ok /\ outcome.seq = frame.seq
  <2>1. PICK call \in waiting :
            call.id = frame.id /\ settled' = Append(settled, Outcome(call, frame))
    BY <1>5, <1>12
  <2> DEFINE new == Outcome(call, frame)
  <2>2. new \in Outcomes /\ new.call = call /\ new.seq = frame.seq /\ new.ok = frame.ok
    BY <1>3, <1>6 DEF Outcome, Outcomes, Answers
  <2>3. settled' = Append(settled, new)
    BY <2>1
  <2> HIDE DEF new
  <2>4. outcome = new
    BY <1>3, <1>12, <2>2, <2>3, AppendFacts
  <2>5. call \in Current
    BY <1>12, <2>2, <2>4 DEF Mine
  <2>6. QED BY <2>1, <2>2, <2>4, <2>5
<1>13. CallsSucceed'
  <2>1. \A outcome \in ToSet(settled') \cap Mine : clean => outcome.ok
    BY <1>1, <1>6, <1>11, <1>12 DEF CallsSucceed
  <2>2. QED BY <1>1, <1>2, <1>4, <1>7, <1>10, <1>11, <2>1 DEF CallsSucceed
<1>14. Follows'
  <2>1. Following => Following'
    BY <1>1, <1>2, <1>7 DEF Following
  <2>2. QED BY <1>1, <1>2, <1>10, <1>11, <2>1 DEF Follows
<1>15. AnswersCovered'
  BY <1>4, <1>7, <1>8, <1>10, <1>11 DEF AnswersCovered
<1>16. OutcomesCovered'
  <2>1. ASSUME Good, NEW outcome \in ToSet(settled') \cap Mine, outcome.call.for = "buffer"
        PROVE  Covered(Top(view.queued, outcome.seq), pty', frames')
    <3>1. CASE outcome \in ToSet(settled)
      BY <1>8, <1>11, <2>1, <3>1 DEF OutcomesCovered
    <3>2. CASE outcome \notin ToSet(settled)
      <4>1. Behind(frame.seq, pty, frames) /\ outcome.seq = frame.seq
        BY <1>1, <1>6, <1>11, <1>12, <2>1, <3>2 DEF AnswersCovered
      <4>2. Top(view.queued, frame.seq) = frame.seq
        <5>1. view.queued \in Seq(Items) /\ Sorted(view.queued, ItemOrder) /\ frame.seq \in Nat
          BY <1>6 DEF ViewOrder, HasShape, Answers
        <5>2. \A item \in ToSet(view.queued) : item \in Items
          BY <5>1, EmptyHasNone
        <5>3. \A item \in ToSet(view.queued) : item.seq <= frame.seq
          BY <1>6, <5>2 DEF Items, ViewFits, Seen, SeenView
        <5>4. QED BY <5>1, <5>3, TopFacts
      <4>3. QED BY <1>8, <4>1, <4>2 DEF Covered
    <3>3. QED BY <3>1, <3>2
  <2>2. QED BY <1>2, <1>10, <2>1 DEF OutcomesCovered
<1>17. ReplyCovered' /\ ViewCovered'
  BY <1>1, <1>2, <1>8, <1>10, <1>11 DEF ReplyCovered, ViewCovered
<1>18. ExitIsTaken'
  BY <1>1, <1>2, <1>9, <1>10, <1>11 DEF ExitIsTaken
<1>19. QED BY <1>13, <1>14, <1>15, <1>16, <1>17, <1>18 DEF Complete

\* Whoever waits for output takes the next event in, or learns of a gap.
LEMMA EventIsTaken ==
    ASSUME Types, Device, Channel, Receive, Head(frames).kind # "answer", ViewFits,
           Follows, Good, ~reported', view.phase # "creating"
    PROVE  stream.on /\ Deliver(Head(frames))
<1> DEFINE frame == Head(frames)
<1>1. frames # <<>> /\ ReceiveEvent(frame) /\ frames' = Tail(frames) /\ pty' = pty
      /\ frame.kind # "answer"
  BY DEF Receive, device
<1>2. /\ frame \in ToSet(frames)
      /\ \A n \in Nat : Passed(n, pty, frames) =>
             IF frame.kind = "answer" THEN n <= frame.seq ELSE n < frame.cursor
  BY <1>1, HeadIsPassed
<1> HIDE DEF frame
<1>3. stream.on /\ ~stream.stale
  BY <1>1, <1>2 DEF Follows, Following
<1>4. ~Repeats(frame)
  <2>1. stream.cursor \in Nat
    BY DEF Types, Streams
  <2>2. stream.cursor < frame.cursor
    BY <1>1, <1>2, <1>3, <2>1 DEF ViewFits, Seen, SeenStream
  <2>3. QED BY <2>1, <2>2 DEF Repeats
<1>5. ~Resync
  BY DEF Resync
<1>6. QED BY <1>1, <1>3, <1>4, <1>5, Zenon DEF ReceiveEvent, frame

LEMMA EventKeepsComplete ==
    ASSUME InHand, Device, Channel, Receive, Head(frames).kind # "answer",
           ViewOrder, ViewFits, Complete
    PROVE  Complete'
<1> DEFINE frame == Head(frames)
           c == frame.cursor
           item == [seq |-> frame.cursor, data |-> <<frame.cursor>>]
<1>1. /\ frames # <<>> /\ frames' = Tail(frames) /\ ReceiveEvent(frame)
      /\ UNCHANGED <<pty, reply, clean>> /\ frame.kind # "answer"
  BY DEF Receive, device
<1>2. Types /\ HasShape(view)
  BY DEF InHand, ViewOrder
<1>3. /\ c \in Nat
      /\ \A n \in Nat : n < c /\ Covered(n, pty, frames) =>
             IF frame.kind = "data"
             THEN Covered(c, pty', frames') ELSE Covered(n, pty', frames')
      /\ \A one \in ToSet(frames') :
             one.kind = "answer" /\ Behind(one.seq, pty, frames) =>
                 Behind(one.seq, pty', frames')
      /\ frame.kind # "data" =>
             ~Alive(pty) /\ \A one \in ToSet(frames') : one.kind = "answer"
      /\ \A one \in ToSet(frames) : one \in ToSet(frames') \/ one.kind = frame.kind
  BY <1>1, <1>2, TakingEventCovers
<1>4. \A n \in Nat : Passed(n, pty, frames) => n < c
  BY <1>1, <1>2, HeadIsPassed
<1>5. ToSet(frames') \subseteq ToSet(frames)
  BY <1>1, <1>2, TailFacts DEF Types
<1>6. /\ CallsSucceed /\ Follows /\ AnswersCovered /\ OutcomesCovered
      /\ ReplyCovered /\ ViewCovered /\ ExitIsTaken
  BY DEF Complete
<1>7. Good /\ ~reported' /\ view.phase # "creating" => stream.on /\ Deliver(frame)
  BY <1>2, <1>6, EventIsTaken
<1> HIDE DEF frame
<1>8. item \in Items /\ IsOutput(item) /\ item.seq = c
  BY <1>3 DEF Items, IsOutput
<1>9. Deliver(frame) =>
          IF frame.kind = "data"
          THEN /\ view' = Written(view, item) /\ stream'.on = stream.on
               /\ stream'.stale = stream.stale
          ELSE view' = [view EXCEPT !.status = "exited"]
  BY <1>2, Zenon DEF Deliver, ToldExit, Types, Streams
<1> HIDE DEF item, c
<1>10. /\ view.lastSeq < c /\ view.lastSeq \in Nat
       /\ \A one \in ToSet(view.queued) : one.seq < c
  <2>1. view.lastSeq \in Nat /\ view.queued \in Seq(Items)
    BY <1>2 DEF HasShape
  <2>2. \A one \in ToSet(view.queued) : one \in Items
    BY <2>1, EmptyHasNone
  <2>3. \A one \in ToSet(view.queued) : one.seq \in Nat
    BY <2>2 DEF Items
  <2>4. QED BY <1>4, <2>1, <2>3 DEF ViewFits, Seen, SeenView
<1>11. /\ view.queued \in Seq(Items) /\ Sorted(view.queued, ItemOrder)
       /\ \A s \in Nat : Top(view.queued, s) \in Nat /\ (s < c => Top(view.queued, s) < c)
  <2>1. view.queued \in Seq(Items) /\ Sorted(view.queued, ItemOrder)
    BY DEF ViewOrder, HasShape
  <2>2. ASSUME NEW s \in Nat, s < c
        PROVE  Top(view.queued, s) < c
    <3>1. \/ Top(view.queued, s) = s
          \/ \E one \in ToSet(view.queued) : Top(view.queued, s) = one.seq
      BY <2>1, TopFacts
    <3>2. QED BY <1>10, <2>2, <3>1
  <2>3. QED BY <2>1, <2>2, TopFacts
\* What the view is after the event.
<1>12. ASSUME Deliver(frame), frame.kind = "data"
       PROVE  /\ SameRest(view, view')
              /\ view.phase # "ready" =>
                     \A s \in Nat : s < c => Top(view'.queued, s) = c
              /\ view.phase = "ready" => view'.lastSeq = c
  <2>1. view' = Written(view, item)
    BY <1>9, <1>12
  <2>2. /\ SameRest(view, view')
        /\ view.phase # "ready" => view'.queued = Append(view.queued, item)
        /\ view.phase = "ready" => view'.lastSeq = c
    BY <1>8, <1>10, <2>1, OutputIsWritten
  <2>3. \A s \in Nat : s < c => Top(Append(view.queued, item), s) = c
    BY <1>8, <1>10, <1>11, QueueGrows
  <2>4. QED BY <2>2, <2>3
<1>13. ASSUME Deliver(frame), frame.kind # "data"
       PROVE  /\ view'.mount = view.mount /\ view'.phase = view.phase
              /\ view'.read = view.read /\ view'.queued = view.queued
              /\ view'.lastSeq = view.lastSeq /\ view'.status = "exited"
  BY <1>2, <1>9, <1>13 DEF HasShape
<1>14. Ignored \/ Resync \/ (stream.on /\ ~stream.stale /\ Deliver(frame))
  BY <1>1, Zenon DEF ReceiveEvent
<1>15. view'.mount = view.mount /\ view'.phase = view.phase /\ view'.read = view.read
  BY <1>12, <1>13, <1>14 DEF Ignored, Resync, SameRest
<1>16. /\ settled' = settled /\ (reported => reported')
       /\ entry' # "dropped" => entry # "dropped"
       /\ Resync => reported'
       /\ ~Resync => waiting' = waiting
       /\ Resync => \A call \in waiting' : call \in waiting \/ call.for = "resync"
  <2>1. CASE Ignored
    BY <2>1 DEF Ignored, Resync
  <2>2. CASE Resync
    <3>1. waiting' = waiting \/ Ask(Call("resync"))
      BY <2>2 DEF Resync
    <3>2. Call("resync").for = "resync"
      BY DEF Call
    <3>3. QED BY <2>2, <3>1, <3>2 DEF Resync, Ask
  <2>3. CASE Deliver(frame)
    BY <2>3 DEF Deliver, Resync
  <2>4. QED BY <1>14, <2>1, <2>2, <2>3
<1>17. /\ Current' = Current /\ Mine' = Mine /\ waiting' \cap Current \subseteq waiting
       /\ Good' => Good /\ ~reported'
  BY <1>1, <1>15, <1>16 DEF Current, Mine, Good
<1>18. CallsSucceed'
  BY <1>1, <1>5, <1>6, <1>16, <1>17 DEF CallsSucceed
<1>19. Follows'
  <2>1. ASSUME Good', reply.for \in {"create", "refresh"} \/ view.phase # "creating"
        PROVE  Following'
    <3>1. Following /\ ~Resync
      BY <1>6, <1>16, <1>17, <2>1 DEF Follows
    <3>2. CASE Ignored
      BY <1>1, <1>5, <3>1, <3>2 DEF Ignored, Following
    <3>3. CASE stream.on /\ ~stream.stale /\ Deliver(frame)
      BY <1>1, <1>3, <1>9, <3>3 DEF Following
    <3>4. QED BY <1>14, <3>1, <3>2, <3>3
  <2>2. QED BY <1>1, <1>15, <2>1 DEF Follows
<1>20. AnswersCovered'
  BY <1>3, <1>5, <1>6, <1>17 DEF AnswersCovered
<1>21. ASSUME Good', view.phase = "filling", NEW s \in Nat, s < c,
              Covered(Top(view.queued, s), pty, frames)
       PROVE  Covered(Top(view'.queued, s), pty', frames')
  <2>1. Deliver(frame)
    BY <1>7, <1>17, <1>21
  <2>2. Top(view.queued, s) \in Nat /\ Top(view.queued, s) < c
    BY <1>11, <1>21
  <2>3. QED BY <1>3, <1>12, <1>13, <1>21, <2>1, <2>2
<1>22. OutcomesCovered'
  <2>1. ASSUME Good', NEW outcome \in ToSet(settled) \cap Mine, outcome.call.for = "buffer"
        PROVE  Covered(Top(view'.queued, outcome.seq), pty', frames')
    <3>1. Covered(Top(view.queued, outcome.seq), pty, frames) /\ view.phase = "filling"
      BY <1>6, <1>17, <2>1, PhaseOfCalls DEF OutcomesCovered
    <3>2. outcome.seq \in Nat
      BY <1>2, <2>1, NumbersAreTyped
    <3>3. outcome.seq < c
      BY <1>4, <2>1, <3>2 DEF ViewFits, Seen, SeenOutcomes
    <3>4. QED BY <1>21, <2>1, <3>1, <3>2, <3>3
  <2>2. QED BY <1>16, <1>17, <2>1 DEF OutcomesCovered
<1>23. ReplyCovered'
  <2>1. ASSUME Good', reply.for = "buffer"
        PROVE  Covered(Top(view'.queued, reply.seq), pty', frames')
    <3>1. Covered(Top(view.queued, reply.seq), pty, frames) /\ view.phase = "filling"
      BY <1>6, <1>17, <2>1, PhaseOfCalls DEF ReplyCovered
    <3>2. reply.seq \in Nat
      BY <1>2, NumbersAreTyped
    <3>3. reply.seq < c
      BY <1>4, <3>2 DEF ViewFits, Seen, SeenReply
    <3>4. QED BY <1>21, <2>1, <3>1, <3>2, <3>3
  <2>2. QED BY <1>1, <2>1 DEF ReplyCovered
<1>24. ViewCovered' /\ ExitIsTaken'
  <2>1. ASSUME Good', view.read
        PROVE  /\ Covered(view'.lastSeq, pty', frames')
               /\ \/ Alive(pty') \/ view'.metExit \/ view'.status # "connected"
                  \/ \E one \in ToSet(frames') : one.kind = "exit"
    <3>1. /\ Covered(view.lastSeq, pty, frames) /\ view.phase = "ready"
          /\ \/ Alive(pty) \/ view.metExit \/ view.status # "connected"
             \/ \E one \in ToSet(frames) : one.kind = "exit"
      BY <1>6, <1>17, <2>1, PhaseOfCalls DEF ViewCovered, ExitIsTaken
    <3>2. Deliver(frame)
      BY <1>7, <1>17, <2>1, <3>1
    <3>3. Covered(view'.lastSeq, pty', frames')
      BY <1>3, <1>10, <1>12, <1>13, <3>1, <3>2
    <3>4. CASE frame.kind = "data"
      <4>1. view'.metExit = view.metExit /\ view'.status = view.status
        BY <1>12, <3>2, <3>4 DEF SameRest
      <4>2. (\E one \in ToSet(frames) : one.kind = "exit") =>
                \E one \in ToSet(frames') : one.kind = "exit"
        BY <1>3, <3>4
      <4>3. QED BY <1>1, <3>1, <3>3, <4>1, <4>2
    <3>5. CASE frame.kind # "data"
      BY <1>13, <3>2, <3>3, <3>5
    <3>6. QED BY <3>4, <3>5
  <2>2. QED BY <1>15, <2>1 DEF ViewCovered, ExitIsTaken
<1>25. QED BY <1>18, <1>19, <1>20, <1>22, <1>23, <1>24 DEF Complete

LEMMA RunOnKeepsComplete ==
    ASSUME InHand, up, RunOn, Device, Channel, ViewOrder, ViewFits, Joining, Complete
    PROVE  Complete'
<1> DEFINE outcome == Head(settled)
           item == [seq |-> outcome.seq, data |-> outcome.data]
<1>1. /\ settled # <<>> /\ settled' = Tail(settled)
      /\ IF outcome.ok THEN Proceed(outcome) ELSE Fail(outcome.call)
      /\ reply' = ReplyTo(outcome.call, outcome.ok, outcome)
      /\ UNCHANGED <<pty, frames, waiting, reported, clean>>
  <2>1. /\ IF outcome.ok /\ up THEN Proceed(outcome) ELSE Fail(outcome.call)
        /\ reply' = ReplyTo(outcome.call, outcome.ok /\ up, outcome)
        /\ settled # <<>> /\ settled' = Tail(settled)
        /\ UNCHANGED <<pty, frames, waiting, reported, clean>>
    BY DEF RunOn, device, history
  <2>2. Head(settled) \in Outcomes
    BY <2>1, TailFacts DEF InHand, Types
  <2>3. (outcome.ok /\ up) = outcome.ok
    BY <2>2 DEF Outcomes
  <2>4. QED BY <2>1, <2>3
<1>2. Types /\ HasShape(view)
  BY DEF InHand, ViewOrder
<1>3. /\ settled \in Seq(Outcomes) /\ outcome \in Outcomes /\ outcome \in ToSet(settled)
      /\ ToSet(settled') \subseteq ToSet(settled)
      /\ \A x \in ToSet(settled') : <<outcome, x>> \in OutcomeOrder
  <2>1. settled \in Seq(Outcomes) /\ Sorted(settled, OutcomeOrder)
    BY <1>2 DEF Types, ViewFits, CreateFirst
  <2>2. QED BY <1>1, <2>1, TailFacts, SortedTail
<1>4. Proceed(outcome) =>
          /\ stream' = IF outcome.alive THEN Followed(outcome.seq) ELSE NoStream
          /\ entry' # "dropped" => entry # "dropped"
          /\ \/ view' = view
             \/ outcome.call.for = "create" /\ view' = Written(view, item)
  BY DEF Proceed
<1> HIDE DEF outcome
<1>5. item \in Items /\ item.seq = outcome.seq /\ item.data = outcome.data
  BY <1>3 DEF Outcomes, Items
<1> HIDE DEF item
<1>6. \/ view' = view
      \/ outcome.ok /\ outcome.call.for = "create" /\ view' = Written(view, item)
  BY <1>1, <1>4 DEF Fail
<1>7. /\ view'.mount = view.mount /\ view'.read = view.read /\ view'.phase = view.phase
  <2>1. \/ view' = view
        \/ SameRest(view, view')
    BY <1>2, <1>5, <1>6, WrittenParts
  <2>2. QED BY <2>1 DEF SameRest
<1>8. entry' # "dropped" => entry # "dropped"
  BY <1>1, <1>4 DEF Fail, GivenUp
<1>9. Current' = Current /\ Mine' = Mine /\ (Good' => Good)
  BY <1>1, <1>7, <1>8 DEF Current, Mine, Good
<1>10. /\ CallsSucceed /\ Follows /\ AnswersCovered /\ OutcomesCovered
       /\ ReplyCovered /\ ViewCovered /\ ExitIsTaken
  BY DEF Complete
<1>11. \/ reply' = reply /\ outcome \notin Mine
       \/ /\ outcome \in Mine /\ reply'.for = outcome.call.for /\ reply'.ok = outcome.ok
          /\ reply'.seq = outcome.seq
  <2>1. outcome \in Mine <=> outcome.call.for # "resync" /\ outcome.call.mount = view.mount
    BY <1>3 DEF Mine, Current, Outcomes
  <2>2. QED BY <1>1, <2>1 DEF ReplyTo
<1>12. CallsSucceed'
  BY <1>1, <1>3, <1>8, <1>9, <1>10, <1>11 DEF CallsSucceed
<1>13. Follows'
  <2>1. ASSUME Good', reply'.for \in {"create", "refresh"} \/ view.phase # "creating"
        PROVE  Following'
    <3>1. CASE outcome.ok /\ outcome.alive
      BY <1>1, <1>4, <3>1 DEF Following, Followed
    <3>2. CASE outcome.ok /\ ~outcome.alive
      <4>1. /\ ~Alive(pty) /\ outcome.seq = pty.seq
            /\ Passed(outcome.seq, pty, frames)
        BY <1>3, <3>2 DEF ViewFits, Seen, SeenOutcomes, IsSnapshot
      <4>2. ASSUME NEW frame \in ToSet(frames), frame.kind # "answer" PROVE FALSE
        <5>1. pty.seq < frame.cursor /\ frame.cursor <= pty.seq
          BY <4>1, <4>2 DEF Passed, Channel, FrameFits, Number
        <5>2. pty.seq \in Nat /\ frame.cursor \in Nat
          BY <1>2, <4>2, NumbersAreTyped
        <5>3. QED BY <5>1, <5>2
      <4>3. QED BY <1>1, <4>1, <4>2 DEF Following
    <3>3. CASE ~outcome.ok
      <4>1. outcome \notin Mine
        BY <1>3, <1>9, <1>10, <2>1, <3>3 DEF Good, CallsSucceed
      <4>2. Following
        BY <1>9, <1>10, <1>11, <2>1, <4>1 DEF Follows
      <4>3. stream' = stream
        BY <1>1, <2>1, <3>3 DEF Fail, GivenUp, Good
      <4>4. QED BY <1>1, <4>2, <4>3 DEF Following
    <3>4. outcome.ok \in BOOLEAN /\ outcome.alive \in BOOLEAN
      BY <1>3 DEF Outcomes
    <3>5. QED BY <3>1, <3>2, <3>3, <3>4
  <2>2. QED BY <1>7, <2>1 DEF Follows
<1>14. AnswersCovered'
  BY <1>1, <1>9, <1>10 DEF AnswersCovered
<1>15. OutcomesCovered'
  <2>1. ASSUME Good', NEW one \in ToSet(settled') \cap Mine, one.call.for = "buffer"
        PROVE  Covered(Top(view'.queued, one.seq), pty, frames)
    <3>1. Covered(Top(view.queued, one.seq), pty, frames) /\ one.ok
      BY <1>3, <1>9, <1>10, <2>1 DEF OutcomesCovered, CallsSucceed, Good
    <3>2. CASE view' = view
      BY <3>1, <3>2
    <3>3. CASE outcome.ok /\ outcome.call.for = "create" /\ view' = Written(view, item)
      <4>1. view.queued = <<>> /\ view.shown = <<>> /\ view.lastSeq = 0
        BY <1>3, <3>3 DEF ViewFits, CreateFirst, Blank
      <4>2. IsSnapshot(outcome, pty) /\ outcome.seq \in Nat /\ outcome.data \in Seq(Nat)
        BY <1>3, <3>3 DEF ViewFits, Seen, SeenOutcomes, Outcomes
      <4>3. IsAscending(item.data, item.seq)
        BY <1>5, <4>2, SnapshotIsAscending
      <4>4. ViewOrder' /\ ToSet(view'.queued) \subseteq {item}
        BY <1>5, <3>3, <4>1, <4>3, SnapshotIsWritten
      <4>5. view'.queued \in Seq(Items) /\ Sorted(view'.queued, ItemOrder)
        BY <4>4 DEF ViewOrder, HasShape
      <4>6. one.seq \in Nat /\ outcome.seq <= one.seq
        BY <1>3, <2>1, <3>1, <3>3 DEF OutcomeOrder, Outcomes
      <4>7. Top(view'.queued, one.seq) = one.seq
        BY <1>5, <4>4, <4>5, <4>6, TopFacts
      <4>8. Top(view.queued, one.seq) = one.seq
        BY <4>1 DEF Top
      <4>9. QED BY <3>1, <4>7, <4>8
    <3>4. QED BY <1>6, <3>2, <3>3
  <2>2. QED BY <1>1, <1>9, <2>1 DEF OutcomesCovered
<1>16. ReplyCovered'
  <2>1. ASSUME Good', reply'.for = "buffer"
        PROVE  Covered(Top(view'.queued, reply'.seq), pty, frames)
    <3>1. CASE reply' = reply
      <4>1. Covered(Top(view.queued, reply.seq), pty, frames) /\ reply.ok
        BY <1>9, <1>10, <2>1, <3>1 DEF ReplyCovered, CallsSucceed, Good
      <4>2. view' = view
        BY <1>3, <1>6, <4>1 DEF ViewFits, CreateFirst, Blank
      <4>3. QED BY <3>1, <4>1, <4>2
    <3>2. CASE /\ outcome \in Mine /\ reply'.for = outcome.call.for
               /\ reply'.seq = outcome.seq
      <4>1. Covered(Top(view.queued, outcome.seq), pty, frames)
        BY <1>3, <1>9, <1>10, <2>1, <3>2 DEF OutcomesCovered
      <4>2. view' = view
        BY <1>6, <2>1, <3>2
      <4>3. QED BY <3>2, <4>1, <4>2
    <3>3. QED BY <1>11, <3>1, <3>2
  <2>2. QED BY <1>1, <2>1 DEF ReplyCovered
<1>17. ViewCovered' /\ ExitIsTaken'
  <2>1. ~(~reported /\ view.read)
    BY <1>1 DEF Joining, ViewJoins
  <2>2. QED BY <1>7, <1>9, <2>1 DEF ViewCovered, ExitIsTaken, Good
<1>18. QED BY <1>12, <1>13, <1>14, <1>15, <1>16, <1>17 DEF Complete

LEMMA TimeoutKeepsComplete ==
    ASSUME Timeout PROVE Complete'
<1>1. ~clean'
  BY DEF Timeout
<1>2. QED BY <1>1 DEF Complete, CallsSucceed, Follows, AnswersCovered, OutcomesCovered,
                      ReplyCovered, ViewCovered, ExitIsTaken, Good

\* A call that is new has no answer under way.
LEMMA NewCallIsUnanswered ==
    ASSUME Types, Channel, NEW call, call.id = sent + 1, NEW frame \in ToSet(frames),
           frame.kind = "answer"
    PROVE  frame.id # call.id
<1>1. frame.id <= sent
  BY DEF Channel
<1>2. sent \in Nat /\ frames \in Seq(Frames)
  BY DEF Types
<1>3. frame \in Frames
  BY <1>2, EmptyHasNone
<1>4. frame.id \in Nat
  BY <1>3, NumberIsTyped DEF Answers
<1>5. QED BY <1>1, <1>2, <1>4

LEMMA CreatedKeepsComplete ==
    ASSUME InHand, up, Created, Channel, ViewOrder, ViewFits, Complete
    PROVE  Complete'
<1> DEFINE possible == up /\ entry # "dropped"
<1>1. /\ reply.for \in {"create", "refresh"} /\ Invoke("buffer", possible)
      /\ UNCHANGED <<pty, frames, entry, reported, clean>>
  BY DEF Created, device, history
<1>2. entry # "dropped" => reply' = NoReply
  BY <1>1 DEF Invoke
<1> HIDE DEF possible
<1>3. /\ UNCHANGED <<settled, stream>>
      /\ \A call \in waiting' : call \in waiting \/ call.id = sent + 1
  BY <1>1, InvokeKeeps
<1>4. view'.mount = view.mount /\ view'.read = view.read
  BY CreatedParts
<1>5. Current' = Current /\ Mine' = Mine /\ Good' = Good
  BY <1>1, <1>4 DEF Current, Mine, Good
<1>6. /\ waiting \cap Current = {} /\ ToSet(settled) \cap Mine = {} /\ ~view.read
  BY <1>1, PhaseOfCalls DEF InHand, OneAtATime
<1>7. \A call \in waiting' \cap Current : \A frame \in ToSet(frames) :
          ~(frame.kind = "answer" /\ frame.id = call.id)
  BY <1>3, <1>6, NewCallIsUnanswered DEF InHand
<1>8. CallsSucceed'
  BY <1>1, <1>2, <1>3, <1>5, <1>6, <1>7 DEF CallsSucceed, NoReply
<1>9. Follows'
  <2>1. Good => Following
    BY <1>1 DEF Complete, Follows
  <2>2. Following' = Following
    BY <1>1, <1>3 DEF Following
  <2>3. QED BY <1>5, <2>1, <2>2 DEF Follows
<1>10. AnswersCovered' /\ OutcomesCovered'
  BY <1>1, <1>3, <1>5, <1>6, <1>7 DEF AnswersCovered, OutcomesCovered
<1>11. ReplyCovered' /\ ViewCovered' /\ ExitIsTaken'
  BY <1>1, <1>2, <1>4, <1>6 DEF ReplyCovered, ViewCovered, ExitIsTaken, Good, NoReply
<1>12. QED BY <1>8, <1>9, <1>10, <1>11 DEF Complete

LEMMA RemountKeepsComplete ==
    ASSUME InHand, up, Remount, Channel
    PROVE  Complete'
<1>1. Invoke("refresh", up) /\ UNCHANGED <<pty, frames, entry>>
  BY DEF Remount, device
<1>2. reply' = NoReply
  BY <1>1 DEF Invoke
<1>3. /\ UNCHANGED <<settled, stream>>
      /\ \A call \in waiting' : call \in waiting \/ call.id = sent + 1
  BY <1>1, InvokeKeeps
<1>4. view'.mount = view.mount + 1 /\ ~view'.read /\ view'.phase = "creating"
  BY RemountParts
<1>5. /\ view.mount \in Nat /\ waiting \subseteq Calls
      /\ \A outcome \in ToSet(settled) : outcome \in Outcomes
  <2>1. view.mount \in Nat /\ waiting \subseteq Calls /\ settled \in Seq(Outcomes)
    BY DEF InHand, Types, IsView
  <2>2. QED BY <2>1, EmptyHasNone
<1>6. waiting \cap Current' = {}
  <2>1. \A call \in waiting : call.mount \in Nat /\ call.mount <= view.mount
    BY <1>5 DEF Calls, InHand, CallsAreKnown
  <2>2. \A call \in waiting : call.mount # view'.mount
    BY <1>4, <1>5, <2>1
  <2>3. QED BY <2>2 DEF Current
<1>7. ToSet(settled) \cap Mine' = {}
  <2>1. \A outcome \in ToSet(settled) :
            outcome.call.mount \in Nat /\ outcome.call.mount <= view.mount
    BY <1>5 DEF Outcomes, Calls, InHand, CallsAreKnown
  <2>2. \A outcome \in ToSet(settled) : outcome.call.mount # view'.mount
    BY <1>4, <1>5, <2>1
  <2>3. QED BY <2>2 DEF Mine, Current
<1>8. \A call \in waiting' \cap Current' : \A frame \in ToSet(frames) :
          ~(frame.kind = "answer" /\ frame.id = call.id)
  BY <1>3, <1>6, NewCallIsUnanswered DEF InHand
<1>9. CallsSucceed'
  BY <1>1, <1>2, <1>3, <1>7, <1>8 DEF CallsSucceed, NoReply
<1>10. Follows' /\ ReplyCovered' /\ ViewCovered' /\ ExitIsTaken'
  BY <1>2, <1>4 DEF Follows, ReplyCovered, ViewCovered, ExitIsTaken, NoReply
<1>11. AnswersCovered' /\ OutcomesCovered'
  BY <1>1, <1>3, <1>7, <1>8 DEF AnswersCovered, OutcomesCovered
<1>12. QED BY <1>9, <1>10, <1>11 DEF Complete

LEMMA FilledKeepsComplete ==
    ASSUME InHand, Filled, ViewOrder, ReplyFits, ViewFits, Complete
    PROVE  Complete'
<1>1. /\ reply' = NoReply /\ reply.for = "buffer"
      /\ UNCHANGED <<pty, frames, waiting, settled, stream, entry, reported, clean>>
  BY DEF Filled, device, client, history
<1>2. /\ view'.mount = view.mount /\ view'.read = reply.ok
      /\ view'.lastSeq = Top(view.queued, Start(reply)) /\ view'.metExit = ~Alive(pty)
  BY Filling
<1>3. Current' = Current /\ Mine' = Mine /\ Good' = Good
  BY <1>1, <1>2 DEF Current, Mine, Good
<1>4. ToSet(settled) \cap Mine = {} /\ view.phase = "filling"
  BY <1>1, PhaseOfCalls DEF InHand, OneAtATime
<1>5. CallsSucceed'
  BY <1>1, <1>3 DEF Complete, CallsSucceed, NoReply
<1>6. Follows'
  <2>1. Good => Following
    BY <1>4 DEF Complete, Follows
  <2>2. Following' = Following
    BY <1>1 DEF Following
  <2>3. QED BY <1>3, <2>1, <2>2 DEF Follows
<1>7. AnswersCovered' /\ OutcomesCovered' /\ ReplyCovered'
  BY <1>1, <1>3, <1>4
     DEF Complete, AnswersCovered, OutcomesCovered, ReplyCovered, NoReply
<1>8. ViewCovered'
  <2>1. ASSUME Good, reply.ok PROVE Covered(Top(view.queued, Start(reply)), pty, frames)
    BY <1>1, <2>1 DEF Complete, ReplyCovered, Start
  <2>2. QED BY <1>1, <1>2, <1>3, <2>1 DEF ViewCovered
<1>9. ExitIsTaken'
  BY <1>1, <1>2 DEF ExitIsTaken
<1>10. QED BY <1>5, <1>6, <1>7, <1>8, <1>9 DEF Complete

LEMMA RestartKeepsComplete ==
    ASSUME Restart PROVE Complete'
<1>1. ~clean'
  BY DEF Restart
<1>2. QED BY <1>1 DEF Complete, CallsSucceed, Follows, AnswersCovered, OutcomesCovered,
                      ReplyCovered, ViewCovered, ExitIsTaken, Good

LEMMA RestartedKeepsComplete ==
    ASSUME InHand, Restarted, ViewOrder, Complete
    PROVE  Complete'
<1>1. /\ reply.for = "restart"
      /\ UNCHANGED <<pty, frames, waiting, settled, stream, entry, reported, clean>>
  BY DEF Restarted, device, client, history
<1>2. /\ view'.mount = view.mount /\ view'.read = view.read /\ view'.phase = view.phase
      /\ view'.lastSeq = view.lastSeq /\ view'.queued = view.queued
      /\ view'.metExit = ~Alive(pty) /\ reply'.for = "none"
  BY RestartedParts
<1>3. Current' = Current /\ Mine' = Mine /\ Good' = Good
  BY <1>1, <1>2 DEF Current, Mine, Good
<1>4. view.phase = "ready"
  BY <1>1 DEF InHand, PhaseFits, Fits
<1>5. CallsSucceed'
  BY <1>1, <1>2, <1>3 DEF Complete, CallsSucceed
<1>6. Follows'
  <2>1. Good => Following
    BY <1>4 DEF Complete, Follows
  <2>2. Following' = Following
    BY <1>1 DEF Following
  <2>3. QED BY <1>3, <2>1, <2>2 DEF Follows
<1>7. AnswersCovered' /\ OutcomesCovered' /\ ReplyCovered' /\ ViewCovered'
  BY <1>1, <1>2, <1>3
     DEF Complete, AnswersCovered, OutcomesCovered, ReplyCovered, ViewCovered
<1>8. ExitIsTaken'
  BY <1>1, <1>2 DEF ExitIsTaken
<1>9. QED BY <1>5, <1>6, <1>7, <1>8 DEF Complete

LEMMA CompleteInit == Init => CompleteInv
<1> SUFFICES ASSUME Init PROVE Complete
  BY DEF CompleteInv
<1>1. /\ frames = <<>> /\ settled = <<>> /\ reply = NoReply /\ view = Mounted(1)
  BY DEF Init
<1>2. ToSet(frames) = {} /\ ToSet(settled) = {} /\ reply.for = "none"
      /\ view.phase = "creating" /\ ~view.read
  BY <1>1, EmptyFacts DEF NoReply, Mounted
<1>3. QED BY <1>2 DEF Complete, CallsSucceed, Follows, AnswersCovered, OutcomesCovered,
                      ReplyCovered, ViewCovered, ExitIsTaken

LEMMA CompleteStep ==
    /\ FollowInv /\ FollowInv' /\ ChannelInv /\ ChannelInv' /\ ViewInv /\ JoinInv
    /\ CompleteInv /\ [Next]_vars
    => CompleteInv'
<1> SUFFICES ASSUME FollowInv, FollowInv', ChannelInv, ChannelInv', ViewInv, JoinInv,
                    CompleteInv, [Next]_vars
             PROVE  CompleteInv'
  OBVIOUS
<1>1. ViewOrder /\ ReplyFits
  BY DEF ViewInv
<1>2. CASE up /\ Next
  <2>1. Device /\ Channel /\ ViewFits /\ Joining /\ Complete
    BY <1>2 DEF ChannelInv, ViewInv, JoinInv, CompleteInv
  <2>2. CASE up' /\ InHand /\ InHand' /\ DeviceMoves
    <3>1. Channel'
      BY <2>2 DEF ChannelInv
    <3>2. QED BY <1>1, <2>1, <2>2, <3>1, DeviceKeepsComplete DEF CompleteInv
  <2>3. CASE /\ up' /\ InHand /\ InHand' /\ DesktopMoves
             /\ \/ Receive \/ RunOn \/ Timeout \/ Created \/ Filled
                \/ Remount \/ Restart \/ Restarted
    <3>1. CASE Receive
      BY <1>1, <2>1, <2>3, <3>1, AnswerKeepsComplete, EventKeepsComplete DEF CompleteInv
    <3>2. CASE RunOn
      BY <1>1, <1>2, <2>1, <2>3, <3>2, RunOnKeepsComplete DEF CompleteInv
    <3>3. CASE Timeout
      BY <3>3, TimeoutKeepsComplete DEF CompleteInv
    <3>4. CASE Created
      BY <1>1, <1>2, <2>1, <2>3, <3>4, CreatedKeepsComplete DEF CompleteInv
    <3>5. CASE Filled
      BY <1>1, <2>1, <2>3, <3>5, FilledKeepsComplete DEF CompleteInv
    <3>6. CASE Remount
      BY <1>2, <2>1, <2>3, <3>6, RemountKeepsComplete DEF CompleteInv
    <3>7. CASE Restart
      BY <1>1, <1>2, <2>1, <2>3, <3>7, RestartKeepsComplete DEF CompleteInv
    <3>8. CASE Restarted
      BY <1>1, <2>1, <2>3, <3>8, RestartedKeepsComplete DEF CompleteInv
    <3>9. QED BY <2>3, <3>1, <3>2, <3>3, <3>4, <3>5, <3>6, <3>7, <3>8
  <2>4. CASE ~up'
    BY <2>4 DEF CompleteInv
  <2>5. QED BY <1>2, <2>1, <2>2, <2>3, <2>4, StepsWhileUp
<1>3. CASE ~up /\ Next
  <2>1. ~up'
    BY <1>3, EndedStaysEnded
  <2>2. QED BY <2>1 DEF CompleteInv
<1>4. CASE UNCHANGED vars
  BY <1>4 DEF vars, device, client, history, CompleteInv, Complete, CallsSucceed, Current,
              Mine, Follows, Following, AnswersCovered, OutcomesCovered, ReplyCovered,
              ViewCovered, ExitIsTaken, Good
<1>5. QED BY <1>2, <1>3, <1>4

\* As long as nothing has gone wrong, what a view has not got is under way to it.
THEOREM CompleteInvariant == Spec => []CompleteInv
BY CompleteInit, CompleteStep, StreamInvariant, ChannelInvariant, ViewInvariant,
   JoinInvariant, PTL DEF Spec

\* A tab that has read the buffer, and for which nothing has gone wrong, shows the last
\* output once nothing is under way, and knows that the shell has exited.
THEOREM OutputIsShown == Spec => []ShowsAll
<1>1. FollowInv /\ ChannelInv /\ ViewInv /\ JoinInv /\ CompleteInv => ShowsAll
  <2> SUFFICES ASSUME FollowInv, ChannelInv, ViewInv, JoinInv, CompleteInv,
                      Quiet, up, view.read, clean, ~reported, entry # "dropped"
               PROVE  /\ Batches(pty) > 0 => view.shown # <<>> /\ Last(view.shown) = Batches(pty)
                      /\ ~view.metExit /\ view.status = "connected" => Alive(pty)
    BY DEF ShowsAll
  <2>1. /\ Types /\ Device /\ ViewOrder /\ Joining /\ Complete
    BY DEF FollowInv, InHand, ChannelInv, ViewInv, JoinInv, CompleteInv
  <2>2. ToSet(frames) = {}
    BY EmptyFacts DEF Quiet
  <2>3. /\ pty.seq \in Nat /\ view.lastSeq \in Nat /\ ExitIsLast(pty)
        /\ Batches(pty) \in Nat /\ Batches(pty) <= pty.seq /\ pty.exitAt \in Nat
        /\ view.shown \in Seq(Nat)
    <3>1. pty \in Ptys /\ view.lastSeq \in Nat /\ ExitIsLast(pty) /\ view.shown \in Seq(Nat)
      BY <2>1 DEF Types, ViewOrder, HasShape, Device
    <3>2. pty.seq \in Nat /\ pty.exitAt \in Nat /\ Batches(pty) \in Nat
      BY <3>1, SessionsAreTyped DEF Ptys
    <3>3. QED BY <3>1, <3>2 DEF Batches, Alive, ExitIsLast
  <2>4. view.lastSeq >= Batches(pty)
    <3>1. Covered(view.lastSeq, pty, frames)
      BY <2>1 DEF Complete, ViewCovered, Good
    <3>2. CASE Behind(view.lastSeq, pty, frames)
      <4>1. pty.seq \notin (view.lastSeq + 1) .. pty.seq
        BY <2>2, <3>2 DEF Behind
      <4>2. QED BY <2>3, <4>1
    <3>3. QED BY <3>1, <3>2 DEF Covered
  <2>5. EndsWith(view.shown, view.lastSeq)
    BY <2>1 DEF Joining, ViewJoins
  <2>6. ASSUME Batches(pty) > 0
        PROVE  view.shown # <<>> /\ view.shown[Len(view.shown)] = Batches(pty)
    <3>1. CASE view.shown # <<>> /\ view.shown[Len(view.shown)] = view.lastSeq
               /\ view.lastSeq <= Batches(pty)
      BY <2>3, <2>4, <3>1
    <3>2. CASE /\ ~Alive(pty) /\ view.lastSeq = pty.seq
               /\ view.shown # <<>> => view.shown[Len(view.shown)] + 1 = view.lastSeq
               /\ view.shown = <<>> => view.lastSeq = 1
      <4>1. Batches(pty) = view.lastSeq - 1
        BY <2>3, <3>2 DEF Batches, ExitIsLast
      <4>2. view.shown # <<>>
        BY <2>3, <2>6, <3>2, <4>1
      <4>3. view.shown[Len(view.shown)] \in Nat
        BY <2>3, <4>2, EmptySeq, LenProperties, ElementOfSeq
      <4>4. QED BY <2>3, <3>2, <4>1, <4>2, <4>3
    <3>3. CASE view.lastSeq = 0
      BY <2>3, <2>4, <2>6, <3>3
    <3>4. QED BY <2>5, <3>1, <3>2, <3>3 DEF EndsWith
  <2>7. ~view.metExit /\ view.status = "connected" => Alive(pty)
    BY <2>1, <2>2 DEF Complete, ExitIsTaken, Good
  <2>8. QED BY <2>6, <2>7 DEF Last
<1>2. QED BY <1>1, StreamInvariant, ChannelInvariant, ViewInvariant, JoinInvariant,
             CompleteInvariant, PTL

\* The tab is in step with the device: the subscription and the snapshot taken in one
\* block, the events queued for the snapshot and the number that is shown last lose and
\* repeat nothing.
THEOREM TabIsInStep == Spec => []InStep
BY OutputInOrder, OutputIsShown, PTL DEF InStep
=============================================================================
