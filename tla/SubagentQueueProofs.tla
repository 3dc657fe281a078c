------------------------- MODULE SubagentQueueProofs --------------------------
(***************************************************************************)
(* What holds of the subagent queue for any number of runs and dispatches,  *)
(* any limits and however they are changed: its bookkeeping, whom it keeps  *)
(* waiting, how far an abort reaches, and that a round never admits more    *)
(* children than the limits allow nor lets one pass an older sibling.       *)
(***************************************************************************)
EXTENDS SubagentQueue, FiniteSetTheorems, WellFoundedInduction, TLAPS

\* What spawnSubagentFor has checked of the run a dispatch belongs to.
WellParented(s) ==
    /\ parent[s] \in Runs /\ parent[s] # s
    /\ status[parent[s]] # "idle"
    /\ parent[s] \in Subs => parent[parent[s]] \in Mains

\* The waiters stand in one line.
QueueOrdered ==
    \A w \in Waiting :
        /\ w \notin queue[w]
        /\ \A v \in Waiting \ {w} : v \in queue[w] \/ w \in queue[v]
        /\ \A v \in queue[w] : queue[v] \subseteq queue[w]

Dispatched == {s \in Subs : outcome[s] # "none"}

\* The inductive invariant of the bookkeeping.
QueueInv ==
    /\ TypeOK
    /\ QueueOrdered
    /\ IsFiniteSet(Dispatched)
    /\ \A r \in Mains : status[r] # "idle"
    /\ \A s \in Subs : status[s] # "idle" <=> outcome[s] = "started"
    /\ \A s \in Dispatched : WellParented(s)

-----------------------------------------------------------------------------
(* Leaving the queue                                                        *)

\* The ones who stay keep their order (remove, a splice of the array).
LEMMA RemovalKeepsOrder ==
    ASSUME TypeOK, QueueOrdered, NEW gone, queue' = Without(gone)
    PROVE  /\ Waiting' = Waiting \ gone
           /\ queue' \in [Waiting' -> SUBSET Waiting']
           /\ QueueOrdered'
<1>1. Waiting' = Waiting \ gone
  BY DEF Waiting, Without
<1>2. \A w \in Waiting' : queue'[w] = queue[w] \ gone /\ queue[w] \subseteq Waiting
  BY <1>1 DEF Without, TypeOK
<1>3. queue' \in [Waiting' -> SUBSET Waiting']
  BY <1>1, <1>2 DEF Without
<1>4. QueueOrdered'
  BY <1>1, <1>2 DEF QueueOrdered
<1>5. QED BY <1>1, <1>3, <1>4

\* Cancelling the waiters of the runs in R leaves them answered and the others
\* as they were (finishWith).
LEMMA CancelEffect ==
    ASSUME QueueInv, NEW R, CancelWaiters(R)
    PROVE  /\ Waiting' = {w \in Waiting : parent[w] \notin R}
           /\ Waiting' = {s \in Subs : outcome'[s] = "queued"}
           /\ queue' \in [Waiting' -> SUBSET Waiting']
           /\ QueueOrdered'
           /\ \A s \in Subs : \/ outcome'[s] = outcome[s]
                              \/ outcome[s] = "queued" /\ outcome'[s] = "cancelled"
           /\ outcome' \in [Subs -> {"none", "queued", "started", "failed"} \cup Refusals]
<1> DEFINE gone == {w \in Waiting : parent[w] \in R}
<1>1. /\ queue' = Without(gone)
      /\ outcome' = [s \in Subs |-> IF s \in gone THEN "cancelled" ELSE outcome[s]]
  BY DEF CancelWaiters
<1>2. /\ Waiting = {s \in Subs : outcome[s] = "queued"}
      /\ outcome \in [Subs -> {"none", "queued", "started", "failed"} \cup Refusals]
  BY DEF QueueInv, TypeOK
<1>3. /\ Waiting' = Waiting \ gone /\ queue' \in [Waiting' -> SUBSET Waiting']
      /\ QueueOrdered'
  BY <1>1, RemovalKeepsOrder DEF QueueInv
<1>4. /\ \A s \in Subs : \/ outcome'[s] = outcome[s]
                         \/ outcome[s] = "queued" /\ outcome'[s] = "cancelled"
      /\ outcome' \in [Subs -> {"none", "queued", "started", "failed"} \cup Refusals]
  BY <1>1, <1>2 DEF Refusals
<1>5. Waiting \ gone = {s \in Subs : outcome'[s] = "queued"}
  BY <1>1, <1>2
<1>6. QED BY <1>3, <1>4, <1>5

\* An end or an abort of the runs in R, or of some of them, keeps the bookkeeping.
LEMMA CancelKeepsInv ==
    ASSUME QueueInv, NEW R, CancelWaiters(R),
           status' \in [Runs -> {"idle", "running", "ended"}],
           \A r \in Runs : /\ status'[r] = "idle" <=> status[r] = "idle"
                           /\ status[r] = "ended" => status'[r] = "ended",
           aborted' \subseteq Runs,
           UNCHANGED <<parent, background, settled, capacity, ready, reaped>>
    PROVE  QueueInv'
<1>1. TypeOK'
  BY CancelEffect DEF QueueInv, TypeOK
<1>2. Dispatched' = Dispatched
  BY CancelEffect DEF Dispatched
<1>3. \A s \in Subs : status'[s] # "idle" <=> outcome'[s] = "started"
  BY CancelEffect DEF QueueInv, Runs
<1>4. \A s \in Dispatched : WellParented(s)'
  BY DEF QueueInv, WellParented
<1>5. \A r \in Mains : status'[r] # "idle"
  BY DEF QueueInv, Runs
<1>6. QED BY <1>1, <1>2, <1>3, <1>4, <1>5, CancelEffect DEF QueueInv

-----------------------------------------------------------------------------
(* A dispatch round                                                         *)

Verdicts == {"started", "failed", "deadlock", "queued"}

\* What a round has done when it is over, given the fate of every waiter.
RoundEnds(fate) ==
    /\ \A w \in Waiting : fate[w] = Judged(fate, w)
    /\ \A s \in Subs : outcome'[s] = IF s \in Waiting THEN fate[s] ELSE outcome[s]
    /\ \A r \in Runs : status'[r] =
           IF r \in Waiting /\ fate[r] = "started" THEN "running" ELSE status[r]
    /\ Waiting' = {w \in Waiting : fate[w] = "queued"}

LEMMA RoundHasFate ==
    ASSUME QueueInv, PumpEffect
    PROVE  \E fate \in [Waiting -> Verdicts] :
               RoundEnds(fate) /\ queue' = Without({w \in Waiting : fate[w] # "queued"})
<1>1. Waiting \subseteq Subs
  BY DEF QueueInv, TypeOK
<1>2. PICK fate \in [Waiting -> Verdicts] :
          /\ \A w \in Waiting : fate[w] = Judged(fate, w)
          /\ outcome' = [s \in Subs |-> IF s \in Waiting THEN fate[s] ELSE outcome[s]]
          /\ queue' = Without({w \in Waiting : fate[w] # "queued"})
          /\ status' = [r \in Runs |->
                 IF r \in Waiting /\ outcome'[r] = "started" THEN "running" ELSE status[r]]
  BY DEF PumpEffect, Verdicts
<1>3. Waiting' = {w \in Waiting : fate[w] = "queued"}
  BY <1>2 DEF Waiting, Without
<1>4. QED BY <1>1, <1>2, <1>3 DEF RoundEnds

\* A round keeps the bookkeeping.
LEMMA RoundKeepsInv ==
    ASSUME QueueInv, PumpEffect, settled' \subseteq Subs,
           UNCHANGED <<aborted, parent, background, capacity, ready, reaped>>
    PROVE  QueueInv'
<1>1. PICK fate \in [Waiting -> Verdicts] :
          RoundEnds(fate) /\ queue' = Without({w \in Waiting : fate[w] # "queued"})
  BY RoundHasFate
<1>2. /\ Waiting = {s \in Subs : outcome[s] = "queued"}
      /\ outcome \in [Subs -> {"none", "queued", "started", "failed"} \cup Refusals]
      /\ status \in [Runs -> {"idle", "running", "ended"}]
      /\ \A w \in Waiting : status[w] = "idle"
  BY DEF QueueInv, TypeOK
<1>3. outcome' \in [Subs -> {"none", "queued", "started", "failed"} \cup Refusals]
  <2>1. outcome' = [s \in Subs |-> outcome'[s]]
    BY DEF PumpEffect
  <2>2. \A s \in Subs : outcome'[s] \in {"none", "queued", "started", "failed"} \cup Refusals
    BY <1>1, <1>2 DEF RoundEnds, Verdicts, Refusals
  <2>3. QED BY <2>1, <2>2
<1>4. status' \in [Runs -> {"idle", "running", "ended"}]
  <2>1. status' = [r \in Runs |-> status'[r]]
    BY DEF PumpEffect
  <2>2. \A r \in Runs : status'[r] \in {"idle", "running", "ended"}
    BY <1>1, <1>2 DEF RoundEnds
  <2>3. QED BY <2>1, <2>2
<1>5. queue' \in [Waiting' -> SUBSET Waiting'] /\ QueueOrdered'
  BY <1>1, RemovalKeepsOrder DEF QueueInv
<1>6. Waiting' = {s \in Subs : outcome'[s] = "queued"}
  BY <1>1, <1>2 DEF RoundEnds
<1>7. reaped' \subseteq {r \in Runs : status'[r] = "ended"}
  BY <1>1, <1>2 DEF QueueInv, TypeOK, RoundEnds
<1>8. TypeOK'
  BY <1>3, <1>4, <1>5, <1>6, <1>7 DEF QueueInv, TypeOK
<1>9. Dispatched' = Dispatched
  BY <1>1, <1>2 DEF Dispatched, RoundEnds, Verdicts
<1>10. \A s \in Subs : status'[s] # "idle" <=> outcome'[s] = "started"
  BY <1>1, <1>2 DEF QueueInv, RoundEnds, Runs, Verdicts
<1>11. \A r \in Runs : status[r] # "idle" => status'[r] # "idle"
  BY <1>1 DEF RoundEnds
<1>12. \A s \in Dispatched : WellParented(s)'
  BY <1>11 DEF QueueInv, WellParented
<1>13. QED BY <1>5, <1>8, <1>9, <1>10, <1>11, <1>12 DEF QueueInv, Runs

-----------------------------------------------------------------------------
(* Asking for a slot                                                        *)

\* acquire() lets nobody wait or start whose parent is not alive, and starts on
\* the spot only on the fast path.
LEMMA AnswerMeans ==
    ASSUME NEW p, NEW bg \in BOOLEAN
    PROVE  /\ AcquireAnswer(p, bg) \in
                  {"cancelled", "disabled", "started", "deadlock", "overflow", "queued"}
           /\ AcquireAnswer(p, bg) \in {"started", "queued"} => Alive(p)
           /\ AcquireAnswer(p, bg) = "started" => FastPath(p)
BY DEF AcquireAnswer

\* A parent is at most one level below the top, for MAX_DEPTH is 2.
LEMMA ParentIsShallow ==
    ASSUME NEW p \in Runs, Depth(p) < MaxDepth, p \in Subs
    PROVE  parent[p] \in Mains
<1>1. p \notin Mains /\ MaxDepth \in 0 .. 2
  BY QueueAssumption DEF Runs
<1>2. CASE parent[p] \notin Mains
  <2>1. Depth(p) = 2
    BY <1>1, <1>2 DEF Depth
  <2>2. QED BY <1>1, <2>1
<1>3. QED BY <1>2

\* What a dispatch changes: its own entries only.
LEMMA AcquireEffect ==
    ASSUME QueueInv, NEW s \in Subs, NEW p \in Runs, NEW bg \in BOOLEAN, Acquire(s, p, bg)
    PROVE  /\ s \notin Waiting /\ status[s] = "idle" /\ outcome[s] = "none"
           /\ parent'[s] = p /\ \A x \in Subs \ {s} : parent'[x] = parent[x]
           /\ outcome'[s] = AcquireAnswer(p, bg)
           /\ \A x \in Subs \ {s} : outcome'[x] = outcome[x]
           /\ \A r \in Runs : status'[r] =
                  IF r = s /\ AcquireAnswer(p, bg) = "started" THEN "running" ELSE status[r]
           /\ Waiting' = IF AcquireAnswer(p, bg) = "queued" THEN Waiting \cup {s} ELSE Waiting
<1>1. /\ Waiting = {x \in Subs : outcome[x] = "queued"}
      /\ outcome \in [Subs -> {"none", "queued", "started", "failed"} \cup Refusals]
      /\ status \in [Runs -> {"idle", "running", "ended"}]
      /\ parent \in [Subs -> Runs \cup {NoRun}]
  BY DEF QueueInv, TypeOK
<1>2. outcome[s] = "none" /\ s \notin Waiting /\ status[s] = "idle"
  BY <1>1 DEF Acquire, Spawns, QueueInv, Runs
<1>3. Waiting' = IF AcquireAnswer(p, bg) = "queued" THEN Waiting \cup {s} ELSE Waiting
  BY DEF Acquire, Waiting
<1>4. \A r \in Runs : status'[r] =
          IF r = s /\ AcquireAnswer(p, bg) = "started" THEN "running" ELSE status[r]
  BY <1>1 DEF Acquire
<1>5. /\ parent'[s] = p /\ \A x \in Subs \ {s} : parent'[x] = parent[x]
      /\ outcome'[s] = AcquireAnswer(p, bg)
      /\ \A x \in Subs \ {s} : outcome'[x] = outcome[x]
  BY <1>1 DEF Acquire, Spawns
<1>6. QED BY <1>2, <1>3, <1>4, <1>5

\* A dispatch keeps the bookkeeping: a waiter is appended behind all others.
LEMMA AcquireKeepsInv ==
    ASSUME QueueInv, NEW s \in Subs, NEW p \in Runs, NEW bg \in BOOLEAN, Acquire(s, p, bg)
    PROVE  QueueInv'
<1> DEFINE answer == AcquireAnswer(p, bg)
<1>1. /\ Waiting = {x \in Subs : outcome[x] = "queued"}
      /\ queue \in [Waiting -> SUBSET Waiting]
      /\ outcome \in [Subs -> {"none", "queued", "started", "failed"} \cup Refusals]
      /\ status \in [Runs -> {"idle", "running", "ended"}]
      /\ parent \in [Subs -> Runs \cup {NoRun}]
  BY DEF QueueInv, TypeOK
<1>2. answer \in {"cancelled", "disabled", "started", "deadlock", "overflow", "queued"}
  BY AnswerMeans
<1>3. /\ outcome' = [outcome EXCEPT ![s] = answer]
      /\ parent' = [parent EXCEPT ![s] = p]
      /\ status' = IF answer = "started" THEN [status EXCEPT ![s] = "running"] ELSE status
      /\ queue' = IF answer = "queued"
                  THEN [w \in Waiting \cup {s} |-> IF w = s THEN Waiting ELSE queue[w]]
                  ELSE queue
      /\ background' \subseteq background \cup {s}
      /\ UNCHANGED <<aborted, settled, capacity, ready, reaped>>
  BY DEF Acquire, Spawns
<1>4. /\ s \notin Waiting /\ status[s] = "idle" /\ outcome[s] = "none"
      /\ \A r \in Runs : status'[r] = IF r = s /\ answer = "started" THEN "running" ELSE status[r]
      /\ Waiting' = IF answer = "queued" THEN Waiting \cup {s} ELSE Waiting
  BY AcquireEffect
<1> HIDE DEF answer
<1>5. queue' \in [Waiting' -> SUBSET Waiting']
  BY <1>1, <1>3, <1>4
<1>6. Waiting' = {x \in Subs : outcome'[x] = "queued"}
  BY <1>1, <1>3, <1>4
<1>7. TypeOK'
  <2>1. /\ outcome' \in [Subs -> {"none", "queued", "started", "failed"} \cup Refusals]
        /\ parent' \in [Subs -> Runs \cup {NoRun}]
        /\ status' \in [Runs -> {"idle", "running", "ended"}]
    BY <1>1, <1>2, <1>3 DEF Refusals
  <2>2. reaped' \subseteq {r \in Runs : status'[r] = "ended"}
    BY <1>3, <1>4 DEF QueueInv, TypeOK
  <2>3. QED BY <1>3, <1>5, <1>6, <2>1, <2>2 DEF QueueInv, TypeOK
<1>8. QueueOrdered'
  <2>1. CASE answer = "queued"
    <3>1. /\ Waiting' = Waiting \cup {s} /\ queue'[s] = Waiting
          /\ \A w \in Waiting : queue'[w] = queue[w] /\ queue[w] \subseteq Waiting
      BY <1>1, <1>3, <1>4, <2>1
    <3>2. QED BY <1>4, <3>1 DEF QueueInv, QueueOrdered
  <2>2. CASE answer # "queued"
    BY <1>3, <1>4, <2>2 DEF QueueInv, QueueOrdered
  <2>3. QED BY <2>1, <2>2
<1>9. Dispatched' = Dispatched \cup {s} /\ IsFiniteSet(Dispatched')
  <2>1. Dispatched' = Dispatched \cup {s}
    BY <1>1, <1>2, <1>3 DEF Dispatched
  <2>2. QED BY <2>1, FS_AddElement DEF QueueInv
<1>10. \A x \in Subs : status'[x] # "idle" <=> outcome'[x] = "started"
  BY <1>1, <1>2, <1>3, <1>4 DEF QueueInv, Runs
<1>11. \A r \in Mains : status'[r] # "idle"
  BY <1>4 DEF QueueInv, Runs
<1>12. \A x \in Dispatched' : WellParented(x)'
  <2>1. \A r \in Runs : status[r] # "idle" => status'[r] # "idle" /\ r # s
    BY <1>4
  <2>2. ASSUME NEW x \in Dispatched, x # s PROVE WellParented(x)'
    <3>1. parent'[x] = parent[x] /\ WellParented(x) /\ parent[x] # s
      BY <1>3, <1>1, <2>1, <2>2 DEF Dispatched, QueueInv, WellParented
    <3>2. parent[x] \in Subs => parent'[parent[x]] = parent[parent[x]]
      BY <1>1, <1>3, <3>1
    <3>3. QED BY <2>1, <3>1, <3>2 DEF WellParented
  <2>3. WellParented(s)'
    <3>1. /\ parent'[s] = p /\ s # p /\ status[p] # "idle"
          /\ Depth(p) < MaxDepth
      BY <1>1, <1>3 DEF Acquire, Spawns
    <3>2. p \in Subs => parent'[p] = parent[p] /\ parent[p] \in Mains
      BY <1>1, <1>3, <3>1, ParentIsShallow
    <3>3. QED BY <2>1, <3>1, <3>2 DEF WellParented
  <2>4. QED BY <1>9, <2>2, <2>3
<1>13. QED BY <1>7, <1>8, <1>9, <1>10, <1>11, <1>12 DEF QueueInv

-----------------------------------------------------------------------------
(* The bookkeeping and the waiters                                          *)

\* A round, whoever asked for it.
LEMMA RoundSteps ==
    ASSUME QueueInv, Tick \/ \E s \in Subs : Settle(s)
    PROVE  /\ PumpEffect /\ settled' \subseteq Subs
           /\ UNCHANGED <<aborted, parent, background, capacity, ready, reaped>>
BY DEF QueueInv, TypeOK, Tick, Settle

\* A run that ends, or an abort with its cascade: which runs lose their waiters.
LEMMA EndingSteps ==
    ASSUME QueueInv, NEW r \in Runs, Finish(r) \/ Abort(r)
    PROVE  \E R \in SUBSET Runs :
               /\ CancelWaiters(R)
               /\ \A x \in R : status[x] = "running"
               /\ status' \in [Runs -> {"idle", "running", "ended"}]
               /\ \A x \in Runs : status'[x] = status[x] \/ (x \in R /\ status'[x] = "ended")
               /\ aborted \subseteq aborted' /\ aborted' \subseteq aborted \cup R
               /\ UNCHANGED <<parent, background, settled, capacity, ready, reaped>>
<1>1. CASE Finish(r)
  <2>1. {r} \in SUBSET Runs /\ CancelWaiters({r}) /\ status' = [status EXCEPT ![r] = "ended"]
    BY <1>1 DEF Finish
  <2>2. QED BY <1>1, <2>1 DEF Finish, QueueInv, TypeOK
<1>2. CASE Abort(r)
  <2> DEFINE hit == {x \in {r} \cup Descendants(r) : status[x] = "running"}
  <2>1. hit \in SUBSET Runs
    BY DEF Descendants, Runs
  <2>2. /\ aborted' = aborted \cup hit /\ CancelWaiters(hit)
        /\ UNCHANGED <<status, parent, background, settled, capacity, ready, reaped>>
    BY <1>2 DEF Abort
  <2>3. \A x \in hit : status[x] = "running"
    OBVIOUS
  <2> HIDE DEF hit
  <2>4. QED BY <2>1, <2>2, <2>3 DEF QueueInv, TypeOK
<1>3. QED BY <1>1, <1>2

\* Every step keeps the bookkeeping.
LEMMA StepKeepsInv ==
    ASSUME QueueInv, [Next]_vars
    PROVE  QueueInv'
<1>1. ASSUME NEW s \in Subs, NEW p \in Runs, NEW bg \in BOOLEAN, Acquire(s, p, bg)
      PROVE  QueueInv'
  BY <1>1, AcquireKeepsInv
<1>2. CASE Tick \/ \E s \in Subs : Settle(s)
  BY <1>2, RoundSteps, RoundKeepsInv
<1>3. ASSUME NEW r \in Runs, Finish(r) \/ Abort(r)
      PROVE  QueueInv'
  <2>1. PICK R \in SUBSET Runs :
            /\ CancelWaiters(R)
            /\ \A x \in R : status[x] = "running"
            /\ status' \in [Runs -> {"idle", "running", "ended"}]
            /\ \A x \in Runs : status'[x] = status[x] \/ (x \in R /\ status'[x] = "ended")
            /\ aborted \subseteq aborted' /\ aborted' \subseteq aborted \cup R
            /\ UNCHANGED <<parent, background, settled, capacity, ready, reaped>>
    BY <1>3, EndingSteps
  <2>2. /\ \A x \in Runs : /\ status'[x] = "idle" <=> status[x] = "idle"
                           /\ status[x] = "ended" => status'[x] = "ended"
        /\ aborted' \subseteq Runs
    BY <2>1 DEF QueueInv, TypeOK
  <2>3. QED BY <2>1, <2>2, CancelKeepsInv
<1>4. ASSUME UNCHANGED <<status, parent, outcome, queue>>, aborted' \subseteq Runs,
             background' \subseteq Subs, settled' \subseteq Subs, capacity' \in Capacities,
             ready' \in BOOLEAN, reaped' \subseteq {r \in Runs : status[r] = "ended"}
      PROVE  QueueInv'
  BY <1>4 DEF QueueInv, TypeOK, Waiting, QueueOrdered, Dispatched, WellParented
<1>5. CASE \E r \in Runs : Reap(r)
  BY <1>4, <1>5 DEF Reap, QueueInv, TypeOK
<1>6. CASE \/ \E s \in Subs : Detach(s)
           \/ \E c \in Capacities : Configure(c)
           \/ LoseEnvironment
           \/ UNCHANGED vars
  BY <1>4, <1>6 DEF Detach, Configure, LoseEnvironment, vars, QueueInv, TypeOK
<1>7. QED BY <1>1, <1>2, <1>3, <1>5, <1>6 DEF Next

\* The bookkeeping of the queue is in order in every reachable state.
THEOREM QueueInvariant == Spec => []QueueInv
<1>1. Init => QueueInv
  <2> SUFFICES ASSUME Init PROVE QueueInv
    OBVIOUS
  <2>1. Waiting = {} /\ Dispatched = {}
    BY DEF Init, Waiting, Dispatched
  <2>2. TypeOK
    BY <2>1, QueueAssumption DEF Init, TypeOK, Waiting
  <2>3. \A s \in Subs : s \notin Mains
    BY QueueAssumption
  <2>4. QED
    BY <2>1, <2>2, <2>3, FS_EmptySet DEF Init, QueueInv, QueueOrdered, Runs
<1>2. QueueInv /\ [Next]_vars => QueueInv'
  BY StepKeepsInv
<1>3. QED BY <1>1, <1>2, PTL DEF Spec

\* The state keeps its shape, and the dispatches that are unanswered are exactly
\* those in the queue: none leaves it with its promise open (subagent-queue.ts,
\* finishWith and pump).
THEOREM QueueTypesHold == Spec => []TypeOK
<1>1. QueueInv => TypeOK
  BY DEF QueueInv
<1>2. QED BY <1>1, QueueInvariant, PTL

\* No step leaves a waiter behind whose parent has gone.
LEMMA StepKeepsParents ==
    ASSUME QueueInv, WaitersHaveLiveParent, [Next]_vars
    PROVE  WaitersHaveLiveParent'
<1>1. \A w \in Waiting : /\ parent[w] \in Runs /\ w \in Subs
                         /\ status[parent[w]] = "running" /\ parent[w] \notin aborted
  BY DEF WaitersHaveLiveParent, Alive, QueueInv, TypeOK, Dispatched, WellParented
<1>2. ASSUME Waiting' \subseteq Waiting,
             \A w \in Waiting' : /\ parent'[w] = parent[w]
                                 /\ status'[parent[w]] = "running"
                                 /\ parent[w] \notin aborted'
      PROVE  WaitersHaveLiveParent'
  BY <1>2 DEF WaitersHaveLiveParent, Alive
<1>3. ASSUME NEW s \in Subs, NEW p \in Runs, NEW bg \in BOOLEAN, Acquire(s, p, bg)
      PROVE  WaitersHaveLiveParent'
  <2>1. /\ s \notin Waiting /\ status[s] = "idle"
        /\ parent'[s] = p /\ \A x \in Subs \ {s} : parent'[x] = parent[x]
        /\ \A r \in Runs : status'[r] =
               IF r = s /\ AcquireAnswer(p, bg) = "started" THEN "running" ELSE status[r]
        /\ Waiting' = IF AcquireAnswer(p, bg) = "queued" THEN Waiting \cup {s} ELSE Waiting
    BY <1>3, AcquireEffect
  <2>2. AcquireAnswer(p, bg) = "queued" => status[p] = "running" /\ p \notin aborted
    BY AnswerMeans DEF Alive
  <2>3. aborted' = aborted
    BY <1>3 DEF Acquire, Spawns
  <2>4. QED BY <1>1, <2>1, <2>2, <2>3 DEF WaitersHaveLiveParent, Alive
<1>4. CASE Tick \/ \E s \in Subs : Settle(s)
  <2>1. PumpEffect /\ UNCHANGED <<aborted, parent>>
    BY <1>4, RoundSteps
  <2>2. PICK fate \in [Waiting -> Verdicts] : RoundEnds(fate)
    BY <2>1, RoundHasFate
  <2>3. QED BY <1>1, <1>2, <2>1, <2>2 DEF RoundEnds
<1>5. ASSUME NEW r \in Runs, Finish(r) \/ Abort(r)
      PROVE  WaitersHaveLiveParent'
  <2>1. PICK R \in SUBSET Runs :
            /\ CancelWaiters(R)
            /\ \A x \in Runs : status'[x] = status[x] \/ x \in R
            /\ aborted' \subseteq aborted \cup R
            /\ UNCHANGED parent
    BY <1>5, EndingSteps
  <2>2. Waiting' = {w \in Waiting : parent[w] \notin R}
    BY <2>1, CancelEffect
  <2>3. QED BY <1>1, <1>2, <2>1, <2>2
<1>6. CASE UNCHANGED <<status, parent, queue, aborted>>
  BY <1>6 DEF WaitersHaveLiveParent, Alive, Waiting
<1>7. QED
  BY <1>3, <1>4, <1>5, <1>6
     DEF Next, Reap, Detach, Configure, LoseEnvironment, vars

\* Nobody waits for a run that ended or was aborted (subagent-queue.ts, the check
\* in acquire and both listeners of enqueue).
THEOREM NoWaiterIsOrphaned == Spec => []WaitersHaveLiveParent
<1>1. Init => WaitersHaveLiveParent
  BY DEF Init, WaitersHaveLiveParent, Waiting
<1>2. QueueInv /\ WaitersHaveLiveParent /\ [Next]_vars => WaitersHaveLiveParent'
  BY StepKeepsParents
<1>3. QED BY <1>1, <1>2, QueueInvariant, PTL DEF Spec

-----------------------------------------------------------------------------
(* Aborts                                                                   *)

\* The inductive form of AbortReachesChildren: above a running subagent nothing
\* has left the registry, and nothing was aborted without it.
UpwardInv ==
    \A s \in RunningSubs : \A r \in Ancestors(s) :
        r \notin reaped /\ (r \in aborted => s \in aborted)

\* The types of what is above a dispatched subagent.
LEMMA AboveDispatched ==
    ASSUME QueueInv, NEW s \in Subs, outcome[s] # "none"
    PROVE  /\ WellParented(s)
           /\ parent[s] \in Ancestors(s)
           /\ parent[s] \in Subs => /\ parent[parent[s]] \in Ancestors(s)
                                    /\ outcome[parent[s]] = "started"
           /\ \A r \in Ancestors(s) : r = parent[s] \/ (parent[s] \in Subs /\ r = parent[parent[s]])
<1>1. WellParented(s)
  BY DEF QueueInv, Dispatched
<1>2. parent[s] \in Subs => outcome[parent[s]] = "started"
  BY <1>1 DEF WellParented, QueueInv
<1>3. QED BY <1>1, <1>2 DEF Ancestors, WellParented, Runs

\* What runs is found from every run above it, as long as none of them has left
\* the registry (childrenOf and its recursion in abort).
LEMMA FoundFromAbove ==
    ASSUME QueueInv, NEW s \in RunningSubs, \A r \in Ancestors(s) : r \notin reaped
    PROVE  \A r \in Ancestors(s) : s \in Descendants(r)
<1>1. s \in Subs /\ outcome[s] = "started" /\ s \notin reaped
  BY DEF RunningSubs, QueueInv, TypeOK
<1>2. parent[s] \in Subs => outcome[parent[s]] = "started" /\ parent[s] \notin reaped
  BY <1>1, AboveDispatched
<1>3. \A r \in Ancestors(s) : r = parent[s] \/ (parent[s] \in Subs /\ r = parent[parent[s]])
  BY <1>1, AboveDispatched
<1>4. QED BY <1>1, <1>2, <1>3 DEF Descendants, ChildrenOf

\* A live run is a safe parent: neither it nor anything above it was aborted or
\* has left the registry.
LEMMA LiveParentIsClean ==
    ASSUME QueueInv, UpwardInv, NEW p \in Runs, Alive(p)
    PROVE  /\ p \notin reaped \cup aborted
           /\ p \in Subs => parent[p] \notin reaped \cup aborted
<1>1. p \notin reaped \cup aborted
  BY DEF Alive, QueueInv, TypeOK
<1>2. ASSUME p \in Subs PROVE parent[p] \notin reaped \cup aborted
  <2>1. p \in RunningSubs /\ outcome[p] = "started"
    BY <1>2 DEF Alive, RunningSubs, QueueInv
  <2>2. parent[p] \in Ancestors(p)
    BY <1>2, <2>1, AboveDispatched
  <2>3. QED BY <1>1, <2>1, <2>2 DEF UpwardInv
<1>3. QED BY <1>1, <1>2

\* The run that is aborted is above whatever its cascade is above: the cascade
\* reaches two levels down, and there are no more.
LEMMA CascadeIsWhole ==
    ASSUME QueueInv, NEW r \in Runs, NEW s \in Subs, outcome[s] # "none",
           NEW a \in Descendants(r), a \in Ancestors(s)
    PROVE  r \in Ancestors(s)
<1>1. a \in Subs /\ a \notin Mains
  BY QueueAssumption DEF Descendants
<1>2. /\ WellParented(s)
      /\ a = parent[s] \/ (parent[s] \in Subs /\ a = parent[parent[s]])
  BY AboveDispatched
<1>3. a = parent[s] /\ parent[a] \in Mains
  BY <1>1, <1>2 DEF WellParented
<1>4. parent[a] = r
  BY <1>1, <1>3, QueueAssumption DEF Descendants, ChildrenOf
<1>5. QED BY <1>1, <1>3, <1>4 DEF Ancestors

\* Every step keeps what is above a running subagent in order.
LEMMA StepKeepsUpward ==
    ASSUME QueueInv, WaitersHaveLiveParent, UpwardInv, [Next]_vars
    PROVE  UpwardInv'
<1>1. ASSUME NEW s \in Subs, NEW p \in Runs, NEW bg \in BOOLEAN, Acquire(s, p, bg)
      PROVE  UpwardInv'
  <2>1. /\ status[s] = "idle" /\ outcome[s] = "none"
        /\ parent'[s] = p /\ \A x \in Subs \ {s} : parent'[x] = parent[x]
        /\ \A r \in Runs : status'[r] =
               IF r = s /\ AcquireAnswer(p, bg) = "started" THEN "running" ELSE status[r]
    BY <1>1, AcquireEffect
  <2>2. UNCHANGED <<aborted, reaped>> /\ s # p
    BY <1>1 DEF Acquire, Spawns
  <2>3. ASSUME NEW x \in RunningSubs PROVE Ancestors(x)' = Ancestors(x) /\ x # s
    <3>1. /\ x \in Subs /\ outcome[x] = "started" /\ x # s
      BY <2>1 DEF RunningSubs, QueueInv
    <3>2. parent[x] # s /\ parent'[x] = parent[x]
      BY <2>1, <3>1, AboveDispatched DEF WellParented
    <3>3. QED BY <2>1, <3>1, <3>2 DEF Ancestors
  <2>4. CASE AcquireAnswer(p, bg) = "started"
    <3>1. Alive(p)
      BY <2>4, AnswerMeans
    <3>2. p \notin reaped \cup aborted /\ (p \in Subs => parent[p] \notin reaped \cup aborted)
      BY <3>1, LiveParentIsClean
    <3>3. Ancestors(s)' \subseteq {p} \cup {r \in Runs : p \in Subs /\ r = parent[p]}
      BY <2>1, <2>2 DEF Ancestors
    <3>4. RunningSubs' = RunningSubs \cup {s}
      BY <2>1, <2>4 DEF RunningSubs, Runs
    <3>5. QED BY <2>2, <2>3, <3>2, <3>3, <3>4 DEF UpwardInv
  <2>5. CASE AcquireAnswer(p, bg) # "started"
    <3>1. RunningSubs' = RunningSubs
      BY <2>1, <2>5 DEF RunningSubs, Runs
    <3>2. QED BY <2>2, <2>3, <3>1 DEF UpwardInv
  <2>6. QED BY <2>4, <2>5
<1>2. CASE Tick \/ \E s \in Subs : Settle(s)
  <2>1. PumpEffect /\ UNCHANGED <<aborted, parent, reaped>>
    BY <1>2, RoundSteps
  <2>2. PICK fate \in [Waiting -> Verdicts] : RoundEnds(fate)
    BY <2>1, RoundHasFate
  <2>3. RunningSubs' \subseteq RunningSubs \cup Waiting
    BY <2>2 DEF RunningSubs, RoundEnds, Runs
  <2>4. ASSUME NEW w \in Waiting, NEW r \in Ancestors(w)
        PROVE  r \notin reaped \cup aborted
    <3>1. /\ w \in Subs /\ outcome[w] # "none" /\ Alive(parent[w])
      BY DEF WaitersHaveLiveParent, QueueInv, TypeOK
    <3>2. /\ parent[w] \in Runs
          /\ r = parent[w] \/ (parent[w] \in Subs /\ r = parent[parent[w]])
      BY <3>1, AboveDispatched DEF WellParented
    <3>3. QED BY <3>1, <3>2, LiveParentIsClean
  <2>5. \A x \in Subs : Ancestors(x)' = Ancestors(x)
    BY <2>1 DEF Ancestors
  <2>6. Waiting \subseteq Subs /\ RunningSubs \subseteq Subs
    BY DEF RunningSubs, QueueInv, TypeOK
  <2>7. QED BY <2>1, <2>3, <2>4, <2>5, <2>6 DEF UpwardInv
<1>3. ASSUME NEW r \in Runs, Finish(r)
      PROVE  UpwardInv'
  <2>1. UNCHANGED <<aborted, parent, reaped>> /\ RunningSubs' \subseteq RunningSubs
    BY <1>3 DEF Finish, RunningSubs, QueueInv, TypeOK, Runs
  <2>2. QED BY <2>1 DEF UpwardInv, Ancestors
<1>4. ASSUME NEW r \in Runs, Abort(r)
      PROVE  UpwardInv'
  <2> DEFINE hit == {x \in {r} \cup Descendants(r) : status[x] = "running"}
  <2>1. aborted' = aborted \cup hit /\ UNCHANGED <<status, parent, reaped>>
    BY <1>4 DEF Abort
  <2>2. RunningSubs' = RunningSubs /\ \A x \in Subs : Ancestors(x)' = Ancestors(x)
    BY <2>1 DEF RunningSubs, Ancestors
  <2>3. ASSUME NEW s \in RunningSubs, NEW a \in Ancestors(s), a \in hit
        PROVE  s \in hit
    <3>1. s \in Subs /\ status[s] = "running" /\ outcome[s] # "none"
      BY DEF RunningSubs, QueueInv
    <3>2. r \in Ancestors(s)
      BY <2>3, <3>1, CascadeIsWhole
    <3>3. s \in Descendants(r)
      BY <3>2, FoundFromAbove DEF UpwardInv
    <3>4. QED BY <3>1, <3>3
  <2> HIDE DEF hit
  <2>4. RunningSubs \subseteq Subs
    BY DEF RunningSubs
  <2>5. QED BY <2>1, <2>2, <2>3, <2>4 DEF UpwardInv
<1>5. ASSUME NEW r \in Runs, Reap(r)
      PROVE  UpwardInv'
  <2>1. /\ reaped' = reaped \cup {r} /\ UNCHANGED <<status, parent, aborted>>
        /\ Descendants(r) \cap RunningSubs = {}
    BY <1>5 DEF Reap, RunsBelow
  <2>2. \A s \in RunningSubs : r \notin Ancestors(s)
    BY <2>1, FoundFromAbove DEF UpwardInv
  <2>3. QED BY <2>1, <2>2 DEF UpwardInv, RunningSubs, Ancestors
<1>6. CASE UNCHANGED <<status, parent, aborted, reaped>>
  BY <1>6 DEF UpwardInv, RunningSubs, Ancestors
<1>7. QED
  BY <1>1, <1>2, <1>3, <1>4, <1>5, <1>6 DEF Next, Detach, Configure, LoseEnvironment, vars

\* An abort reaches every running subagent below it, and a later one still finds
\* it, whatever ends, starts or leaves the registry in between (run-registry.ts,
\* abort and hasRunningDescendant; subagent-queue.ts, enqueue).
THEOREM AbortsLeaveNoOrphan == Spec => []AbortReachesChildren
<1>1. Init => UpwardInv
  BY QueueAssumption DEF Init, UpwardInv, RunningSubs, Runs
<1>2. QueueInv /\ WaitersHaveLiveParent /\ UpwardInv /\ [Next]_vars => UpwardInv'
  BY StepKeepsUpward
<1>3. QueueInv /\ UpwardInv => AbortReachesChildren
  <2> SUFFICES ASSUME QueueInv, UpwardInv, NEW s \in RunningSubs
               PROVE  /\ Ancestors(s) \cap aborted # {} => s \in aborted
                      /\ \A r \in Ancestors(s) : s \in Descendants(r)
    BY DEF AbortReachesChildren
  <2>1. QED BY FoundFromAbove DEF UpwardInv
<1>4. QED BY <1>1, <1>2, <1>3, QueueInvariant, NoWaiterIsOrphaned, PTL DEF Spec

-----------------------------------------------------------------------------
(* Capacity and order                                                       *)

\* Fewer than n, and one more, is at most n.
LEMMA OneMoreFits ==
    ASSUME NEW A, IsFiniteSet(A), NEW B \in SUBSET A, NEW x, NEW n \in Nat,
           Cardinality(A) < n
    PROVE  Cardinality(B \cup {x}) <= n
<1>1. /\ IsFiniteSet(B) /\ Cardinality(B) <= Cardinality(A)
      /\ Cardinality(A) \in Nat /\ Cardinality(B) \in Nat
  BY FS_Subset, FS_CardinalityType
<1>2. Cardinality(B \cup {x}) = IF x \in B THEN Cardinality(B) ELSE Cardinality(B) + 1
  BY <1>1, FS_AddElement
<1>3. Cardinality(B) + 1 <= n /\ Cardinality(B) <= n
  BY <1>1
<1>4. QED BY <1>2, <1>3

\* A set of natural numbers has a smallest one.
LEMMA SmallestExists ==
    ASSUME NEW T \in SUBSET Nat, T # {}
    PROVE  \E m \in T : \A n \in T : m <= n
<1> DEFINE Below == {p \in Nat \X Nat : p[1] < p[2]}
<1>1. IsWellFoundedOn(Below, Nat)
  BY NatLessThanWellFounded DEF OpToRel
<1>2. PICK m \in T : \A n \in T : <<n, m>> \notin Below
  <2> HIDE DEF Below
  <2>1. QED BY <1>1, WFMin
<1>3. ASSUME NEW n \in T PROVE m <= n
  <2>1. m \in Nat /\ n \in Nat /\ ~(n < m)
    BY <1>2
  <2>2. QED BY <2>1
<1>4. QED BY <1>3

\* Any waiters have a last one among them, with all the others in front of it.
LEMMA LastWaiter ==
    ASSUME QueueInv, NEW S \in SUBSET Waiting, S # {}
    PROVE  \E last \in S : \A v \in S \ {last} : v \in queue[last]
<1>1. IsFiniteSet(Waiting) /\ Waiting \subseteq Subs
  <2>1. Waiting \subseteq Dispatched
    BY DEF QueueInv, TypeOK, Dispatched
  <2>2. QED BY <2>1, FS_Subset DEF QueueInv, Dispatched
<1>2. \A w \in Waiting : /\ queue[w] \subseteq Waiting /\ IsFiniteSet(queue[w])
                         /\ Cardinality(queue[w]) \in Nat
                         /\ Cardinality(queue[w]) <= Cardinality(Waiting)
  <2> SUFFICES ASSUME NEW w \in Waiting
               PROVE  /\ queue[w] \subseteq Waiting /\ IsFiniteSet(queue[w])
                      /\ Cardinality(queue[w]) \in Nat
                      /\ Cardinality(queue[w]) <= Cardinality(Waiting)
    OBVIOUS
  <2>1. queue[w] \in SUBSET Waiting
    BY DEF QueueInv, TypeOK
  <2>2. QED BY <1>1, <2>1, FS_Subset, FS_CardinalityType
<1>3. Cardinality(Waiting) \in Nat
  BY <1>1, FS_CardinalityType
<1> DEFINE Behind(w) == Cardinality(Waiting) - Cardinality(queue[w])
           T == {Behind(w) : w \in S}
<1>4. T \in SUBSET Nat /\ T # {}
  BY <1>2, <1>3
<1>5. PICK m \in T : \A n \in T : m <= n
  <2> HIDE DEF T
  <2>1. QED BY <1>4, SmallestExists
<1>6. PICK last \in S : m = Behind(last)
  OBVIOUS
<1>7. ASSUME NEW v \in S \ {last} PROVE v \in queue[last]
  <2>1. SUFFICES ASSUME v \notin queue[last] PROVE FALSE
    OBVIOUS
  <2>2. last \in queue[v] /\ queue[last] \subseteq queue[v] /\ last \notin queue[last]
    BY <2>1 DEF QueueInv, QueueOrdered
  <2>3. Cardinality(queue[last] \cup {last}) = Cardinality(queue[last]) + 1
    BY <1>2, <2>2, FS_AddElement
  <2>4. Cardinality(queue[last] \cup {last}) <= Cardinality(queue[v])
    <3>1. queue[last] \cup {last} \in SUBSET queue[v]
      BY <2>2
    <3>2. QED BY <1>2, <3>1, FS_Subset
  <2>5. Behind(v) \in T /\ m <= Behind(v)
    BY <1>5
  <2> HIDE DEF T
  <2>6. QED BY <1>2, <1>3, <1>6, <2>3, <2>4, <2>5
<1>8. QED BY <1>7

\* The running subagents are finitely many, and the limits are numbers.
LEMMA OccupancyTypes ==
    ASSUME QueueInv
    PROVE  /\ IsFiniteSet(RunningSubs \cup Waiting)
           /\ capacity.global \in Nat /\ capacity.perSession \in Nat
<1>1. RunningSubs \cup Waiting \subseteq Dispatched
  BY DEF RunningSubs, Dispatched, QueueInv, TypeOK
<1>2. IsFiniteSet(RunningSubs \cup Waiting)
  BY <1>1, FS_Subset DEF QueueInv
<1>3. QED BY <1>2, QueueAssumption DEF QueueInv, TypeOK

\* Room among many is room among fewer (hasRoom).
LEMMA RoomIsMonotone ==
    ASSUME NEW p, NEW A, IsFiniteSet(A), NEW B \in SUBSET A,
           capacity.global \in Nat, capacity.perSession \in Nat, HasRoom(p, A)
    PROVE  HasRoom(p, B)
<1>1. /\ Cardinality(B) <= Cardinality(A) /\ Cardinality(A) \in Nat
      /\ Cardinality(B) \in Nat
  BY FS_Subset, FS_CardinalityType
<1>2. /\ Cardinality(B \cap ChildrenOf(p)) <= Cardinality(A \cap ChildrenOf(p))
      /\ Cardinality(A \cap ChildrenOf(p)) \in Nat
      /\ Cardinality(B \cap ChildrenOf(p)) \in Nat
  <2>1. B \cap ChildrenOf(p) \in SUBSET (A \cap ChildrenOf(p))
    OBVIOUS
  <2>2. IsFiniteSet(A \cap ChildrenOf(p))
    BY FS_Intersection
  <2>3. QED BY <2>1, <2>2, FS_Subset, FS_CardinalityType
<1>3. QED BY <1>1, <1>2 DEF HasRoom

\* A subagent starts by a dispatch that found room or by a round.
LEMMA HowToStart ==
    ASSUME QueueInv, [Next]_vars, NEW s \in Subs, Started(s)
    PROVE  \/ \E p \in Runs, bg \in BOOLEAN :
                  Acquire(s, p, bg) /\ AcquireAnswer(p, bg) = "started"
           \/ PumpEffect /\ UNCHANGED <<parent, capacity>>
<1>1. ASSUME NEW x \in Subs, NEW p \in Runs, NEW bg \in BOOLEAN, Acquire(x, p, bg)
      PROVE  x = s /\ AcquireAnswer(p, bg) = "started"
  BY <1>1, AcquireEffect DEF Started
<1>2. CASE Tick \/ \E x \in Subs : Settle(x)
  BY <1>2, RoundSteps
<1>3. ASSUME NEW r \in Runs, Finish(r) \/ Abort(r)
      PROVE  FALSE
  <2>1. \E R \in SUBSET Runs : CancelWaiters(R)
    BY <1>3, EndingSteps
  <2>2. QED BY <2>1, CancelEffect DEF Started
<1>4. CASE UNCHANGED outcome
  BY <1>4 DEF Started
<1>5. QED
  BY <1>1, <1>2, <1>3, <1>4 DEF Next, Reap, Detach, Configure, LoseEnvironment, vars

\* The waiters a round has started, judged as a whole: the last of them found
\* room next to all the others.
LEMMA RoundRespectsCapacity ==
    ASSUME QueueInv, PumpEffect, UNCHANGED <<parent, capacity>>, NEW s \in Subs, Started(s)
    PROVE  /\ Cardinality(RunningSubs') <= capacity.global
           /\ Cardinality((RunningSubs \cap ChildrenOf(parent[s]))') <= capacity.perSession
<1>1. PICK fate \in [Waiting -> Verdicts] : RoundEnds(fate)
  BY RoundHasFate
<1> DEFINE S == {v \in Waiting : fate[v] = "started"}
           Mine == {v \in S : parent[v] = parent[s]}
           Ch == ChildrenOf(parent[s])
<1>2. Waiting \subseteq Subs /\ RunningSubs \subseteq Subs
  BY DEF QueueInv, TypeOK, RunningSubs
<1>3. s \in Mine
  BY <1>1 DEF RoundEnds, Started
<1>4. RunningSubs' = RunningSubs \cup S
  BY <1>1, <1>2 DEF RoundEnds, RunningSubs, Runs
<1>5. (RunningSubs \cap ChildrenOf(parent[s]))' = (RunningSubs \cap Ch) \cup Mine
  BY <1>2, <1>4 DEF ChildrenOf
<1>6. ASSUME NEW w \in S
      PROVE  /\ HasRoom(parent[w], RunningAt(fate, w))
             /\ IsFiniteSet(RunningAt(fate, w))
             /\ IsFiniteSet(RunningAt(fate, w) \cap Ch)
  <2>1. HasRoom(parent[w], RunningAt(fate, w))
    BY <1>1 DEF RoundEnds, Judged
  <2>2. RunningAt(fate, w) \in SUBSET (RunningSubs \cup Waiting)
    BY DEF RunningAt, QueueInv, TypeOK
  <2>3. QED BY <2>1, <2>2, OccupancyTypes, FS_Subset, FS_Intersection
<1>7. Cardinality(RunningSubs') <= capacity.global
  <2>1. PICK last \in S : \A v \in S \ {last} : v \in queue[last]
    BY <1>3, LastWaiter
  <2>2. RunningSubs \cup (S \ {last}) \in SUBSET RunningAt(fate, last)
    BY <2>1 DEF RunningAt
  <2>3. Cardinality(RunningAt(fate, last)) < capacity.global
    BY <1>6 DEF HasRoom
  <2>4. RunningSubs' = (RunningSubs \cup (S \ {last})) \cup {last}
    BY <1>4
  <2>5. Cardinality((RunningSubs \cup (S \ {last})) \cup {last}) <= capacity.global
    BY <1>6, <2>2, <2>3, OccupancyTypes, OneMoreFits
  <2>6. QED BY <2>4, <2>5
<1>8. Cardinality((RunningSubs \cap ChildrenOf(parent[s]))') <= capacity.perSession
  <2>1. PICK last \in Mine : \A v \in Mine \ {last} : v \in queue[last]
    <3>1. Mine \in SUBSET Waiting /\ Mine # {}
      BY <1>3
    <3> HIDE DEF Mine
    <3>2. QED BY <3>1, LastWaiter
  <2>2. (RunningSubs \cap Ch) \cup (Mine \ {last}) \in SUBSET (RunningAt(fate, last) \cap Ch)
    BY <1>2, <2>1 DEF RunningAt, ChildrenOf
  <2>3. Cardinality(RunningAt(fate, last) \cap Ch) < capacity.perSession
    BY <1>6 DEF HasRoom
  <2>4. (RunningSubs \cap Ch) \cup Mine = ((RunningSubs \cap Ch) \cup (Mine \ {last})) \cup {last}
    OBVIOUS
  <2>5. Cardinality(((RunningSubs \cap Ch) \cup (Mine \ {last})) \cup {last}) <= capacity.perSession
    BY <1>6, <2>2, <2>3, OccupancyTypes, OneMoreFits
  <2>6. QED BY <1>5, <2>4, <2>5
<1>9. QED BY <1>7, <1>8

\* A dispatch that starts on the spot takes a place that was free.
LEMMA FastPathRespectsCapacity ==
    ASSUME QueueInv, NEW s \in Subs, NEW p \in Runs, NEW bg \in BOOLEAN,
           Acquire(s, p, bg), AcquireAnswer(p, bg) = "started"
    PROVE  /\ Cardinality(RunningSubs') <= capacity.global
           /\ Cardinality((RunningSubs \cap ChildrenOf(parent[s]))') <= capacity.perSession
<1>1. HasRoom(p, RunningSubs)
  BY AnswerMeans DEF FastPath
<1>2. /\ status[s] = "idle" /\ outcome[s] = "none"
      /\ parent'[s] = p /\ \A x \in Subs \ {s} : parent'[x] = parent[x]
      /\ \A r \in Runs : status'[r] = IF r = s THEN "running" ELSE status[r]
  BY AcquireEffect
<1>3. RunningSubs' = RunningSubs \cup {s}
  BY <1>2 DEF RunningSubs, Runs
<1>4. (RunningSubs \cap ChildrenOf(parent[s]))' = (RunningSubs \cap ChildrenOf(p)) \cup {s}
  <2>1. s \notin RunningSubs
    BY <1>2 DEF RunningSubs
  <2>2. ChildrenOf(parent[s])' = {x \in Subs : parent'[x] = p}
    BY <1>2 DEF ChildrenOf
  <2>3. QED BY <1>2, <1>3, <2>1, <2>2 DEF ChildrenOf, RunningSubs
<1>5. IsFiniteSet(RunningSubs) /\ IsFiniteSet(RunningSubs \cap ChildrenOf(p))
  BY OccupancyTypes, FS_Subset, FS_Intersection
<1>6. QED BY <1>1, <1>3, <1>4, <1>5, OccupancyTypes, OneMoreFits DEF HasRoom

\* However many waiters one round admits, and whatever the limits were before, a
\* step that starts a subagent leaves its session and the process within the
\* limits of the settings (subagent-queue.ts, hasRoom and pump).
THEOREM LimitsAreRespected == Spec => CapacityRespected
<1>1. QueueInv /\ [Next]_vars =>
          [\A s \in Subs : Started(s) =>
               /\ Cardinality(RunningSubs') <= capacity.global
               /\ Cardinality((RunningSubs \cap ChildrenOf(parent[s]))')
                      <= capacity.perSession]_vars
  BY HowToStart, RoundRespectsCapacity, FastPathRespectsCapacity
<1>2. QED BY <1>1, QueueInvariant, PTL DEF Spec, CapacityRespected

\* An older waiter of the same run was judged first, with no more of the slots
\* taken: had it stayed, the younger one would have stayed as well.
LEMMA RoundIsFifo ==
    ASSUME QueueInv, PumpEffect, UNCHANGED parent, NEW s \in Subs, Started(s),
           NEW w \in Older(s)
    PROVE  outcome'[w] # "queued"
<1>1. PICK fate \in [Waiting -> Verdicts] : RoundEnds(fate)
  BY RoundHasFate
<1>2. /\ s \in Waiting /\ fate[s] = "started"
      /\ w \in Waiting /\ parent[w] = parent[s] /\ w \in queue[s]
      /\ queue[w] \subseteq queue[s] /\ queue[s] \subseteq Waiting
  BY <1>1 DEF RoundEnds, Started, Older, QueuedOf, QueueInv, QueueOrdered, TypeOK
<1>3. HasRoom(parent[w], RunningAt(fate, s))
  BY <1>1, <1>2 DEF RoundEnds, Judged
<1>4. RunningAt(fate, w) \in SUBSET RunningAt(fate, s)
  BY <1>2 DEF RunningAt
<1>5. IsFiniteSet(RunningAt(fate, s))
  <2>1. RunningAt(fate, s) \in SUBSET (RunningSubs \cup Waiting)
    BY <1>2 DEF RunningAt
  <2>2. QED BY <2>1, OccupancyTypes, FS_Subset
<1>6. HasRoom(parent[w], RunningAt(fate, w))
  BY <1>3, <1>4, <1>5, OccupancyTypes, RoomIsMonotone
<1>7. fate[w] \in {"started", "failed"}
  BY <1>1, <1>2, <1>6 DEF RoundEnds, Judged
<1>8. outcome'[w] = fate[w]
  BY <1>1, <1>2 DEF RoundEnds, QueueInv, TypeOK
<1>9. QED BY <1>7, <1>8

\* No dispatch starts while an earlier one of the same run stays in the queue
\* (subagent-queue.ts, the fast path of acquire and the order of pump).
THEOREM SiblingsAreServedInOrder == Spec => SessionFifo
<1>1. ASSUME QueueInv, NEW s \in Subs, NEW p \in Runs, NEW bg \in BOOLEAN,
             Acquire(s, p, bg), AcquireAnswer(p, bg) = "started"
      PROVE  Older(s) = {}
  <2>1. QueuedOf(p) = {} /\ parent'[s] = p
    BY <1>1, AnswerMeans, AcquireEffect DEF FastPath
  <2>2. QED BY <2>1 DEF Older
<1>2. QueueInv /\ [Next]_vars =>
          [\A s \in Subs : Started(s) => \A w \in Older(s) : outcome'[w] # "queued"]_vars
  BY <1>1, HowToStart, RoundIsFifo
<1>3. QED BY <1>2, QueueInvariant, PTL DEF Spec, SessionFifo

-----------------------------------------------------------------------------
(* A round is a function of the state                                       *)

\* How many stand in front of w (reportPositions).
Position(w) == Cardinality(queue[w])

LEMMA PositionsRise ==
    ASSUME QueueInv, NEW w \in Waiting
    PROVE  /\ queue[w] \subseteq Waiting
           /\ Position(w) \in Nat /\ Cardinality(Waiting) \in Nat
           /\ Position(w) <= Cardinality(Waiting)
           /\ \A v \in queue[w] : Position(v) < Position(w)
<1>1. IsFiniteSet(Waiting)
  <2>1. Waiting \subseteq RunningSubs \cup Waiting
    OBVIOUS
  <2>2. QED BY <2>1, OccupancyTypes, FS_Subset
<1>2. \A v \in Waiting : queue[v] \in SUBSET Waiting
  BY DEF QueueInv, TypeOK
<1>3. \A v \in Waiting : /\ IsFiniteSet(queue[v]) /\ Position(v) \in Nat
                         /\ Position(v) <= Cardinality(Waiting)
  BY <1>1, <1>2, FS_Subset, FS_CardinalityType DEF Position
<1>4. ASSUME NEW v \in queue[w] PROVE Position(v) < Position(w)
  <2>1. v \in Waiting /\ v \notin queue[v] /\ queue[v] \subseteq queue[w]
    BY <1>2 DEF QueueInv, QueueOrdered
  <2>2. queue[v] \cup {v} \in SUBSET queue[w]
    BY <2>1
  <2>3. Cardinality(queue[v] \cup {v}) <= Position(w)
    BY <1>3, <2>2, FS_Subset DEF Position
  <2>4. Cardinality(queue[v] \cup {v}) = Position(v) + 1
    BY <1>3, <2>1, FS_AddElement DEF Position
  <2>5. QED BY <1>3, <2>1, <2>3, <2>4
<1>5. QED BY <1>1, <1>2, <1>3, <1>4, FS_CardinalityType

\* A waiter is judged by the fates of those in front of it, and by no others.
LEMMA JudgedByThoseInFront ==
    ASSUME NEW w \in Waiting, NEW f, NEW g, \A v \in queue[w] : f[v] = g[v]
    PROVE  Judged(f, w) = Judged(g, w)
<1>1. RunningAt(f, w) = RunningAt(g, w) /\ WaitingAt(f, w) = WaitingAt(g, w)
  BY DEF RunningAt, WaitingAt
<1>2. QED BY <1>1 DEF Judged

\* In no state has a round two outcomes.
LEMMA FateIsUnique ==
    ASSUME QueueInv, NEW f \in [Waiting -> Verdicts], NEW g \in [Waiting -> Verdicts],
           \A w \in Waiting : f[w] = Judged(f, w), \A w \in Waiting : g[w] = Judged(g, w)
    PROVE  f = g
<1> DEFINE T == {Position(w) : w \in {x \in Waiting : f[x] # g[x]}}
<1>1. T = {}
  <2> SUFFICES ASSUME T # {} PROVE FALSE
    OBVIOUS
  <2>1. T \in SUBSET Nat
    BY PositionsRise
  <2>2. PICK m \in T : \A n \in T : m <= n
    <3> HIDE DEF T
    <3>1. QED BY <2>1, SmallestExists
  <2>3. PICK w \in Waiting : f[w] # g[w] /\ m = Position(w)
    OBVIOUS
  <2>4. ASSUME NEW v \in queue[w] PROVE f[v] = g[v]
    <3>1. v \in Waiting /\ Position(v) \in Nat /\ Position(w) \in Nat /\ Position(v) < Position(w)
      BY <2>3, PositionsRise
    <3>2. SUFFICES ASSUME f[v] # g[v] PROVE FALSE
      OBVIOUS
    <3>3. Position(v) \in T
      BY <3>1, <3>2
    <3> HIDE DEF T
    <3>4. QED BY <2>2, <2>3, <3>1, <3>3
  <2>5. QED BY <2>3, <2>4, JudgedByThoseInFront
<1>2. \A w \in Waiting : f[w] = g[w]
  BY <1>1
<1>3. QED BY <1>2

\* The waiters of the first n positions can be judged.
JudgedUpTo(n) ==
    \E f \in [Waiting -> Verdicts] :
        \A w \in Waiting : Position(w) < n => f[w] = Judged(f, w)

LEMMA JudgedOneMore ==
    ASSUME QueueInv, NEW n \in Nat, JudgedUpTo(n)
    PROVE  JudgedUpTo(n + 1)
<1>1. PICK f \in [Waiting -> Verdicts] :
          \A w \in Waiting : Position(w) < n => f[w] = Judged(f, w)
  BY DEF JudgedUpTo
<1> DEFINE g == [w \in Waiting |-> IF Position(w) = n THEN Judged(f, w) ELSE f[w]]
<1>2. g \in [Waiting -> Verdicts]
  BY DEF Judged, Verdicts
<1>3. ASSUME NEW w \in Waiting, Position(w) < n + 1
      PROVE  g[w] = Judged(g, w)
  <2>1. Position(w) \in Nat /\ Position(w) <= n
    BY <1>3, PositionsRise
  <2>2. ASSUME NEW v \in queue[w] PROVE g[v] = f[v]
    <3>1. v \in Waiting /\ Position(v) \in Nat /\ Position(v) < Position(w)
      BY PositionsRise
    <3>2. QED BY <2>1, <3>1
  <2>3. Judged(g, w) = Judged(f, w)
    BY <2>2, JudgedByThoseInFront
  <2>4. g[w] = Judged(f, w)
    BY <1>1, <2>1
  <2>5. QED BY <2>3, <2>4
<1> HIDE DEF g
<1>4. QED BY <1>2, <1>3 DEF JudgedUpTo

\* Every state has an outcome for its round, and only one: dispatching never
\* blocks, and is as deterministic as the loop it stands for (pump).
THEOREM RoundIsDetermined ==
    ASSUME QueueInv
    PROVE  \E fate \in [Waiting -> Verdicts] :
               /\ \A w \in Waiting : fate[w] = Judged(fate, w)
               /\ \A other \in [Waiting -> Verdicts] :
                      (\A w \in Waiting : other[w] = Judged(other, w)) => other = fate
<1> DEFINE T == {n \in Nat : ~JudgedUpTo(n)}
<1>1. JudgedUpTo(0)
  <2>1. [w \in Waiting |-> "queued"] \in [Waiting -> Verdicts]
    BY DEF Verdicts
  <2>2. \A w \in Waiting : ~(Position(w) < 0)
    BY PositionsRise
  <2>3. QED BY <2>1, <2>2 DEF JudgedUpTo
<1>2. T = {}
  <2> SUFFICES ASSUME T # {} PROVE FALSE
    OBVIOUS
  <2>1. PICK m \in T : \A n \in T : m <= n
    <3>1. T \in SUBSET Nat
      OBVIOUS
    <3> HIDE DEF T
    <3>2. QED BY <3>1, SmallestExists
  <2>2. m \in Nat /\ m # 0 /\ ~JudgedUpTo(m)
    BY <1>1
  <2>3. m - 1 \in Nat /\ m - 1 \notin T
    <3> HIDE DEF T
    <3>1. QED BY <2>1, <2>2
  <2>4. JudgedUpTo(m - 1) /\ (m - 1) + 1 = m
    BY <2>2, <2>3
  <2>5. JudgedUpTo(m)
    BY <2>3, <2>4, JudgedOneMore
  <2>6. QED BY <2>2, <2>5
<1>3. Cardinality(Waiting) \in Nat
  <2>1. Waiting \subseteq RunningSubs \cup Waiting
    OBVIOUS
  <2>2. QED BY <2>1, OccupancyTypes, FS_Subset, FS_CardinalityType
<1>4. JudgedUpTo(Cardinality(Waiting) + 1)
  BY <1>2, <1>3
<1>5. PICK fate \in [Waiting -> Verdicts] :
          \A w \in Waiting : Position(w) < Cardinality(Waiting) + 1 => fate[w] = Judged(fate, w)
  BY <1>4 DEF JudgedUpTo
<1>6. \A w \in Waiting : fate[w] = Judged(fate, w)
  <2>1. \A w \in Waiting : Position(w) < Cardinality(Waiting) + 1
    BY PositionsRise
  <2>2. QED BY <1>5, <2>1
<1>7. QED BY <1>6, FateIsUnique
=============================================================================
