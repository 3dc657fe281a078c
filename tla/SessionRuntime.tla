---------------------------- MODULE SessionRuntime ----------------------------
(***************************************************************************)
(* Who speaks next in one session: SessionRuntime of                        *)
(* src/main/session-runtime.ts with its pure half,                          *)
(* src/shared/domain/queued-input.ts, the session mutex and the mailbox of  *)
(* src/main/kernel/run-registry.ts, launch() of src/main/services/agent.ts  *)
(* and the points at which a run commits user messages.                     *)
(*                                                                         *)
(* Messages the user queues are written to disk before they are confirmed,  *)
(* wait there, and leave either as the input of the next run or, promoted,  *)
(* through the mailbox of the one that is running.  Reports of background   *)
(* subagents are internal inputs of the same runs.  Every handler is        *)
(* synchronous and is one action; what comes between two of them is the     *)
(* user, the driver, a timer, a failing disk or the death of the process.   *)
(***************************************************************************)
EXTENDS Naturals, SequencesExt

CONSTANTS
    Messages,           \* what the user may type
    Long,               \* messages of which no two fit into QUEUE_MAX_TEXT
    Reports,            \* background subagents of the session
    MaxItems,           \* QUEUE_MAX_ITEMS
    MaxAttempts,        \* DEFERRED_MAX_RETRIES
    ReceiptsMayFail,    \* the read of consumption receipts may fail
    HistoryOps,         \* manual compaction may hold the session
    ScheduledSession,   \* the scheduler created the session and runs in it first
    MaxEdits,           \* bound of the model: edits of one message
    MaxFaults           \* bound of the model: refused writes, reads and launches

ASSUME SessionAssumption ==
    /\ Long \subseteq Messages /\ Messages \cap Reports = {}
    /\ MaxItems \in Nat \ {0} /\ MaxAttempts \in Nat \ {0}
    /\ ReceiptsMayFail \in BOOLEAN /\ HistoryOps \in BOOLEAN
    /\ ScheduledSession \in BOOLEAN
    /\ MaxEdits \in Nat /\ MaxFaults \in Nat

VARIABLES
    entry,          \* Entry.queued in memory: items, promoted ones, their texts
    dirty,          \* Entry.dirty
    disk,           \* the same state as last written
    run,            \* the run of the session, from launch to settle
    mailbox,        \* RunHandle.interject
    internals,      \* RunHandle.internalInterject
    unconfirmed,    \* internal inputs of that run without a message_commit
    deferred,       \* internal inputs that wait for the session
    attempts,       \* armed retry timer: its attempt, counted from 1; else 0
    reporting,      \* reports under way in this process
    reported,       \* reportStatus of the receipts (database)
    remembered,     \* lastOptions knows the session
    operation,      \* a history operation holds the session
    receipts,       \* session_input_receipts
    times,          \* history: how often an input was committed as a message
    typed,          \* history: messages that reached the queue
    accepted,       \* history: those confirmed to the user
    withdrawn,      \* history: unsent messages the user dropped or took back
    lost,           \* history: see Prepared and Crash
    halted,         \* history: stopped, failed or restarted, no user action since
    faults

queueVars  == <<entry, dirty, disk>>
reportVars == <<unconfirmed, deferred, attempts, reporting, reported>>
boxVars    == <<mailbox, internals>>
runVars    == <<run, remembered>>
history    == <<typed, accepted, withdrawn, lost>>
vars == <<queueVars, runVars, boxVars, reportVars, operation, receipts, times, history,
          halted, faults>>

Phases  == {"idle", "preparing", "running", "done", "error", "aborted"}
Kinds   == {"none", "user", "queued", "internal", "scheduled"}
NoRun   == [kind |-> "none", phase |-> "idle", stop |-> FALSE, carried |-> <<>>]
Entries == [queued : Seq(Messages), promoted : Seq(Messages),
            text : [Messages -> 0 .. MaxEdits]]

TypeOK ==
    /\ entry \in Entries /\ disk \in Entries /\ dirty \in BOOLEAN
    /\ run \in [kind : Kinds, phase : Phases, stop : BOOLEAN,
                carried : Seq(Messages \cup Reports)]
    /\ mailbox \in Seq([id : Messages, text : 0 .. MaxEdits])
    /\ internals \in Seq(Reports) /\ unconfirmed \in Seq(Reports)
    /\ deferred \in Seq(Reports) /\ attempts \in 0 .. MaxAttempts
    /\ reporting \subseteq Reports
    /\ reported \in [Reports -> {"none", "pending", "reported"}]
    /\ remembered \in BOOLEAN /\ operation \in BOOLEAN /\ receipts \subseteq Messages
    /\ times \in [Messages \cup Reports -> Nat]
    /\ accepted \subseteq typed /\ withdrawn \subseteq typed /\ lost \subseteq typed
    /\ typed \subseteq Messages
    /\ halted \in BOOLEAN /\ faults \in 0 .. MaxFaults

\* A run as launched; its input is committed once it is prepared.
Started(kind, carried) ==
    [kind |-> kind, phase |-> "preparing", stop |-> FALSE, carried |-> carried]

Empty == [queued |-> <<>>, promoted |-> <<>>, text |-> [m \in Messages |-> 0]]

Init ==
    /\ entry = Empty /\ disk = Empty /\ dirty = FALSE
    /\ run = IF ScheduledSession THEN Started("scheduled", <<>>) ELSE NoRun
    /\ mailbox = <<>> /\ internals = <<>> /\ remembered = FALSE
    /\ unconfirmed = <<>> /\ deferred = <<>> /\ attempts = 0
    /\ reporting = {} /\ reported = [r \in Reports |-> "none"]
    /\ operation = FALSE /\ receipts = {}
    /\ times = [i \in Messages \cup Reports |-> 0]
    /\ typed = {} /\ accepted = {} /\ withdrawn = {} /\ lost = {}
    /\ halted = FALSE /\ faults = 0

-----------------------------------------------------------------------------
(* The registry *)

Active == run.phase \in {"preparing", "running"}    \* activeRun: status "running"
Busy   == run.phase # "idle" \/ operation           \* isBusy

\* launch() remembers the options of the request.
Launch(kind, carried) == run' = Started(kind, carried) /\ remembered' = TRUE
StayIdle == run' = NoRun /\ UNCHANGED remembered

-----------------------------------------------------------------------------
(* The queue *)

\* s without the members of gone (Array.filter).
Kept(s, gone) ==
    LET kept[n \in 0 .. Len(s)] ==
            IF n = 0 THEN <<>>
            ELSE IF s[n] \in gone THEN kept[n - 1] ELSE Append(kept[n - 1], s[n])
    IN  kept[Len(s)]

Without(e, gone) ==
    [e EXCEPT !.queued = Kept(@, gone), !.promoted = Kept(@, gone)]

\* Mutant: only what was promoted is sent.
NextPromoted(e) == e.promoted

\* pickNextBatch: the promoted ones in the order of their promotion, or the first.
NextBatch(e) ==
    IF e.promoted # <<>> THEN e.promoted
    ELSE SubSeq(e.queued, 1, IF e.queued = <<>> THEN 0 ELSE 1)

\* mergeBatch: an item that does not fit any more goes back to pending; later ones
\* are still tried.
Deferred(batch) ==
    {batch[i] : i \in {j \in DOMAIN batch :
        batch[j] \in Long /\ \E h \in 1 .. j - 1 : batch[h] \in Long}}
Sent(e) == Kept(NextBatch(e), Deferred(NextBatch(e)))
\* The queue once that batch has been handed over.
HandedOver(e) ==
    [Without(e, ToSet(NextBatch(e))) EXCEPT
        !.queued = Without(e, ToSet(Sent(e))).queued]

\* Mutant: a batch whose launch is refused is not put back.
ForgottenBatch(e) == HandedOver(e)

\* With the batch back in front, promoted as before.
PutBack(e) ==
    [HandedOver(e) EXCEPT
        !.queued = Sent(e) \o @,
        !.promoted = IF e.promoted = <<>> THEN <<>> ELSE Sent(e)]

\* Mutant: receipts are not consulted.
CleanedOfNone(e) == e

\* removeCommittedInputs
Cleaned(e) == Without(e, receipts)

\* It reads the receipts; a failed read removes nothing (one fault).
Reading(e, f) ==
    {[left |-> Cleaned(e), faults |-> f]} \cup
    {[left |-> e, faults |-> f + 1] : x \in {y \in {TRUE} : ReceiptsMayFail}}

\* drain(): e is what is queued, d what is on disk.  Up to three writes, any of
\* which may be refused, and a launch that may be.  The first can be of a draft
\* alone, so that it may be refused when the queue is as it was saved.
DrainFrom(e, d, f) ==
    \E c \in Reading(e, f) :
        LET q == c.left
        IN  \/ /\ NextBatch(q) = <<>>
               /\ entry' = q /\ StayIdle
               /\ \/ disk' = q /\ dirty' = FALSE /\ faults' = c.faults
                  \/ disk' = d /\ dirty' = TRUE /\ faults' = c.faults + 1
            \/ /\ NextBatch(q) # <<>>
               /\ entry' = q /\ StayIdle
               /\ disk' \in {d, q} /\ dirty' = TRUE /\ faults' = c.faults + 1
            \/ /\ NextBatch(q) # <<>>
               /\ entry' = HandedOver(q) /\ disk' = HandedOver(q) /\ dirty' = FALSE
               /\ Launch("queued", Sent(q)) /\ faults' = c.faults
            \/ /\ NextBatch(q) # <<>>
               /\ entry' = PutBack(q) /\ StayIdle
               /\ \/ disk' = PutBack(q) /\ dirty' = FALSE /\ faults' = c.faults + 1
                  \/ disk' = HandedOver(q) /\ dirty' = TRUE /\ faults' = c.faults + 2

\* syncInterject: the mailbox of the active run gets all promoted items.
SyncFrom(e, d, f) ==
    IF Active
    THEN \E c \in Reading(e, f) :
             /\ entry' = c.left
             /\ mailbox' = [i \in DOMAIN c.left.promoted |->
                    [id |-> c.left.promoted[i], text |-> c.left.text[c.left.promoted[i]]]]
             /\ \/ disk' = c.left /\ dirty' = FALSE /\ faults' = c.faults
                \/ c.left # e /\ disk' = d /\ dirty' = TRUE /\ faults' = c.faults + 1
    ELSE entry' = e /\ disk' = d /\ dirty' = FALSE /\ faults' = f /\ UNCHANGED mailbox

DrainIfIdle(e) ==
    /\ IF Busy
       THEN entry' = e /\ disk' = e /\ dirty' = FALSE /\ UNCHANGED <<runVars, faults>>
       ELSE DrainFrom(e, e, faults)
    /\ UNCHANGED mailbox

-----------------------------------------------------------------------------
(* The user *)

\* A queue operation whose write is refused is undone and reported.
Refused ==
    /\ faults' = faults + 1
    /\ entry.queued # <<>> \/ typed # Messages
    /\ UNCHANGED <<queueVars, runVars, boxVars, reportVars, operation, receipts, times,
                   history, halted>>

\* Mutant: the message is confirmed before it is written.
EnqueueUnwritten(m) ==
    /\ m \notin typed /\ Len(entry.queued) < MaxItems
    /\ typed' = typed \cup {m} /\ accepted' = accepted \cup {m} /\ halted' = FALSE
    /\ entry' = [entry EXCEPT !.queued = Append(@, m)] /\ dirty' = TRUE
    /\ UNCHANGED <<disk, runVars, boxVars, reportVars, operation, receipts, times,
                   withdrawn, lost, faults>>

\* A drain that can not write throws, and the caller gets that error instead of the
\* confirmation.
Enqueue(m) ==
    /\ m \notin typed /\ Len(entry.queued) < MaxItems
    /\ typed' = typed \cup {m} /\ halted' = FALSE
    /\ DrainIfIdle([entry EXCEPT !.queued = Append(@, m)])
    /\ accepted' = accepted \cup {x \in {m} : ~dirty'}
    /\ UNCHANGED <<internals, reportVars, operation, receipts, times, withdrawn, lost>>

\* Promoting twice takes it back.
Promote(m) ==
    /\ m \in ToSet(entry.queued)
    /\ halted' = FALSE
    /\ LET e == [entry EXCEPT !.promoted =
                     IF m \in ToSet(@) THEN Kept(@, {m}) ELSE Append(@, m)]
       IN  IF Active THEN SyncFrom(e, e, faults) /\ UNCHANGED runVars
           ELSE DrainIfIdle(e)
    /\ UNCHANGED <<internals, reportVars, operation, receipts, times, history>>

\* Mutant: the run keeps the old text.
EditUnsynced(m) ==
    /\ m \in ToSet(entry.queued) /\ entry.text[m] < MaxEdits
    /\ entry' = [entry EXCEPT !.text[m] = @ + 1]
    /\ disk' = entry' /\ dirty' = FALSE
    /\ UNCHANGED <<runVars, boxVars, reportVars, operation, receipts, times, history,
                   halted, faults>>

Edit(m) ==
    /\ m \in ToSet(entry.queued) /\ entry.text[m] < MaxEdits
    /\ LET e == [entry EXCEPT !.text[m] = @ + 1] IN SyncFrom(e, e, faults)
    /\ UNCHANGED <<runVars, internals, reportVars, operation, receipts, times, history, halted>>

\* Mutant: the run keeps the message.
WithdrawUnsynced(m) ==
    /\ m \in ToSet(entry.queued)
    /\ entry' = Without(entry, {m}) /\ disk' = entry' /\ dirty' = FALSE
    /\ withdrawn' = withdrawn \cup {x \in {m} : times[x] = 0}
    /\ UNCHANGED <<runVars, boxVars, reportVars, operation, receipts, times, typed,
                   accepted, lost, halted, faults>>

\* drop, and take, which hands the text back to the composer.
Withdraw(m) ==
    /\ m \in ToSet(entry.queued)
    /\ LET e == Without(entry, {m}) IN SyncFrom(e, e, faults)
    /\ withdrawn' = withdrawn \cup {x \in {m} : times[x] = 0}
    /\ UNCHANGED <<runVars, internals, reportVars, operation, receipts, times, typed,
                   accepted, lost, halted>>

\* "Continue" after a stop, an error or a restart.
Resume ==
    /\ ~Busy
    /\ halted' = FALSE
    /\ DrainFrom(entry, disk, faults)
    /\ UNCHANGED <<boxVars, reportVars, operation, receipts, times, history>>

\* A message is sent directly; with a run under way it is an Enqueue.
Send ==
    /\ ~Busy
    /\ Launch("user", <<>>) /\ halted' = FALSE
    /\ UNCHANGED <<queueVars, boxVars, reportVars, operation, receipts, times, history,
                   faults>>

\* setDraft: the draft shares the entry, its write comes later.
TypeDraft ==
    /\ dirty' = TRUE
    /\ UNCHANGED <<entry, disk, runVars, boxVars, reportVars, operation, receipts, times,
                   history, halted, faults>>

\* flush() or the debounce timer.
SaveDraft ==
    /\ dirty /\ disk' = entry /\ dirty' = FALSE
    /\ UNCHANGED <<entry, runVars, boxVars, reportVars, operation, receipts, times, history,
                   halted, faults>>

Abort ==
    /\ Active /\ ~run.stop
    /\ run' = [run EXCEPT !.stop = TRUE]
    /\ UNCHANGED <<remembered, queueVars, boxVars, reportVars, operation, receipts, times,
                   history, halted, faults>>

-----------------------------------------------------------------------------
(* The driver *)

\* setReportStatus: what the receipts in the database say.
Verdict(confirmed) ==
    /\ reporting' = reporting \ confirmed
    /\ reported' = [r \in Reports |-> IF r \in confirmed THEN "reported" ELSE reported[r]]

\* AgentSession commits the input of the run; an internal one is confirmed by it.
Prepared ==
    /\ run.phase = "preparing"
    /\ run' = [run EXCEPT !.phase = "running", !.carried = <<>>]
    /\ times' = [i \in DOMAIN times |->
           IF i \in ToSet(run.carried) THEN times[i] + 1 ELSE times[i]]
    /\ LET confirmed == ToSet(run.carried) \cap Reports
       IN  Verdict(confirmed) /\ unconfirmed' = Kept(unconfirmed, confirmed)
    /\ UNCHANGED <<remembered, queueVars, boxVars, deferred, attempts, operation,
                   receipts, history, halted, faults>>

\* runAgent ends before it: the workspace is unbound, its connection is gone, a hook
\* denies the prompt, the user stops it.  What the run carried is in no queue.
PrepareFails ==
    /\ run.phase = "preparing"
    /\ run' = [run EXCEPT !.phase = IF run.stop THEN "aborted" ELSE "error",
                          !.carried = <<>>]
    /\ lost' = lost \cup (ToSet(run.carried) \cap Messages)
    /\ UNCHANGED <<remembered, queueVars, boxVars, reportVars, operation, receipts,
                   times, typed, accepted, withdrawn, halted, faults>>

\* Mutant: a removal that can not be written is not remembered.
ReapUnmarked(gone) ==
    /\ entry' = Without(entry, gone) /\ UNCHANGED dirty
    /\ \/ disk' = entry' /\ UNCHANGED faults
       \/ gone # {} /\ UNCHANGED disk /\ faults' = faults + 1

\* reapCommitted: a committed item leaves the queue even if that can not be written.
Reap(gone) ==
    /\ entry' = Without(entry, gone)
    /\ \/ disk' = entry' /\ dirty' = FALSE /\ UNCHANGED faults
       \/ gone # {} /\ UNCHANGED disk /\ dirty' = TRUE /\ faults' = faults + 1

\* injectInterjections: the mailbox is emptied and committed item by item, each
\* message with its receipt in one transaction.  A commit that throws ends the run.
\* The listener that reaps and confirms is attached by runStarted, which the
\* scheduler does not call.  An aborted run throws before it looks.
Inject(n) ==
    LET m == Len(mailbox)
        sentIds == {mailbox[i].id : i \in {j \in DOMAIN mailbox : j <= n}}
        confirmed == {internals[i] : i \in {j \in DOMAIN internals : m + j <= n}}
    IN  /\ run.phase = "running" /\ ~run.stop
        /\ m + Len(internals) > 0
        /\ mailbox' = <<>> /\ internals' = <<>>
        /\ run' = [run EXCEPT !.phase = IF n = m + Len(internals) THEN "running" ELSE "error"]
        /\ times' = [i \in DOMAIN times |->
               IF i \in sentIds \cup confirmed THEN times[i] + 1 ELSE times[i]]
        /\ receipts' = receipts \cup sentIds
        /\ IF run.kind = "scheduled" \/ sentIds = {} THEN UNCHANGED <<queueVars, faults>>
           ELSE Reap(sentIds)
        /\ IF run.kind = "scheduled" THEN UNCHANGED <<unconfirmed, reporting, reported>>
           ELSE Verdict(confirmed) /\ unconfirmed' = Kept(unconfirmed, confirmed)
        /\ UNCHANGED <<remembered, deferred, attempts, operation, history, halted>>

\* run_end.  Whatever came in after the last look at the mailbox stays in it.
Finish ==
    /\ run.phase = "running"
    /\ \E end \in IF run.stop THEN {"aborted"} ELSE {"done", "error"} :
           run' = [run EXCEPT !.phase = end]
    /\ UNCHANGED <<remembered, queueVars, boxVars, reportVars, operation, receipts, times,
                   history, halted, faults>>

\* The scheduler only releases the session: nothing is reclaimed or drained.
SettleScheduled ==
    /\ run.kind = "scheduled" /\ run.phase \in {"done", "error", "aborted"}
    /\ StayIdle /\ mailbox' = <<>> /\ internals' = <<>> /\ unconfirmed' = <<>>
    /\ halted' = (halted \/ run.phase # "done")
    /\ UNCHANGED <<queueVars, deferred, attempts, reporting, reported, operation,
                   receipts, times, history, faults>>

\* flushDeferred on a session that is free: refused launches give their report back,
\* the first that succeeds leaves the rest to its run.
FlushUpTo(list, k, base, f) ==
    LET refused == {list[i] : i \in 1 .. k}
    IN  /\ reporting' = base \ refused
        /\ reported' = [r \in Reports |->
               IF r \in refused \cup (reporting \ base) THEN "pending" ELSE reported[r]]
        /\ IF k < Len(list)
           THEN /\ Launch("internal", <<list[k + 1]>>)
                /\ unconfirmed' = <<list[k + 1]>>
                /\ deferred' = SubSeq(list, k + 2, Len(list))
                /\ attempts' = IF k + 2 > Len(list) THEN 0 ELSE 1
                /\ faults' = f + k
           ELSE /\ unconfirmed' = <<>> /\ deferred' = <<>>
                /\ attempts' = IF list = <<>> THEN attempts ELSE 0

\* Mutant: what the run did not consume is forgotten.
Forgotten == deferred

\* reclaimUnconfirmed: after a normal end the rest is delivered again, first.
Reclaimed == IF run.phase = "done" THEN unconfirmed \o deferred ELSE deferred

\* runSettled, after release().
Settle ==
    LET list == Reclaimed
        base == IF run.phase = "done" THEN reporting ELSE reporting \ ToSet(unconfirmed)
    IN  /\ run.phase \in {"done", "error", "aborted"} /\ run.kind # "scheduled"
        /\ mailbox' = <<>> /\ internals' = <<>>
        /\ halted' = (halted \/ run.phase # "done")
        /\ \E k \in 0 .. Len(list) :
               /\ FlushUpTo(list, k, base, faults)
               /\ IF k < Len(list) THEN UNCHANGED queueVars
                  ELSE IF run.phase = "done" THEN DrainFrom(entry, disk, faults + k)
                  ELSE StayIdle /\ faults' = faults + k /\ UNCHANGED queueVars
        /\ UNCHANGED <<operation, receipts, times, history>>

-----------------------------------------------------------------------------
(* Internal inputs *)

\* Mutant: only the status in the database is asked, which says pending until the
\* report is consumed.
NotUnderWay(r) == FALSE

UnderWay(r) == r \in reporting

\* report and deliverInternal.
Deliver(r) ==
    /\ ~UnderWay(r)
    /\ \/ /\ Active /\ ~run.stop
          /\ internals' = Append(internals, r) /\ unconfirmed' = Append(unconfirmed, r)
          /\ reporting' = reporting \cup {r} /\ reported' = [reported EXCEPT ![r] = "pending"]
          /\ UNCHANGED <<runVars, deferred, attempts, faults>>
       \/ /\ Busy /\ ~(Active /\ ~run.stop)
          /\ deferred' = Append(deferred, r)
          /\ attempts' = IF attempts = 0 THEN 1 ELSE attempts
          /\ reporting' = reporting \cup {r} /\ reported' = [reported EXCEPT ![r] = "pending"]
          /\ UNCHANGED <<runVars, internals, unconfirmed, faults>>
       \/ /\ ~Busy
          /\ reported' = [reported EXCEPT ![r] = "pending"]
          /\ \/ /\ Launch("internal", <<r>>) /\ unconfirmed' = <<r>>
                /\ reporting' = reporting \cup {r} /\ UNCHANGED faults
             \/ faults' = faults + 1 /\ UNCHANGED <<runVars, unconfirmed, reporting>>
          /\ UNCHANGED <<internals, deferred, attempts>>
    /\ UNCHANGED <<queueVars, mailbox, operation, receipts, times, history>>

\* childFinished.
ChildFinished(r) == reported[r] = "none" /\ remembered /\ Deliver(r) /\ UNCHANGED halted
\* The child was aborted, or the process knows no options to report with
\* (blocked): the report waits for the user.
ChildWaits(r) ==
    /\ reported[r] = "none" /\ reported' = [reported EXCEPT ![r] = "pending"]
    /\ UNCHANGED <<queueVars, runVars, boxVars, unconfirmed, deferred, attempts, reporting,
                   operation, receipts, times, history, halted, faults>>

\* reportManually, with the options the renderer falls back to.
ReportManually(r) == reported[r] = "pending" /\ Deliver(r) /\ halted' = FALSE

\* flushIntoActive: every waiting input goes into the mailbox, or back.
FlushIntoActive ==
    /\ Active
    /\ IF run.stop
       THEN attempts' = 1 /\ UNCHANGED <<internals, unconfirmed, deferred>>
       ELSE /\ internals' = internals \o deferred
            /\ unconfirmed' = unconfirmed \o deferred
            /\ deferred' = <<>> /\ attempts' = 0
    /\ UNCHANGED <<queueVars, runVars, mailbox, reporting, reported, faults>>

\* Mutant: the timer is armed again and again.
NeverGiveUp ==
    /\ ~Active /\ Busy /\ attempts' = attempts + 1
    /\ UNCHANGED <<queueVars, runVars, boxVars, unconfirmed, deferred, reporting,
                   reported, faults>>

\* Nobody frees the session: the reports are given back.
GiveUp ==
    /\ ~Active /\ Busy
    /\ IF attempts >= MaxAttempts
       THEN /\ reporting' = reporting \ ToSet(deferred)
            /\ reported' = [r \in Reports |->
                   IF r \in ToSet(deferred) THEN "pending" ELSE reported[r]]
            /\ deferred' = <<>> /\ attempts' = 0
       ELSE attempts' = attempts + 1 /\ UNCHANGED <<reporting, reported, deferred>>
    /\ UNCHANGED <<queueVars, runVars, boxVars, unconfirmed, faults>>

\* The retry timer of scheduleRetry.
RetryTick ==
    /\ attempts > 0
    /\ \/ /\ deferred = <<>> /\ attempts' = 0
          /\ UNCHANGED <<queueVars, runVars, boxVars, unconfirmed, deferred, reporting,
                         reported, faults>>
       \/ deferred # <<>> /\ (FlushIntoActive \/ GiveUp)
       \/ /\ deferred # <<>> /\ ~Busy
          /\ \E k \in 0 .. Len(deferred) :
                 /\ FlushUpTo(deferred, k, reporting, faults)
                 /\ k = Len(deferred) => faults' = faults + k /\ UNCHANGED runVars
          /\ UNCHANGED <<queueVars, boxVars>>
    /\ UNCHANGED <<operation, receipts, times, history, halted>>

-----------------------------------------------------------------------------
(* Around it *)

\* acquireSessionOperation and its release: compactContext.
Operation ==
    /\ HistoryOps
    /\ \/ ~Busy /\ operation' = TRUE
       \/ operation /\ operation' = FALSE
    /\ UNCHANGED <<queueVars, runVars, boxVars, reportVars, receipts, times, history,
                   halted, faults>>

\* The process dies; the next one reads the queue back and waits for the user.
Crash ==
    /\ entry' = disk /\ dirty' = FALSE
    /\ run' = NoRun /\ remembered' = FALSE /\ mailbox' = <<>> /\ internals' = <<>>
    /\ unconfirmed' = <<>> /\ deferred' = <<>> /\ attempts' = 0 /\ reporting' = {}
    /\ operation' = FALSE /\ halted' = TRUE
    /\ lost' = lost \cup {m \in accepted \ withdrawn :
                              times[m] = 0 /\ m \notin ToSet(disk.queued)}
    /\ UNCHANGED <<disk, reported, receipts, times, typed, accepted, withdrawn,
                   faults>>

User ==
    \/ \E m \in Messages : Enqueue(m) \/ Promote(m) \/ Edit(m) \/ Withdraw(m)
    \/ Refused \/ Resume \/ Send \/ TypeDraft \/ SaveDraft \/ Abort
    \/ \E r \in Reports : ReportManually(r)

Inputs == Len(mailbox) + Len(internals)
Driver ==
    \/ Prepared \/ PrepareFails \/ Finish \/ Settle \/ SettleScheduled
    \/ \E n \in 0 .. Inputs : Inject(n)

Next ==
    /\ \/ User \/ Driver \/ RetryTick \/ Operation \/ Crash
       \/ \E r \in Reports : ChildFinished(r) \/ ChildWaits(r)
    /\ faults' <= MaxFaults

Spec == Init /\ [][Next]_vars

\* Runs prepare, end and settle, timers fire: nothing else has to happen.
Fairness ==
    /\ WF_vars((Prepared \/ PrepareFails) /\ faults' <= MaxFaults)
    /\ WF_vars(Finish) /\ WF_vars(SettleScheduled)
    /\ WF_vars(Settle /\ faults' <= MaxFaults)
    /\ WF_vars(RetryTick /\ faults' <= MaxFaults)
FairSpec == Spec /\ Fairness

-----------------------------------------------------------------------------
(* Properties *)

\* Whatever combination of drains, mailboxes, refused writes and restarts a queued
\* message goes through, it is never committed as a user message twice (the
\* receipts of session-runtime.ts:449-473 and the removal before the launch).
NothingTwice == \A m \in Messages : times[m] <= 1

\* A message that was confirmed is at every moment in the queue, the input of the
\* run being prepared, a message of the session, taken back by the user, or among
\* the ones an unprepared run or a crash took with it: no drain, put-back, edit or
\* reap loses one by itself.
Accounted ==
    \A m \in accepted :
        \/ m \in withdrawn \cup lost \/ times[m] > 0
        \/ m \in ToSet(entry.queued) \/ m \in ToSet(run.carried)

\* enqueue confirms nothing that a crash right after it would lose: the message is
\* on disk, or already the input of a run.
AckedIsSaved ==
    [][\A m \in accepted' \ accepted :
           m \in ToSet(disk'.queued) \/ m \in ToSet(run'.carried)]_vars

\* An entry that is not marked dirty, which nobody will write again, is on disk as
\* it is in memory, through rollbacks, failed put-backs and failed reaps.
CleanMeansSaved == ~dirty => disk = entry

\* What a run is about to inject is what the user sees promoted, with the text as
\* last edited, however edits, withdrawals and injections interleave.
MailboxIsCurrent ==
    \A i \in DOMAIN mailbox :
        Active /\ run.kind # "scheduled" =>
            /\ mailbox[i].id \in ToSet(entry.promoted)
            /\ mailbox[i].text = entry.text[mailbox[i].id]

\* A message the user dropped or took back before it was sent is never sent: not
\* from a mailbox, a stale disk copy or a put-back batch.
WithdrawnStaysOut == \A m \in withdrawn : times[m] = 0

\* A report that is under way has somebody who will resolve it: a run that has yet
\* to consume or to give it back, or a retry timer.
ReportsTracked ==
    /\ reporting = ToSet(deferred) \cup ToSet(unconfirmed)
    /\ deferred # <<>> => attempts > 0 \/ run.phase # "idle"
    /\ unconfirmed # <<>> => run.phase # "idle"

\* A receipt says "reported" only if the main agent got the report, and then once.
ReportedOnce ==
    \A r \in Reports : times[r] <= 1 /\ (reported[r] = "reported" => times[r] = 1)

\* The queue does not wait for nothing: when the session is free and no stop, error
\* or restart left it to the user, there is nothing in it (session-runtime.ts:10-11).
QueueMovesOn == ~Busy /\ ~halted /\ faults = 0 => entry.queued = <<>>

\* A promoted message is not overtaken by one promoted after it when a run ends and
\* the batch is merged (queued-input.ts:240-241).
SentInPromotedOrder ==
    [][run.phase = "done" /\ run'.kind = "queued" /\ run'.phase = "preparing" =>
           \A i, j \in DOMAIN entry.promoted :
               i < j /\ entry.promoted[j] \in ToSet(run'.carried)
                   => entry.promoted[i] \in ToSet(run'.carried)]_vars

\* An enqueue that is answered with an error has not queued the message: who keeps
\* the draft and sends it again does not send it twice (session-runtime.ts:276-277).
RefusedStaysOut ==
    \A m \in typed \ accepted : m \notin ToSet(entry.queued) /\ times[m] = 0

\* After a stop, an error or a restart queued messages wait for the user
\* (session-runtime.ts:19-23).
QueueWaitsAfterStop == run.kind = "queued" => ~halted

\* A queued message does not disappear (session-runtime.ts:396).
NothingDisappears == lost = {}

\* Every report under way is resolved: consumed, or back with the user.
ReportResolved == \A r \in Reports : r \in reporting ~> r \notin reporting
=============================================================================
