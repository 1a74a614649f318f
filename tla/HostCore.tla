------------------------------- MODULE HostCore -------------------------------
(***************************************************************************)
(* The Host execution core: the drain that turns the queued intents of an  *)
(* agent into device tasks, and device terminals into conclusions          *)
(* (packages/server/src/execution-core: core.ts, transitions.ts,           *)
(* submit.ts, ledger.ts).                                                  *)
(*                                                                         *)
(* The ledger is one SQLite row: every transaction is one step.  A scan    *)
(* awaits the SDK between its transactions, and holds what it read before  *)
(* the await: a copy of the intent, a terminal, an attempt.  Meanwhile the *)
(* Host enqueues and cancels, memory is blocked and freed, devices claim   *)
(* and report, time passes, the process dies.  Only the scan wake (a       *)
(* durable one-shot wake of the SDK) and the timer of live tasks bring the *)
(* scan back.                                                              *)
(*                                                                         *)
(* This is the FIFO of one agent: the heads of other agents only add time  *)
(* between the pass that took the copy and the reconcile that uses it.     *)
(* Intents are plain ones; those of routine occurrences are in Routines.   *)
(***************************************************************************)
EXTENDS Naturals, FiniteSets

CONSTANTS
  Intent,        \* the intents: numbers, in the order they are enqueued
  MaxAttempts,   \* MaxAttempts[i]: retry.maxAttempts
  Cancellable,   \* intents the Host may cancel
  HasMemory,     \* the Host has a memory (options.memory)
  Publishing,    \* intents whose outcome publishes a projection of its own
  MaxCount,      \* projectionOutboxLimits.maxCount
  MaxFaults      \* bound on failed calls, crashes, blocks, holds and foreign cancellations

None       == 0
Generation == 0 .. 2
Task       == Intent \X Generation
Waiting    == {"queued", "backoff", "memory_blocked"}
Phase      == {"absent", "inflight", "settled"} \union Waiting
Conclusion == {"none", "succeeded", "failed", "stopped"}   \* a decline is failed; cancelled and expired are stopped
Terminal   == {"complete", "retry", "fail", "cancelled"}   \* retry: a busy decline, or a failure that the policy retries;
                                                            \* fail: any other failure or decline
Row        == [phase : Phase, generation : Generation, attempts : 0 .. 3, cancelReason : BOOLEAN, conclusion : Conclusion]
Execution  == [submission : {"reserved", "uncertain", "delivered"}, started : BOOLEAN]
Attempt    == [claimed : BOOLEAN, cancellation : BOOLEAN]
Server     == [attempt : BOOLEAN, delivered : BOOLEAN, claimed : BOOLEAN, cancellation : BOOLEAN,
               terminal : {"none"} \union Terminal, final : BOOLEAN]
Step       == {"idle", "pass", "reconcile", "attempt", "cancel", "terminal", "authority", "finish", "submit", "send", "sent", "arm"}
Moment     == {<<"soon", None>>} \union ({"ready", "overdue"} \X Intent)
ScanState  == [pc : Step, at : Intent \union {None}, phase : Phase, cancelReason : BOOLEAN, changed : BOOLEAN,
               failed : BOOLEAN, terminal : {"none"} \union Terminal, attempt : Attempt]

ASSUME HostAssumption ==
  /\ Intent \subseteq Nat \ {None} /\ IsFiniteSet(Intent)
  /\ MaxAttempts \in [Intent -> 1 .. 3]
  /\ {Cancellable, Publishing} \subseteq SUBSET Intent
  /\ HasMemory \in BOOLEAN /\ MaxCount \in Nat /\ MaxFaults \in Nat

VARIABLES
  \* the ledger
  row,        \* row[i]: the intent
  execution,  \* execution[t]: what the ledger knows of the task
  applied,    \* tasks whose outcome was applied
  backlog,    \* projection rows of the outbox
  scanWake,   \* the moments the scan wake is armed for; {} is no wake
  wakeRow,    \* its schedule row is in the outbox
  \* the SDK
  wake,       \* it holds the scan wake
  server,     \* server[t]: the task in the cloud
  \* the process
  scan,       \* the scan: its step and its local variables
  again,      \* a drain was asked for
  up, live,   \* running; the tasks that events will report
  events,     \* the event subscription is alive
  noticed,    \* the memory page's notice: none, to be handled, or its wakes to flush
  \* what the Host decides, and the time
  memory,     \* "ok", "blocked" or "moved"
  admitting,  \* admitSubmit
  clock,      \* clock[i]: "early" before notBefore, then "ready", "overdue" from waitUntil on
  faults

ledger  == <<row, execution, applied, backlog>>
wakes   == <<scanWake, wakeRow, wake>>
process == <<up, live, events, noticed>>
world   == <<memory, admitting, clock>>
vars    == <<ledger, wakes, server, scan, again, process, world, faults>>

NoIntent  == [phase |-> "absent", generation |-> 0, attempts |-> 0, cancelReason |-> FALSE, conclusion |-> "none"]
NoServer  == [attempt |-> FALSE, delivered |-> FALSE, claimed |-> FALSE, cancellation |-> FALSE,
              terminal |-> "none", final |-> FALSE]
NoAttempt == [claimed |-> FALSE, cancellation |-> FALSE]
Idle      == [pc |-> "idle", at |-> None, phase |-> "absent", cancelReason |-> FALSE, changed |-> FALSE,
              failed |-> FALSE, terminal |-> "none", attempt |-> NoAttempt]

TypeOK ==
  /\ row \in [Intent -> Row]
  /\ execution \in [Task -> Execution]
  /\ applied \subseteq Task
  /\ backlog \in 0 .. MaxCount
  /\ scanWake \subseteq Moment /\ wakeRow \in BOOLEAN /\ wake \in BOOLEAN
  /\ server \in [Task -> Server]
  /\ scan \in ScanState
  /\ again \in BOOLEAN
  /\ up \in BOOLEAN /\ live \subseteq Task /\ events \in BOOLEAN /\ noticed \in {"no", "changed", "flush"}
  /\ memory \in {"ok", "blocked", "moved"} /\ admitting \in BOOLEAN
  /\ clock \in [Intent -> {"early", "ready", "overdue"}]
  /\ faults \in 0 .. MaxFaults

Init ==
  /\ row = [i \in Intent |-> NoIntent]
  /\ execution = [t \in Task |-> [submission |-> "reserved", started |-> FALSE]]
  /\ applied = {} /\ backlog = 0
  /\ scanWake = {} /\ wakeRow = FALSE /\ wake = FALSE
  /\ server = [t \in Task |-> NoServer]
  /\ scan = Idle /\ again = FALSE
  /\ up = TRUE /\ live = {} /\ events = TRUE /\ noticed = "no"
  /\ memory = "ok" /\ admitting = TRUE
  /\ clock = [i \in Intent |-> "ready"]
  /\ faults = 0

Fault == faults < MaxFaults /\ faults' = faults + 1

Late(i)   == clock[i] = "overdue"
TaskOf(i) == <<i, row[i].generation>>
Open(r)   == {i \in Intent : r[i].phase \notin {"absent", "settled"}}

-----------------------------------------------------------------------------
(* The ledger's transitions *)

\* settle: a conclusion is written once.
Settled(r, conclusion) ==
  IF r.conclusion # "none" THEN r ELSE [r EXCEPT !.phase = "settled", !.conclusion = conclusion]

\* A transaction whose projections exceed the limit is rolled back.
Fits(n) == backlog + n <= MaxCount

\* queuedExpiry
Expired == {i \in Intent : row[i].phase \in Waiting /\ (row[i].cancelReason \/ Late(i))}

\* fifoHeads: the open intent that was enqueued first.
IsHead(r, i) == i \in Open(r) /\ \A j \in Open(r) : i <= j

\* The phase a blocked intent was in, which only the first attempt tells apart.
Resume(r) == IF r.attempts = 0 THEN "queued" ELSE "backoff"

\* resumeMemory: blocked intents go on where memory is in order, and fail where
\* it is no longer theirs.
Blocked == {i \in Intent : row[i].phase = "memory_blocked"}
ResumedRows(m) ==
  [i \in Intent |-> CASE i \in Blocked /\ m = "ok"    -> [row[i] EXCEPT !.phase = Resume(row[i])]
                      [] i \in Blocked /\ m = "moved" -> Settled(row[i], "failed")
                      [] OTHER                        -> row[i]]
ResumeResults == IF memory = "moved" THEN Cardinality(Blocked) ELSE 0

-----------------------------------------------------------------------------
(* armScan: the moments the next scan is needed at.  A head is ready at      *)
(* readyAt, which is soon or never.                                          *)

\* Mutant for ScanCovered: while events flow, every task in flight counts as live.
DueWhileEvents(r, readyAt, i) ==
  LET end == <<"overdue", i>>
  IN CASE r[i].phase = "memory_blocked" -> {end}
       [] r[i].phase = "backoff"        -> IF admitting THEN {<<"ready", i>>, end} ELSE {end}
       [] r[i].phase = "queued"         -> IF admitting /\ IsHead(r, i) THEN readyAt \union {end} ELSE {end}
       [] r[i].phase = "inflight"       -> IF events THEN {} ELSE {<<"soon", None>>, end}

Due(r, readyAt, i) ==
  LET end  == <<"overdue", i>>
      task == <<i, r[i].generation>>
  IN CASE r[i].phase = "memory_blocked" -> {end}
       [] r[i].phase = "backoff"        -> IF admitting THEN {<<"ready", i>>, end} ELSE {end}
       [] r[i].phase = "queued"         -> IF admitting /\ IsHead(r, i) THEN readyAt \union {end} ELSE {end}
       [] r[i].phase = "inflight"       ->
            IF events /\ task \in live THEN {}
            ELSE {<<"soon", None>>} \union (IF execution[task].started THEN {} ELSE {end})

AllDue(r, readyAt) == UNION {Due(r, readyAt, i) : i \in Open(r)}
Soon == {<<"soon", None>>}

Passed(m) == \/ m[1] = "ready" /\ clock[m[2]] # "early"
             \/ m[1] = "overdue" /\ Late(m[2])

\* The wake is dropped when nothing is due, kept when it is due in time and
\* still to come, and replaced otherwise.  (One that comes too early is kept
\* as well: its delivery is a Hint.)
Kept(due)  == scanWake = due /\ \A m \in due : ~Passed(m)
Armed(due) == IF Kept(due) THEN [row |-> wakeRow, sdk |-> wake] ELSE [row |-> due # {}, sdk |-> FALSE]

\* flushWakes: the SDK takes the schedule row, or the call fails and the row stays.
Flushed(w)     == wakeRow' = FALSE /\ wake' = (w.sdk \/ w.row) /\ UNCHANGED faults
FlushFailed(w) == w.row /\ Fault /\ wakeRow' = TRUE /\ wake' = w.sdk
Current        == [row |-> wakeRow, sdk |-> wake]

-----------------------------------------------------------------------------
(* Entry points: each ends in drain(), which starts a scan or asks the       *)
(* running one for another.                                                  *)

Drain == again' = TRUE

Enqueue(i) ==
  /\ up
  /\ row[i].phase = "absent"
  /\ \A j \in Intent : j < i => row[j].phase # "absent"
  /\ row' = [row EXCEPT ![i].phase = "queued"]
  /\ Drain
  /\ UNCHANGED <<execution, applied, backlog, wakes, server, scan, process, world, faults>>

Cancel(i) ==
  /\ up
  /\ i \in Cancellable \intersect Open(row) /\ ~row[i].cancelReason
  /\ row' = [row EXCEPT ![i].cancelReason = TRUE]
  /\ Drain
  /\ UNCHANGED <<execution, applied, backlog, wakes, server, scan, process, world, faults>>

\* The SDK delivers the scan wake once one of its moments has come.
Consume ==
  /\ up /\ wake
  /\ \E m \in scanWake : m \in Soon \/ Passed(m)
  /\ scanWake' = {} /\ wake' = FALSE
  /\ Drain
  /\ UNCHANGED <<ledger, wakeRow, server, scan, process, world, faults>>

\* The timers of a drain: live tasks are scanned again, a failed wake call is retried.
TimerDrain ==
  /\ up /\ scan.pc = "idle" /\ ~again
  /\ live # {} \/ (wakeRow /\ noticed = "no")
  /\ Drain
  /\ UNCHANGED <<ledger, wakes, server, scan, process, world, faults>>

\* A drain that nothing waits for: an event, a cancel probe that found a
\* terminal, a stale or repeated wake.
Hint ==
  /\ up /\ scan.pc = "idle" /\ ~again
  /\ Open(row) # {}
  /\ Drain
  /\ UNCHANGED <<ledger, wakes, server, scan, process, world, faults>>

-----------------------------------------------------------------------------
(* The scan *)

ScanStart ==
  /\ up /\ scan.pc = "idle" /\ again
  /\ again' = FALSE
  /\ \/ Flushed(Current) /\ scan' = [Idle EXCEPT !.pc = "pass"]
     \/ FlushFailed(Current) /\ scan' = [Idle EXCEPT !.pc = "pass", !.failed = TRUE]
  /\ UNCHANGED <<ledger, scanWake, server, process, world>>

\* The end of a reconcile: another pass after a change, or the end of the scan.
Done(changed) == scan' = [Idle EXCEPT !.pc = IF changed THEN "pass" ELSE "arm", !.failed = scan.failed]

\* A transaction that settles n intents, and ends the scan when it is refused.
Settle(rows, n, next) ==
  \/ Fits(n) /\ row' = rows /\ backlog' = backlog + n /\ next
  \/ ~Fits(n) /\ Done(FALSE) /\ UNCHANGED <<row, backlog>>

SettleAt(i, conclusion, n) == Settle([row EXCEPT ![i] = Settled(row[i], conclusion)], n, Done(TRUE))

ScanUnchanged == UNCHANGED <<wakes, again, process, world, faults>>

\* The snapshot's copy of the head goes into the reconcile.
TakeHead(rows) ==
  IF Open(rows) = {} THEN Done(FALSE)
  ELSE \E i \in Open(rows) :
         /\ IsHead(rows, i)
         /\ scan' = [Idle EXCEPT !.pc = "reconcile", !.failed = scan.failed, !.at = i,
                                 !.phase = rows[i].phase, !.cancelReason = rows[i].cancelReason]

\* A pass settles what has expired in the queue, then takes the head.
Pass ==
  LET rows == [i \in Intent |-> IF i \in Expired THEN Settled(row[i], "stopped") ELSE row[i]]
  IN /\ scan.pc = "pass"
     /\ Settle(rows, Cardinality(Expired), TakeHead(rows))
     /\ UNCHANGED <<execution, applied, server>> /\ ScanUnchanged

\* A head that was blocked goes on only if memory lets it.
ReconcileBlocked ==
  LET i == scan.at
      rows == ResumedRows(memory)
  IN /\ scan.pc = "reconcile" /\ scan.phase = "memory_blocked"
     /\ Settle(rows, ResumeResults,
               IF rows = row \/ rows[i].phase = "settled" THEN Done(rows # row)
               ELSE scan' = [scan EXCEPT !.phase = rows[i].phase, !.cancelReason = rows[i].cancelReason])
     /\ UNCHANGED <<execution, applied, server>> /\ ScanUnchanged

\* begin: the transaction decides on the row, not on the copy.  (A sealed
\* execution on a Host without a sealed lane fails as moved memory does.)
CanBegin(i) == row[i].phase \in {"queued", "backoff"} /\ ~row[i].cancelReason /\ ~Late(i) /\ admitting

\* Only a backoff that is over gets a new generation, and with it a new task.
Begun(r) == [r EXCEPT !.phase = "inflight", !.attempts = @ + 1,
                      !.generation = IF r.phase = "backoff" THEN @ + 1 ELSE @]

Begin ==
  LET i == scan.at
      next == Begun(row[i])
  IN /\ scan.pc = "reconcile"
     /\ scan.phase = "queued" \/ (scan.phase = "backoff" /\ clock[i] # "early")
     /\ \/ /\ ~CanBegin(i)
           /\ Done(row[i].phase = "settled")
           /\ UNCHANGED <<row, backlog, execution>>
        \/ /\ CanBegin(i) /\ memory = "moved"
           /\ SettleAt(i, "failed", 1)
           /\ UNCHANGED execution
        \/ /\ CanBegin(i) /\ memory = "blocked"
           /\ row' = [row EXCEPT ![i].phase = "memory_blocked"]
           /\ Done(FALSE)
           /\ UNCHANGED <<backlog, execution>>
        \/ /\ CanBegin(i) /\ memory = "ok"
           /\ row' = [row EXCEPT ![i] = next]
           /\ execution' = [execution EXCEPT ![<<i, next.generation>>].submission = "uncertain"]
           /\ scan' = [scan EXCEPT !.pc = "submit", !.changed = TRUE]
           /\ UNCHANGED backlog
     /\ UNCHANGED <<applied, server>> /\ ScanUnchanged

ReconcileEarly ==
  /\ scan.pc = "reconcile" /\ scan.phase = "backoff" /\ clock[scan.at] = "early"
  /\ Done(FALSE)
  /\ UNCHANGED <<ledger, server>> /\ ScanUnchanged

\* Mutant for EventuallySettled: a submitted task has no deadline.
NeverExpires(t) == FALSE

\* A task that is overdue and was never seen to start.
Unstarted(t) == server[t].terminal = "none" /\ ~scan.cancelReason /\ ~execution[t].started /\ Late(t[1])

\* A head in flight: deviceTerminal is read, and an overdue intent is marked expired.
ReadTerminal ==
  LET i == scan.at
      t == TaskOf(i)
      late == Unstarted(t)
  IN /\ scan.pc = "reconcile" /\ scan.phase = "inflight"
     /\ row' = IF late THEN [row EXCEPT ![i].cancelReason = TRUE] ELSE row
     /\ scan' = [scan EXCEPT !.pc = "attempt", !.terminal = server[t].terminal, !.cancelReason = @ \/ late]
     /\ UNCHANGED <<execution, applied, backlog, server>> /\ ScanUnchanged

\* Mutant for SettledIsQuiet: a cancelled task is thought to be over.
QuietOnceCancelled(terminal, attempt) == attempt.cancellation /\ terminal = "none"

\* A cancelled task that no device has claimed never starts.
Quiet(terminal, attempt) == attempt.cancellation /\ ~attempt.claimed /\ terminal = "none"

\* What follows the reads: the claim is recorded, then the intent is settled,
\* finished, sent again or left alone.
Observe(terminal, attempt) ==
  LET i == scan.at
      t == TaskOf(i)
      quiet  == Quiet(terminal, attempt)
      resend == ~attempt.cancellation /\ ~scan.cancelReason /\ execution[t].submission # "delivered"
  IN /\ execution' = [execution EXCEPT ![t].started = @ \/ attempt.claimed]
     /\ \/ quiet /\ SettleAt(i, "stopped", 1)
        \/ /\ ~quiet
           /\ CASE terminal # "none" -> scan' = [scan EXCEPT !.pc = "authority", !.terminal = terminal, !.attempt = attempt]
                [] terminal = "none" /\ resend -> scan' = [scan EXCEPT !.pc = "submit"]
                [] OTHER -> Done(FALSE)
           /\ UNCHANGED <<row, backlog>>

\* Mutant for OneLiveTask: a cancelled intent is settled whether or not it was sent.
NeverSent(t) == TRUE

Unsent(t) == ~server[t].attempt

AttemptOf(t) == [claimed |-> server[t].claimed, cancellation |-> server[t].cancellation]

\* tasks.attempt: a cancelled intent without one was never sent, and never will be.
ReadAttempt ==
  LET i == scan.at
      stop == scan.cancelReason /\ scan.terminal = "none"
  IN /\ scan.pc = "attempt"
     /\ \/ ~stop /\ Observe(scan.terminal, AttemptOf(TaskOf(i)))
        \/ /\ stop /\ Unsent(TaskOf(i))
           /\ SettleAt(i, "stopped", 1)
           /\ UNCHANGED execution
        \/ /\ stop /\ ~Unsent(TaskOf(i))
           /\ scan' = [scan EXCEPT !.pc = "cancel"]
           /\ UNCHANGED <<row, backlog, execution>>
     /\ UNCHANGED <<applied, server>> /\ ScanUnchanged

\* In the cloud (see TaskLifecycle) an unfinished attempt gets its tombstone.
Cancelled(s) == IF s.final THEN s ELSE [s EXCEPT !.cancellation = TRUE]

\* tasks.cancel, and the attempt read back: nothing claims it in between.
CancelTask ==
  LET t == TaskOf(scan.at)
  IN /\ scan.pc = "cancel"
     /\ server' = [server EXCEPT ![t] = Cancelled(@)]
     /\ scan' = [scan EXCEPT !.pc = "terminal",
                   !.attempt = [claimed |-> server'[t].claimed, cancellation |-> server'[t].cancellation]]
     /\ UNCHANGED ledger /\ ScanUnchanged

RereadTerminal ==
  /\ scan.pc = "terminal"
  /\ Observe(server[TaskOf(scan.at)].terminal, scan.attempt)
  /\ UNCHANGED <<applied, server>> /\ ScanUnchanged

\* Mutant for NoCancelledOutcome: the attempt that was read before the terminal decides.
AuthorityBefore(t) == scan.attempt

\* The canonical attempt, whose cancellation outranks the terminal.
Authority(t) == AttemptOf(t)

\* With a terminal in hand the attempt is read once more, through an await: the
\* transaction that follows decides on this copy, whatever the cloud does meanwhile.
ReadAuthority ==
  /\ scan.pc = "authority"
  /\ scan' = [scan EXCEPT !.pc = "finish", !.attempt = Authority(TaskOf(scan.at))]
  /\ UNCHANGED <<ledger, server>> /\ ScanUnchanged

Retryable(i) == ~row[i].cancelReason /\ row[i].attempts < MaxAttempts[i] /\ ~Late(i)

\* Mutant for AppliedOnce: the marker outlives a transaction that is refused.
OutcomeKept(t, n) == applied \union {t}

\* The outcome and its marker are part of the transaction of n rows that settles.
Outcome(t, n) == IF Fits(n) THEN applied \union {t} ELSE applied

\* finish, one transaction.  A retryable terminal is tried again after a delay,
\* unless that reaches past the deadline.
Finish ==
  LET i == scan.at
      stopped == scan.attempt.cancellation \/ scan.terminal = "cancelled"
      rows    == IF i \in Publishing THEN 2 ELSE 1
  IN /\ scan.pc = "finish"
     /\ \/ stopped /\ SettleAt(i, "stopped", 1) /\ UNCHANGED <<applied, clock>>
        \/ /\ ~stopped /\ scan.terminal = "complete"
           /\ SettleAt(i, "succeeded", rows)
           /\ applied' = Outcome(TaskOf(i), rows)
           /\ UNCHANGED clock
        \/ /\ ~stopped /\ scan.terminal = "retry" /\ Retryable(i)
           /\ row' = [row EXCEPT ![i].phase = "backoff"]
           /\ clock' = [clock EXCEPT ![i] = "early"]
           /\ Done(TRUE)
           /\ UNCHANGED <<applied, backlog>>
        \/ /\ ~stopped /\ scan.terminal \in {"retry", "fail"}
           /\ SettleAt(i, "failed", 1)
           /\ UNCHANGED <<applied, clock>>
     /\ UNCHANGED <<execution, server, wakes, again, process, memory, admitting, faults>>

\* submitFrozen: the offer is read back; if it is not delivered, the row decides
\* whether to send, and the SDK reserves the attempt.
Submit ==
  LET i == scan.at
      t == TaskOf(i)
      open == ~server[t].delivered /\ ~row[i].cancelReason
  IN /\ scan.pc = "submit"
     /\ \/ /\ server[t].delivered
           /\ scan' = [scan EXCEPT !.pc = "sent"]
           /\ UNCHANGED <<row, server>>
        \/ /\ ~server[t].delivered /\ row[i].cancelReason
           /\ Done(scan.changed)
           /\ UNCHANGED <<row, server>>
        \/ /\ open /\ Late(i)
           /\ row' = [row EXCEPT ![i].cancelReason = TRUE]
           /\ Done(scan.changed)
           /\ UNCHANGED server
        \/ /\ open /\ ~Late(i) /\ ~admitting
           /\ Done(scan.changed)
           /\ UNCHANGED <<row, server>>
        \/ /\ open /\ ~Late(i) /\ admitting
           /\ server' = [server EXCEPT ![t].attempt = TRUE]
           /\ scan' = [scan EXCEPT !.pc = "send"]
           /\ UNCHANGED row
     /\ UNCHANGED <<execution, applied, backlog>> /\ ScanUnchanged

SendDeliver ==
  LET t == TaskOf(scan.at)
  IN /\ scan.pc = "send"
     /\ server' = [server EXCEPT ![t].delivered = TRUE]
     /\ live' = IF events THEN live \union {t} ELSE live
     /\ scan' = [scan EXCEPT !.pc = "sent"]
     /\ UNCHANGED <<ledger, wakes, again, up, events, noticed, world, faults>>

Sent ==
  /\ scan.pc = "sent"
  /\ execution' = [execution EXCEPT ![TaskOf(scan.at)].submission = "delivered"]
  /\ Done(scan.changed)
  /\ UNCHANGED <<row, applied, backlog, server>> /\ ScanUnchanged

\* A call of the SDK throws: the error is kept on the intent's outbox row, and
\* a submit stays uncertain.
CallFails ==
  /\ \/ scan.pc \in {"attempt", "cancel", "terminal", "authority", "submit", "send"}
     \/ scan.pc = "reconcile" /\ scan.phase = "inflight"
  /\ Fault
  /\ Done(FALSE)
  /\ UNCHANGED <<ledger, wakes, server, again, process, world>>

\* armLiveScan: live tasks that are no longer in flight are forgotten.
StillLive == {t \in live : t = TaskOf(t[1]) /\ row[t[1]].phase = "inflight"}

\* The scan is armed, refused or not, and flushed; what failed in the first
\* flush is skipped.
ScanEnd ==
  LET due  == AllDue(row, Soon)
      skip == scan.failed /\ wakeRow /\ Kept(due)
  IN /\ scan.pc = "arm"
     /\ scanWake' = due
     /\ \/ ~skip /\ (Flushed(Armed(due)) \/ FlushFailed(Armed(due)))
        \/ skip /\ UNCHANGED <<wakeRow, wake, faults>>
     /\ live' = StillLive
     /\ scan' = Idle
     /\ UNCHANGED <<ledger, server, again, up, events, noticed, world>>

-----------------------------------------------------------------------------
(* Memory, admission, events, the outbox and the process *)

\* Memory is withdrawn without a notice: a restore begins, a profile changes.
MemoryDrift ==
  /\ HasMemory /\ Fault
  /\ memory' \in {"blocked", "moved"} \ {memory}
  /\ UNCHANGED <<ledger, wakes, server, scan, again, process, admitting, clock>>

\* Memory is in order again: the restore is over, the placement is back.
MemoryFree ==
  /\ up /\ noticed = "no"
  /\ memory # "ok" /\ memory' = "ok"
  /\ noticed' = "changed"
  /\ UNCHANGED <<ledger, wakes, server, scan, again, up, live, events, admitting, clock, faults>>

\* The memory page tells its listener: blocked intents resume, the scan is armed.
\* A refused settlement ends it there.
MemoryChange ==
  LET rows == ResumedRows(memory)
      due  == AllDue(rows, Soon)
  IN /\ up /\ noticed = "changed"
     /\ \/ /\ Fits(ResumeResults)
           /\ row' = rows /\ backlog' = backlog + ResumeResults
           /\ scanWake' = due /\ wakeRow' = Armed(due).row /\ wake' = Armed(due).sdk
           /\ noticed' = "flush"
        \/ /\ ~Fits(ResumeResults)
           /\ noticed' = "no"
           /\ UNCHANGED <<row, backlog, wakes>>
     /\ UNCHANGED <<execution, applied, server, scan, again, up, live, events, world, faults>>

\* Its flush.  When the wake fails, the scan is armed once more, for the
\* deadlines alone; should that fail too, the row waits for a drain.
NoticeFlush ==
  /\ up /\ noticed = "flush"
  /\ noticed' = "no"
  /\ \/ Flushed(Current) /\ UNCHANGED scanWake
     \/ /\ wakeRow /\ Fault
        /\ scanWake' = AllDue(row, {})
        /\ \/ wakeRow' = FALSE /\ wake' = (scanWake' # {})
           \/ wakeRow' = (scanWake' # {}) /\ wake' = FALSE
  /\ UNCHANGED <<ledger, server, scan, again, up, live, events, world>>

\* The Host holds submits, and drains when it admits them again.
Hold ==
  /\ Fault
  /\ admitting /\ admitting' = FALSE
  /\ UNCHANGED <<ledger, wakes, server, scan, again, process, memory, clock>>

Admit ==
  /\ up
  /\ ~admitting /\ admitting' = TRUE
  /\ Drain
  /\ UNCHANGED <<ledger, wakes, server, scan, process, memory, clock, faults>>

\* The event stream ends: live tasks need durable scans again.
EventsEnd ==
  /\ up /\ events
  /\ Fault
  /\ events' = FALSE /\ live' = {}
  /\ Drain
  /\ UNCHANGED <<ledger, wakes, server, scan, up, noticed, world>>

\* flushProjections: the uploader takes a row, of a core that may not have
\* recovered yet.
Upload ==
  /\ backlog > 0 /\ backlog' = backlog - 1
  /\ UNCHANGED <<row, execution, applied, wakes, server, scan, again, process, world, faults>>

Crash ==
  /\ up /\ Fault
  /\ up' = FALSE /\ live' = {} /\ noticed' = "no"
  /\ scan' = Idle /\ again' = FALSE
  /\ UNCHANGED <<ledger, wakes, server, events, world>>

\* recover: the old scan wake is dropped, memory is tried, a drain arms anew.
\* A refused settlement fails it, and the Host starts again.
Recover ==
  /\ ~up
  /\ Fits(ResumeResults)
  /\ up' = TRUE /\ events' = TRUE
  /\ scanWake' = {} /\ wakeRow' = FALSE /\ wake' = FALSE
  /\ row' = ResumedRows(memory)
  /\ backlog' = backlog + ResumeResults
  /\ Drain
  /\ UNCHANGED <<execution, applied, server, scan, live, noticed, world, faults>>

-----------------------------------------------------------------------------
(* The cloud and its devices (see TaskLifecycle), and time *)

EnvUnchanged == UNCHANGED <<ledger, wakes, scan, again, process, world>>

Claim(t) ==
  /\ server[t].delivered /\ server[t].terminal = "none"
  /\ ~server[t].claimed /\ ~server[t].cancellation
  /\ server' = [server EXCEPT ![t].claimed = TRUE]
  /\ EnvUnchanged /\ UNCHANGED faults

\* A claimed task ends with a report, an unclaimed one may be declined.  With a
\* single attempt, a retryable end is no different from any other failure.
Report(t) ==
  /\ server[t].delivered /\ server[t].terminal = "none"
  /\ \E k \in Terminal :
       /\ ~server[t].claimed => k \in {"retry", "fail"}
       /\ k = "cancelled" => server[t].cancellation
       /\ k = "retry" => MaxAttempts[t[1]] > 1
       /\ server' = [server EXCEPT ![t].terminal = k]
  /\ EnvUnchanged /\ UNCHANGED faults

\* The attempt's status follows the receipt; until then it can be cancelled.
Finalise(t) ==
  /\ server[t].terminal # "none" /\ ~server[t].final
  /\ server' = [server EXCEPT ![t].final = TRUE]
  /\ EnvUnchanged /\ UNCHANGED faults

\* Somebody else cancels the task in the cloud.
ForeignCancel(t) ==
  /\ Fault
  /\ server[t].attempt /\ ~server[t].cancellation /\ ~server[t].final
  /\ server' = [server EXCEPT ![t] = Cancelled(@)]
  /\ EnvUnchanged

\* notBefore lies before waitUntil.
Tick(i) ==
  /\ i \in Open(row) /\ ~Late(i)
  /\ clock' = [clock EXCEPT ![i] = IF @ = "early" THEN "ready" ELSE "overdue"]
  /\ UNCHANGED <<ledger, wakes, server, scan, again, process, memory, admitting, faults>>

-----------------------------------------------------------------------------

ScanStep ==
  \/ ScanStart \/ Pass \/ ReconcileBlocked \/ Begin \/ ReconcileEarly
  \/ ReadTerminal \/ ReadAttempt \/ CancelTask \/ RereadTerminal \/ ReadAuthority \/ Finish
  \/ Submit \/ SendDeliver \/ Sent \/ ScanEnd

Next ==
  \/ \E i \in Intent : Enqueue(i) \/ Cancel(i) \/ Tick(i)
  \/ ScanStep \/ CallFails
  \/ Consume \/ TimerDrain \/ Hint
  \/ MemoryDrift \/ MemoryFree \/ MemoryChange \/ NoticeFlush \/ Hold \/ Admit \/ EventsEnd
  \/ Upload \/ Crash \/ Recover
  \/ \E t \in Task : Claim(t) \/ Report(t) \/ Finalise(t) \/ ForeignCancel(t)

Spec == Init /\ [][Next]_vars

\* The event loop runs what is due, timers and wakes fire, time passes, a crashed
\* Host is started again, the uploader works, and a claimed task ends.
Fairness ==
  /\ WF_vars(ScanStep) /\ WF_vars(Consume) /\ WF_vars(TimerDrain)
  /\ WF_vars(MemoryChange) /\ WF_vars(NoticeFlush)
  /\ WF_vars(Recover) /\ WF_vars(Upload)
  /\ \A i \in Intent : WF_vars(Tick(i))
  /\ \A t \in Task : WF_vars(server[t].claimed /\ Report(t)) /\ WF_vars(Finalise(t))

FairSpec == Spec /\ Fairness

-----------------------------------------------------------------------------
(* Properties *)

\* A task the device works on, or may still start.
Live(t) == /\ server[t].attempt /\ server[t].terminal = "none"
           /\ server[t].claimed \/ ~server[t].cancellation

\* "The core permits at most one writer execution in flight per Agent": over all
\* intents and generations, at most one task runs or can start.
OneLiveTask == \A t, u \in Task : Live(t) /\ Live(u) => t = u

\* A settled intent leaves nothing behind: none of its tasks runs or can start,
\* whatever submit was uncertain when it was settled.
SettledIsQuiet == \A t \in Task : row[t[1]].phase = "settled" => ~Live(t)

\* An outcome is applied exactly for the intents that succeeded, and once.
AppliedOnce ==
  \A i \in Intent :
    /\ Cardinality({t \in applied : t[1] = i}) <= 1
    /\ row[i].conclusion = "succeeded" <=> TaskOf(i) \in applied

\* The scan has read the attempt of t for the last time, and saw no cancellation.
Decided(t) == scan.pc = "finish" /\ TaskOf(scan.at) = t /\ ~scan.attempt.cancellation

\* A cancellation that came before that read, and before the outcome.
Outranked(t) == server[t].cancellation /\ t \notin applied /\ ~Decided(t)

\* "A successful terminal after accepted cancellation does not authorize outcome
\* application": no step applies the outcome of a cancelled task, or lets a scan
\* decide to, even where the task had succeeded and the scan had read its terminal
\* and its attempt before the cancellation came.  What a scan read last in
\* reconcile, before the cancellation, still counts: finish applies that outcome.
NoCancelledOutcome == [][\A t \in Task : Outranked(t) => Outranked(t)']_vars

\* Between scans something brings the scan back for every open intent: its wake,
\* in the outbox or with the SDK, or the timer of a live task.
ScanCovered ==
  up /\ scan.pc = "idle" /\ ~again =>
    \A i \in Open(row) : \/ scanWake # {} /\ (wakeRow \/ wake)
                         \/ row[i].phase = "inflight" /\ TaskOf(i) \in live

\* Again and again no intent is open, so every intent is concluded: behind other
\* intents of its agent, after failed calls and restarts, and past a full outbox
\* that the uploader empties.  This takes an outbox that holds the results of all
\* intents that expire together: a pass settles them in one transaction.
EventuallySettled == []<>(Open(row) = {})
=============================================================================
