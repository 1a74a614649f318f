------------------------------- MODULE Terminals -------------------------------
(***************************************************************************)
(* How the daemon gets the terminal of a task to the cloud: the queue that *)
(* commits it to the journal, the journal's row, the outbox that posts it, *)
(* the settlement of the cloud's answer, and the start that picks up what  *)
(* a crash or a failed stop left (packages/client/src/daemon:              *)
(* terminal-commit-queue.ts, journal/sqlite-journal.ts,                    *)
(* connection-manager.ts, create-daemon/start-*.ts, shutdown.ts).          *)
(*                                                                         *)
(* Only terminals are in the outbox here: other envelopes have no durable  *)
(* row.  The bytes of a terminal are one of four: the task's own result,   *)
(* the failure that stands for a result too large for the journal, the     *)
(* failure of an interrupted task, and the replacement of a sealed         *)
(* terminal that the cloud refused.                                        *)
(***************************************************************************)
EXTENDS Naturals, Sequences, FiniteSets, SequencesExt

CONSTANTS
  Task,       \* the offered tasks
  Sealed,     \* tasks whose result is sealed into a blob that the terminal names
  Oversized,  \* tasks whose result exceeds the journal's record bound
  MaxBatch,   \* MAX_MESSAGES_PER_BATCH
  MaxFaults   \* bound on failed calls, lost answers, stops and crashes

ASSUME TerminalsAssumption ==
  /\ IsFiniteSet(Task) /\ Sealed \subseteq Task /\ Oversized \subseteq Task
  /\ MaxBatch \in Nat \ {0} /\ MaxFaults \in Nat

Bytes    == {"result", "too_large", "interrupted", "replacement"}
Envelope == Task \X Bytes
NoBytes  == "none"
Row      == [state : {"none", "received", "admitted"}, bytes : Bytes \union {NoBytes},
             truth : {"none", "pending", "confirmed", "failed"}, replaced : BOOLEAN]
Entry    == [bytes : {NoBytes, "result", "replacement"}, pc : {"none", "wait", "prepare", "commit"}, ready : BOOLEAN]
Drain    == [pc : {"idle", "post", "settle", "delay"}, next : 1 .. MaxBatch + 1, same : BOOLEAN]

VARIABLES
  \* the journal
  journal,   \* journal[t]: the task's local state, its terminal, that terminal's truth state
  acked,     \* tasks whose offer the durable cursor has passed
  \* the process
  phase,     \* "up", "stopping", "stopped" or "down"
  work,      \* work[t]: what the runner does for the task
  queue,     \* queue[t]: the entry of the commit queue
  timer,     \* its retry timer is set
  session,   \* the connection: open or not
  outbox,    \* envelopes to post
  batch,     \* the batch in flight
  drain,     \* the drain of the outbox
  \* the cloud
  receipt,   \* receipt[t]: the terminal it recorded
  refused,   \* envelopes it refused
  \* bookkeeping
  runs,      \* runs[t]: how often the task was started
  faults

local == <<journal, acked>>
cloud == <<receipt, refused>>
conn  == <<session, outbox, batch, drain>>
vars  == <<local, phase, work, queue, timer, conn, cloud, runs, faults>>

NoEntry == [bytes |-> NoBytes, pc |-> "none", ready |-> FALSE]
NoDrain == [pc |-> "idle", next |-> 1, same |-> TRUE]
NoRow   == [state |-> "none", bytes |-> NoBytes, truth |-> "none", replaced |-> FALSE]

TypeOK ==
  /\ journal \in [Task -> Row]
  /\ acked \subseteq Task
  /\ phase \in {"up", "stopping", "stopped", "down"}
  /\ work \in [Task -> {"idle", "offered", "running"}]
  /\ queue \in [Task -> Entry]
  /\ timer \in BOOLEAN /\ session \in {"connecting", "open"}
  /\ outbox \in Seq(Envelope) /\ batch \in Seq(Envelope) /\ Len(batch) <= MaxBatch
  /\ drain \in Drain
  /\ receipt \in [Task -> Bytes \union {NoBytes}] /\ refused \subseteq Envelope
  /\ runs \in [Task -> Nat] /\ faults \in 0 .. MaxFaults

Init ==
  /\ journal = [t \in Task |-> NoRow] /\ acked = {}
  /\ phase = "up" /\ work = [t \in Task |-> "idle"]
  /\ queue = [t \in Task |-> NoEntry] /\ timer = FALSE
  /\ session = "connecting" /\ outbox = <<>> /\ batch = <<>> /\ drain = NoDrain
  /\ receipt = [t \in Task |-> NoBytes] /\ refused = {}
  /\ runs = [t \in Task |-> 0] /\ faults = 0

Fault == faults < MaxFaults /\ faults' = faults + 1

-----------------------------------------------------------------------------
(* TerminalCommitQueue *)

Pending(t) == queue[t].pc # "none"

\* A sealed terminal is sealed, and its blob uploaded, once.
FirstStep(t, bytes, ready) == IF ready \/ (bytes = "result" /\ t \notin Sealed) THEN "commit" ELSE "prepare"

\* attempt: an entry that waits starts; one that is under way goes on.
Attempted(t) ==
  IF queue[t].pc = "wait" THEN [queue[t] EXCEPT !.pc = FirstStep(t, queue[t].bytes, queue[t].ready)] ELSE queue[t]

\* enqueue: the entry the task already has is kept, and attempted.
Enqueued(t, bytes) ==
  IF Pending(t) THEN Attempted(t) ELSE [bytes |-> bytes, pc |-> FirstStep(t, bytes, FALSE), ready |-> FALSE]

Replaces(t) == queue[t].bytes = "replacement"
Refused(t)  == journal[t].bytes \in Bytes \ {"replacement"} /\ journal[t].truth = "failed"

\* A replacement is given up unless the terminal it was meant for is still the refused one.
Prepare(t) ==
  /\ queue[t].pc = "prepare"
  /\ \/ /\ Replaces(t) => Refused(t)
        /\ queue' = [queue EXCEPT ![t].pc = "commit", ![t].ready = TRUE]
     \/ /\ Replaces(t) /\ ~Refused(t)
        /\ queue' = [queue EXCEPT ![t] = NoEntry]
  /\ UNCHANGED <<local, phase, work, timer, conn, cloud, runs, faults>>

\* A failed entry waits for the timer, which a stopped queue does not set.
Failed(t) ==
  /\ queue' = [queue EXCEPT ![t].pc = "wait"]
  /\ timer' = (timer \/ phase = "up")

PrepareFails(t) ==
  /\ Fault
  /\ queue[t].pc = "prepare"
  /\ Failed(t)
  /\ UNCHANGED <<local, phase, work, conn, cloud, runs>>

\* mutant: the last terminal wins until it is confirmed
RecordedLast(row, bytes) ==
  IF row.truth = "confirmed" THEN row ELSE [row EXCEPT !.bytes = bytes, !.truth = "pending"]

\* recordTerminal: the first terminal stands; its own bytes make it pending
\* again, unless it is confirmed.  Only a result is recorded with the same
\* bytes twice: a failure is built anew, and has new ones.
Recorded(row, bytes) ==
  CASE row.bytes = NoBytes -> [row EXCEPT !.bytes = bytes, !.truth = "pending"]
    [] row.bytes = bytes /\ bytes = "result" /\ row.truth # "confirmed" -> [row EXCEPT !.truth = "pending"]
    [] OTHER -> row

\* replaceRefusedTerminal, which does nothing the second time.
Replaced(row) == [row EXCEPT !.bytes = "replacement", !.truth = "pending", !.replaced = TRUE]

\* The bytes an entry records for a task's own terminal.
Attempt(t) == IF t \in Oversized THEN "too_large" ELSE "result"

Written(t) ==
  IF Replaces(t) THEN (IF Refused(t) THEN Replaced(journal[t]) ELSE journal[t])
  ELSE Recorded(journal[t], Attempt(t))

\* send: an envelope that is still queued or in flight is not queued again.
Sent(e) == IF e \in Range(outbox) \union Range(batch) THEN outbox ELSE Append(outbox, e)

\* mutant: what was to be recorded goes out
OutgoingAttempted(t) == IF Replaces(t) THEN "replacement" ELSE Attempt(t)

\* What is durable goes out, not what was to be recorded.
Outgoing(t) == Written(t).bytes

\* An ended connection takes nothing.  The journal's calls are synchronous, so between its write
\* and the send nothing is received.
Commit(t) ==
  /\ queue[t].pc = "commit"
  /\ journal' = [journal EXCEPT ![t] = Written(t)]
  /\ outbox' = IF phase # "stopped" /\ Written(t).truth = "pending" THEN Sent(<<t, Outgoing(t)>>) ELSE outbox
  /\ queue' = [queue EXCEPT ![t] = NoEntry]
  /\ UNCHANGED <<acked, phase, work, timer, session, batch, drain, cloud, runs, faults>>

\* The write fails, or the read after it.
CommitFails(t) ==
  /\ Fault
  /\ queue[t].pc = "commit"
  /\ \/ UNCHANGED journal
     \/ journal' = [journal EXCEPT ![t] = Written(t)]
  /\ Failed(t)
  /\ UNCHANGED <<acked, phase, work, conn, cloud, runs>>

RetryTimer ==
  /\ phase = "up" /\ timer /\ timer' = FALSE
  /\ queue' = [t \in Task |-> Attempted(t)]
  /\ UNCHANGED <<local, phase, work, conn, cloud, runs, faults>>

-----------------------------------------------------------------------------
(* Offers and the runner *)

\* mutant: a task without a terminal is run
FreshWithoutTerminal(t) == journal[t].bytes = NoBytes

Fresh(t) == ~Pending(t) /\ journal[t].state # "admitted" /\ journal[t].bytes = NoBytes

\* The offer's row is durable before anything else.  A terminal that waits for
\* its commit is tried again, and a task that has left "received" is not run.
\* Offers that a stopping runner declines are left out.
Offer(t) ==
  /\ phase = "up" /\ session = "open"
  /\ t \notin acked /\ work[t] = "idle"
  /\ journal' = [journal EXCEPT ![t].state = IF @ = "none" THEN "received" ELSE @]
  /\ \/ /\ Pending(t)
        /\ queue' = [queue EXCEPT ![t] = Attempted(t)] /\ UNCHANGED work
     \/ /\ ~Pending(t) /\ ~Fresh(t)
        /\ UNCHANGED <<queue, work>>
     \/ /\ Fresh(t)
        /\ work' = [work EXCEPT ![t] = "offered"] /\ UNCHANGED queue
  /\ UNCHANGED <<acked, phase, timer, conn, cloud, runs, faults>>

\* The admission is durable before the task runs.
Admit(t) ==
  /\ phase \in {"up", "stopping"} /\ work[t] = "offered"
  /\ journal' = [journal EXCEPT ![t].state = "admitted"]
  /\ work' = [work EXCEPT ![t] = "running"]
  /\ runs' = [runs EXCEPT ![t] = @ + 1]
  /\ UNCHANGED <<acked, phase, queue, timer, conn, cloud, faults>>

\* The runner ends or declines the task; after a stop's deadline it may do so late.
Finish(t) ==
  /\ phase # "down" /\ work[t] # "idle"
  /\ work' = [work EXCEPT ![t] = "idle"]
  /\ queue' = [queue EXCEPT ![t] = Enqueued(t, "result")]
  /\ UNCHANGED <<local, phase, timer, conn, cloud, runs, faults>>

\* The handler ends when no commit of the task is pending, and the cursor moves.
AckOffer(t) ==
  /\ phase = "up" /\ work[t] # "offered" /\ ~Pending(t)
  /\ t \notin acked /\ (journal[t].state = "admitted" \/ journal[t].bytes # NoBytes)
  /\ acked' = acked \union {t}
  /\ UNCHANGED <<journal, phase, work, queue, timer, conn, cloud, runs, faults>>

-----------------------------------------------------------------------------
(* The connection *)

SessionOpen ==
  /\ phase \in {"up", "stopping"} /\ session = "connecting" /\ session' = "open"
  /\ drain' = [drain EXCEPT !.same = FALSE]
  /\ UNCHANGED <<local, phase, work, queue, timer, outbox, batch, cloud, runs, faults>>

SessionBreak ==
  /\ Fault
  /\ session = "open" /\ session' = "connecting"
  /\ UNCHANGED <<local, phase, work, queue, timer, outbox, batch, drain, cloud, runs>>

\* mutant: the whole outbox goes out at once
BatchAll == Len(outbox)

BatchSize == IF Len(outbox) < MaxBatch THEN Len(outbox) ELSE MaxBatch

DrainTake ==
  LET n == BatchSize
  IN /\ session = "open" /\ drain.pc = "idle" /\ outbox # <<>>
     /\ batch' = SubSeq(outbox, 1, n) /\ outbox' = SubSeq(outbox, n + 1, Len(outbox))
     /\ drain' = [pc |-> "post", next |-> 1, same |-> TRUE]
     /\ UNCHANGED <<local, phase, work, queue, timer, session, cloud, runs, faults>>

\* The cloud on one envelope: the first terminal it accepts is the task's
\* receipt, and a later one is accepted and leaves no trace.
FirstReceipt(e) == [receipt EXCEPT ![e[1]] = IF @ = NoBytes THEN e[2] ELSE @]

\* It works through the batch, envelope by envelope.  What it refused once it
\* refuses again, and what it recorded it does not refuse.
CloudReceives ==
  LET e == batch[drain.next]
      t == e[1]
  IN /\ drain.pc = "post" /\ drain.next <= Len(batch)
     /\ \/ e \notin refused /\ receipt' = FirstReceipt(e) /\ UNCHANGED refused
        \/ receipt[t] # e[2] /\ refused' = refused \union {e} /\ UNCHANGED receipt
     /\ drain' = [drain EXCEPT !.next = @ + 1]
     /\ UNCHANGED <<local, phase, work, queue, timer, session, outbox, batch, runs, faults>>

Answered ==
  /\ drain.pc = "post" /\ drain.next > Len(batch)
  /\ drain' = [drain EXCEPT !.pc = "settle", !.next = 1]
  /\ UNCHANGED <<local, phase, work, queue, timer, session, outbox, batch, cloud, runs, faults>>

\* mutant: a batch without an answer is dropped
RetainNone == batch' = <<>> /\ UNCHANGED outbox

\* The same envelopes go back to the front, in their order.
Retain == outbox' = batch \o outbox /\ batch' = <<>>

\* No answer, however far the cloud came: the session ends, unless it is a
\* newer one than the request's.
AnswerLost ==
  /\ drain.pc = "post" /\ Fault
  /\ Retain /\ drain' = NoDrain
  /\ session' = IF drain.same THEN "connecting" ELSE session
  /\ UNCHANGED <<local, phase, work, queue, timer, cloud, runs>>

\* terminalDisposition.  An answer for bytes that were replaced changes nothing.
Settled(row, e) ==
  IF row.bytes # e[2] \/ row.truth = "confirmed" THEN row
  ELSE [row EXCEPT !.truth = IF e \in refused THEN "failed" ELSE "confirmed"]

\* refusedReplacement: only a result that named its blob has one.
Replaceable(e) == e \in refused /\ e[1] \in Sealed /\ e[2] = "result"

Settle ==
  LET e == batch[drain.next]
      t == e[1]
  IN /\ drain.pc = "settle" /\ drain.next <= Len(batch)
     /\ journal' = [journal EXCEPT ![t] = Settled(@, e)]
     /\ queue' = IF Replaceable(e) THEN [queue EXCEPT ![t] = Enqueued(t, "replacement")] ELSE queue
     /\ drain' = [drain EXCEPT !.next = @ + 1]
     /\ UNCHANGED <<acked, phase, work, timer, session, outbox, batch, cloud, runs, faults>>

SettleDone ==
  /\ drain.pc = "settle" /\ drain.next > Len(batch)
  /\ batch' = <<>> /\ drain' = NoDrain
  /\ UNCHANGED <<local, phase, work, queue, timer, session, outbox, cloud, runs, faults>>

\* A local disposition fails: the whole batch is kept and sent again after a delay.
SettleFails ==
  /\ drain.pc = "settle" /\ drain.next <= Len(batch) /\ Fault
  /\ Retain /\ drain' = [NoDrain EXCEPT !.pc = "delay"]
  /\ UNCHANGED <<local, phase, work, queue, timer, session, cloud, runs>>

DrainAgain ==
  /\ drain.pc = "delay" /\ drain' = NoDrain
  /\ UNCHANGED <<local, phase, work, queue, timer, session, outbox, batch, cloud, runs, faults>>

-----------------------------------------------------------------------------
(* Stop, crash and start *)

\* Every entry is tried once more, and nothing after that.
Stop ==
  /\ phase = "up" /\ Fault
  /\ phase' = "stopping" /\ timer' = FALSE
  /\ queue' = [t \in Task |-> Attempted(t)]
  /\ UNCHANGED <<local, work, conn, cloud, runs>>

\* The connection goes, and with it the outbox; entries that failed stay.
StopEnd ==
  /\ phase = "stopping"
  /\ \A t \in Task : queue[t].pc \in {"none", "wait"}
  /\ phase' = "stopped"
  /\ session' = "connecting" /\ outbox' = <<>> /\ batch' = <<>> /\ drain' = NoDrain
  /\ UNCHANGED <<local, work, queue, timer, cloud, runs, faults>>

Crash ==
  /\ phase # "down" /\ Fault
  /\ phase' = "down"
  /\ work' = [t \in Task |-> "idle"]
  /\ queue' = [t \in Task |-> NoEntry] /\ timer' = FALSE
  /\ session' = "connecting" /\ outbox' = <<>> /\ batch' = <<>> /\ drain' = NoDrain
  /\ UNCHANGED <<local, cloud, runs>>

\* A task without a terminal was interrupted, unless its offer will come again
\* or the queue still holds its terminal.
Interrupted(t) ==
  /\ journal[t].state # "none" /\ journal[t].bytes = NoBytes
  /\ journal[t].state = "admitted" \/ t \in acked
  /\ ~Pending(t)

\* The rows a start replays: pending ones are sent, refused ones are replaced.
Start ==
  LET rows   == [t \in Task |-> IF Interrupted(t) THEN Recorded(journal[t], "interrupted") ELSE journal[t]]
      replay == {t \in Task : rows[t].truth = "pending"}
  IN /\ phase \in {"stopped", "down"} /\ phase' = "up"
     /\ journal' = rows
     /\ queue' = [t \in Task |-> IF ~Pending(t) /\ rows[t].truth = "failed" /\ Replaceable(<<t, rows[t].bytes>>)
                                 THEN Enqueued(t, "replacement") ELSE queue[t]]
     /\ timer' = (\E t \in Task : Pending(t))
     /\ outbox' \in SetToSeqs({<<t, rows[t].bytes>> : t \in replay})
     /\ UNCHANGED <<acked, work, session, batch, drain, cloud, runs, faults>>

-----------------------------------------------------------------------------

Next ==
  \/ \E t \in Task : \/ Prepare(t) \/ PrepareFails(t) \/ Commit(t) \/ CommitFails(t)
                     \/ Offer(t) \/ Admit(t) \/ Finish(t) \/ AckOffer(t)
  \/ RetryTimer \/ SessionOpen \/ SessionBreak
  \/ DrainTake \/ CloudReceives \/ Answered \/ AnswerLost \/ Settle \/ SettleDone \/ SettleFails \/ DrainAgain
  \/ Stop \/ StopEnd \/ Crash \/ Start

Spec == Init /\ [][Next]_vars

\* The event loop and the journal go on, timers fire, sessions reopen, a batch
\* that is posted is worked through, the runner ends its tasks, and a daemon
\* that went down is started again.  (Offers need not come.)
Fairness ==
  /\ \A t \in Task : /\ WF_vars(Prepare(t)) /\ WF_vars(Commit(t)) /\ WF_vars(Admit(t) \/ Finish(t))
  /\ WF_vars(RetryTimer) /\ WF_vars(SessionOpen)
  /\ WF_vars(DrainTake \/ CloudReceives \/ Answered \/ Settle \/ SettleDone \/ DrainAgain)
  /\ WF_vars(StopEnd) /\ WF_vars(Start)

FairSpec == Spec /\ Fairness

-----------------------------------------------------------------------------
(* Properties *)

\* Nothing goes out that a crash could forget, and nothing twice: every envelope
\* on its way is the task's durable terminal, or the one that its replacement
\* took over, and no retry, replay or resend queues it a second time.
JournalFirst ==
  /\ IsInjective(batch \o outbox)
  /\ \A e \in Range(outbox) \union Range(batch) :
       \/ e[2] = journal[e[1]].bytes
       \/ journal[e[1]].replaced /\ e[2] = "result"

\* A terminal counts as confirmed only if the cloud recorded exactly its bytes,
\* and whatever the cloud recorded is what the journal holds, so no restart,
\* retry or replacement sends the cloud a second truth.
OneTruth ==
  \A t \in Task : /\ journal[t].truth = "confirmed" => receipt[t] = journal[t].bytes
                  /\ receipt[t] # NoBytes => receipt[t] = journal[t].bytes

\* However often the offer comes, and whatever happened to the commit of its
\* terminal, a task is started once, and never next to a terminal of it that
\* still waits for its commit.
RunsOnce == \A t \in Task : runs[t] <= 1 /\ (work[t] # "idle" => ~Pending(t))

\* Every admitted task ends up with a terminal that the cloud recorded or that
\* was refused for good, through failed commits, lost answers, stops and
\* crashes.  The one exception: a commit that is retried after its terminal was
\* refused makes the same bytes pending again and takes the place of the
\* replacement, which then waits for the next start.
Resolved(t)     == journal[t].truth \in {"confirmed", "failed"} /\ ~Replaceable(<<t, journal[t].bytes>>)
PendingAgain(t) == journal[t].truth = "pending" /\ <<t, "result">> \in refused /\ ~journal[t].replaced

TerminalSettles ==
  \A t \in Task : <>[](journal[t].state = "admitted" => Resolved(t) \/ PendingAgain(t))
=============================================================================
