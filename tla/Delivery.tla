------------------------------ MODULE Delivery ------------------------------
(***************************************************************************)
(* At-least-once delivery of one device's mailbox: the long-poll route of  *)
(* the cloud (packages/cloud/src/handlers/events.ts) and the daemon that   *)
(* polls it (packages/client/src/daemon: long-poll-transport.ts,           *)
(* connection-manager.ts, cursor-store.ts), over a DeviceStream.           *)
(*                                                                         *)
(* A poll carries the daemon's durable cursor, which the server takes for  *)
(* the acknowledgement of everything at or below it, and a read offset.    *)
(* The daemon runs the handler of each row it receives, several at a time  *)
(* and in any order, and moves its cursor over the prefix whose handlers   *)
(* have succeeded, saving it before it shows it to the server.             *)
(*                                                                         *)
(* A poll the daemon has given up on may still be running on the server.   *)
(***************************************************************************)
EXTENDS DeviceStream, FiniteSetsExt

CONSTANTS
  Poll,        \* the requests the server can be working on at a time
  NoPoll,      \* the daemon waits for no answer
  NoSave,      \* no cursor is being saved
  PageLimit,   \* rows per page
  Window,      \* MAILBOX_READ_AHEAD_MAX_SEQS
  Unusable,    \* the kinds of unusable rows explored: subset of {"invalid", "unknown"}
  MaxFaults    \* bound on failures, crashes, lost answers and lost rows

ASSUME DeliveryAssumption ==
  /\ NoPoll \notin Poll
  /\ PageLimit \in Nat \ {0}
  /\ Window \in Nat \ {0}
  /\ Unusable \subseteq {"invalid", "unknown"}
  /\ MaxFaults \in Nat

Seqs  == 1 .. MaxSeq
NoRead == -1   \* an undefined read cursor
Kind  == {"none", "offer", "control", "invalid", "unknown"}
Stage == {"idle", "sent", "ack", "scan", "filter", "deliver", "hold",
          "ok", "empty", "too_old", "refused"}
Request == [stage : Stage, cursor : 0 .. MaxSeq, after : 0 .. MaxSeq, scan : 0 .. MaxSeq,
            page : SUBSET Seqs, more : BOOLEAN]
Save == [by : Seqs, prefix : Seqs, written : BOOLEAN]

ASSUME NoSaveAssumption == NoSave \notin Save

VARIABLES
  \* the cloud
  kind,        \* kind[s]: what row s carries
  task,        \* task[s]: the offer a task's row belongs to, by its seq
  cancelling,  \* the offer whose cancel row is appended and whose tombstone is not, or 0
  cancelled,   \* the offers whose attempt carries a cancellation
  poll,        \* the requests
  \* the daemon's disk
  saved,       \* the cursor file (an absent file and a zero one read the same here)
  \* the daemon's memory
  current,     \* the request it waits for
  readCursor,  \* how far this session has read, or NoRead
  cursor,      \* the saved cursor, as shown to the server
  proc,        \* proc[s]: where the processing of row s is
  ahead,       \* ahead[s]: the controls of its task that s waits for
  processed,   \* processedSeqs
  unresolved,  \* unresolvedSeqs
  failed,      \* failedEnvelopes
  saving,      \* the completion that is saving the cursor
  halted,      \* the daemon stopped for good: its cursor is too old
  \* history
  handled,     \* rows whose handler has succeeded
  ran,         \* rows whose handler has succeeded since the daemon started
  faults

cloudVars  == <<streamVars, kind, task, cancelling, cancelled>>
memoryVars == <<cursor, proc, ahead, processed, unresolved, failed, saving>>
loopVars   == <<current, readCursor, halted>>
ghostVars  == <<handled, ran, faults>>
vars == <<cloudVars, poll, saved, memoryVars, loopVars, ghostVars>>

Idle == [stage |-> "idle", cursor |-> 0, after |-> 0, scan |-> 0, page |-> {}, more |-> FALSE]

TypeOK ==
  /\ nextSeq \in 1 .. MaxSeq + 1
  /\ deliveredSeq \in 0 .. MaxSeq
  /\ ackedSeq \in 0 .. MaxSeq
  /\ state \in [Seqs -> {"absent", "pending", "acked", "expired"}]
  /\ kind \in [Seqs -> Kind]
  /\ task \in [Seqs -> 0 .. MaxSeq]
  /\ cancelling \in 0 .. MaxSeq
  /\ cancelled \subseteq Seqs
  /\ poll \in [Poll -> Request]
  /\ current \in Poll \union {NoPoll}
  /\ saved \in 0 .. MaxSeq /\ cursor \in 0 .. MaxSeq /\ readCursor \in NoRead .. MaxSeq
  /\ proc \in [Seqs -> {"none", "queued", "handler", "commit"}]
  /\ ahead \in [Seqs -> SUBSET Seqs]
  /\ processed \subseteq Seqs /\ unresolved \subseteq Seqs /\ failed \subseteq Seqs
  /\ saving \in Save \union {NoSave}
  /\ halted \in BOOLEAN
  /\ handled \subseteq Seqs /\ ran \subseteq Seqs
  /\ faults \in 0 .. MaxFaults

Init ==
  /\ StreamInit
  /\ kind = [s \in Seqs |-> "none"]
  /\ task = [s \in Seqs |-> 0]
  /\ cancelling = 0
  /\ cancelled = {}
  /\ poll = [p \in Poll |-> Idle]
  /\ saved = 0 /\ cursor = 0 /\ readCursor = NoRead
  /\ current = NoPoll
  /\ proc = [s \in Seqs |-> "none"]
  /\ ahead = [s \in Seqs |-> {}]
  /\ processed = {} /\ unresolved = {} /\ failed = {}
  /\ saving = NoSave
  /\ halted = FALSE
  /\ handled = {} /\ ran = {}
  /\ faults = 0

\* An outcome the environment chooses, at most MaxFaults times.
Fault == faults < MaxFaults /\ faults' = faults + 1

-----------------------------------------------------------------------------
(* The rows the cloud appends.  A cancellation appends its control row first *)
(* and writes the tombstone on the task's attempt afterwards.                *)

AppendRow(k, o) ==
  /\ AppendNext
  /\ kind' = [kind EXCEPT ![nextSeq] = k]
  /\ task' = [task EXCEPT ![nextSeq] = o]
  /\ UNCHANGED <<cancelled, poll, saved, memoryVars, loopVars, ghostVars>>

AppendOffer == AppendRow("offer", nextSeq) /\ UNCHANGED cancelling
AppendUnusable(k) == AppendRow(k, 0) /\ UNCHANGED cancelling
AppendControl(o) == kind[o] = "offer" /\ AppendRow("control", o) /\ UNCHANGED cancelling

CancelAppend(o) ==
  /\ kind[o] = "offer"
  /\ cancelling = 0 /\ o \notin cancelled
  /\ AppendRow("control", o)
  /\ cancelling' = o

CancelCommit ==
  /\ cancelling # 0
  /\ cancelled' = cancelled \union {cancelling}
  /\ cancelling' = 0
  /\ UNCHANGED <<streamVars, kind, task, poll, saved, memoryVars, loopVars, ghostVars>>

\* Retention, an abandoned task or a retired device dead-letters a pending row.
LoseRow(s) ==
  /\ Fault
  /\ state[s] = "pending"
  /\ Lose({s})
  /\ UNCHANGED <<kind, task, cancelling, cancelled, poll, saved, memoryVars, loopVars, handled, ran>>

-----------------------------------------------------------------------------
(* The route.  Its awaits separate the cursor snapshot, the acknowledgement, *)
(* each page, the lookup of the page's attempts and the delivery record.     *)

PollOnly == UNCHANGED <<streamVars, kind, task, cancelling, cancelled, saved, memoryVars,
                        loopVars, ghostVars>>
PollStream == UNCHANGED <<kind, task, cancelling, cancelled, saved, memoryVars, loopVars, ghostVars>>
Move(p, next) == poll' = [poll EXCEPT ![p].stage = next]
Reply(p, answer) == poll' = [poll EXCEPT ![p] = [Idle EXCEPT !.stage = answer]]

\* The read-ahead bounds, then the cursor snapshot.
PollAdmit(p) ==
  LET r == poll[p]
      refused == \/ r.after - r.cursor > Window
                 \/ r.after > r.cursor /\ r.after > deliveredSeq
  IN /\ r.stage = "sent"
     /\ IF refused THEN Reply(p, "refused") ELSE Move(p, IF r.cursor > ackedSeq THEN "ack" ELSE "scan")
     /\ PollOnly

\* advanceCursor; a conflict ends the request.
PollAck(p) ==
  /\ poll[p].stage = "ack"
  /\ Ack(poll[p].cursor)
  /\ Move(p, "scan")
  /\ PollStream

PollAckRefused(p) ==
  /\ poll[p].stage = "ack"
  /\ poll[p].cursor < ackedSeq \/ poll[p].cursor > deliveredSeq
  /\ Reply(p, "refused")
  /\ PollOnly

\* The pending rows readAfter(afterSeq) pages through.
PendingAfter(a) == {s \in Seqs : s > a /\ state[s] = "pending"}

\* readAfter: the floor, checked against the cursor the caller brought, then an
\* empty page or a page to filter.
PollRead(p) ==
  LET r    == poll[p]
      rows == PendingAfter(r.scan)
      page == {s \in rows : Cardinality({t \in rows : t <= s}) <= PageLimit}
  IN /\ r.stage = "scan"
     /\ \/ TooOld(r.cursor) /\ Reply(p, "too_old")
        \/ /\ ~TooOld(r.cursor) /\ page = {}
           /\ poll' = [poll EXCEPT ![p].stage = "hold", ![p].scan = r.after]
        \/ /\ ~TooOld(r.cursor) /\ page # {}
           /\ poll' = [poll EXCEPT ![p].stage = "filter", ![p].page = page, ![p].more = page # rows]
     /\ PollOnly

\* mutant: a page of cancelled offers is held, whatever follows it
PollFilterHolds(p) ==
  LET r      == poll[p]
      events == r.page \ cancelled
  IN /\ r.stage = "filter"
     /\ poll' = [poll EXCEPT ![p] = [r EXCEPT
          !.stage = IF events # {} THEN "deliver" ELSE "hold",
          !.scan  = IF events # {} THEN Max(r.page) ELSE r.after,
          !.page  = events,
          !.more  = FALSE]]
     /\ PollOnly

\* The page without the offers cancelled by now; a page of nothing else is
\* scanned over within the request, up to the last page.  The cloud is assumed
\* to decode every row it stored: decodeEnvelope would fail the whole request.
PollFilter(p) ==
  LET r      == poll[p]
      events == r.page \ cancelled
      last   == Max(r.page)
  IN /\ r.stage = "filter"
     /\ poll' = [poll EXCEPT ![p] = [r EXCEPT
          !.stage = IF events # {} THEN "deliver" ELSE IF r.more THEN "scan" ELSE "hold",
          !.scan  = IF events # {} \/ r.more THEN last ELSE r.after,
          !.page  = events,
          !.more  = FALSE]]
     /\ PollOnly

\* recordDelivery of the page's cursor (kept in scan), then the answer, which
\* carries the page, its cursor and, for its reader, the offset it was read from.
PollDeliver(p) ==
  /\ poll[p].stage = "deliver"
  /\ Deliver(poll[p].scan)
  /\ poll' = [poll EXCEPT ![p].stage = "ok", ![p].cursor = 0]
  /\ PollStream

\* A held poll reads again from its offset, or answers an empty page.
PollWake(p) ==
  /\ poll[p].stage = "hold"
  /\ Move(p, "scan")
  /\ PollOnly

PollTimeout(p) ==
  /\ poll[p].stage = "hold"
  /\ Reply(p, "empty")
  /\ PollOnly

\* A request nobody waits for ends: it never arrived, it saw the abort, or its
\* answer is dropped.
PollDrop(p) ==
  /\ p # current
  /\ poll[p].stage \in {"sent", "scan", "hold", "ok", "empty", "too_old", "refused"}
  /\ poll' = [poll EXCEPT ![p] = Idle]
  /\ PollOnly

-----------------------------------------------------------------------------
(* The daemon's poll loop *)

\* mutant: the sweep is never cut short
WindowFullNever == FALSE

WindowFull == readCursor - cursor >= Window

\* The sweep has reached the window: start it again from the cursor.
WindowReset ==
  /\ current = NoPoll /\ ~halted
  /\ WindowFull
  /\ readCursor' = cursor
  /\ UNCHANGED <<cloudVars, poll, saved, memoryVars, current, halted, ghostVars>>

SendPoll(p) ==
  /\ current = NoPoll /\ ~halted
  /\ ~WindowFull
  /\ poll[p].stage = "idle"
  /\ poll' = [poll EXCEPT ![p] = [Idle EXCEPT
                !.stage = "sent", !.cursor = cursor,
                !.after = Max({cursor, readCursor}), !.scan = Max({cursor, readCursor})]]
  /\ current' = p
  /\ UNCHANGED <<cloudVars, saved, memoryVars, readCursor, halted, ghostVars>>

\* inFlightSeqs
InFlight == {s \in Seqs : proc[s] # "none"}

IsControl(s) == kind[s] = "control"

\* deliver, for each of a set of rows in order: those at or below the cursor
\* and those in flight are skipped, the others start to be processed.  A
\* control waits for the controls of its task that arrived before it.
Accepted(rows) == {s \in rows : s > cursor /\ s \notin InFlight}
Take(rows) ==
  /\ proc' = [s \in Seqs |-> IF s \in rows THEN "queued" ELSE proc[s]]
  /\ ahead' = [s \in Seqs |->
       IF s \in rows /\ IsControl(s)
       THEN {t \in Seqs : /\ t # s /\ IsControl(t) /\ task[t] = task[s]
                          /\ t \in InFlight \/ (t \in rows /\ t < s)}
       ELSE ahead[s]]

\* An unusable row of an unknown type must follow the row before it directly.
PageTrusted(r) ==
  \A s \in r.page : kind[s] = "unknown" =>
    s - 1 = Max({r.after} \union {t \in r.page : t < s})

\* The daemon forgets the answered request.
Answered(p) == current' = NoPoll /\ poll' = [poll EXCEPT ![p] = Idle]

\* A page: rows that cannot be decoded hold the cursor where it is, the others
\* are delivered.
ReceivePage(p) ==
  LET r      == poll[p]
      usable == {s \in r.page : kind[s] \in {"offer", "control"}}
      taken  == Accepted(usable)
  IN /\ p = current /\ r.stage = "ok"
     /\ PageTrusted(r)
     /\ Answered(p)
     /\ readCursor' = r.scan
     /\ Take(taken)
     /\ unresolved' = unresolved \union (r.page \ usable) \union (taken \ processed)
     /\ UNCHANGED <<cloudVars, saved, cursor, processed, failed, saving, halted, ghostVars>>

\* At the retained head the next poll replays from the acknowledged cursor.
ReceiveEmpty(p) ==
  /\ p = current /\ poll[p].stage = "empty"
  /\ Answered(p)
  /\ readCursor' = cursor
  /\ UNCHANGED <<cloudVars, saved, memoryVars, halted, ghostVars>>

\* cursor_too_old: rows were lost, and the daemon stops for good.
ReceiveTooOld(p) ==
  /\ p = current /\ poll[p].stage = "too_old"
  /\ Answered(p)
  /\ halted' = TRUE
  /\ UNCHANGED <<cloudVars, saved, memoryVars, readCursor, ghostVars>>

\* A refused poll or an untrusted page ends the session; the next one has
\* read nothing, but keeps what the handlers left in memory.
ReceiveRefused(p) ==
  /\ p = current
  /\ \/ poll[p].stage = "refused"
     \/ poll[p].stage = "ok" /\ ~PageTrusted(poll[p])
  /\ Answered(p)
  /\ readCursor' = NoRead
  /\ UNCHANGED <<cloudVars, saved, memoryVars, halted, ghostVars>>

\* The answer is lost, or another route fails: the daemon gives the poll up.
BreakSession ==
  /\ Fault
  /\ current # NoPoll \/ readCursor # NoRead
  /\ current' = NoPoll
  /\ readCursor' = NoRead
  /\ UNCHANGED <<cloudVars, poll, saved, memoryVars, halted, handled, ran>>

-----------------------------------------------------------------------------
(* Processing of one row *)

\* s stops being in flight, and nothing waits for it any more.
Settled(s) ==
  /\ proc' = [proc EXCEPT ![s] = "none"]
  /\ ahead' = [t \in Seqs |-> IF t = s THEN {} ELSE ahead[t] \ {s}]

\* The receipt of a handler: s is processed, and waits for its completion.
Receipt(s) ==
  /\ processed' = processed \union {s}
  /\ unresolved' = unresolved \ {s}
  /\ failed' = failed \ {s}
  /\ proc' = [proc EXCEPT ![s] = "commit"]

DaemonOnly == UNCHANGED <<cloudVars, poll, loopVars>>

\* mutant: controls of one task do not wait for each other
MayStartAtOnce(s) == proc[s] = "queued"

MayStart(s) == proc[s] = "queued" /\ ahead[s] = {}

\* A row the cursor has passed meanwhile is left alone.
ProcessStale(s) ==
  /\ MayStart(s) /\ s <= cursor
  /\ Settled(s)
  /\ UNCHANGED <<cursor, saved, processed, unresolved, failed, saving, ghostVars>>
  /\ DaemonOnly

\* mutant: a redelivered row runs its handler again
AlreadyRanForgotten(s) == FALSE

AlreadyRan(s) == s \in processed

\* A row whose handler succeeded, but whose completion failed: no second run.
ProcessAgain(s) ==
  /\ MayStart(s) /\ s > cursor /\ AlreadyRan(s)
  /\ Receipt(s)
  /\ UNCHANGED <<cursor, saved, ahead, saving, ghostVars>>
  /\ DaemonOnly

ProcessStart(s) ==
  /\ MayStart(s) /\ s > cursor /\ ~AlreadyRan(s)
  /\ proc' = [proc EXCEPT ![s] = "handler"]
  /\ UNCHANGED <<cursor, saved, ahead, processed, unresolved, failed, saving, ghostVars>>
  /\ DaemonOnly

HandlerSucceeds(s) ==
  /\ proc[s] = "handler"
  /\ Receipt(s)
  /\ handled' = handled \union {s}
  /\ ran' = ran \union {s}
  /\ UNCHANGED <<cursor, saved, ahead, saving, faults>>
  /\ DaemonOnly

\* It throws: s stays unresolved, and is kept for retryTaskReceipts.
HandlerFails(s) ==
  /\ Fault
  /\ proc[s] = "handler"
  /\ failed' = failed \union {s}
  /\ Settled(s)
  /\ UNCHANGED <<cursor, saved, processed, unresolved, saving, handled, ran>>
  /\ DaemonOnly

\* external: a terminal of the task is committed, and the failed rows of the
\* task are delivered again from memory.
RetryTaskReceipts(o) ==
  LET taken == Accepted({s \in failed : task[s] = o})
  IN /\ taken # {}
     /\ Take(taken)
     /\ unresolved' = unresolved \union (taken \ processed)
     /\ UNCHANGED <<cursor, saved, processed, failed, saving, ghostVars>>
     /\ DaemonOnly

-----------------------------------------------------------------------------
(* Completions run one at a time *)

\* mutant: the prefix skips over work that has failed
PrefixOverFailed == Max({cursor} \union {v \in processed : \A u \in unresolved \ failed : v < u})

\* mutant: the cursor names the next row instead of the last one
PrefixNext == 1 + Max({cursor} \union {v \in processed : \A u \in unresolved : v < u})

\* The cursor the receipts allow: below the first unresolved row.
Prefix == Max({cursor} \union {v \in processed : \A u \in unresolved : v < u})

\* Receipts at or below cursor c are no longer needed.
Forgotten(c) ==
  /\ processed' = {v \in processed : v > c}
  /\ failed' = failed \ {v \in processed : v <= c}

CompleteIdle(s) ==
  /\ proc[s] = "commit" /\ saving = NoSave
  /\ Prefix = cursor
  /\ Forgotten(cursor)
  /\ Settled(s)
  /\ UNCHANGED <<cursor, saved, unresolved, saving, ghostVars>>
  /\ DaemonOnly

CompleteBegin(s) ==
  /\ proc[s] = "commit" /\ saving = NoSave
  /\ Prefix > cursor
  /\ saving' = [by |-> s, prefix |-> Prefix, written |-> FALSE]
  /\ UNCHANGED <<cursor, saved, proc, ahead, processed, unresolved, failed, ghostVars>>
  /\ DaemonOnly

\* The file is renamed into place.
SaveWrite ==
  /\ saving # NoSave /\ ~saving.written
  /\ saved' = saving.prefix
  /\ saving' = [saving EXCEPT !.written = TRUE]
  /\ UNCHANGED <<cursor, proc, ahead, processed, unresolved, failed, ghostVars>>
  /\ DaemonOnly

\* The save resolves: the cursor is shown to the server.
SaveDone ==
  /\ saving # NoSave /\ saving.written
  /\ cursor' = saving.prefix
  /\ Forgotten(saving.prefix)
  /\ Settled(saving.by)
  /\ saving' = NoSave
  /\ UNCHANGED <<saved, unresolved, ghostVars>>
  /\ DaemonOnly

\* The save rejects, before or after the rename: the cursor stays, the receipt
\* is kept and the row counts as failed.
SaveFails ==
  /\ Fault
  /\ saving # NoSave
  /\ failed' = failed \union {saving.by}
  /\ Settled(saving.by)
  /\ saving' = NoSave
  /\ UNCHANGED <<cursor, saved, processed, unresolved, handled, ran>>
  /\ DaemonOnly

\* The daemon's process dies and starts again from its file.
Restart ==
  /\ Fault
  /\ cursor' = saved
  /\ readCursor' = NoRead
  /\ current' = NoPoll
  /\ proc' = [s \in Seqs |-> "none"]
  /\ ahead' = [s \in Seqs |-> {}]
  /\ processed' = {} /\ unresolved' = {} /\ failed' = {}
  /\ saving' = NoSave
  /\ halted' = FALSE
  /\ ran' = {}
  /\ UNCHANGED <<cloudVars, poll, saved, handled>>

-----------------------------------------------------------------------------

Cloud ==
  \/ AppendOffer
  \/ \E k \in Unusable : AppendUnusable(k)
  \/ \E o \in Seqs : AppendControl(o) \/ CancelAppend(o)
  \/ CancelCommit
  \/ \E s \in Seqs : LoseRow(s)

Route(p) ==
  PollAdmit(p) \/ PollAck(p) \/ PollAckRefused(p) \/ PollRead(p) \/ PollFilter(p) \/ PollDeliver(p)

Loop ==
  \/ WindowReset
  \/ \E p \in Poll : SendPoll(p)
  \/ \E p \in Poll : ReceivePage(p) \/ ReceiveEmpty(p) \/ ReceiveTooOld(p) \/ ReceiveRefused(p)

Process(s) == ProcessStale(s) \/ ProcessAgain(s) \/ ProcessStart(s)
Handle(s) == HandlerSucceeds(s)
Complete(s) == CompleteIdle(s) \/ CompleteBegin(s)
SaveCursor == SaveWrite \/ SaveDone

Next ==
  \/ Cloud
  \/ \E p \in Poll : Route(p) \/ PollWake(p) \/ PollTimeout(p) \/ PollDrop(p)
  \/ Loop
  \/ BreakSession
  \/ \E s \in Seqs : Process(s) \/ Handle(s) \/ HandlerFails(s) \/ Complete(s)
  \/ \E o \in Seqs : RetryTaskReceipts(o)
  \/ SaveCursor
  \/ SaveFails
  \/ Restart

Spec == Init /\ [][Next]_vars

\* Requests the server accepted run on, a hold ends at its deadline however
\* often it is woken, the poll loop and every promise the daemon started go on,
\* and a handler that is not made to fail succeeds.  Nothing is assumed of the
\* appends, the cancellations, the failures and the retries.
Fairness ==
  /\ \A p \in Poll : WF_vars(Route(p)) /\ WF_vars(PollDrop(p)) /\ SF_vars(PollTimeout(p))
  /\ WF_vars(Loop)
  /\ \A s \in Seqs : WF_vars(Process(s)) /\ WF_vars(Handle(s)) /\ SF_vars(Complete(s))
  /\ WF_vars(SaveCursor)

FairSpec == Spec /\ Fairness

-----------------------------------------------------------------------------
(* Properties *)

\* The acknowledgement is never ahead of the work: a row the server counts as
\* consumed was handled to the end, or was an offer its tenant cancelled first.
\* (connection-manager.ts: `using received work on the wire would ack an
\* in-flight envelope before its handler settles'.)
AckedMeansHandled ==
  \A s \in Seqs : s <= ackedSeq => s \in handled \union cancelled

\* The server never refuses a poll the daemon waits for: its cursor and its
\* read offset were returned to it before, across sessions, restarts and
\* requests that outlived their session.
PollsAccepted ==
  \A p \in Poll : p = current => poll[p].stage # "refused"

\* Between two starts of the daemon no handler runs again once it has
\* succeeded, however often its row is delivered.
NoSecondRun == \A s \in Seqs : proc[s] = "handler" => s \notin ran

\* Controls of one task are handled one at a time, also when they are redelivered.
ControlsOneAtATime ==
  \A s, t \in Seqs :
    /\ proc[s] = "handler" /\ proc[t] = "handler"
    /\ IsControl(s) /\ IsControl(t) /\ task[s] = task[t]
    => s = t

\* A row the daemon can use is handled in the end, unless its tenant cancels
\* it, or the daemon is told that rows were lost and halts.  Failed handlers,
\* lost answers, crashes, rows that cannot be decoded and cancelled offers
\* around it only delay it.  "Cannot be decoded" is said of the daemon: the cloud
\* decodes every row of a page (PollFilter).
EventuallyHandled ==
  \A s \in Seqs : kind[s] \in {"offer", "control"} ~> s \in handled \union cancelled \/ halted

\* long-poll-events-page-decoder.test.ts: `an unknown envelope inside a valid
\* page still stalls only its own sequence, without a route failure'.
UnknownStallsOnlyItself == EventuallyHandled
=============================================================================
