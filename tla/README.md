# Verification of byok-sdk: Host queue, task lifecycle, delivery and terminals

byok-sdk connects a Host's cloud to daemons that run agents on users' machines.
The Host's execution core keeps *intents* and *routines* in a ledger and turns
them into *tasks*, one at a time for each agent; it enqueues a task for a
*device*, and the cloud stores an offer in the device's *mailbox*; the daemon
long-polls the mailbox, runs the task, makes its terminal durable in a journal
and posts it; the Host may cancel or abandon the task, and a device may be
retired, at any moment. This directory holds TLA+ models of that path from one
end to the other, the TLC runs that check them on small instances, and TLAPS
proofs for every size.

Everything is translated from the TypeScript under `src/packages`. Paths below
are relative to that directory. The stores modelled are the in-memory reference
stores: they are the executable definition of the ports that the SQL and
Durable Object stores implement.

## 1. Inventory

| Component | State | Operations | Modelled |
|---|---|---|---|
| Mailbox (`core/src/mailbox.ts`, `core/src/in-memory/mailbox.ts`) | per device: rows with a state, next seq, delivered and acked cursors, closed flag, a mutation chain | append, readAfter, recordDelivery, advanceCursor, collectExpired, expirePending, closeStream, reopenStream | `DeviceStream`, `Mailbox` |
| Events route (`cloud/src/handlers/events.ts`) | one held request | admit, ack, page, filter cancelled offers, record delivery, hold | `Delivery` |
| Daemon reception (`client/src/daemon/long-poll-transport.ts`, `connection-manager.ts`, `cursor-store.ts`) | cursor on disk and in memory, read cursor, in-flight, processed, unresolved and failed seqs | poll, deliver, process, commit the cursor, retry receipts, reconnect, restart | `Delivery` |
| Host enqueue (`cloud/src/api/enqueue.ts`) | attempt, offer receipt, delivery receipt, mailbox row | reserve, record body, append, record delivery | `TaskLifecycle` |
| Inbound gate (`cloud/src/inbound.ts`, `handlers/messages.ts`, `board-projection.ts`) | attempt, terminal receipt, board item | claim, started, decline, complete, fail, cancelled | `TaskLifecycle` |
| Attempts, cancellation, retirement (`cloud/src/stores/in-memory/task-*.ts`, `device-directory.ts`) | attempt, mutation chain, exclusive section, registration | recordStatus, cancel, abandon, revoke, register | `TaskLifecycle` |
| Daemon outbox and terminal journal (`connection-manager.ts` 430-610, `terminal-commit-queue.ts`, `journal/sqlite-journal.ts`, `create-daemon/start-*.ts`, `shutdown.ts`) | journal rows, commit queue and its timer, queued envelopes, batch in flight | commit, retry, send, drain, settle, replace a refused terminal, stop, start | `Terminals` |
| Host execution core (`server/src/execution-core/core.ts`, `transitions.ts`, `submit.ts`, `ledger.ts`) | intents, executions, projection outbox and scan wake in one ledger; the running scan; live tasks | enqueue, cancel, drain, reconcile, submit, finish, arm, recover | `HostCore` |
| Routines and wakes (`server/src/execution-core/routines.ts`, `server/src/wakes`) | a routine's definition, staged version and next slot; occurrences; wake calls in the outbox; the scheduler's wakes | create, update, pause, resume, complete, record, promote, conclude, switch, flush, deliver | `Routines` |
| Agent messages (`task-attempts.ts` 96-191, `task-agent-message.ts`, `agent-message-draft.ts`) | admissions, drafts, dispositions | draft, publish, dispose | planned |
| Archive and redaction (`cloud/src/task-archive.ts`, `task-redaction.ts`) | tombstones | archive, redact | planned |
| Quota and objects (`core/src/in-memory/quota.ts`) | entitlement, reservations | write entitlement, reserve, settle, release | the mailbox limit in `Mailbox`; the rest a candidate |
| Coordination board (`core/src/in-memory/board.ts`) | status of a task's item | create, claim, unclaim, updateStatus, remove | the status in `TaskLifecycle` |
| Maintenance (`cloud/src/maintenance.ts`) | none of its own | sweep | the mailbox step in `Mailbox` |
| Durable Object cloud (`cloud-do/src`) | invocation ledger, session runtime | admit, wake, run | candidate |
| SQL data plane, auth and keys, protocol schemas, runtime adapters, agent memory, UI, conformance | | | not modelled: SQL, cryptography, data definitions, external processes, views and tests |

How they interact. A wake records a routine's occurrence, which becomes an
intent; a scan of the execution core takes the first open intent of each agent
and calls enqueue, cancel and the reads of the cloud. Enqueue, cancel and abandon
write the attempt and append to the mailbox. The daemon polls the events route; the poll's
cursor is also the acknowledgement of the rows at or below it. The daemon's
terminals go through its commit queue and journal into an outbox, and from there
to the inbound gate, which writes the attempt, the receipts and the board. Retention, abandonment and retirement dead-letter or delete rows
behind everybody's back.

What is hard. Every handler is a chain of awaits, so several calls for one task
interleave, and any of them can die and be retried: correctness rests on the
order of writes, on first-write-wins receipts and on two promise chains (one per
device in the mailbox, one per task for attempts). Rows are lost by design, and
the reader must find out. The daemon runs handlers out of order but has only one
cursor, saved to a file it may die around. A terminal is committed, sent, answered
and settled by four loops with a retry each, around stops and crashes. The Host's
scan acts on what it read before an await, and nothing but a durable wake or a
timer brings it back. The list of hazards, each at its
line, is `PROJECT.json` "hazards".

What makes it correct. *Mailbox*: a reader that is not told its cursor is too
old misses nothing; ids, limits and closed streams hold across the await inside
append; retention reports what it leaves. *Delivery*: acknowledged means
handled; polls are not refused; nothing runs twice between restarts; everything
usable is handled in the end. *Task*: an accepted cancellation is final; status,
receipt, owner and board agree; retried enqueues converge; a terminal receipt
reaches the attempt. *Terminals*: what goes out is durable, the cloud never gets
a second truth, no task runs twice, every terminal settles. *Host core*: one live
task per agent, nothing left running behind a settled intent, an outcome applied
once and never after a cancellation that the last read of the attempt saw, always
something that brings the scan back, and a conclusion in the end. *Routines*: the
chain of wakes is not lost, only the newest occurrence waits, no work of an old
version under a new one.

## 2. Modules and how they correspond to the code

`PROJECT.json` "map" gives the source lines of every definition.

**DeviceStream** is the abstract specification: what the `MailboxStore` port
promises for one device. Rows go `absent -> pending -> acked | expired ->
absent`, never back; an acknowledgement is bounded by what was delivered; a
forgotten row is either consumed or lies below a dead letter that is kept.

**Mailbox** is the in-memory store for all devices of a tenant. `tail[d]` is the
append that holds the device's mutation chain while it awaits its limit and its
bytes (`AppendBegin`, `AppendCommit`, `AppendRefused`); every other mutation is
one step and waits for the chain (`ChainFree`). `CollectBegin`/`CollectDevice`
are the three phases of `collectExpired` device by device, with its limit and
its `more`. Time is abstracted: `appendedAt` grows with seq, so a cutoff instant
is a prefix of each device's seqs (`Cutoff`). `ImplementsStreams` states that the
mailbox restricted to any device is a `DeviceStream`.

**Delivery** composes a `DeviceStream` with the events route and the daemon.
`poll[p]` is a request at one of the awaits of `eventsHandler`; a request the
daemon gave up on may go on (`PollDrop` ends it at an await that sees the abort).
`proc[s]` follows `process()` for one row: queued behind the controls of its
task, in its handler, waiting to commit. `saving` is the completion that saves
the cursor: the rename of the file and the update of the memory are separate
steps (`SaveWrite`, `SaveDone`), and `Restart` may fall between them. A row's
`kind` says whether the daemon can decode it: "invalid" payloads and "unknown"
types are treated differently by the page check (`PageTrusted`). The handlers
themselves are abstract: they succeed or throw.

**TaskLifecycle** is one task. `call[e]` is an enqueue call between two awaits of
`enqueueTaskEnvelope`; `req[r]` is a report between two awaits of the inbound
gate and `recordTerminal`; `chain` is the holder of the task's mutation chain
together with the attempt it read (`existing`), since a cancellation and an
abandonment write that copy back after they awaited the mailbox. A revocation
holds the exclusive section. Offers are plain text; sealed bodies, redaction and
archival are left out. A device conforms: it reports only about an offer it has
read, and starts or completes only after its claim was answered.

**Terminals** is the daemon's side of a terminal. `queue[t]` is the entry of
`TerminalCommitQueue`: waiting, preparing (sealing the result, or checking that a
replacement is still wanted) or committing; a failed commit may have written the
row or not (`CommitFails`). `journal[t]` is the durable row: the task's local
state, the terminal's bytes and its truth state. `outbox`, `batch` and `drain`
are the connection manager's; the cloud works through a batch envelope by
envelope (`CloudReceives`), so an answer can be lost after any part of it, and a
settlement that fails half-way sends all of it again. There are four kinds of
bytes, because the properties ask which of them the cloud recorded: the result,
the failure that stands for an oversized result, the failure of an interrupted
task, the replacement of a refused sealed result. What the cloud recorded is not
refused, and what it refused once it refuses again: the gate decides on the
bytes and on facts that stay (`TaskLifecycle`). `Stop`, `StopEnd`, `Crash` and
`Start` differ in what they lose: a stop keeps the queue's failed entries for a
start of the same process, a crash keeps the journal only.

**HostCore** is the queue of one agent. The ledger is one SQLite row, so each of
its transactions is one step; between them the scan awaits the cloud and keeps
local copies, which are the fields of `scan` (`scan.pc` names the step,
`scan.phase` and `scan.cancelReason` are the snapshot's copy of the intent,
`scan.terminal` and `scan.attempt` what was read). The cancellation is read a last
time after the terminal, through an await (`ReadAuthority`), and `Finish` decides
on that copy. A cancellation that lands between that read and the transaction
does not stop the outcome; `docs/host-execution-core.md` 157-158 allows it, since
success came first. `server[t]` is what a task is
in the cloud as `TaskLifecycle` describes it, reduced to what the core reads. The
scan wake is a set of *moments* (`scanWake`): soon, an intent's `notBefore`, its
`waitUntil`; `wakeRow` and `wake` say whether its schedule row is still in the
outbox or the SDK holds it. Time is `clock[i]`: before `notBefore`, between, past
`waitUntil`. A transaction that would exceed the projection outbox is refused as
a whole (`Fits`). A Host may have no memory (`HasMemory`): then no intent is ever
blocked by it.

**Routines** is one routine. A wake's key is a version and a slot; `box` holds the
ledger's wake calls, `wake` the scheduler's rows, `flush[f]` a snapshot of the
outbox being sent call by call, whose rows may have left the outbox meanwhile.
`Flusher` has one element for the scans, which never overlap, and a second one
for the change notices of a memory; a Host without a memory has only the first.
`active` is a delivery between its begin, the core's transaction (`Consume`) and
its end. An occurrence is its phase, the cutoff of its retries and whether a
newer slot overtook it; `HostCore` has the rest of an intent's life. Calendars
are intervals. The wake store is durable, and Host and scheduler read one clock.

The modules meet at small interfaces instead of one product: `Delivery` is
composed with `DeviceStream`, which `Mailbox` is shown to implement;
`HostCore.server` repeats the facts that `TaskLifecycle` establishes (a
cancellation precedes no later claim, a terminal is recorded once); `Terminals`
takes from them that the first terminal stands.

**MailboxProofs**, **DeliveryProofs**, **TaskLifecycleProofs**,
**TerminalsProofs**, **HostCoreProofs** and **RoutinesProofs** hold the theorems
about the module each is named after, and **SumTheorems** the facts about sums
over finite sets that the quota needs. **MCMailbox**, **MCDelivery**,
**MCTaskLifecycle**, **MCHostCore**, **MCTerminals** and **MCRoutines** hold the
sets and functions that a cfg cannot write, for TLC.

In each module a definition commented `mutant:` is a faulty variant of the
definition below it. No specification uses it; it is there to show that a
property fails when the code is wrong in that way.

## 3. Runs

| Run | Bounds | Shows |
|---|---|---|
| `mailbox_retention` | 1 device, 4 seqs, 3 ids, every cutoff, sweep limit 2 | `TypeOK`, `WindowComplete`, `MessageIdsUnique`, `SweepComplete`, `FloorNeverDrops`, `ImplementsStreams` |
| `mailbox_quota` | 3 devices, 1 seq each, limits 1 and 2, sweep limit 2 | `QuotaHolds`, `ClosedStreamIsEmpty` |
| `delivery` | 3 rows, 2 server requests, page 2, window 2, 1 fault | `AckedMeansHandled`, `PollsAccepted`, `NoSecondRun`, `ControlsOneAtATime` |
| `delivery_live` | 2 rows, page 1, 2 faults, fairness | `EventuallyHandled` |
| `task_reports` | 2 reports at once, 1 call, 2 offers, 1 death | `TypeOK`, `CancellationWins`, `StatusIsReceipt`, `RunningIsOwned`, `CancelRowFirst`, `FactsStay`, `ReviewOnlyResult` |
| `task_enqueue` | 2 calls, 2 bodies, 1 decline, 1 death, the row is kept, fairness | `EnqueuedBodyIsOffered`, `OneOffer`, `TerminalConverges` |
| `host_core` | 2 intents of one attempt each, the first publishing, outbox limit 2, no memory, 1 fault, fairness | `OneLiveTask`, `AppliedOnce`, `NoCancelledOutcome`, `EventuallySettled` |
| `host_core_live` | 1 cancellable, publishing intent of 2 attempts, outbox limit 2, a memory, 1 fault, fairness | `SettledIsQuiet`, `ScanCovered`, `EventuallySettled` |
| `terminals` | 2 tasks, one sealed, one oversized, batches of 2, 3 faults, fairness | `TypeOK`, `JournalFirst`, `OneTruth`, `RunsOnce`, `TerminalSettles` |
| `routines` | 2 versions (intervals 1 and 2), 3 slots, horizon 1, 1 flusher, 1 fault, executions and Host jobs, fairness | `TypeOK`, `ChainAlive`, `OnlyNewestWaits`, `CurrentVersion`, `StagedSwitches` |
| `delivery_unknown`, `task_reoffer` | small | the findings of section 6 |

Why the bounds are enough to be interesting. Four seqs let a consumed row, two
dead letters and a pending row coexist, which is what reaping below the floor
needs. Three devices with a sweep limit of two make a sweep stop between
devices. Three rows with pages and a window of two let a page end in the middle,
a gap stall the cursor and the window fill. Two server requests are one live and
one abandoned. In the task runs two reports are enough for every race between
two terminals, or a terminal and its own retry, around a cancellation. Two
intents are a head and the one that must wait for it. Their results and the
published outcome are three rows for an outbox of two, so settlements are
refused, while both expiries of a pass fit; with a limit of one
`EventuallySettled` fails (section 6). The cancellations of `host_core` are those
of others in the cloud; `host_core_live` has the Host's own, the memory, and a
second attempt with its backoff and its generation. Three
faults in `terminals` are a failed commit, a lost answer or failed settlement,
and a stop or crash, in any order. Three slots with intervals 1 and 2 let an
occurrence be overtaken, a version be staged and take over, and the routine end;
with a horizon of 1 the slots of the second version are deferred first. The
proofs remove the bounds for every safety property of the six modules, under the
assumptions of section 4; the bounds of the runs matter for the liveness
properties.

Deadlock is checked in the mailbox runs. In the others it is off: the number of
rows, offers, intents, slots and faults is bounded, so a behaviour may simply be
finished.

Fairness. *Delivery*: requests the server accepted run on (`WF` of the route's
steps), a hold ends at its deadline although it may be woken again and again
(`SF` of `PollTimeout`: the deadline is fixed when the request starts), the poll
loop and every promise the daemon started proceed (`WF`), completions are queued
in order, so each gets its turn although others save meanwhile (`SF`). A handler
that is not made to fail succeeds. Nothing is assumed of appends,
cancellations, failures, restarts and retries. *TaskLifecycle*: holders of the
chain proceed; the chain is a queue, so a request that waits for it is served
although others take it in between (`SF` of each request's steps); the daemon
resends a report until it is answered (`SF`: a slot for a request becomes free
again and again). Nothing is assumed of the Host, of calls that die, or of the
board. *HostCore*: the event loop continues a scan, due timers and wakes fire,
a crashed Host is started again, the uploader takes projections, the clock goes
on, a claimed task ends with a report; nothing makes a device claim a task, and
nothing makes memory free or submits admitted again: the deadline must do it.
*Terminals*: the event loop and the journal go on, the retry timer fires,
sessions reopen, a posted batch is worked through, a stopped or crashed daemon is
started again; offers need not come. *Routines*: scans recur, calls to the
scheduler are answered, due wakes are delivered, work ends, the clock goes on.
For these three all of it is weak fairness; *Delivery* and *TaskLifecycle* use
strong fairness where said above. Every fault is bounded by `MaxFaults`. The
events route is assumed to decode every row the cloud stored: a row it cannot
decode would fail each request that reads it (`events.ts` 178).

## 4. Proofs

All theorems hold for every value of the constants that satisfies the assumptions
named in the modules: constants have their types, sentinels are no values, and
the sets of devices, tasks and intents are finite, as they are in a store. Two
theorems take one hypothesis more, said with them below. TLC evaluates the
assumptions in the runs. Each invariant was checked by TLC on the bounds of its
run before it was proved.

**MailboxProofs** proves `TypeCorrect`, `WindowIsComplete`,
`MessageIdsAreUnique`, `ClosedStreamsAreEmpty`, `SweepsAreComplete`,
`FloorIsMonotonic`, `RowsAreNeverRevived`, `QuotaIsKept` and
`StreamsAreImplemented`. The
inductive invariant `Inv` adds what the properties rest on: cursors are ordered
(`CursorsOrdered`), the acked cursor separates consumed from owed rows
(`AckSplits`), a missing row above the acked cursor lies below a kept dead
letter (`GapsBelowFloor`), and the append in flight keeps the facts it checked
before its await (`AppendInFlight`). The key lemma is `ReapKeepsFloor`: reaping
only dead letters with a higher dead letter leaves every too-old cursor too old.
It uses a greatest element of a set of seqs (`Greatest`, by well-foundedness).
`QuotaIsKept` has an invariant of its own on top, `QuotaOK`: the limit an append
holds across its await was issued, and so is at most the highest one. The check
and the insert are one step, so an append adds exactly the row it checked
(`QuotaAppend`), and no other step makes a row pending (`PendingFromAppend`).
The refinement is proved as: initial states map to initial states, and each
action maps to a `DeviceStream` step of the device it touches and to a stutter
of the others.

**TaskLifecycleProofs** proves `TypeCorrect`, `CancellationIsAuthority`,
`StatusFollowsReceipt`, `RunningHasOwner`, `TombstoneAfterRow`,
`EnqueueConverges`, `FactsAreFinal` and `ReviewShowsResult`. The properties are
not inductive alone: that a cancellation writes a stale copy of the attempt
without losing anything needs `Snapshot` (whoever holds the chain holds the
attempt as it is); that a status follows the receipt needs `RequestsOK` (what a
request past each await may rely on); that a started report finds an owner needs
`ClaimAnswered`. `RetainedOfferIsUnique` proves `OneOffer` under the additional
assumption `"absent" \notin Moves`, that is, if retention does not delete the
offer's row: the exact complement of the finding `task_reoffer`.

**SumTheorems** shows what `SumFunctionOnSet`, a recursion over subsets in an
unspecified order, comes to: it is defined for every finite set, any element may
be taken first, a new element adds its value, a part sums to no more than the
whole. Its inductions quantify over sets (`FiniteInduction`: a set of subsets
that contains the empty set, and with all one-smaller subsets of a set also that
set, contains every subset) where the library's theorems take a predicate.

**DeliveryProofs** proves `AckNeverAheadOfWork`, `HandlersRunOnce`,
`ControlsSerialised`, `NoPollRefused` and `TypeCorrect`. That a cursor is only
shown for handled rows is not inductive: the cursor moves over rows that a page
of another request brought, after a save that a restart may interrupt. `Inv`
orders the cursors (acknowledged, shown, saved, delivered: `CursorsOrdered`),
says that below every row the daemon took each row is handled, cancelled or
holds the cursor back (`RowsCovered`), that the request it waits for skips none
(`PageCovered`), and that a receipt stays until the cursor has passed
(`ReceiptsKept`). Polls are accepted because the request that is waited for
carries the highest cursor of all, those of earlier sessions included
(`CurrentHighest`), and lies within the window of what was delivered
(`RequestsOK`).

**HostCoreProofs** proves `OneWriter`, `SettlingIsQuiet`, `OutcomesOnce`,
`ScanComesBack`, `TypeCorrect` and the action property `CancellationOutranks`.
The scan acts on copies taken before its awaits. `CopyOK` says which of them can
be stale and how (a phase only a memory notice can have moved), `ReadsOK` what an
old read of the cloud still implies (a terminal and a cancellation stay, and
after the latter nobody claims; what `ReadAuthority` read is the last word for
`Finish`), `LiveOK` that only the current generation of an
intent in flight can run, `Fifo` that everything before it is settled. With these
a conclusion reached from an old read is one the present state allows.
`CancellationOutranks` says that a cancelled task whose scan has not yet made the
last read never gets its outcome applied: the cancellation stays
(`CancellationStays`), the only step that applies follows a read that saw it
(`OnlyFinishApplies`, `FinishAfterRead`), and a restart reads again.

**RoutinesProofs** proves `OlderNeverWaits`, `WorkKeepsVersion`, `TypeCorrect`,
and `ChainNeverLost` under the hypothesis `OneFlusher`. `Inv` orders the slots:
what was recorded, delivered or done lies behind the reserved slot (`SlotsOK`),
and an overtaken occurrence can only settle (`NewestOK`). `Calls` adds what a
flusher's snapshot may still hold of the reserved key (`FlushOK`, `Reserved`).
The hypothesis is needed: section 6 has the order in which two flushers lose the
wake. `Every` is assumed to name at least one version, the one a routine is
created with.

**TerminalsProofs** proves `OutgoingIsDurable`, `JournalAndCloudAgree`,
`TasksRunOnce` and `TypeCorrect`. `JournalFirst` and `OneTruth` need each other:
an envelope of replaced bytes may still be on its way, and is harmless only
because the cloud refused exactly it (`RowsOK`) and records nothing it refused
(`CloudOK`); a confirmation is right only because the answer covers an envelope
the cloud decided on, and a receipt is the journal's. A row changes in one of
three ways (`Advances`: its truth follows the cloud, it gets its first terminal,
a refused result is replaced), and `AdvancesOK` shows once for all writers that
each of them keeps rows, receipts and envelopes in agreement. `TasksRunOnce`
rests on `WorkOK`: a task is offered to the runner before its admission is
durable and never after, and runs without a terminal of its own.

Only model-checked: liveness (`EventuallyHandled`, `TerminalConverges`,
`EventuallySettled`, `TerminalSettles`, `StagedSwitches`), since the prover has
no rules for fairness and enabledness; and `OneOffer` without the hypothesis of
`RetainedOfferIsUnique`, which the run `task_reoffer` refutes. `EventuallySettled`
is checked for a projection outbox that can take the expiries of a pass at once.

## 5. Not modelled, and why

Cryptography, pairing and authentication; schemas; runtimes and processes; the
SQL and Durable Object stores; views and tests. In the modelled files: sealed
payloads and their blob references, progress and artifact logs, approvals,
agent messages, hello and presence, and identity checks that a conforming device
always passes. In the daemon: progress and drafts in the outbox and the bound
that drops them, approvals and result replies in the journal, pruning, and offers
that a stopping runner declines (`offer-admission.ts` 138). In the
execution core: agents other than one (their heads only add time to a scan), the
documents behind a projection, restore and export of memory; calendars other than
intervals, the refill after an empty queue, and the collection of finished wakes.
The map covers a small share of the repository: most of it is schemas, adapters
of external runtimes, SQL, file formats, user interface, examples and tests,
whose state this project does not abstract.

## 6. Findings

1. `delivery_unknown` — a row of an unknown type behind a filtered offer makes
   the daemon reject the whole page, again and again; a test says that it stalls
   only its own sequence.
2. `task_reoffer` — a retried enqueue can append a second offer after retention
   deleted the first; a comment says that it converges on one.

Also met while modelling, without a run of its own:

- `docs/protocol.md` (cursor advance) expects one inbound envelope at a time in
  arrival order, while `deliver()` starts handlers independently and orders only
  the controls of one task (`ControlsOneAtATime`).
- An offer whose handler failed and which is then cancelled is never shown again
  (`connection-manager.ts` 854), so the cursor stays below it until the daemon
  restarts; `docs/protocol.md` 3486-3490 calls redelivery a sufficient recovery.
  `EventuallyHandled` leaves cancelled offers out for this reason.
- A report in flight while the Host abandons the task leaves a terminal receipt
  on the settled attempt (`inbound.ts` 1022); `stores/ports.ts` 305-306 says there is
  none.
- The expiries of a pass share one transaction (`core.ts` 426-432). When they
  exceed the projection outbox together, although each of them would fit, the
  transaction is refused on every scan, with an empty outbox too, until the Host
  raises the limit: no overdue intent expires and nothing behind it runs.
  `docs/host-execution-core.md` 135 gives every intent a finite waiting deadline,
  and 1479-1484 name only a single result larger than the capacity as stuck.
  `MaxCount = 1` in `MCHostCore.cfg` shows it: both intents overdue, the outbox
  empty, each pass refused.
- `ChainAlive` relies on one flusher. A core with a memory has a second caller of
  `flushWakes` (`core.ts` 144-167) beside the scan: a pause, a snapshot of its
  cancel call by one of them, a resume whose schedule of the same key the other
  sends, and the stale cancel last leave an active routine with a reserved slot
  and no wake. `Flusher = {"drain", "memory"}` in `MCRoutines.cfg` shows it. The
  test "serializes a blocked cancel before resume schedules the same future key"
  (`examples/bot-collaboration/src/host.test.ts` 220) has scans only.
- `TerminalSettles` has one exception, `PendingAgain`. A commit wrote its row but
  failed at the read after it, and the daemon stopped and started: the start
  sends the row and the queue tries the commit again. If the cloud refuses the
  terminal in between, the entry in the queue takes the place of the replacement
  and makes the refused bytes pending again, and `send` drops them as already in
  flight. The terminal then waits for the next start.
- Host and scheduler read one clock in `Routines`; with a Host clock that lags, a
  resumed routine may reserve a key whose wake is already done.

## 7. Plan

Done: `DeviceStream`, `Mailbox`, `Delivery`, `TaskLifecycle`, `HostCore`,
`Terminals`, `Routines`, and the proofs of their safety properties.

Next, in this order:

1. Action properties that the inductive invariants already support: a journal
   row only moves along `Advances`, the shown and the saved cursor of the daemon
   only grow, the conclusion of an intent stays.
2. What `Routines` keeps with two flushers: which calls may lose the wake, as a
   theorem in place of the hypothesis `OneFlusher`.
3. A refinement of `HostCore.server` by `TaskLifecycle`, so that the facts the
   Host relies on are those the cloud is proved to keep.
4. Agent message admission against terminals; archive and redaction against late
   reports; reservations of objects against the entitlement.
