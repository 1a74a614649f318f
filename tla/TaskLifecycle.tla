---------------------------- MODULE TaskLifecycle ----------------------------
(***************************************************************************)
(* The life of one task in the cloud: the Host's enqueue                   *)
(* (packages/cloud/src/api/enqueue.ts), the reports of the device it was   *)
(* offered to (inbound.ts), the Host's cancellation and abandonment, and   *)
(* the retirement of the device (stores/in-memory: task-attempts.ts,       *)
(* task-cancellations.ts, task-retirement.ts, device-directory.ts).        *)
(*                                                                         *)
(* The handlers are stateless: each await is a step of its own, several    *)
(* calls run at once, and any of them may die between two steps and be     *)
(* retried.  What holds the task together is the order of their writes,    *)
(* the first-write-wins receipts, and the task's mutation chain: a         *)
(* cancellation, an abandonment and a device retirement hold it while they *)
(* await the mailbox, and every other attempt write waits for it.          *)
(*                                                                         *)
(* The task is offered to one device in plain text; redaction, archival    *)
(* and sealed bodies are left out.                                         *)
(***************************************************************************)
EXTENDS Naturals, FiniteSets

CONSTANTS
  Enqueue,     \* the Host's enqueue calls for this task id
  Body,        \* the offer bodies they may carry
  NoBody,
  Request,     \* the reports the cloud can be working on at a time
  Reports,     \* the reports the device may send: subset of Report
  Moves,       \* what may happen to the offer's row: subset of {"acked", "expired", "absent"}
  MaxOffers,   \* bound on the offer rows appended
  MaxFaults    \* bound on the calls that die

Report    == {"claim", "started", "decline", "complete", "fail", "cancelled"}
Terminal  == {"complete", "failed", "cancelled"}
Status    == {"none", "offered", "claimed", "running", "cancel_requested"} \union Terminal
Attempt   == [status : Status, owner : BOOLEAN, cancellation : BOOLEAN, byCloud : BOOLEAN]
Unopened  == [status |-> "none", owner |-> FALSE, cancellation |-> FALSE, byCloud |-> FALSE]
Chain     == [op : {"free", "cancel", "tombstone", "abandon", "abandoned", "revoke", "closed"}, existing : Attempt]
Free      == [op |-> "free", existing |-> Unopened]
RowState  == {"absent", "pending", "acked", "expired"}
CallStage == {"idle", "reserved", "checked", "append", "deliver", "retired", "done"}
Call      == [stage : CallStage, body : Body, created : BOOLEAN]
Stage     == {"idle", "gate", "settled", "apply", "read", "cancelled", "status", "board", "review", "complete"}

ASSUME LifecycleAssumption ==
  /\ Reports \subseteq Report
  /\ NoBody \notin Body
  /\ Moves \subseteq {"acked", "expired", "absent"}
  /\ MaxOffers \in Nat /\ MaxFaults \in Nat

VARIABLES
  attempt,       \* the attempt; status "none" before the reservation
  chain,         \* who holds the mutation chain, with the attempt it read
  receipt,       \* the terminal receipt: its status, or "none"
  offerReceipt,  \* the task-offer receipt: the body, or NoBody
  delivered,     \* the task-offer-delivered receipt
  board,         \* the task's coordination item
  registered,    \* the device's registration: "no", "reopened" or "yes"
  closed,        \* its mailbox stream is closed
  row,           \* the offer's mailbox row
  rowBody,       \* the body it carries
  call,          \* call[e]: the enqueue calls
  req,           \* req[r]: the reports being handled
  \* the device
  seen,          \* it has read the offer
  owed,          \* reports it has sent and has no answer for
  claimed,       \* its claim was answered
  \* history
  offers,        \* offer rows appended
  cancels,       \* cancel rows appended
  enqueued,      \* bodies the Host was told are enqueued
  faults

callVars   == <<offerReceipt, delivered, rowBody, call, offers, enqueued>>
reportVars == <<receipt, board, req, owed, claimed>>
deviceVars == <<registered, closed, seen>>
vars == <<attempt, chain, row, cancels, callVars, reportVars, deviceVars, faults>>

TypeOK ==
  /\ attempt \in Attempt
  /\ chain \in Chain
  /\ receipt \in {"none"} \union Terminal
  /\ offerReceipt \in Body \union {NoBody}
  /\ delivered \in BOOLEAN
  /\ board \in {"in_progress", "in_review", "other"}
  /\ registered \in {"no", "reopened", "yes"}
  /\ closed \in BOOLEAN
  /\ row \in RowState
  /\ rowBody \in Body \union {NoBody}
  /\ call \in [Enqueue -> Call]
  /\ req \in [Request -> [stage : Stage, report : Report]]
  /\ seen \in BOOLEAN
  /\ owed \subseteq Reports /\ claimed \in BOOLEAN
  /\ offers \in 0 .. MaxOffers
  /\ cancels \in Nat
  /\ enqueued \subseteq Body
  /\ faults \in 0 .. MaxFaults

Init ==
  /\ attempt = Unopened
  /\ chain = Free
  /\ receipt = "none"
  /\ offerReceipt = NoBody /\ delivered = FALSE
  /\ board = "in_progress"
  /\ registered = "yes" /\ closed = FALSE
  /\ row = "absent" /\ rowBody = NoBody
  /\ call \in [Enqueue -> {[stage |-> "idle", body |-> b, created |-> FALSE] : b \in Body}]
  /\ req = [r \in Request |-> [stage |-> "idle", report |-> "claim"]]
  /\ seen = FALSE
  /\ owed = {} /\ claimed = FALSE
  /\ offers = 0 /\ cancels = 0
  /\ enqueued = {}
  /\ faults = 0

\* A call dies between two of its steps, at most MaxFaults times.
Fault == faults < MaxFaults /\ faults' = faults + 1

IsTerminal(s) == s \in Terminal
Unfinished(a) == a.status \in {"offered", "claimed", "running", "cancel_requested"}

\* An attempt write runs when nothing holds the chain.
Mutable == chain.op = "free"

-----------------------------------------------------------------------------
(* Enqueue *)

CallOnly == UNCHANGED <<attempt, chain, row, cancels, reportVars, deviceVars, faults>>
CallTo(e, next) == call' = [call EXCEPT ![e].stage = next]

\* reserveAgentOffer: the first call opens the attempt, the others find it.
Reserve(e) ==
  /\ call[e].stage = "idle"
  /\ Mutable
  /\ call' = [call EXCEPT ![e] = [@ EXCEPT !.stage = "reserved", !.created = attempt.status = "none"]]
  /\ attempt' = IF attempt.status = "none" THEN [attempt EXCEPT !.status = "offered"] ELSE attempt
  /\ UNCHANGED <<chain, row, cancels, offerReceipt, delivered, rowBody, offers, enqueued,
                 reportVars, deviceVars, faults>>

\* A task whose offer is known to be delivered is refused.
CheckDelivered(e) ==
  /\ call[e].stage = "reserved"
  /\ CallTo(e, IF delivered THEN "done" ELSE "checked")
  /\ UNCHANGED <<offerReceipt, delivered, rowBody, offers, enqueued>>
  /\ CallOnly

\* mutant: the first body is recorded, but a different one goes on
SameBodyUnchecked(e) == TRUE

SameBody(e) == offerReceipt \in {NoBody, call[e].body}

\* The offer receipt fixes the body before anything is appended.
RecordOffer(e) ==
  /\ call[e].stage = "checked"
  /\ offerReceipt' = IF offerReceipt = NoBody THEN call[e].body ELSE offerReceipt
  /\ CallTo(e, IF SameBody(e) THEN "append" ELSE "done")
  /\ UNCHANGED <<delivered, rowBody, offers, enqueued>>
  /\ CallOnly

\* mutant: the retry of an append adds a row of its own
RowUnknownAlways == TRUE

\* The mailbox retains no row under the offer's message id.
RowUnknown == row = "absent"

\* append under the stable message id: a retained row is found again.
AppendOffer(e) ==
  /\ call[e].stage = "append"
  /\ ~closed
  /\ \/ /\ RowUnknown
        /\ offers < MaxOffers
        /\ row' = "pending"
        /\ rowBody' = call[e].body
        /\ offers' = offers + 1
     \/ /\ ~RowUnknown
        /\ UNCHANGED <<row, rowBody, offers>>
  /\ CallTo(e, "deliver")
  /\ UNCHANGED <<attempt, chain, cancels, offerReceipt, delivered, enqueued, reportVars, deviceVars, faults>>

\* The tenant's limit refuses a new row; the Host may try again.
AppendRefused(e) ==
  /\ call[e].stage = "append"
  /\ ~closed /\ RowUnknown
  /\ Fault
  /\ CallTo(e, "idle")
  /\ UNCHANGED <<attempt, chain, row, cancels, offerReceipt, delivered, rowBody, offers, enqueued,
                 reportVars, deviceVars>>

\* A closed stream refuses it: the call settles the attempt before it throws.
AppendClosed(e) ==
  /\ call[e].stage = "append"
  /\ closed
  /\ CallTo(e, "retired")
  /\ UNCHANGED <<offerReceipt, delivered, rowBody, offers, enqueued>>
  /\ CallOnly

\* The delivery receipt; a call that neither opened the attempt nor wrote the
\* receipt, or that finds another body in the row, is told the task exists.
RecordDelivered(e) ==
  LET same == rowBody = call[e].body
      told == same /\ (call[e].created \/ ~delivered)
  IN /\ call[e].stage = "deliver"
     /\ delivered' = (delivered \/ same)
     /\ enqueued' = enqueued \union (IF told THEN {call[e].body} ELSE {})
     /\ CallTo(e, "done")
     /\ UNCHANGED <<offerReceipt, rowBody, offers>>
     /\ CallOnly

\* The Host's process dies within the call, and calls again with the same body.
CallDies(e) ==
  /\ Fault
  /\ call[e].stage \notin {"idle", "done"}
  /\ CallTo(e, "idle")
  /\ UNCHANGED <<attempt, chain, row, cancels, offerReceipt, delivered, rowBody, offers, enqueued,
                 reportVars, deviceVars>>

-----------------------------------------------------------------------------
(* Cancellation and abandonment hold the chain across their awaits, and      *)
(* write the attempt they read when they took it.                            *)

Hold(op) == chain' = [op |-> op, existing |-> attempt]

\* mutant: a second cancellation does not find the first
CancelBeginAgain ==
  /\ Mutable
  /\ Unfinished(attempt)
  /\ Hold("cancel")
  /\ UNCHANGED <<attempt, row, cancels, callVars, reportVars, deviceVars, faults>>

\* cancelTask.  (An unknown, a cancelled and a finished task change nothing.)
CancelBegin ==
  /\ Mutable
  /\ Unfinished(attempt) /\ ~attempt.cancellation
  /\ Hold("cancel")
  /\ UNCHANGED <<attempt, row, cancels, callVars, reportVars, deviceVars, faults>>

\* The cancel row, which no limit refuses but a closed stream does.
CancelAppend ==
  /\ chain.op = "cancel"
  /\ \/ closed /\ chain' = Free /\ UNCHANGED cancels
     \/ ~closed /\ chain' = [chain EXCEPT !.op = "tombstone"] /\ cancels' = cancels + 1
  /\ UNCHANGED <<attempt, row, callVars, reportVars, deviceVars, faults>>

\* mutant: an unclaimed task waits for a device too
CancelCommitWaits ==
  /\ chain.op = "tombstone"
  /\ attempt' = [chain.existing EXCEPT !.cancellation = TRUE, !.status = "cancel_requested"]
  /\ chain' = Free
  /\ UNCHANGED <<row, cancels, callVars, reportVars, deviceVars, faults>>

\* The tombstone, written on the attempt read at the start.
CancelCommit ==
  /\ chain.op = "tombstone"
  /\ attempt' = [chain.existing EXCEPT !.cancellation = TRUE,
                   !.status = IF chain.existing.owner THEN "cancel_requested" ELSE "cancelled"]
  /\ chain' = Free
  /\ UNCHANGED <<row, cancels, callVars, reportVars, deviceVars, faults>>

Abandoned(a) == [a EXCEPT !.status = "cancelled", !.byCloud = TRUE]

AbandonBegin ==
  /\ Mutable
  /\ Unfinished(attempt)
  /\ Hold("abandon")
  /\ UNCHANGED <<attempt, row, cancels, callVars, reportVars, deviceVars, faults>>

\* The rows of a device that is no longer registered are dead-lettered.
AbandonRows ==
  /\ chain.op = "abandon"
  /\ row' = IF registered # "yes" /\ row = "pending" THEN "expired" ELSE row
  /\ chain' = [chain EXCEPT !.op = "abandoned"]
  /\ UNCHANGED <<attempt, cancels, callVars, reportVars, deviceVars, faults>>

AbandonCommit ==
  /\ chain.op = "abandoned"
  /\ attempt' = Abandoned(chain.existing)
  /\ chain' = Free
  /\ UNCHANGED <<row, cancels, callVars, reportVars, deviceVars, faults>>

\* The enqueue that met a closed stream abandons the task itself.
AbandonRetired(e) ==
  /\ call[e].stage = "retired"
  /\ Mutable
  /\ CallTo(e, "done")
  /\ IF Unfinished(attempt) THEN Hold("abandon") ELSE UNCHANGED chain
  /\ UNCHANGED <<attempt, row, cancels, offerReceipt, delivered, rowBody, offers, enqueued,
                 reportVars, deviceVars, faults>>

-----------------------------------------------------------------------------
(* Retirement of the device, in the exclusive section *)

RevokeBegin ==
  /\ Mutable
  /\ registered = "yes"
  /\ registered' = "no"
  /\ Hold("revoke")
  /\ UNCHANGED <<attempt, row, cancels, callVars, reportVars, closed, seen, faults>>

\* closeStream dead-letters what is pending; if it fails, the device stays.
RevokeClose ==
  /\ chain.op = "revoke"
  /\ closed' = TRUE
  /\ row' = IF row = "pending" THEN "expired" ELSE row
  /\ chain' = [chain EXCEPT !.op = "closed"]
  /\ UNCHANGED <<attempt, cancels, callVars, reportVars, registered, seen, faults>>

RevokeFails ==
  /\ Fault
  /\ chain.op = "revoke"
  /\ registered' = "yes"
  /\ chain' = Free
  /\ UNCHANGED <<attempt, row, cancels, callVars, reportVars, closed, seen>>

\* settleDeviceAttempts
RevokeSettle ==
  /\ chain.op = "closed"
  /\ attempt' = IF Unfinished(attempt) THEN Abandoned(attempt) ELSE attempt
  /\ chain' = Free
  /\ UNCHANGED <<row, cancels, callVars, reportVars, deviceVars, faults>>

\* The device id is paired again: its stream is reopened, then it is
\* registered.  Registrations and revocations run one at a time.
Register ==
  /\ chain.op \notin {"revoke", "closed"}
  /\ \/ registered = "no" /\ registered' = "reopened" /\ closed' = FALSE
     \/ registered = "reopened" /\ registered' = "yes" /\ UNCHANGED closed
  /\ UNCHANGED <<attempt, chain, row, cancels, callVars, reportVars, seen, faults>>

-----------------------------------------------------------------------------
(* The device and its mailbox *)

\* The events route shows the offer, unless a cancellation filters it.
ReadOffer ==
  /\ row = "pending" /\ registered = "yes" /\ ~attempt.cancellation
  /\ ~seen
  /\ seen' = TRUE
  /\ UNCHANGED <<attempt, chain, row, cancels, callVars, reportVars, registered, closed, faults>>

\* The cursor passes the row, retention dead-letters it, or deletes it.
RowMoves ==
  /\ row' \in Moves
  /\ \/ row = "pending" /\ (seen \/ attempt.cancellation) /\ row' = "acked"
     \/ row = "pending" /\ row' = "expired"
     \/ row \in {"acked", "expired"} /\ row' = "absent"
  /\ UNCHANGED <<attempt, chain, cancels, callVars, reportVars, deviceVars, faults>>

\* The device sends a report, again if it has no answer or has lost it.  It
\* starts and completes the task only after its claim was answered.
SendReport(r, m) ==
  /\ req[r].stage = "idle"
  /\ registered = "yes" /\ seen
  /\ m \in {"started", "complete"} => claimed
  /\ req' = [req EXCEPT ![r] = [stage |-> "gate", report |-> m]]
  /\ owed' = owed \union {m}
  /\ UNCHANGED <<attempt, chain, row, cancels, callVars, receipt, board, claimed, deviceVars, faults>>

-----------------------------------------------------------------------------
(* A report in the inbound gate *)

GateOnly == UNCHANGED <<attempt, chain, row, cancels, callVars, deviceVars, faults>>
To(r, next) == req' = [req EXCEPT ![r].stage = next]

\* An attempt that ended without a cancellation may have been settled by cloud.
Gate(r) ==
  /\ req[r].stage = "gate"
  /\ To(r, IF IsTerminal(attempt.status) /\ ~attempt.cancellation THEN "settled" ELSE "apply")
  /\ UNCHANGED <<receipt, board, owed, claimed>>
  /\ GateOnly

\* The answer, accepted or refused, settles the report on the device.
Answer(r) ==
  /\ To(r, "idle")
  /\ owed' = owed \ {req[r].report}
  /\ claimed' = (claimed \/ req[r].report = "claim")

\* Without a receipt it was: the report is refused.
SettledByCloud == receipt = "none"

GateSettled(r) ==
  /\ req[r].stage = "settled"
  /\ \/ SettledByCloud /\ Answer(r)
     \/ ~SettledByCloud /\ To(r, "apply") /\ UNCHANGED <<owed, claimed>>
  /\ UNCHANGED <<receipt, board>>
  /\ GateOnly

Claimable == attempt.status = "offered" /\ ~attempt.owner /\ ~attempt.cancellation

\* The winning claim takes the ownership; any other finds it taken or refused.
Claim(r) ==
  /\ req[r].stage = "apply" /\ req[r].report = "claim"
  /\ Mutable
  /\ attempt' = IF Claimable THEN [attempt EXCEPT !.status = "claimed", !.owner = TRUE] ELSE attempt
  /\ Answer(r)
  /\ UNCHANGED <<chain, row, cancels, callVars, receipt, board, deviceVars, faults>>

\* mutant: a terminal is recorded over a cancellation
RecordStatusOverCancellation(s) ==
  IF IsTerminal(attempt.status) THEN attempt ELSE [attempt EXCEPT !.status = s]

\* mutant: the last terminal wins
RecordStatusLast(s) ==
  IF attempt.cancellation /\ s # "cancelled" THEN attempt ELSE [attempt EXCEPT !.status = s]

\* The attempt recordStatus(s) leaves: a cancellation lets only `cancelled'
\* through, and a terminal attempt stays.
RecordStatus(s) ==
  LET refused == IF attempt.cancellation THEN s # "cancelled" ELSE IsTerminal(attempt.status)
  IN IF refused THEN attempt ELSE [attempt EXCEPT !.status = s]

Started(r) ==
  /\ req[r].stage = "apply" /\ req[r].report = "started"
  /\ Mutable
  /\ attempt' = RecordStatus("running")
  /\ Answer(r)
  /\ UNCHANGED <<chain, row, cancels, callVars, receipt, board, deviceVars, faults>>

\* mutant: the report's name is stored for the status
TerminalStatusRaw(m) == m

\* terminalStatus
TerminalStatus(m) ==
  CASE m = "complete" -> "complete" [] m \in {"fail", "decline"} -> "failed" [] m = "cancelled" -> "cancelled"

\* mutant: the last receipt wins
RecordReceiptLast(r) ==
  /\ req[r].stage = "apply" /\ req[r].report \notin {"claim", "started"}
  /\ receipt' = TerminalStatus(req[r].report)
  /\ To(r, "read")
  /\ UNCHANGED <<board, owed, claimed>>
  /\ GateOnly

\* mutant: a retry that finds the receipt has nothing left to do
RecordReceiptOnce(r) ==
  /\ req[r].stage = "apply" /\ req[r].report \notin {"claim", "started"}
  /\ receipt' = IF receipt = "none" THEN TerminalStatus(req[r].report) ELSE receipt
  /\ To(r, IF receipt = "none" THEN "read" ELSE "complete")
  /\ UNCHANGED <<board, owed, claimed>>
  /\ GateOnly

\* recordTerminal: the first receipt wins, and every retry resumes from it.
RecordReceipt(r) ==
  /\ req[r].stage = "apply" /\ req[r].report \notin {"claim", "started"}
  /\ receipt' = IF receipt = "none" THEN TerminalStatus(req[r].report) ELSE receipt
  /\ To(r, "read")
  /\ UNCHANGED <<board, owed, claimed>>
  /\ GateOnly

ReadAttempt(r) ==
  /\ req[r].stage = "read"
  /\ To(r, IF attempt.cancellation THEN "cancelled" ELSE "status")
  /\ UNCHANGED <<receipt, board, owed, claimed>>
  /\ GateOnly

RecordCancelled(r) ==
  /\ req[r].stage = "cancelled"
  /\ Mutable
  /\ attempt' = RecordStatus("cancelled")
  /\ To(r, "complete")
  /\ UNCHANGED <<chain, row, cancels, callVars, receipt, board, owed, claimed, deviceVars, faults>>

\* mutant: the projection does not look at what the status write left
RecordWinnerBlind(r) ==
  /\ req[r].stage = "status"
  /\ Mutable
  /\ attempt' = RecordStatus(receipt)
  /\ To(r, "board")
  /\ UNCHANGED <<chain, row, cancels, callVars, receipt, board, owed, claimed, deviceVars, faults>>

\* The status write is the ordering CAS: what it leaves decides what follows.
RecordWinner(r) ==
  LET recorded == RecordStatus(receipt)
  IN /\ req[r].stage = "status"
     /\ Mutable
     /\ attempt' = recorded
     /\ To(r, IF recorded.cancellation THEN "cancelled"
              ELSE IF recorded.status = receipt THEN "board" ELSE "complete")
     /\ UNCHANGED <<chain, row, cancels, callVars, receipt, board, owed, claimed, deviceVars, faults>>

\* projectTerminalToReview: a read, then a compare-and-swap.
ReadBoard(r) ==
  /\ req[r].stage = "board"
  /\ To(r, IF board = "in_progress" THEN "review" ELSE "complete")
  /\ UNCHANGED <<receipt, board, owed, claimed>>
  /\ GateOnly

Review(r) ==
  /\ req[r].stage = "review"
  /\ board' = IF board = "in_progress" THEN "in_review" ELSE board
  /\ To(r, "complete")
  /\ UNCHANGED <<receipt, owed, claimed>>
  /\ GateOnly

\* completeInboundEnvelope, and the answer.
Complete(r) ==
  /\ req[r].stage = "complete"
  /\ Answer(r)
  /\ UNCHANGED <<receipt, board>>
  /\ GateOnly

\* The worker dies, or its answer is lost.
RequestDies(r) ==
  /\ Fault
  /\ req[r].stage # "idle"
  /\ To(r, "idle")
  /\ UNCHANGED <<attempt, chain, row, cancels, callVars, receipt, board, owed, claimed, deviceVars>>

\* The board's other writers.  An item that is to do, done, closed or removed is
\* `other': it may be created again, with any status.
BoardMoves ==
  /\ board' \in {"in_progress", "in_review", "other"} \ {board}
  /\ UNCHANGED <<attempt, chain, row, cancels, callVars, receipt, req, owed, claimed, deviceVars, faults>>

-----------------------------------------------------------------------------

CallStep(e) == Reserve(e) \/ CheckDelivered(e) \/ RecordOffer(e) \/ AppendOffer(e)
               \/ AppendClosed(e) \/ RecordDelivered(e) \/ AbandonRetired(e)
ChainStep == CancelAppend \/ CancelCommit \/ AbandonRows \/ AbandonCommit \/ RevokeClose \/ RevokeSettle
RequestStep(r) == Gate(r) \/ GateSettled(r) \/ Claim(r) \/ Started(r) \/ RecordReceipt(r) \/ ReadAttempt(r)
                  \/ RecordCancelled(r) \/ RecordWinner(r) \/ ReadBoard(r) \/ Review(r) \/ Complete(r)
Resend(m) == m \in owed /\ \E r \in Request : SendReport(r, m)

Next ==
  \/ \E e \in Enqueue : CallStep(e) \/ AppendRefused(e) \/ CallDies(e)
  \/ CancelBegin \/ AbandonBegin \/ RevokeBegin
  \/ ChainStep \/ RevokeFails
  \/ Register
  \/ ReadOffer \/ RowMoves
  \/ \E r \in Request, m \in Reports : SendReport(r, m)
  \/ \E r \in Request : RequestStep(r) \/ RequestDies(r)
  \/ BoardMoves

Spec == Init /\ [][Next]_vars

\* Calls and requests that do not die run on, and the device sends a report
\* again until it has an answer.  Nothing is assumed of the Host.
Fairness ==
  /\ WF_vars(ChainStep)
  /\ \A r \in Request : SF_vars(RequestStep(r))
  /\ \A m \in Reports : SF_vars(Resend(m))

FairSpec == Spec /\ Fairness

-----------------------------------------------------------------------------
(* Properties *)

\* An accepted cancellation is the authority: whatever reports, retries and
\* retirements race it, the attempt never shows another outcome afterwards.
\* (ports.ts: `Its presence outranks later device terminal receipts'.)
CancellationWins ==
  attempt.cancellation => attempt.status \in {"cancel_requested", "cancelled"}

\* A completed or failed attempt is what its first terminal receipt says, also
\* when several different terminals and their retries are handled at once.
StatusIsReceipt == attempt.status \in {"complete", "failed"} => receipt = attempt.status

\* A task runs, and waits for its device to cancel it, only under an owner.
RunningIsOwned == attempt.status \in {"claimed", "running", "cancel_requested"} => attempt.owner

\* The cancel row is in the mailbox before the tombstone that filters the
\* offer, and a task owns one (mailbox.ts: `the one cancellation row').
CancelRowFirst ==
  /\ attempt.cancellation => cancels = 1
  /\ cancels <= 1

\* A retried enqueue converges on one body: what the Host was told is enqueued
\* is what the row carries.
EnqueuedBodyIsOffered == enqueued \subseteq {offerReceipt} /\ rowBody \in {NoBody, offerReceipt}

\* enqueue.ts: `The stable message identity then makes an append failure retry
\* converge on the one offer rather than allocating a second executable body'.
OneOffer == offers <= 1

\* Facts are never taken back: a terminal status, the receipt, the owner and
\* the cancellation of an attempt outlive everything that follows.
FactsStep ==
  /\ IsTerminal(attempt.status) => attempt'.status = attempt.status
  /\ receipt # "none" => receipt' = receipt
  /\ attempt.owner => attempt'.owner
  /\ attempt.cancellation => attempt'.cancellation
FactsStay == [][FactsStep]_vars

\* The projection moves a task to review only as the outcome the attempt ended
\* with and never against a cancellation, however late it runs.
ReviewStep ==
  \A r \in Request :
    Review(r) /\ board' # board =>
      receipt # "none" /\ attempt.status = receipt /\ ~attempt.cancellation
ReviewOnlyResult == [][ReviewStep]_vars

\* A device's terminal reaches the attempt in the end: the receipt alone is
\* never the last word, although the call that wrote it may have died.
TerminalConverges == receipt # "none" ~> IsTerminal(attempt.status)
=============================================================================
