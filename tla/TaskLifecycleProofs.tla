------------------------- MODULE TaskLifecycleProofs -------------------------
(***************************************************************************)
(* The safety properties of module TaskLifecycle, for any number of enqueue*)
(* calls, bodies, concurrent reports, offers and deaths.  The argument is  *)
(* one inductive invariant, Inv.  TerminalConverges is liveness and is     *)
(* left to TLC.                                                            *)
(***************************************************************************)
EXTENDS TaskLifecycle, TLAPS

\* Whoever holds the chain for a cancellation or an abandonment holds the
\* attempt as it is: no other write came in between.
Snapshot ==
  /\ chain.op \in {"cancel", "tombstone", "abandon", "abandoned"} =>
       chain.existing = attempt /\ Unfinished(attempt)
  /\ chain.op \in {"cancel", "tombstone"} => ~attempt.cancellation

\* The attempt is opened before the offer can be seen.
Opened ==
  /\ seen \/ row # "absent" => attempt.status # "none"
  /\ \A e \in Enqueue : call[e].stage \in {"reserved", "checked", "append", "deliver"} => attempt.status # "none"

\* What a request past a step may rely on.
RequestsOK ==
  \A r \in Request :
    /\ req[r].stage # "idle" => attempt.status # "none"
    /\ req[r].stage # "idle" /\ req[r].report = "started" => claimed
    /\ req[r].stage = "settled" => IsTerminal(attempt.status)
    /\ req[r].stage \in {"read", "cancelled", "status", "board", "review", "complete"} =>
         receipt # "none" /\ req[r].report \notin {"claim", "started"}
    /\ req[r].stage \in {"board", "review"} => attempt.status = receipt /\ ~attempt.cancellation

\* An answered claim was won, or the task is over.
ClaimAnswered == claimed => attempt.owner \/ IsTerminal(attempt.status) \/ attempt.cancellation

CancelsCounted == cancels = IF attempt.cancellation \/ chain.op = "tombstone" THEN 1 ELSE 0

\* The body of the offer receipt is the only one past the comparison.
BodiesOK ==
  /\ \A e \in Enqueue : call[e].stage \in {"append", "deliver"} => call[e].body = offerReceipt
  /\ rowBody \in {NoBody, offerReceipt}
  /\ enqueued \subseteq {offerReceipt}

Inv ==
  /\ TypeOK
  /\ Snapshot
  /\ Opened
  /\ RequestsOK
  /\ ClaimAnswered
  /\ CancelsCounted
  /\ BodiesOK
  /\ CancellationWins
  /\ StatusIsReceipt
  /\ RunningIsOwned

-----------------------------------------------------------------------------
(* Inv is inductive *)

\* A reservation leaves a well-formed call.
LEMMA CallType ==
  ASSUME NEW k \in Call, NEW c \in BOOLEAN
  PROVE  [k EXCEPT !.stage = "reserved", !.created = c] \in Call
BY DEF Call, CallStage

\* A task nobody has enqueued satisfies the invariant.
LEMMA InitInv == Init => Inv
<1> SUFFICES ASSUME Init PROVE Inv
  OBVIOUS
<1> USE LifecycleAssumption DEF Init, Unopened, Free
<1>1. attempt \in Attempt /\ chain \in Chain
  BY DEF Attempt, Chain, Status
<1>2. call \in [Enqueue -> Call]
  <2>1. ASSUME NEW e \in Enqueue
        PROVE  call[e] \in Call
    <3>1. PICK b \in Body : call[e] = [stage |-> "idle", body |-> b, created |-> FALSE]
      OBVIOUS
    <3> QED
      BY <3>1 DEF Call, CallStage
  <2>2. call = [e \in Enqueue |-> call[e]]
    OBVIOUS
  <2> QED
    BY <2>1, <2>2
<1>3. req \in [Request -> [stage : Stage, report : Report]]
  BY DEF Stage, Report
<1>4. TypeOK
  <2>1. offerReceipt \in Body \union {NoBody} /\ rowBody \in Body \union {NoBody}
    OBVIOUS
  <2>2. offers \in 0 .. MaxOffers /\ faults \in 0 .. MaxFaults /\ cancels \in Nat
    OBVIOUS
  <2>3. row \in RowState
    BY DEF RowState
  <2>4. delivered \in BOOLEAN /\ closed \in BOOLEAN /\ seen \in BOOLEAN /\ claimed \in BOOLEAN
    OBVIOUS
  <2> QED
    BY <1>1, <1>2, <1>3, <2>1, <2>2, <2>3, <2>4 DEF TypeOK
<1>5. \A e \in Enqueue : call[e].stage = "idle"
  OBVIOUS
<1> QED
  BY <1>4, <1>5 DEF Inv, Snapshot, Opened, RequestsOK, ClaimAnswered, CancelsCounted, BodiesOK,
       CancellationWins, StatusIsReceipt, RunningIsOwned

\* A terminal report stands for a terminal status.
LEMMA TerminalStatusType ==
  ASSUME NEW m \in Report, m \notin {"claim", "started"}
  PROVE  TerminalStatus(m) \in Terminal
BY DEF TerminalStatus, Report, Terminal

\* The steps of an enqueue call.
LEMMA CallsKeepInv ==
  ASSUME Inv, NEW e \in Enqueue
  PROVE  /\ Reserve(e) => Inv'
         /\ CheckDelivered(e) => Inv'
         /\ RecordOffer(e) => Inv'
         /\ AppendOffer(e) => Inv'
         /\ AppendRefused(e) => Inv'
         /\ AppendClosed(e) => Inv'
         /\ RecordDelivered(e) => Inv'
         /\ CallDies(e) => Inv'
         /\ AbandonRetired(e) => Inv'
<1> USE LifecycleAssumption DEF Inv, TypeOK, Snapshot, Opened, RequestsOK, ClaimAnswered, CancelsCounted,
         BodiesOK, CancellationWins, StatusIsReceipt, RunningIsOwned, Unopened, Free, Attempt, Chain, Status,
         Terminal, RowState, CallStage, Call, Stage, Report, IsTerminal, Unfinished, callVars,
         reportVars, deviceVars, Mutable, Fault, CallOnly, CallTo, SameBody, RowUnknown, Hold
<1>1. ASSUME Reserve(e) PROVE Inv'
  <2> USE <1>1 DEF Reserve
  <2>1. TypeOK'
    <3>1. attempt' \in Attempt
      OBVIOUS
    <3>2. call' \in [Enqueue -> Call]
      <4> HIDE DEF Call
      <4>1. (attempt.status = "none") \in BOOLEAN
        OBVIOUS
      <4> QED
        BY <4>1, CallType
    <3> QED
      BY <3>1, <3>2
  <2>2. /\ Snapshot' /\ Opened' /\ RequestsOK' /\ ClaimAnswered' /\ CancelsCounted' /\ BodiesOK'
        /\ CancellationWins' /\ StatusIsReceipt' /\ RunningIsOwned'
    OBVIOUS
  <2> QED
    BY <2>1, <2>2
<1>2. ASSUME CheckDelivered(e) PROVE Inv'
  BY <1>2 DEF CheckDelivered
<1>3. ASSUME RecordOffer(e) PROVE Inv'
  BY <1>3 DEF RecordOffer
<1>4. ASSUME AppendOffer(e) PROVE Inv'
  BY <1>4 DEF AppendOffer
<1>5. ASSUME AppendRefused(e) PROVE Inv'
  BY <1>5 DEF AppendRefused
<1>6. ASSUME AppendClosed(e) PROVE Inv'
  BY <1>6 DEF AppendClosed
<1>7. ASSUME RecordDelivered(e) PROVE Inv'
  BY <1>7 DEF RecordDelivered
<1>8. ASSUME CallDies(e) PROVE Inv'
  BY <1>8 DEF CallDies
<1>9. ASSUME AbandonRetired(e) PROVE Inv'
  BY <1>9 DEF AbandonRetired
<1> QED
  BY <1>1, <1>2, <1>3, <1>4, <1>5, <1>6, <1>7, <1>8, <1>9

\* The holders of the chain: the attempt they write is the one they read, by
\* Snapshot.
LEMMA ChainKeepsInv ==
  ASSUME Inv
  PROVE  /\ CancelBegin => Inv'
         /\ CancelAppend => Inv'
         /\ CancelCommit => Inv'
         /\ AbandonBegin => Inv'
         /\ AbandonRows => Inv'
         /\ AbandonCommit => Inv'
         /\ RevokeBegin => Inv'
         /\ RevokeClose => Inv'
         /\ RevokeFails => Inv'
         /\ RevokeSettle => Inv'
         /\ Register => Inv'
<1> USE LifecycleAssumption DEF Inv, TypeOK, Snapshot, Opened, RequestsOK, ClaimAnswered, CancelsCounted,
         BodiesOK, CancellationWins, StatusIsReceipt, RunningIsOwned, Unopened, Free, Attempt, Chain, Status,
         Terminal, RowState, CallStage, Call, Stage, Report, IsTerminal, Unfinished, callVars,
         reportVars, deviceVars, Mutable, Fault, Hold, Abandoned
<1>1. ASSUME CancelBegin PROVE Inv'
  BY <1>1 DEF CancelBegin
<1>2. ASSUME CancelAppend PROVE Inv'
  <2> USE <1>2 DEF CancelAppend
  <2>1. TypeOK'
    <3>1. chain' \in Chain
      <4>1. CASE closed
        <5>1. chain' = Free
          BY <4>1
        <5> QED
          BY <5>1
      <4>2. CASE ~closed
        BY <4>2
      <4> QED
        BY <4>1, <4>2
    <3>2. cancels' \in Nat
      OBVIOUS
    <3> QED
      BY <3>1, <3>2
  <2>2. /\ Snapshot' /\ Opened' /\ RequestsOK' /\ ClaimAnswered' /\ CancelsCounted' /\ BodiesOK'
        /\ CancellationWins' /\ StatusIsReceipt' /\ RunningIsOwned'
    OBVIOUS
  <2> QED
    BY <2>1, <2>2
<1>3. ASSUME CancelCommit PROVE Inv'
  <2> USE <1>3 DEF CancelCommit
  <2>1. TypeOK'
    <3>1. attempt' \in Attempt
      OBVIOUS
    <3>2. chain' \in Chain
      OBVIOUS
    <3> QED
      BY <3>1, <3>2
  <2>2. /\ Snapshot' /\ Opened' /\ RequestsOK' /\ ClaimAnswered' /\ CancelsCounted' /\ BodiesOK'
        /\ CancellationWins' /\ StatusIsReceipt' /\ RunningIsOwned'
    OBVIOUS
  <2> QED
    BY <2>1, <2>2
<1>4. ASSUME AbandonBegin PROVE Inv'
  BY <1>4 DEF AbandonBegin
<1>5. ASSUME AbandonRows PROVE Inv'
  BY <1>5 DEF AbandonRows
<1>6. ASSUME AbandonCommit PROVE Inv'
  <2> USE <1>6 DEF AbandonCommit
  <2>1. TypeOK'
    <3>1. attempt' \in Attempt
      OBVIOUS
    <3>2. chain' \in Chain
      OBVIOUS
    <3> QED
      BY <3>1, <3>2
  <2>2. /\ Snapshot' /\ Opened' /\ RequestsOK' /\ ClaimAnswered' /\ CancelsCounted' /\ BodiesOK'
        /\ CancellationWins' /\ StatusIsReceipt' /\ RunningIsOwned'
    OBVIOUS
  <2> QED
    BY <2>1, <2>2
<1>7. ASSUME RevokeBegin PROVE Inv'
  BY <1>7 DEF RevokeBegin
<1>8. ASSUME RevokeClose PROVE Inv'
  BY <1>8 DEF RevokeClose
<1>9. ASSUME RevokeFails PROVE Inv'
  BY <1>9 DEF RevokeFails
<1>10. ASSUME RevokeSettle PROVE Inv'
  <2> USE <1>10 DEF RevokeSettle
  <2>1. TypeOK'
    <3>1. attempt' \in Attempt
      OBVIOUS
    <3>2. chain' \in Chain
      OBVIOUS
    <3> QED
      BY <3>1, <3>2
  <2>2. /\ Snapshot' /\ Opened' /\ RequestsOK' /\ ClaimAnswered' /\ CancelsCounted' /\ BodiesOK'
        /\ CancellationWins' /\ StatusIsReceipt' /\ RunningIsOwned'
    OBVIOUS
  <2> QED
    BY <2>1, <2>2
<1>11. ASSUME Register PROVE Inv'
  <2> USE <1>11 DEF Register
  <2>1. TypeOK'
    <3>1. closed' \in BOOLEAN
      OBVIOUS
    <3>2. registered' \in {"no", "reopened", "yes"}
      OBVIOUS
    <3> QED
      BY <3>1, <3>2
  <2>2. /\ Snapshot' /\ Opened' /\ RequestsOK' /\ ClaimAnswered' /\ CancelsCounted' /\ BodiesOK'
        /\ CancellationWins' /\ StatusIsReceipt' /\ RunningIsOwned'
    OBVIOUS
  <2> QED
    BY <2>1, <2>2
<1> QED
  BY <1>1, <1>2, <1>3, <1>4, <1>5, <1>6, <1>7, <1>8, <1>9, <1>10, <1>11

\* Moves of the row and of the board, which no fact about the attempt rests on.
LEMMA DeviceKeepsInv ==
  ASSUME Inv
  PROVE  /\ ReadOffer => Inv'
         /\ RowMoves => Inv'
         /\ BoardMoves => Inv'
<1> USE LifecycleAssumption DEF Inv, TypeOK, Snapshot, Opened, RequestsOK, ClaimAnswered, CancelsCounted,
         BodiesOK, CancellationWins, StatusIsReceipt, RunningIsOwned, Unopened, Free, Attempt, Chain, Status,
         Terminal, RowState, CallStage, Call, Stage, Report, IsTerminal, Unfinished, callVars,
         reportVars, deviceVars, Mutable, Fault
<1>1. ASSUME ReadOffer PROVE Inv'
  BY <1>1 DEF ReadOffer
<1>2. ASSUME RowMoves PROVE Inv'
  BY <1>2 DEF RowMoves
<1>3. ASSUME BoardMoves PROVE Inv'
  BY <1>3 DEF BoardMoves
<1> QED
  BY <1>1, <1>2, <1>3

\* The steps of a report.
LEMMA RequestsKeepInv ==
  ASSUME Inv, NEW r \in Request
  PROVE  /\ Gate(r) => Inv'
         /\ GateSettled(r) => Inv'
         /\ Claim(r) => Inv'
         /\ Started(r) => Inv'
         /\ RecordReceipt(r) => Inv'
         /\ ReadAttempt(r) => Inv'
         /\ RecordCancelled(r) => Inv'
         /\ RecordWinner(r) => Inv'
         /\ ReadBoard(r) => Inv'
         /\ Review(r) => Inv'
         /\ Complete(r) => Inv'
         /\ RequestDies(r) => Inv'
<1> USE LifecycleAssumption DEF Inv, TypeOK, Snapshot, Opened, RequestsOK, ClaimAnswered, CancelsCounted,
         BodiesOK, CancellationWins, StatusIsReceipt, RunningIsOwned, Unopened, Free, Attempt, Chain, Status,
         Terminal, RowState, CallStage, Call, Stage, Report, IsTerminal, Unfinished, callVars,
         reportVars, deviceVars, Mutable, Fault, GateOnly, To, Answer, SettledByCloud, Claimable, RecordStatus
<1>1. ASSUME Gate(r) PROVE Inv'
  BY <1>1 DEF Gate
<1>2. ASSUME GateSettled(r) PROVE Inv'
  <2> USE <1>2 DEF GateSettled
  <2>1. TypeOK'
    <3>1. claimed' \in BOOLEAN
      OBVIOUS
    <3>2. owed' \subseteq Reports
      OBVIOUS
    <3>3. req' \in [Request -> [stage : Stage, report : Report]]
      OBVIOUS
    <3> QED
      BY <3>1, <3>2, <3>3
  <2>2. /\ Snapshot' /\ Opened' /\ RequestsOK' /\ ClaimAnswered' /\ CancelsCounted' /\ BodiesOK'
        /\ CancellationWins' /\ StatusIsReceipt' /\ RunningIsOwned'
    OBVIOUS
  <2> QED
    BY <2>1, <2>2
<1>3. ASSUME Claim(r) PROVE Inv'
  <2> USE <1>3 DEF Claim
  <2>1. TypeOK'
    <3>1. attempt' \in Attempt
      OBVIOUS
    <3>2. claimed' \in BOOLEAN
      OBVIOUS
    <3>3. owed' \subseteq Reports
      OBVIOUS
    <3>4. req' \in [Request -> [stage : Stage, report : Report]]
      OBVIOUS
    <3> QED
      BY <3>1, <3>2, <3>3, <3>4
  <2>2. /\ Snapshot' /\ Opened' /\ RequestsOK' /\ ClaimAnswered' /\ CancelsCounted' /\ BodiesOK'
        /\ CancellationWins' /\ StatusIsReceipt' /\ RunningIsOwned'
    OBVIOUS
  <2> QED
    BY <2>1, <2>2
<1>4. ASSUME Started(r) PROVE Inv'
  BY <1>4 DEF Started
<1>5. ASSUME RecordReceipt(r) PROVE Inv'
  BY <1>5, TerminalStatusType DEF RecordReceipt
<1>6. ASSUME ReadAttempt(r) PROVE Inv'
  BY <1>6 DEF ReadAttempt
<1>7. ASSUME RecordCancelled(r) PROVE Inv'
  BY <1>7 DEF RecordCancelled
<1>8. ASSUME RecordWinner(r) PROVE Inv'
  BY <1>8 DEF RecordWinner
<1>9. ASSUME ReadBoard(r) PROVE Inv'
  BY <1>9 DEF ReadBoard
<1>10. ASSUME Review(r) PROVE Inv'
  BY <1>10 DEF Review
<1>11. ASSUME Complete(r) PROVE Inv'
  BY <1>11 DEF Complete
<1>12. ASSUME RequestDies(r) PROVE Inv'
  BY <1>12 DEF RequestDies
<1> QED
  BY <1>1, <1>2, <1>3, <1>4, <1>5, <1>6, <1>7, <1>8, <1>9, <1>10, <1>11, <1>12

\* A report is sent about an offer that was seen, hence about an open attempt.
LEMMA SendReportKeepsInv ==
  ASSUME Inv, NEW r \in Request, NEW m \in Reports, SendReport(r, m)
  PROVE  Inv'
<1> USE LifecycleAssumption DEF SendReport, callVars, reportVars, deviceVars
<1>1. TypeOK'
  BY DEF Inv, TypeOK, Stage
<1>2. RequestsOK'
  BY DEF Inv, TypeOK, Opened, RequestsOK
<1> QED
  BY <1>1, <1>2 DEF Inv, Snapshot, Opened, ClaimAnswered, CancelsCounted, BodiesOK, CancellationWins,
       StatusIsReceipt, RunningIsOwned, Unfinished

\* Every step keeps the invariant.
LEMMA NextInv == Inv /\ [Next]_vars => Inv'
<1> SUFFICES ASSUME Inv, [Next]_vars PROVE Inv'
  OBVIOUS
<1>1. CASE \E e \in Enqueue : CallStep(e) \/ AppendRefused(e) \/ CallDies(e)
  BY <1>1, CallsKeepInv DEF CallStep
<1>2. CASE CancelBegin \/ AbandonBegin \/ RevokeBegin \/ ChainStep \/ RevokeFails \/ Register
  BY <1>2, ChainKeepsInv DEF ChainStep
<1>3. CASE ReadOffer \/ RowMoves \/ BoardMoves
  BY <1>3, DeviceKeepsInv
<1>4. CASE \E r \in Request, m \in Reports : SendReport(r, m)
  BY <1>4, SendReportKeepsInv
<1>5. CASE \E r \in Request : RequestStep(r) \/ RequestDies(r)
  BY <1>5, RequestsKeepInv DEF RequestStep
<1>6. CASE UNCHANGED vars
  BY <1>6 DEF vars, callVars, reportVars, deviceVars, Inv, TypeOK, Snapshot, Opened, RequestsOK, ClaimAnswered,
       CancelsCounted, BodiesOK, CancellationWins, StatusIsReceipt, RunningIsOwned, Unfinished
<1> QED
  BY <1>1, <1>2, <1>3, <1>4, <1>5, <1>6 DEF Next

\* The invariant holds in every behaviour of the task.
LEMMA InvHolds == Spec => []Inv
BY InitInv, NextInv, PTL DEF Spec

-----------------------------------------------------------------------------
(* The theorems *)

\* Every variable of the cloud's task state keeps its type.
THEOREM TypeCorrect == Spec => []TypeOK
BY InvHolds, PTL DEF Inv

\* An accepted cancellation decides the task, for any number of racing reports.
THEOREM CancellationIsAuthority == Spec => []CancellationWins
BY InvHolds, PTL DEF Inv

\* A completed or failed attempt agrees with the first terminal receipt.
THEOREM StatusFollowsReceipt == Spec => []StatusIsReceipt
BY InvHolds, PTL DEF Inv

\* A task that runs, or waits for its device to cancel it, has an owner.
THEOREM RunningHasOwner == Spec => []RunningIsOwned
BY InvHolds, PTL DEF Inv

\* The tombstone of a cancellation comes after its one mailbox row.
THEOREM TombstoneAfterRow == Spec => []CancelRowFirst
<1>1. Inv => CancelRowFirst
  BY DEF Inv, CancelsCounted, CancelRowFirst
<1> QED
  BY <1>1, InvHolds, PTL

\* Retried enqueues, with any bodies, converge on the body that is offered.
THEOREM EnqueueConverges == Spec => []EnqueuedBodyIsOffered
<1>1. Inv => EnqueuedBodyIsOffered
  BY DEF Inv, BodiesOK, EnqueuedBodyIsOffered
<1> QED
  BY <1>1, InvHolds, PTL

\* No step takes back a terminal status, a receipt, an owner or a cancellation.
THEOREM FactsAreFinal == Spec => FactsStay
<1>1. Inv /\ [Next]_vars => [FactsStep]_vars
  <2> SUFFICES ASSUME Inv, [Next]_vars PROVE FactsStep \/ UNCHANGED vars
    OBVIOUS
  <2> USE DEF callVars, reportVars, deviceVars
  <2>1. ASSUME NEW e \in Enqueue, CallStep(e) \/ AppendRefused(e) \/ CallDies(e)
        PROVE  FactsStep
    BY <2>1 DEF FactsStep, IsTerminal, Terminal, Inv, TypeOK, Attempt, CallStep, AppendRefused, CallDies, Reserve,
         CheckDelivered, RecordOffer, AppendOffer, AppendClosed, RecordDelivered, AbandonRetired, CallOnly
  <2>2. ASSUME CancelBegin \/ AbandonBegin \/ RevokeBegin \/ ChainStep \/ RevokeFails \/ Register
        PROVE  FactsStep
    BY <2>2 DEF FactsStep, IsTerminal, Terminal, Inv, TypeOK, Attempt, Snapshot, Unfinished, Abandoned,
         CancelBegin, AbandonBegin, RevokeBegin, ChainStep, RevokeFails, Register, CancelAppend,
         CancelCommit, AbandonRows, AbandonCommit, RevokeClose, RevokeSettle
  <2>3. ASSUME NEW r \in Request, RequestStep(r) \/ RequestDies(r)
        PROVE  FactsStep
    <3> USE DEF FactsStep, IsTerminal, Terminal, Inv, TypeOK, Attempt, CancellationWins, GateOnly
    <3>1. CASE Claim(r)
      BY <3>1 DEF Claim, Claimable
    <3>2. CASE Started(r)
      BY <3>2 DEF Started, RecordStatus
    <3>3. CASE RecordReceipt(r)
      BY <3>3 DEF RecordReceipt
    <3>4. CASE RecordCancelled(r)
      BY <3>4 DEF RecordCancelled, RecordStatus
    <3>5. CASE RecordWinner(r)
      BY <3>5 DEF RecordWinner, RecordStatus
    <3>6. CASE Gate(r) \/ GateSettled(r) \/ ReadAttempt(r) \/ ReadBoard(r) \/ Review(r) \/ Complete(r)
      BY <3>6 DEF Gate, GateSettled, ReadAttempt, ReadBoard, Review, Complete
    <3>7. CASE RequestDies(r)
      BY <3>7 DEF RequestDies
    <3> QED
      BY <2>3, <3>1, <3>2, <3>3, <3>4, <3>5, <3>6, <3>7 DEF RequestStep
  <2>4. ASSUME ReadOffer \/ RowMoves \/ BoardMoves
        PROVE  FactsStep
    BY <2>4 DEF FactsStep, ReadOffer, RowMoves, BoardMoves
  <2>5. ASSUME NEW r \in Request, NEW m \in Reports, SendReport(r, m)
        PROVE  FactsStep
    BY <2>5 DEF FactsStep, SendReport
  <2> QED
    BY <2>1, <2>2, <2>3, <2>4, <2>5 DEF Next
<1> QED
  BY <1>1, InvHolds, PTL DEF Spec, FactsStay

\* The projection enters review only with the attempt's own result.
THEOREM ReviewShowsResult == Spec => ReviewOnlyResult
<1>1. Inv /\ [Next]_vars => [ReviewStep]_vars
  BY DEF ReviewStep, Review, Inv, RequestsOK
<1> QED
  BY <1>1, InvHolds, PTL DEF Spec, ReviewOnlyResult

\* While retention keeps the offer's row, no retry of the enqueue, after any
\* number of deaths, appends a second one: what breaks OneOffer is only the
\* deletion of the row that the stable message id is looked up in.
THEOREM RetainedOfferIsUnique ==
  ASSUME "absent" \notin Moves
  PROVE  Spec => []OneOffer
<1> DEFINE Counted == offers = IF row = "absent" THEN 0 ELSE 1
<1>1. Init => Counted
  BY DEF Init
<1>2. Counted /\ [Next]_vars => Counted'
  <2> SUFFICES ASSUME Counted, [Next]_vars PROVE Counted'
    OBVIOUS
  <2> USE DEF callVars, reportVars, deviceVars
  <2>1. ASSUME NEW e \in Enqueue, AppendOffer(e)
        PROVE  Counted'
    BY <2>1 DEF AppendOffer, RowUnknown
  <2>2. ASSUME NEW e \in Enqueue, CallStep(e) \/ AppendRefused(e) \/ CallDies(e), ~AppendOffer(e)
        PROVE  UNCHANGED <<row, offers>>
    BY <2>2 DEF CallStep, AppendRefused, CallDies, Reserve, CheckDelivered, RecordOffer, AppendClosed,
         RecordDelivered, AbandonRetired, CallOnly
  <2>3. ASSUME CancelBegin \/ AbandonBegin \/ RevokeBegin \/ ChainStep \/ RevokeFails \/ Register
        PROVE  Counted'
    BY <2>3 DEF CancelBegin, AbandonBegin, RevokeBegin, ChainStep, RevokeFails, Register, CancelAppend,
         CancelCommit, AbandonRows, AbandonCommit, RevokeClose, RevokeSettle
  <2>4. ASSUME NEW r \in Request, RequestStep(r) \/ RequestDies(r)
        PROVE  UNCHANGED <<row, offers>>
    BY <2>4 DEF RequestStep, RequestDies, Gate, GateSettled, Claim, Started, RecordReceipt, ReadAttempt,
         RecordCancelled, RecordWinner, ReadBoard, Review, Complete, GateOnly
  <2>5. ASSUME ReadOffer \/ RowMoves \/ BoardMoves \/ UNCHANGED vars
        PROVE  Counted'
    BY <2>5, LifecycleAssumption DEF ReadOffer, RowMoves, BoardMoves, vars
  <2>6. ASSUME NEW r \in Request, NEW m \in Reports, SendReport(r, m)
        PROVE  UNCHANGED <<row, offers>>
    BY <2>6 DEF SendReport
  <2> QED
    BY <2>1, <2>2, <2>3, <2>4, <2>5, <2>6 DEF Next
<1>3. Counted => OneOffer
  BY DEF OneOffer
<1> QED
  BY <1>1, <1>2, <1>3, PTL DEF Spec
=============================================================================
