---------------------------- MODULE DeliveryProofs ----------------------------
(***************************************************************************)
(* The safety of delivery, for any number of rows and of requests, any     *)
(* page and window size and any number of faults: acknowledged means       *)
(* handled, the daemon's polls are accepted, no handler runs twice between *)
(* two starts, and the controls of a task are handled one at a time.       *)
(*                                                                         *)
(* The argument is one inductive invariant, Inv, in three parts: how the   *)
(* cursors are ordered, which rows are accounted for below every row the   *)
(* daemon has taken, and what the processing of a row may rely on.         *)
(***************************************************************************)
EXTENDS Delivery, TLAPS, FiniteSetTheorems, WellFoundedInduction

-----------------------------------------------------------------------------
(* The inductive invariant *)

\* The rows of the stream: exactly those below nextSeq exist, since this stream
\* forgets none, and the consumed ones lie at or below the acknowledged cursor.
RowsOK ==
  /\ deliveredSeq < nextSeq
  /\ \A s \in Seqs : /\ s < nextSeq => state[s] # "absent"
                     /\ nextSeq <= s => state[s] = "absent"
                     /\ state[s] = "acked" => s <= ackedSeq

\* What the server acknowledged, the daemon showed; what it shows, it saved;
\* what it saved was delivered to it.
CursorsOrdered ==
  /\ ackedSeq <= cursor /\ cursor <= saved /\ saved <= deliveredSeq
  /\ readCursor <= deliveredSeq
  /\ saving # NoSave => /\ cursor < saving.prefix /\ saving.prefix <= deliveredSeq
                        /\ saving.written => saved = saving.prefix

\* Every request stays within what the route admits.
RequestOK(p) ==
  /\ poll[p].cursor <= cursor
  /\ poll[p].cursor <= poll[p].after \/ poll[p].stage = "ok"
  /\ poll[p].after <= poll[p].scan
  /\ poll[p].after <= deliveredSeq
  /\ poll[p].stage = "sent" => poll[p].after - poll[p].cursor <= Window
  /\ poll[p].stage = "ok" => poll[p].scan <= deliveredSeq
  /\ poll[p].stage = "filter" => poll[p].page # {} /\ \A s \in poll[p].page : poll[p].scan < s
  /\ poll[p].stage \in {"deliver", "ok"} => \A s \in poll[p].page : s <= poll[p].scan

RequestsOK == \A p \in Poll : RequestOK(p)

\* The request the daemon waits for carries the highest cursor of all requests.
CurrentHighest ==
  current # NoPoll /\ poll[current].stage \in {"sent", "ack"} =>
    /\ ackedSeq <= poll[current].cursor
    /\ \A q \in Poll : poll[q].cursor <= poll[current].cursor

\* A row is accounted for when it was handled, was cancelled by its tenant, or
\* holds the cursor below it.
Covered(s) == s \in handled \union cancelled \union unresolved

\* The rows the daemon has taken.
Taken == processed \union unresolved \union failed \union InFlight

\* Everything below a saved cursor is handled or cancelled; everything below a
\* row that was taken, and everything the session has read, is accounted for.
RowsCovered ==
  /\ processed \subseteq handled
  /\ \A s \in Seqs : s <= saved => s \in handled \union cancelled
  /\ saving # NoSave => \A s \in Seqs : s <= saving.prefix => s \in handled \union cancelled
  /\ \A v \in Taken : v <= deliveredSeq /\ \A s \in Seqs : s <= v => Covered(s)
  /\ \A s \in Seqs : s <= readCursor => Covered(s)

\* The request the daemon waits for skips no row: up to where it has read, a row
\* is accounted for or on its page.
PageCovered ==
  current # NoPoll =>
    LET r == poll[current]
    IN \A s \in Seqs :
         /\ s <= r.after => Covered(s)
         /\ r.stage \in {"sent", "ack", "scan", "hold"} /\ s <= r.scan => Covered(s)
         /\ r.stage = "filter" /\ (\E t \in r.page : s <= t) => Covered(s) \/ s \in r.page
         /\ r.stage \in {"deliver", "ok"} /\ s <= r.scan => Covered(s) \/ s \in r.page

\* A handler that succeeded leaves a receipt until the cursor has passed its row,
\* and the row whose completion saves the cursor stays in flight meanwhile.
ReceiptsKept ==
  /\ \A s \in ran : s \in processed \/ s <= cursor
  /\ saving # NoSave => proc[saving.by] = "commit"
  /\ NoSecondRun

\* Of two controls of one task in flight one waits for the other, and what has
\* started waits for nothing.
ControlsQueue ==
  /\ \A s, t \in InFlight :
       s # t /\ IsControl(s) /\ IsControl(t) /\ task[s] = task[t] => s \in ahead[t] \/ t \in ahead[s]
  /\ \A s \in Seqs : proc[s] # "queued" => ahead[s] = {}

Inv ==
  /\ TypeOK
  /\ RowsOK
  /\ CursorsOrdered
  /\ RequestsOK
  /\ CurrentHighest
  /\ RowsCovered
  /\ PageCovered
  /\ ReceiptsKept
  /\ ControlsQueue

-----------------------------------------------------------------------------
(* Facts about the operators *)

\* A non-empty set of cursors has a greatest member, which Max returns.
LEMMA MaxOfCursors ==
  ASSUME NEW S \in SUBSET (NoRead .. MaxSeq), S # {}
  PROVE  Max(S) \in S /\ \A s \in S : s <= Max(S)
<1> DEFINE T == {n \in Nat : \E s \in S : n = MaxSeq - s}
           R == OpToRel(<, Nat)
<1> USE MaxSeqAssumption DEF NoRead
<1>1. T \subseteq Nat /\ T # {}
  <2>1. PICK s \in S : TRUE
    OBVIOUS
  <2>2. MaxSeq - s \in Nat
    OBVIOUS
  <2> QED
    BY <2>2
<1>2. PICK x \in T : \A y \in T : ~(<<y, x>> \in R)
  <2> HIDE DEF T, R
  <2>1. IsWellFoundedOn(R, Nat)
    BY NatLessThanWellFounded DEF R
  <2> QED
    BY <1>1, <2>1, WFMin
<1>3. PICK m \in S : x = MaxSeq - m
  OBVIOUS
<1>4. ASSUME NEW s \in S
      PROVE  m >= s
  <2>1. MaxSeq - s \in T
    OBVIOUS
  <2>2. ~(MaxSeq - s < x)
    BY <1>2, <2>1 DEF OpToRel
  <2> QED
    BY <1>3, <2>2
<1>5. /\ Max(S) \in S
      /\ \A s \in S : Max(S) >= s
  BY <1>4 DEF Max
<1> QED
  BY <1>5

\* A page is an initial segment of the rows it was cut from.
LEMMA PageIsPrefix ==
  ASSUME NEW rows \in SUBSET Seqs, NEW s \in rows, NEW t \in rows, t <= s,
         Cardinality({u \in rows : u <= s}) <= PageLimit
  PROVE  Cardinality({u \in rows : u <= t}) <= PageLimit
<1> DEFINE A == {u \in rows : u <= t}
           B == {u \in rows : u <= s}
<1>1. IsFiniteSet(Seqs)
  BY FS_Interval, MaxSeqAssumption DEF Seqs
<1>2. IsFiniteSet(B)
  BY <1>1, FS_Subset
<1>3. A \subseteq B
  <2>1. ASSUME NEW u \in rows, u <= t
        PROVE  u <= s
    BY <2>1, MaxSeqAssumption DEF Seqs
  <2> QED
    BY <2>1
<1>4. Cardinality(A) <= Cardinality(B) /\ Cardinality(A) \in Nat /\ Cardinality(B) \in Nat
  BY <1>2, <1>3, FS_Subset, FS_CardinalityType
<1> QED
  BY <1>4, DeliveryAssumption

\* The fields of a request, and what a reply leaves of it.
LEMMA RequestFields ==
  ASSUME TypeOK, NEW p \in Poll
  PROVE  /\ poll[p] \in Request
         /\ poll[p].stage \in Stage
         /\ poll[p].cursor \in 0 .. MaxSeq /\ poll[p].after \in 0 .. MaxSeq /\ poll[p].scan \in 0 .. MaxSeq
         /\ poll[p].page \subseteq Seqs /\ poll[p].more \in BOOLEAN
BY DEF TypeOK, Request

LEMMA IdleIsRequest == Idle \in Request
BY MaxSeqAssumption DEF Idle, Request, Stage

LEMMA ReplyFields ==
  ASSUME TypeOK, NEW p \in Poll, NEW answer \in {"idle", "empty", "too_old", "refused"},
         poll' = [poll EXCEPT ![p] = [Idle EXCEPT !.stage = answer]]
  PROVE  /\ poll' \in [Poll -> Request]
         /\ poll'[p].stage = answer
         /\ poll'[p].cursor = 0 /\ poll'[p].after = 0 /\ poll'[p].scan = 0 /\ poll'[p].page = {}
         /\ \A q \in Poll \ {p} : poll'[q] = poll[q]
<1> DEFINE r == [Idle EXCEPT !.stage = answer]
<1>1. /\ r \in Request
      /\ r.stage = answer
      /\ r.cursor = 0 /\ r.after = 0 /\ r.scan = 0 /\ r.page = {}
  <2>1. r \in Request
    BY IdleIsRequest DEF Request, Stage
  <2>2. r.stage = answer /\ r.cursor = 0 /\ r.after = 0 /\ r.scan = 0 /\ r.page = {}
    BY DEF Idle
  <2> QED
    BY <2>1, <2>2
<1> HIDE DEF r
<1>2. poll' = [poll EXCEPT ![p] = r]
  BY DEF r
<1> QED
  BY <1>1, <1>2 DEF TypeOK

LEMMA MoveFields ==
  ASSUME TypeOK, NEW p \in Poll, NEW next \in Stage,
         poll' = [poll EXCEPT ![p].stage = next]
  PROVE  /\ poll' \in [Poll -> Request]
         /\ poll'[p].stage = next /\ poll'[p].cursor = poll[p].cursor /\ poll'[p].after = poll[p].after
         /\ poll'[p].scan = poll[p].scan /\ poll'[p].page = poll[p].page
         /\ \A q \in Poll \ {p} : poll'[q] = poll[q]
<1>1. poll'[p] = [poll[p] EXCEPT !.stage = next]
  BY DEF TypeOK
<1>2. [poll[p] EXCEPT !.stage = next] \in Request
  BY RequestFields DEF Request
<1> QED
  BY <1>1, <1>2, RequestFields DEF TypeOK, Request

-----------------------------------------------------------------------------
(* Inv is inductive *)

LEMMA InitInv == Init => Inv
<1> SUFFICES ASSUME Init PROVE Inv
  OBVIOUS
<1> USE MaxSeqAssumption, DeliveryAssumption DEF Init, StreamInit, Seqs, NoRead
<1>1. TypeOK
  <2>1. poll \in [Poll -> Request]
    BY IdleIsRequest
  <2>2. /\ nextSeq \in 1 .. MaxSeq + 1 /\ deliveredSeq \in 0 .. MaxSeq /\ ackedSeq \in 0 .. MaxSeq
        /\ state \in [Seqs -> {"absent", "pending", "acked", "expired"}]
        /\ cancelling \in 0 .. MaxSeq /\ task \in [Seqs -> 0 .. MaxSeq] /\ kind \in [Seqs -> Kind]
    BY DEF Kind
  <2>3. /\ saved \in 0 .. MaxSeq /\ cursor \in 0 .. MaxSeq /\ readCursor \in NoRead .. MaxSeq
        /\ proc \in [Seqs -> {"none", "queued", "handler", "commit"}] /\ ahead \in [Seqs -> SUBSET Seqs]
        /\ faults \in 0 .. MaxFaults
    OBVIOUS
  <2> QED
    BY <2>1, <2>2, <2>3 DEF TypeOK
<1>2. RowsOK /\ CursorsOrdered
  BY DEF RowsOK, CursorsOrdered
<1>3. RequestsOK /\ CurrentHighest
  BY DEF RequestsOK, RequestOK, CurrentHighest, Idle
<1>4. RowsCovered /\ PageCovered
  BY DEF RowsCovered, PageCovered, Covered, Taken, InFlight
<1>5. ReceiptsKept /\ ControlsQueue
  BY DEF ReceiptsKept, NoSecondRun, ControlsQueue, InFlight
<1> QED
  BY <1>1, <1>2, <1>3, <1>4, <1>5 DEF Inv

\* A reply ends a request: no part of Inv asks anything of it.
LEMMA ReplyKeepsInv ==
  ASSUME Inv, NEW p \in Poll, NEW answer \in {"idle", "empty", "too_old", "refused"},
         poll' = [poll EXCEPT ![p] = [Idle EXCEPT !.stage = answer]],
         UNCHANGED <<cloudVars, saved, memoryVars, loopVars, ghostVars>>
  PROVE  Inv'
<1> USE DEF Inv, Seqs, cloudVars, streamVars, memoryVars, loopVars, ghostVars
<1>1. /\ poll' \in [Poll -> Request]
      /\ poll'[p].stage = answer
      /\ poll'[p].cursor = 0 /\ poll'[p].after = 0 /\ poll'[p].scan = 0 /\ poll'[p].page = {}
      /\ \A q \in Poll \ {p} : poll'[q] = poll[q]
  BY ReplyFields
<1>2. TypeOK'
  BY <1>1 DEF TypeOK
<1>3. RowsOK' /\ CursorsOrdered' /\ ReceiptsKept'
  BY DEF RowsOK, CursorsOrdered, ReceiptsKept, NoSecondRun
<1>4. RowsCovered' /\ ControlsQueue'
  BY DEF RowsCovered, Covered, Taken, InFlight, ControlsQueue, IsControl
<1>5. RequestsOK'
  <2>1. ASSUME NEW q \in Poll PROVE RequestOK(q)'
    <3>1. CASE q = p
      BY <1>1, <3>1, MaxSeqAssumption DEF RequestOK, TypeOK
    <3>2. CASE q # p
      BY <1>1, <3>2 DEF RequestsOK, RequestOK
    <3> QED
      BY <3>1, <3>2
  <2> QED
    BY <2>1 DEF RequestsOK
<1>6. CurrentHighest'
  <2>1. ASSUME NEW q \in Poll PROVE poll'[q].cursor <= poll[q].cursor /\ poll[q].cursor \in Nat /\ poll'[q].cursor \in Nat
    BY <1>1, RequestFields
  <2> QED
    BY <1>1, <2>1 DEF CurrentHighest, TypeOK
<1>7. PageCovered'
  BY <1>1 DEF PageCovered, Covered
<1> QED
  BY <1>2, <1>3, <1>4, <1>5, <1>6, <1>7

\* A step of one request that leaves everything else alone keeps Inv if it keeps
\* what Inv says of that request.
LEMMA RequestKeepsInv ==
  ASSUME Inv, NEW p \in Poll, PollOnly,
         poll' \in [Poll -> Request], \A q \in Poll \ {p} : poll'[q] = poll[q],
         RequestOK(p)', CurrentHighest', PageCovered'
  PROVE  Inv'
<1> USE DEF Inv, PollOnly, Seqs, streamVars, memoryVars, loopVars, ghostVars
<1>1. TypeOK'
  BY DEF TypeOK
<1>2. RowsOK' /\ CursorsOrdered' /\ ReceiptsKept'
  BY DEF RowsOK, CursorsOrdered, ReceiptsKept, NoSecondRun
<1>3. RowsCovered' /\ ControlsQueue'
  BY DEF RowsCovered, Covered, Taken, InFlight, ControlsQueue, IsControl
<1>4. RequestsOK'
  BY DEF RequestsOK, RequestOK
<1> QED
  BY <1>1, <1>2, <1>3, <1>4

LEMMA PollAdmitKeepsInv ==
  ASSUME Inv, NEW p \in Poll, PollAdmit(p)
  PROVE  Inv'
<1> DEFINE next == IF poll[p].cursor > ackedSeq THEN "ack" ELSE "scan"
<1>1. CASE Reply(p, "refused")
  BY <1>1, ReplyKeepsInv DEF PollAdmit, Reply, PollOnly, cloudVars
<1>2. CASE Move(p, next)
  <2>1. TypeOK
    BY DEF Inv
  <2>2. next \in Stage
    BY DEF Stage
  <2> HIDE DEF next
  <2>3. /\ poll' \in [Poll -> Request]
        /\ poll'[p].stage = next /\ poll'[p].cursor = poll[p].cursor /\ poll'[p].after = poll[p].after
        /\ poll'[p].scan = poll[p].scan
        /\ \A q \in Poll \ {p} : poll'[q] = poll[q]
    BY <1>2, <2>1, <2>2, MoveFields DEF Move
  <2>4. poll[p].stage = "sent" /\ PollOnly /\ next \in {"ack", "scan"}
    BY DEF PollAdmit, next
  <2>5. RequestOK(p)'
    BY <2>3, <2>4 DEF Inv, RequestsOK, RequestOK, PollOnly, streamVars, memoryVars
  <2>6. CurrentHighest'
    BY <2>3, <2>4 DEF Inv, TypeOK, CurrentHighest, PollOnly, streamVars, loopVars
  <2>7. PageCovered'
    BY <2>3, <2>4 DEF Inv, TypeOK, PageCovered, Covered, PollOnly, memoryVars, loopVars, ghostVars
  <2> QED
    BY <2>3, <2>4, <2>5, <2>6, <2>7, RequestKeepsInv
<1> QED
  BY <1>1, <1>2 DEF PollAdmit

LEMMA PollWakeKeepsInv ==
  ASSUME Inv, NEW p \in Poll, PollWake(p)
  PROVE  Inv'
<1>1. poll[p].stage = "hold" /\ PollOnly
  BY DEF PollWake
<1>2. /\ poll' \in [Poll -> Request]
      /\ poll'[p].stage = "scan" /\ poll'[p].cursor = poll[p].cursor /\ poll'[p].after = poll[p].after
      /\ poll'[p].scan = poll[p].scan
      /\ \A q \in Poll \ {p} : poll'[q] = poll[q]
  <2>1. TypeOK /\ "scan" \in Stage
    BY DEF Inv, Stage
  <2> QED
    BY <2>1, MoveFields DEF PollWake, Move
<1>3. RequestOK(p)'
  BY <1>1, <1>2 DEF Inv, RequestsOK, RequestOK, PollOnly, streamVars, memoryVars
<1>4. CurrentHighest'
  BY <1>1, <1>2 DEF Inv, TypeOK, CurrentHighest, PollOnly, streamVars, loopVars
<1>5. PageCovered'
  BY <1>1, <1>2 DEF Inv, TypeOK, PageCovered, Covered, PollOnly, memoryVars, loopVars, ghostVars
<1> QED
  BY <1>1, <1>2, <1>3, <1>4, <1>5, RequestKeepsInv

\* The answers that end a request.
LEMMA PollEndKeepsInv ==
  ASSUME Inv, NEW p \in Poll, PollAckRefused(p) \/ PollTimeout(p) \/ PollDrop(p)
  PROVE  Inv'
<1>1. CASE PollAckRefused(p)
  BY <1>1, ReplyKeepsInv DEF PollAckRefused, Reply, PollOnly, cloudVars
<1>2. CASE PollTimeout(p)
  BY <1>2, ReplyKeepsInv DEF PollTimeout, Reply, PollOnly, cloudVars
<1>3. CASE PollDrop(p)
  <2>1. Idle = [Idle EXCEPT !.stage = "idle"]
    BY DEF Idle
  <2>2. poll' = [poll EXCEPT ![p] = [Idle EXCEPT !.stage = "idle"]]
    BY <1>3, <2>1 DEF PollDrop
  <2> QED
    BY <1>3, <2>2, ReplyKeepsInv DEF PollDrop, PollOnly, cloudVars
<1> QED
  BY <1>1, <1>2, <1>3

\* advanceCursor: what is acknowledged is the cursor the daemon showed.
LEMMA PollAckKeepsInv ==
  ASSUME Inv, NEW p \in Poll, PollAck(p)
  PROVE  Inv'
<1> USE DEF Inv, PollStream, Seqs, memoryVars, loopVars, ghostVars
<1>1. /\ poll' \in [Poll -> Request]
      /\ poll'[p].stage = "scan" /\ poll'[p].cursor = poll[p].cursor /\ poll'[p].after = poll[p].after
      /\ poll'[p].scan = poll[p].scan
      /\ \A q \in Poll \ {p} : poll'[q] = poll[q]
  <2>1. TypeOK /\ "scan" \in Stage
    BY DEF Stage
  <2> QED
    BY <2>1, MoveFields DEF PollAck, Move
<1>2. /\ poll[p].stage = "ack" /\ poll[p].cursor \in 0 .. MaxSeq /\ poll[p].cursor <= cursor
      /\ ackedSeq <= poll[p].cursor /\ ackedSeq' = poll[p].cursor
      /\ state' = [s \in 1 .. MaxSeq |-> IF s <= poll[p].cursor /\ state[s] = "pending" THEN "acked" ELSE state[s]]
      /\ UNCHANGED <<nextSeq, deliveredSeq>>
  BY RequestFields DEF PollAck, Ack, RequestsOK, RequestOK
<1>3. PollStream
  BY DEF PollAck
<1> USE <1>3
<1>4. TypeOK'
  <2>1. state' \in [Seqs -> {"absent", "pending", "acked", "expired"}]
    BY <1>2 DEF TypeOK
  <2> QED
    BY <1>1, <1>2, <2>1 DEF TypeOK
<1>5. RowsOK'
  <2>1. ackedSeq \in Nat
    BY MaxSeqAssumption DEF TypeOK
  <2>2. \A s \in Seqs : s <= ackedSeq => s <= poll[p].cursor
    BY <1>2, <2>1, MaxSeqAssumption
  <2> QED
    BY <1>2, <2>2 DEF RowsOK, TypeOK
<1>6. CursorsOrdered' /\ ReceiptsKept'
  BY <1>2 DEF CursorsOrdered, ReceiptsKept, NoSecondRun
<1>7. RequestsOK'
  BY <1>1, <1>2 DEF RequestsOK, RequestOK
<1>8. CurrentHighest'
  BY <1>1, <1>2 DEF CurrentHighest, TypeOK
<1>9. RowsCovered' /\ ControlsQueue'
  BY <1>2 DEF RowsCovered, Covered, Taken, InFlight, ControlsQueue, IsControl
<1>10. PageCovered'
  BY <1>1, <1>2 DEF TypeOK, PageCovered, Covered
<1> QED
  BY <1>4, <1>5, <1>6, <1>7, <1>8, <1>9, <1>10

\* readAfter: between the offset and the end of the page every row is pending,
\* and on the page, or consumed; a lost one makes the cursor too old.
LEMMA PollReadKeepsInv ==
  ASSUME Inv, NEW p \in Poll, PollRead(p)
  PROVE  Inv'
<1> DEFINE r    == poll[p]
           rows == PendingAfter(r.scan)
           page == {s \in rows : Cardinality({t \in rows : t <= s}) <= PageLimit}
<1>1. /\ r \in Request /\ r.stage = "scan" /\ PollOnly
      /\ r.cursor \in 0 .. MaxSeq /\ r.after \in 0 .. MaxSeq /\ r.scan \in 0 .. MaxSeq
      /\ RequestOK(p)
  BY RequestFields DEF PollRead, Inv, RequestsOK
<1>2. rows \subseteq Seqs /\ page \subseteq rows
  BY DEF PendingAfter
<1>3. CASE TooOld(r.cursor) /\ Reply(p, "too_old")
  BY <1>1, <1>3, ReplyKeepsInv DEF Reply, PollOnly, cloudVars
<1>4. CASE poll' = [poll EXCEPT ![p].stage = "hold", ![p].scan = r.after]
  <2>1. poll'[p] = [r EXCEPT !.stage = "hold", !.scan = r.after] /\ \A q \in Poll \ {p} : poll'[q] = poll[q]
    BY <1>4 DEF Inv, TypeOK
  <2>2. [r EXCEPT !.stage = "hold", !.scan = r.after] \in Request
    BY <1>1 DEF Request, Stage
  <2>3. poll' \in [Poll -> Request]
    BY <1>4, <2>1, <2>2 DEF Inv, TypeOK
  <2>4. /\ poll'[p].stage = "hold" /\ poll'[p].cursor = r.cursor /\ poll'[p].after = r.after
        /\ poll'[p].scan = r.after
    BY <1>1, <2>1 DEF Request
  <2> HIDE DEF rows, page
  <2>5. RequestOK(p)'
    BY <1>1, <2>4, MaxSeqAssumption DEF RequestOK, PollOnly, streamVars, memoryVars
  <2>6. CurrentHighest'
    BY <1>1, <2>1, <2>4 DEF Inv, TypeOK, CurrentHighest, PollOnly, streamVars, loopVars
  <2>7. PageCovered'
    BY <1>1, <2>1, <2>4 DEF Inv, TypeOK, PageCovered, Covered, PollOnly, memoryVars, loopVars, ghostVars
  <2> QED
    BY <1>1, <2>1, <2>3, <2>5, <2>6, <2>7, RequestKeepsInv
<1>5. CASE /\ ~TooOld(r.cursor) /\ page # {}
           /\ poll' = [poll EXCEPT ![p].stage = "filter", ![p].page = page, ![p].more = page # rows]
  <2>1. /\ poll'[p] = [r EXCEPT !.stage = "filter", !.page = page, !.more = page # rows]
        /\ \A q \in Poll \ {p} : poll'[q] = poll[q]
    BY <1>5 DEF Inv, TypeOK
  <2>2. page \in SUBSET Seqs /\ (page # rows) \in BOOLEAN
    BY <1>2
  <2> DEFINE rest == page # rows
  <2>3. \A s \in page : r.scan < s /\ s \in Seqs /\ state[s] = "pending"
    BY DEF PendingAfter
  <2> HIDE DEF rows, page, rest
  <2>4. ASSUME NEW s \in Seqs, NEW t \in page, s <= t, r.scan < s
        PROVE  s \in page \/ s \in handled \union cancelled
    <3>1. s < nextSeq
      <4>1. t \in Seqs /\ state[t] = "pending"
        BY <2>3
      <4>2. t < nextSeq
        BY <4>1, MaxSeqAssumption DEF Inv, TypeOK, RowsOK, Seqs
      <4> QED
        BY <2>4, <4>1, <4>2, MaxSeqAssumption DEF Inv, TypeOK, Seqs
    <3>2. state[s] # "absent"
      BY <3>1 DEF Inv, RowsOK
    <3>3. state[s] # "expired"
      <4>1. r.cursor < s
        BY <1>1, <2>4, MaxSeqAssumption DEF RequestOK, Seqs
      <4> QED
        BY <1>5, <4>1 DEF TooOld, Seqs
    <3>4. CASE state[s] = "acked"
      BY <3>4, MaxSeqAssumption DEF Inv, TypeOK, RowsOK, CursorsOrdered, RowsCovered, Seqs
    <3>5. CASE state[s] = "pending"
      <4>1. s \in rows /\ t \in rows
        BY <1>2, <2>4, <3>5 DEF PendingAfter, rows
      <4>2. Cardinality({u \in rows : u <= t}) <= PageLimit
        BY DEF page
      <4>3. Cardinality({u \in rows : u <= s}) <= PageLimit
        BY <1>2, <2>4, <4>1, <4>2, PageIsPrefix
      <4> QED
        BY <4>1, <4>3 DEF page
    <3> QED
      BY <3>2, <3>3, <3>4, <3>5 DEF Inv, TypeOK
  <2>5. [r EXCEPT !.stage = "filter", !.page = page, !.more = rest] \in Request
    BY <1>1, <2>2 DEF Request, Stage, rest
  <2>6. poll' \in [Poll -> Request]
    BY <1>5, <2>1, <2>5 DEF Inv, TypeOK, rest
  <2>7. /\ poll'[p].stage = "filter" /\ poll'[p].cursor = r.cursor /\ poll'[p].after = r.after
        /\ poll'[p].scan = r.scan /\ poll'[p].page = page
    BY <1>1, <2>1 DEF Request
  <2>8. RequestOK(p)'
    BY <1>1, <1>5, <2>3, <2>7 DEF RequestOK, PollOnly, streamVars, memoryVars
  <2>9. CurrentHighest'
    BY <1>1, <2>1, <2>7 DEF Inv, TypeOK, CurrentHighest, PollOnly, streamVars, loopVars
  <2>10. PageCovered'
    <3>1. CASE current = p
      <4>1. ASSUME NEW s \in Seqs, NEW t \in page, s <= t
            PROVE  Covered(s) \/ s \in page
        <5>1. CASE s <= r.scan
          BY <1>1, <3>1, <5>1, DeliveryAssumption DEF Inv, PageCovered
        <5>2. CASE r.scan < s
          BY <2>4, <4>1, <5>2 DEF Covered
        <5> QED
          BY <1>1, <5>1, <5>2, MaxSeqAssumption DEF Seqs
      <4>2. \A s \in Seqs : s <= r.after => Covered(s)
        BY <3>1, DeliveryAssumption DEF Inv, PageCovered
      <4> QED
        BY <1>1, <2>7, <3>1, <4>1, <4>2 DEF PageCovered, Covered, PollOnly, memoryVars, loopVars, ghostVars
    <3>2. CASE current # p
      BY <1>1, <2>1, <3>2 DEF Inv, TypeOK, PageCovered, Covered, PollOnly, memoryVars, loopVars, ghostVars
    <3> QED
      BY <3>1, <3>2
  <2> QED
    BY <1>1, <2>1, <2>6, <2>8, <2>9, <2>10, RequestKeepsInv
<1> QED
  BY <1>3, <1>4, <1>5 DEF PollRead

\* A page is cut down to the rows that are not cancelled, or skipped.
LEMMA PollFilterKeepsInv ==
  ASSUME Inv, NEW p \in Poll, PollFilter(p)
  PROVE  Inv'
<1> DEFINE r      == poll[p]
           events == r.page \ cancelled
           last   == Max(r.page)
           stage  == IF events # {} THEN "deliver" ELSE IF r.more THEN "scan" ELSE "hold"
           scan   == IF events # {} \/ r.more THEN last ELSE r.after
<1>1. /\ r \in Request /\ r.stage = "filter" /\ PollOnly
      /\ r.cursor \in 0 .. MaxSeq /\ r.after \in 0 .. MaxSeq /\ r.scan \in 0 .. MaxSeq /\ r.page \subseteq Seqs
      /\ RequestOK(p)
  BY RequestFields DEF PollFilter, Inv, RequestsOK
<1>2. last \in r.page /\ \A s \in r.page : s <= last
  <2>1. r.page \in SUBSET (NoRead .. MaxSeq) /\ r.page # {}
    BY <1>1, MaxSeqAssumption DEF RequestOK, Seqs, NoRead
  <2> QED
    BY <2>1, MaxOfCursors
<1>3. /\ poll'[p] = [r EXCEPT !.stage = stage, !.scan = scan, !.page = events, !.more = FALSE]
      /\ \A q \in Poll \ {p} : poll'[q] = poll[q]
  BY DEF PollFilter, Inv, TypeOK
<1>4. /\ stage \in Stage /\ scan \in 0 .. MaxSeq /\ events \in SUBSET Seqs
      /\ stage \in {"deliver", "scan", "hold"}
      /\ events = {} \/ stage = "deliver"
      /\ r.after <= last
  BY <1>1, <1>2, MaxSeqAssumption DEF Stage, Seqs, RequestOK
<1>5. [r EXCEPT !.stage = stage, !.scan = scan, !.page = events, !.more = FALSE] \in Request
  <2> HIDE DEF events, last, stage, scan
  <2> QED
    BY <1>1, <1>4 DEF Request
<1>6. /\ poll'[p].stage = stage /\ poll'[p].cursor = r.cursor /\ poll'[p].after = r.after
      /\ poll'[p].scan = scan /\ poll'[p].page = events
  <2> HIDE DEF events, last, stage, scan
  <2> QED
    BY <1>1, <1>3 DEF Request
<1>7. poll' \in [Poll -> Request]
  BY <1>3, <1>5 DEF PollFilter, Inv, TypeOK
<1>8. RequestOK(p)'
  <2>1. r.after <= scan /\ (stage = "deliver" => \A s \in events : s <= scan)
    BY <1>1, <1>2, <1>4, MaxSeqAssumption
  <2> HIDE DEF events, last, stage, scan
  <2> QED
    BY <1>1, <1>4, <1>6, <2>1 DEF RequestOK, PollOnly, streamVars, memoryVars
<1>9. CurrentHighest'
  <2> HIDE DEF events, last, stage, scan
  <2> QED
    BY <1>1, <1>3, <1>4, <1>6 DEF Inv, TypeOK, CurrentHighest, PollOnly, streamVars, loopVars
<1>10. PageCovered'
  <2>1. CASE current = p
    <3>1. \A s \in Seqs : /\ s <= r.after => Covered(s)
                          /\ s <= last => Covered(s) \/ s \in r.page
      BY <1>1, <1>2, <2>1, DeliveryAssumption DEF Inv, PageCovered
    <3>2. \A s \in Seqs : /\ stage \in {"scan", "hold"} /\ s <= scan => Covered(s)
                          /\ stage = "deliver" /\ s <= scan => Covered(s) \/ s \in events
      BY <3>1 DEF Covered
    <3> HIDE DEF events, last, stage, scan
    <3> QED
      BY <1>1, <1>4, <1>6, <2>1, <3>1, <3>2 DEF PageCovered, Covered, PollOnly, memoryVars, loopVars, ghostVars
  <2>2. CASE current # p
    BY <1>1, <1>3, <2>2 DEF Inv, TypeOK, PageCovered, Covered, PollOnly, memoryVars, loopVars, ghostVars
  <2> QED
    BY <2>1, <2>2
<1> QED
  BY <1>1, <1>3, <1>7, <1>8, <1>9, <1>10, RequestKeepsInv

\* recordDelivery: from here on the rows of the page may be acknowledged.
LEMMA PollDeliverKeepsInv ==
  ASSUME Inv, NEW p \in Poll, PollDeliver(p)
  PROVE  Inv'
<1> USE DEF Inv, PollStream, Seqs, memoryVars, loopVars, ghostVars
<1> DEFINE r == poll[p]
<1>1. /\ r \in Request /\ r.stage = "deliver" /\ PollStream
      /\ r.cursor \in 0 .. MaxSeq /\ r.after \in 0 .. MaxSeq /\ r.scan \in 0 .. MaxSeq
      /\ RequestOK(p)
  BY RequestFields DEF PollDeliver, RequestsOK
<1> USE <1>1
<1>2. /\ r.scan < nextSeq
      /\ deliveredSeq' = IF r.scan > deliveredSeq THEN r.scan ELSE deliveredSeq
      /\ UNCHANGED <<nextSeq, ackedSeq, state>>
  BY DEF PollDeliver, Deliver
<1>3. /\ deliveredSeq \in 0 .. MaxSeq /\ deliveredSeq' \in 0 .. MaxSeq /\ nextSeq \in 1 .. MaxSeq + 1
      /\ deliveredSeq <= deliveredSeq' /\ r.scan <= deliveredSeq' /\ deliveredSeq' < nextSeq
  BY <1>2, MaxSeqAssumption DEF TypeOK, RowsOK
<1>4. poll'[p] = [r EXCEPT !.stage = "ok", !.cursor = 0] /\ \A q \in Poll \ {p} : poll'[q] = poll[q]
  BY DEF PollDeliver, TypeOK
<1>5. [r EXCEPT !.stage = "ok", !.cursor = 0] \in Request
  <2>1. 0 \in 0 .. MaxSeq /\ "ok" \in Stage
    BY MaxSeqAssumption DEF Stage
  <2> QED
    BY <2>1 DEF Request
<1>6. /\ poll'[p].stage = "ok" /\ poll'[p].cursor = 0 /\ poll'[p].after = r.after
      /\ poll'[p].scan = r.scan /\ poll'[p].page = r.page
  BY <1>4 DEF Request
<1>7. TypeOK'
  <2>1. poll' \in [Poll -> Request]
    BY <1>4, <1>5 DEF PollDeliver, TypeOK
  <2> QED
    BY <1>2, <1>3, <2>1 DEF TypeOK
<1>8. RowsOK'
  BY <1>2, <1>3 DEF RowsOK
<1>9. CursorsOrdered' /\ ReceiptsKept'
  BY <1>2, <1>3, MaxSeqAssumption DEF TypeOK, CursorsOrdered, ReceiptsKept, NoSecondRun, Save, NoRead
<1>10. RequestsOK'
  <2>1. ASSUME NEW q \in Poll PROVE RequestOK(q)'
    <3>1. RequestOK(q) /\ poll[q].after \in 0 .. MaxSeq /\ poll[q].scan \in 0 .. MaxSeq /\ cursor \in 0 .. MaxSeq
      BY RequestFields DEF RequestsOK, TypeOK
    <3>2. CASE q = p
      BY <1>3, <1>6, <3>1, <3>2, MaxSeqAssumption DEF RequestOK
    <3>3. CASE q # p
      BY <1>3, <1>4, <3>1, <3>3, MaxSeqAssumption DEF RequestOK
    <3> QED
      BY <3>2, <3>3
  <2> QED
    BY <2>1 DEF RequestsOK
<1>11. CurrentHighest'
  <2>1. ASSUME NEW q \in Poll PROVE poll[q].cursor \in Nat /\ poll'[q].cursor <= poll[q].cursor /\ poll'[q].cursor \in Nat
    <3>1. poll[q].cursor \in Nat
      BY RequestFields
    <3>2. CASE q = p
      BY <1>6, <3>1, <3>2
    <3>3. CASE q # p
      BY <1>4, <3>1, <3>3
    <3> QED
      BY <3>2, <3>3
  <2>2. current \in Poll \union {NoPoll}
    BY DEF TypeOK
  <2>3. CASE current = p
    BY <1>6, <2>3 DEF CurrentHighest
  <2>4. CASE current \in Poll \ {p}
    BY <1>2, <1>4, <2>1, <2>4 DEF CurrentHighest
  <2> QED
    BY <2>2, <2>3, <2>4 DEF CurrentHighest
<1>12. RowsCovered'
  <2>1. \A v \in Taken : v <= deliveredSeq' /\ \A s \in Seqs : s <= v => Covered(s)
    BY <1>3, MaxSeqAssumption DEF TypeOK, RowsCovered, Taken, InFlight
  <2> QED
    BY <2>1 DEF RowsCovered, Covered, Taken, InFlight
<1>13. ControlsQueue'
  BY DEF ControlsQueue, IsControl, InFlight
<1>14. PageCovered'
  BY <1>4, <1>6 DEF TypeOK, PageCovered, Covered
<1> QED
  BY <1>7, <1>8, <1>9, <1>10, <1>11, <1>12, <1>13, <1>14

\* The rows the cloud appends: nothing in memory or on its way names them yet.
LEMMA AppendKeepsInv ==
  ASSUME Inv, NEW k \in Kind, NEW o \in 0 .. MaxSeq, AppendRow(k, o), cancelling' \in 0 .. MaxSeq
  PROVE  Inv'
<1> USE MaxSeqAssumption DEF Inv, AppendRow, AppendNext, Seqs, memoryVars, loopVars, ghostVars
<1>1. nextSeq \in Seqs /\ nextSeq' = nextSeq + 1
  BY DEF TypeOK
<1>2. TypeOK'
  BY <1>1 DEF TypeOK
<1>3. RowsOK'
  BY <1>1 DEF TypeOK, RowsOK
<1>4. CursorsOrdered' /\ ReceiptsKept'
  BY DEF CursorsOrdered, ReceiptsKept, NoSecondRun
<1>5. RequestsOK' /\ CurrentHighest'
  BY DEF RequestsOK, RequestOK, CurrentHighest
<1>6. RowsCovered' /\ PageCovered'
  BY DEF RowsCovered, PageCovered, Covered, Taken, InFlight
<1>7. ControlsQueue'
  <2>1. \A s \in InFlight : s # nextSeq
    BY <1>1 DEF TypeOK, RowsOK, RowsCovered, Taken, InFlight
  <2> QED
    BY <1>1, <2>1 DEF TypeOK, ControlsQueue, InFlight, IsControl
<1> QED
  BY <1>2, <1>3, <1>4, <1>5, <1>6, <1>7

\* A cancellation only adds to the rows that are accounted for, a loss takes no
\* row that is.
LEMMA CloudKeepsInv ==
  ASSUME Inv, Cloud
  PROVE  Inv'
<1> USE MaxSeqAssumption, DeliveryAssumption DEF Inv, Seqs, streamVars, memoryVars, loopVars, ghostVars
<1>1. CASE AppendOffer
  <2>1. nextSeq \in 0 .. MaxSeq /\ "offer" \in Kind
    BY <1>1 DEF AppendOffer, AppendRow, AppendNext, TypeOK, Kind
  <2>2. cancelling' \in 0 .. MaxSeq
    BY <1>1 DEF AppendOffer, TypeOK
  <2> QED
    BY <1>1, <2>1, <2>2, AppendKeepsInv DEF AppendOffer
<1>2. ASSUME NEW k \in Unusable, AppendUnusable(k)
      PROVE  Inv'
  <2>1. k \in Kind /\ 0 \in 0 .. MaxSeq
    BY DEF Kind
  <2>2. cancelling' \in 0 .. MaxSeq
    BY <1>2 DEF AppendUnusable, TypeOK
  <2> QED
    BY <1>2, <2>1, <2>2, AppendKeepsInv DEF AppendUnusable
<1>3. ASSUME NEW o \in Seqs, AppendControl(o) \/ CancelAppend(o)
      PROVE  Inv'
  <2>1. o \in 0 .. MaxSeq /\ "control" \in Kind
    BY DEF Kind
  <2>2. cancelling' \in 0 .. MaxSeq
    BY <1>3, <2>1 DEF AppendControl, CancelAppend, TypeOK
  <2> QED
    BY <1>3, <2>1, <2>2, AppendKeepsInv DEF AppendControl, CancelAppend
<1>4. CASE CancelCommit
  <2> USE <1>4 DEF CancelCommit
  <2>1. TypeOK'
    BY DEF TypeOK
  <2>2. RowsOK' /\ CursorsOrdered' /\ ReceiptsKept' /\ ControlsQueue'
    BY DEF RowsOK, CursorsOrdered, ReceiptsKept, NoSecondRun, ControlsQueue, InFlight, IsControl
  <2>3. RequestsOK' /\ CurrentHighest'
    BY DEF RequestsOK, RequestOK, CurrentHighest
  <2>4. RowsCovered' /\ PageCovered'
    BY DEF RowsCovered, PageCovered, Covered, Taken, InFlight
  <2> QED
    BY <2>1, <2>2, <2>3, <2>4
<1>5. ASSUME NEW s \in Seqs, LoseRow(s)
      PROVE  Inv'
  <2> USE <1>5 DEF LoseRow, Lose, Fault
  <2>1. TypeOK'
    BY DEF TypeOK
  <2>2. RowsOK'
    BY DEF TypeOK, RowsOK
  <2>3. CursorsOrdered' /\ ReceiptsKept' /\ ControlsQueue'
    BY DEF CursorsOrdered, ReceiptsKept, NoSecondRun, ControlsQueue, InFlight, IsControl
  <2>4. RequestsOK' /\ CurrentHighest'
    BY DEF RequestsOK, RequestOK, CurrentHighest
  <2>5. RowsCovered' /\ PageCovered'
    BY DEF RowsCovered, PageCovered, Covered, Taken, InFlight
  <2> QED
    BY <2>1, <2>2, <2>3, <2>4, <2>5
<1> QED
  BY <1>1, <1>2, <1>3, <1>4, <1>5 DEF Cloud

-----------------------------------------------------------------------------
(* The daemon's poll loop *)

\* The daemon waits for no answer, and takes nothing: it starts over from its
\* cursor or from nothing, or goes on from where it has read.
LEMMA LoopKeepsInv ==
  ASSUME Inv, current' = NoPoll, poll' \in [Poll -> Request], RequestsOK',
         readCursor' \in {NoRead, cursor, readCursor}, halted' \in BOOLEAN, faults' \in 0 .. MaxFaults,
         UNCHANGED <<cloudVars, saved, memoryVars, handled, ran>>
  PROVE  Inv'
<1> USE MaxSeqAssumption, DeliveryAssumption DEF Inv, Seqs, NoRead, cloudVars, streamVars, memoryVars
<1>1. TypeOK'
  BY DEF TypeOK
<1>2. RowsOK' /\ ReceiptsKept' /\ ControlsQueue'
  BY DEF RowsOK, ReceiptsKept, NoSecondRun, ControlsQueue, InFlight, IsControl
<1>3. CursorsOrdered'
  BY DEF TypeOK, CursorsOrdered
<1>4. CurrentHighest' /\ PageCovered'
  BY DEF CurrentHighest, PageCovered
<1>5. RowsCovered'
  <2>1. \A s \in Seqs : s <= readCursor' => Covered(s)
    BY DEF TypeOK, CursorsOrdered, RowsCovered, Covered
  <2> QED
    BY <2>1 DEF RowsCovered, Covered, Taken, InFlight
<1> QED
  BY <1>1, <1>2, <1>3, <1>4, <1>5

\* An answered request asks for nothing any more.
LEMMA AnsweredRequests ==
  ASSUME Inv, NEW p \in Poll, Answered(p), cursor' = cursor, deliveredSeq' = deliveredSeq
  PROVE  poll' \in [Poll -> Request] /\ RequestsOK' /\ current' = NoPoll
<1>1. Idle = [Idle EXCEPT !.stage = "idle"]
  BY DEF Idle
<1>2. /\ poll' \in [Poll -> Request]
      /\ poll'[p].stage = "idle"
      /\ poll'[p].cursor = 0 /\ poll'[p].after = 0 /\ poll'[p].scan = 0 /\ poll'[p].page = {}
      /\ \A q \in Poll \ {p} : poll'[q] = poll[q]
  <2>1. TypeOK /\ poll' = [poll EXCEPT ![p] = [Idle EXCEPT !.stage = "idle"]]
    BY <1>1 DEF Answered, Inv
  <2> QED
    BY <2>1, ReplyFields
<1>3. ASSUME NEW q \in Poll PROVE RequestOK(q)'
  <2>1. CASE q = p
    BY <1>2, <2>1, MaxSeqAssumption DEF RequestOK, Inv, TypeOK
  <2>2. CASE q # p
    BY <1>2, <2>2 DEF RequestsOK, RequestOK, Inv
  <2> QED
    BY <2>1, <2>2
<1> QED
  BY <1>2, <1>3 DEF RequestsOK, Answered

LEMMA QuietLoopKeepsInv ==
  ASSUME Inv,
         \/ WindowReset
         \/ BreakSession
         \/ \E p \in Poll : ReceiveEmpty(p) \/ ReceiveTooOld(p) \/ ReceiveRefused(p)
  PROVE  Inv'
<1> USE DEF cloudVars, streamVars, memoryVars, ghostVars
<1>0. halted \in BOOLEAN /\ faults \in 0 .. MaxFaults /\ poll \in [Poll -> Request]
  BY DEF Inv, TypeOK
<1>1. CASE WindowReset \/ BreakSession
  <2>1. RequestsOK' /\ poll' \in [Poll -> Request] /\ current' = NoPoll
    BY <1>0, <1>1 DEF Inv, WindowReset, BreakSession, RequestsOK, RequestOK
  <2>2. faults' \in 0 .. MaxFaults
    BY <1>0, <1>1, DeliveryAssumption DEF WindowReset, BreakSession, Fault
  <2> QED
    BY <1>0, <1>1, <2>1, <2>2, LoopKeepsInv DEF WindowReset, BreakSession
<1>2. ASSUME NEW p \in Poll, ReceiveEmpty(p) \/ ReceiveTooOld(p) \/ ReceiveRefused(p)
      PROVE  Inv'
  <2>1. Answered(p) /\ cursor' = cursor /\ deliveredSeq' = deliveredSeq
    BY <1>2 DEF ReceiveEmpty, ReceiveTooOld, ReceiveRefused
  <2>2. poll' \in [Poll -> Request] /\ RequestsOK' /\ current' = NoPoll
    BY <2>1, AnsweredRequests
  <2> QED
    BY <1>0, <1>2, <2>2, LoopKeepsInv DEF ReceiveEmpty, ReceiveTooOld, ReceiveRefused
<1> QED
  BY <1>1, <1>2

\* A poll is sent within the window, from a cursor no earlier request exceeds.
LEMMA SendPollKeepsInv ==
  ASSUME Inv, NEW p \in Poll, SendPoll(p)
  PROVE  Inv'
<1> USE DEF Inv, Seqs, cloudVars, streamVars, memoryVars, ghostVars
<1> DEFINE from == Max({cursor, readCursor})
           r    == [Idle EXCEPT !.stage = "sent", !.cursor = cursor, !.after = from, !.scan = from]
<1>1. /\ cursor \in 0 .. MaxSeq /\ readCursor \in NoRead .. MaxSeq
      /\ deliveredSeq \in 0 .. MaxSeq /\ ackedSeq \in 0 .. MaxSeq /\ saved \in 0 .. MaxSeq
  BY DEF TypeOK
<1>2. from \in {cursor, readCursor} /\ cursor <= from /\ readCursor <= from
  <2>1. {cursor, readCursor} \in SUBSET (NoRead .. MaxSeq)
    BY <1>1, MaxSeqAssumption DEF NoRead
  <2> QED
    BY <2>1, MaxOfCursors
<1>3. /\ from \in 0 .. MaxSeq /\ from - cursor <= Window /\ from <= deliveredSeq
      /\ \A s \in Seqs : s <= from => Covered(s)
  <2>1. from \in 0 .. MaxSeq /\ from - cursor <= Window /\ from <= deliveredSeq
    BY <1>1, <1>2, MaxSeqAssumption, DeliveryAssumption DEF SendPoll, WindowFull, NoRead, CursorsOrdered
  <2>2. \A s \in Seqs : s <= from => Covered(s)
    BY <1>1, <1>2, MaxSeqAssumption DEF RowsCovered, Covered, CursorsOrdered, NoRead
  <2> QED
    BY <2>1, <2>2
<1> HIDE DEF from
<1>4. /\ r \in Request /\ r.stage = "sent" /\ r.cursor = cursor /\ r.after = from /\ r.scan = from
      /\ r.page = {}
  <2>1. r.stage = "sent" /\ r.cursor = cursor /\ r.after = from /\ r.scan = from /\ r.page = {}
    BY DEF Idle
  <2>2. r \in Request
    BY <1>1, <1>3, IdleIsRequest DEF Request, Stage
  <2> QED
    BY <2>1, <2>2
<1> HIDE DEF r
<1>5. poll' = [poll EXCEPT ![p] = r] /\ current' = p /\ current = NoPoll
  BY DEF SendPoll, r, from
<1>6. /\ poll' \in [Poll -> Request] /\ poll'[p] = r /\ \A q \in Poll \ {p} : poll'[q] = poll[q]
      /\ UNCHANGED <<cloudVars, saved, memoryVars, readCursor, halted, ghostVars>>
  BY <1>4, <1>5 DEF TypeOK, SendPoll
<1>7. TypeOK'
  BY <1>5, <1>6 DEF TypeOK
<1>8. RowsOK' /\ CursorsOrdered' /\ ReceiptsKept' /\ ControlsQueue' /\ RowsCovered'
  BY <1>6 DEF RowsOK, CursorsOrdered, ReceiptsKept, NoSecondRun, ControlsQueue, InFlight, IsControl,
              RowsCovered, Covered, Taken
<1>9. RequestsOK'
  <2>1. ASSUME NEW q \in Poll PROVE RequestOK(q)'
    <3>1. CASE q = p
      <4>1. /\ cursor <= cursor /\ cursor <= from /\ from <= from
        BY <1>1, <1>2, <1>3
      <4> QED
        BY <1>3, <1>4, <1>6, <3>1, <4>1 DEF RequestOK
    <3>2. CASE q # p
      BY <1>6, <3>2 DEF RequestsOK, RequestOK
    <3> QED
      BY <3>1, <3>2
  <2> QED
    BY <2>1 DEF RequestsOK
<1>10. CurrentHighest'
  <2>1. \A q \in Poll : poll'[q].cursor <= cursor
    <3>1. ASSUME NEW q \in Poll PROVE poll'[q].cursor <= cursor
      <4>1. CASE q = p
        BY <1>1, <1>4, <1>6, <4>1
      <4>2. CASE q # p
        BY <1>6, <4>2 DEF RequestsOK, RequestOK
      <4> QED
        BY <4>1, <4>2
    <3> QED
      BY <3>1
  <2> QED
    BY <1>4, <1>5, <1>6, <2>1 DEF CurrentHighest, CursorsOrdered
<1>11. PageCovered'
  BY <1>3, <1>4, <1>5, <1>6 DEF PageCovered, Covered
<1> QED
  BY <1>7, <1>8, <1>9, <1>10, <1>11

\* Rows start to be processed: a control waits for the controls of its task that
\* are in flight or come before it.
LEMMA TakeKeepsQueue ==
  ASSUME Inv, NEW rows \in SUBSET Seqs, Take(rows), rows \cap InFlight = {},
         UNCHANGED <<kind, task>>
  PROVE  /\ ControlsQueue'
         /\ InFlight' = InFlight \union rows
         /\ proc' \in [Seqs -> {"none", "queued", "handler", "commit"}] /\ ahead' \in [Seqs -> SUBSET Seqs]
         /\ ReceiptsKept /\ UNCHANGED <<ran, processed, cursor, saving>> => ReceiptsKept'
<1> USE MaxSeqAssumption DEF Inv, Seqs
<1>1. /\ proc' \in [Seqs -> {"none", "queued", "handler", "commit"}] /\ ahead' \in [Seqs -> SUBSET Seqs]
      /\ \A s \in Seqs : proc'[s] = "handler" => proc[s] = "handler"
      /\ \A s \in Seqs : proc[s] = "commit" => proc'[s] = "commit"
  BY DEF Take, TypeOK, InFlight
<1>0. ASSUME ReceiptsKept, UNCHANGED <<ran, processed, cursor, saving>> PROVE ReceiptsKept'
  <2>1. saving # NoSave => saving.by \in Seqs
    BY DEF TypeOK, Save
  <2> QED
    BY <1>0, <1>1, <2>1 DEF ReceiptsKept, NoSecondRun
<1>2. InFlight' = InFlight \union rows
  BY DEF Take, InFlight, TypeOK
<1>3. ASSUME NEW s \in Seqs, proc'[s] # "queued" PROVE ahead'[s] = {}
  BY <1>3 DEF Take, TypeOK, ControlsQueue
<1>4. ASSUME NEW s \in InFlight', NEW t \in InFlight', s # t,
             IsControl(s), IsControl(t), task[s] = task[t]
      PROVE  s \in ahead'[t] \/ t \in ahead'[s]
  <2>1. s \in Seqs /\ t \in Seqs
    BY DEF InFlight
  <2>2. CASE s \notin rows /\ t \notin rows
    BY <1>2, <1>4, <2>1, <2>2 DEF Take, ControlsQueue
  <2>3. CASE s \in rows /\ t \notin rows
    BY <1>2, <1>4, <2>1, <2>3 DEF Take
  <2>4. CASE s \notin rows /\ t \in rows
    BY <1>2, <1>4, <2>1, <2>4 DEF Take
  <2>5. CASE s \in rows /\ t \in rows
    <3>1. s < t \/ t < s
      BY <1>4, <2>1
    <3> QED
      BY <1>4, <2>1, <2>5, <3>1 DEF Take
  <2> QED
    BY <2>2, <2>3, <2>4, <2>5
<1> QED
  BY <1>0, <1>1, <1>2, <1>3, <1>4 DEF ControlsQueue, IsControl

\* A page: each of its rows is taken, is already accounted for, or, unusable,
\* holds the cursor.
LEMMA ReceivePageKeepsInv ==
  ASSUME Inv, NEW p \in Poll, ReceivePage(p)
  PROVE  Inv'
<1> USE DEF Inv, Seqs, cloudVars, streamVars, ghostVars
<1> DEFINE r      == poll[p]
           usable == {s \in r.page : kind[s] \in {"offer", "control"}}
           taken  == Accepted(usable)
<1>1. /\ r.scan \in 0 .. MaxSeq /\ r.page \subseteq Seqs /\ r.stage = "ok" /\ p = current
      /\ r.scan <= deliveredSeq /\ \A s \in r.page : s <= r.scan
  BY RequestFields DEF ReceivePage, RequestsOK, RequestOK
<1>2. /\ Answered(p) /\ readCursor' = r.scan /\ Take(taken)
      /\ unresolved' = unresolved \union (r.page \ usable) \union (taken \ processed)
      /\ UNCHANGED <<cloudVars, saved, cursor, processed, failed, saving, halted, ghostVars>>
  BY DEF ReceivePage
<1>3. /\ poll' \in [Poll -> Request] /\ RequestsOK' /\ current' = NoPoll
  BY <1>2, AnsweredRequests
<1>4. /\ taken \subseteq usable /\ usable \subseteq r.page
      /\ taken \cap InFlight = {}
      /\ \A s \in usable \ taken : s <= cursor \/ s \in InFlight
  <2>1. \A s \in usable \ taken : ~(s > cursor) \/ s \in InFlight
    BY DEF Accepted
  <2>2. \A s \in usable : s \in Seqs /\ cursor \in 0 .. MaxSeq
    BY <1>1 DEF TypeOK
  <2> QED
    BY <2>1, <2>2, MaxSeqAssumption DEF Accepted
<1>5. /\ ControlsQueue'
      /\ InFlight' = InFlight \union taken
      /\ proc' \in [Seqs -> {"none", "queued", "handler", "commit"}] /\ ahead' \in [Seqs -> SUBSET Seqs]
      /\ ReceiptsKept /\ UNCHANGED <<ran, processed, cursor, saving>> => ReceiptsKept'
  BY <1>1, <1>2, <1>4, TakeKeepsQueue
<1> HIDE DEF usable, taken
<1>6. \A s \in r.page : Covered(s)'
  <2>1. ASSUME NEW s \in r.page \ usable PROVE Covered(s)'
    BY <1>2 DEF Covered
  <2>2. ASSUME NEW s \in taken PROVE Covered(s)'
    BY <1>2 DEF Covered, RowsCovered
  <2>3. ASSUME NEW s \in usable \ taken PROVE Covered(s)'
    <3>1. s \in Seqs /\ cursor \in 0 .. MaxSeq /\ saved \in 0 .. MaxSeq
      BY <1>1, <1>4 DEF TypeOK
    <3>2. CASE s <= cursor
      <4>1. s <= saved
        BY <3>1, <3>2, MaxSeqAssumption DEF CursorsOrdered
      <4> QED
        BY <1>2, <3>1, <4>1 DEF RowsCovered, Covered
    <3>3. CASE s \in InFlight
      <4>1. s <= s
        BY <3>1
      <4> QED
        BY <1>2, <3>1, <3>3, <4>1 DEF RowsCovered, Covered, Taken
    <3> QED
      BY <1>4, <3>2, <3>3
  <2> QED
    BY <2>1, <2>2, <2>3
<1>7. \A s \in Seqs : (Covered(s) => Covered(s)') /\ (s <= r.scan => Covered(s)')
  <2>1. \A s \in Seqs : Covered(s) => Covered(s)'
    BY <1>2 DEF Covered
  <2>2. \A s \in Seqs : s <= r.scan => Covered(s) \/ s \in r.page
    BY <1>1, DeliveryAssumption DEF PageCovered
  <2> QED
    BY <1>6, <2>1, <2>2
<1>8. TypeOK'
  <2>1. unresolved' \subseteq Seqs
    BY <1>1, <1>2, <1>4 DEF TypeOK
  <2>2. readCursor' \in NoRead .. MaxSeq
    BY <1>1, <1>2, MaxSeqAssumption DEF NoRead
  <2> QED
    BY <1>2, <1>3, <1>5, <2>1, <2>2 DEF TypeOK
<1>9. RowsOK' /\ CursorsOrdered' /\ CurrentHighest' /\ PageCovered'
  BY <1>1, <1>2, <1>3 DEF RowsOK, CursorsOrdered, CurrentHighest, PageCovered
<1>10. ReceiptsKept'
  BY <1>2, <1>5
<1>11. RowsCovered'
  <2>1. ASSUME NEW v \in Taken' PROVE v <= deliveredSeq /\ \A s \in Seqs : s <= v => Covered(s)'
    <3>1. v \in Taken \/ v \in r.page
      BY <1>2, <1>4, <1>5 DEF Taken
    <3>2. CASE v \in Taken
      BY <1>7, <3>2 DEF RowsCovered
    <3>3. CASE v \in r.page
      <4>1. v \in Seqs /\ v <= r.scan /\ deliveredSeq \in 0 .. MaxSeq
        BY <1>1, <3>3 DEF TypeOK
      <4>2. v <= deliveredSeq /\ \A s \in Seqs : s <= v => s <= r.scan
        BY <1>1, <4>1, MaxSeqAssumption
      <4> QED
        BY <1>7, <4>2
    <3> QED
      BY <3>1, <3>2, <3>3
  <2>2. \A s \in Seqs : s <= readCursor' => Covered(s)'
    BY <1>2, <1>7
  <2>3. processed' \subseteq handled'
    BY <1>2 DEF RowsCovered
  <2>4. /\ \A s \in Seqs : s <= saved' => s \in handled' \union cancelled'
        /\ saving' # NoSave => \A s \in Seqs : s <= saving'.prefix => s \in handled' \union cancelled'
    BY <1>2 DEF RowsCovered
  <2>5. deliveredSeq' = deliveredSeq
    BY <1>2
  <2> QED
    BY <2>1, <2>2, <2>3, <2>4, <2>5 DEF RowsCovered
<1> QED
  BY <1>3, <1>5, <1>8, <1>9, <1>10, <1>11

-----------------------------------------------------------------------------
(* Processing and completion *)

\* A step of the daemon's processing touches no request, and un-covers no row.
LEMMA DaemonKeepsInv ==
  ASSUME Inv, DaemonOnly, TypeOK', cursor <= cursor', \A s \in Seqs : Covered(s) => Covered(s)',
         CursorsOrdered', RowsCovered', ReceiptsKept', ControlsQueue'
  PROVE  Inv'
<1> USE DEF Inv, DaemonOnly, cloudVars, streamVars, loopVars
<1>1. RowsOK' /\ CurrentHighest'
  BY DEF RowsOK, CurrentHighest
<1>2. RequestsOK'
  <2>1. ASSUME NEW p \in Poll PROVE RequestOK(p)'
    <3>1. RequestOK(p) /\ poll[p].cursor \in 0 .. MaxSeq /\ cursor \in 0 .. MaxSeq /\ cursor' \in 0 .. MaxSeq
      BY RequestFields DEF RequestsOK, TypeOK
    <3>2. poll[p].cursor <= cursor'
      BY <3>1, MaxSeqAssumption DEF RequestOK
    <3> QED
      BY <3>1, <3>2 DEF RequestOK
  <2> QED
    BY <2>1 DEF RequestsOK
<1>3. PageCovered'
  BY DEF PageCovered
<1> QED
  BY <1>1, <1>2, <1>3

\* A row the cursor has passed meanwhile is put aside.
LEMMA ProcessStaleKeepsInv ==
  ASSUME Inv, NEW s \in Seqs, ProcessStale(s)
  PROVE  Inv'
<1> USE MaxSeqAssumption, DeliveryAssumption DEF Inv, Seqs, DaemonOnly, cloudVars, streamVars, loopVars, ghostVars, ProcessStale, MayStart, Settled
<1>1. TypeOK'
  BY DEF TypeOK, Save
<1>2. CursorsOrdered' /\ cursor <= cursor'
  BY DEF TypeOK, CursorsOrdered
<1>3. RowsCovered'
  BY DEF TypeOK, RowsCovered, Covered, Taken, InFlight
<1>4. ReceiptsKept'
  BY DEF TypeOK, ReceiptsKept, NoSecondRun, ControlsQueue
<1>5. ControlsQueue'
  BY DEF TypeOK, ControlsQueue, InFlight, IsControl
<1>6. \A t \in Seqs : Covered(t) => Covered(t)'
  BY DEF TypeOK, Covered, RowsCovered
<1>7. DaemonOnly
  OBVIOUS
<1> QED
  BY <1>1, <1>2, <1>3, <1>4, <1>5, <1>6, <1>7, DaemonKeepsInv

\* A row with a receipt is not run again: it keeps the receipt and was handled.
LEMMA ProcessAgainKeepsInv ==
  ASSUME Inv, NEW s \in Seqs, ProcessAgain(s)
  PROVE  Inv'
<1> USE MaxSeqAssumption, DeliveryAssumption DEF Inv, Seqs, DaemonOnly, cloudVars, streamVars, loopVars, ghostVars, ProcessAgain, MayStart, AlreadyRan, Receipt
<1>1. TypeOK'
  BY DEF TypeOK, Save
<1>2. CursorsOrdered' /\ cursor <= cursor'
  BY DEF TypeOK, CursorsOrdered
<1>3. RowsCovered'
  BY DEF TypeOK, RowsCovered, Covered, Taken, InFlight
<1>4. ReceiptsKept'
  BY DEF TypeOK, ReceiptsKept, NoSecondRun, ControlsQueue
<1>5. ControlsQueue'
  BY DEF TypeOK, ControlsQueue, InFlight, IsControl
<1>6. \A t \in Seqs : Covered(t) => Covered(t)'
  BY DEF TypeOK, Covered, RowsCovered
<1>7. DaemonOnly
  OBVIOUS
<1> QED
  BY <1>1, <1>2, <1>3, <1>4, <1>5, <1>6, <1>7, DaemonKeepsInv

\* A handler starts only for a row above the cursor without a receipt.
LEMMA ProcessStartKeepsInv ==
  ASSUME Inv, NEW s \in Seqs, ProcessStart(s)
  PROVE  Inv'
<1> USE MaxSeqAssumption, DeliveryAssumption DEF Inv, Seqs, DaemonOnly, cloudVars, streamVars, loopVars, ghostVars, ProcessStart, MayStart, AlreadyRan
<1>1. TypeOK'
  BY DEF TypeOK, Save
<1>2. CursorsOrdered' /\ cursor <= cursor'
  BY DEF TypeOK, CursorsOrdered
<1>3. RowsCovered'
  BY DEF TypeOK, RowsCovered, Covered, Taken, InFlight
<1>4. ReceiptsKept'
  BY DEF TypeOK, ReceiptsKept, NoSecondRun, ControlsQueue
<1>5. ControlsQueue'
  BY DEF TypeOK, ControlsQueue, InFlight, IsControl
<1>6. \A t \in Seqs : Covered(t) => Covered(t)'
  BY DEF TypeOK, Covered, RowsCovered
<1>7. DaemonOnly
  OBVIOUS
<1> QED
  BY <1>1, <1>2, <1>3, <1>4, <1>5, <1>6, <1>7, DaemonKeepsInv

\* The row is handled from the moment it no longer holds the cursor.
LEMMA HandlerSucceedsKeepsInv ==
  ASSUME Inv, NEW s \in Seqs, HandlerSucceeds(s)
  PROVE  Inv'
<1> USE MaxSeqAssumption, DeliveryAssumption DEF Inv, Seqs, DaemonOnly, cloudVars, streamVars, loopVars, ghostVars, HandlerSucceeds, Receipt
<1>1. TypeOK'
  BY DEF TypeOK, Save
<1>2. CursorsOrdered' /\ cursor <= cursor'
  BY DEF TypeOK, CursorsOrdered
<1>3. RowsCovered'
  BY DEF TypeOK, RowsCovered, Covered, Taken, InFlight
<1>4. ReceiptsKept'
  BY DEF TypeOK, ReceiptsKept, NoSecondRun, ControlsQueue
<1>5. ControlsQueue'
  BY DEF TypeOK, ControlsQueue, InFlight, IsControl
<1>6. \A t \in Seqs : Covered(t) => Covered(t)'
  BY DEF TypeOK, Covered, RowsCovered
<1>7. DaemonOnly
  OBVIOUS
<1> QED
  BY <1>1, <1>2, <1>3, <1>4, <1>5, <1>6, <1>7, DaemonKeepsInv

\* A failed row stays unresolved.
LEMMA HandlerFailsKeepsInv ==
  ASSUME Inv, NEW s \in Seqs, HandlerFails(s)
  PROVE  Inv'
<1> USE MaxSeqAssumption, DeliveryAssumption DEF Inv, Seqs, DaemonOnly, cloudVars, streamVars, loopVars, ghostVars, HandlerFails, Fault, Settled
<1>1. TypeOK'
  BY DEF TypeOK, Save
<1>2. CursorsOrdered' /\ cursor <= cursor'
  BY DEF TypeOK, CursorsOrdered
<1>3. RowsCovered'
  BY DEF TypeOK, RowsCovered, Covered, Taken, InFlight
<1>4. ReceiptsKept'
  BY DEF TypeOK, ReceiptsKept, NoSecondRun, ControlsQueue
<1>5. ControlsQueue'
  BY DEF TypeOK, ControlsQueue, InFlight, IsControl
<1>6. \A t \in Seqs : Covered(t) => Covered(t)'
  BY DEF TypeOK, Covered, RowsCovered
<1>7. DaemonOnly
  OBVIOUS
<1> QED
  BY <1>1, <1>2, <1>3, <1>4, <1>5, <1>6, <1>7, DaemonKeepsInv

\* A completion that moves no cursor drops receipts at or below it.
LEMMA CompleteIdleKeepsInv ==
  ASSUME Inv, NEW s \in Seqs, CompleteIdle(s)
  PROVE  Inv'
<1> USE MaxSeqAssumption, DeliveryAssumption DEF Inv, Seqs, DaemonOnly, cloudVars, streamVars, loopVars, ghostVars, CompleteIdle, Forgotten, Settled
<1>1. TypeOK'
  BY DEF TypeOK, Save
<1>2. CursorsOrdered' /\ cursor <= cursor'
  BY DEF TypeOK, CursorsOrdered
<1>3. RowsCovered'
  BY DEF TypeOK, RowsCovered, Covered, Taken, InFlight
<1>4. ReceiptsKept'
  BY DEF TypeOK, ReceiptsKept, NoSecondRun, ControlsQueue
<1>5. ControlsQueue'
  BY DEF TypeOK, ControlsQueue, InFlight, IsControl
<1>6. \A t \in Seqs : Covered(t) => Covered(t)'
  BY DEF TypeOK, Covered, RowsCovered
<1>7. DaemonOnly
  OBVIOUS
<1> QED
  BY <1>1, <1>2, <1>3, <1>4, <1>5, <1>6, <1>7, DaemonKeepsInv

\* Failed rows are delivered again from memory: they were taken before.
LEMMA RetryKeepsInv ==
  ASSUME Inv, NEW o \in Seqs, RetryTaskReceipts(o)
  PROVE  Inv'
<1> USE MaxSeqAssumption, DeliveryAssumption DEF Inv, Seqs, DaemonOnly, cloudVars, streamVars, loopVars, ghostVars
<1> DEFINE taken == Accepted({s \in failed : task[s] = o})
<1>1. taken \subseteq failed /\ taken \in SUBSET Seqs /\ taken \cap InFlight = {}
  BY DEF Accepted, TypeOK
<1>2. /\ Take(taken) /\ unresolved' = unresolved \union (taken \ processed)
      /\ UNCHANGED <<cursor, saved, processed, failed, saving, ghostVars>>
      /\ DaemonOnly
  BY DEF RetryTaskReceipts
<1>3. /\ ControlsQueue'
      /\ InFlight' = InFlight \union taken
      /\ proc' \in [Seqs -> {"none", "queued", "handler", "commit"}] /\ ahead' \in [Seqs -> SUBSET Seqs]
      /\ ReceiptsKept /\ UNCHANGED <<ran, processed, cursor, saving>> => ReceiptsKept'
  BY <1>1, <1>2, TakeKeepsQueue
<1> HIDE DEF taken
<1>4. TypeOK'
  BY <1>1, <1>2, <1>3 DEF TypeOK
<1>5. CursorsOrdered' /\ cursor <= cursor'
  BY <1>2 DEF TypeOK, CursorsOrdered
<1>6. \A s \in Seqs : Covered(s) => Covered(s)'
  BY <1>2 DEF Covered
<1>7. RowsCovered'
  <2>1. Taken' \subseteq Taken
    BY <1>1, <1>2, <1>3 DEF Taken
  <2> QED
    BY <1>2, <1>6, <2>1 DEF RowsCovered
<1>8. ReceiptsKept'
  BY <1>2, <1>3
<1> QED
  BY <1>2, <1>3, <1>4, <1>5, <1>6, <1>7, <1>8, DaemonKeepsInv

\* A completion saves no cursor at or above a row that holds it: below the
\* prefix everything is accounted for, and nothing is unresolved.
LEMMA CompleteBeginKeepsInv ==
  ASSUME Inv, NEW s \in Seqs, CompleteBegin(s)
  PROVE  Inv'
<1> USE MaxSeqAssumption, DeliveryAssumption DEF Inv, Seqs, DaemonOnly, cloudVars, streamVars, loopVars, ghostVars
<1> DEFINE S == {cursor} \union {v \in processed : \A u \in unresolved : v < u}
<1>1. /\ Prefix > cursor /\ saving' = [by |-> s, prefix |-> Prefix, written |-> FALSE]
      /\ UNCHANGED <<cursor, saved, proc, ahead, processed, unresolved, failed, ghostVars>>
      /\ DaemonOnly
  BY DEF CompleteBegin
<1>2. Prefix \in S
  <2>1. S \in SUBSET (NoRead .. MaxSeq) /\ S # {}
    <3>1. cursor \in NoRead .. MaxSeq /\ processed \subseteq NoRead .. MaxSeq
      BY DEF TypeOK, NoRead
    <3> QED
      BY <3>1
  <2> QED
    BY <2>1, MaxOfCursors DEF Prefix
<1>3. Prefix \in processed /\ (\A u \in unresolved : Prefix < u) /\ Prefix \in Seqs /\ cursor \in 0 .. MaxSeq
  BY <1>1, <1>2 DEF TypeOK
<1>4. Prefix <= deliveredSeq /\ \A t \in Seqs : t <= Prefix => t \in handled \union cancelled
  <2>1. Prefix \in Taken
    BY <1>3 DEF Taken
  <2>2. Prefix <= deliveredSeq /\ \A t \in Seqs : t <= Prefix => Covered(t)
    BY <2>1 DEF RowsCovered
  <2>3. \A t \in Seqs : t <= Prefix => t \notin unresolved
    BY <1>3
  <2> QED
    BY <2>2, <2>3 DEF Covered
<1> HIDE DEF S
<1>5. saving' \in Save /\ saving'.prefix = Prefix /\ saving'.written = FALSE /\ cursor < Prefix
  BY <1>1, <1>3 DEF Save
<1>6. TypeOK'
  BY <1>1, <1>5 DEF TypeOK
<1>7. CursorsOrdered' /\ cursor <= cursor'
  BY <1>1, <1>3, <1>4, <1>5 DEF CursorsOrdered
<1>8. \A t \in Seqs : Covered(t) => Covered(t)'
  BY <1>1 DEF Covered
<1>9. RowsCovered'
  BY <1>1, <1>4, <1>5 DEF RowsCovered, Covered, Taken, InFlight
<1>10. ReceiptsKept' /\ ControlsQueue'
  <2>1. proc[s] = "commit" /\ saving'.by = s
    BY <1>1 DEF CompleteBegin
  <2> QED
    BY <1>1, <2>1 DEF ReceiptsKept, NoSecondRun, ControlsQueue, InFlight, IsControl
<1> QED
  BY <1>1, <1>6, <1>7, <1>8, <1>9, <1>10, DaemonKeepsInv

\* The file takes the prefix before the cursor does.
LEMMA SaveWriteKeepsInv ==
  ASSUME Inv, SaveWrite
  PROVE  Inv'
<1> USE MaxSeqAssumption, DeliveryAssumption DEF Inv, Seqs, DaemonOnly, cloudVars, streamVars, loopVars, ghostVars
<1>1. /\ saving # NoSave /\ saving \in Save /\ saved' = saving.prefix /\ saving' = [saving EXCEPT !.written = TRUE]
      /\ UNCHANGED <<cursor, proc, ahead, processed, unresolved, failed, ghostVars>>
      /\ DaemonOnly
  BY DEF SaveWrite, TypeOK
<1>2. saving.prefix \in Seqs /\ saving' \in Save /\ saving'.prefix = saving.prefix /\ saving'.written = TRUE
  BY <1>1 DEF Save
<1>3. TypeOK'
  <2>1. saved' \in 0 .. MaxSeq
    BY <1>1, <1>2
  <2> QED
    BY <1>1, <1>2, <2>1 DEF TypeOK
<1>4. CursorsOrdered' /\ cursor <= cursor'
  BY <1>1, <1>2 DEF CursorsOrdered, TypeOK
<1>5. \A t \in Seqs : Covered(t) => Covered(t)'
  BY <1>1 DEF Covered
<1>6. RowsCovered'
  BY <1>1, <1>2 DEF RowsCovered, Covered, Taken, InFlight
<1>7. ReceiptsKept' /\ ControlsQueue'
  BY <1>1 DEF ReceiptsKept, NoSecondRun, ControlsQueue, InFlight, IsControl
<1> QED
  BY <1>1, <1>3, <1>4, <1>5, <1>6, <1>7, DaemonKeepsInv

\* A row that is settled leaves the queue of controls in order.
LEMMA SettledKeepsQueue ==
  ASSUME Inv, NEW s \in Seqs, Settled(s), UNCHANGED <<kind, task>>
  PROVE  /\ ControlsQueue'
         /\ InFlight' \subseteq InFlight
         /\ proc' \in [Seqs -> {"none", "queued", "handler", "commit"}] /\ ahead' \in [Seqs -> SUBSET Seqs]
         /\ \A t \in Seqs : proc'[t] = "handler" => proc[t] = "handler"
<1>1. /\ InFlight' \subseteq InFlight
      /\ proc' \in [Seqs -> {"none", "queued", "handler", "commit"}] /\ ahead' \in [Seqs -> SUBSET Seqs]
      /\ \A t \in Seqs : proc'[t] = "handler" => proc[t] = "handler"
  BY DEF Settled, InFlight, Inv, TypeOK
<1>2. ControlsQueue'
  BY DEF Settled, InFlight, Inv, TypeOK, ControlsQueue, IsControl
<1> QED
  BY <1>1, <1>2

\* The cursor moves to what the file already holds; receipts below it go.
LEMMA SaveDoneKeepsInv ==
  ASSUME Inv, SaveDone
  PROVE  Inv'
<1> USE MaxSeqAssumption, DeliveryAssumption DEF Inv, Seqs, DaemonOnly, cloudVars, streamVars, loopVars, ghostVars
<1>1. /\ saving # NoSave /\ saving.written /\ saving \in Save /\ cursor' = saving.prefix
      /\ Settled(saving.by) /\ saving' = NoSave
      /\ processed' = {v \in processed : v > saving.prefix}
      /\ failed' = failed \ {v \in processed : v <= saving.prefix}
      /\ UNCHANGED <<saved, unresolved, ghostVars>>
      /\ DaemonOnly
  BY DEF SaveDone, TypeOK, Forgotten
<1>2. saving.prefix \in Seqs /\ saving.by \in Seqs
  BY <1>1 DEF Save
<1>3. /\ ControlsQueue'
      /\ InFlight' \subseteq InFlight
      /\ proc' \in [Seqs -> {"none", "queued", "handler", "commit"}] /\ ahead' \in [Seqs -> SUBSET Seqs]
      /\ \A s \in Seqs : proc'[s] = "handler" => proc[s] = "handler"
  BY <1>1, <1>2, SettledKeepsQueue
<1>4. TypeOK'
  <2>1. cursor' \in 0 .. MaxSeq
    BY <1>1, <1>2
  <2>2. processed' \subseteq Seqs /\ failed' \subseteq Seqs
    BY <1>1 DEF TypeOK
  <2> QED
    BY <1>1, <1>3, <2>1, <2>2 DEF TypeOK
<1>5. CursorsOrdered' /\ cursor <= cursor'
  BY <1>1, <1>2 DEF CursorsOrdered, TypeOK
<1>6. \A t \in Seqs : Covered(t) => Covered(t)'
  BY <1>1 DEF Covered
<1>7. RowsCovered'
  <2>1. Taken' \subseteq Taken
    BY <1>1, <1>3 DEF Taken
  <2> QED
    BY <1>1, <1>6, <2>1 DEF RowsCovered
<1>8. ReceiptsKept'
  <2>1. ASSUME NEW s \in ran PROVE s \in processed' \/ s <= cursor'
    <3>1. s \in Seqs /\ cursor \in 0 .. MaxSeq /\ cursor < saving.prefix
      BY <1>1 DEF TypeOK, CursorsOrdered
    <3>2. s \in processed \/ s <= cursor
      BY DEF ReceiptsKept
    <3> QED
      BY <1>1, <1>2, <3>1, <3>2
  <2> QED
    BY <1>1, <1>3, <2>1 DEF ReceiptsKept, NoSecondRun
<1> QED
  BY <1>1, <1>3, <1>4, <1>5, <1>6, <1>7, <1>8, DaemonKeepsInv

\* A failed save may have written the file, never the cursor.
LEMMA SaveFailsKeepsInv ==
  ASSUME Inv, SaveFails
  PROVE  Inv'
<1> USE MaxSeqAssumption, DeliveryAssumption DEF Inv, Seqs, DaemonOnly, cloudVars, streamVars, loopVars, ghostVars
<1>1. /\ saving # NoSave /\ saving \in Save
      /\ Settled(saving.by) /\ saving' = NoSave
      /\ failed' = failed \union {saving.by}
      /\ UNCHANGED <<cursor, saved, processed, unresolved, handled, ran>>
      /\ faults < MaxFaults /\ faults' = faults + 1
      /\ DaemonOnly
  BY DEF SaveFails, TypeOK, Fault
<1>2. saving.prefix \in Seqs /\ saving.by \in Seqs
  BY <1>1 DEF Save
<1>3. /\ ControlsQueue'
      /\ InFlight' \subseteq InFlight
      /\ proc' \in [Seqs -> {"none", "queued", "handler", "commit"}] /\ ahead' \in [Seqs -> SUBSET Seqs]
      /\ \A s \in Seqs : proc'[s] = "handler" => proc[s] = "handler"
  BY <1>1, <1>2, SettledKeepsQueue
<1>4. TypeOK'
  <2>1. failed' \subseteq Seqs
    BY <1>1, <1>2 DEF TypeOK
  <2>2. faults' \in 0 .. MaxFaults
    BY <1>1 DEF TypeOK
  <2> QED
    BY <1>1, <1>3, <2>1, <2>2 DEF TypeOK
<1>5. CursorsOrdered' /\ cursor <= cursor'
  BY <1>1, <1>2 DEF CursorsOrdered, TypeOK
<1>6. \A t \in Seqs : Covered(t) => Covered(t)'
  BY <1>1 DEF Covered
<1>7. RowsCovered'
  <2>1. Taken' \subseteq Taken
    <3>1. saving.by \in InFlight
      BY <1>1, <1>2 DEF ReceiptsKept, InFlight
    <3> QED
      BY <1>1, <1>3, <3>1 DEF Taken
  <2> QED
    BY <1>1, <1>6, <2>1 DEF RowsCovered
<1>8. ReceiptsKept'
  BY <1>1, <1>3 DEF ReceiptsKept, NoSecondRun
<1> QED
  BY <1>1, <1>3, <1>4, <1>5, <1>6, <1>7, <1>8, DaemonKeepsInv

\* The daemon starts again from its file, which is at or above every cursor it
\* has shown.
LEMMA RestartKeepsInv ==
  ASSUME Inv, Restart
  PROVE  Inv'
<1> USE MaxSeqAssumption, DeliveryAssumption DEF Inv, Seqs, NoRead, cloudVars, streamVars, Restart, Fault
<1>1. TypeOK'
  <2>1. /\ saved' \in 0 .. MaxSeq /\ cursor' \in 0 .. MaxSeq /\ readCursor' \in NoRead .. MaxSeq
        /\ proc' \in [Seqs -> {"none", "queued", "handler", "commit"}] /\ ahead' \in [Seqs -> SUBSET Seqs]
        /\ faults' \in 0 .. MaxFaults
    BY DEF TypeOK
  <2> QED
    BY <2>1 DEF TypeOK
<1>2. RowsOK'
  BY DEF RowsOK
<1>3. CursorsOrdered'
  BY DEF TypeOK, CursorsOrdered
<1>4. RequestsOK'
  <2>1. ASSUME NEW p \in Poll PROVE RequestOK(p)'
    <3>1. /\ RequestOK(p) /\ poll[p].cursor \in 0 .. MaxSeq
          /\ cursor \in 0 .. MaxSeq /\ saved \in 0 .. MaxSeq /\ cursor <= saved
      BY RequestFields DEF RequestsOK, TypeOK, CursorsOrdered
    <3>2. poll[p].cursor <= saved
      BY <3>1 DEF RequestOK
    <3> QED
      BY <3>1, <3>2 DEF RequestOK
  <2> QED
    BY <2>1 DEF RequestsOK
<1>5. CurrentHighest' /\ PageCovered'
  BY DEF CurrentHighest, PageCovered
<1>6. RowsCovered'
  BY DEF TypeOK, RowsCovered, Covered, Taken, InFlight
<1>7. ReceiptsKept' /\ ControlsQueue'
  BY DEF ReceiptsKept, NoSecondRun, ControlsQueue, InFlight
<1> QED
  BY <1>1, <1>2, <1>3, <1>4, <1>5, <1>6, <1>7

LEMMA NextKeepsInv == Inv /\ [Next]_vars => Inv'
<1> SUFFICES ASSUME Inv, [Next]_vars PROVE Inv'
  OBVIOUS
<1>1. CASE Cloud
  BY <1>1, CloudKeepsInv
<1>2. ASSUME NEW p \in Poll, Route(p) \/ PollWake(p) \/ PollTimeout(p) \/ PollDrop(p)
      PROVE  Inv'
  BY <1>2, PollAdmitKeepsInv, PollAckKeepsInv, PollReadKeepsInv, PollFilterKeepsInv, PollDeliverKeepsInv,
     PollWakeKeepsInv, PollEndKeepsInv DEF Route
<1>3. CASE Loop
  BY <1>3, QuietLoopKeepsInv, SendPollKeepsInv, ReceivePageKeepsInv DEF Loop
<1>4. CASE BreakSession
  BY <1>4, QuietLoopKeepsInv
<1>5. ASSUME NEW s \in Seqs, Process(s) \/ Handle(s) \/ HandlerFails(s) \/ Complete(s)
      PROVE  Inv'
  BY <1>5, ProcessStaleKeepsInv, ProcessAgainKeepsInv, ProcessStartKeepsInv, HandlerSucceedsKeepsInv,
     HandlerFailsKeepsInv, CompleteIdleKeepsInv, CompleteBeginKeepsInv DEF Process, Handle, Complete
<1>6. ASSUME NEW o \in Seqs, RetryTaskReceipts(o)
      PROVE  Inv'
  BY <1>6, RetryKeepsInv
<1>7. CASE SaveCursor
  BY <1>7, SaveWriteKeepsInv, SaveDoneKeepsInv DEF SaveCursor
<1>8. CASE SaveFails
  BY <1>8, SaveFailsKeepsInv
<1>9. CASE Restart
  BY <1>9, RestartKeepsInv
<1>10. CASE UNCHANGED vars
  <2> USE <1>10 DEF Inv, vars, cloudVars, streamVars, memoryVars, loopVars, ghostVars
  <2>1. TypeOK' /\ RowsOK' /\ CursorsOrdered'
    BY DEF TypeOK, RowsOK, CursorsOrdered
  <2>2. RequestsOK' /\ CurrentHighest'
    BY DEF RequestsOK, RequestOK, CurrentHighest
  <2>3. RowsCovered' /\ PageCovered'
    BY DEF RowsCovered, PageCovered, Covered, Taken, InFlight
  <2>4. ReceiptsKept' /\ ControlsQueue'
    BY DEF ReceiptsKept, NoSecondRun, ControlsQueue, InFlight, IsControl
  <2> QED
    BY <2>1, <2>2, <2>3, <2>4
<1> QED
  BY <1>1, <1>2, <1>3, <1>4, <1>5, <1>6, <1>7, <1>8, <1>9, <1>10 DEF Next

\* The cursors, the requests and the rows in the daemon's memory stay consistent
\* in every behaviour of the cloud's route and the daemon's loop.
THEOREM Invariance == Spec => []Inv
<1>1. Init => Inv
  BY InitInv
<1>2. Inv /\ [Next]_vars => Inv'
  BY NextKeepsInv
<1> QED
  BY <1>1, <1>2, PTL DEF Spec

-----------------------------------------------------------------------------
(* The results *)

\* Every variable keeps its type, for all sizes of the stream, the page, the
\* window and the set of requests.
THEOREM TypeCorrect == Spec => []TypeOK
<1>1. Inv => TypeOK
  BY DEF Inv
<1> QED
  BY <1>1, Invariance, PTL

\* The events route takes a poll's cursor for an acknowledgement: every row it
\* counts as consumed was handled to the end or cancelled first, across lost
\* answers, overlapping requests, failed saves and restarts.
THEOREM AckNeverAheadOfWork == Spec => []AckedMeansHandled
<1>1. Inv => AckedMeansHandled
  <2> SUFFICES ASSUME Inv, NEW s \in Seqs, s <= ackedSeq PROVE s \in handled \union cancelled
    BY DEF AckedMeansHandled
  <2>1. s <= saved
    BY MaxSeqAssumption DEF Inv, TypeOK, CursorsOrdered, Seqs
  <2> QED
    BY <2>1 DEF Inv, RowsCovered
<1> QED
  BY <1>1, Invariance, PTL

\* A handler that has succeeded since the daemon started does not run again:
\* its receipt is kept until the saved cursor has passed its row.
THEOREM HandlersRunOnce == Spec => []NoSecondRun
<1>1. Inv => NoSecondRun
  BY DEF Inv, ReceiptsKept
<1> QED
  BY <1>1, Invariance, PTL

\* Two controls of one task are never handled at the same time, whichever pages,
\* redeliveries and retries brought them.
THEOREM ControlsSerialised == Spec => []ControlsOneAtATime
<1>1. Inv => ControlsOneAtATime
  BY DEF Inv, TypeOK, ControlsQueue, ControlsOneAtATime, InFlight
<1> QED
  BY <1>1, Invariance, PTL

\* Only the two refusals of the route make a request `refused', and neither is
\* possible for the request the daemon waits for: its offset is within the
\* window and was delivered, its cursor is between the acknowledged and the
\* delivered one.
LEMMA NextKeepsAccepted == Inv /\ PollsAccepted /\ [Next]_vars => PollsAccepted'
<1> SUFFICES ASSUME Inv, PollsAccepted, [Next]_vars PROVE PollsAccepted'
  OBVIOUS
<1> USE DEF PollsAccepted
<1>1. CASE UNCHANGED <<poll, current>>
  BY <1>1
<1>2. CASE current' = NoPoll
  BY <1>2, DeliveryAssumption
<1>3. ASSUME NEW p \in Poll, current' = current, \A q \in Poll \ {p} : poll'[q] = poll[q],
             p = current => poll'[p].stage # "refused"
      PROVE  PollsAccepted'
  BY <1>3
<1>4. ASSUME NEW p \in Poll, PollAdmit(p) \/ PollAckRefused(p)
      PROVE  PollsAccepted'
  <2>1. TypeOK /\ RequestOK(p) /\ UNCHANGED current
    BY <1>4 DEF Inv, RequestsOK, PollAdmit, PollAckRefused, PollOnly, loopVars
  <2>2. /\ poll[p].stage \in Stage /\ poll[p].cursor \in 0 .. MaxSeq /\ poll[p].after \in 0 .. MaxSeq
        /\ ackedSeq \in 0 .. MaxSeq /\ deliveredSeq \in 0 .. MaxSeq /\ cursor \in 0 .. MaxSeq /\ saved \in 0 .. MaxSeq
    BY <2>1, RequestFields DEF TypeOK
  <2>3. CASE p = current
    <3>1. /\ poll[p].cursor <= deliveredSeq
          /\ poll[p].stage = "ack" => ackedSeq <= poll[p].cursor
      <4>1. current # NoPoll
        BY <2>3, DeliveryAssumption
      <4>2. poll[p].stage = "ack" => ackedSeq <= poll[p].cursor
        BY <2>3, <4>1 DEF Inv, CurrentHighest
      <4>3. poll[p].cursor <= deliveredSeq
        BY <2>1, <2>2, MaxSeqAssumption DEF Inv, CursorsOrdered, RequestOK
      <4> QED
        BY <4>2, <4>3
    <3>2. ~PollAckRefused(p)
      BY <2>2, <3>1, MaxSeqAssumption DEF PollAckRefused
    <3>3. poll[p].stage = "sent" /\ ~(poll[p].after - poll[p].cursor > Window) /\ ~(poll[p].after > deliveredSeq)
      BY <1>4, <2>1, <2>2, <3>2, MaxSeqAssumption, DeliveryAssumption DEF PollAdmit, RequestOK
    <3> DEFINE next == IF poll[p].cursor > ackedSeq THEN "ack" ELSE "scan"
    <3>4. Move(p, next)
      BY <1>4, <3>2, <3>3 DEF PollAdmit
    <3>5. next \in Stage /\ next # "refused"
      BY DEF Stage
    <3> HIDE DEF next
    <3>6. poll'[p].stage = next /\ \A q \in Poll \ {p} : poll'[q] = poll[q]
      BY <2>1, <3>4, <3>5, MoveFields DEF Move
    <3> QED
      BY <1>3, <2>1, <3>5, <3>6
  <2>4. CASE p # current
    <3>1. \A q \in Poll \ {p} : poll'[q] = poll[q]
      BY <1>4, <2>1 DEF PollAdmit, PollAckRefused, Reply, Move, TypeOK
    <3> QED
      BY <1>3, <2>1, <2>4, <3>1
  <2> QED
    BY <2>3, <2>4
<1>5. ASSUME NEW p \in Poll, PollAck(p) \/ PollRead(p) \/ PollFilter(p) \/ PollDeliver(p)
                             \/ PollWake(p) \/ PollTimeout(p) \/ PollDrop(p)
      PROVE  PollsAccepted'
  <2>1. TypeOK /\ current' = current /\ poll[p] \in Request
    BY <1>5, RequestFields
       DEF Inv, PollAck, PollRead, PollFilter, PollDeliver, PollWake, PollTimeout, PollDrop,
           PollOnly, PollStream, loopVars
  <2>2. \A q \in Poll \ {p} : poll'[q] = poll[q]
    BY <1>5, <2>1
       DEF TypeOK, PollAck, PollRead, PollFilter, PollDeliver, PollWake, PollTimeout, PollDrop, Move, Reply
  <2>3. poll'[p].stage # "refused"
    <3>1. CASE PollAck(p) \/ PollWake(p) \/ PollDeliver(p)
      BY <2>1, <3>1 DEF TypeOK, Request, PollAck, PollWake, PollDeliver, Move
    <3>2. CASE PollRead(p)
      <4>1. CASE Reply(p, "too_old")
        BY <2>1, <4>1 DEF TypeOK, Reply, Idle
      <4>2. CASE poll' = [poll EXCEPT ![p].stage = "hold", ![p].scan = poll[p].after]
        BY <2>1, <4>2 DEF TypeOK, Request
      <4> DEFINE rows == PendingAfter(poll[p].scan)
                 page == {s \in rows : Cardinality({t \in rows : t <= s}) <= PageLimit}
      <4>3. CASE poll' = [poll EXCEPT ![p].stage = "filter", ![p].page = page, ![p].more = page # rows]
        <5> HIDE DEF rows, page
        <5> QED
          BY <2>1, <4>3 DEF TypeOK, Request
      <4> QED
        BY <3>2, <4>1, <4>2, <4>3 DEF PollRead
    <3>3. CASE PollFilter(p)
      BY <2>1, <3>3 DEF TypeOK, Request, PollFilter
    <3>4. CASE PollTimeout(p) \/ PollDrop(p)
      BY <2>1, <3>4 DEF TypeOK, PollTimeout, PollDrop, Reply, Idle
    <3> QED
      BY <1>5, <3>1, <3>2, <3>3, <3>4
  <2> QED
    BY <1>3, <2>1, <2>2, <2>3
<1>6. ASSUME NEW p \in Poll, SendPoll(p)
      PROVE  PollsAccepted'
  BY <1>6 DEF SendPoll, Inv, TypeOK, Idle
<1>7. CASE Cloud
  BY <1>1, <1>7 DEF Cloud, AppendOffer, AppendUnusable, AppendControl, CancelAppend, AppendRow, CancelCommit,
                    LoseRow, loopVars
<1>8. ASSUME Loop, \A p \in Poll : ~SendPoll(p)
      PROVE  PollsAccepted'
  BY <1>2, <1>8 DEF Loop, WindowReset, ReceivePage, ReceiveEmpty, ReceiveTooOld, ReceiveRefused, Answered
<1>9. ASSUME DaemonOnly
      PROVE  PollsAccepted'
  BY <1>1, <1>9 DEF DaemonOnly, loopVars
<1>10. CASE BreakSession \/ Restart
  BY <1>2, <1>10 DEF BreakSession, Restart
<1>11. ASSUME NEW s \in Seqs, Process(s) \/ Handle(s) \/ HandlerFails(s) \/ Complete(s) \/ RetryTaskReceipts(s)
       PROVE  DaemonOnly
  BY <1>11 DEF Process, ProcessStale, ProcessAgain, ProcessStart, Handle, HandlerSucceeds, HandlerFails,
               Complete, CompleteIdle, CompleteBegin, RetryTaskReceipts
<1>12. CASE SaveCursor \/ SaveFails
  BY <1>9, <1>12 DEF SaveCursor, SaveWrite, SaveDone, SaveFails
<1>13. CASE UNCHANGED vars
  BY <1>1, <1>13 DEF vars, loopVars
<1> QED
  BY <1>4, <1>5, <1>6, <1>7, <1>8, <1>9, <1>10, <1>11, <1>12, <1>13 DEF Next, Route, Loop

\* The route refuses no poll the daemon waits for, whatever requests of earlier
\* sessions the server is still working on.
THEOREM NoPollRefused == Spec => []PollsAccepted
<1>1. Init => PollsAccepted
  BY DEF Init, Idle, PollsAccepted
<1>2. Inv /\ PollsAccepted /\ [Next]_vars => PollsAccepted'
  BY NextKeepsAccepted
<1> QED
  BY <1>1, <1>2, Invariance, PTL DEF Spec
=============================================================================
