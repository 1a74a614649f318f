---------------------------- MODULE TerminalsProofs ----------------------------
(***************************************************************************)
(* The safety of the way of a terminal to the cloud, for any tasks, batch  *)
(* size and number of faults: what goes out is durable and goes out once,  *)
(* journal and cloud hold one truth, and a task is started once.           *)
(*                                                                         *)
(* Inv relates the journal's row to the four other places that know the    *)
(* terminal: the entry of the commit queue, the envelopes on their way,    *)
(* what the cloud recorded and what it refused.                            *)
(***************************************************************************)
EXTENDS Terminals, TLAPS, FiniteSetTheorems, SequenceTheorems

-----------------------------------------------------------------------------
(* The inductive invariant *)

\* A row's terminal and its truth come together; what failed was refused, and
\* only a refused result was ever replaced.
RowsOK ==
  \A t \in Task :
    /\ journal[t].truth = "none" <=> journal[t].bytes = NoBytes
    /\ journal[t].truth = "failed" => <<t, journal[t].bytes>> \in refused
    /\ journal[t].replaced => journal[t].bytes = "replacement" /\ <<t, "result">> \in refused

\* A replacement is meant for a result.
QueueOK == \A t \in Task : Replaces(t) => journal[t].bytes \in {"result", "replacement"}

\* The cloud records nothing that it refused, and decides on every envelope that
\* an answer covers.
CloudOK ==
  /\ \A e \in refused : receipt[e[1]] # e[2]
  /\ \A i \in 1 .. Len(batch) :
       drain.pc = "settle" \/ (drain.pc = "post" /\ i < drain.next) =>
         batch[i] \in refused \/ receipt[batch[i][1]] # NoBytes

\* A task is offered to the runner before its admission is durable, and has no
\* terminal of its own while it runs: only a start that finds it running calls
\* it interrupted.
WorkOK ==
  \A t \in Task :
    /\ journal[t].state # "admitted" => runs[t] = 0
    /\ work[t] = "offered" => journal[t].state # "admitted"
    /\ work[t] # "idle" => journal[t].bytes \in {NoBytes, "interrupted"}

\* Where nothing is under way.
RestOK ==
  /\ drain.pc \in {"idle", "delay"} => batch = <<>>
  /\ phase \in {"stopped", "down"} =>
       session = "connecting" /\ outbox = <<>> /\ batch = <<>> /\ drain.pc = "idle"
  /\ phase = "down" => \A t \in Task : ~Pending(t)

\* No envelope is on its way twice.
Distinct ==
  /\ IsInjective(batch) /\ IsInjective(outbox)
  /\ Range(batch) \intersect Range(outbox) = {}

\* Every envelope on its way is durable.
Durable(e) == e[2] = journal[e[1]].bytes \/ (journal[e[1]].replaced /\ e[2] = "result")
FlowOK == \A e \in Range(outbox) \union Range(batch) : Durable(e)

Inv ==
  /\ TypeOK
  /\ RowsOK
  /\ QueueOK
  /\ CloudOK
  /\ OneTruth
  /\ WorkOK
  /\ RunsOnce
  /\ RestOK
  /\ Distinct
  /\ FlowOK

-----------------------------------------------------------------------------
(* Sequences of envelopes *)

LEMMA RangeOf ==
  ASSUME NEW S, NEW s \in Seq(S)
  PROVE  /\ \A e : e \in Range(s) <=> \E i \in 1 .. Len(s) : e = s[i]
         /\ Range(s) \subseteq S
         /\ IsInjective(s) <=> \A i, j \in 1 .. Len(s) : s[i] = s[j] => i = j
<1>1. DOMAIN s = 1 .. Len(s) /\ \A i \in 1 .. Len(s) : s[i] \in S
  OBVIOUS
<1> QED
  BY <1>1 DEF Range, IsInjective

LEMMA EmptyRange == Range(<<>>) = {} /\ IsInjective(<<>>)
<1>1. DOMAIN <<>> = {}
  OBVIOUS
<1> QED
  BY <1>1 DEF Range, IsInjective

LEMMA RangeAppend ==
  ASSUME NEW S, NEW s \in Seq(S), NEW e \in S, e \notin Range(s), IsInjective(s)
  PROVE  Append(s, e) \in Seq(S) /\ Range(Append(s, e)) = Range(s) \union {e} /\ IsInjective(Append(s, e))
<1> DEFINE q == Append(s, e)
<1>1. /\ q \in Seq(S) /\ Len(q) = Len(s) + 1 /\ Len(s) \in Nat
      /\ \A i \in 1 .. Len(s) : q[i] = s[i]
      /\ q[Len(s) + 1] = e
  OBVIOUS
<1> HIDE DEF q
<1>2. \A x : x \in Range(q) <=> x \in Range(s) \union {e}
  BY <1>1, RangeOf
<1>3. ASSUME NEW i \in 1 .. Len(q), NEW j \in 1 .. Len(q), q[i] = q[j]
      PROVE  i = j
  <2>1. \A x \in 1 .. Len(q) : x \in 1 .. Len(s) \/ x = Len(s) + 1
    BY <1>1
  <2>2. \A x \in 1 .. Len(s) : q[x] # e
    BY <1>1, RangeOf
  <2>3. \A x, y \in 1 .. Len(s) : s[x] = s[y] => x = y
    BY RangeOf
  <2> QED
    BY <1>1, <1>3, <2>1, <2>2, <2>3
<1>4. IsInjective(q)
  BY <1>1, <1>3, RangeOf
<1> QED
  BY <1>1, <1>2, <1>4 DEF q

LEMMA RangeConcat ==
  ASSUME NEW S, NEW s \in Seq(S), NEW u \in Seq(S),
         IsInjective(s), IsInjective(u), Range(s) \intersect Range(u) = {}
  PROVE  s \o u \in Seq(S) /\ Range(s \o u) = Range(s) \union Range(u) /\ IsInjective(s \o u)
<1> DEFINE q == s \o u
           m == Len(s)
           n == Len(u)
<1>1. /\ q \in Seq(S) /\ Len(q) = m + n /\ m \in Nat /\ n \in Nat
      /\ \A i \in 1 .. m : q[i] = s[i]
      /\ \A i \in m + 1 .. m + n : q[i] = u[i - m]
  OBVIOUS
<1>2. /\ \A i \in 1 .. m + n : i \in 1 .. m \/ (i \in m + 1 .. m + n /\ i - m \in 1 .. n)
      /\ \A i \in 1 .. n : i + m \in m + 1 .. m + n /\ (i + m) - m = i /\ i + m \in 1 .. m + n
      /\ \A i \in 1 .. m : i \in 1 .. m + n
  BY <1>1
<1>3. /\ \A e : e \in Range(s) <=> \E i \in 1 .. m : e = s[i]
      /\ \A e : e \in Range(u) <=> \E i \in 1 .. n : e = u[i]
      /\ \A i, j \in 1 .. m : s[i] = s[j] => i = j
      /\ \A i, j \in 1 .. n : u[i] = u[j] => i = j
  BY RangeOf
<1> HIDE DEF q, m, n
<1>4. \A e : e \in Range(q) <=> \E i \in 1 .. m + n : e = q[i]
  <2>1. \A e : e \in Range(q) <=> \E i \in 1 .. Len(q) : e = q[i]
    BY <1>1, RangeOf
  <2>2. 1 .. Len(q) = 1 .. m + n
    BY <1>1
  <2> QED
    BY <2>1, <2>2
<1>5. ASSUME NEW e PROVE e \in Range(q) <=> e \in Range(s) \union Range(u)
  <2>1. ASSUME e \in Range(q) PROVE e \in Range(s) \union Range(u)
    <3>1. PICK i \in 1 .. m + n : e = q[i]
      BY <1>4, <2>1
    <3> QED
      BY <1>1, <1>2, <1>3, <3>1
  <2>2. ASSUME e \in Range(s) PROVE e \in Range(q)
    BY <1>1, <1>2, <1>3, <1>4, <2>2
  <2>3. ASSUME e \in Range(u) PROVE e \in Range(q)
    <3>1. PICK i \in 1 .. n : e = u[i]
      BY <1>3, <2>3
    <3>2. q[i + m] = e
      BY <1>1, <1>2, <3>1
    <3> QED
      BY <1>2, <1>4, <3>2
  <2> QED
    BY <2>1, <2>2, <2>3
<1>6. ASSUME NEW i \in 1 .. m + n, NEW j \in 1 .. m + n, q[i] = q[j]
      PROVE  i = j
  <2>1. CASE i \in 1 .. m /\ j \in 1 .. m
    BY <1>1, <1>3, <1>6, <2>1
  <2>2. CASE i \in m + 1 .. m + n /\ j \in m + 1 .. m + n
    <3>1. i - m = j - m
      BY <1>1, <1>2, <1>3, <1>6, <2>2
    <3> QED
      BY <1>1, <3>1
  <2>3. CASE i \in 1 .. m /\ j \in m + 1 .. m + n
    <3>1. j - m \in 1 .. n
      BY <1>1, <2>3
    <3>2. q[i] \in Range(s) /\ q[j] \in Range(u)
      BY <1>1, <1>3, <2>3, <3>1
    <3> QED
      BY <1>6, <3>2
  <2>4. CASE j \in 1 .. m /\ i \in m + 1 .. m + n
    <3>1. i - m \in 1 .. n
      BY <1>1, <2>4
    <3>2. q[j] \in Range(s) /\ q[i] \in Range(u)
      BY <1>1, <1>3, <2>4, <3>1
    <3> QED
      BY <1>6, <3>2
  <2> QED
    BY <1>2, <2>1, <2>2, <2>3, <2>4
<1>7. IsInjective(q)
  BY <1>1, <1>6, RangeOf
<1> QED
  BY <1>1, <1>5, <1>7 DEF q

\* A sequence that is cut in two.
LEMMA RangeCut ==
  ASSUME NEW S, NEW s \in Seq(S), NEW n \in 0 .. Len(s), IsInjective(s)
  PROVE  LET a == SubSeq(s, 1, n)
             b == SubSeq(s, n + 1, Len(s))
         IN /\ a \in Seq(S) /\ b \in Seq(S) /\ Len(a) = n
            /\ Range(a) \union Range(b) \subseteq Range(s) /\ Range(a) \intersect Range(b) = {}
            /\ IsInjective(a) /\ IsInjective(b)
<1> DEFINE a == SubSeq(s, 1, n)
           b == SubSeq(s, n + 1, Len(s))
           m == Len(s)
<1>1. m \in Nat /\ n \in Nat /\ n <= m /\ \A i \in 1 .. m : s[i] \in S
  OBVIOUS
<1>2. a \in Seq(S) /\ Len(a) = n /\ \A i \in 1 .. n : a[i] = s[i]
  BY <1>1, SubSeqProperties
<1>3. b \in Seq(S) /\ Len(b) = m - n /\ \A i \in 1 .. m - n : b[i] = s[n + i]
  BY <1>1, SubSeqProperties
<1>4. /\ \A e : e \in Range(s) <=> \E i \in 1 .. m : e = s[i]
      /\ \A i, j \in 1 .. m : s[i] = s[j] => i = j
  BY RangeOf
<1> HIDE DEF a, b, m
<1>5. /\ \A e : e \in Range(a) <=> \E i \in 1 .. n : e = a[i]
      /\ \A e : e \in Range(b) <=> \E i \in 1 .. m - n : e = b[i]
  BY <1>2, <1>3, RangeOf
<1>6. \A i \in 1 .. n : i \in 1 .. m
  BY <1>1
<1>7. \A i \in 1 .. m - n : n + i \in 1 .. m /\ n + i > n
  BY <1>1
<1>8. Range(a) \subseteq Range(s) /\ Range(b) \subseteq Range(s)
  BY <1>2, <1>3, <1>4, <1>5, <1>6, <1>7
<1>9. Range(a) \intersect Range(b) = {}
  <2>1. ASSUME NEW i \in 1 .. n, NEW j \in 1 .. m - n, a[i] = b[j] PROVE FALSE
    BY <1>1, <1>2, <1>3, <1>4, <1>6, <1>7, <2>1
  <2> QED
    BY <1>5, <2>1
<1>10. IsInjective(a)
  BY <1>2, <1>4, <1>6, RangeOf
<1>11. IsInjective(b)
  <2>1. ASSUME NEW i \in 1 .. m - n, NEW j \in 1 .. m - n, b[i] = b[j] PROVE i = j
    <3>1. n + i = n + j
      BY <1>3, <1>4, <1>7, <2>1
    <3> QED
      BY <1>1, <3>1
  <2> QED
    BY <1>3, <2>1, RangeOf
<1> QED
  BY <1>2, <1>3, <1>8, <1>9, <1>10, <1>11 DEF a, b, m

\* The orders in which a start may replay a set of envelopes.
LEMMA OrderOf ==
  ASSUME NEW E, NEW S \in SUBSET E, IsFiniteSet(S), NEW q \in SetToSeqs(S)
  PROVE  q \in Seq(E) /\ Range(q) \subseteq S /\ IsInjective(q)
<1> DEFINE n == Cardinality(S)
<1>1. n \in Nat
  BY FS_CardinalityType
<1> HIDE DEF n
<1>2. q \in [1 .. n -> S] /\ \A i, j \in 1 .. n : i # j => q[i] # q[j]
  BY DEF SetToSeqs, n
<1>3. q \in Seq(S) /\ q \in Seq(E) /\ Len(q) = n
  BY <1>1, <1>2
<1> QED
  BY <1>2, <1>3, RangeOf

-----------------------------------------------------------------------------
(* Rows, entries and drains *)

LEMMA RowFields ==
  ASSUME NEW r \in Row
  PROVE  /\ r.state \in {"none", "received", "admitted"} /\ r.bytes \in Bytes \union {NoBytes}
         /\ r.truth \in {"none", "pending", "confirmed", "failed"} /\ r.replaced \in BOOLEAN
BY DEF Row

LEMMA EntryUpdate ==
  ASSUME NEW q \in Entry, NEW p \in {"none", "wait", "prepare", "commit"}, NEW b \in BOOLEAN
  PROVE  /\ [q EXCEPT !.pc = p] \in Entry /\ [q EXCEPT !.pc = p].pc = p
         /\ [q EXCEPT !.pc = p].bytes = q.bytes
         /\ [q EXCEPT !.pc = p, !.ready = b] \in Entry
         /\ [q EXCEPT !.pc = p, !.ready = b].pc = p
         /\ [q EXCEPT !.pc = p, !.ready = b].bytes = q.bytes
BY DEF Entry

LEMMA NoEntryOK == NoEntry \in Entry /\ NoEntry.pc = "none" /\ NoEntry.bytes = NoBytes
BY DEF NoEntry, Entry, NoBytes

LEMMA NoRowOK ==
  /\ NoRow \in Row /\ NoRow.state = "none" /\ NoRow.bytes = NoBytes /\ NoRow.truth = "none" /\ NoRow.replaced = FALSE
BY DEF NoRow, Row, NoBytes, Bytes

LEMMA NoDrainOK == NoDrain \in Drain /\ NoDrain.pc = "idle"
<1>1. 1 \in 1 .. MaxBatch + 1
  BY TerminalsAssumption
<1> QED
  BY <1>1 DEF NoDrain, Drain

LEMMA FaultType == ASSUME TypeOK, Fault PROVE faults' \in 0 .. MaxFaults
BY TerminalsAssumption DEF TypeOK, Fault

\* An envelope is the pair of its parts.
LEMMA EnvelopeParts ==
  ASSUME NEW e \in Envelope
  PROVE  e[1] \in Task /\ e[2] \in Bytes /\ e = <<e[1], e[2]>>
BY DEF Envelope

-----------------------------------------------------------------------------
(* The commit queue's entries *)

LEMMA FirstStepOK ==
  ASSUME NEW t, NEW b, NEW r PROVE FirstStep(t, b, r) \in {"prepare", "commit"}
BY DEF FirstStep

LEMMA AttemptedOK ==
  ASSUME TypeOK, NEW t \in Task
  PROVE  /\ Attempted(t) \in Entry /\ Attempted(t).bytes = queue[t].bytes
         /\ Attempted(t).pc = "none" <=> queue[t].pc = "none"
<1>1. queue[t] \in Entry
  BY DEF TypeOK
<1> DEFINE p == FirstStep(t, queue[t].bytes, queue[t].ready)
<1>2. p \in {"prepare", "commit"}
  BY FirstStepOK
<1> HIDE DEF p
<1>3. CASE queue[t].pc = "wait"
  <2>1. Attempted(t) = [queue[t] EXCEPT !.pc = p]
    BY <1>3 DEF Attempted, p
  <2>2. /\ [queue[t] EXCEPT !.pc = p] \in Entry /\ [queue[t] EXCEPT !.pc = p].pc = p
        /\ [queue[t] EXCEPT !.pc = p].bytes = queue[t].bytes
    BY <1>1, <1>2 DEF Entry
  <2> QED
    BY <1>2, <1>3, <2>1, <2>2
<1>4. CASE queue[t].pc # "wait"
  BY <1>1, <1>4 DEF Attempted
<1> QED
  BY <1>3, <1>4

LEMMA EnqueuedOK ==
  ASSUME TypeOK, NEW t \in Task, NEW b \in {"result", "replacement"}
  PROVE  /\ Enqueued(t, b) \in Entry /\ Enqueued(t, b).pc # "none"
         /\ Enqueued(t, b).bytes = b \/ Enqueued(t, b).bytes = queue[t].bytes
<1>1. CASE Pending(t)
  BY <1>1, AttemptedOK DEF Enqueued, Pending
<1>2. CASE ~Pending(t)
  <2>1. FirstStep(t, b, FALSE) \in {"prepare", "commit"}
    BY FirstStepOK
  <2>2. Enqueued(t, b) = [bytes |-> b, pc |-> FirstStep(t, b, FALSE), ready |-> FALSE]
    BY <1>2 DEF Enqueued
  <2> DEFINE p == FirstStep(t, b, FALSE)
  <2> HIDE DEF p
  <2>3. [bytes |-> b, pc |-> p, ready |-> FALSE] \in Entry
    BY <2>1 DEF Entry, p
  <2>4. [bytes |-> b, pc |-> p, ready |-> FALSE].pc = p /\ [bytes |-> b, pc |-> p, ready |-> FALSE].bytes = b
    OBVIOUS
  <2> QED
    BY <2>1, <2>2, <2>3, <2>4 DEF p
<1> QED
  BY <1>1, <1>2

-----------------------------------------------------------------------------
(* How a row may go on *)

\* Its terminal stays, and its truth follows the cloud; or it gets its first
\* terminal; or a refused result is replaced.
Advances(t, x) ==
  LET r == journal[t]
  IN \/ /\ x.bytes = r.bytes /\ x.replaced = r.replaced
        /\ x.truth = "none" <=> r.truth = "none"
        /\ x.truth = "failed" => r.truth = "failed" \/ <<t, r.bytes>> \in refused
        /\ x.truth = "confirmed" => r.truth = "confirmed" \/ receipt[t] = r.bytes
     \/ /\ r.bytes = NoBytes /\ x.bytes \in Bytes
        /\ x.truth = "pending" /\ x.replaced = r.replaced
     \/ /\ r.bytes = "result" /\ r.truth = "failed"
        /\ x.bytes = "replacement" /\ x.truth = "pending" /\ x.replaced

LEMMA AdvancesOK ==
  ASSUME Inv, UNCHANGED <<receipt, refused>>, journal' \in [Task -> Row],
         \A t \in Task : Advances(t, journal'[t])
  PROVE  /\ RowsOK' /\ OneTruth'
         /\ \A e \in Envelope : Durable(e) => Durable(e)'
         /\ \A t \in Task : journal[t].bytes \in {"result", "replacement"} =>
                              journal'[t].bytes \in {"result", "replacement"}
<1>1. ASSUME NEW t \in Task
      PROVE  /\ journal'[t].truth = "none" <=> journal'[t].bytes = NoBytes
             /\ journal'[t].truth = "failed" => <<t, journal'[t].bytes>> \in refused
             /\ journal'[t].replaced => journal'[t].bytes = "replacement" /\ <<t, "result">> \in refused
             /\ journal'[t].truth = "confirmed" => receipt[t] = journal'[t].bytes
             /\ receipt[t] # NoBytes => receipt[t] = journal'[t].bytes
             /\ journal[t].bytes \in {"result", "replacement"} => journal'[t].bytes \in {"result", "replacement"}
             /\ \A b \in Bytes : b = journal[t].bytes \/ (journal[t].replaced /\ b = "result") =>
                                 b = journal'[t].bytes \/ (journal'[t].replaced /\ b = "result")
  <2>1. Advances(t, journal'[t])
    OBVIOUS
  <2>2. /\ journal[t].truth = "none" <=> journal[t].bytes = NoBytes
        /\ journal[t].truth = "failed" => <<t, journal[t].bytes>> \in refused
        /\ journal[t].replaced => journal[t].bytes = "replacement" /\ <<t, "result">> \in refused
    BY DEF Inv, RowsOK
  <2>3. /\ journal[t].truth = "confirmed" => receipt[t] = journal[t].bytes
        /\ receipt[t] # NoBytes => receipt[t] = journal[t].bytes
    BY DEF Inv, OneTruth
  <2>4. <<t, "result">> \in refused => receipt[t] # "result"
    BY DEF Inv, CloudOK
  <2> QED
    BY <2>1, <2>2, <2>3, <2>4 DEF Advances, NoBytes, Bytes
<1>2. RowsOK'
  BY <1>1 DEF RowsOK
<1>3. OneTruth'
  BY <1>1 DEF OneTruth
<1>4. \A e \in Envelope : Durable(e) => Durable(e)'
  BY <1>1, EnvelopeParts DEF Durable
<1> QED
  BY <1>1, <1>2, <1>3, <1>4

\* A row that only changes its state.
LEMMA SameTerminal ==
  ASSUME NEW t, NEW x, x.bytes = journal[t].bytes, x.truth = journal[t].truth, x.replaced = journal[t].replaced
  PROVE  Advances(t, x)
BY DEF Advances

\* The first terminal of a task, or the same result once more.
LEMMA RecordedOK ==
  ASSUME Inv, NEW t \in Task, NEW b \in Bytes
  PROVE  /\ Recorded(journal[t], b) \in Row /\ Advances(t, Recorded(journal[t], b))
         /\ Recorded(journal[t], b).state = journal[t].state
         /\ Recorded(journal[t], b).bytes \in {journal[t].bytes, b}
         /\ journal[t].bytes # NoBytes => Recorded(journal[t], b).bytes = journal[t].bytes
<1> DEFINE r == journal[t]
           x == Recorded(r, b)
<1>1. r \in Row
  BY DEF Inv, TypeOK
<1>2. r.truth = "none" <=> r.bytes = NoBytes
  BY DEF Inv, RowsOK
<1>3. CASE r.bytes = NoBytes
  <2>1. x = [r EXCEPT !.bytes = b, !.truth = "pending"]
    BY <1>3 DEF Recorded
  <2>2. x \in Row /\ x.state = r.state /\ x.bytes = b /\ x.truth = "pending" /\ x.replaced = r.replaced
    BY <1>1, <2>1 DEF Row
  <2> QED
    BY <1>3, <2>2 DEF Advances
<1>4. CASE r.bytes # NoBytes /\ r.bytes = b /\ b = "result" /\ r.truth # "confirmed"
  <2>1. x = [r EXCEPT !.truth = "pending"]
    BY <1>4 DEF Recorded
  <2>2. x \in Row /\ x.state = r.state /\ x.bytes = r.bytes /\ x.truth = "pending" /\ x.replaced = r.replaced
    BY <1>1, <2>1 DEF Row
  <2> QED
    BY <1>2, <1>4, <2>2 DEF Advances
<1>5. CASE r.bytes # NoBytes /\ ~(r.bytes = b /\ b = "result" /\ r.truth # "confirmed")
  <2>1. x = r
    BY <1>5 DEF Recorded
  <2> QED
    BY <1>1, <2>1, SameTerminal
<1> QED
  BY <1>3, <1>4, <1>5

\* What a commit writes.
LEMMA WrittenOK ==
  ASSUME Inv, NEW t \in Task
  PROVE  /\ Written(t) \in Row /\ Advances(t, Written(t))
         /\ Written(t).state = journal[t].state
<1>1. journal[t] \in Row
  BY DEF Inv, TypeOK
<1>2. CASE Replaces(t) /\ Refused(t)
  <2>1. Written(t) = [journal[t] EXCEPT !.bytes = "replacement", !.truth = "pending", !.replaced = TRUE]
    BY <1>2 DEF Written, Replaced
  <2>2. "replacement" \in Bytes \union {NoBytes}
    BY DEF Bytes
  <2>3. /\ Written(t) \in Row /\ Written(t).state = journal[t].state /\ Written(t).bytes = "replacement"
        /\ Written(t).truth = "pending" /\ Written(t).replaced = TRUE
    BY <1>1, <2>1, <2>2 DEF Row
  <2>4. journal[t].bytes = "result" /\ journal[t].truth = "failed"
    BY <1>2 DEF Inv, QueueOK, Refused
  <2> QED
    BY <2>3, <2>4 DEF Advances
<1>3. CASE Replaces(t) /\ ~Refused(t)
  <2>1. Written(t) = journal[t]
    BY <1>3 DEF Written
  <2> QED
    BY <1>1, <2>1, SameTerminal
<1>4. CASE ~Replaces(t)
  <2>1. Written(t) = Recorded(journal[t], Attempt(t)) /\ Attempt(t) \in Bytes
    BY <1>4 DEF Written, Attempt, Bytes
  <2> QED
    BY <2>1, RecordedOK
<1> QED
  BY <1>2, <1>3, <1>4

-----------------------------------------------------------------------------
(* What a step leaves alone *)

LEMMA KeepTruth ==
  ASSUME Inv, UNCHANGED <<journal, receipt, refused>> PROVE RowsOK' /\ OneTruth'
BY DEF Inv, RowsOK, OneTruth

LEMMA KeepWay == ASSUME Inv, UNCHANGED <<outbox, batch>> PROVE Distinct'
BY DEF Inv, Distinct, Range, IsInjective

LEMMA KeepFlow == ASSUME Inv, UNCHANGED <<outbox, batch, journal>> PROVE FlowOK'
BY DEF Inv, FlowOK, Durable, Range

LEMMA KeepCloud == ASSUME Inv, UNCHANGED <<receipt, refused, batch, drain>> PROVE CloudOK'
BY DEF Inv, CloudOK

LEMMA KeepWork == ASSUME Inv, UNCHANGED <<journal, work, runs>> PROVE WorkOK'
BY DEF Inv, WorkOK

\* A task gets an entry only when it does not run.
LEMMA KeepRuns ==
  ASSUME Inv, UNCHANGED <<work, runs>>,
         \A t \in Task : queue'[t].pc # "none" => queue[t].pc # "none" \/ work[t] = "idle"
  PROVE  RunsOnce'
BY DEF Inv, RunsOnce, Pending

LEMMA KeepQueue ==
  ASSUME Inv, UNCHANGED journal,
         \A t \in Task : queue'[t].bytes = "replacement" => queue[t].bytes = "replacement"
  PROVE  QueueOK'
BY DEF Inv, QueueOK, Replaces

LEMMA KeepRest ==
  ASSUME Inv, UNCHANGED <<phase, session, outbox, batch, drain>>,
         \A t \in Task : queue'[t].pc # "none" => queue[t].pc # "none" \/ phase # "down"
  PROVE  RestOK'
BY DEF Inv, RestOK, Pending

\* Envelopes that stay durable.
LEMMA StayDurable ==
  ASSUME Inv, \A e \in Envelope : Durable(e) => Durable(e)',
         NEW e \in Range(outbox) \union Range(batch)
  PROVE  e \in Envelope /\ Durable(e)'
<1>1. e \in Envelope
  BY RangeOf DEF Inv, TypeOK
<1> QED
  BY <1>1 DEF Inv, FlowOK

\* The envelope at a place of the batch.
LEMMA BatchElement ==
  ASSUME Inv, NEW i \in 1 .. Len(batch)
  PROVE  batch[i] \in Envelope /\ Durable(batch[i]) /\ i + 1 \in 1 .. MaxBatch + 1
<1>1. batch \in Seq(Envelope) /\ Len(batch) \in Nat /\ Len(batch) <= MaxBatch
  BY DEF Inv, TypeOK
<1>2. batch[i] \in Envelope /\ batch[i] \in Range(batch)
  BY <1>1, RangeOf
<1>3. i + 1 \in 1 .. MaxBatch + 1
  BY <1>1, TerminalsAssumption
<1> QED
  BY <1>2, <1>3 DEF Inv, FlowOK

-----------------------------------------------------------------------------
(* The commit queue *)

LEMMA PrepareStep == ASSUME Inv, NEW t \in Task, Prepare(t) PROVE Inv'
<1>1. UNCHANGED <<journal, acked, phase, work, timer, session, outbox, batch, drain, receipt, refused, runs, faults>>
  BY DEF Prepare, local, conn, cloud
<1>2. queue \in [Task -> Entry] /\ queue[t] \in Entry /\ queue[t].pc = "prepare"
  BY DEF Inv, TypeOK, Prepare
<1>3. PICK q \in Entry : /\ queue' = [queue EXCEPT ![t] = q]
                         /\ q.bytes = "replacement" => queue[t].bytes = "replacement"
  <2>1. CASE queue' = [queue EXCEPT ![t] = NoEntry]
    BY <2>1, NoEntryOK DEF NoBytes
  <2>2. CASE queue' = [queue EXCEPT ![t].pc = "commit", ![t].ready = TRUE]
    <3> DEFINE q == [queue[t] EXCEPT !.pc = "commit", !.ready = TRUE]
    <3>1. queue' = [queue EXCEPT ![t] = q]
      BY <1>2, <2>2
    <3>2. q \in Entry /\ q.bytes = queue[t].bytes
      BY <1>2, EntryUpdate
    <3> QED
      BY <3>1, <3>2
  <2> QED
    BY <2>1, <2>2 DEF Prepare
<1>4. queue' \in [Task -> Entry] /\ \A s \in Task : queue'[s] = IF s = t THEN q ELSE queue[s]
  BY <1>2, <1>3
<1>5. TypeOK'
  BY <1>1, <1>4 DEF Inv, TypeOK
<1>6. \A s \in Task : /\ queue'[s].pc # "none" => queue[s].pc # "none"
                      /\ queue'[s].bytes = "replacement" => queue[s].bytes = "replacement"
  BY <1>2, <1>3, <1>4
<1> QED
  BY <1>1, <1>5, <1>6, KeepTruth, KeepWay, KeepFlow, KeepCloud, KeepWork, KeepRuns, KeepQueue, KeepRest DEF Inv

\* An entry that failed waits.
LEMMA FailedQueue ==
  ASSUME Inv, NEW t \in Task, Failed(t), queue[t].pc # "none"
  PROVE  /\ queue' \in [Task -> Entry] /\ timer' \in BOOLEAN
         /\ \A s \in Task : /\ queue'[s].pc # "none" => queue[s].pc # "none"
                            /\ queue'[s].bytes = "replacement" => queue[s].bytes = "replacement"
<1>1. queue \in [Task -> Entry] /\ queue[t] \in Entry /\ timer \in BOOLEAN
  BY DEF Inv, TypeOK
<1> DEFINE q == [queue[t] EXCEPT !.pc = "wait"]
<1>2. queue' = [queue EXCEPT ![t] = q]
  BY <1>1 DEF Failed
<1>3. q \in Entry /\ q.bytes = queue[t].bytes
  BY <1>1 DEF Entry
<1>4. timer' \in BOOLEAN
  BY DEF Failed
<1> HIDE DEF q
<1> QED
  BY <1>1, <1>2, <1>3, <1>4

LEMMA PrepareFailsStep == ASSUME Inv, NEW t \in Task, PrepareFails(t) PROVE Inv'
<1>1. UNCHANGED <<journal, acked, phase, work, session, outbox, batch, drain, receipt, refused, runs>>
  BY DEF PrepareFails, local, conn, cloud
<1>2. /\ queue' \in [Task -> Entry] /\ timer' \in BOOLEAN
      /\ \A s \in Task : /\ queue'[s].pc # "none" => queue[s].pc # "none"
                         /\ queue'[s].bytes = "replacement" => queue[s].bytes = "replacement"
  BY FailedQueue DEF PrepareFails
<1>3. faults' \in 0 .. MaxFaults
  BY FaultType DEF Inv, PrepareFails
<1>4. TypeOK'
  BY <1>1, <1>2, <1>3 DEF Inv, TypeOK
<1> QED
  BY <1>1, <1>2, <1>4, KeepTruth, KeepWay, KeepFlow, KeepCloud, KeepWork, KeepRuns, KeepQueue, KeepRest DEF Inv

\* A row is written for a task that has an entry, and does not run.
LEMMA WriteOK ==
  ASSUME Inv, NEW t \in Task, queue[t].pc # "none", journal' = [journal EXCEPT ![t] = Written(t)],
         UNCHANGED <<receipt, refused, work, runs>>,
         \A s \in Task : queue'[s].bytes = "replacement" => queue[s].bytes = "replacement"
  PROVE  /\ journal' \in [Task -> Row] /\ RowsOK' /\ OneTruth' /\ QueueOK' /\ WorkOK'
         /\ \A e \in Envelope : Durable(e) => Durable(e)'
<1>1. Written(t) \in Row /\ Advances(t, Written(t)) /\ Written(t).state = journal[t].state
  BY WrittenOK
<1>2. journal \in [Task -> Row]
  BY DEF Inv, TypeOK
<1>3. journal' \in [Task -> Row] /\ \A s \in Task : journal'[s] = IF s = t THEN Written(t) ELSE journal[s]
  BY <1>1, <1>2
<1>4. \A s \in Task : Advances(s, journal'[s])
  BY <1>1, <1>3, SameTerminal
<1>5. /\ RowsOK' /\ OneTruth' /\ \A e \in Envelope : Durable(e) => Durable(e)'
      /\ \A s \in Task : journal[s].bytes \in {"result", "replacement"} =>
                           journal'[s].bytes \in {"result", "replacement"}
  BY <1>3, <1>4, AdvancesOK
<1>6. QueueOK'
  BY <1>5 DEF Inv, QueueOK, Replaces
<1>7. work[t] = "idle"
  BY DEF Inv, RunsOnce, Pending
<1>8. WorkOK'
  BY <1>1, <1>3, <1>7 DEF Inv, WorkOK
<1> QED
  BY <1>3, <1>5, <1>6, <1>8

\* The outbox after a send.
LEMMA SentOK ==
  ASSUME Inv, NEW e \in Envelope
  PROVE  /\ Sent(e) \in Seq(Envelope) /\ IsInjective(Sent(e))
         /\ Range(Sent(e)) \subseteq Range(outbox) \union {e}
         /\ Range(batch) \intersect Range(Sent(e)) = {}
<1>1. outbox \in Seq(Envelope) /\ IsInjective(outbox) /\ Range(batch) \intersect Range(outbox) = {}
  BY DEF Inv, TypeOK, Distinct
<1>2. CASE e \in Range(outbox) \union Range(batch)
  BY <1>1, <1>2 DEF Sent
<1>3. CASE e \notin Range(outbox) \union Range(batch)
  <2>1. Sent(e) = Append(outbox, e)
    BY <1>3 DEF Sent
  <2>2. /\ Append(outbox, e) \in Seq(Envelope) /\ IsInjective(Append(outbox, e))
        /\ Range(Append(outbox, e)) = Range(outbox) \union {e}
    BY <1>1, <1>3, RangeAppend
  <2> QED
    BY <1>1, <1>3, <2>1, <2>2
<1> QED
  BY <1>2, <1>3

LEMMA CommitStep == ASSUME Inv, NEW t \in Task, Commit(t) PROVE Inv'
<1>1. /\ UNCHANGED <<acked, phase, work, timer, session, batch, drain, receipt, refused, runs, faults>>
      /\ queue[t].pc = "commit" /\ journal' = [journal EXCEPT ![t] = Written(t)]
      /\ queue' = [queue EXCEPT ![t] = NoEntry]
  BY DEF Commit, cloud
<1>2. queue' \in [Task -> Entry] /\ \A s \in Task : queue'[s] = IF s = t THEN NoEntry ELSE queue[s]
  BY <1>1, NoEntryOK DEF Inv, TypeOK
<1>3. \A s \in Task : /\ queue'[s].pc # "none" => queue[s].pc # "none"
                      /\ queue'[s].bytes = "replacement" => queue[s].bytes = "replacement"
  BY <1>2, NoEntryOK DEF NoBytes
<1>4. /\ journal' \in [Task -> Row] /\ RowsOK' /\ OneTruth' /\ QueueOK' /\ WorkOK'
      /\ \A e \in Envelope : Durable(e) => Durable(e)'
  BY <1>1, <1>3, WriteOK
<1>a. PICK o : o = <<t, Written(t).bytes>>
  OBVIOUS
<1>5. Written(t).truth = "pending" => o \in Envelope /\ Durable(o)'
  <2>1. ASSUME Written(t).truth = "pending" PROVE o \in Envelope /\ Durable(o)'
    <3>1. journal'[t] = Written(t) /\ Written(t) \in Row
      BY <1>1, WrittenOK DEF Inv, TypeOK
    <3>2. Written(t).bytes # NoBytes
      BY <1>4, <2>1, <3>1 DEF RowsOK
    <3>3. Written(t).bytes \in Bytes
      BY <3>1, <3>2, RowFields
    <3>4. o[1] = t /\ o[2] = Written(t).bytes /\ o \in Envelope
      BY <1>a, <3>3 DEF Envelope
    <3> QED
      BY <3>1, <3>4 DEF Durable
  <2> QED
    BY <2>1
<1>6. /\ outbox' \in Seq(Envelope) /\ IsInjective(outbox') /\ Range(batch) \intersect Range(outbox') = {}
      /\ \A e \in Range(outbox') : e \in Range(outbox) \/ (e \in Envelope /\ Durable(e)')
      /\ phase = "stopped" => outbox' = outbox
  <2>1. CASE phase # "stopped" /\ Written(t).truth = "pending"
    <3>1. outbox' = Sent(o)
      BY <1>a, <2>1 DEF Commit, Outgoing
    <3> QED
      BY <1>5, <2>1, <3>1, SentOK
  <2>2. CASE ~(phase # "stopped" /\ Written(t).truth = "pending")
    <3>1. outbox' = outbox
      BY <2>2 DEF Commit
    <3> QED
      BY <3>1 DEF Inv, TypeOK, Distinct
  <2> QED
    BY <2>1, <2>2
<1>7. TypeOK'
  BY <1>1, <1>2, <1>4, <1>6 DEF Inv, TypeOK
<1>8. Distinct'
  BY <1>1, <1>6 DEF Inv, Distinct, Range, IsInjective
<1>9. FlowOK'
  <2>1. ASSUME NEW e \in Range(outbox') \union Range(batch') PROVE Durable(e)'
    <3>1. Range(batch') = Range(batch)
      BY <1>1
    <3> QED
      BY <1>4, <1>6, <2>1, <3>1, StayDurable
  <2> QED
    BY <2>1 DEF FlowOK, Range
<1>10. RestOK'
  BY <1>1, <1>3, <1>6 DEF Inv, RestOK, Pending
<1> QED
  BY <1>1, <1>3, <1>4, <1>7, <1>8, <1>9, <1>10, KeepCloud, KeepRuns DEF Inv

LEMMA CommitFailsStep == ASSUME Inv, NEW t \in Task, CommitFails(t) PROVE Inv'
<1>1. /\ UNCHANGED <<acked, phase, work, session, outbox, batch, drain, receipt, refused, runs>>
      /\ queue[t].pc = "commit" /\ Failed(t) /\ Fault
      /\ journal' = journal \/ journal' = [journal EXCEPT ![t] = Written(t)]
  BY DEF CommitFails, conn, cloud
<1>2. /\ queue' \in [Task -> Entry] /\ timer' \in BOOLEAN
      /\ \A s \in Task : /\ queue'[s].pc # "none" => queue[s].pc # "none"
                         /\ queue'[s].bytes = "replacement" => queue[s].bytes = "replacement"
  BY <1>1, FailedQueue
<1>3. faults' \in 0 .. MaxFaults
  BY <1>1, FaultType DEF Inv
<1>4. /\ journal' \in [Task -> Row] /\ RowsOK' /\ OneTruth' /\ QueueOK' /\ WorkOK' /\ FlowOK'
  <2>1. CASE journal' = journal
    BY <1>1, <1>2, <2>1, KeepTruth, KeepQueue, KeepWork, KeepFlow DEF Inv, TypeOK
  <2>2. CASE journal' = [journal EXCEPT ![t] = Written(t)]
    <3>1. /\ journal' \in [Task -> Row] /\ RowsOK' /\ OneTruth' /\ QueueOK' /\ WorkOK'
          /\ \A e \in Envelope : Durable(e) => Durable(e)'
      BY <1>1, <1>2, <2>2, WriteOK
    <3>2. \A e \in Range(outbox) \union Range(batch) : Durable(e)'
      BY <3>1, StayDurable
    <3>3. FlowOK'
      BY <1>1, <3>2 DEF FlowOK, Range
    <3> QED
      BY <3>1, <3>3
  <2> QED
    BY <1>1, <2>1, <2>2
<1>5. TypeOK'
  BY <1>1, <1>2, <1>3, <1>4 DEF Inv, TypeOK
<1> QED
  BY <1>1, <1>2, <1>4, <1>5, KeepWay, KeepCloud, KeepRuns, KeepRest DEF Inv

\* Every entry is attempted.
LEMMA AttemptedQueue ==
  ASSUME Inv, queue' = [t \in Task |-> Attempted(t)]
  PROVE  /\ queue' \in [Task -> Entry]
         /\ \A t \in Task : /\ queue'[t].pc # "none" => queue[t].pc # "none"
                            /\ queue'[t].bytes = "replacement" => queue[t].bytes = "replacement"
BY AttemptedOK DEF Inv

LEMMA RetryTimerStep == ASSUME Inv, RetryTimer PROVE Inv'
<1>1. /\ UNCHANGED <<journal, acked, phase, work, session, outbox, batch, drain, receipt, refused, runs, faults>>
      /\ queue' = [t \in Task |-> Attempted(t)] /\ timer' = FALSE
  BY DEF RetryTimer, local, conn, cloud
<1>2. /\ queue' \in [Task -> Entry]
      /\ \A t \in Task : /\ queue'[t].pc # "none" => queue[t].pc # "none"
                         /\ queue'[t].bytes = "replacement" => queue[t].bytes = "replacement"
  BY <1>1, AttemptedQueue
<1>3. TypeOK'
  BY <1>1, <1>2 DEF Inv, TypeOK
<1> QED
  BY <1>1, <1>2, <1>3, KeepTruth, KeepWay, KeepFlow, KeepCloud, KeepWork, KeepRuns, KeepQueue, KeepRest DEF Inv

-----------------------------------------------------------------------------
(* Offers and the runner *)

\* A row whose state alone changes.
LEMMA StateOK ==
  ASSUME Inv, NEW t \in Task, NEW s \in {"none", "received", "admitted"},
         journal' = [journal EXCEPT ![t] = [journal[t] EXCEPT !.state = s]],
         UNCHANGED <<receipt, refused, outbox, batch>>
  PROVE  /\ journal' \in [Task -> Row] /\ RowsOK' /\ OneTruth' /\ FlowOK'
         /\ \A u \in Task : /\ journal'[u].bytes = journal[u].bytes
                            /\ journal'[u].state = IF u = t THEN s ELSE journal[u].state
<1> DEFINE x == [journal[t] EXCEPT !.state = s]
<1>1. journal \in [Task -> Row] /\ journal[t] \in Row
  BY DEF Inv, TypeOK
<1>2. /\ x \in Row /\ x.state = s /\ x.bytes = journal[t].bytes
      /\ x.truth = journal[t].truth /\ x.replaced = journal[t].replaced
  BY <1>1 DEF Row
<1>3. journal' = [journal EXCEPT ![t] = x]
  OBVIOUS
<1> HIDE DEF x
<1>4. journal' \in [Task -> Row] /\ \A u \in Task : journal'[u] = IF u = t THEN x ELSE journal[u]
  BY <1>1, <1>2, <1>3
<1>5. \A u \in Task : Advances(u, journal'[u])
  BY <1>2, <1>4, SameTerminal
<1>6. RowsOK' /\ OneTruth' /\ \A e \in Envelope : Durable(e) => Durable(e)'
  BY <1>4, <1>5, AdvancesOK
<1>7. \A e \in Range(outbox) \union Range(batch) : Durable(e)'
  BY <1>6, StayDurable
<1>8. FlowOK'
  BY <1>7 DEF FlowOK, Range
<1> QED
  BY <1>2, <1>4, <1>6, <1>8

LEMMA OfferStep == ASSUME Inv, NEW t \in Task, Offer(t) PROVE Inv'
<1>1. /\ UNCHANGED <<acked, phase, timer, session, outbox, batch, drain, receipt, refused, runs, faults>>
      /\ phase = "up" /\ work[t] = "idle"
  BY DEF Offer, conn, cloud
<1>2. journal \in [Task -> Row] /\ journal[t] \in Row /\ queue \in [Task -> Entry] /\ queue[t] \in Entry
      /\ work \in [Task -> {"idle", "offered", "running"}]
  BY DEF Inv, TypeOK
<1>3. PICK s : s = IF journal[t].state = "none" THEN "received" ELSE journal[t].state
  OBVIOUS
<1>4. /\ journal' = [journal EXCEPT ![t] = [journal[t] EXCEPT !.state = s]]
      /\ s \in {"none", "received", "admitted"} /\ (s = "admitted" <=> journal[t].state = "admitted")
  <2>1. journal[t].state \in {"none", "received", "admitted"}
    BY <1>2, RowFields
  <2>2. journal' = [journal EXCEPT ![t] = [journal[t] EXCEPT !.state = s]]
    BY <1>2, <1>3 DEF Offer
  <2> QED
    BY <1>3, <2>1, <2>2
<1>5. /\ journal' \in [Task -> Row] /\ RowsOK' /\ OneTruth' /\ FlowOK'
      /\ \A u \in Task : /\ journal'[u].bytes = journal[u].bytes
                         /\ journal'[u].state = IF u = t THEN s ELSE journal[u].state
  BY <1>1, <1>4, StateOK
<1>6. /\ queue' \in [Task -> Entry]
      /\ \A u \in Task : /\ queue'[u].pc # "none" <=> queue[u].pc # "none"
                         /\ queue'[u].bytes = queue[u].bytes
  <2>1. CASE queue' = queue
    BY <1>2, <2>1
  <2>2. CASE queue' = [queue EXCEPT ![t] = Attempted(t)]
    <3>1. Attempted(t) \in Entry /\ Attempted(t).bytes = queue[t].bytes
          /\ (Attempted(t).pc = "none" <=> queue[t].pc = "none")
      BY AttemptedOK DEF Inv
    <3> QED
      BY <1>2, <2>2, <3>1
  <2> QED
    BY <2>1, <2>2 DEF Offer
<1>7. \/ work' = work
      \/ work' = [work EXCEPT ![t] = "offered"] /\ Fresh(t)
  BY DEF Offer
<1>8. work' \in [Task -> {"idle", "offered", "running"}]
  BY <1>2, <1>7
<1>9. TypeOK'
  BY <1>1, <1>5, <1>6, <1>8 DEF Inv, TypeOK
<1>10. QueueOK'
  BY <1>5, <1>6 DEF Inv, QueueOK, Replaces
<1>11. WorkOK'
  <2>1. ASSUME NEW u \in Task
        PROVE  /\ journal'[u].state # "admitted" => runs'[u] = 0
               /\ work'[u] = "offered" => journal'[u].state # "admitted"
               /\ work'[u] # "idle" => journal'[u].bytes \in {NoBytes, "interrupted"}
    <3>1. /\ journal[u].state # "admitted" => runs[u] = 0
          /\ work[u] = "offered" => journal[u].state # "admitted"
          /\ work[u] # "idle" => journal[u].bytes \in {NoBytes, "interrupted"}
      BY DEF Inv, WorkOK
    <3>2. journal'[u].state = "admitted" <=> journal[u].state = "admitted"
      BY <1>4, <1>5
    <3>3. CASE work'[u] = work[u]
      BY <1>1, <1>5, <3>1, <3>2, <3>3
    <3>4. CASE u = t /\ Fresh(t)
      BY <1>1, <1>5, <3>1, <3>2, <3>4 DEF Fresh
    <3> QED
      BY <1>2, <1>7, <3>3, <3>4
  <2> QED
    BY <2>1 DEF WorkOK
<1>12. RunsOnce'
  <2>1. \A u \in Task : work'[u] # "idle" => queue'[u].pc = "none"
    BY <1>2, <1>6, <1>7 DEF Inv, RunsOnce, Pending, Fresh
  <2> QED
    BY <1>1, <2>1 DEF Inv, RunsOnce, Pending
<1> QED
  BY <1>1, <1>5, <1>6, <1>9, <1>10, <1>11, <1>12, KeepWay, KeepCloud, KeepRest DEF Inv

LEMMA AdmitStep == ASSUME Inv, NEW t \in Task, Admit(t) PROVE Inv'
<1>1. /\ UNCHANGED <<acked, phase, queue, timer, session, outbox, batch, drain, receipt, refused, faults>>
      /\ work[t] = "offered" /\ work' = [work EXCEPT ![t] = "running"] /\ runs' = [runs EXCEPT ![t] = @ + 1]
  BY DEF Admit, conn, cloud
<1>2. /\ journal \in [Task -> Row] /\ work \in [Task -> {"idle", "offered", "running"}] /\ runs \in [Task -> Nat]
  BY DEF Inv, TypeOK
<1>3. journal' = [journal EXCEPT ![t] = [journal[t] EXCEPT !.state = "admitted"]]
  BY <1>2 DEF Admit
<1>4. /\ journal' \in [Task -> Row] /\ RowsOK' /\ OneTruth' /\ FlowOK'
      /\ \A u \in Task : /\ journal'[u].bytes = journal[u].bytes
                         /\ journal'[u].state = IF u = t THEN "admitted" ELSE journal[u].state
  BY <1>1, <1>3, StateOK
<1>5. runs[t] = 0
  BY <1>1 DEF Inv, WorkOK
<1>6. /\ work' \in [Task -> {"idle", "offered", "running"}] /\ runs' \in [Task -> Nat]
      /\ \A u \in Task : /\ work'[u] = IF u = t THEN "running" ELSE work[u]
                         /\ runs'[u] = IF u = t THEN 1 ELSE runs[u]
  BY <1>1, <1>2, <1>5
<1>7. TypeOK'
  BY <1>1, <1>4, <1>6 DEF Inv, TypeOK
<1>8. QueueOK'
  BY <1>1, <1>4 DEF Inv, QueueOK, Replaces
<1>9. WorkOK'
  BY <1>1, <1>4, <1>6 DEF Inv, WorkOK
<1>10. RunsOnce'
  BY <1>1, <1>6 DEF Inv, RunsOnce, Pending
<1> QED
  BY <1>1, <1>4, <1>7, <1>8, <1>9, <1>10, KeepWay, KeepCloud, KeepRest DEF Inv

LEMMA FinishStep == ASSUME Inv, NEW t \in Task, Finish(t) PROVE Inv'
<1>1. /\ UNCHANGED <<journal, acked, phase, timer, session, outbox, batch, drain, receipt, refused, runs, faults>>
      /\ phase # "down" /\ work' = [work EXCEPT ![t] = "idle"]
      /\ queue' = [queue EXCEPT ![t] = Enqueued(t, "result")]
  BY DEF Finish, local, conn, cloud
<1>2. work \in [Task -> {"idle", "offered", "running"}] /\ queue \in [Task -> Entry]
  BY DEF Inv, TypeOK
<1>3. /\ Enqueued(t, "result") \in Entry
      /\ Enqueued(t, "result").bytes = "replacement" => queue[t].bytes = "replacement"
  BY EnqueuedOK DEF Inv
<1>4. /\ work' \in [Task -> {"idle", "offered", "running"}] /\ queue' \in [Task -> Entry]
      /\ \A u \in Task : /\ work'[u] = IF u = t THEN "idle" ELSE work[u]
                         /\ queue'[u] = IF u = t THEN Enqueued(t, "result") ELSE queue[u]
  BY <1>1, <1>2, <1>3
<1>5. TypeOK'
  BY <1>1, <1>4 DEF Inv, TypeOK
<1>6. \A u \in Task : queue'[u].bytes = "replacement" => queue[u].bytes = "replacement"
  BY <1>3, <1>4
<1>7. WorkOK'
  BY <1>1, <1>4 DEF Inv, WorkOK
<1>8. RunsOnce'
  BY <1>1, <1>4 DEF Inv, RunsOnce, Pending
<1> QED
  BY <1>1, <1>5, <1>6, <1>7, <1>8, KeepTruth, KeepQueue, KeepWay, KeepFlow, KeepCloud, KeepRest DEF Inv

LEMMA AckOfferStep == ASSUME Inv, NEW t \in Task, AckOffer(t) PROVE Inv'
<1>1. /\ UNCHANGED <<journal, phase, work, queue, timer, session, outbox, batch, drain, receipt, refused, runs, faults>>
      /\ acked' = acked \union {t}
  BY DEF AckOffer, conn, cloud
<1>2. TypeOK'
  BY <1>1 DEF Inv, TypeOK
<1> QED
  BY <1>1, <1>2, KeepTruth, KeepQueue, KeepWay, KeepFlow, KeepCloud, KeepWork, KeepRuns, KeepRest DEF Inv

-----------------------------------------------------------------------------
(* The connection *)

LEMMA SessionOpenStep == ASSUME Inv, SessionOpen PROVE Inv'
<1>1. /\ UNCHANGED <<journal, acked, phase, work, queue, timer, outbox, batch, receipt, refused, runs, faults>>
      /\ phase \in {"up", "stopping"} /\ session' = "open" /\ drain' = [drain EXCEPT !.same = FALSE]
  BY DEF SessionOpen, local, cloud
<1>2. drain \in Drain
  BY DEF Inv, TypeOK
<1>3. drain' \in Drain /\ drain'.pc = drain.pc /\ drain'.next = drain.next
  BY <1>1, <1>2 DEF Drain
<1>4. TypeOK'
  BY <1>1, <1>3 DEF Inv, TypeOK
<1>5. CloudOK'
  BY <1>1, <1>3 DEF Inv, CloudOK
<1>6. RestOK'
  BY <1>1, <1>3 DEF Inv, RestOK, Pending
<1> QED
  BY <1>1, <1>4, <1>5, <1>6, KeepTruth, KeepQueue, KeepWay, KeepFlow, KeepWork, KeepRuns DEF Inv

LEMMA SessionBreakStep == ASSUME Inv, SessionBreak PROVE Inv'
<1>1. /\ UNCHANGED <<journal, acked, phase, work, queue, timer, outbox, batch, drain, receipt, refused, runs>>
      /\ session' = "connecting" /\ Fault
  BY DEF SessionBreak, local, cloud
<1>2. faults' \in 0 .. MaxFaults
  BY <1>1, FaultType DEF Inv
<1>3. TypeOK'
  BY <1>1, <1>2 DEF Inv, TypeOK
<1>4. RestOK'
  BY <1>1 DEF Inv, RestOK, Pending
<1> QED
  BY <1>1, <1>3, <1>4, KeepTruth, KeepQueue, KeepWay, KeepFlow, KeepCloud, KeepWork, KeepRuns DEF Inv

\* The same envelopes in other places.
LEMMA Regroup ==
  ASSUME Inv, UNCHANGED journal,
         Range(outbox') \union Range(batch') \subseteq Range(outbox) \union Range(batch)
  PROVE  FlowOK'
BY DEF Inv, FlowOK, Durable, Range

\* Without a batch there is nothing to settle.
LEMMA EmptyBatch == ASSUME Inv, UNCHANGED <<receipt, refused>>, batch' = <<>> PROVE CloudOK'
<1>1. Len(batch') = 0
  BY DEF Inv
<1>2. 1 .. Len(batch') = {}
  BY <1>1
<1> QED
  BY <1>2 DEF Inv, CloudOK

LEMMA DrainTakeStep == ASSUME Inv, DrainTake PROVE Inv'
<1> DEFINE n == BatchSize
<1>1. /\ UNCHANGED <<journal, acked, phase, work, queue, timer, session, receipt, refused, runs, faults>>
      /\ session = "open" /\ drain.pc = "idle"
      /\ batch' = SubSeq(outbox, 1, n) /\ outbox' = SubSeq(outbox, n + 1, Len(outbox))
      /\ drain' = [pc |-> "post", next |-> 1, same |-> TRUE]
  BY DEF DrainTake, local, cloud
<1>2. outbox \in Seq(Envelope) /\ IsInjective(outbox) /\ Len(outbox) \in Nat
  BY DEF Inv, TypeOK, Distinct
<1>3. n \in 0 .. Len(outbox) /\ n <= MaxBatch
  BY <1>2, TerminalsAssumption DEF BatchSize
<1> HIDE DEF n
<1>4. /\ batch' \in Seq(Envelope) /\ outbox' \in Seq(Envelope) /\ Len(batch') = n
      /\ Range(batch') \union Range(outbox') \subseteq Range(outbox) /\ Range(batch') \intersect Range(outbox') = {}
      /\ IsInjective(batch') /\ IsInjective(outbox')
  BY <1>1, <1>2, <1>3, RangeCut
<1>5. drain' \in Drain /\ drain'.pc = "post" /\ drain'.next = 1
  BY <1>1, TerminalsAssumption DEF Drain
<1>6. TypeOK'
  BY <1>1, <1>3, <1>4, <1>5 DEF Inv, TypeOK
<1>7. Distinct'
  BY <1>4 DEF Distinct, Range, IsInjective
<1>8. FlowOK'
  BY <1>1, <1>4, Regroup
<1>9. CloudOK'
  BY <1>1, <1>5 DEF Inv, CloudOK
<1>10. RestOK'
  BY <1>1, <1>5 DEF Inv, RestOK, Pending
<1> QED
  BY <1>1, <1>6, <1>7, <1>8, <1>9, <1>10, KeepTruth, KeepQueue, KeepWork, KeepRuns DEF Inv

\* What is refused is never what is recorded, and a receipt is the journal's.
LEMMA CloudReceivesStep == ASSUME Inv, CloudReceives PROVE Inv'
<1>1. PICK i : i = drain.next
  OBVIOUS
<1>2. PICK e : e = batch[i]
  OBVIOUS
<1>3. PICK t : t = e[1]
  OBVIOUS
<1>4. /\ UNCHANGED <<journal, acked, phase, work, queue, timer, session, outbox, batch, runs, faults>>
      /\ drain.pc = "post" /\ i <= Len(batch)
      /\ drain' = [drain EXCEPT !.next = i + 1]
      /\ \/ e \notin refused /\ receipt' = FirstReceipt(e) /\ refused' = refused
         \/ receipt[t] # e[2] /\ refused' = refused \union {e} /\ receipt' = receipt
  BY <1>1, <1>2, <1>3 DEF CloudReceives, local
<1>5. drain \in Drain /\ batch \in Seq(Envelope) /\ receipt \in [Task -> Bytes \union {NoBytes}]
      /\ refused \subseteq Envelope
  BY DEF Inv, TypeOK
<1>6. i \in 1 .. Len(batch)
  BY <1>1, <1>4, <1>5, TerminalsAssumption DEF Drain
<1>7. e \in Envelope /\ Durable(e) /\ i + 1 \in 1 .. MaxBatch + 1
  BY <1>2, <1>6, BatchElement
<1>8. t \in Task /\ e[2] \in Bytes /\ e = <<t, e[2]>>
  BY <1>3, <1>7, EnvelopeParts
<1>9. drain' \in Drain /\ drain'.pc = "post" /\ drain'.next = i + 1
  BY <1>4, <1>5, <1>7 DEF Drain
<1>10. /\ receipt' \in [Task -> Bytes \union {NoBytes}] /\ refused' \subseteq Envelope
       /\ refused \subseteq refused'
       /\ \A u \in Task : receipt[u] # NoBytes => receipt'[u] = receipt[u]
       /\ \A u \in Task : u # t => receipt'[u] = receipt[u]
       /\ e \in refused' \/ receipt'[t] # NoBytes
       /\ receipt'[t] # receipt[t] => receipt[t] = NoBytes /\ receipt'[t] = e[2] /\ e \notin refused /\ refused' = refused
       /\ e \in refused' => receipt'[t] # e[2]
  <2>1. CASE e \notin refused /\ receipt' = FirstReceipt(e) /\ refused' = refused
    BY <1>3, <1>5, <1>8, <2>1 DEF FirstReceipt, Bytes, NoBytes
  <2>2. CASE receipt[t] # e[2] /\ refused' = refused \union {e} /\ receipt' = receipt
    BY <1>5, <1>7, <2>2
  <2> QED
    BY <1>4, <2>1, <2>2
<1>11. TypeOK'
  BY <1>4, <1>9, <1>10 DEF Inv, TypeOK
<1>12. RowsOK'
  BY <1>4, <1>10 DEF Inv, RowsOK
<1>13. CloudOK'
  <2>1. ASSUME NEW f \in refused' PROVE receipt'[f[1]] # f[2]
    <3>1. f \in Envelope /\ f[1] \in Task /\ f[2] \in Bytes /\ f = <<f[1], f[2]>>
      BY <1>10, EnvelopeParts
    <3>2. CASE f = e
      BY <1>3, <1>10, <3>2
    <3>3. CASE f # e
      <4>1. f \in refused
        BY <1>4, <3>3
      <4>2. receipt[f[1]] # f[2]
        BY <4>1 DEF Inv, CloudOK
      <4>3. f[1] = t => f[2] # e[2]
        BY <1>8, <3>1, <3>3
      <4> QED
        BY <1>10, <3>1, <4>2, <4>3
    <3> QED
      BY <3>2, <3>3
  <2>2. ASSUME NEW j \in 1 .. Len(batch'), drain'.pc = "settle" \/ (drain'.pc = "post" /\ j < drain'.next)
        PROVE  batch'[j] \in refused' \/ receipt'[batch'[j][1]] # NoBytes
    <3>1. j \in 1 .. Len(batch) /\ batch'[j] = batch[j] /\ j < i + 1
      BY <1>4, <1>9, <2>2
    <3>2. CASE j = i
      BY <1>2, <1>3, <1>10, <3>1, <3>2
    <3>3. CASE j # i
      <4>1. j < i
        BY <1>6, <3>1, <3>3
      <4>2. batch[j] \in refused \/ receipt[batch[j][1]] # NoBytes
        BY <1>1, <1>4, <3>1, <4>1 DEF Inv, CloudOK
      <4>3. batch[j][1] \in Task
        BY <3>1, BatchElement, EnvelopeParts
      <4> QED
        BY <1>10, <3>1, <4>2, <4>3
    <3> QED
      BY <3>2, <3>3
  <2> QED
    BY <2>1, <2>2 DEF CloudOK
<1>14. OneTruth'
  <2>1. ASSUME NEW u \in Task
        PROVE  /\ journal[u].truth = "confirmed" => receipt'[u] = journal[u].bytes
               /\ receipt'[u] # NoBytes => receipt'[u] = journal[u].bytes
    <3>1. /\ journal[u].truth = "confirmed" => receipt[u] = journal[u].bytes
          /\ receipt[u] # NoBytes => receipt[u] = journal[u].bytes
      BY DEF Inv, OneTruth
    <3>2. journal[u].truth = "confirmed" => journal[u].bytes # NoBytes
      BY DEF Inv, RowsOK
    <3>3. CASE receipt'[u] = receipt[u]
      BY <3>1, <3>3
    <3>4. CASE receipt'[u] # receipt[u]
      <4>1. u = t /\ receipt[t] = NoBytes /\ receipt'[t] = e[2] /\ e \notin refused
        BY <1>10, <3>4
      <4>2. e[2] = journal[t].bytes \/ (journal[t].replaced /\ e[2] = "result")
        BY <1>3, <1>7 DEF Durable
      <4>3. ~(journal[t].replaced /\ e[2] = "result")
        BY <1>8, <4>1 DEF Inv, RowsOK
      <4> QED
        BY <3>1, <3>2, <4>1, <4>2, <4>3
    <3> QED
      BY <3>3, <3>4
  <2> QED
    BY <1>4, <2>1 DEF OneTruth
<1>15. RestOK'
  BY <1>4, <1>9 DEF Inv, RestOK, Pending
<1> QED
  BY <1>4, <1>11, <1>12, <1>13, <1>14, <1>15, KeepQueue, KeepWay, KeepFlow, KeepWork, KeepRuns DEF Inv

LEMMA AnsweredStep == ASSUME Inv, Answered PROVE Inv'
<1>1. /\ UNCHANGED <<journal, acked, phase, work, queue, timer, session, outbox, batch, receipt, refused, runs, faults>>
      /\ drain.pc = "post" /\ drain.next > Len(batch) /\ drain' = [drain EXCEPT !.pc = "settle", !.next = 1]
  BY DEF Answered, local, cloud
<1>2. drain \in Drain /\ batch \in Seq(Envelope)
  BY DEF Inv, TypeOK
<1>3. drain' \in Drain /\ drain'.pc = "settle" /\ drain.next \in Nat
  <2>1. 1 \in 1 .. MaxBatch + 1 /\ 1 .. MaxBatch + 1 \subseteq Nat
    BY TerminalsAssumption
  <2>2. drain.next \in 1 .. MaxBatch + 1
    BY <1>2 DEF Drain
  <2> QED
    BY <1>1, <1>2, <2>1, <2>2 DEF Drain
<1>4. TypeOK'
  BY <1>1, <1>3 DEF Inv, TypeOK
<1>5. CloudOK'
  <2>1. \A j \in 1 .. Len(batch) : j < drain.next
    BY <1>1, <1>2, <1>3
  <2>2. \A j \in 1 .. Len(batch) : batch[j] \in refused \/ receipt[batch[j][1]] # NoBytes
    BY <1>1, <2>1 DEF Inv, CloudOK
  <2> QED
    BY <1>1, <2>2 DEF Inv, CloudOK
<1>6. RestOK'
  BY <1>1, <1>3 DEF Inv, RestOK, Pending
<1> QED
  BY <1>1, <1>4, <1>5, <1>6, KeepTruth, KeepQueue, KeepWay, KeepFlow, KeepWork, KeepRuns DEF Inv

\* The batch goes back to the front of the outbox.
LEMMA RetainOK ==
  ASSUME Inv, Retain, UNCHANGED journal
  PROVE  /\ outbox' \in Seq(Envelope) /\ batch' \in Seq(Envelope) /\ Len(batch') <= MaxBatch
         /\ Distinct' /\ FlowOK' /\ batch' = <<>>
<1>1. /\ batch \in Seq(Envelope) /\ outbox \in Seq(Envelope) /\ IsInjective(batch) /\ IsInjective(outbox)
      /\ Range(batch) \intersect Range(outbox) = {}
  BY DEF Inv, TypeOK, Distinct
<1>2. outbox' = batch \o outbox /\ batch' = <<>>
  BY DEF Retain
<1>3. outbox' \in Seq(Envelope) /\ Range(outbox') = Range(batch) \union Range(outbox) /\ IsInjective(outbox')
  BY <1>1, <1>2, RangeConcat
<1>4. Range(batch') = {} /\ IsInjective(batch')
  BY <1>2, EmptyRange
<1>5. batch' \in Seq(Envelope) /\ Len(batch') <= MaxBatch
  BY <1>2, TerminalsAssumption
<1>6. Distinct'
  BY <1>3, <1>4 DEF Distinct, Range, IsInjective
<1>7. FlowOK'
  BY <1>3, <1>4, Regroup
<1> QED
  BY <1>2, <1>3, <1>5, <1>6, <1>7

LEMMA AnswerLostStep == ASSUME Inv, AnswerLost PROVE Inv'
<1>1. /\ UNCHANGED <<journal, acked, phase, work, queue, timer, receipt, refused, runs>>
      /\ drain.pc = "post" /\ Fault /\ Retain /\ drain' = NoDrain
      /\ session' \in {"connecting", session}
  BY DEF AnswerLost, local, cloud
<1>2. /\ outbox' \in Seq(Envelope) /\ batch' \in Seq(Envelope) /\ Len(batch') <= MaxBatch
      /\ Distinct' /\ FlowOK' /\ batch' = <<>>
  BY <1>1, RetainOK
<1>3. drain' \in Drain /\ drain'.pc = "idle"
  BY <1>1, NoDrainOK
<1>4. faults' \in 0 .. MaxFaults
  BY <1>1, FaultType DEF Inv
<1>5. session' \in {"connecting", "open"}
  BY <1>1 DEF Inv, TypeOK
<1>6. TypeOK'
  BY <1>1, <1>2, <1>3, <1>4, <1>5 DEF Inv, TypeOK
<1>7. CloudOK'
  BY <1>1, <1>2, EmptyBatch
<1>8. RestOK'
  BY <1>1, <1>2 DEF Inv, RestOK, Pending
<1> QED
  BY <1>1, <1>2, <1>6, <1>7, <1>8, KeepTruth, KeepQueue, KeepWork, KeepRuns DEF Inv

LEMMA SettleFailsStep == ASSUME Inv, SettleFails PROVE Inv'
<1>1. /\ UNCHANGED <<journal, acked, phase, work, queue, timer, session, receipt, refused, runs>>
      /\ drain.pc = "settle" /\ Fault /\ Retain /\ drain' = [NoDrain EXCEPT !.pc = "delay"]
  BY DEF SettleFails, local, cloud
<1>2. /\ outbox' \in Seq(Envelope) /\ batch' \in Seq(Envelope) /\ Len(batch') <= MaxBatch
      /\ Distinct' /\ FlowOK' /\ batch' = <<>>
  BY <1>1, RetainOK
<1>3. drain' \in Drain /\ drain'.pc = "delay"
  BY <1>1, NoDrainOK DEF Drain
<1>4. faults' \in 0 .. MaxFaults
  BY <1>1, FaultType DEF Inv
<1>5. TypeOK'
  BY <1>1, <1>2, <1>3, <1>4 DEF Inv, TypeOK
<1>6. CloudOK'
  BY <1>1, <1>2, EmptyBatch
<1>7. RestOK'
  BY <1>1, <1>2 DEF Inv, RestOK, Pending
<1> QED
  BY <1>1, <1>2, <1>5, <1>6, <1>7, KeepTruth, KeepQueue, KeepWork, KeepRuns DEF Inv

\* The answer moves the row of exactly the bytes it is for, and a refused
\* sealed result gets a replacement, when the task runs no more.
LEMMA SettleStep == ASSUME Inv, Settle PROVE Inv'
<1>1. PICK i : i = drain.next
  OBVIOUS
<1>2. PICK e : e = batch[i]
  OBVIOUS
<1>3. PICK t : t = e[1]
  OBVIOUS
<1>4. /\ UNCHANGED <<acked, phase, work, timer, session, outbox, batch, receipt, refused, runs, faults>>
      /\ drain.pc = "settle" /\ i <= Len(batch)
      /\ journal' = [journal EXCEPT ![t] = Settled(journal[t], e)]
      /\ drain' = [drain EXCEPT !.next = i + 1]
      /\ queue' = IF Replaceable(e) THEN [queue EXCEPT ![t] = Enqueued(t, "replacement")] ELSE queue
  <2>1. journal \in [Task -> Row]
    BY DEF Inv, TypeOK
  <2> QED
    BY <1>1, <1>2, <1>3, <2>1 DEF Settle, cloud
<1>5. drain \in Drain /\ batch \in Seq(Envelope) /\ journal \in [Task -> Row] /\ queue \in [Task -> Entry]
  BY DEF Inv, TypeOK
<1>6. i \in 1 .. Len(batch)
  BY <1>1, <1>4, <1>5, TerminalsAssumption DEF Drain
<1>7. e \in Envelope /\ Durable(e) /\ i + 1 \in 1 .. MaxBatch + 1
  BY <1>2, <1>6, BatchElement
<1>8. t \in Task /\ e[2] \in Bytes /\ e = <<t, e[2]>>
  BY <1>3, <1>7, EnvelopeParts
<1>9. drain' \in Drain /\ drain'.pc = "settle" /\ drain'.next = i + 1
  BY <1>4, <1>5, <1>7 DEF Drain
<1>10. e \in refused \/ receipt[t] # NoBytes
  BY <1>2, <1>3, <1>4, <1>6 DEF Inv, CloudOK
<1> DEFINE x == Settled(journal[t], e)
<1>11. /\ x \in Row /\ Advances(t, x) /\ x.state = journal[t].state /\ x.bytes = journal[t].bytes
  <2>1. journal[t] \in Row
    BY <1>5, <1>8
  <2>2. CASE journal[t].bytes # e[2] \/ journal[t].truth = "confirmed"
    <3>1. x = journal[t]
      BY <2>2 DEF Settled
    <3> QED
      BY <2>1, <3>1, SameTerminal
  <2>3. CASE ~(journal[t].bytes # e[2] \/ journal[t].truth = "confirmed")
    <3>1. PICK u : u = IF e \in refused THEN "failed" ELSE "confirmed"
      OBVIOUS
    <3>2. x = [journal[t] EXCEPT !.truth = u] /\ u \in {"failed", "confirmed"}
      BY <2>3, <3>1 DEF Settled
    <3>3. /\ x \in Row /\ x.state = journal[t].state /\ x.bytes = journal[t].bytes
          /\ x.truth = u /\ x.replaced = journal[t].replaced
      BY <2>1, <3>2 DEF Row
    <3>4. journal[t].truth # "none"
      BY <1>8, <2>3 DEF Inv, RowsOK, Bytes, NoBytes
    <3>5. u = "failed" => <<t, journal[t].bytes>> \in refused
      BY <1>8, <2>3, <3>1
    <3>6. u = "confirmed" => receipt[t] = journal[t].bytes
      BY <1>8, <1>10, <3>1 DEF Inv, OneTruth
    <3> HIDE DEF x
    <3> QED
      BY <3>2, <3>3, <3>4, <3>5, <3>6 DEF Advances
  <2> QED
    BY <2>2, <2>3
<1>12. journal' = [journal EXCEPT ![t] = x]
  BY <1>4
<1> HIDE DEF x
<1>13. journal' \in [Task -> Row] /\ \A u \in Task : journal'[u] = IF u = t THEN x ELSE journal[u]
  BY <1>5, <1>11, <1>12
<1>14. \A u \in Task : Advances(u, journal'[u])
  BY <1>11, <1>13, SameTerminal
<1>15. RowsOK' /\ OneTruth' /\ \A f \in Envelope : Durable(f) => Durable(f)'
  BY <1>4, <1>13, <1>14, AdvancesOK
<1>16. FlowOK'
  <2>1. \A f \in Range(outbox) \union Range(batch) : Durable(f)'
    BY <1>15, StayDurable
  <2> QED
    BY <1>4, <2>1 DEF FlowOK, Range
<1>17. \A u \in Task : journal'[u].bytes = journal[u].bytes /\ journal'[u].state = journal[u].state
  BY <1>11, <1>13
<1>18. Replaceable(e) => journal[t].bytes \in {"result", "replacement"} /\ work[t] = "idle"
  <2>1. ASSUME Replaceable(e) PROVE journal[t].bytes \in {"result", "replacement"}
    <3>1. e[2] = "result"
      BY <2>1 DEF Replaceable
    <3>2. journal[t].bytes = "result" \/ journal[t].replaced
      BY <1>3, <1>7, <3>1 DEF Durable
    <3> QED
      BY <1>8, <3>2 DEF Inv, RowsOK
  <2>2. journal[t].bytes \in {"result", "replacement"} => work[t] = "idle"
    BY <1>8 DEF Inv, WorkOK, NoBytes
  <2> QED
    BY <2>1, <2>2
<1>19. /\ queue' \in [Task -> Entry]
       /\ \A u \in Task : /\ queue'[u].pc # "none" => queue[u].pc # "none" \/ work[u] = "idle"
                          /\ queue'[u].bytes = "replacement" =>
                               queue[u].bytes = "replacement" \/ journal[u].bytes \in {"result", "replacement"}
  <2>1. CASE Replaceable(e)
    <3>1. Enqueued(t, "replacement") \in Entry
      BY <1>8, EnqueuedOK DEF Inv
    <3>2. queue' = [queue EXCEPT ![t] = Enqueued(t, "replacement")]
      BY <1>4, <2>1
    <3>3. \A u \in Task : queue'[u] = IF u = t THEN Enqueued(t, "replacement") ELSE queue[u]
      BY <1>5, <3>2
    <3> QED
      BY <1>5, <1>18, <2>1, <3>1, <3>2, <3>3
  <2>2. CASE ~Replaceable(e)
    BY <1>4, <1>5, <2>2
  <2> QED
    BY <2>1, <2>2
<1>20. TypeOK'
  BY <1>4, <1>9, <1>13, <1>19 DEF Inv, TypeOK
<1>21. QueueOK'
  BY <1>17, <1>19 DEF Inv, QueueOK, Replaces
<1>22. CloudOK'
  BY <1>4, <1>9 DEF Inv, CloudOK
<1>23. WorkOK'
  BY <1>4, <1>17 DEF Inv, WorkOK
<1>24. RunsOnce'
  BY <1>4, <1>19, KeepRuns
<1>25. RestOK'
  BY <1>4, <1>9 DEF Inv, RestOK, Pending
<1> QED
  BY <1>4, <1>15, <1>16, <1>20, <1>21, <1>22, <1>23, <1>24, <1>25, KeepWay DEF Inv

LEMMA SettleDoneStep == ASSUME Inv, SettleDone PROVE Inv'
<1>1. /\ UNCHANGED <<journal, acked, phase, work, queue, timer, session, outbox, receipt, refused, runs, faults>>
      /\ drain.pc = "settle" /\ batch' = <<>> /\ drain' = NoDrain
  BY DEF SettleDone, local, cloud
<1>2. batch' \in Seq(Envelope) /\ Len(batch') <= MaxBatch
  BY <1>1, TerminalsAssumption
<1>3. drain' \in Drain
  BY <1>1, NoDrainOK
<1>4. TypeOK'
  BY <1>1, <1>2, <1>3 DEF Inv, TypeOK
<1>5. Range(batch') = {} /\ IsInjective(batch')
  BY <1>1, EmptyRange
<1>6. Distinct'
  BY <1>1, <1>5 DEF Inv, Distinct, Range, IsInjective
<1>7. FlowOK'
  BY <1>1, <1>5, Regroup
<1>8. CloudOK'
  BY <1>1, EmptyBatch
<1>9. RestOK'
  BY <1>1 DEF Inv, RestOK, Pending
<1> QED
  BY <1>1, <1>4, <1>6, <1>7, <1>8, <1>9, KeepTruth, KeepQueue, KeepWork, KeepRuns DEF Inv

LEMMA DrainAgainStep == ASSUME Inv, DrainAgain PROVE Inv'
<1>1. /\ UNCHANGED <<journal, acked, phase, work, queue, timer, session, outbox, batch, receipt, refused, runs, faults>>
      /\ drain.pc = "delay" /\ drain' = NoDrain
  BY DEF DrainAgain, local, cloud
<1>2. drain' \in Drain /\ drain'.pc = "idle"
  BY <1>1, NoDrainOK
<1>3. TypeOK'
  BY <1>1, <1>2 DEF Inv, TypeOK
<1>4. CloudOK'
  BY <1>1, <1>2 DEF Inv, CloudOK
<1>5. RestOK'
  BY <1>1, <1>2 DEF Inv, RestOK, Pending
<1> QED
  BY <1>1, <1>3, <1>4, <1>5, KeepTruth, KeepQueue, KeepWay, KeepFlow, KeepWork, KeepRuns DEF Inv

-----------------------------------------------------------------------------
(* Stop, crash and start *)

LEMMA StopStep == ASSUME Inv, Stop PROVE Inv'
<1>1. /\ UNCHANGED <<journal, acked, work, session, outbox, batch, drain, receipt, refused, runs>>
      /\ phase = "up" /\ phase' = "stopping" /\ timer' = FALSE /\ Fault
      /\ queue' = [t \in Task |-> Attempted(t)]
  BY DEF Stop, local, conn, cloud
<1>2. /\ queue' \in [Task -> Entry]
      /\ \A t \in Task : /\ queue'[t].pc # "none" => queue[t].pc # "none"
                         /\ queue'[t].bytes = "replacement" => queue[t].bytes = "replacement"
  BY <1>1, AttemptedQueue
<1>3. faults' \in 0 .. MaxFaults
  BY <1>1, FaultType DEF Inv
<1>4. TypeOK'
  BY <1>1, <1>2, <1>3 DEF Inv, TypeOK
<1>5. RestOK'
  BY <1>1 DEF Inv, RestOK
<1> QED
  BY <1>1, <1>2, <1>4, <1>5, KeepTruth, KeepWay, KeepFlow, KeepCloud, KeepWork, KeepRuns, KeepQueue DEF Inv

\* The connection is gone.
LEMMA NoConnection ==
  ASSUME Inv, outbox' = <<>>, batch' = <<>>, UNCHANGED <<receipt, refused>>
  PROVE  /\ outbox' \in Seq(Envelope) /\ batch' \in Seq(Envelope) /\ Len(batch') <= MaxBatch
         /\ Distinct' /\ FlowOK' /\ CloudOK'
<1>1. Range(outbox') = {} /\ Range(batch') = {} /\ IsInjective(outbox') /\ IsInjective(batch')
  BY EmptyRange
<1>2. outbox' \in Seq(Envelope) /\ batch' \in Seq(Envelope) /\ Len(batch') <= MaxBatch
  BY TerminalsAssumption
<1>3. Distinct'
  BY <1>1 DEF Distinct, Range, IsInjective
<1>4. FlowOK'
  BY <1>1 DEF FlowOK, Range
<1> QED
  BY <1>2, <1>3, <1>4, EmptyBatch

LEMMA StopEndStep == ASSUME Inv, StopEnd PROVE Inv'
<1>1. /\ UNCHANGED <<journal, acked, work, queue, timer, receipt, refused, runs, faults>>
      /\ phase' = "stopped" /\ session' = "connecting" /\ outbox' = <<>> /\ batch' = <<>> /\ drain' = NoDrain
  BY DEF StopEnd, local, cloud
<1>2. /\ outbox' \in Seq(Envelope) /\ batch' \in Seq(Envelope) /\ Len(batch') <= MaxBatch
      /\ Distinct' /\ FlowOK' /\ CloudOK'
  BY <1>1, NoConnection
<1>3. drain' \in Drain /\ drain'.pc = "idle"
  BY <1>1, NoDrainOK
<1>4. TypeOK'
  BY <1>1, <1>2, <1>3 DEF Inv, TypeOK
<1>5. RestOK'
  BY <1>1, <1>3 DEF RestOK
<1> QED
  BY <1>1, <1>2, <1>4, <1>5, KeepTruth, KeepQueue, KeepWork, KeepRuns DEF Inv

LEMMA CrashStep == ASSUME Inv, Crash PROVE Inv'
<1>1. /\ UNCHANGED <<journal, acked, receipt, refused, runs>> /\ Fault
      /\ phase' = "down" /\ work' = [t \in Task |-> "idle"] /\ queue' = [t \in Task |-> NoEntry] /\ timer' = FALSE
      /\ session' = "connecting" /\ outbox' = <<>> /\ batch' = <<>> /\ drain' = NoDrain
  BY DEF Crash, local, cloud
<1>2. /\ outbox' \in Seq(Envelope) /\ batch' \in Seq(Envelope) /\ Len(batch') <= MaxBatch
      /\ Distinct' /\ FlowOK' /\ CloudOK'
  BY <1>1, NoConnection
<1>3. drain' \in Drain /\ drain'.pc = "idle"
  BY <1>1, NoDrainOK
<1>4. faults' \in 0 .. MaxFaults
  BY <1>1, FaultType DEF Inv
<1>5. /\ queue' \in [Task -> Entry] /\ work' \in [Task -> {"idle", "offered", "running"}]
      /\ \A t \in Task : queue'[t].pc = "none" /\ queue'[t].bytes = NoBytes /\ work'[t] = "idle"
  BY <1>1, NoEntryOK
<1>6. TypeOK'
  BY <1>1, <1>2, <1>3, <1>4, <1>5 DEF Inv, TypeOK
<1>7. RestOK'
  BY <1>1, <1>3, <1>5 DEF RestOK, Pending
<1>8. QueueOK'
  BY <1>5 DEF QueueOK, Replaces, NoBytes
<1>9. WorkOK'
  BY <1>1, <1>5 DEF Inv, WorkOK
<1>10. RunsOnce'
  BY <1>1, <1>5 DEF Inv, RunsOnce
<1> QED
  BY <1>1, <1>2, <1>6, <1>7, <1>8, <1>9, <1>10, KeepTruth DEF Inv

\* The rows and envelopes of a start.
LEMMA StartStep == ASSUME Inv, Start PROVE Inv'
<1> DEFINE rows   == [t \in Task |-> IF Interrupted(t) THEN Recorded(journal[t], "interrupted") ELSE journal[t]]
           replay == {t \in Task : rows[t].truth = "pending"}
           E      == {<<t, rows[t].bytes>> : t \in replay}
<1>1. /\ UNCHANGED <<acked, work, session, batch, drain, receipt, refused, runs, faults>>
      /\ phase \in {"stopped", "down"} /\ phase' = "up" /\ journal' = rows /\ timer' \in BOOLEAN
      /\ queue' = [t \in Task |-> IF ~Pending(t) /\ rows[t].truth = "failed" /\ Replaceable(<<t, rows[t].bytes>>)
                                  THEN Enqueued(t, "replacement") ELSE queue[t]]
      /\ outbox' \in SetToSeqs(E)
  BY DEF Start, cloud
<1>2. batch = <<>> /\ drain.pc = "idle"
  BY <1>1 DEF Inv, RestOK
<1>3. ASSUME NEW t \in Task
      PROVE  /\ rows[t] \in Row /\ Advances(t, rows[t]) /\ rows[t].state = journal[t].state
             /\ rows[t].bytes = journal[t].bytes \/ (journal[t].bytes = NoBytes /\ rows[t].bytes = "interrupted")
  <2>1. journal[t] \in Row
    BY DEF Inv, TypeOK
  <2>2. CASE Interrupted(t)
    <3>1. rows[t] = Recorded(journal[t], "interrupted") /\ "interrupted" \in Bytes /\ journal[t].bytes = NoBytes
      BY <2>2 DEF Interrupted, Bytes
    <3> HIDE DEF rows
    <3> QED
      BY <3>1, RecordedOK
  <2>3. CASE ~Interrupted(t)
    <3>1. rows[t] = journal[t]
      BY <2>3
    <3> HIDE DEF rows
    <3> QED
      BY <2>1, <3>1, SameTerminal
  <2> QED
    BY <2>2, <2>3
<1>4. rows \in [Task -> Row]
  BY <1>3
<1>5. \A t \in Task : Pending(t) => rows[t] = journal[t]
  BY DEF Interrupted
<1> HIDE DEF rows
<1>6. RowsOK' /\ OneTruth'
  BY <1>1, <1>3, <1>4, AdvancesOK
<1>7. E \subseteq Envelope /\ \A e \in E : Durable(e)'
  <2>1. ASSUME NEW t \in replay PROVE <<t, rows[t].bytes>> \in Envelope /\ rows[t] = journal'[t]
    <3>1. t \in Task /\ rows[t] \in Row /\ rows[t] = journal'[t] /\ rows[t].truth = "pending"
      BY <1>1, <1>3
    <3>2. rows[t].bytes # NoBytes
      BY <1>6, <3>1 DEF RowsOK
    <3>3. rows[t].bytes \in Bytes
      BY <3>1, <3>2, RowFields
    <3> QED
      BY <3>1, <3>3 DEF Envelope
  <2> HIDE DEF replay
  <2> QED
    BY <2>1 DEF Durable
<1>8. IsFiniteSet(E)
  <2>1. IsFiniteSet(replay)
    BY TerminalsAssumption, FS_Subset
  <2> DEFINE g == [t \in replay |-> <<t, rows[t].bytes>>]
  <2> HIDE DEF replay
  <2>2. g \in [replay -> E] /\ \A e \in E : \E t \in replay : g[t] = e
    OBVIOUS
  <2> HIDE DEF g, E
  <2>3. g \in Surjection(replay, E)
    BY <2>2 DEF Surjection
  <2> QED
    BY <2>1, <2>3, FS_Surjection
<1> HIDE DEF E
<1>9. outbox' \in Seq(Envelope) /\ Range(outbox') \subseteq E /\ IsInjective(outbox')
  BY <1>1, <1>7, <1>8, OrderOf
<1>10. /\ queue' \in [Task -> Entry]
       /\ \A t \in Task : /\ queue'[t].pc # "none" => queue[t].pc # "none" \/ work[t] = "idle"
                          /\ queue'[t].bytes = "replacement" =>
                               queue[t].bytes = "replacement" \/ journal[t].bytes \in {"result", "replacement"}
  <2>1. ASSUME NEW t \in Task
        PROVE  /\ queue'[t] \in Entry
               /\ queue'[t].pc # "none" => queue[t].pc # "none" \/ work[t] = "idle"
               /\ queue'[t].bytes = "replacement" =>
                    queue[t].bytes = "replacement" \/ journal[t].bytes \in {"result", "replacement"}
    <3>1. CASE queue'[t] = queue[t]
      BY <3>1 DEF Inv, TypeOK
    <3>2. CASE queue'[t] = Enqueued(t, "replacement") /\ Replaceable(<<t, rows[t].bytes>>)
      <4>1. rows[t].bytes = "result"
        BY <3>2 DEF Replaceable
      <4>2. journal[t].bytes = "result"
        BY <1>3, <4>1
      <4>3. work[t] = "idle"
        BY <4>2 DEF Inv, WorkOK, NoBytes
      <4>4. Enqueued(t, "replacement") \in Entry
        BY EnqueuedOK DEF Inv
      <4> QED
        BY <3>2, <4>2, <4>3, <4>4
    <3> QED
      BY <1>1, <3>1, <3>2
  <2>2. queue' = [t \in Task |-> queue'[t]]
    BY <1>1
  <2> QED
    BY <2>1, <2>2
<1>11. TypeOK'
  BY <1>1, <1>4, <1>9, <1>10 DEF Inv, TypeOK
<1>12. QueueOK'
  <2>1. \A t \in Task : journal[t].bytes \in {"result", "replacement"} => rows[t].bytes = journal[t].bytes
    BY <1>3 DEF NoBytes
  <2> QED
    BY <1>1, <1>10, <2>1 DEF Inv, QueueOK, Replaces
<1>13. WorkOK'
  BY <1>1, <1>3 DEF Inv, WorkOK
<1>14. RunsOnce'
  BY <1>1, <1>10, KeepRuns
<1>15. RestOK'
  BY <1>1, <1>2 DEF RestOK
<1>16. Distinct' /\ FlowOK'
  <2>1. Range(batch') = {} /\ IsInjective(batch')
    BY <1>1, <1>2, EmptyRange
  <2>2. Distinct'
    BY <1>9, <2>1 DEF Distinct, Range, IsInjective
  <2>3. \A e \in Range(outbox') \union Range(batch') : Durable(e)'
    BY <1>7, <1>9, <2>1
  <2>4. FlowOK'
    BY <2>3 DEF FlowOK, Range
  <2> QED
    BY <2>2, <2>4
<1> QED
  BY <1>1, <1>6, <1>11, <1>12, <1>13, <1>14, <1>15, <1>16, KeepCloud DEF Inv

-----------------------------------------------------------------------------
(* The theorems *)

LEMMA InitInv == Init => Inv
<1> SUFFICES ASSUME Init PROVE Inv
  OBVIOUS
<1>1. TypeOK
  <2>1. journal \in [Task -> Row] /\ queue \in [Task -> Entry] /\ drain \in Drain
    BY NoRowOK, NoEntryOK, NoDrainOK DEF Init
  <2>2. outbox \in Seq(Envelope) /\ batch \in Seq(Envelope) /\ Len(batch) <= MaxBatch
    BY TerminalsAssumption DEF Init
  <2>3. faults \in 0 .. MaxFaults
    BY TerminalsAssumption DEF Init
  <2> QED
    BY <2>1, <2>2, <2>3 DEF Init, TypeOK
<1>2. RowsOK /\ OneTruth /\ WorkOK
  BY NoRowOK DEF Init, RowsOK, OneTruth, WorkOK
<1>3. QueueOK /\ RunsOnce
  BY NoEntryOK DEF Init, QueueOK, Replaces, RunsOnce, NoBytes
<1>4. Distinct /\ FlowOK
  BY EmptyRange DEF Init, Distinct, FlowOK
<1>5. CloudOK
  <2>1. 1 .. Len(batch) = {}
    BY DEF Init
  <2> QED
    BY <2>1 DEF Init, CloudOK
<1>6. RestOK
  BY DEF Init, RestOK
<1> QED
  BY <1>1, <1>2, <1>3, <1>4, <1>5, <1>6 DEF Inv

LEMMA StepInv == Inv /\ [Next]_vars => Inv'
<1> SUFFICES ASSUME Inv, [Next]_vars PROVE Inv'
  OBVIOUS
<1>1. ASSUME NEW t \in Task,
             \/ Prepare(t) \/ PrepareFails(t) \/ Commit(t) \/ CommitFails(t)
             \/ Offer(t) \/ Admit(t) \/ Finish(t) \/ AckOffer(t)
      PROVE  Inv'
  BY <1>1, PrepareStep, PrepareFailsStep, CommitStep, CommitFailsStep, OfferStep, AdmitStep, FinishStep, AckOfferStep
<1>2. CASE RetryTimer \/ SessionOpen \/ SessionBreak
  BY <1>2, RetryTimerStep, SessionOpenStep, SessionBreakStep
<1>3. CASE \/ DrainTake \/ CloudReceives \/ Answered \/ AnswerLost
           \/ Settle \/ SettleDone \/ SettleFails \/ DrainAgain
  BY <1>3, DrainTakeStep, CloudReceivesStep, AnsweredStep, AnswerLostStep,
     SettleStep, SettleDoneStep, SettleFailsStep, DrainAgainStep
<1>4. CASE Stop \/ StopEnd \/ Crash \/ Start
  BY <1>4, StopStep, StopEndStep, CrashStep, StartStep
<1>5. CASE UNCHANGED vars
  <2>1. UNCHANGED <<journal, acked, phase, work, queue, timer, session, outbox, batch, drain, receipt, refused, runs, faults>>
    BY <1>5 DEF vars, local, conn, cloud
  <2>2. TypeOK'
    BY <2>1 DEF Inv, TypeOK
  <2> QED
    BY <2>1, <2>2, KeepTruth, KeepWay, KeepFlow, KeepCloud, KeepWork, KeepRuns, KeepQueue, KeepRest DEF Inv
<1> QED
  BY <1>1, <1>2, <1>3, <1>4, <1>5 DEF Next

\* Every reachable state satisfies the inductive invariant, whatever fails,
\* stops or crashes on a terminal's way, and however often.
THEOREM Invariance == Spec => []Inv
<1>1. Init => Inv
  BY InitInv
<1>2. Inv /\ [Next]_vars => Inv'
  BY StepInv
<1> QED
  BY <1>1, <1>2, PTL DEF Spec

\* Every variable of the daemon's terminals keeps its type, and no batch exceeds
\* the bound of a post.
THEOREM TypeCorrect == Spec => []TypeOK
<1>1. Inv => TypeOK
  BY DEF Inv
<1> QED
  BY <1>1, Invariance, PTL

\* What the connection manager posts is durable, or was until its replacement
\* took over, and no commit, retry, replay or resend queues it twice.
THEOREM OutgoingIsDurable == Spec => []JournalFirst
<1>1. Inv => JournalFirst
  <2> SUFFICES ASSUME Inv PROVE JournalFirst
    OBVIOUS
  <2>1. IsInjective(batch \o outbox)
    BY RangeConcat DEF Inv, TypeOK, Distinct
  <2> QED
    BY <2>1 DEF Inv, FlowOK, Durable, JournalFirst
<1> QED
  BY <1>1, Invariance, PTL

\* The journal confirms only what the cloud recorded, and holds what the cloud
\* recorded, through every refusal, replacement, retry and restart.
THEOREM JournalAndCloudAgree == Spec => []OneTruth
<1>1. Inv => OneTruth
  BY DEF Inv
<1> QED
  BY <1>1, Invariance, PTL

\* No offer that is delivered again, before or after a crash, starts a task a
\* second time, and none runs next to its own pending terminal.
THEOREM TasksRunOnce == Spec => []RunsOnce
<1>1. Inv => RunsOnce
  BY DEF Inv
<1> QED
  BY <1>1, Invariance, PTL
=============================================================================
