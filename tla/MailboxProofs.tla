---------------------------- MODULE MailboxProofs ----------------------------
(***************************************************************************)
(* The mailbox properties of module Mailbox, for any number of devices,    *)
(* message ids, sizes, limits and retention cutoffs.  The argument is one  *)
(* inductive invariant, Inv, and on top of it QuotaOK for the tenant's     *)
(* quota, a sum over the rows of all its devices.                          *)
(***************************************************************************)
EXTENDS Mailbox, TLAPS, FiniteSetTheorems, WellFoundedInduction, SumTheorems

-----------------------------------------------------------------------------
(* The inductive invariant *)

\* A cursor is acknowledged only after it was returned, and returned only for
\* a row that exists.
CursorsOrdered ==
  \A d \in Device : ackedSeq[d] <= deliveredSeq[d] /\ deliveredSeq[d] < nextSeq[d]

\* No row lies at or above the next sequence number.
FreshSeqs == \A d \in Device, s \in Seqs : nextSeq[d] <= s => state[d][s] = "absent"

\* The acknowledged cursor separates consumed rows from rows still owed.
AckSplits ==
  \A d \in Device, s \in Seqs :
    /\ state[d][s] = "pending" => s > ackedSeq[d]
    /\ state[d][s] = "acked" => s <= ackedSeq[d]

\* A sequence number above the acknowledged cursor whose row is gone lies
\* below a dead letter that is still there.
GapsBelowFloor ==
  \A d \in Device, s \in Seqs :
    ackedSeq[d] < s /\ s < nextSeq[d] /\ state[d][s] = "absent" => CursorTooOld(d, s)

\* The append in flight keeps the room, the open stream and the unknown
\* message id it found when it reached the head of the chain.
AppendInFlight ==
  \A d \in Device : tail[d] # NoAppend =>
    /\ nextSeq[d] <= MaxSeq
    /\ ~closed[d]
    /\ \A s \in Seqs : state[d][s] # "absent" => body[d][s].messageId # tail[d].messageId

\* A retained row has a body.
Bodies == \A d \in Device, s \in Seqs : state[d][s] # "absent" => body[d][s] \in Body

\* Where a retention call is: it has visited the devices not in todo, and its
\* cutoff for pending rows lies below every later append.
CollectOK ==
  /\ collect.phase = "done" => collect.todo = {}
  /\ \A d \in Device : collect.unacked[d] < nextSeq[d]
  /\ collect.phase = "pending" =>
       \A d \in Device \ collect.todo : \A s \in Seqs :
         state[d][s] = "pending" => s > collect.unacked[d]

Inv ==
  /\ TypeOK
  /\ CursorsOrdered
  /\ FreshSeqs
  /\ AckSplits
  /\ GapsBelowFloor
  /\ AppendInFlight
  /\ Bodies
  /\ MessageIdsUnique
  /\ ClosedStreamIsEmpty
  /\ CollectOK
  /\ SweepComplete

-----------------------------------------------------------------------------
(* Facts about the operators *)

\* A non-empty set of sequence numbers has a greatest member.
LEMMA Greatest ==
  ASSUME NEW S \in SUBSET Seqs, S # {}
  PROVE  \E m \in S : \A s \in S : s <= m
<1> DEFINE T == {n \in Nat : \E s \in S : n = MaxSeq - s}
           R == OpToRel(<, Nat)
<1>1. T \subseteq Nat /\ T # {}
  <2>1. PICK s \in S : TRUE
    OBVIOUS
  <2>2. MaxSeq - s \in Nat
    BY ConstantsAssumption DEF Seqs
  <2> QED
    BY <2>2
<1>2. PICK x \in T : \A y \in T : ~(<<y, x>> \in R)
  <2> HIDE DEF T, R
  <2>1. IsWellFoundedOn(R, Nat)
    BY NatLessThanWellFounded DEF R
  <2> QED
    BY <1>1, <2>1, WFMin
<1>3. PICK m \in S : x = MaxSeq - m
  OBVIOUS
<1>4. ASSUME NEW s \in S
      PROVE  s <= m
  <2>1. MaxSeq - s \in T
    BY ConstantsAssumption DEF Seqs
  <2>2. ~(MaxSeq - s < x)
    BY <1>2, <2>1 DEF OpToRel
  <2> QED
    BY <1>3, <2>2, ConstantsAssumption DEF Seqs
<1> QED
  BY <1>4

\* Reaping keeps the evidence of every loss: if the removed rows are dead
\* letters with a higher dead letter each, a cursor that was too old still is.
LEMMA ReapKeepsFloor ==
  ASSUME NEW E \in SUBSET Seqs, NEW R \in SUBSET E,
         \A s \in R : \E t \in E : t > s,
         NEW c \in Int, \E s \in E : s > c
  PROVE  \E s \in E \ R : s > c
<1>1. PICK m \in E : \A s \in E : s <= m
  BY Greatest
<1>2. m \notin R
  BY <1>1 DEF Seqs
<1>3. m > c
  BY <1>1 DEF Seqs
<1> QED
  BY <1>2, <1>3

LEMMA LowestSubset ==
  ASSUME NEW S, NEW k
  PROVE  Lowest(S, k) \subseteq S
BY DEF Lowest

LEMMA CardinalityOfSeqs ==
  ASSUME NEW S \in SUBSET Seqs
  PROVE  Cardinality(S) \in Nat
<1>1. IsFiniteSet(Seqs)
  BY FS_Interval, ConstantsAssumption DEF Seqs
<1>2. IsFiniteSet(S)
  BY <1>1, FS_Subset
<1> QED
  BY <1>2, FS_CardinalityType

-----------------------------------------------------------------------------
(* Inv is inductive *)

LEMMA InitInv == Init => Inv
<1> SUFFICES ASSUME Init PROVE Inv
  OBVIOUS
<1> USE ConstantsAssumption DEF Init, Seqs, NoPrefix
<1>1. TypeOK
  BY DEF TypeOK, RowState, Prefixes, Phase
<1>2. CursorsOrdered /\ FreshSeqs /\ AckSplits /\ GapsBelowFloor
  BY DEF CursorsOrdered, FreshSeqs, AckSplits, GapsBelowFloor
<1>3. AppendInFlight /\ Bodies
  BY DEF AppendInFlight, Bodies
<1>4. MessageIdsUnique
  BY DEF MessageIdsUnique, Retained
<1>5. ClosedStreamIsEmpty
  BY DEF ClosedStreamIsEmpty
<1>6. CollectOK /\ SweepComplete
  BY DEF CollectOK, SweepComplete, Pending
<1> QED
  BY <1>1, <1>2, <1>3, <1>4, <1>5, <1>6 DEF Inv

\* AppendBegin only takes the chain.
LEMMA AppendBeginInv ==
  ASSUME Inv, NEW d \in Device, NEW m \in MessageId, NEW adm \in Admission,
         AppendBegin(d, m, adm)
  PROVE  Inv'
<1> USE DEF Inv, AppendBegin, ChainFree, cursorVars, rowVars, quotaVars
<1>1. TypeOK'
  BY DEF TypeOK, AppendCall
<1>2. (CursorsOrdered /\ FreshSeqs /\ AckSplits /\ GapsBelowFloor)'
  BY DEF CursorsOrdered, FreshSeqs, AckSplits, GapsBelowFloor, CursorTooOld
<1>3. AppendInFlight'
  <2>1. ASSUME NEW e \in Device, tail'[e] # NoAppend
        PROVE  /\ nextSeq[e] <= MaxSeq
               /\ ~closed[e]
               /\ \A s \in Seqs : state[e][s] # "absent" => body[e][s].messageId # tail'[e].messageId
    <3>1. CASE e = d
      BY <3>1 DEF TypeOK, Known, Retained
    <3>2. CASE e # d
      BY <2>1, <3>2 DEF AppendInFlight, TypeOK
    <3> QED
      BY <3>1, <3>2
  <2> QED
    BY <2>1 DEF AppendInFlight
<1>4. (Bodies /\ MessageIdsUnique /\ ClosedStreamIsEmpty)'
  BY DEF Bodies, MessageIdsUnique, Retained, ClosedStreamIsEmpty, Pending
<1>5. (CollectOK /\ SweepComplete)'
  BY DEF CollectOK, SweepComplete, Pending
<1> QED
  BY <1>1, <1>2, <1>3, <1>4, <1>5

\* AppendCommit adds one pending row at nextSeq, with an unknown message id.
LEMMA AppendCommitInv ==
  ASSUME Inv, NEW d \in Device, NEW size \in ByteSize, AppendCommit(d, size)
  PROVE  Inv'
<1> DEFINE n == nextSeq[d]
<1> USE DEF Inv, AppendCommit, cursorVars, quotaVars
<1>1. n \in Seqs /\ n + 1 \in 1 .. MaxSeq + 1 /\ ~closed[d]
  BY ConstantsAssumption DEF AppendInFlight, TypeOK, Seqs
<1>2. tail[d] \in AppendCall
  BY DEF TypeOK
<1>3. [messageId |-> tail[d].messageId, byteSize |-> size, admission |-> tail[d].admission] \in Body
  BY <1>2 DEF AppendCall, Body
<1>4. /\ \A e \in Device, s \in Seqs : e # d \/ s # n =>
            state'[e][s] = state[e][s] /\ body'[e][s] = body[e][s]
      /\ state'[d][n] = "pending"
      /\ body'[d][n] \in Body
      /\ body'[d][n].messageId = tail[d].messageId
      /\ state[d][n] = "absent"
  <2>1. state[d][n] = "absent"
    BY <1>1 DEF FreshSeqs, TypeOK
  <2>2. /\ \A e \in Device, s \in Seqs : e # d \/ s # n => state'[e][s] = state[e][s]
        /\ state'[d][n] = "pending"
    BY <1>1 DEF TypeOK
  <2>3. /\ \A e \in Device, s \in Seqs : e # d \/ s # n => body'[e][s] = body[e][s]
        /\ body'[d][n] = [messageId |-> tail[d].messageId, byteSize |-> size,
                          admission |-> tail[d].admission]
    BY <1>1 DEF TypeOK
  <2> QED
    BY <1>3, <2>1, <2>2, <2>3
<1>5. /\ \A e \in Device : e # d => nextSeq'[e] = nextSeq[e] /\ tail'[e] = tail[e]
      /\ nextSeq'[d] = n + 1
      /\ tail'[d] = NoAppend
  BY DEF TypeOK
<1>6. TypeOK'
  <2>1. state' \in [Device -> [Seqs -> RowState]]
    BY <1>1 DEF TypeOK, RowState
  <2>2. body' \in [Device -> [Seqs -> Body \union {NoBody}]]
    BY <1>1, <1>3 DEF TypeOK
  <2> QED
    BY <1>1, <2>1, <2>2 DEF TypeOK
<1>7. CursorsOrdered'
  BY <1>5 DEF CursorsOrdered, TypeOK
<1>8. FreshSeqs'
  BY <1>4, <1>5 DEF FreshSeqs, TypeOK, Seqs
<1>9. AckSplits'
  BY <1>1, <1>4 DEF AckSplits, CursorsOrdered, TypeOK, Seqs
<1>10. GapsBelowFloor'
  <2> SUFFICES ASSUME NEW e \in Device, NEW s \in Seqs,
                      ackedSeq[e] < s, s < nextSeq'[e], state'[e][s] = "absent"
               PROVE  CursorTooOld(e, s)'
    BY DEF GapsBelowFloor
  <2>1. s < nextSeq[e] /\ state[e][s] = "absent"
    BY <1>4, <1>5 DEF TypeOK, Seqs
  <2>2. PICK t \in Seqs : t > s /\ state[e][t] = "expired"
    BY <2>1 DEF GapsBelowFloor, CursorTooOld
  <2>3. state'[e][t] = "expired"
    BY <1>4, <2>2
  <2> QED
    BY <2>2, <2>3 DEF CursorTooOld
<1>11. AppendInFlight'
  BY <1>4, <1>5 DEF AppendInFlight
<1>12. Bodies'
  BY <1>4 DEF Bodies
<1>13. MessageIdsUnique'
  BY <1>1, <1>4 DEF MessageIdsUnique, Retained, AppendInFlight
<1>14. ClosedStreamIsEmpty'
  BY <1>1, <1>4 DEF ClosedStreamIsEmpty, Pending
<1>15. CollectOK'
  BY <1>1, <1>4, <1>5 DEF CollectOK, TypeOK, Prefixes
<1>16. SweepComplete'
  BY <1>1, <1>4 DEF SweepComplete, Pending, CollectOK
<1> QED
  BY <1>6, <1>7, <1>8, <1>9, <1>10, <1>11, <1>12, <1>13, <1>14, <1>15, <1>16

\* A refused append, and a new entitlement, leave every row alone.
LEMMA AppendRefusedInv ==
  ASSUME Inv, NEW d \in Device, AppendRefused(d)
  PROVE  Inv'
<1> USE DEF Inv, AppendRefused, cursorVars, rowVars, quotaVars
<1>1. TypeOK'
  BY DEF TypeOK
<1>2. (CursorsOrdered /\ FreshSeqs /\ AckSplits /\ GapsBelowFloor)'
  BY DEF CursorsOrdered, FreshSeqs, AckSplits, GapsBelowFloor, CursorTooOld
<1>3. AppendInFlight'
  BY DEF AppendInFlight, TypeOK
<1>4. (Bodies /\ MessageIdsUnique /\ ClosedStreamIsEmpty)'
  BY DEF Bodies, MessageIdsUnique, Retained, ClosedStreamIsEmpty, Pending
<1>5. (CollectOK /\ SweepComplete)'
  BY DEF CollectOK, SweepComplete, Pending
<1> QED
  BY <1>1, <1>2, <1>3, <1>4, <1>5

LEMMA IssueEntitlementInv ==
  ASSUME Inv, NEW l \in Limit, IssueEntitlement(l)
  PROVE  Inv'
<1> USE DEF Inv, IssueEntitlement, cursorVars, rowVars
<1>1. TypeOK'
  BY DEF TypeOK
<1>2. (CursorsOrdered /\ FreshSeqs /\ AckSplits /\ GapsBelowFloor)'
  BY DEF CursorsOrdered, FreshSeqs, AckSplits, GapsBelowFloor, CursorTooOld
<1>3. (AppendInFlight /\ Bodies /\ MessageIdsUnique /\ ClosedStreamIsEmpty)'
  BY DEF AppendInFlight, Bodies, MessageIdsUnique, Retained, ClosedStreamIsEmpty, Pending
<1>4. (CollectOK /\ SweepComplete)'
  BY DEF CollectOK, SweepComplete, Pending
<1> QED
  BY <1>1, <1>2, <1>3, <1>4

\* A delivery watermark below nextSeq.
LEMMA RecordDeliveryInv ==
  ASSUME Inv, NEW d \in Device, NEW s \in Seqs, RecordDelivery(d, s)
  PROVE  Inv'
<1> USE DEF Inv, RecordDelivery, Watermark, rowVars, quotaVars
<1>1. TypeOK'
  BY DEF TypeOK, Seqs
<1>2. CursorsOrdered'
  BY DEF CursorsOrdered, TypeOK, Seqs
<1>3. (FreshSeqs /\ AckSplits /\ GapsBelowFloor)'
  BY DEF FreshSeqs, AckSplits, GapsBelowFloor, CursorTooOld
<1>4. (AppendInFlight /\ Bodies /\ MessageIdsUnique /\ ClosedStreamIsEmpty)'
  BY DEF AppendInFlight, Bodies, MessageIdsUnique, Retained, ClosedStreamIsEmpty, Pending
<1>5. (CollectOK /\ SweepComplete)'
  BY DEF CollectOK, SweepComplete, Pending
<1> QED
  BY <1>1, <1>2, <1>3, <1>4, <1>5

\* An acknowledgement moves the pending rows at or below it to acked.
LEMMA AdvanceCursorInv ==
  ASSUME Inv, NEW d \in Device, NEW c \in 0 .. MaxSeq, AdvanceCursor(d, c)
  PROVE  Inv'
<1> USE DEF Inv, AdvanceCursor, Ackable, ChainFree, quotaVars
<1>1. /\ \A e \in Device, s \in Seqs :
            state'[e][s] = IF e = d /\ s <= c /\ state[e][s] = "pending" THEN "acked" ELSE state[e][s]
      /\ \A e \in Device : ackedSeq'[e] = IF e = d THEN c ELSE ackedSeq[e]
  BY DEF TypeOK
<1>2. TypeOK'
  <2>1. state' \in [Device -> [Seqs -> RowState]]
    BY DEF TypeOK, RowState
  <2> QED
    BY <2>1 DEF TypeOK
<1>3. CursorsOrdered'
  BY <1>1 DEF CursorsOrdered, TypeOK
<1>4. FreshSeqs'
  BY <1>1 DEF FreshSeqs
<1>5. AckSplits'
  BY <1>1 DEF AckSplits, TypeOK, Seqs
<1>6. GapsBelowFloor'
  <2> SUFFICES ASSUME NEW e \in Device, NEW s \in Seqs,
                      ackedSeq'[e] < s, s < nextSeq[e], state'[e][s] = "absent"
               PROVE  CursorTooOld(e, s)'
    BY DEF GapsBelowFloor
  <2>1. ackedSeq[e] < s /\ state[e][s] = "absent"
    BY <1>1 DEF TypeOK, Seqs
  <2>2. PICK t \in Seqs : t > s /\ state[e][t] = "expired"
    BY <2>1 DEF GapsBelowFloor, CursorTooOld
  <2> QED
    BY <1>1, <2>2 DEF CursorTooOld
<1>7. AppendInFlight'
  BY <1>1 DEF AppendInFlight
<1>8. Bodies'
  BY <1>1 DEF Bodies
<1>9. MessageIdsUnique'
  BY <1>1 DEF MessageIdsUnique, Retained
<1>10. ClosedStreamIsEmpty'
  BY <1>1 DEF ClosedStreamIsEmpty, Pending
<1>11. CollectOK' /\ SweepComplete'
  BY <1>1 DEF CollectOK, SweepComplete, Pending
<1> QED
  BY <1>2, <1>3, <1>4, <1>5, <1>6, <1>7, <1>8, <1>9, <1>10, <1>11

\* Dead-lettering pending rows, whichever rows and whatever happens to closed,
\* as long as a stream that ends up closed has no pending row left.
LEMMA ExpireInv ==
  ASSUME Inv, NEW d \in Device, NEW seqs \in SUBSET Seqs, tail[d] = NoAppend,
         state' = Expire(d, seqs),
         closed' \in [Device -> BOOLEAN],
         \A e \in Device : e # d => closed'[e] = closed[e],
         closed'[d] => closed[d] \/ seqs = Seqs,
         UNCHANGED <<nextSeq, cursorVars, body, tail, quotaVars, collect>>
  PROVE  Inv'
<1> USE DEF Inv, cursorVars, quotaVars
<1>1. \A e \in Device, s \in Seqs :
        state'[e][s] = IF e = d /\ s \in seqs /\ state[e][s] = "pending" THEN "expired" ELSE state[e][s]
  BY DEF TypeOK, Expire
<1>2. TypeOK'
  <2>1. state' \in [Device -> [Seqs -> RowState]]
    BY DEF TypeOK, RowState, Expire
  <2> QED
    BY <2>1 DEF TypeOK
<1>3. (CursorsOrdered /\ FreshSeqs /\ AckSplits)'
  BY <1>1 DEF CursorsOrdered, FreshSeqs, AckSplits
<1>4. GapsBelowFloor'
  BY <1>1 DEF GapsBelowFloor, CursorTooOld
<1>5. AppendInFlight'
  BY <1>1 DEF AppendInFlight
<1>6. Bodies'
  BY <1>1 DEF Bodies
<1>7. MessageIdsUnique'
  BY <1>1 DEF MessageIdsUnique, Retained
<1>8. ClosedStreamIsEmpty'
  BY <1>1 DEF ClosedStreamIsEmpty, Pending
<1>9. CollectOK' /\ SweepComplete'
  BY <1>1 DEF CollectOK, SweepComplete, Pending
<1> QED
  BY <1>2, <1>3, <1>4, <1>5, <1>6, <1>7, <1>8, <1>9

LEMMA ReopenStreamInv ==
  ASSUME Inv, NEW d \in Device, ReopenStream(d)
  PROVE  Inv'
<1> USE DEF Inv, ReopenStream, ChainFree, cursorVars, rowVars, quotaVars
<1>1. TypeOK'
  BY DEF TypeOK
<1>2. (CursorsOrdered /\ FreshSeqs /\ AckSplits /\ GapsBelowFloor)'
  BY DEF CursorsOrdered, FreshSeqs, AckSplits, GapsBelowFloor, CursorTooOld
<1>3. (AppendInFlight /\ ClosedStreamIsEmpty)'
  BY DEF AppendInFlight, ClosedStreamIsEmpty, Pending, TypeOK
<1>4. (Bodies /\ MessageIdsUnique)'
  BY DEF Bodies, MessageIdsUnique, Retained
<1>5. (CollectOK /\ SweepComplete)'
  BY DEF CollectOK, SweepComplete, Pending
<1> QED
  BY <1>1, <1>2, <1>3, <1>4, <1>5

LEMMA CollectBeginInv ==
  ASSUME Inv, NEW acked \in Cutoff, NEW reap \in Cutoff, NEW unacked \in Cutoff,
         CollectBegin(acked, reap, unacked)
  PROVE  Inv'
<1> USE DEF Inv, CollectBegin, cursorVars, rowVars, quotaVars
<1>1. TypeOK'
  BY CutoffAssumption DEF TypeOK, Phase
<1>2. (CursorsOrdered /\ FreshSeqs /\ AckSplits /\ GapsBelowFloor)'
  BY DEF CursorsOrdered, FreshSeqs, AckSplits, GapsBelowFloor, CursorTooOld
<1>3. (AppendInFlight /\ Bodies /\ MessageIdsUnique /\ ClosedStreamIsEmpty)'
  BY DEF AppendInFlight, Bodies, MessageIdsUnique, Retained, ClosedStreamIsEmpty, Pending
<1>4. (CollectOK /\ SweepComplete)'
  BY DEF CollectOK, SweepComplete
<1> QED
  BY <1>1, <1>2, <1>3, <1>4

\* What one device's retention step does to the rows: it moves a set `taken' of
\* eligible rows and nothing else, and reports more unless it took them all.
Moves(d, taken) ==
  /\ collect.phase \in {"acked", "reap", "pending"}
  /\ taken \subseteq Eligible(d)
  /\ \A e \in Device, s \in Seqs :
       state'[e][s] = IF e = d /\ s \in taken
             THEN IF collect.phase = "pending" THEN "expired" ELSE "absent"
                      ELSE state[e][s]
  /\ \A e \in Device, s \in Seqs :
       body'[e][s] = IF e = d /\ state'[e][s] = "absent" THEN NoBody ELSE body[e][s]
  /\ collect'.phase # "done" => taken = Eligible(d)
  /\ collect'.phase = "done" /\ ~collect'.more =>
       taken = Eligible(d) /\ collect.phase = "pending" /\ collect.todo = {d}
  /\ \A s \in taken :
       /\ collect.phase = "acked" => state[d][s] = "acked"
       /\ collect.phase = "reap" => /\ state[d][s] = "expired"
                                    /\ \E t \in Seqs : t > s /\ state[d][t] = "expired"
       /\ collect.phase = "pending" => state[d][s] = "pending" /\ s <= collect.unacked[d]

LEMMA CollectDeviceRows ==
  ASSUME Inv, NEW d \in Device, CollectDevice(d)
  PROVE  \E taken \in SUBSET Seqs : Moves(d, taken)
<1> DEFINE taken == Lowest(Eligible(d), CollectLimit - collect.count)
<1>1. collect.phase \in {"acked", "reap", "pending"}
  BY DEF Inv, CollectDevice, CollectOK, TypeOK, Phase
<1>2. Eligible(d) \subseteq Seqs
  BY <1>1 DEF Eligible, Reapable, Pending
<1>3. taken \subseteq Eligible(d)
  BY LowestSubset
<1>4. \A e \in Device, s \in Seqs :
        state'[e][s] = IF e = d /\ s \in taken
                       THEN IF collect.phase = "pending" THEN "expired" ELSE "absent"
                       ELSE state[e][s]
  <2> HIDE DEF taken
  <2>1. state' = [state EXCEPT ![d] =
                   [s \in Seqs |-> IF s \notin taken THEN state[d][s]
                                   ELSE IF collect.phase = "pending" THEN "expired" ELSE "absent"]]
    BY DEF CollectDevice, taken
  <2> QED
    BY <2>1 DEF Inv, TypeOK
<1>5. \A e \in Device, s \in Seqs :
        body'[e][s] = IF e = d /\ state'[e][s] = "absent" THEN NoBody ELSE body[e][s]
  <2>1. body' = [body EXCEPT ![d] =
                   [s \in Seqs |-> IF state'[d][s] = "absent" THEN NoBody ELSE body[d][s]]]
    BY DEF CollectDevice
  <2> QED
    BY <2>1 DEF Inv, TypeOK
<1>6. /\ taken # Eligible(d) => collect'.phase = "done" /\ collect'.more
      /\ taken = Eligible(d) =>
           collect'.phase = IF collect.todo = {d} THEN NextPhase(collect.phase) ELSE collect.phase
  <2> HIDE DEF taken
  <2>1. LimitReached(taken, Eligible(d)) <=> taken # Eligible(d)
    BY DEF LimitReached
  <2>2. collect'.phase = IF LimitReached(taken, Eligible(d)) THEN "done"
                         ELSE IF collect.todo = {d} THEN NextPhase(collect.phase) ELSE collect.phase
    BY DEF CollectDevice, taken, Inv, TypeOK
  <2>3. LimitReached(taken, Eligible(d)) => collect'.more
    BY DEF CollectDevice, taken, Inv, TypeOK
  <2> QED
    BY <2>1, <2>2, <2>3
<1>7. collect'.phase = "done" /\ taken = Eligible(d) => collect.phase = "pending" /\ collect.todo = {d}
  BY <1>1, <1>6 DEF NextPhase
<1> HIDE DEF taken
<1>8. taken \in SUBSET Seqs
  BY <1>2, <1>3
<1>9. \A s \in taken :
        /\ collect.phase = "acked" => state[d][s] = "acked"
        /\ collect.phase = "reap" => /\ state[d][s] = "expired"
                                     /\ \E t \in Seqs : t > s /\ state[d][t] = "expired"
        /\ collect.phase = "pending" => state[d][s] = "pending" /\ s <= collect.unacked[d]
  BY <1>1, <1>3 DEF Eligible, Reapable, Pending
<1> QED
  BY <1>1, <1>3, <1>4, <1>5, <1>6, <1>7, <1>8, <1>9 DEF Moves

LEMMA CollectDeviceType ==
  ASSUME Inv, NEW d \in Device, CollectDevice(d)
  PROVE  TypeOK'
<1> DEFINE taken == Lowest(Eligible(d), CollectLimit - collect.count)
           row(s) == IF s \notin taken THEN state[d][s]
                     ELSE IF collect.phase = "pending" THEN "expired" ELSE "absent"
<1>1. collect.phase \in {"acked", "reap", "pending"}
  BY DEF Inv, CollectDevice, CollectOK, TypeOK, Phase
<1>2. taken \in SUBSET Seqs
  BY <1>1, LowestSubset DEF Eligible, Reapable, Pending
<1>3. collect' \in [phase : Phase, todo : SUBSET Device, count : Nat, more : BOOLEAN,
                    acked : Prefixes, reap : Prefixes, unacked : Prefixes]
  <2>1. Cardinality(taken) \in Nat
    BY <1>2, CardinalityOfSeqs
  <2> HIDE DEF taken
  <2>2. NextPhase(collect.phase) \in Phase
    BY <1>1 DEF NextPhase, Phase
  <2>3. NoPrefix \in Prefixes
    BY ConstantsAssumption DEF NoPrefix, Prefixes
  <2>4. PICK phase \in Phase, more \in BOOLEAN, todo \in SUBSET Device :
          collect' = [collect EXCEPT
            !.phase = phase, !.todo = todo,
            !.count = IF phase = "done" THEN 0 ELSE @ + Cardinality(taken),
            !.acked = IF phase = "acked" THEN @ ELSE NoPrefix,
            !.reap  = IF phase = "done" THEN NoPrefix ELSE @,
            !.more  = more]
    BY <1>1, <2>2 DEF CollectDevice, Inv, TypeOK, Phase, taken
  <2>5. /\ (IF phase = "done" THEN 0 ELSE collect.count + Cardinality(taken)) \in Nat
        /\ (IF phase = "acked" THEN collect.acked ELSE NoPrefix) \in Prefixes
        /\ (IF phase = "done" THEN NoPrefix ELSE collect.reap) \in Prefixes
        /\ collect.unacked \in Prefixes
    BY <2>1, <2>3 DEF Inv, TypeOK
  <2>6. collect' = [phase |-> phase, todo |-> todo,
                    count |-> IF phase = "done" THEN 0 ELSE collect.count + Cardinality(taken),
                    more |-> more,
                    acked |-> IF phase = "acked" THEN collect.acked ELSE NoPrefix,
                    reap |-> IF phase = "done" THEN NoPrefix ELSE collect.reap,
                    unacked |-> collect.unacked]
    BY <2>4 DEF Inv, TypeOK
  <2> QED
    BY <2>5, <2>6
<1>4. state' \in [Device -> [Seqs -> RowState]]
  <2>1. state' = [state EXCEPT ![d] = [s \in Seqs |-> row(s)]]
    BY DEF CollectDevice
  <2>2. \A s \in Seqs : row(s) \in RowState
    BY DEF Inv, TypeOK, RowState
  <2> HIDE DEF row
  <2> QED
    BY <2>1, <2>2 DEF Inv, TypeOK
<1>5. body' \in [Device -> [Seqs -> Body \union {NoBody}]]
  <2>1. body' = [body EXCEPT ![d] =
                   [s \in Seqs |-> IF state'[d][s] = "absent" THEN NoBody ELSE body[d][s]]]
    BY DEF CollectDevice
  <2> QED
    BY <2>1 DEF Inv, TypeOK
<1> QED
  BY <1>3, <1>4, <1>5 DEF Inv, TypeOK, CollectDevice, cursorVars, quotaVars

\* A retention step keeps the evidence of every loss.
LEMMA CollectKeepsFloor ==
  ASSUME Inv, NEW d \in Device, CollectDevice(d)
  PROVE  \A e \in Device, c \in Int : CursorTooOld(e, c) => CursorTooOld(e, c)'
<1>0. PICK taken \in SUBSET Seqs : Moves(d, taken)
  BY CollectDeviceRows
<1> USE DEF Moves
<1> SUFFICES ASSUME NEW e \in Device, NEW c \in Int, CursorTooOld(e, c)
             PROVE  CursorTooOld(e, c)'
  OBVIOUS
<1>1. CASE e = d /\ collect.phase = "reap"
  <2> DEFINE E == {s \in Seqs : state[d][s] = "expired"}
  <2>1. taken \in SUBSET E /\ \A s \in taken : \E t \in E : t > s
    BY <1>0, <1>1
  <2>2. \E s \in E : s > c
    BY <1>1 DEF CursorTooOld
  <2>3. E \in SUBSET Seqs
    OBVIOUS
  <2>4. \E s \in E \ taken : s > c
    <3> HIDE DEF E
    <3> QED
      BY <2>1, <2>2, <2>3, ReapKeepsFloor
  <2> QED
    BY <1>0, <1>1, <2>4 DEF CursorTooOld
<1>2. CASE ~(e = d /\ collect.phase = "reap")
  BY <1>0, <1>2 DEF CursorTooOld
<1> QED
  BY <1>1, <1>2

\* A retention step keeps the invariant: what it deletes is consumed, or a dead
\* letter below another one.
LEMMA CollectDeviceInv ==
  ASSUME Inv, NEW d \in Device, CollectDevice(d)
  PROVE  Inv'
<1>1. PICK taken \in SUBSET Seqs : Moves(d, taken)
  BY CollectDeviceRows
<1> USE DEF Moves
<1>2. /\ UNCHANGED <<nextSeq, deliveredSeq, ackedSeq, closed, tail>>
      /\ tail[d] = NoAppend
      /\ collect'.unacked = collect.unacked
  BY DEF CollectDevice, ChainFree, cursorVars, Inv, TypeOK
<1>3. TypeOK'
  BY CollectDeviceType
<1>5. (CursorsOrdered /\ FreshSeqs /\ AckSplits)'
  BY <1>1, <1>2 DEF Inv, CursorsOrdered, FreshSeqs, AckSplits
<1>6. \A e \in Device, c \in Int : CursorTooOld(e, c) => CursorTooOld(e, c)'
  BY CollectKeepsFloor
<1>7. GapsBelowFloor'
  <2> SUFFICES ASSUME NEW e \in Device, NEW s \in Seqs,
                      ackedSeq[e] < s, s < nextSeq[e], state'[e][s] = "absent"
               PROVE  CursorTooOld(e, s)'
    BY <1>2 DEF GapsBelowFloor
  <2>1. s \in Int
    BY DEF Seqs
  <2>2. CursorTooOld(e, s)
    <3>1. CASE state[e][s] = "absent"
      BY <3>1 DEF Inv, GapsBelowFloor
    <3>2. CASE state[e][s] # "absent"
      <4>1. e = d /\ s \in taken /\ collect.phase # "pending"
        BY <1>1, <3>2
      <4>2. collect.phase # "acked"
        BY <1>1, <4>1 DEF Inv, AckSplits, TypeOK, Seqs
      <4> QED
        BY <1>1, <4>1, <4>2 DEF CursorTooOld
    <3> QED
      BY <3>1, <3>2
  <2> QED
    BY <1>6, <2>1, <2>2
<1>8. AppendInFlight' /\ Bodies'
  BY <1>1, <1>2 DEF Inv, AppendInFlight, Bodies
<1>9. MessageIdsUnique'
  BY <1>1 DEF Inv, MessageIdsUnique, Retained
<1>10. ClosedStreamIsEmpty'
  BY <1>1, <1>2 DEF Inv, ClosedStreamIsEmpty, Pending
<1>11. taken = Eligible(d) /\ collect.phase = "pending" =>
         \A s \in Seqs : state'[d][s] = "pending" => s > collect.unacked[d]
  <2> SUFFICES ASSUME taken = Eligible(d), collect.phase = "pending",
                      NEW s \in Seqs, state'[d][s] = "pending"
               PROVE  s > collect.unacked[d]
    OBVIOUS
  <2>1. s \notin taken /\ state[d][s] = "pending"
    BY <1>1
  <2>2. ~(s <= collect.unacked[d])
    BY <2>1 DEF Eligible, Pending
  <2>3. collect.unacked[d] \in Int /\ s \in Int
    BY DEF Inv, TypeOK, Prefixes, Seqs
  <2> QED
    BY <2>2, <2>3
<1>12. \A e \in Device, s \in Seqs : state'[e][s] = "pending" => state[e][s] = "pending"
  BY <1>1
<1>13. CollectOK'
  <2>1. collect'.phase = "done" => collect'.todo = {}
    BY <1>1 DEF CollectDevice, Inv, TypeOK, NextPhase
  <2>2. collect'.phase = "pending" =>
          \/ collect.phase = "pending" /\ collect'.todo = collect.todo \ {d}
          \/ collect'.todo = Device
    BY <1>1 DEF CollectDevice, Inv, TypeOK, NextPhase
  <2>3. collect'.phase = "pending" =>
          \A e \in Device \ collect'.todo : \A s \in Seqs :
            state'[e][s] = "pending" => s > collect.unacked[e]
    BY <1>1, <1>11, <1>12, <2>2 DEF Inv, CollectOK
  <2> QED
    BY <1>2, <2>1, <2>3 DEF CollectOK, Inv
<1>14. SweepComplete'
  BY <1>1, <1>2, <1>11, <1>12 DEF Inv, SweepComplete, CollectOK, Pending
<1> QED
  BY <1>3, <1>5, <1>7, <1>8, <1>9, <1>10, <1>13, <1>14 DEF Inv

LEMMA NextInv == Inv /\ [Next]_vars => Inv'
<1> SUFFICES ASSUME Inv, [Next]_vars PROVE Inv'
  OBVIOUS
<1>1. ASSUME NEW d \in Device, NEW m \in MessageId, NEW adm \in Admission, AppendBegin(d, m, adm)
      PROVE  Inv'
  BY <1>1, AppendBeginInv
<1>2. ASSUME NEW d \in Device, NEW size \in ByteSize, AppendCommit(d, size) PROVE Inv'
  BY <1>2, AppendCommitInv
<1>3. ASSUME NEW d \in Device, AppendRefused(d) PROVE Inv'
  BY <1>3, AppendRefusedInv
<1>4. ASSUME NEW l \in Limit, IssueEntitlement(l) PROVE Inv'
  BY <1>4, IssueEntitlementInv
<1>5. ASSUME NEW d \in Device, NEW s \in Seqs, RecordDelivery(d, s) PROVE Inv'
  BY <1>5, RecordDeliveryInv
<1>6. ASSUME NEW d \in Device, NEW c \in 0 .. MaxSeq, AdvanceCursor(d, c) PROVE Inv'
  BY <1>6, AdvanceCursorInv
<1>7. ASSUME NEW d \in Device, NEW seqs \in SUBSET Seqs, ExpirePending(d, seqs) PROVE Inv'
  <2>1. closed \in [Device -> BOOLEAN]
    BY DEF Inv, TypeOK
  <2> QED
    BY <1>7, <2>1, ExpireInv DEF ExpirePending, ChainFree
<1>8. ASSUME NEW d \in Device, CloseStream(d) PROVE Inv'
  <2>1. closed' \in [Device -> BOOLEAN] /\ \A e \in Device : e # d => closed'[e] = closed[e]
    BY <1>8 DEF CloseStream, Inv, TypeOK
  <2> QED
    BY <1>8, <2>1, ExpireInv DEF CloseStream, ChainFree
<1>9. ASSUME NEW d \in Device, ReopenStream(d) PROVE Inv'
  BY <1>9, ReopenStreamInv
<1>10. ASSUME NEW acked \in Cutoff, NEW reap \in Cutoff, NEW unacked \in Cutoff,
              CollectBegin(acked, reap, unacked)
       PROVE  Inv'
  BY <1>10, CollectBeginInv
<1>11. ASSUME NEW d \in Device, CollectDevice(d) PROVE Inv'
  BY <1>11, CollectDeviceInv
<1>12. CASE UNCHANGED vars
  BY <1>12 DEF vars, cursorVars, rowVars, quotaVars, Inv, TypeOK, CursorsOrdered, FreshSeqs,
     AckSplits, GapsBelowFloor, CursorTooOld, AppendInFlight, Bodies, MessageIdsUnique, Retained,
     ClosedStreamIsEmpty, Pending, CollectOK, SweepComplete
<1> QED
  BY <1>1, <1>2, <1>3, <1>4, <1>5, <1>6, <1>7, <1>8, <1>9, <1>10, <1>11, <1>12 DEF Next

LEMMA InvAlways == Spec => []Inv
BY InitInv, NextInv, PTL DEF Spec

-----------------------------------------------------------------------------
(* What a step may do to a row *)

\* Every step but a retention step leaves deleted, consumed and lost rows as
\* they are, and moves a pending row only to acked or expired.
LEMMA OtherSteps ==
  ASSUME Inv, [Next]_vars, ~\E d \in Device : CollectDevice(d)
  PROVE  \A e \in Device, s \in Seqs : s < nextSeq[e] =>
           \/ state'[e][s] = state[e][s]
           \/ state[e][s] = "pending" /\ state'[e][s] \in {"acked", "expired"}
<1> DEFINE Goal == \A e \in Device, s \in Seqs : s < nextSeq[e] =>
                     \/ state'[e][s] = state[e][s]
                     \/ state[e][s] = "pending" /\ state'[e][s] \in {"acked", "expired"}
<1>1. ASSUME NEW d \in Device, NEW size \in ByteSize, AppendCommit(d, size)
      PROVE  Goal
  <2> SUFFICES ASSUME NEW e \in Device, NEW s \in Seqs, s < nextSeq[e]
               PROVE  state'[e][s] = state[e][s]
    OBVIOUS
  <2>1. state' = [state EXCEPT ![d] = [state[d] EXCEPT ![nextSeq[d]] = "pending"]]
    BY <1>1 DEF AppendCommit
  <2>2. e = d => s # nextSeq[d]
    BY DEF Inv, TypeOK, Seqs
  <2> QED
    BY <2>1, <2>2 DEF Inv, TypeOK
<1>2. ASSUME NEW d \in Device, NEW c \in 0 .. MaxSeq, AdvanceCursor(d, c)
      PROVE  Goal
  <2>1. state' = [state EXCEPT ![d] =
                    [s \in Seqs |-> IF s <= c /\ state[d][s] = "pending"
                                    THEN "acked" ELSE state[d][s]]]
    BY <1>2 DEF AdvanceCursor, Ackable
  <2> QED
    BY <2>1 DEF Inv, TypeOK
<1>3. ASSUME NEW d \in Device, NEW seqs \in SUBSET Seqs, ExpirePending(d, seqs)
      PROVE  Goal
  <2>1. state' = Expire(d, seqs)
    BY <1>3 DEF ExpirePending
  <2> QED
    BY <2>1 DEF Expire, Inv, TypeOK
<1>4. ASSUME NEW d \in Device, CloseStream(d)
      PROVE  Goal
  <2>1. state' = Expire(d, Seqs)
    BY <1>4 DEF CloseStream
  <2> QED
    BY <2>1 DEF Expire, Inv, TypeOK
<1>5. CASE UNCHANGED state
  BY <1>5
<1>6. \/ \E d \in Device, size \in ByteSize : AppendCommit(d, size)
      \/ \E d \in Device, c \in 0 .. MaxSeq : AdvanceCursor(d, c)
      \/ \E d \in Device, seqs \in SUBSET Seqs : ExpirePending(d, seqs)
      \/ \E d \in Device : CloseStream(d)
      \/ UNCHANGED state
  <2>1. CASE Next
    BY <2>1 DEF Next, rowVars, AppendBegin, AppendRefused, IssueEntitlement, RecordDelivery,
       ReopenStream, CollectBegin
  <2>2. CASE UNCHANGED vars
    BY <2>2 DEF vars, rowVars
  <2> QED
    BY <2>1, <2>2
<1> QED
  BY <1>1, <1>2, <1>3, <1>4, <1>5, <1>6

-----------------------------------------------------------------------------
(* The theorems *)

\* Every variable keeps its type: no operation of the store allocates a
\* sequence number past its bound or leaves a row, a call or a cursor malformed.
THEOREM TypeCorrect == Spec => []TypeOK
BY InvAlways, PTL DEF Inv

\* An accepted cursor has no gap above it (events.ts serves it a complete tail).
THEOREM WindowIsComplete == Spec => []WindowComplete
<1>1. Inv => WindowComplete
  <2> SUFFICES ASSUME Inv, NEW d \in Device, NEW s \in Seqs,
                      ackedSeq[d] < s, s < nextSeq[d], ~CursorTooOld(d, s - 1)
               PROVE  state[d][s] = "pending"
    BY DEF WindowComplete
  <2>1. \A t \in Seqs : t >= s => state[d][t] # "expired"
    BY DEF CursorTooOld, Seqs
  <2>2. state[d][s] # "absent"
    BY <2>1 DEF Inv, GapsBelowFloor, CursorTooOld, Seqs
  <2>3. state[d][s] # "acked"
    BY DEF Inv, AckSplits, TypeOK, Seqs
  <2>4. state[d][s] # "expired"
    BY <2>1 DEF Seqs
  <2> QED
    BY <2>2, <2>3, <2>4 DEF Inv, TypeOK, RowState
<1> QED
  BY <1>1, InvAlways, PTL

\* No two retained rows of a device share a message id (append's dedup).
THEOREM MessageIdsAreUnique == Spec => []MessageIdsUnique
BY InvAlways, PTL DEF Inv

\* A closed stream owes its device nothing (closeStream against appends).
THEOREM ClosedStreamsAreEmpty == Spec => []ClosedStreamIsEmpty
BY InvAlways, PTL DEF Inv

\* collectExpired answers more = false only when no row is left to expire.
THEOREM SweepsAreComplete == Spec => []SweepComplete
BY InvAlways, PTL DEF Inv

\* Once a cursor is too old it stays too old: recoverableFrom is monotonic.
THEOREM FloorIsMonotonic == Spec => FloorNeverDrops
<1>1. ASSUME Inv, [Next]_vars
      PROVE  FloorStep
  <2> SUFFICES ASSUME NEW e \in Device, NEW c \in 0 .. MaxSeq, CursorTooOld(e, c)
               PROVE  CursorTooOld(e, c)'
    BY DEF FloorStep
  <2> USE <1>1
  <2>1. PICK s \in Seqs : s > c /\ state[e][s] = "expired"
    BY DEF CursorTooOld
  <2>2. CASE state'[e][s] = "expired"
    BY <2>1, <2>2 DEF CursorTooOld
  <2>3. CASE \E d \in Device : CollectDevice(d)
    <3>1. PICK d \in Device : CollectDevice(d)
      BY <2>3
    <3> QED
      BY <3>1, CollectKeepsFloor DEF Inv, TypeOK
  <2>4. CASE ~\E d \in Device : CollectDevice(d)
    <3>1. s < nextSeq[e]
      <4>1. ~(nextSeq[e] <= s)
        BY <2>1 DEF Inv, FreshSeqs
      <4> QED
        BY <4>1 DEF Inv, TypeOK, Seqs
    <3> QED
      BY <2>1, <2>4, <3>1, OtherSteps DEF CursorTooOld
  <2> QED
    BY <2>2, <2>3, <2>4
<1> QED
  BY <1>1, InvAlways, PTL DEF Spec, FloorNeverDrops

\* Rows leave pending once, and a deleted row's sequence number stays unused.
THEOREM RowsAreNeverRevived == Spec => RowsNeverReturn
<1>1. ASSUME Inv, [Next]_vars
      PROVE  RowStep
  <2> SUFFICES ASSUME NEW e \in Device, NEW s \in Seqs, s < nextSeq[e]
               PROVE  state'[e][s] \in MayBecome[state[e][s]]
    BY DEF RowStep
  <2> USE <1>1
  <2>1. state[e][s] \in RowState
    BY DEF Inv, TypeOK
  <2>2. CASE ~\E d \in Device : CollectDevice(d)
    BY <2>1, <2>2, OtherSteps DEF MayBecome, RowState
  <2>3. ASSUME NEW d \in Device, CollectDevice(d)
        PROVE  state'[e][s] \in MayBecome[state[e][s]]
    <3>1. PICK taken \in SUBSET Seqs : Moves(d, taken)
      BY <2>3, CollectDeviceRows
    <3>2. \/ state'[e][s] = state[e][s]
          \/ state[e][s] \in {"acked", "expired"} /\ state'[e][s] = "absent"
          \/ state[e][s] = "pending" /\ state'[e][s] = "expired"
      BY <3>1 DEF Moves
    <3> QED
      BY <2>1, <3>2 DEF MayBecome, RowState
  <2> QED
    BY <2>2, <2>3
<1> QED
  BY <1>1, InvAlways, PTL DEF Spec, RowsNeverReturn

-----------------------------------------------------------------------------
(* Every device's stream is a DeviceStream *)

\* An append, a delivery, an acknowledgement or a loss of the store is one of
\* the stream it is made on.
LEMMA AppendIsAppend ==
  ASSUME Inv, NEW d \in Device, NEW size \in ByteSize, AppendCommit(d, size)
  PROVE  Stream(d)!AppendNext
<1>1. /\ state' = [state EXCEPT ![d] = [state[d] EXCEPT ![nextSeq[d]] = "pending"]]
      /\ nextSeq' = [nextSeq EXCEPT ![d] = nextSeq[d] + 1]
      /\ UNCHANGED <<deliveredSeq, ackedSeq>>
      /\ tail[d] # NoAppend
  BY DEF AppendCommit, cursorVars
<1>2. nextSeq[d] <= MaxSeq
  BY <1>1 DEF Inv, AppendInFlight
<1> QED
  BY <1>1, <1>2 DEF Stream!AppendNext, Inv, TypeOK, Seqs

LEMMA DeliveryIsDeliver ==
  ASSUME Inv, NEW d \in Device, NEW s \in Seqs, RecordDelivery(d, s)
  PROVE  Stream(d)!Deliver(s)
<1>1. /\ deliveredSeq' = [deliveredSeq EXCEPT ![d] = IF s > @ THEN s ELSE @]
      /\ s < nextSeq[d]
      /\ UNCHANGED <<nextSeq, ackedSeq, state>>
  BY DEF RecordDelivery, Watermark, rowVars, Inv, TypeOK, Seqs
<1> QED
  BY <1>1 DEF Stream!Deliver, Inv, TypeOK

LEMMA AdvanceIsAck ==
  ASSUME Inv, NEW d \in Device, NEW c \in 0 .. MaxSeq, AdvanceCursor(d, c)
  PROVE  Stream(d)!Ack(c)
<1>1. /\ ackedSeq' = [ackedSeq EXCEPT ![d] = c]
      /\ state' = [state EXCEPT ![d] =
                     [s \in Seqs |-> IF s <= c /\ state[d][s] = "pending" THEN "acked" ELSE state[d][s]]]
      /\ c >= ackedSeq[d] /\ c <= deliveredSeq[d]
      /\ UNCHANGED <<nextSeq, deliveredSeq>>
  BY DEF AdvanceCursor, Ackable
<1> QED
  BY <1>1 DEF Stream!Ack, Inv, TypeOK, Seqs

LEMMA ExpireIsLose ==
  ASSUME Inv, NEW d \in Device, NEW S \in SUBSET Seqs, state' = Expire(d, S),
         UNCHANGED <<nextSeq, deliveredSeq, ackedSeq>>
  PROVE  Stream(d)!Lose(S)
<1>1. state'[d] = [s \in Seqs |-> IF s \in S /\ state[d][s] = "pending" THEN "expired" ELSE state[d][s]]
  BY DEF Expire, Inv, TypeOK
<1> QED
  BY <1>1 DEF Stream!Lose, Seqs

\* A retention step forgets rows of its device, or loses them: the deleted dead
\* letters lie below one that stays.
LEMMA CollectIsForgetOrLose ==
  ASSUME Inv, NEW d \in Device, CollectDevice(d)
  PROVE  \E S \in SUBSET Seqs : Stream(d)!Lose(S) \/ Stream(d)!Forget(S)
<1>1. PICK taken \in SUBSET Seqs : Moves(d, taken)
  BY CollectDeviceRows
<1>2. UNCHANGED <<nextSeq, deliveredSeq, ackedSeq>> /\ state' \in [Device -> [Seqs -> RowState]]
  <2>1. TypeOK'
    BY CollectDeviceType
  <2> QED
    BY <2>1 DEF CollectDevice, cursorVars, TypeOK
<1>3. CASE collect.phase = "pending"
  <2>1. state'[d] = [s \in Seqs |-> IF s \in taken /\ state[d][s] = "pending"
                                    THEN "expired" ELSE state[d][s]]
    BY <1>1, <1>2, <1>3 DEF Moves
  <2>2. Stream(d)!Lose(taken)
    BY <1>2, <2>1 DEF Stream!Lose, Seqs
  <2> QED
    BY <2>2
<1>4. CASE collect.phase # "pending"
  <2>1. state'[d] = [s \in Seqs |-> IF s \in taken THEN "absent" ELSE state[d][s]]
    BY <1>1, <1>2, <1>4 DEF Moves
  <2>2. ASSUME NEW s \in taken
        PROVE  \/ state[d][s] = "acked"
               \/ /\ state[d][s] = "expired"
                  /\ \E t \in Seqs \ taken : t > s /\ state[d][t] = "expired"
    <3> DEFINE E == {t \in Seqs : state[d][t] = "expired"}
    <3>1. CASE collect.phase = "acked"
      BY <1>1, <3>1 DEF Moves
    <3>2. CASE collect.phase = "reap"
      <4>1. taken \in SUBSET E /\ \A x \in taken : \E t \in E : t > x
        BY <1>1, <3>2 DEF Moves
      <4>2. s \in Int /\ E \in SUBSET Seqs
        BY DEF Seqs
      <4>3. \E t \in E \ taken : t > s
        <5> HIDE DEF E
        <5> QED
          BY <4>1, <4>2, ReapKeepsFloor
      <4> QED
        BY <4>1, <4>3
    <3> QED
      BY <1>1, <1>4, <3>1, <3>2 DEF Moves
  <2>3. Stream(d)!Forget(taken)
    BY <1>2, <2>1, <2>2 DEF Stream!Forget, Seqs
  <2> QED
    BY <2>3
<1> QED
  BY <1>3, <1>4

\* The mailbox store implements the contract of one stream for every device.
THEOREM StreamsAreImplemented == Spec => ImplementsStreams
<1>1. Init => StreamsInit
  BY DEF Init, StreamsInit, Stream!StreamInit, Seqs
<1>2. ASSUME Inv, [Next]_vars
      PROVE  StreamsStep
  <2> SUFFICES ASSUME NEW e \in Device
               PROVE  Stream(e)!StreamNext \/ UNCHANGED Stream(e)!streamVars
    BY DEF StreamsStep
  <2> USE <1>2
  <2>1. ASSUME NEW d \in Device, NEW size \in ByteSize, AppendCommit(d, size)
        PROVE  Stream(e)!StreamNext \/ UNCHANGED Stream(e)!streamVars
    <3>1. CASE e = d
      BY <2>1, <3>1, AppendIsAppend DEF Stream!StreamNext
    <3>2. CASE e # d
      BY <2>1, <3>2 DEF AppendCommit, cursorVars, Stream!streamVars, Inv, TypeOK
    <3> QED
      BY <3>1, <3>2
  <2>2. ASSUME NEW d \in Device, NEW s \in Seqs, RecordDelivery(d, s)
        PROVE  Stream(e)!StreamNext \/ UNCHANGED Stream(e)!streamVars
    <3>1. CASE e = d
      BY <2>2, <3>1, DeliveryIsDeliver DEF Stream!StreamNext, Seqs
    <3>2. CASE e # d
      BY <2>2, <3>2 DEF RecordDelivery, rowVars, Stream!streamVars, Inv, TypeOK
    <3> QED
      BY <3>1, <3>2
  <2>3. ASSUME NEW d \in Device, NEW c \in 0 .. MaxSeq, AdvanceCursor(d, c)
        PROVE  Stream(e)!StreamNext \/ UNCHANGED Stream(e)!streamVars
    <3>1. CASE e = d
      BY <2>3, <3>1, AdvanceIsAck DEF Stream!StreamNext
    <3>2. CASE e # d
      BY <2>3, <3>2 DEF AdvanceCursor, Stream!streamVars, Inv, TypeOK
    <3> QED
      BY <3>1, <3>2
  <2>4. ASSUME NEW d \in Device, NEW S \in SUBSET Seqs, state' = Expire(d, S),
               UNCHANGED <<nextSeq, deliveredSeq, ackedSeq>>
        PROVE  Stream(e)!StreamNext \/ UNCHANGED Stream(e)!streamVars
    <3>1. CASE e = d
      BY <2>4, <3>1, ExpireIsLose DEF Stream!StreamNext, Seqs
    <3>2. CASE e # d
      BY <2>4, <3>2 DEF Expire, Stream!streamVars, Inv, TypeOK
    <3> QED
      BY <3>1, <3>2
  <2>5. ASSUME NEW d \in Device, CollectDevice(d)
        PROVE  Stream(e)!StreamNext \/ UNCHANGED Stream(e)!streamVars
    <3>1. CASE e = d
      BY <2>5, <3>1, CollectIsForgetOrLose DEF Stream!StreamNext, Seqs
    <3>2. CASE e # d
      BY <2>5, <3>2 DEF CollectDevice, cursorVars, Stream!streamVars, Inv, TypeOK
    <3> QED
      BY <3>1, <3>2
  <2>6. CASE UNCHANGED <<nextSeq, deliveredSeq, ackedSeq, state>>
    BY <2>6 DEF Stream!streamVars
  <2>7. \/ \E d \in Device, size \in ByteSize : AppendCommit(d, size)
        \/ \E d \in Device, s \in Seqs : RecordDelivery(d, s)
        \/ \E d \in Device, c \in 0 .. MaxSeq : AdvanceCursor(d, c)
        \/ \E d \in Device, S \in SUBSET Seqs :
             state' = Expire(d, S) /\ UNCHANGED <<nextSeq, deliveredSeq, ackedSeq>>
        \/ \E d \in Device : CollectDevice(d)
        \/ UNCHANGED <<nextSeq, deliveredSeq, ackedSeq, state>>
    <3>1. ASSUME NEW d \in Device, CloseStream(d)
          PROVE  state' = Expire(d, Seqs) /\ UNCHANGED <<nextSeq, deliveredSeq, ackedSeq>>
      BY <3>1 DEF CloseStream, cursorVars
    <3>2. ASSUME NEW d \in Device, NEW S \in SUBSET Seqs, ExpirePending(d, S)
          PROVE  state' = Expire(d, S) /\ UNCHANGED <<nextSeq, deliveredSeq, ackedSeq>>
      BY <3>2 DEF ExpirePending, cursorVars
    <3>3. CASE UNCHANGED vars
      BY <3>3 DEF vars, cursorVars, rowVars
    <3>4. CASE Next
      BY <3>1, <3>2, <3>4 DEF Next, AppendBegin, AppendRefused, IssueEntitlement,
         ReopenStream, CollectBegin, cursorVars, rowVars
    <3> QED
      BY <3>3, <3>4
  <2> QED
    BY <2>1, <2>2, <2>3, <2>4, <2>5, <2>6, <2>7
<1> QED
  BY <1>1, <1>2, InvAlways, PTL DEF Spec, ImplementsStreams

-----------------------------------------------------------------------------
(* The tenant's quota *)

\* Every limit that an append may be checked against was issued.
QuotaOK ==
  /\ limit <= maxLimit
  /\ \A d \in Device : tail[d] # NoAppend /\ tail[d].admission = "limited" =>
                         tail[d].limit \in Nat /\ tail[d].limit <= maxLimit
  /\ QuotaHolds

Size(r) == body[r[1]][r[2]].byteSize

\* The pending rows are finitely many, and their sizes numbers.
LEMMA PendingSum ==
  ASSUME Inv, NEW adm
  PROVE  /\ IsFiniteSet(PendingRows(adm))
         /\ \A r \in PendingRows(adm) : Size(r) \in Nat
         /\ PendingBytes(adm) = SumFunctionOnSet([r \in PendingRows(adm) |-> Size(r)], PendingRows(adm))
         /\ PendingBytes(adm) \in Nat
<1>1. IsFiniteSet(PendingRows(adm))
  <2>1. IsFiniteSet(Seqs)
    BY ConstantsAssumption, FS_Interval DEF Seqs
  <2>2. IsFiniteSet(Device \X Seqs)
    BY <2>1, ConstantsAssumption, FS_Product
  <2>3. PendingRows(adm) \subseteq Device \X Seqs
    BY DEF PendingRows
  <2> QED
    BY <2>2, <2>3, FS_Subset
<1>2. ASSUME NEW r \in PendingRows(adm) PROVE Size(r) \in Nat
  <2>1. r[1] \in Device /\ r[2] \in Seqs /\ state[r[1]][r[2]] = "pending"
    BY DEF PendingRows
  <2>2. body[r[1]][r[2]] \in Body
    BY <2>1 DEF Inv, Bodies
  <2> QED
    BY <2>2, ConstantsAssumption DEF Body, Size
<1>3. PendingBytes(adm) = SumFunctionOnSet([r \in PendingRows(adm) |-> Size(r)], PendingRows(adm))
  <2>1. DOMAIN [r \in PendingRows(adm) |-> body[r[1]][r[2]].byteSize] = PendingRows(adm)
    OBVIOUS
  <2> QED
    BY <2>1 DEF PendingBytes, SumFunction, Size
<1>4. \A x \in PendingRows(adm) : [r \in PendingRows(adm) |-> Size(r)][x] \in Nat
  BY <1>2
<1> QED
  BY <1>1, <1>2, <1>3, <1>4, SumNat

\* Fewer rows of the same sizes.
LEMMA SumShrinks ==
  ASSUME NEW S, IsFiniteSet(S), NEW w, \A x \in S : w[x] \in Nat,
         NEW T \in SUBSET S, NEW v, \A x \in T : v[x] = w[x]
  PROVE  SumFunctionOnSet(v, T) <= SumFunctionOnSet(w, S)
<1>1. IsFiniteSet(T)
  BY FS_Subset
<1>2. SumFunctionOnSet(v, T) = SumFunctionOnSet(w, T)
  BY <1>1, SumCongruent
<1>3. SumFunctionOnSet(w, T) <= SumFunctionOnSet(w, S)
  BY SumMonotone
<1> QED
  BY <1>2, <1>3

\* The limited rows are among all rows.
LEMMA LimitedWithinUsed == ASSUME Inv PROVE PendingBytes({"limited"}) <= UsedBytes
<1> DEFINE S == PendingRows(Admission)
           T == PendingRows({"limited"})
           w == [r \in S |-> Size(r)]
           v == [r \in T |-> Size(r)]
<1>1. T \in SUBSET S
  BY DEF PendingRows, Admission
<1>2. IsFiniteSet(S) /\ (\A x \in S : Size(x) \in Nat) /\ UsedBytes = SumFunctionOnSet(w, S)
  BY PendingSum DEF UsedBytes
<1>3. PendingBytes({"limited"}) = SumFunctionOnSet(v, T)
  BY PendingSum
<1>4. (\A x \in S : w[x] = Size(x)) /\ \A x \in T : v[x] = Size(x)
  OBVIOUS
<1> HIDE DEF S, T, w, v
<1>5. (\A x \in S : w[x] \in Nat) /\ \A x \in T : v[x] = w[x]
  BY <1>1, <1>2, <1>4
<1> QED
  BY <1>1, <1>2, <1>3, <1>5, SumShrinks

\* A step that makes no row pending.
LEMMA QuotaShrinks ==
  ASSUME Inv,
         \A d \in Device, s \in Seqs : state'[d][s] = "pending" =>
           state[d][s] = "pending" /\ body'[d][s] = body[d][s]
  PROVE  PendingBytes({"limited"})' \in Nat /\ PendingBytes({"limited"})' <= PendingBytes({"limited"})
<1> DEFINE S == PendingRows({"limited"})
           T == PendingRows({"limited"})'
           w == [r \in S |-> Size(r)]
           v == [r \in T |-> Size(r)']
<1>1. \A r \in T : r \in S /\ Size(r)' = Size(r)
  BY DEF PendingRows, Size
<1>2. IsFiniteSet(S) /\ (\A x \in S : Size(x) \in Nat) /\ PendingBytes({"limited"}) = SumFunctionOnSet(w, S)
  BY PendingSum
<1>3. PendingBytes({"limited"})' = SumFunctionOnSet(v, T)
  <2>1. DOMAIN v = T
    OBVIOUS
  <2> QED
    BY <2>1 DEF PendingBytes, SumFunction, Size
<1>4. (\A x \in S : w[x] = Size(x)) /\ \A x \in T : v[x] = Size(x)'
  OBVIOUS
<1> HIDE DEF S, T, w, v
<1>5. (\A x \in S : w[x] \in Nat) /\ (\A x \in T : v[x] = w[x]) /\ T \in SUBSET S
  BY <1>1, <1>2, <1>4
<1>6. IsFiniteSet(T) /\ \A x \in T : v[x] \in Nat
  BY <1>2, <1>5, FS_Subset
<1>7. SumFunctionOnSet(v, T) \in Nat
  BY <1>6, SumNat
<1> QED
  BY <1>2, <1>3, <1>5, <1>7, SumShrinks

\* An append adds the row it checked, and nothing else.
LEMMA QuotaAppend ==
  ASSUME Inv, QuotaOK, NEW d \in Device, NEW size \in ByteSize, AppendCommit(d, size)
  PROVE  QuotaHolds'
<1> DEFINE n == nextSeq[d]
<1>1. n \in Seqs /\ tail[d] \in AppendCall /\ state[d][n] = "absent"
  BY ConstantsAssumption DEF Inv, AppendInFlight, FreshSeqs, TypeOK, Seqs, AppendCommit
<1>2. /\ \A e \in Device, s \in Seqs : e # d \/ s # n =>
            state'[e][s] = state[e][s] /\ body'[e][s] = body[e][s]
      /\ state'[d][n] = "pending"
      /\ body'[d][n] = [messageId |-> tail[d].messageId, byteSize |-> size, admission |-> tail[d].admission]
  BY <1>1 DEF Inv, TypeOK, AppendCommit
<1>3. body'[d][n].byteSize = size /\ body'[d][n].admission = tail[d].admission /\ maxLimit' = maxLimit
  BY <1>2 DEF AppendCommit, quotaVars
<1> HIDE DEF n
<1>4. maxLimit \in Nat /\ size \in Nat
  BY ConstantsAssumption DEF Inv, TypeOK
<1>5. PICK y : y = <<d, n>>
  OBVIOUS
<1> DEFINE S == PendingRows({"limited"})
           T == PendingRows({"limited"})'
           w == [r \in S |-> Size(r)]
           v == [r \in T |-> Size(r)']
<1>6. IsFiniteSet(S) /\ (\A x \in S : Size(x) \in Nat) /\ PendingBytes({"limited"}) = SumFunctionOnSet(w, S)
      /\ PendingBytes({"limited"}) \in Nat
  BY PendingSum
<1>7. PendingBytes({"limited"})' = SumFunctionOnSet(v, T)
  <2>1. DOMAIN v = T
    OBVIOUS
  <2> QED
    BY <2>1 DEF PendingBytes, SumFunction, Size
<1>8. y[1] = d /\ y[2] = n /\ y \in Device \X Seqs /\ \A r \in Device \X Seqs : r[1] = d /\ r[2] = n => r = y
  BY <1>1, <1>5
<1>9. \A r \in Device \X Seqs : r # y =>
        (r \in T <=> r \in S) /\ Size(r)' = Size(r)
  BY <1>2, <1>8 DEF PendingRows, Size
<1>10. y \notin S /\ (y \in T <=> tail[d].admission = "limited") /\ Size(y)' = size
  BY <1>1, <1>2, <1>3, <1>8 DEF PendingRows, Size
<1>11. S \subseteq Device \X Seqs /\ T \subseteq Device \X Seqs
  BY DEF PendingRows
<1>12. (\A x \in S : w[x] = Size(x)) /\ \A x \in T : v[x] = Size(x)'
  OBVIOUS
<1> HIDE DEF S, T, w, v
<1>13. CASE tail[d].admission # "limited"
  <2>1. T = S /\ \A x \in S : v[x] = w[x]
    BY <1>9, <1>10, <1>11, <1>12, <1>13
  <2>2. SumFunctionOnSet(v, T) = SumFunctionOnSet(w, S)
    BY <1>6, <2>1, SumCongruent
  <2> QED
    BY <1>3, <1>6, <1>7, <2>2 DEF QuotaOK, QuotaHolds
<1>14. CASE tail[d].admission = "limited"
  <2>1. T = S \union {y} /\ (\A x \in S : v[x] = w[x]) /\ v[y] = size
    BY <1>9, <1>10, <1>11, <1>12, <1>14
  <2>2. \A x \in S \union {y} : v[x] \in Nat
    BY <1>4, <1>6, <1>12, <2>1
  <2>3. SumFunctionOnSet(v, T) = size + SumFunctionOnSet(v, S)
    BY <1>6, <1>10, <2>1, <2>2, SumAdd
  <2>4. SumFunctionOnSet(v, S) = SumFunctionOnSet(w, S)
    BY <1>6, <2>1, SumCongruent
  <2>5. PendingBytes({"limited"})' = size + PendingBytes({"limited"})
    BY <1>6, <1>7, <2>3, <2>4
  <2>6. tail[d].limit \in Nat /\ tail[d].limit <= maxLimit /\ UsedBytes + size <= tail[d].limit
    BY <1>14, ConstantsAssumption DEF AppendCommit, QuotaOK, Admits
  <2>7. PendingBytes({"limited"}) <= UsedBytes /\ UsedBytes \in Nat
    BY LimitedWithinUsed, PendingSum DEF UsedBytes
  <2> QED
    BY <1>3, <1>4, <1>6, <2>5, <2>6, <2>7 DEF QuotaHolds
<1> QED
  BY <1>13, <1>14

\* The limits that appends in flight read, and the highest one issued.
LEMMA QuotaLimits ==
  ASSUME Inv, QuotaOK, [Next]_vars
  PROVE  /\ limit' <= maxLimit' /\ maxLimit <= maxLimit' /\ maxLimit' \in Nat
         /\ \A d \in Device : tail'[d] # NoAppend /\ tail'[d].admission = "limited" =>
                                tail'[d].limit \in Nat /\ tail'[d].limit <= maxLimit'
<1> DEFINE Goal ==
         /\ limit' <= maxLimit' /\ maxLimit <= maxLimit' /\ maxLimit' \in Nat
         /\ \A d \in Device : tail'[d] # NoAppend /\ tail'[d].admission = "limited" =>
                                tail'[d].limit \in Nat /\ tail'[d].limit <= maxLimit'
<1>1. limit \in Nat /\ maxLimit \in Nat /\ limit <= maxLimit /\ tail \in [Device -> AppendCall \union {NoAppend}]
  BY ConstantsAssumption DEF Inv, TypeOK, QuotaOK
<1>2. \A d \in Device : tail[d] # NoAppend /\ tail[d].admission = "limited" =>
                          tail[d].limit \in Nat /\ tail[d].limit <= maxLimit
  BY DEF QuotaOK
<1>3. ASSUME NEW d \in Device, NEW m \in MessageId, NEW adm \in Admission, AppendBegin(d, m, adm) PROVE Goal
  <2> DEFINE c == [messageId |-> m, admission |-> adm, limit |-> IF adm = "cancellation" THEN Unlimited ELSE limit]
  <2>1. tail' = [tail EXCEPT ![d] = c] /\ limit' = limit /\ maxLimit' = maxLimit
    BY <1>3 DEF AppendBegin, quotaVars
  <2>2. c.admission = adm /\ (adm = "limited" => c.limit = limit)
    OBVIOUS
  <2> HIDE DEF c
  <2> QED
    BY <1>1, <1>2, <2>1, <2>2
<1>4. ASSUME NEW d \in Device, tail' = [tail EXCEPT ![d] = NoAppend], UNCHANGED quotaVars PROVE Goal
  BY <1>1, <1>2, <1>4 DEF quotaVars
<1>5. ASSUME NEW l \in Limit, IssueEntitlement(l) PROVE Goal
  <2>1. l \in Nat
    BY ConstantsAssumption
  <2>2. /\ limit' = l /\ maxLimit' = (IF l > maxLimit THEN l ELSE maxLimit) /\ tail' = tail
    BY <1>5 DEF IssueEntitlement
  <2>3. limit' <= maxLimit' /\ maxLimit <= maxLimit' /\ maxLimit' \in Nat
    BY <1>1, <2>1, <2>2
  <2> QED
    BY <1>1, <1>2, <2>2, <2>3
<1>6. CASE UNCHANGED <<tail, quotaVars>>
  BY <1>1, <1>2, <1>6 DEF quotaVars
<1>7. \/ \E d \in Device, m \in MessageId, adm \in Admission : AppendBegin(d, m, adm)
      \/ \E d \in Device : tail' = [tail EXCEPT ![d] = NoAppend] /\ UNCHANGED quotaVars
      \/ \E l \in Limit : IssueEntitlement(l)
      \/ UNCHANGED <<tail, quotaVars>>
  <2>1. CASE Next
    BY <2>1 DEF Next, AppendCommit, AppendRefused, RecordDelivery, AdvanceCursor, ExpirePending, CloseStream,
       ReopenStream, CollectBegin, CollectDevice
  <2>2. CASE UNCHANGED vars
    BY <2>2 DEF vars
  <2> QED
    BY <2>1, <2>2
<1> QED
  BY <1>3, <1>4, <1>5, <1>6, <1>7

\* Only an append makes a row pending, and no step changes a pending row's body.
LEMMA PendingFromAppend ==
  ASSUME Inv, [Next]_vars, ~\E d \in Device, size \in ByteSize : AppendCommit(d, size),
         NEW e \in Device, NEW s \in Seqs, state'[e][s] = "pending"
  PROVE  state[e][s] = "pending" /\ body'[e][s] = body[e][s]
<1>1. ASSUME NEW d \in Device, CollectDevice(d) PROVE state[e][s] = "pending" /\ body'[e][s] = body[e][s]
  <2>1. PICK taken \in SUBSET Seqs : Moves(d, taken)
    BY <1>1, CollectDeviceRows
  <2> QED
    BY <2>1 DEF Moves
<1>2. CASE UNCHANGED rowVars
  BY <1>2 DEF rowVars
<1>3. ASSUME NEW d \in Device, NEW c \in 0 .. MaxSeq, AdvanceCursor(d, c)
      PROVE  state[e][s] = "pending" /\ body'[e][s] = body[e][s]
  <2>1. /\ state' = [state EXCEPT ![d] = [t \in Seqs |-> IF t <= c /\ state[d][t] = "pending"
                                                         THEN "acked" ELSE state[d][t]]]
        /\ body' = body
    BY <1>3 DEF AdvanceCursor
  <2> QED
    BY <2>1 DEF Inv, TypeOK
<1>4. ASSUME NEW d \in Device, NEW seqs \in SUBSET Seqs, state' = Expire(d, seqs), body' = body
      PROVE  state[e][s] = "pending" /\ body'[e][s] = body[e][s]
  BY <1>4 DEF Expire, Inv, TypeOK
<1>5. \/ \E d \in Device : CollectDevice(d)
      \/ UNCHANGED rowVars
      \/ \E d \in Device, c \in 0 .. MaxSeq : AdvanceCursor(d, c)
      \/ \E d \in Device, seqs \in SUBSET Seqs : state' = Expire(d, seqs) /\ body' = body
  <2>1. CASE Next
    <3>1. ASSUME NEW d \in Device, CloseStream(d)
          PROVE  \E seqs \in SUBSET Seqs : state' = Expire(d, seqs) /\ body' = body
      BY <3>1 DEF CloseStream
    <3> QED
      BY <2>1, <3>1 DEF Next, AppendBegin, AppendRefused, IssueEntitlement, RecordDelivery, ExpirePending,
         ReopenStream, CollectBegin
  <2>2. CASE UNCHANGED vars
    BY <2>2 DEF vars
  <2> QED
    BY <2>1, <2>2
<1> QED
  BY <1>1, <1>2, <1>3, <1>4, <1>5

LEMMA QuotaStep == Inv /\ QuotaOK /\ [Next]_vars => QuotaOK'
<1> SUFFICES ASSUME Inv, QuotaOK, [Next]_vars PROVE QuotaOK'
  OBVIOUS
<1>1. /\ limit' <= maxLimit' /\ maxLimit <= maxLimit' /\ maxLimit' \in Nat
      /\ \A d \in Device : tail'[d] # NoAppend /\ tail'[d].admission = "limited" =>
                             tail'[d].limit \in Nat /\ tail'[d].limit <= maxLimit'
  BY QuotaLimits
<1>2. CASE \E d \in Device, size \in ByteSize : AppendCommit(d, size)
  BY <1>1, <1>2, QuotaAppend DEF QuotaOK
<1>3. CASE ~\E d \in Device, size \in ByteSize : AppendCommit(d, size)
  <2>1. \A d \in Device, s \in Seqs : state'[d][s] = "pending" =>
          state[d][s] = "pending" /\ body'[d][s] = body[d][s]
    BY <1>3, PendingFromAppend
  <2>2. PendingBytes({"limited"})' \in Nat /\ PendingBytes({"limited"})' <= PendingBytes({"limited"})
    BY <2>1, QuotaShrinks
  <2>3. PendingBytes({"limited"}) \in Nat
    BY PendingSum
  <2>4. PendingBytes({"limited"}) <= maxLimit /\ maxLimit \in Nat
    BY ConstantsAssumption DEF QuotaOK, QuotaHolds, Inv, TypeOK
  <2>5. QuotaHolds'
    BY <1>1, <2>2, <2>3, <2>4 DEF QuotaHolds
  <2> QED
    BY <1>1, <2>5 DEF QuotaOK
<1> QED
  BY <1>2, <1>3

\* The limited rows pending over all devices stay within the highest limit
\* issued, although appends of many devices read their limit before they wait.
THEOREM QuotaIsKept == Spec => []QuotaHolds
<1>1. Init => QuotaOK
  <2> SUFFICES ASSUME Init PROVE QuotaOK
    OBVIOUS
  <2>1. limit \in Nat /\ maxLimit = limit
    BY ConstantsAssumption DEF Init
  <2>2. PendingRows({"limited"}) = {}
    BY DEF Init, PendingRows
  <2>3. PendingBytes({"limited"}) = 0
    BY <2>2, SumEmpty DEF PendingBytes, SumFunction
  <2> QED
    BY <2>1, <2>3 DEF Init, QuotaOK, QuotaHolds
<1>2. Inv /\ QuotaOK /\ [Next]_vars => QuotaOK'
  BY QuotaStep
<1>3. QuotaOK => QuotaHolds
  BY DEF QuotaOK
<1> QED
  BY <1>1, <1>2, <1>3, InvAlways, PTL DEF Spec
=============================================================================
