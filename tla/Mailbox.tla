------------------------------- MODULE Mailbox -------------------------------
(***************************************************************************)
(* The per-device mailbox of one tenant: the in-memory reference store of  *)
(* packages/core/src/in-memory/mailbox.ts.  Every device has an ordered    *)
(* stream of rows.  A row is appended `pending' under a fresh sequence     *)
(* number, and leaves `pending' once: to `acked' when the device returns a *)
(* cursor at or above it, or to `expired' when retention, an abandoned     *)
(* task or a retired device dead-letters it.  Retention deletes old rows.  *)
(*                                                                         *)
(* The store serialises the mutations of one device on a promise chain     *)
(* (mutationTail).  An append holds the chain while it awaits the tenant's *)
(* limit and the materialisation of the body; every other mutation is one  *)
(* synchronous step.  Reads never wait for the chain.                      *)
(*                                                                         *)
(* Timestamps are abstracted.  appendedAt grows with seq on one device, so *)
(* a retention cutoff instant is, for each device, a prefix of the         *)
(* sequence numbers already allocated.                                     *)
(***************************************************************************)
EXTENDS Integers, FiniteSets, FiniteSetsExt

CONSTANTS
  Device,        \* the tenant's device ids
  MessageId,     \* producer-supplied idempotency keys
  ByteSize,      \* the sizes a materialised body may have
  Limit,         \* the mailbox limits an entitlement may carry
  Cutoff,        \* the retention cutoffs explored: prefixes per device
  MaxSeq,        \* bound on the sequence numbers of one device
  CollectLimit,  \* collectExpired's `limit'
  NoBody,        \* the body of an absent row
  NoAppend,      \* no append holds the device's mutation chain
  Unlimited      \* the limit an exempt (cancellation) append is checked against

ASSUME ConstantsAssumption ==
  /\ IsFiniteSet(Device)
  /\ ByteSize \subseteq Nat
  /\ Limit \subseteq Nat
  /\ MaxSeq \in Nat
  /\ CollectLimit \in Nat \ {0}
  /\ Unlimited \notin Nat

Seqs       == 1 .. MaxSeq
Admission  == {"limited", "cancellation"}
RowState   == {"absent", "pending", "acked", "expired"}
Body       == [messageId : MessageId, byteSize : ByteSize, admission : Admission]
AppendCall == [messageId : MessageId, admission : Admission, limit : Limit \union {Unlimited}]
Prefixes   == [Device -> 0 .. MaxSeq]
NoPrefix   == [d \in Device |-> 0]
Phase      == {"acked", "reap", "pending", "done"}

ASSUME CutoffAssumption == Cutoff \subseteq Prefixes
ASSUME SentinelsAssumption == NoAppend \notin AppendCall /\ NoBody \notin Body

VARIABLES
  nextSeq,       \* the next sequence number of each device
  deliveredSeq,  \* highest cursor the server returned to the device
  ackedSeq,      \* highest cursor the device brought back
  closed,        \* the stream of a retired device refuses appends
  state,         \* state[d][s]: the state of row s of device d
  body,          \* body[d][s]: its idempotency key, its size and how it was admitted
  tail,          \* the append in flight on each device's mutation chain
  limit,         \* the mailbox limit of the tenant's current entitlement
  maxLimit,      \* (history) the highest limit ever issued
  collect        \* the retention call in flight, or the result of the last one

cursorVars == <<deliveredSeq, ackedSeq>>
rowVars    == <<state, body>>
quotaVars  == <<limit, maxLimit>>
vars == <<nextSeq, cursorVars, closed, rowVars, tail, quotaVars, collect>>

TypeOK ==
  /\ nextSeq \in [Device -> 1 .. MaxSeq + 1]
  /\ deliveredSeq \in [Device -> 0 .. MaxSeq]
  /\ ackedSeq \in [Device -> 0 .. MaxSeq]
  /\ closed \in [Device -> BOOLEAN]
  /\ state \in [Device -> [Seqs -> RowState]]
  /\ body \in [Device -> [Seqs -> Body \union {NoBody}]]
  /\ tail \in [Device -> AppendCall \union {NoAppend}]
  /\ limit \in Limit
  /\ maxLimit \in Limit
  /\ collect \in [phase : Phase, todo : SUBSET Device, count : Nat, more : BOOLEAN,
                  acked : Prefixes, reap : Prefixes, unacked : Prefixes]

Init ==
  /\ nextSeq = [d \in Device |-> 1]
  /\ deliveredSeq = [d \in Device |-> 0]
  /\ ackedSeq = [d \in Device |-> 0]
  /\ closed = [d \in Device |-> FALSE]
  /\ state = [d \in Device |-> [s \in Seqs |-> "absent"]]
  /\ body = [d \in Device |-> [s \in Seqs |-> NoBody]]
  /\ tail = [d \in Device |-> NoAppend]
  /\ limit \in Limit
  /\ maxLimit = limit
  /\ collect = [phase |-> "done", todo |-> {}, count |-> 0, more |-> FALSE,
                acked |-> NoPrefix, reap |-> NoPrefix, unacked |-> NoPrefix]

-----------------------------------------------------------------------------
(* Reads *)

\* The rows a device's store retains, and those still owed to the device.
Retained(d) == {s \in Seqs : state[d][s] # "absent"}
Pending(d)  == {s \in Seqs : state[d][s] = "pending"}

\* mutant: only rows still owed are found again
KnownPendingOnly(d, m) == \E s \in Pending(d) : body[d][s].messageId = m

\* byMessageId.get(m)
Known(d, m) == \E s \in Retained(d) : body[d][s].messageId = m

\* Some row above cursor c was lost: c < recoverableFrom - 1, where
\* recoverableFrom is one past the highest expired row of the whole mailbox.
CursorTooOld(d, c) == \E s \in Seqs : s > c /\ state[d][s] = "expired"

\* The tenant's pending rows over a set of admissions, and their bytes.
PendingRows(adm) ==
  {r \in Device \X Seqs : state[r[1]][r[2]] = "pending" /\ body[r[1]][r[2]].admission \in adm}
PendingBytes(adm) == SumFunction([r \in PendingRows(adm) |-> body[r[1]][r[2]].byteSize])
UsedBytes == PendingBytes(Admission)

-----------------------------------------------------------------------------
(* Append *)

\* mutant: a mutation does not wait for the append in flight
ChainIgnored(d) == TRUE

\* A mutation of device d runs when no append holds its mutation chain.
ChainFree(d) == tail[d] = NoAppend

\* mutant: the row being added is left out of the sum
AdmitsBeforeAdding(d, size) == tail[d].limit # Unlimited => UsedBytes <= tail[d].limit

\* The limit check of the append in flight, over the tenant's pending rows.
Admits(d, size) == tail[d].limit # Unlimited => UsedBytes + size <= tail[d].limit

\* The append reaches the head of the chain of an open stream with a message
\* id it does not know, and reads the limit its admission is checked against.
\* (A closed stream and a known id return before any state changes.)
AppendBegin(d, m, adm) ==
  /\ ChainFree(d)
  /\ ~closed[d]
  /\ ~Known(d, m)
  /\ nextSeq[d] <= MaxSeq
  /\ tail' = [tail EXCEPT ![d] =
                [messageId |-> m, admission |-> adm,
                 limit |-> IF adm = "cancellation" THEN Unlimited ELSE limit]]
  /\ UNCHANGED <<nextSeq, cursorVars, closed, rowVars, quotaVars, collect>>

\* The body is materialised: sum, check and insert in one synchronous step.
AppendCommit(d, size) ==
  /\ tail[d] # NoAppend
  /\ Admits(d, size)
  /\ state' = [state EXCEPT ![d][nextSeq[d]] = "pending"]
  /\ body' = [body EXCEPT ![d][nextSeq[d]] =
                [messageId |-> tail[d].messageId, byteSize |-> size,
                 admission |-> tail[d].admission]]
  /\ nextSeq' = [nextSeq EXCEPT ![d] = @ + 1]
  /\ tail' = [tail EXCEPT ![d] = NoAppend]
  /\ UNCHANGED <<cursorVars, closed, quotaVars, collect>>

\* mutant: a rejected append consumes its sequence number
AppendRefusedConsumes(d) ==
  /\ tail[d] # NoAppend
  /\ tail' = [tail EXCEPT ![d] = NoAppend]
  /\ nextSeq' = [nextSeq EXCEPT ![d] = @ + 1]
  /\ UNCHANGED <<cursorVars, closed, rowVars, quotaVars, collect>>

\* The materialiser threw, or the row would exceed the limit: the append is
\* rejected, and the next one starts from the same sequence number.
AppendRefused(d) ==
  /\ tail[d] # NoAppend
  /\ tail' = [tail EXCEPT ![d] = NoAppend]
  /\ UNCHANGED <<nextSeq, cursorVars, closed, rowVars, quotaVars, collect>>

\* writeEntitlement of the quota store gives the tenant a new limit; an append already past
\* its read keeps the limit it read.
IssueEntitlement(l) ==
  /\ l # limit
  /\ limit' = l
  /\ maxLimit' = IF l > maxLimit THEN l ELSE maxLimit
  /\ UNCHANGED <<nextSeq, cursorVars, closed, rowVars, tail, collect>>

-----------------------------------------------------------------------------
(* Cursors *)

\* mutant: the watermark is the next cursor instead of the returned one
WatermarkNext(old, s) == IF s > old THEN s + 1 ELSE old

Watermark(old, s) == IF s > old THEN s ELSE old

\* recordDelivery: the watermark of the cursor a response is about to return.
\* A caller passes the last seq of a page it read earlier.
RecordDelivery(d, s) ==
  /\ ChainFree(d)
  /\ s \in 1 .. nextSeq[d] - 1
  /\ deliveredSeq' = [deliveredSeq EXCEPT ![d] = Watermark(@, s)]
  /\ UNCHANGED <<nextSeq, ackedSeq, closed, rowVars, tail, quotaVars, collect>>

\* mutant: a cursor that was never returned to the device is accepted
AckableUnseen(d, c) == c >= ackedSeq[d]

\* advanceCursor refuses a regression and a cursor ahead of delivery.
Ackable(d, c) == c >= ackedSeq[d] /\ c <= deliveredSeq[d]

AdvanceCursor(d, c) ==
  /\ ChainFree(d)
  /\ Ackable(d, c)
  /\ ackedSeq' = [ackedSeq EXCEPT ![d] = c]
  /\ state' = [state EXCEPT ![d] =
                 [s \in Seqs |-> IF s <= c /\ state[d][s] = "pending"
                                 THEN "acked" ELSE state[d][s]]]
  /\ UNCHANGED <<nextSeq, deliveredSeq, closed, body, tail, quotaVars, collect>>

-----------------------------------------------------------------------------
(* Dead letters *)

\* state with the selected pending rows of d moved to expired
Expire(d, selected) ==
  [state EXCEPT ![d] = [s \in Seqs |-> IF s \in selected /\ state[d][s] = "pending"
                                       THEN "expired" ELSE state[d][s]]]

\* expirePending: the rows of a task the Host abandoned.
ExpirePending(d, seqs) ==
  /\ ChainFree(d)
  /\ state' = Expire(d, seqs)
  /\ UNCHANGED <<nextSeq, cursorVars, closed, body, tail, quotaVars, collect>>

\* closeStream: a retired device's stream; every pending row is dead-lettered.
CloseStream(d) ==
  /\ ChainFree(d)
  /\ closed' = [closed EXCEPT ![d] = TRUE]
  /\ state' = Expire(d, Seqs)
  /\ UNCHANGED <<nextSeq, cursorVars, body, tail, quotaVars, collect>>

\* reopenStream: the device id registered again.
ReopenStream(d) ==
  /\ ChainFree(d)
  /\ closed[d]
  /\ closed' = [closed EXCEPT ![d] = FALSE]
  /\ UNCHANGED <<nextSeq, cursorVars, rowVars, tail, quotaVars, collect>>

-----------------------------------------------------------------------------
(* Retention: collectExpired walks the devices once per phase, one chain    *)
(* step per device, and stops when it meets an eligible row past its limit. *)

\* mutant: the highest dead letter, the evidence of the floor, is reaped too
ReapableWithFloor(d, p) == {s \in Seqs : state[d][s] = "expired" /\ s <= p}

\* The dead letters of d below the cutoff p that are not its highest one.
Reapable(d, p) ==
  {s \in Seqs : /\ state[d][s] = "expired"
                /\ s <= p
                /\ \E t \in Seqs : t > s /\ state[d][t] = "expired"}

\* The rows of d the current phase may move.
Eligible(d) ==
  CASE collect.phase = "acked"   -> {s \in Seqs : state[d][s] = "acked" /\ s <= collect.acked[d]}
    [] collect.phase = "reap"    -> Reapable(d, collect.reap[d])
    [] collect.phase = "pending" -> {s \in Pending(d) : s <= collect.unacked[d]}

\* mutant: a call that stops at its limit does not say so
LimitNotReported(taken, eligible) == FALSE

\* The device's step met an eligible row past the call's limit.
LimitReached(taken, eligible) == taken # eligible

\* The k lowest members of a set of sequence numbers.
Lowest(S, k) == {s \in S : Cardinality({t \in S : t <= s}) <= k}

\* What phase p leads to once it has visited every device.
NextPhase(p) == CASE p = "acked" -> "reap" [] p = "reap" -> "pending" [] p = "pending" -> "done"

\* maintenance.ts derives the three cutoffs from one `now': a dead letter is
\* reaped no earlier than a pending row expires.
CollectBegin(acked, reap, unacked) ==
  /\ collect.phase = "done"
  /\ \A d \in Device : /\ reap[d] <= unacked[d]
                       /\ unacked[d] < nextSeq[d]
                       /\ acked[d] < nextSeq[d]
  /\ collect' = [phase |-> "acked", todo |-> Device, count |-> 0, more |-> FALSE,
                 acked |-> acked, reap |-> reap, unacked |-> unacked]
  /\ UNCHANGED <<nextSeq, cursorVars, closed, rowVars, tail, quotaVars>>

\* One device's step of the current phase.
CollectDevice(d) ==
  LET eligible == Eligible(d)
      taken    == Lowest(eligible, CollectLimit - collect.count)
      more     == LimitReached(taken, eligible)
      last     == collect.todo = {d}
      phase    == IF more THEN "done" ELSE IF last THEN NextPhase(collect.phase) ELSE collect.phase
      next     == [state EXCEPT ![d] =
                    [s \in Seqs |-> IF s \notin taken THEN state[d][s]
                                    ELSE IF collect.phase = "pending" THEN "expired" ELSE "absent"]]
  IN /\ d \in collect.todo
     /\ ChainFree(d)
     /\ state' = next
     /\ collect' = [collect EXCEPT
          !.phase = phase,
          !.todo  = IF more THEN {} ELSE IF last /\ phase # "done" THEN Device ELSE @ \ {d},
          !.count = IF phase = "done" THEN 0 ELSE @ + Cardinality(taken),
          !.acked = IF phase = "acked" THEN @ ELSE NoPrefix,   \* a cutoff no later step reads
          !.reap  = IF phase = "done" THEN NoPrefix ELSE @,    \* is forgotten
          \* this call's expiry can leave rows reapable for the next call
          !.more  = more \/ (phase = "done" /\ \E e \in Device, s \in Seqs :
                               /\ next[e][s] = "expired"
                               /\ s <= collect.reap[e]
                               /\ \E t \in Seqs : t > s /\ next[e][t] = "expired")]
     /\ body' = [body EXCEPT ![d] =
                   [s \in Seqs |-> IF next[d][s] = "absent" THEN NoBody ELSE body[d][s]]]
     /\ UNCHANGED <<nextSeq, cursorVars, closed, tail, quotaVars>>

-----------------------------------------------------------------------------

Next ==
  \/ \E d \in Device, m \in MessageId, adm \in Admission : AppendBegin(d, m, adm)
  \/ \E d \in Device, size \in ByteSize : AppendCommit(d, size)
  \/ \E d \in Device : AppendRefused(d)
  \/ \E l \in Limit : IssueEntitlement(l)
  \/ \E d \in Device, s \in Seqs : RecordDelivery(d, s)
  \/ \E d \in Device, c \in 0 .. MaxSeq : AdvanceCursor(d, c)
  \/ \E d \in Device, seqs \in SUBSET Seqs : ExpirePending(d, seqs)
  \/ \E d \in Device : CloseStream(d)
  \/ \E d \in Device : ReopenStream(d)
  \/ \E acked, reap, unacked \in Cutoff : CollectBegin(acked, reap, unacked)
  \/ \E d \in Device : CollectDevice(d)

Spec == Init /\ [][Next]_vars

-----------------------------------------------------------------------------
(* Properties *)

\* A reader whose cursor the events route accepts has no gap it cannot see:
\* above both the acknowledged cursor and the replay floor, every sequence
\* number ever allocated still holds a pending row.  A refused append, a reap or
\* a deletion of consumed rows that broke this would hand the device a partial
\* tail it takes for a complete one (events.ts, `cursor_too_old').
WindowComplete ==
  \A d \in Device, s \in Seqs :
    ackedSeq[d] < s /\ s < nextSeq[d] /\ ~CursorTooOld(d, s - 1) => state[d][s] = "pending"

\* append's idempotency: no two retained rows of a device carry one message id,
\* whatever appends were retried around a refusal, a close or a deletion.
MessageIdsUnique ==
  \A d \in Device : \A s, t \in Retained(d) :
    body[d][s].messageId = body[d][t].messageId => s = t

\* The limited rows a tenant has pending, over all its devices, never exceed
\* the highest limit it was ever issued, although every append reads its limit
\* before awaiting its body and other devices append in between.
QuotaHolds == PendingBytes({"limited"}) <= maxLimit

\* A closed stream owes its device nothing: the append that was ahead of the
\* close on the chain has its row dead-lettered, the one behind it is refused.
ClosedStreamIsEmpty ==
  \A d \in Device : closed[d] => Pending(d) = {}

\* collectExpired's answer `more = false' is true: no row it should have
\* dead-lettered is left pending on any device, however its limit fell.
SweepComplete ==
  collect.phase = "done" /\ ~collect.more =>
    \A d \in Device : \A s \in Pending(d) : s > collect.unacked[d]

\* recoverableFrom is monotonic: a cursor that was too old stays too old, so a
\* reap or a reopened stream never makes a loss unobservable again.
FloorStep == \A d \in Device, c \in 0 .. MaxSeq : CursorTooOld(d, c) => CursorTooOld(d, c)'
FloorNeverDrops == [][FloorStep]_vars

\* No row comes back: a consumed row is never reported lost, a lost row never
\* counts as consumed, neither is owed again, and a sequence number whose row
\* was deleted is never given to another.
MayBecome ==
  [absent |-> {"absent"}, pending |-> {"pending", "acked", "expired"},
   acked |-> {"acked", "absent"}, expired |-> {"expired", "absent"}]
RowStep == \A d \in Device, s \in Seqs : s < nextSeq[d] => state'[d][s] \in MayBecome[state[d][s]]
RowsNeverReturn == [][RowStep]_vars

\* The stream of every device is a DeviceStream of its own: the quota, the
\* chain, the idempotency keys and the phases of a retention call that stops at
\* its limit never let one device see more than that contract allows.
Stream(d) == INSTANCE DeviceStream WITH
  nextSeq <- nextSeq[d], deliveredSeq <- deliveredSeq[d], ackedSeq <- ackedSeq[d], state <- state[d]
StreamsInit == \A d \in Device : Stream(d)!StreamInit
StreamsStep == \A d \in Device : Stream(d)!StreamNext \/ UNCHANGED Stream(d)!streamVars
ImplementsStreams == StreamsInit /\ [][StreamsStep]_vars
=============================================================================
