----------------------------- MODULE DeviceStream -----------------------------
(***************************************************************************)
(* What the mailbox store promises for the stream of one device, without   *)
(* the other devices, the quota, the idempotency keys and the phases of    *)
(* retention (packages/core/src/mailbox.ts, the MailboxStore contract).    *)
(* Mailbox implements it for every device; Delivery builds on it.          *)
(***************************************************************************)
EXTENDS Integers

CONSTANT MaxSeq   \* bound on the sequence numbers

ASSUME MaxSeqAssumption == MaxSeq \in Nat

VARIABLES
  nextSeq,        \* the next sequence number
  deliveredSeq,   \* highest cursor returned to the device
  ackedSeq,       \* highest cursor the device brought back
  state           \* state[s]: absent, pending, acked or expired

streamVars == <<nextSeq, deliveredSeq, ackedSeq, state>>

StreamInit ==
  /\ nextSeq = 1
  /\ deliveredSeq = 0
  /\ ackedSeq = 0
  /\ state = [s \in 1 .. MaxSeq |-> "absent"]

\* append
AppendNext ==
  /\ nextSeq <= MaxSeq
  /\ state' = [state EXCEPT ![nextSeq] = "pending"]
  /\ nextSeq' = nextSeq + 1
  /\ UNCHANGED <<deliveredSeq, ackedSeq>>

\* recordDelivery
Deliver(s) ==
  /\ s < nextSeq
  /\ deliveredSeq' = IF s > deliveredSeq THEN s ELSE deliveredSeq
  /\ UNCHANGED <<nextSeq, ackedSeq, state>>

\* advanceCursor, when it does not refuse
Ack(c) ==
  /\ ackedSeq <= c /\ c <= deliveredSeq
  /\ ackedSeq' = c
  /\ state' = [s \in 1 .. MaxSeq |-> IF s <= c /\ state[s] = "pending" THEN "acked" ELSE state[s]]
  /\ UNCHANGED <<nextSeq, deliveredSeq>>

\* expirePending, closeStream, and retention's expiry of unacknowledged rows
Lose(S) ==
  /\ state' = [s \in 1 .. MaxSeq |-> IF s \in S /\ state[s] = "pending" THEN "expired" ELSE state[s]]
  /\ UNCHANGED <<nextSeq, deliveredSeq, ackedSeq>>

\* Retention deletes consumed rows, and dead letters below a higher one.
Forget(S) ==
  /\ \A s \in S : \/ state[s] = "acked"
                  \/ /\ state[s] = "expired"
                     /\ \E t \in (1 .. MaxSeq) \ S : t > s /\ state[t] = "expired"
  /\ state' = [s \in 1 .. MaxSeq |-> IF s \in S THEN "absent" ELSE state[s]]
  /\ UNCHANGED <<nextSeq, deliveredSeq, ackedSeq>>

StreamNext ==
  \/ AppendNext
  \/ \E s \in 1 .. MaxSeq : Deliver(s)
  \/ \E c \in 0 .. MaxSeq : Ack(c)
  \/ \E S \in SUBSET (1 .. MaxSeq) : Lose(S) \/ Forget(S)

StreamSpec == StreamInit /\ [][StreamNext]_streamVars

-----------------------------------------------------------------------------
\* The loss of a row above cursor c is observable: readAfter reports a
\* recoverableFrom above c + 1.
TooOld(c) == \E s \in 1 .. MaxSeq : s > c /\ state[s] = "expired"
=============================================================================
