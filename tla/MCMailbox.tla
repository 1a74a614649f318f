------------------------------ MODULE MCMailbox ------------------------------
(* The mailbox on small instances, and the mistakes its properties exclude. *)
EXTENDS Mailbox, TLC

\* Every cutoff; and those that cut every device's stream at the same row.
AllCutoffs     == Prefixes
UniformCutoffs == {[d \in Device |-> k] : k \in 0 .. MaxSeq}

Symmetry == Permutations(MessageId) \union Permutations(Device)
=============================================================================
