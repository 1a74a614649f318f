------------------------------ MODULE MCHostCore ------------------------------
\* Model checking HostCore: two intents that are tried once, one behind the
\* other, or one that a retryable end sends to a second attempt.
EXTENDS HostCore

OneIntent  == {1}
TwoIntents == 1 .. 2
OneTry     == [i \in Intent |-> 1]
TwoTries   == [i \in Intent |-> 2]
=============================================================================
