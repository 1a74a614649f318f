----------------------------- MODULE MCRoutines -----------------------------
\* Routines on a small instance: a routine that runs at every time, and a
\* second version that runs at every other.
EXTENDS Routines

Intervals == <<1, 2>>
=============================================================================
