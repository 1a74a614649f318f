------------------------------ MODULE MCTerminals ------------------------------
\* Model checking Terminals.
EXTENDS Terminals
=============================================================================
