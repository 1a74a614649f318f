--------------------------- MODULE MCTaskLifecycle ---------------------------
\* Model checking TaskLifecycle.  Safety runs identify interchangeable calls.
EXTENDS TaskLifecycle, TLC

Symmetry == Permutations(Request) \union Permutations(Enqueue) \union Permutations(Body)
=============================================================================
