----------------------------- MODULE MCGoClient -----------------------------
EXTENDS GoClientProps, TLC

\* The callers of Join, Leave and Send are alike, and so are the rooms.  For
\* the runs of invariants only, with no handlers.
Symmetry == Permutations(Callers) \cup Permutations(Rooms)
=============================================================================
