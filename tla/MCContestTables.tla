--------------------------- MODULE MCContestTables ---------------------------
EXTENDS ContestTables, TLC

\* Requests differ in nothing but their names.
Symmetry == Permutations(Requests)
=============================================================================
