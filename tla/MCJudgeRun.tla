----------------------------- MODULE MCJudgeRun -----------------------------
EXTENDS JudgeRun, TLC

\* Jobs differ in nothing but their names, and so do names.
Symmetry == Permutations(Jobs) \cup Permutations(Names)
=============================================================================
