--------------------------- MODULE MCJudgePipeline ---------------------------
(* Model-checking instance of JudgePipeline: symmetry for the safety runs.  *)
EXTENDS JudgePipeline, TLC

Symmetry == Permutations(Subs) \cup Permutations(Conns)
=============================================================================
