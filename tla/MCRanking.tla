------------------------------ MODULE MCRanking ------------------------------
(***************************************************************************)
(* An instance of Ranking: who sends which submission to which problem.     *)
(***************************************************************************)
EXTENDS Ranking

CONSTANTS u1, u2, p1, p2

OwnerDuel == [s \in Sids |-> <<u1, u1, u2, u1>>[s]]
OfMixed == [s \in Sids |-> <<p1, p1, p1, p2>>[s]]
=============================================================================
