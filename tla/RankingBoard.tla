----------------------------- MODULE RankingBoard -----------------------------
(***************************************************************************)
(* What the ranking of a contest promises: every judged submission of a     *)
(* participant is counted once, in one step; a problem's entry is the best  *)
(* submission counted so far (the higher score, the earlier submission      *)
(* among equals) and the total follows the entries at once.  The board may  *)
(* give a participant up: what makes it do so, the implementation says.     *)
(***************************************************************************)
EXTENDS Naturals, FiniteSetsExt

CONSTANTS Users, Problems, Sids, Owner, Of, Scores

VARIABLES
  members,   \* users on the board
  best,      \* best[u][p]: the set of the best counted submission, {} or one
  total      \* total[u]: the sum of the scores of u's entries

Entry == [sid : Sids, score : Scores]

Better(e, f) == \/ e.score > f.score
                \/ e.score = f.score /\ e.sid < f.sid

TopOf(entries) == {e \in entries : \A f \in entries \ {e} : Better(e, f)}

Init == /\ members = {}
        /\ best = [u \in Users |-> [p \in Problems |-> {}]]
        /\ total = [u \in Users |-> 0]

Enter(u) == /\ u \notin members
            /\ members' = members \cup {u}
            /\ UNCHANGED <<best, total>>

GiveUp(us) == /\ members' = members \ us
              /\ best' = [u \in Users |-> IF u \in us THEN [p \in Problems |-> {}] ELSE best[u]]
              /\ total' = [u \in Users |-> IF u \in us THEN 0 ELSE total[u]]

Count(s, score) ==
  LET u == Owner[s]
      p == Of[s]
      entries == [best[u] EXCEPT ![p] = TopOf(@ \cup {[sid |-> s, score |-> score]})]
  IN /\ u \in members
     /\ best' = [best EXCEPT ![u] = entries]
     /\ total' = [total EXCEPT ![u] =
          SumFunction([q \in Problems |-> SumFunction([e \in entries[q] |-> e.score])])]
     /\ UNCHANGED members

Next == \/ \E u \in Users : Enter(u)
        \/ \E us \in SUBSET Users : GiveUp(us)
        \/ \E s \in Sids, score \in Scores : Count(s, score)

Spec == Init /\ [][Next]_<<members, best, total>>
=============================================================================
