-------------------------- MODULE SubmissionStore --------------------------
(***************************************************************************)
(* The submissions table as judging sees it (lib/database/submission.go):   *)
(* the row of a submission and what each transaction that ppjc and ppweb    *)
(* run on it does.  Every one of them takes the row lock first, so each is  *)
(* an operator from the row before to the row after.                        *)
(***************************************************************************)
EXTENDS Integers

CONSTANT NCases  \* test cases of the problem

ASSUME NCasesAssumption == NCases \in Nat

WJ == "WJ"  \* in queue
JG == "JG"  \* being judged

\* The verdicts are cut down to one of each kind that is treated apart: a case is
\* accepted or not (WA stands for WA, TLE, MLE, RE and the internal error of one
\* case), and a whole run may also not compile or fail.
CaseVerdicts  == {"AC", "WA"}
TotalVerdicts == {"AC", "WA", "CE", "IE"}
Statuses      == {WJ, JG} \cup TotalVerdicts

\* A verdict, as opposed to a stage on the way to one.
Final(status) == status \notin {WJ, JG}

CaseIds == 0 .. NCases - 1

\* Mutant: the last verdict counts, not the worst.
WorseLast(a, b) == b

\* maxStatus: every other verdict is numbered above AC.
Worse(a, b) == IF a = "AC" THEN b ELSE a

\* The rows: jid is the run that status and cases belong to, usedJid the last
\* run handed out.
CaseRow == [jid : Nat, id : CaseIds, status : CaseVerdicts]
Row     == [jid : Nat, usedJid : Nat, status : Statuses, cases : SUBSET CaseRow]

NewRow == [jid |-> 0, usedJid |-> 0, status |-> WJ, cases |-> {}]

UsedJidKept(row) == row                \* mutant: used_jid is not advanced
UsedJidPlusOne(row) == [row EXCEPT !.usedJid = @ + 1]

NeverStale(row, jid) == FALSE          \* mutant: reports of older runs are taken
Stale(row, jid) == row.jid > jid

CasesNotCleared(row, jid) == row.cases \* mutant: a new run keeps the old cases
\* The first report of a run drops the cases of the runs before it.
KeptCases(row, jid) == IF row.jid < jid THEN {} ELSE row.cases

\* A case starts (status JG: no case row yet) or has a verdict.
UpdateTestCase(row, jid, id, status) ==
  IF Stale(row, jid) THEN row
  ELSE [row EXCEPT
          !.jid    = jid,
          !.status = JG,
          !.cases  = KeptCases(row, jid)
                     \cup {c \in {[jid |-> jid, id |-> id, status |-> status]} :
                             status # JG}]

\* The run has its total.
UpdateResult(row, jid, status) ==
  IF Stale(row, jid) THEN row
  ELSE [row EXCEPT !.jid = jid, !.status = status, !.cases = KeptCases(row, jid)]

\* ppweb's rejudge command; jid and the case rows stay.
ResetForRejudge(row) == [row EXCEPT !.status = WJ]
=============================================================================
