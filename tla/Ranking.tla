------------------------------- MODULE Ranking -------------------------------
(***************************************************************************)
(* The ranking table of one contest (lib/database/contest_ranking.go) and   *)
(* the part of the updateResult handler of ppjc that writes it: the result  *)
(* goes into the submissions table in one transaction, then RankingUpdate   *)
(* reads the user's row in a second one and writes the cell and the general *)
(* column back.                                                             *)
(*                                                                         *)
(* RankingGetRow sends its SELECT through CommonDB().Query, where gorm's    *)
(* "FOR UPDATE" option has no effect: the transaction reads a snapshot      *)
(* (everything it reads, from its first query on) and locks nothing before  *)
(* its first UPDATE.  A report is therefore handled in three steps, Store,  *)
(* ReadRow and WriteRow, and other reports take steps in between.           *)
(***************************************************************************)
EXTENDS Integers, FiniteSets, FiniteSetsExt

CONSTANTS
  Users, Problems,
  NSubs,        \* bound: submissions of the contest, in the order they are sent
  Owner, Of,    \* the user and the problem of each submission
  FullScore,    \* the score of a submission that passes every case
  Penalty,      \* minutes a wrong answer costs (the contest's setting, which the code
                \* does not read: the rules hold for the setting of one minute)
  FinishTimes,  \* when the contest may end: it starts at 0, submission s is sent at time s
  Deletable,    \* the problems an administrator may delete
  MaxRuns,      \* bound: judge runs of a submission (more than one: rejudges)
  MaxPosts,     \* bound: results posted by one run
  ContestTypes, \* the contest types looked at
  MaxOpen,      \* bound: reports handled at the same time
  MaxWork,      \* bound: submissions, and two for a trouble
  MaxTroubles   \* bound: rejudges, second results and late cases of a run, lost
                \* reports, deleted problems, columns and rows made late

Sids == 1 .. NSubs
Types == {"JOI", "PCK", "AtCoder", "ICPC"}
Scores == 0 .. FullScore

ASSUME RankingAssumption ==
  /\ NSubs \in Nat /\ Penalty \in Nat /\ FullScore \in Nat \ {0} /\ FinishTimes \subseteq Nat
  /\ MaxRuns \in Nat /\ MaxPosts \in Nat /\ MaxOpen \in Nat
  /\ MaxTroubles \in Nat /\ MaxWork \in Nat
  /\ IsFiniteSet(Problems) /\ Owner \in [Sids -> Users] /\ Of \in [Sids -> Problems]
  /\ ContestTypes \subseteq Types /\ Deletable \subseteq Problems

VARIABLES
  type,     \* the contest's type
  finish,   \* its finish time
  sent,     \* submissions 1 .. sent are in the submissions table
  sub,      \* sub[s]: the columns jid, status and score
  runs,     \* runs[s]: judge runs handed out
  posted,   \* posted[s][j]: results posted by run j
  reports,  \* the results ppjc is handling
  members,  \* users with a row in the ranking table
  cols,     \* problems with a column
  dropped,  \* problems whose column was dropped: a pid is never used again
  cells,    \* cells[u][p]
  general,  \* general[u]: the general column with score, value1 and value2
  troubles, \* history: MaxTroubles counts them
  raced,    \* history: users of whom two reports were between read and write
  spoiled   \* history: users whose row need not be what their results give:
            \* raced, rejudged, a report lost, a result that came before the
            \* row or the column, a problem deleted, two results of a run

History == <<troubles, raced, spoiled>>
rankingVars == <<type, finish, sent, sub, runs, posted, reports, members, cols, dropped, cells,
          general, History>>

Submission == [jid : Nat, status : {"WJ", "JG", "AC", "WA", "CE"}, score : Scores]

\* A NULL column parses to an invalid cell (RankingCell.Scan).
Cell == [valid : BOOLEAN, sid : Nat, jid : Nat, time : Nat, score : Scores, penalty : Nat]
NoCell == [valid |-> FALSE, sid |-> 0, jid |-> 0, time |-> 0, score |-> 0, penalty |-> 0]

General == [score : Nat, time : Nat, penalty : Nat, value1 : Int, value2 : Int]
NoGeneral == [score |-> 0, time |-> 0, penalty |-> 0, value1 |-> 0, value2 |-> 0]

\* pc: posted (the request has arrived), stored (the result is in the
\* submissions table), read (cell and general are computed).
Report == [sid : Sids, jid : 1 .. MaxRuns, post : 1 .. MaxPosts,
           status : {"AC", "WA", "CE"}, score : Scores,
           pc : {"posted", "stored", "read"}, cell : Cell, general : General]

\* The verdicts of a run.  WA stands for every status a penalty is counted
\* for and may score part of the points, CE for CE and IE.
RunVerdicts == {[status |-> "AC", score |-> FullScore], [status |-> "CE", score |-> 0]}
            \cup {[status |-> "WA", score |-> n] : n \in 0 .. FullScore - 1}

RankingTypeOK ==
  /\ type \in ContestTypes /\ finish \in FinishTimes
  /\ sent \in 0 .. NSubs
  /\ sub \in [Sids -> Submission]
  /\ runs \in [Sids -> 0 .. MaxRuns]
  /\ posted \in [Sids -> [1 .. MaxRuns -> 0 .. MaxPosts]]
  /\ reports \subseteq Report
  /\ members \subseteq Users
  /\ cols \subseteq Problems /\ dropped \subseteq Deletable /\ cols \cap dropped = {}
  /\ cells \in [Users -> [Problems -> Cell]]
  /\ general \in [Users -> General]
  /\ troubles \in 0 .. MaxTroubles /\ raced \subseteq spoiled /\ spoiled \subseteq Users

-----------------------------------------------------------------------------
(***************************************************************************)
(* The totals of a row (lib/types/contest.go).                              *)
(***************************************************************************)
Scored(row) == {p \in Problems : row[p].score # 0}

GeneralScore(row) == SumFunction([p \in Problems |-> row[p].score])

GeneralTime(row) ==
  IF type = "ICPC" THEN SumFunction([p \in Scored(row) |-> row[p].time])
  ELSE Max({0} \cup {row[p].time : p \in Scored(row)})

GeneralPenalty(row) == SumFunction([p \in Scored(row) |-> row[p].penalty])

\* The rules rank equal scores by time (JOI), by wrong answers and then time
\* (PCK), or by time and penalties together.  The unit of time is a minute: a
\* penalty costs time.Minute, and the setting is not used.
Evaluation1(time, penalty) ==
  CASE type = "JOI" -> -time
    [] type = "PCK" -> -penalty
    [] OTHER -> -time - penalty

Evaluation2(time, penalty) == IF type = "PCK" THEN -time ELSE 0

GeneralOf(row) ==
  LET time == GeneralTime(row)
      penalty == GeneralPenalty(row)
  IN [score |-> GeneralScore(row), time |-> time, penalty |-> penalty,
      value1 |-> Evaluation1(time, penalty), value2 |-> Evaluation2(time, penalty)]

\* ORDER BY score DESC, value1 DESC, value2 DESC of both ranking queries.
AboveByScore(u, w) == general[u].score >= general[w].score  \* mutant: ties are not broken
Above(u, w) ==
  LET g == general[u]
      h == general[w]
  IN \/ g.score > h.score
     \/ g.score = h.score /\ g.value1 > h.value1
     \/ g.score = h.score /\ g.value1 = h.value1 /\ g.value2 > h.value2

-----------------------------------------------------------------------------
(***************************************************************************)
(* Queries on the submissions table.                                        *)
(***************************************************************************)
SubsOf(u, p) == {s \in 1 .. sent : Owner[s] = u /\ Of[s] = p}

\* SubmissionMaximumScore: ORDER BY score DESC, sid ASC.
IsMaximumScore(s, u, p) ==
  /\ s \in SubsOf(u, p)
  /\ \A t \in SubsOf(u, p) :
       sub[s].score > sub[t].score \/ (sub[s].score = sub[t].score /\ s <= t)

\* SubmissionCountForPenalty, without compile errors (ContestTypeCEPenalty).
CountForPenalty(u, p, last) ==
  Cardinality({s \in SubsOf(u, p) : sub[s].status = "WA" /\ s <= last})

CellOf(r) == [valid |-> TRUE, sid |-> r.sid, jid |-> r.jid, time |-> r.sid,
              score |-> r.score, penalty |-> 0]

\* RankingUpdate ignores the report: the cell has a newer run of the same
\* submission, or this run already ("Invalid status of Jid and Sid").
NeverIgnored(cell, r) == FALSE   \* mutant: old runs are counted
Ignored(cell, r) == cell.valid /\ cell.sid = r.sid /\ cell.jid >= r.jid

\* A rejudge scores less than the cell shows for this submission.
Lowered(cell, r) == cell.valid /\ cell.sid = r.sid /\ cell.score > r.score

LaterWins(cell, r) ==            \* mutant: the later of two equal scores
  \/ ~cell.valid
  \/ cell.sid = r.sid
  \/ cell.score <= r.score
Replaces(cell, r) ==
  \/ ~cell.valid
  \/ cell.sid = r.sid /\ cell.score <= r.score
  \/ cell.sid # r.sid /\ cell.score < r.score
  \/ cell.sid # r.sid /\ cell.score = r.score /\ cell.sid > r.sid

\* After a lowered score the cell names the submission that is best now, with
\* the score of the report.
LoweredCell(cell, r, s) ==
  [cell EXCEPT !.score = r.score, !.time = s, !.sid = s, !.jid = sub[s].jid]

\* The cell a report leads to, before its penalty is counted.
NewCell(cell, r, new) ==
  \/ Replaces(cell, r) /\ new = CellOf(r)
  \/ /\ Lowered(cell, r)
     /\ \E s \in Sids :
          /\ IsMaximumScore(s, Owner[r.sid], Of[r.sid])
          /\ new = LoweredCell(cell, r, s)
  \/ ~Replaces(cell, r) /\ ~Lowered(cell, r) /\ new = cell

WithPenalty(new, u, p) ==
  [new EXCEPT !.penalty =
     CountForPenalty(u, p, IF new.score > 0 THEN new.sid - 1 ELSE new.sid)]

-----------------------------------------------------------------------------
RankingInit ==
  /\ type \in ContestTypes /\ finish \in FinishTimes
  /\ sent = 0 /\ troubles = 0 /\ raced = {} /\ spoiled = {}
  /\ sub = [s \in Sids |-> [jid |-> 0, status |-> "WJ", score |-> 0]]
  /\ runs = [s \in Sids |-> 0]
  /\ posted = [s \in Sids |-> [j \in 1 .. MaxRuns |-> 0]]
  /\ reports = {} /\ members = {} /\ cols = {} /\ dropped = {}
  /\ cells = [u \in Users |-> [p \in Problems |-> NoCell]]
  /\ general = [u \in Users |-> NoGeneral]

Table == <<members, cols, dropped, cells, general>>
Judged == <<type, finish, sent, sub, runs, posted>>

Fine == UNCHANGED History
Within(n, t) == n + 2 * t <= MaxWork
\* Something the bound MaxTroubles counts, which spoils the rows of us.
Trouble(us) == /\ troubles < MaxTroubles
               /\ troubles' = troubles + 1 /\ Within(sent, troubles')
               /\ spoiled' = spoiled \cup us
               /\ UNCHANGED raced
\* A change of the table after the judging has begun is one, too.
Late == IF \A s \in Sids : runs[s] = 0 THEN Fine ELSE Trouble({})

\* RankingUserAdd, for a user who has no row yet: nothing changes otherwise.
Join(u) == /\ u \notin members
           /\ members' = members \cup {u}
           /\ Late
           /\ UNCHANGED <<Judged, reports, cols, dropped, cells, general>>

\* ALTER TABLE waits for the transactions that have read the table.
NoTransaction == \A r \in reports : r.pc # "read"

\* RankingProblemAdd
AddProblem(p) ==
  /\ p \notin cols \cup dropped
  /\ NoTransaction
  /\ cols' = cols \cup {p}
  /\ Late
  /\ UNCHANGED <<Judged, reports, members, dropped, cells, general>>

\* RankingProblemDelete: the general column keeps what it was.
DropProblem(p) ==
  /\ p \in cols \cap Deletable
  /\ NoTransaction
  /\ cols' = cols \ {p} /\ dropped' = dropped \cup {p}
  /\ cells' = [u \in Users |-> [cells[u] EXCEPT ![p] = NoCell]]
  /\ Trouble(Users)
  /\ UNCHANGED <<Judged, reports, members, general>>

\* SubmissionAdd
Submit == /\ sent < NSubs
          /\ sent' = sent + 1 /\ Within(sent', troubles)
          /\ UNCHANGED <<type, finish, sub, runs, posted, reports, Table>> /\ Fine

\* A run is handed out; before a second one the rejudge handler has put the
\* submission in queue again.
Start(s) ==
  /\ s <= sent /\ runs[s] < MaxRuns
  /\ runs' = [runs EXCEPT ![s] = @ + 1]
  /\ sub' = [sub EXCEPT ![s].status = "WJ"]
  /\ IF runs[s] = 0 THEN Fine ELSE Trouble({Owner[s]})
  /\ UNCHANGED <<type, finish, sent, posted, reports, Table>>

\* SubmissionUpdateTestCase: the first case of a run clears the score.
CaseReport(s, j) ==
  /\ j <= runs[s] /\ sub[s].jid <= j
  /\ sub' = [sub EXCEPT ![s] = [jid |-> j, status |-> "JG", score |-> 0]]
  /\ IF sub[s].status \in {"WJ", "JG"} THEN Fine ELSE Trouble({})
  /\ UNCHANGED <<type, finish, sent, runs, posted, reports, Table>>

OpenReports(u) == {r \in reports : Owner[r.sid] = u}

\* A worker posts the result of run j; a run whose downloads fail may post
\* twice (JobSteps: DownloadFailedReport and TotalReport).
Post(s, j, v) ==
  /\ j <= runs[s] /\ posted[s][j] < MaxPosts
  /\ Cardinality(reports) < MaxOpen
  /\ posted' = [posted EXCEPT ![s][j] = @ + 1]
  /\ reports' = reports \cup
       {[sid |-> s, jid |-> j, post |-> posted'[s][j], status |-> v.status,
         score |-> v.score, pc |-> "posted", cell |-> NoCell, general |-> NoGeneral]}
  /\ IF posted[s][j] = 0 THEN Fine ELSE Trouble({Owner[s]})
  /\ UNCHANGED <<type, finish, sent, sub, runs, Table>>

\* SubmissionUpdateResult; the handler goes on after a stale report too.
Store(r) ==
  /\ r.pc = "posted"
  /\ sub' = IF sub[r.sid].jid > r.jid THEN sub
            ELSE [sub EXCEPT ![r.sid] = [jid |-> r.jid, status |-> r.status, score |-> r.score]]
  /\ reports' = (reports \ {r}) \cup {[r EXCEPT !.pc = "stored"]}
  /\ UNCHANGED <<type, finish, sent, runs, posted, Table>> /\ Fine

SentInTime(r) == finish > r.sid

\* The report needs no update: it was sent too late, its user has no row, its
\* problem has no column, or RankingUpdate returns early.
StopAfterReading(r) ==
  LET cell == cells[Owner[r.sid]][Of[r.sid]]
  IN /\ r.pc = "stored"
     /\ \/ ~SentInTime(r)
        \/ Owner[r.sid] \notin members
        \/ Of[r.sid] \notin cols
        \/ Ignored(cell, r)
     /\ reports' = reports \ {r}
     /\ spoiled' = IF SentInTime(r) /\ ~Ignored(cell, r) THEN spoiled \cup {Owner[r.sid]}
                   ELSE spoiled
     /\ UNCHANGED <<Judged, Table, troubles, raced>>

\* RankingUpdate up to its first UPDATE: the snapshot and what follows from it.
ReadRow(r) ==
  LET u == Owner[r.sid]
      p == Of[r.sid]
      cell == cells[u][p]
  IN /\ r.pc = "stored"
     /\ SentInTime(r) /\ u \in members /\ p \in cols /\ ~Ignored(cell, r)
     /\ \E new \in {CellOf(r), cell} \cup {LoweredCell(cell, r, s) : s \in 1 .. sent} :
          /\ NewCell(cell, r, new)
          /\ LET final == WithPenalty(new, u, p)
             IN reports' = (reports \ {r}) \cup
                  {[r EXCEPT !.pc = "read", !.cell = final,
                             !.general = GeneralOf([cells[u] EXCEPT ![p] = final])]}
     /\ LET two == IF \E q \in OpenReports(u) : q.pc = "read" THEN {u} ELSE {}
        IN raced' = raced \cup two /\ spoiled' = spoiled \cup two
     /\ UNCHANGED <<Judged, Table, troubles>>

\* RankingCellUpdate and RankingGeneralUpdate: the first takes the lock of the
\* row and the commit gives it back.
CellOnly(r) ==                   \* mutant: the general column is forgotten
  /\ r.pc = "read"
  /\ cells' = [cells EXCEPT ![Owner[r.sid]][Of[r.sid]] = r.cell]
  /\ reports' = reports \ {r}
  /\ UNCHANGED <<Judged, members, cols, dropped, general>> /\ Fine
WriteRow(r) ==
  /\ r.pc = "read"
  /\ cells' = [cells EXCEPT ![Owner[r.sid]][Of[r.sid]] = r.cell]
  /\ general' = [general EXCEPT ![Owner[r.sid]] = r.general]
  /\ reports' = reports \ {r}
  /\ UNCHANGED <<Judged, members, cols, dropped>> /\ Fine

\* ppjc dies, or a transaction fails: the worker does not post again.
Lose(r) == /\ reports' = reports \ {r}
           /\ Trouble({Owner[r.sid]})
           /\ UNCHANGED <<Judged, Table>>

RankingNext ==
  \/ Submit
  \/ \E u \in Users : Join(u)
  \/ \E p \in Problems : AddProblem(p) \/ DropProblem(p)
  \/ \E s \in Sids : Start(s)
  \/ \E s \in Sids, j \in 1 .. MaxRuns :
       CaseReport(s, j) \/ \E v \in RunVerdicts : Post(s, j, v)
  \/ \E r \in reports :
       Store(r) \/ StopAfterReading(r) \/ ReadRow(r) \/ WriteRow(r) \/ Lose(r)

RankingSpec == RankingInit /\ [][RankingNext]_rankingVars

-----------------------------------------------------------------------------
(***************************************************************************)
(* The reference: what the table should hold, from the submissions table.   *)
(***************************************************************************)
\* Submissions sent in time that have a verdict.
Results(u, p) == {s \in SubsOf(u, p) : s < finish /\ sub[s].status \in {"AC", "WA", "CE"}}

BestResult(u, p) ==
  {s \in Results(u, p) : \A t \in Results(u, p) \ {s} :
     sub[s].score > sub[t].score \/ (sub[s].score = sub[t].score /\ s < t)}

DerivedCell(u, p) ==
  IF Results(u, p) = {} THEN NoCell
  ELSE LET s == CHOOSE s \in BestResult(u, p) : TRUE
       IN [valid |-> TRUE, sid |-> s, jid |-> sub[s].jid, time |-> s, score |-> sub[s].score,
           penalty |-> Cardinality({t \in Results(u, p) : sub[t].status = "WA" /\
                                      (t < s \/ (t = s /\ sub[s].score = 0))})]

\* Every submission of the user has its verdict and nothing is being handled.
Settled(u) == /\ OpenReports(u) = {}
              /\ \A s \in 1 .. sent : Owner[s] = u => sub[s].status \in {"AC", "WA", "CE"}

\* The row of a user is what the submissions table gives: the best result of
\* each problem, the wrong answers before it, and the totals, also while the
\* reports on other users are handled, except for a user spoiled.
TableIsDerived ==
  \A u \in Users \ spoiled : Settled(u) =>
    /\ \A p \in Problems : cells[u][p] = DerivedCell(u, p)
    /\ (\E p \in Problems : cells[u][p].valid)
         => general[u] = GeneralOf([q \in Problems |-> DerivedCell(u, q)])

\* Points, wrong answers and time of a user by the rules of the contest.
RulePoints(u) == SumFunction([p \in Problems |-> DerivedCell(u, p).score])
RuleSolved(u) == {p \in Problems : DerivedCell(u, p).score > 0}
RuleWrong(u) == SumFunction([p \in RuleSolved(u) |-> DerivedCell(u, p).penalty])
RuleTime(u) == IF type = "ICPC" THEN SumFunction([p \in RuleSolved(u) |-> DerivedCell(u, p).time])
               ELSE Max({0} \cup {DerivedCell(u, p).time : p \in RuleSolved(u)})

Beats(u, w) ==
  \/ RulePoints(u) > RulePoints(w)
  \/ /\ RulePoints(u) = RulePoints(w)
     /\ CASE type = "JOI" -> RuleTime(u) < RuleTime(w)
          [] type = "PCK" -> \/ RuleWrong(u) < RuleWrong(w)
                             \/ RuleWrong(u) = RuleWrong(w) /\ RuleTime(u) < RuleTime(w)
          [] OTHER -> RuleTime(u) + Penalty * RuleWrong(u)
                        < RuleTime(w) + Penalty * RuleWrong(w)

\* The ranking pages list the users in the order the rules of the contest
\* type give (the comments of lib/types/contest.go).
OrderFollowsRules ==
  \A u, w \in Users \ spoiled :
    Settled(u) /\ Settled(w) /\ {u, w} \subseteq members => (Above(u, w) <=> Beats(u, w))

\* The score of a cell falls only with the report of a newer run of the
\* submission it names, or with its problem, or when two reports raced.
OnlyRejudgeLowers ==
  [][\A u \in Users, p \in Problems :
       cells'[u][p].score < cells[u][p].score =>
         \/ p \in dropped' \/ u \in raced
         \/ \E r \in reports \ reports' :
              r.sid = cells[u][p].sid /\ r.jid > cells[u][p].jid]_rankingVars

OnBoard(u) == u \in members \ spoiled
Board == INSTANCE RankingBoard WITH
  members <- members \ spoiled,
  best <- [u \in Users |-> [p \in Problems |->
             IF OnBoard(u) /\ cells[u][p].valid
             THEN {[sid |-> cells[u][p].sid, score |-> cells[u][p].score]} ELSE {}]],
  total <- [u \in Users |-> IF OnBoard(u) THEN general[u].score ELSE 0]

\* Every counted submission is one atomic step of the board it promises: the
\* three steps of a report look like one to whoever reads the ranking.
IsABoard == Board!Spec
=============================================================================
