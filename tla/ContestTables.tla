---------------------------- MODULE ContestTables ----------------------------
(***************************************************************************)
(* What is created, changed and dropped for one contest: its row, the       *)
(* participations, the tables of problems and of submissions (ppweb writes   *)
(* them) and the ranking table, of which ppjc adds a column per problem and  *)
(* a row per participant when ppweb asks it to over HTTP.                    *)
(*                                                                         *)
(* A request of ppweb (ppweb/contest_page.go, contest_each.go) is a sequence *)
(* of such steps without a transaction around them: requests interleave     *)
(* between the steps, and each step may fail.                                *)
(***************************************************************************)
EXTENDS Integers, FiniteSets

CONSTANTS
  Requests,          \* requests at work at the same time
  Users,             \* users that may join
  Pidxs,             \* problem numbers an administrator chooses
  Limit,             \* problems a contest may have (50)
  MaxPid,            \* bound: problems ever made
  MaxFailures,       \* bound: failures
  Faults             \* what may fail: "call" and "answer" of ppjc, "mysql"

AllKinds == {"create", "join", "problem", "edit", "unproblem", "remove", "submit", "setting"}
Tables == {"submissions", "problems", "ranking"}
Pids == 1 .. MaxPid
Problems == [pid : Pids, pidx : Pidxs]

ASSUME ContestTablesAssumption ==
  /\ Faults \subseteq {"call", "answer", "mysql"}
  /\ MaxFailures \in Nat /\ Limit \in Nat \ {0} /\ MaxPid \in Nat
  /\ IsFiniteSet(Requests) /\ Requests # {}

VARIABLES
  contest,   \* the row of contests: absent, inserted and not committed, there, gone
  tables,    \* the contest's tables that exist
  problems,  \* rows of the problem table
  columns,   \* problems with a column in the ranking table
  rankers,   \* users with a row in it
  joined,    \* users with a row in contest_participations
  phase,     \* the clock against the contest's start and finish
  req,       \* req[r]: where request r is
  creation,  \* the goroutine of ContestAdd: its call of ppjc
  outcome,   \* what the creator was told
  lastPid,   \* AUTO_INCREMENT of the problem table
  failures,  \* history: failures so far
  upset      \* history: what happened of Upsets, below

ranking == <<columns, rankers>>
own == <<contest, problems, joined>>
vars == <<contest, tables, problems, columns, rankers, joined, phase, req, creation,
          outcome, lastPid, failures, upset>>
History == <<failures, upset>>

(***************************************************************************)
(* What separates the parts of a contest:                                   *)
(*   undo      the problem whose column could not be made stays             *)
(*   remove    the row of contests stays, what belongs to it is dropped     *)
(*   unranked  a participant's row of the ranking was not made              *)
(*   left      a step of the removal, or the first of the creation, failed  *)
(*   late      a row or table was made after the contest's row was deleted  *)
(*   revived   gorm's Save inserted a deleted row again                     *)
(***************************************************************************)
Upsets == {"undo", "remove", "unranked", "left", "late", "revived"}

Steps == {"idle", "submissions", "problems", "await", "enrol", "rank", "count", "add", "find",
          "column", "undo", "lookup", "save", "delete", "drop", "clear", "uncontest",
          "unranking", "unproblems", "unsubmissions", "unjoin", "store", "update"}
Idle == [pc |-> "idle", kind |-> "none", pid |-> 0, pidx |-> 0, user |-> "nobody"]
Request == [pc : Steps, kind : AllKinds \cup {"none"}, pid : 0 .. MaxPid, pidx : Pidxs \cup {0},
            user : Users \cup {"nobody"}]

TypeOK ==
  /\ contest \in {"absent", "inserted", "there", "gone"}
  /\ tables \subseteq Tables /\ problems \subseteq Problems
  /\ columns \subseteq Pids /\ lastPid \in 0 .. MaxPid
  /\ rankers \subseteq Users /\ joined \subseteq Users
  /\ phase \in {"before", "running", "finished"}
  /\ req \in [Requests -> Request]
  /\ creation \in {"none", "called", "ok", "failed"} /\ outcome \in {"none", "ok", "error"}
  /\ failures \in 0 .. MaxFailures /\ upset \subseteq Upsets

Init ==
  /\ contest = "absent" /\ tables = {} /\ failures = 0 /\ upset = {}
  /\ problems = {} /\ columns = {} /\ rankers = {} /\ joined = {}
  /\ phase = "before" /\ creation = "none" /\ outcome = "none" /\ lastPid = 0
  /\ req = [r \in Requests |-> Idle]

-----------------------------------------------------------------------------
At(r, pc) == req[r].pc = pc
Goes(r, pc) == req' = [req EXCEPT ![r].pc = pc]
Ends(r) == req' = [req EXCEPT ![r] = Idle]
Opens(r, pc, k, x, u) ==
  /\ At(r, "idle")
  /\ req' = [req EXCEPT ![r] = [pc |-> pc, kind |-> k, pid |-> 0, pidx |-> x, user |-> u]]

Fine == UNCHANGED History
Upset(e) == upset' = upset \cup e
Fails(kind) == kind \in Faults /\ failures < MaxFailures /\ failures' = failures + 1
MysqlFails == Fails("mysql") /\ UNCHANGED upset
\* A row or a table made for a contest that is gone.
Late == IF contest = "gone" THEN {"late"} ELSE {}

\* A call of ppjc, which can do it only if cond: done or not, and answered with
\* success or not.  The client's error is one for a connection, a status and a
\* lost answer.
Calls(cond, done, ok) ==
  \/ cond /\ done /\ ok /\ UNCHANGED failures
  \/ cond /\ done /\ ~ok /\ Fails("answer")
  \/ cond /\ ~done /\ ~ok /\ Fails("call")
  \/ ~cond /\ ~done /\ ~ok /\ UNCHANGED failures

Tick ==
  /\ phase' = CASE phase = "before" -> "running" [] OTHER -> "finished"
  /\ phase # "finished"
  /\ UNCHANGED <<own, tables, ranking, req, creation, outcome, lastPid, History>>

\* What ppjc does to the ranking table.
RankingAutoMigrate == tables' = tables \cup {"ranking"}
RankingUserAdd(u) == rankers' = rankers \cup {u}
RankingProblemAdd(pid) == columns' = columns \cup {pid}
RankingProblemDelete(pid) == columns' = columns \ {pid}
RankingDelete == tables' = tables \ {"ranking"} /\ columns' = {} /\ rankers' = {}

-----------------------------------------------------------------------------
\* POST /contests/new: the row is inserted in a transaction, and a goroutine
\* asks ppjc for the ranking table while the other tables are made.
InsertContest(r) ==
  /\ contest = "absent"
  /\ Opens(r, "submissions", "create", 0, "nobody")
  /\ contest' = "inserted" /\ creation' = "called"
  /\ UNCHANGED <<tables, problems, joined, ranking, phase, outcome, lastPid, History>>

\* CREATE TABLE IF NOT EXISTS in ppjc.
PpjcNew ==
  /\ creation = "called"
  /\ \E done, ok \in BOOLEAN :
       /\ Calls(TRUE, done, ok)
       /\ IF done THEN RankingAutoMigrate /\ Upset(Late) ELSE UNCHANGED <<tables, upset>>
       /\ creation' = IF ok THEN "ok" ELSE "failed"
  /\ UNCHANGED <<own, ranking, phase, req, outcome, lastPid>>

\* CREATE TABLE commits the transaction it is in: the row is there from now on.
CreateSubmissions(r) ==
  /\ At(r, "submissions")
  /\ \/ /\ contest' = "there" /\ tables' = tables \cup {"submissions"}
        /\ Goes(r, "problems") /\ UNCHANGED outcome /\ Fine
     \/ /\ Fails("mysql") /\ Upset({"left"})
        /\ contest' = "gone" /\ outcome' = "error" /\ Ends(r) /\ UNCHANGED tables
  /\ UNCHANGED <<problems, joined, ranking, phase, creation, lastPid>>

CreateProblems(r) ==
  /\ At(r, "problems")
  /\ \/ /\ tables' = tables \cup {"problems"} /\ Goes(r, "await") /\ UNCHANGED outcome
        /\ UNCHANGED failures /\ Upset(Late)
     \/ MysqlFails /\ outcome' = "error" /\ Ends(r) /\ UNCHANGED tables
  /\ UNCHANGED <<own, ranking, phase, creation, lastPid>>

AwaitNothing(r) ==               \* mutant: no wg.Wait()
  /\ At(r, "await")
  /\ outcome' = IF creation = "failed" THEN "error" ELSE "ok"
  /\ Ends(r)
  /\ UNCHANGED <<own, tables, ranking, phase, creation, lastPid, History>>
AwaitRanking(r) ==
  /\ At(r, "await") /\ creation # "called"
  /\ outcome' = IF creation = "failed" THEN "error" ELSE "ok"
  /\ Ends(r)
  /\ UNCHANGED <<own, tables, ranking, phase, creation, lastPid, History>>

-----------------------------------------------------------------------------
\* PrepareVariables finds the contest and the participation once; the rest of
\* the request relies on what they were.  A form the page does not accept
\* (name, limits, type, language) changes nothing and is left out.
CanJoin(u) == phase = "before" \/ (phase = "running" /\ u \notin joined)

JoinPage(r) == \E u \in Users : CanJoin(u) /\ Opens(r, "enrol", "join", 0, u)
NewProblemPage(r) == \E x \in Pidxs : Opens(r, "count", "problem", x, "nobody")
EditProblemPage(r) == \E x \in Pidxs : Opens(r, "count", "edit", x, "nobody")
RemoveProblemPage(r) == \E x \in Pidxs : Opens(r, "lookup", "unproblem", x, "nobody")
SubmitPage(r) == \E x \in Pidxs : Opens(r, "lookup", "submit", x, "nobody")
SettingPage(r) == Opens(r, "update", "setting", 0, "nobody")
RemovePage(r) == Opens(r, "uncontest", "remove", 0, "nobody")

Begin(r) ==
  /\ contest = "there"
  /\ \/ JoinPage(r) \/ NewProblemPage(r) \/ EditProblemPage(r) \/ RemoveProblemPage(r)
     \/ SubmitPage(r) \/ SettingPage(r) \/ RemovePage(r)
  /\ UNCHANGED <<own, tables, ranking, phase, creation, outcome, lastPid, History>>

Rest == <<contest, tables, problems, ranking, phase, creation, outcome, lastPid>>
EnrolLater(r) ==                 \* mutant: nothing is inserted
  /\ At(r, "enrol") /\ Goes(r, "rank") /\ UNCHANGED <<Rest, joined>> /\ Fine
\* /join: a participation that is already there is no error.
Enrol(r) ==
  /\ At(r, "enrol")
  /\ \/ /\ joined' = joined \cup {req[r].user} /\ Goes(r, "rank")
        /\ UNCHANGED failures /\ Upset(Late)
     \/ MysqlFails /\ Ends(r) /\ UNCHANGED joined
  /\ UNCHANGED Rest

\* ... and a row of the ranking, nothing if it is already there.
Rank(r) ==
  /\ At(r, "rank")
  /\ \E done, ok \in BOOLEAN :
       /\ Calls("ranking" \in tables, done, ok)
       /\ IF done THEN RankingUserAdd(req[r].user) ELSE UNCHANGED rankers
       /\ Upset(IF done THEN {} ELSE {"unranked"})
  /\ Ends(r)
  /\ UNCHANGED <<own, tables, columns, phase, creation, outcome, lastPid>>

-----------------------------------------------------------------------------
RestP == <<contest, tables, joined, ranking, phase, creation, outcome>>
Exist == "problems" \in tables
Row(pid) == {p \in problems : p.pid = pid}
Holding(x) == {p \in problems : p.pidx = x}

\* /problems/new and /problems/{pidx} refuse to go on at the limit.
Count(r) ==
  /\ At(r, "count")
  /\ \/ /\ Exist /\ Cardinality(problems) < Limit
        /\ Goes(r, IF req[r].kind = "edit" THEN "lookup" ELSE "add") /\ Fine
     \/ (~Exist \/ Cardinality(problems) >= Limit) /\ Ends(r) /\ Fine
     \/ MysqlFails /\ Ends(r)
  /\ UNCHANGED <<RestP, problems, lastPid>>

\* ContestProblemAdd: pidx is unique.
AddProblem(r) ==
  /\ At(r, "add")
  /\ \/ /\ Exist /\ Holding(req[r].pidx) = {} /\ lastPid < MaxPid
        /\ problems' = problems \cup {[pid |-> lastPid + 1, pidx |-> req[r].pidx]}
        /\ lastPid' = lastPid + 1
        /\ req' = [req EXCEPT ![r].pc = "find", ![r].pid = lastPid + 1]
        /\ UNCHANGED failures /\ Upset(Late)
     \/ /\ \/ (~Exist \/ Holding(req[r].pidx) # {} \/ lastPid = MaxPid) /\ Fine
           \/ MysqlFails
        /\ Ends(r) /\ UNCHANGED <<problems, lastPid>>
  /\ UNCHANGED RestP

\* Contest.ProblemAdd reads the row it has inserted.
FindAdded(r) ==
  /\ At(r, "find")
  /\ \/ Row(req[r].pid) # {} /\ Goes(r, "column") /\ Fine
     \/ Row(req[r].pid) = {} /\ Ends(r) /\ Fine
     \/ Fails("mysql") /\ Upset({"undo"}) /\ Ends(r)
  /\ UNCHANGED <<RestP, problems, lastPid>>

AddColumnOnly(r) ==              \* mutant: the failure is not undone
  /\ At(r, "column")
  /\ \E done, ok \in BOOLEAN :
       /\ Calls("ranking" \in tables, done, ok)
       /\ IF done THEN RankingProblemAdd(req[r].pid) ELSE UNCHANGED columns
  /\ Ends(r)
  /\ UNCHANGED <<upset, own, tables, rankers, phase, creation, outcome, lastPid>>
\* ALTER TABLE ... ADD COLUMN in ppjc; when the call fails the row is deleted.
AddColumn(r) ==
  /\ At(r, "column")
  /\ \E done, ok \in BOOLEAN :
       /\ Calls("ranking" \in tables /\ req[r].pid \notin columns, done, ok)
       /\ IF done THEN RankingProblemAdd(req[r].pid) ELSE UNCHANGED columns
       /\ IF ok THEN Ends(r) ELSE Goes(r, "undo")
  /\ UNCHANGED <<upset, own, tables, rankers, phase, creation, outcome, lastPid>>

UndoAdd(r) ==
  /\ At(r, "undo")
  /\ \/ problems' = problems \ Row(req[r].pid) /\ Fine
     \/ Fails("mysql") /\ Upset({"undo"}) /\ UNCHANGED problems
  /\ Ends(r)
  /\ UNCHANGED <<RestP, lastPid>>

\* ContestProblemFind2: the problem that has the number now.
LookUp(r) ==
  /\ At(r, "lookup")
  /\ \/ \E p \in Holding(req[r].pidx), x \in Pidxs : Fine /\
          req' = [req EXCEPT ![r].pid = p.pid,
                             ![r].pidx = IF req[r].kind = "edit" THEN x ELSE p.pidx,
                             ![r].pc = CASE req[r].kind = "edit" -> "save"
                                         [] req[r].kind = "submit" -> "store"
                                         [] OTHER -> "delete"]
     \/ Holding(req[r].pidx) = {} /\ Ends(r) /\ Fine
     \/ MysqlFails /\ Ends(r)
  /\ UNCHANGED <<RestP, problems, lastPid>>

\* The form's number is saved with the whole row.  gorm's Save may insert a
\* row it does not find.
SaveProblem(r) ==
  /\ At(r, "save")
  /\ LET others == problems \ Row(req[r].pid)
     IN  \/ /\ Exist /\ \A p \in others : p.pidx # req[r].pidx
            /\ \/ /\ problems' = others \cup {[pid |-> req[r].pid, pidx |-> req[r].pidx]}
                  /\ UNCHANGED failures
                  /\ Upset(IF Row(req[r].pid) = {} THEN {"revived"} ELSE {})
               \/ Row(req[r].pid) = {} /\ UNCHANGED problems /\ Fine
         \/ /\ \/ (~Exist \/ \E p \in others : p.pidx = req[r].pidx) /\ Fine
               \/ MysqlFails
            /\ UNCHANGED problems
  /\ Ends(r)
  /\ UNCHANGED <<RestP, lastPid>>

\* /remove/{pidx}: the row, then the column, then the submissions.
DeleteProblem(r) ==
  /\ At(r, "delete")
  /\ \/ Row(req[r].pid) # {} /\ problems' = problems \ Row(req[r].pid) /\ Goes(r, "drop") /\ Fine
     \/ Row(req[r].pid) = {} /\ Ends(r) /\ UNCHANGED problems /\ Fine
     \/ MysqlFails /\ Ends(r) /\ UNCHANGED problems
  /\ UNCHANGED <<RestP, lastPid>>

DropColumn(r) ==
  /\ At(r, "drop")
  /\ \E done, ok \in BOOLEAN :
       /\ Calls(req[r].pid \in columns, done, ok)
       /\ IF done THEN RankingProblemDelete(req[r].pid) ELSE UNCHANGED columns
       /\ IF ok THEN Goes(r, "clear") ELSE Ends(r)
  /\ UNCHANGED <<upset, own, tables, rankers, phase, creation, outcome, lastPid>>

\* SubmissionRemove writes to a nil Submission and so fails for every one of
\* them; SubmissionRemoveForProblem logs it.
ClearSubmissions(r) ==
  /\ At(r, "clear") /\ Ends(r)
  /\ UNCHANGED <<own, tables, ranking, phase, creation, outcome, lastPid, History>>

\* /submit: SubmissionAdd migrates its tables before it inserts.
StoreSubmission(r) ==
  /\ At(r, "store")
  /\ \/ /\ tables' = tables \cup {"submissions"}
        /\ UNCHANGED failures /\ Upset(Late)
     \/ MysqlFails /\ UNCHANGED tables
  /\ Ends(r)
  /\ UNCHANGED <<contest, problems, joined, ranking, phase, creation, outcome, lastPid>>

\* /setting: gorm's Save may insert the row of a contest removed meanwhile.
UpdateContest(r) ==
  /\ At(r, "update")
  /\ contest' \in {contest, "there"} /\ UNCHANGED failures
  /\ Upset(IF contest' # contest THEN {"revived"} ELSE {})
  /\ Ends(r)
  /\ UNCHANGED <<tables, problems, joined, ranking, phase, creation, outcome, lastPid>>

-----------------------------------------------------------------------------
\* /remove: every step goes on to the next, whether it failed or not.
DeleteContest(r) ==
  /\ At(r, "uncontest") /\ Goes(r, "unranking")
  /\ \/ contest' = "gone" /\ Fine
     \/ Fails("mysql") /\ Upset({"remove"}) /\ UNCHANGED contest
  /\ UNCHANGED <<tables, problems, joined, ranking, phase, creation, outcome, lastPid>>

DropRanking(r) ==
  /\ At(r, "unranking") /\ Goes(r, "unproblems")
  /\ \E done, ok \in BOOLEAN :
       /\ Calls("ranking" \in tables, done, ok)
       /\ IF done THEN RankingDelete /\ UNCHANGED upset
          ELSE Upset(IF "ranking" \in tables THEN {"left"} ELSE {}) /\ UNCHANGED <<tables, ranking>>
  /\ UNCHANGED <<own, phase, creation, outcome, lastPid>>

DropProblems(r) ==
  /\ At(r, "unproblems") /\ Goes(r, "unsubmissions")
  /\ \/ tables' = tables \ {"problems"} /\ problems' = {} /\ Fine
     \/ Fails("mysql") /\ Upset({"left"}) /\ UNCHANGED <<tables, problems>>
  /\ UNCHANGED <<contest, joined, ranking, phase, creation, outcome, lastPid>>

DropSubmissions(r) ==
  /\ At(r, "unsubmissions") /\ Goes(r, "unjoin")
  /\ \/ tables' = tables \ {"submissions"} /\ Fine
     \/ Fails("mysql") /\ Upset({"left"}) /\ UNCHANGED tables
  /\ UNCHANGED <<contest, problems, joined, ranking, phase, creation, outcome, lastPid>>

RemoveNobody(r) ==               \* mutant: the participations are forgotten
  /\ At(r, "unjoin") /\ Ends(r)
  /\ UNCHANGED <<own, tables, ranking, phase, creation, outcome, lastPid, History>>
RemoveJoined(r) ==
  /\ At(r, "unjoin")
  /\ \/ joined' = {} /\ Fine
     \/ Fails("mysql") /\ Upset({"left"}) /\ UNCHANGED joined
  /\ Ends(r)
  /\ UNCHANGED Rest

-----------------------------------------------------------------------------
Work(r) ==
  \/ CreateSubmissions(r) \/ CreateProblems(r) \/ AwaitRanking(r)
  \/ Enrol(r) \/ Rank(r)
  \/ Count(r) \/ AddProblem(r) \/ FindAdded(r) \/ AddColumn(r) \/ UndoAdd(r)
  \/ LookUp(r) \/ SaveProblem(r) \/ DeleteProblem(r) \/ DropColumn(r) \/ ClearSubmissions(r)
  \/ StoreSubmission(r) \/ UpdateContest(r)
  \/ DeleteContest(r) \/ DropRanking(r) \/ DropProblems(r) \/ DropSubmissions(r) \/ RemoveJoined(r)

Next == Tick \/ PpjcNew \/ \E r \in Requests : InsertContest(r) \/ Begin(r) \/ Work(r)

Spec == Init /\ [][Next]_vars

-----------------------------------------------------------------------------
Adding(pid) == \E r \in Requests : req[r].pid = pid /\ req[r].pc \in {"find", "column", "undo"}
Quiet == \A r \in Requests : At(r, "idle")

\* A problem of a contest has its column in the ranking table, unless the
\* request that makes it is still at work: removals, failing and repeated calls
\* of ppjc and other requests do not separate them; a failing undo and a revived
\* row do.  Without the column every result is an error in RankingUpdate.
ProblemsHaveColumns ==
  contest = "there" /\ upset \cap {"undo", "remove", "revived", "late"} = {} =>
    \A p \in problems : p.pid \in columns \/ Adding(p.pid)

\* The ranking of a contest shows nobody who does not take part in it.
RankedAreJoined ==
  contest = "there" /\ upset \cap {"remove", "revived"} = {} => rankers \subseteq joined

\* When the creator is told that the contest is there, so are all its tables
\* (ContestAdd waits for ppjc, the transaction is over long before), until
\* somebody removes it.
CreatedIsComplete ==
  outcome = "ok" /\ contest = "there" /\ upset \cap {"remove", "revived"} = {} => tables = Tables

\* When a contest was removed and nobody is at work on it, nothing of it is left,
\* whatever requests came in between: unless a step of the removal failed or
\* another request made something after the removal had begun.
GoneIsEmpty ==
  contest = "gone" /\ Quiet /\ creation # "called"
    /\ upset \cap {"left", "remove", "late", "revived"} = {}
    => tables = {} /\ problems = {} /\ joined = {} /\ rankers = {}

=============================================================================
