------------------------------ MODULE TestCases ------------------------------
(***************************************************************************)
(* The test cases and score sets of one problem, and the points they give.  *)
(*                                                                         *)
(* An administrator's page replaces the list of cases, the score sets and   *)
(* the sum of the scores in one transaction (UpdateTestCaseNames), uploads   *)
(* put one file at a time into a case found by its place in the list         *)
(* (UpdateTestCase), and the problem's form writes back the whole row it     *)
(* read.  ppjc reads cases and sets for a job in two statements of one        *)
(* transaction; the worker gives the points of every set whose cases were    *)
(* all accepted.  Files of cases that are dropped belong to FileStore.       *)
(***************************************************************************)
EXTENDS Integers, Sequences, FiniteSetsExt

CONSTANTS
  Requests,     \* administrators' requests
  Jobs,         \* submissions that are dispatched
  Faults,       \* what may fail
  Forms,        \* what the page of cases may post
  Uploads,      \* what the upload pages may post: sequences of targets
  MaxRows,      \* bound: case rows made
  MaxFiles      \* bound: files uploaded

NoFile == 0
Files == 0 .. MaxFiles
Verdicts == {"unjudged", "accepted", "wrong"}
Sides == {"input", "output"}
Target == [at : Nat, side : Sides]

\* Cases are numbered from 0, as in the pages and in the score sets.
IsSet(s) == s.cases \subseteq Nat /\ s.score \in Nat

ASSUME TestCasesAssumption ==
  /\ Faults \subseteq {"statement", "score", "commit", "create"}
  /\ \A f \in Forms : f.count \in Nat /\ \A i \in DOMAIN f.sets : IsSet(f.sets[i])
  /\ \A u \in Uploads : u \in Seq(Target) /\ u # <<>>
  /\ MaxRows \in Nat /\ MaxFiles \in Nat

VARIABLES
  cases,    \* the committed rows of the problem, in the order of their ids
  sets,     \* its committed score sets
  score,    \* the column the problem pages show
  rows,     \* ids handed out to case rows
  files,    \* files made
  newest,   \* history: newest[id][side], the file of the last upload that was committed
  req,      \* req[r]: the request's progress
  job       \* job[j]: the run's progress

vars == <<cases, sets, score, rows, files, newest, req, job>>

Idle == [pc |-> "idle", kind |-> "names", form |-> [count |-> 0, sets |-> <<>>], read |-> <<>>,
         score |-> 0, todo |-> <<>>, file |-> NoFile]
NotRun == [pc |-> "queued", view |-> <<>>, cases |-> <<>>, sets |-> <<>>,
           score |-> 0, verdicts |-> <<>>, status |-> "unjudged", points |-> 0]

CaseRow == [id : 1 .. MaxRows, input : Files, output : Files]
TypeOK ==
  /\ \A i \in DOMAIN cases : cases[i] \in CaseRow
  /\ \A i \in DOMAIN sets : IsSet(sets[i])
  /\ score \in Nat /\ rows \in 0 .. MaxRows /\ files \in Files
  /\ newest \in [1 .. MaxRows -> [Sides -> Files]]
  /\ \A r \in Requests : /\ req[r].pc \in {"idle", "shown", "locked", "made"}
                         /\ req[r].kind \in {"names", "upload", "edit"}
  /\ \A j \in Jobs : /\ job[j].pc \in {"queued", "begun", "sent", "done"}
                     /\ job[j].status \in Verdicts \cup {"failed"} /\ job[j].points \in Nat

Init ==
  /\ cases = <<>> /\ sets = <<>> /\ score = 0 /\ rows = 0 /\ files = 0
  /\ newest = [id \in 1 .. MaxRows |-> [s \in Sides |-> NoFile]]
  /\ req = [r \in Requests |-> Idle]
  /\ job = [j \in Jobs |-> NotRun]

-----------------------------------------------------------------------------
\* The scores of the sets at these places.
ScoreOf(given, places) == MapThenSumSet(LAMBDA i : given[i].score, places)
ScoreSum(given) == ScoreOf(given, DOMAIN given)

At(r, pc, kind) == req[r].pc = pc /\ req[r].kind = kind
Ends(r) == req' = [req EXCEPT ![r] = Idle]
Problem == <<cases, sets, score, rows, newest>>

\* Case rows are read FOR UPDATE.  An empty list has no row to lock: several
\* requests may hold the gap, which keeps all of them from inserting.
Holders == {r \in Requests : req[r].pc \in {"locked", "made"} /\ req[r].kind # "edit"}
Locked == cases # <<>> /\ Holders # {}

LegalLoose(f) ==                   \* mutant: an index one too large is let through
  \A i \in DOMAIN f.sets : f.sets[i].cases # {} /\ f.sets[i].cases \subseteq 0 .. f.count
\* The page refuses sets that name no case or one that is not in the list.
Legal(f) ==
  \A i \in DOMAIN f.sets : f.sets[i].cases # {} /\ f.sets[i].cases \subseteq 0 .. f.count - 1

\* FOR UPDATE of the cases and the sets, after the form was found legal.
LockNamesUnlocked(r, f) ==         \* mutant: the list is read without a lock
  /\ req[r].pc = "idle" /\ Legal(f)
  /\ rows + f.count - Len(cases) <= MaxRows
  /\ req' = [req EXCEPT ![r] = [Idle EXCEPT !.pc = "locked", !.form = f, !.read = cases]]
  /\ UNCHANGED <<Problem, files, job>>
LockNames(r, f) ==
  /\ req[r].pc = "idle" /\ Legal(f) /\ ~Locked
  /\ rows + f.count - Len(cases) <= MaxRows
  /\ req' = [req EXCEPT ![r] = [Idle EXCEPT !.pc = "locked", !.form = f, !.read = cases]]
  /\ UNCHANGED <<Problem, files, job>>

Inserts(r) == At(r, "locked", "names") /\ req[r].form.count > Len(req[r].read)
NewPlaces(r) == Len(req[r].read) + 1 .. req[r].form.count
\* Rows that stay keep their ids and files, new ones have no file.
Listed(r) == [i \in 1 .. req[r].form.count |->
               IF i \in NewPlaces(r)
               THEN [id |-> rows + i - Len(req[r].read), input |-> NoFile, output |-> NoFile]
               ELSE req[r].read[i]]
Waits(r) == Inserts(r) /\ Holders # {r}

\* Rows that are left over lose their problem, and ClearUnassociatedData deletes
\* them afterwards.  Nobody looks at the error of the last statement.
CommitNames(r) ==
  /\ At(r, "locked", "names") /\ ~Waits(r)
  /\ LET f == req[r].form
     IN /\ rows' = rows + Cardinality(NewPlaces(r))
        /\ cases' = Listed(r)
        /\ sets' = f.sets
        /\ \/ score' = ScoreSum(f.sets)
           \/ "score" \in Faults /\ UNCHANGED score
  /\ Ends(r)
  /\ UNCHANGED <<files, newest, job>>

\* MySQL ends a transaction that has waited too long, and one of two that wait
\* for each other.
GivesUp(r) ==
  /\ Waits(r) \/ (At(r, "shown", "upload") /\ Locked)
  /\ Ends(r)
  /\ UNCHANGED <<Problem, files, job>>

\* A statement or the commit fails: the transaction is rolled back.
NamesFail(r) ==
  /\ Faults \cap {"statement", "commit"} # {} /\ At(r, "locked", "names")
  /\ Ends(r)
  /\ UNCHANGED <<Problem, files, job>>

-----------------------------------------------------------------------------
\* A request with several files goes through them in a transaction each, and
\* stops at the first error.
PostUpload(r, u) ==
  /\ req[r].pc = "idle"
  /\ files + Len(u) <= MaxFiles
  /\ req' = [req EXCEPT ![r] = [Idle EXCEPT !.pc = "shown", !.kind = "upload", !.todo = u]]
  /\ UNCHANGED <<Problem, files, job>>

\* The row at that place, FOR UPDATE, or no row.
LockCase(r) ==
  /\ At(r, "shown", "upload") /\ ~Locked
  /\ IF Head(req[r].todo).at < Len(cases)
     THEN req' = [req EXCEPT ![r].pc = "locked", ![r].read = cases]
     ELSE Ends(r)
  /\ UNCHANGED <<Problem, files, job>>

\* FileSecureUpdateWithReader.
MakeFile(r) ==
  /\ At(r, "locked", "upload")
  /\ \/ /\ files < MaxFiles /\ files' = files + 1
        /\ req' = [req EXCEPT ![r].pc = "made", ![r].file = files']
     \/ /\ "create" \in Faults
        /\ Ends(r) /\ UNCHANGED files
  /\ UNCHANGED <<Problem, job>>

NextFile(r) == IF Len(req[r].todo) = 1 THEN Ends(r)
            ELSE req' = [req EXCEPT ![r] = [Idle EXCEPT !.pc = "shown", !.kind = "upload",
                                                        !.todo = Tail(req[r].todo)]]

\* Save writes the whole row as it was read, with the new file.
CommitUpload(r) ==
  LET t == Head(req[r].todo)
      c == req[r].read[t.at + 1]
  IN /\ At(r, "made", "upload")
     /\ cases' = [cases EXCEPT ![t.at + 1] =
          IF t.side = "input" THEN [c EXCEPT !.input = req[r].file]
                              ELSE [c EXCEPT !.output = req[r].file]]
     /\ newest' = [newest EXCEPT ![c.id][t.side] = req[r].file]
     /\ NextFile(r)
     /\ UNCHANGED <<sets, score, rows, files, job>>

\* Nobody looks at the error of Save; that of the commit ends the request.
UploadFails(r) ==
  /\ At(r, "made", "upload")
  /\ \/ "statement" \in Faults /\ NextFile(r)
     \/ "commit" \in Faults /\ Ends(r)
  /\ UNCHANGED <<Problem, files, job>>

\* The form of the problem: the row is read, and written back as it was read.
ReadProblem(r) ==
  /\ req[r].pc = "idle"
  /\ req' = [req EXCEPT ![r] = [Idle EXCEPT !.pc = "shown", !.kind = "edit", !.score = score]]
  /\ UNCHANGED <<Problem, files, job>>
SaveProblem(r) ==
  /\ At(r, "shown", "edit")
  /\ score' = req[r].score
  /\ Ends(r)
  /\ UNCHANGED <<cases, sets, rows, files, newest, job>>

-----------------------------------------------------------------------------
(***************************************************************************)
(* Jobs.                                                                    *)
(***************************************************************************)
\* ppjc's transaction reads the problem, which makes its snapshot, and the cases;
\* view is what the snapshot has for sets.
ReadCases(j) ==
  /\ job[j].pc = "queued"
  /\ job' = [job EXCEPT ![j].pc = "begun", ![j].view = sets,
                        ![j].cases = cases, ![j].score = score]
  /\ UNCHANGED <<Problem, files, req>>

ReadSetsLate(j) ==                 \* mutant: the sets are read outside of the transaction
  /\ job[j].pc = "begun"
  /\ job' = [job EXCEPT ![j].pc = "sent", ![j].sets = sets]
  /\ UNCHANGED <<Problem, files, req>>
ReadSets(j) ==
  /\ job[j].pc = "begun"
  /\ job' = [job EXCEPT ![j].pc = "sent", ![j].sets = job[j].view]
  /\ UNCHANGED <<Problem, files, req>>

\* The verdicts of the cases, in the order of the list: all of them, or those
\* before the run failed (none, when the code did not compile).
Outcomes(list) ==
  {v \in [DOMAIN list -> Verdicts] :
     \A i, k \in DOMAIN list : i < k /\ v[i] = "unjudged" => v[k] = "unjudged"}
Complete(v) == \A i \in DOMAIN v : v[i] # "unjudged"

\* A place outside of the list cannot make a set fail.
Passed(s, v) == \A c \in s.cases : c + 1 \in DOMAIN v => v[c + 1] = "accepted"
Points(given, v) == ScoreOf(given, {i \in DOMAIN given : Passed(given[i], v)})

\* What the worker reports at the end.  A run that failed is not accepted.
Judge(j) ==
  /\ job[j].pc = "sent"
  /\ \E v \in Outcomes(job[j].cases), failed \in BOOLEAN :
       /\ ~Complete(v) => failed
       /\ job' = [job EXCEPT ![j].pc = "done", ![j].verdicts = v,
            ![j].status = IF failed THEN "failed"
                          ELSE IF \E i \in DOMAIN v : v[i] = "wrong" THEN "wrong" ELSE "accepted",
            ![j].points = Points(job[j].sets, v)]
  /\ UNCHANGED <<Problem, files, req>>

-----------------------------------------------------------------------------
NamesStep(r) == \/ \E f \in Forms : LockNames(r, f)
                \/ CommitNames(r) \/ GivesUp(r) \/ NamesFail(r)
UploadStep(r) == \/ \E u \in Uploads : PostUpload(r, u)
                 \/ LockCase(r) \/ MakeFile(r) \/ CommitUpload(r) \/ UploadFails(r)

Next == \/ \E r \in Requests : NamesStep(r) \/ UploadStep(r) \/ ReadProblem(r) \/ SaveProblem(r)
        \/ \E j \in Jobs : ReadCases(j) \/ ReadSets(j) \/ Judge(j)

Spec == Init /\ [][Next]_vars

-----------------------------------------------------------------------------
\* The score sets of a problem, and of a job, name cases of its list, whatever
\* two administrators post while submissions are dispatched.
Fit(given, list) ==
  \A i \in DOMAIN given : /\ given[i].cases # {}
                          /\ \A c \in given[i].cases : c + 1 \in DOMAIN list
\* The sets of the problem fit its list, and those of a job the list it was given.
SetsFitCases == /\ Fit(sets, cases)
                /\ \A j \in Jobs : job[j].pc \in {"sent", "done"} => Fit(job[j].sets, job[j].cases)

EarnedSet(s, v) == s.cases # {} /\ \A c \in s.cases : c + 1 \in DOMAIN v /\ v[c + 1] = "accepted"
Earned(given, v) == ScoreOf(given, {i \in DOMAIN given : EarnedSet(given[i], v)})

\* Points are given for sets all of whose cases were run and accepted, and for
\* no other, by the list and the sets that stood when the job was dispatched.
PointsAreEarned ==
  \A j \in Jobs : job[j].pc = "done" => job[j].points = Earned(job[j].view, job[j].verdicts)

\* A case's row names the file of the last upload that was committed for it: no
\* list or upload handled meanwhile puts an older one back.
NewestUpload ==
  \A i \in DOMAIN cases : \A s \in Sides : cases[i][s] = newest[cases[i].id][s]
=============================================================================
