---------------------------- MODULE ScoringProofs ----------------------------
(***************************************************************************)
(* Proofs about what submissions score.                                     *)
(*                                                                         *)
(* TestCases: the score sets fit the list of cases, points are given for    *)
(* the sets that were earned, and no upload is undone, for any forms and    *)
(* uploads the pages may post, any number of administrators and jobs, and   *)
(* any failing statement.                                                   *)
(*                                                                         *)
(* Ranking: the table holds what the submissions table gives, lists the     *)
(* users in the order of the rules, loses no points but by a rejudge, and   *)
(* implements RankingBoard, for any number of users, problems, submissions, *)
(* runs and reports handled at the same time.                               *)
(***************************************************************************)
EXTENDS TestCases, Ranking, FiniteSetTheorems, SequenceTheorems, TLAPS

\* A form that holds the locks of the list has been found legal.
FormsAreLegal ==
  /\ DOMAIN req = Requests
  /\ \A r \in Requests : DOMAIN req[r] = DOMAIN Idle
  /\ \A r \in Requests : At(r, "locked", "names") => req[r].form \in Forms /\ Legal(req[r].form)

\* A job has the list and the sets of one moment, and its points are counted
\* with the sets it was sent.
JobFits(j) ==
  /\ DOMAIN j = DOMAIN NotRun
  /\ j.pc \in {"queued", "begun", "sent", "done"}
  /\ j.pc # "queued" => Fit(j.view, j.cases)
  /\ j.pc \in {"sent", "done"} => j.sets = j.view
  /\ j.pc = "done" => /\ DOMAIN j.verdicts = DOMAIN j.cases
                      /\ j.points = Points(j.sets, j.verdicts)
JobsFit == DOMAIN job = Jobs /\ \A j \in Jobs : JobFits(job[j])

CasesInv == Fit(sets, cases) /\ FormsAreLegal /\ JobsFit

-----------------------------------------------------------------------------
(* The sets and the lists. *)

\* The sets of a legal form name places of a list of its length.
LEMMA LegalFits ==
  ASSUME NEW f, Legal(f), f.count \in Nat, NEW list, DOMAIN list = 1 .. f.count
  PROVE  Fit(f.sets, list)
<1> SUFFICES ASSUME NEW i \in DOMAIN f.sets, NEW c \in f.sets[i].cases
             PROVE  c + 1 \in 1 .. f.count
  BY DEF Legal, Fit
<1>1. c \in 0 .. f.count - 1
  BY DEF Legal
<1>. QED  BY <1>1

\* Whether sets fit a list depends on its length only.
LEMMA FitsSameLength ==
  ASSUME NEW given, NEW list, NEW other, DOMAIN list = DOMAIN other, Fit(given, list)
  PROVE  Fit(given, other)
  BY DEF Fit

\* When the sets fit the list of the verdicts, the sets that no case failed are
\* those that were earned: none is passed for naming no case, or one that is not
\* there.
LEMMA PassedIsEarned ==
  ASSUME NEW given, NEW list, NEW v, Fit(given, list), DOMAIN v = DOMAIN list
  PROVE  Points(given, v) = Earned(given, v)
<1>1. ASSUME NEW i \in DOMAIN given
      PROVE  Passed(given[i], v) <=> EarnedSet(given[i], v)
  BY DEF Fit, Passed, EarnedSet
<1>2. {i \in DOMAIN given : Passed(given[i], v)} = {i \in DOMAIN given : EarnedSet(given[i], v)}
  BY <1>1
<1>. QED  BY <1>2 DEF Points, Earned

-----------------------------------------------------------------------------
(* The steps. *)

\* There is no case yet.
LEMMA InitInv == Init => CasesInv
<1> SUFFICES ASSUME Init PROVE CasesInv
  OBVIOUS
<1>1. Fit(sets, cases)
  BY DEF Init, Fit
<1>2. FormsAreLegal
  BY DEF Init, FormsAreLegal, Idle, At
<1>3. JobsFit
  BY DEF Init, JobsFit, JobFits, NotRun
<1>. QED  BY <1>1, <1>2, <1>3 DEF CasesInv

\* A request that ends, or goes on with its next file, holds no form.
LEMMA EndsLegal ==
  ASSUME FormsAreLegal, NEW r \in Requests, Ends(r) \/ NextFile(r)
  PROVE  FormsAreLegal'
<1>1. CASE Ends(r)
  BY <1>1 DEF FormsAreLegal, Ends, Idle, At, Legal
<1>2. ASSUME NEW t, req' = [req EXCEPT ![r] =
               [Idle EXCEPT !.pc = "shown", !.kind = "upload", !.todo = t]]
      PROVE  FormsAreLegal'
  BY <1>2 DEF FormsAreLegal, Idle, At, Legal
<1>. QED  BY <1>1, <1>2 DEF NextFile

\* The page of cases.
LEMMA NamesStepKeeps ==
  ASSUME CasesInv, NEW r \in Requests, NamesStep(r)
  PROVE  CasesInv'
<1>1. ASSUME NEW f \in Forms, LockNames(r, f) PROVE CasesInv'
  <2>1. FormsAreLegal'
    BY <1>1 DEF CasesInv, FormsAreLegal, LockNames, Idle, At, Legal
  <2>. QED  BY <1>1, <2>1 DEF CasesInv, LockNames, Problem, JobsFit
<1>2. CASE CommitNames(r)
  <2> DEFINE f == req[r].form
  <2>1. f.count \in Nat /\ Legal(f)
    BY <1>2, TestCasesAssumption DEF CommitNames, CasesInv, FormsAreLegal
  <2>2. sets' = f.sets /\ DOMAIN cases' = 1 .. f.count
    BY <1>2 DEF CommitNames, Listed
  <2>3. Fit(sets, cases)'
    BY <2>1, <2>2, LegalFits DEF Fit
  <2>4. FormsAreLegal'
    BY <1>2, EndsLegal DEF CommitNames, CasesInv
  <2>. QED  BY <1>2, <2>3, <2>4 DEF CommitNames, CasesInv, JobsFit
<1>3. CASE GivesUp(r) \/ NamesFail(r)
  BY <1>3, EndsLegal DEF CasesInv, GivesUp, NamesFail, Problem, JobsFit
<1>. QED  BY <1>1, <1>2, <1>3 DEF NamesStep

\* The pages of uploads: the list keeps its length.
LEMMA UploadStepKeeps ==
  ASSUME CasesInv, NEW r \in Requests, UploadStep(r)
  PROVE  CasesInv'
<1>1. ASSUME NEW u \in Uploads, PostUpload(r, u) PROVE CasesInv'
  <2>1. FormsAreLegal'
    BY <1>1 DEF CasesInv, FormsAreLegal, PostUpload, Idle, At
  <2>. QED  BY <1>1, <2>1 DEF CasesInv, PostUpload, Problem, JobsFit
<1>2. CASE LockCase(r)
  <2>1. FormsAreLegal'
    BY <1>2, EndsLegal DEF CasesInv, FormsAreLegal, LockCase, Idle, At
  <2>. QED  BY <1>2, <2>1 DEF CasesInv, LockCase, Problem, JobsFit
<1>3. CASE MakeFile(r)
  <2>1. FormsAreLegal'
    BY <1>3, EndsLegal, SMTT(30) DEF CasesInv, FormsAreLegal, MakeFile, Idle, At
  <2>. QED  BY <1>3, <2>1 DEF CasesInv, MakeFile, Problem, JobsFit
<1>4. CASE CommitUpload(r)
  <2>1. sets' = sets /\ DOMAIN cases' = DOMAIN cases
    BY <1>4 DEF CommitUpload
  <2>2. Fit(sets, cases)'
    BY <2>1, FitsSameLength, SMTT(30) DEF CasesInv
  <2>3. FormsAreLegal'
    BY <1>4, EndsLegal DEF CommitUpload, CasesInv
  <2>. QED  BY <1>4, <2>2, <2>3, ZenonT(40) DEF CommitUpload, CasesInv, JobsFit
<1>5. CASE UploadFails(r)
  <2>1. FormsAreLegal'
    BY <1>5, EndsLegal DEF UploadFails, CasesInv
  <2>. QED  BY <1>5, <2>1 DEF CasesInv, UploadFails, Problem, JobsFit
<1>. QED  BY <1>1, <1>2, <1>3, <1>4, <1>5 DEF UploadStep

\* The form of the problem writes the score only.
LEMMA EditKeeps ==
  ASSUME CasesInv, NEW r \in Requests, ReadProblem(r) \/ SaveProblem(r)
  PROVE  CasesInv'
<1>1. CASE ReadProblem(r)
  <2>1. FormsAreLegal'
    BY <1>1 DEF CasesInv, FormsAreLegal, ReadProblem, Idle, At
  <2>. QED  BY <1>1, <2>1 DEF CasesInv, ReadProblem, Problem, JobsFit
<1>2. CASE SaveProblem(r)
  BY <1>2, EndsLegal DEF CasesInv, SaveProblem, JobsFit
<1>. QED  BY <1>1, <1>2

\* A job takes the sets and the list of one snapshot, and its points are counted
\* from the verdicts of that list.
LEMMA JobStepKeeps ==
  ASSUME CasesInv, NEW j \in Jobs, ReadCases(j) \/ ReadSets(j) \/ Judge(j)
  PROVE  CasesInv'
<1>1. UNCHANGED <<cases, sets, req>>
  BY DEF ReadCases, ReadSets, Judge, Problem
<1>2. JobFits(job[j]) /\ Fit(sets, cases) /\ DOMAIN job = Jobs
  BY DEF CasesInv, JobsFit
<1>3. ASSUME JobFits(job'[j]), \A k \in Jobs \ {j} : job'[k] = job[k], DOMAIN job' = Jobs
      PROVE  CasesInv'
  BY <1>1, <1>3 DEF CasesInv, FormsAreLegal, JobsFit, At
<1>4. CASE ReadCases(j)
  <2>1. JobFits(job'[j])
    BY <1>2, <1>4 DEF ReadCases, JobFits, NotRun
  <2>. QED  BY <1>2, <1>3, <1>4, <2>1 DEF ReadCases
<1>5. CASE ReadSets(j)
  <2>1. JobFits(job'[j])
    BY <1>2, <1>5 DEF ReadSets, JobFits, NotRun
  <2>. QED  BY <1>2, <1>3, <1>5, <2>1 DEF ReadSets
<1>6. CASE Judge(j)
  <2>0. PICK v \in Outcomes(job[j].cases) : \E status :
          job' = [job EXCEPT ![j].pc = "done", ![j].verdicts = v, ![j].status = status,
                             ![j].points = Points(job[j].sets, v)]
    BY <1>6 DEF Judge
  <2>1. PICK status :
          job' = [job EXCEPT ![j].pc = "done", ![j].verdicts = v, ![j].status = status,
                             ![j].points = Points(job[j].sets, v)]
    BY <2>0
  <2>2. DOMAIN v = DOMAIN job[j].cases
    BY DEF Outcomes
  <2>3. JobFits(job'[j])
    BY <1>2, <1>6, <2>1, <2>2 DEF Judge, JobFits, NotRun
  <2>. QED  BY <1>2, <1>3, <2>1, <2>3
<1>. QED  BY <1>4, <1>5, <1>6

\* Every step keeps the sets and the cases in agreement.
LEMMA StepInv == CasesInv /\ [Next]_vars => CasesInv'
<1> SUFFICES ASSUME CasesInv, [Next]_vars PROVE CasesInv'
  OBVIOUS
<1>1. CASE UNCHANGED vars
  BY <1>1 DEF vars, CasesInv, FormsAreLegal, JobsFit, At
<1>. QED  BY <1>1, NamesStepKeeps, UploadStepKeeps, EditKeeps, JobStepKeeps DEF Next

-----------------------------------------------------------------------------
(***************************************************************************)
(* The files of the rows.  A row is written back as it was read: that no     *)
(* newer file is lost rests on the lock of the list, held from the read to    *)
(* the commit, and on ids that are not handed out twice.                      *)
(***************************************************************************)
\* The rows have ids of their own, and no file was uploaded to a later id.
RowsInv ==
  /\ cases \in Seq(CaseRow) /\ rows \in 0 .. MaxRows /\ files \in Files
  /\ newest \in [1 .. MaxRows -> [Sides -> Files]]
  /\ \A i \in DOMAIN cases : cases[i].id <= rows
  /\ \A i, k \in DOMAIN cases : cases[i].id = cases[k].id => i = k
  /\ \A id \in 1 .. MaxRows : id > rows => \A s \in Sides : newest[id][s] = NoFile
  /\ NewestUpload

\* An upload knows the places it is for; the row it has locked is in the list.
UploadInv(q) ==
  q.kind = "upload" =>
    /\ q.pc # "idle" => q.todo \in Seq(Target) /\ q.todo # <<>>
    /\ q.pc \in {"locked", "made"} => Head(q.todo).at < Len(q.read)
    /\ q.pc = "made" => q.file \in Files

\* What a request has read under its lock is still what is there, and only the
\* gap of an empty list has several holders.  There are ids for what it inserts.
LocksInv ==
  /\ \A r \in Holders : req[r].read = cases
  /\ cases # <<>> => \A r, q \in Holders : r = q
  /\ \A r \in Requests : At(r, "locked", "names") => rows + req[r].form.count - Len(cases) <= MaxRows

FilesInv ==
  /\ RowsInv /\ LocksInv
  /\ \A r \in Requests : UploadInv(req[r])

\* No file is stored and no upload is on its way yet.
LEMMA FilesInit == Init => FilesInv
<1> SUFFICES ASSUME Init PROVE FilesInv
  OBVIOUS
<1>1. \A r \in Requests : req[r].pc = "idle" /\ req[r].kind = "names"
  BY DEF Init, Idle
<1>2. RowsInv
  BY TestCasesAssumption DEF Init, RowsInv, NewestUpload, Files, NoFile, CaseRow
<1>3. LocksInv
  BY <1>1 DEF LocksInv, Holders, At
<1>4. \A r \in Requests : UploadInv(req[r])
  BY <1>1 DEF UploadInv
<1>. QED  BY <1>2, <1>3, <1>4 DEF FilesInv

\* A request that holds no lock afterwards disturbs no other's.
LEMMA FreeKeepsLocks ==
  ASSUME LocksInv, FormsAreLegal, NEW r \in Requests, NEW x,
         req' = [req EXCEPT ![r] = x], x.pc \in {"idle", "shown"},
         cases' = cases, rows' = rows
  PROVE  LocksInv'
<1>1. \A q \in Requests \ {r} : req'[q] = req[q]
  BY DEF FormsAreLegal
<1>2. req'[r].pc \in {"idle", "shown"}
  BY DEF FormsAreLegal
<1>3. Holders' = Holders \ {r}
  BY <1>1, <1>2 DEF Holders
<1>. QED  BY <1>1, <1>2, <1>3 DEF LocksInv, At, Holders

\* The other requests' uploads are what they were.
LEMMA OneUpload ==
  ASSUME FilesInv, FormsAreLegal, NEW r \in Requests, NEW x,
         req' = [req EXCEPT ![r] = x], UploadInv(x)
  PROVE  \A q \in Requests : UploadInv(req'[q])
  BY DEF FilesInv, FormsAreLegal

\* The last holder that goes leaves no lock behind, whatever it has written.
LEMMA LastFreesAll ==
  ASSUME FormsAreLegal, NEW r \in Requests, NEW x, Holders \subseteq {r},
         req' = [req EXCEPT ![r] = x], x.pc \in {"idle", "shown"}
  PROVE  LocksInv'
<1>1. Holders' = {} /\ \A q \in Requests : ~At(q, "locked", "names")'
  BY DEF FormsAreLegal, Holders, At
<1>. QED  BY <1>1 DEF LocksInv

\* A request that ends has no upload any more.
LEMMA EndsFree ==
  ASSUME NEW r \in Requests, Ends(r)
  PROVE  \E x : req' = [req EXCEPT ![r] = x] /\ x.pc \in {"idle", "shown"} /\ UploadInv(x)
<1>1. Idle.pc = "idle" /\ UploadInv(Idle)
  BY DEF Idle, UploadInv
<1>. QED  BY <1>1 DEF Ends

\* A request that has come to the end of a file ends or is at its next one.
LEMMA NextFileFree ==
  ASSUME NEW r \in Requests, UploadInv(req[r]), At(r, "made", "upload"), NextFile(r)
  PROVE  \E x : req' = [req EXCEPT ![r] = x] /\ x.pc \in {"idle", "shown"} /\ UploadInv(x)
<1>1. CASE Ends(r)
  BY <1>1, EndsFree
<1>2. CASE Len(req[r].todo) # 1
  <2>1. req[r].todo \in Seq(Target) /\ req[r].todo # <<>>
    BY DEF UploadInv, At
  <2>2. Tail(req[r].todo) \in Seq(Target) /\ Tail(req[r].todo) # <<>>
    <3>1. /\ Tail(req[r].todo) \in Seq(Target)
          /\ Len(Tail(req[r].todo)) = Len(req[r].todo) - 1 /\ Len(req[r].todo) \in Nat
      BY <2>1, HeadTailProperties
    <3>2. Len(Tail(req[r].todo)) # 0
      BY <1>2, <3>1
    <3>. QED  BY <3>1, <3>2, EmptySeq
  <2> DEFINE x == [Idle EXCEPT !.pc = "shown", !.kind = "upload", !.todo = Tail(req[r].todo)]
  <2>3. req' = [req EXCEPT ![r] = x]
    BY <1>2 DEF NextFile
  <2>4. x.pc = "shown" /\ x.todo = Tail(req[r].todo)
    BY DEF Idle
  <2>5. UploadInv(x)
    BY <2>2, <2>4 DEF UploadInv
  <2>. QED  BY <2>3, <2>4, <2>5
<1>. QED  BY <1>1, <1>2 DEF NextFile

\* A request that goes without having written anything.
LEMMA GoesFree ==
  ASSUME FilesInv, FormsAreLegal, NEW r \in Requests, UNCHANGED <<Problem, files>>,
         NEW x, req' = [req EXCEPT ![r] = x], x.pc \in {"idle", "shown"}, UploadInv(x)
  PROVE  FilesInv'
<1>1. cases' = cases /\ rows' = rows /\ newest' = newest /\ files' = files
  BY DEF Problem
<1>2. RowsInv'
  BY <1>1 DEF FilesInv, RowsInv, NewestUpload
<1>3. LocksInv'
  BY <1>1, FreeKeepsLocks DEF FilesInv
<1>. QED  BY <1>2, <1>3, OneUpload DEF FilesInv

\* A request that takes the lock of the list: no other holds it, unless the list
\* is empty and it is the page of cases.
LEMMA LockNamesKeeps ==
  ASSUME FilesInv, FormsAreLegal, NEW r \in Requests, NEW f \in Forms, LockNames(r, f)
  PROVE  FilesInv'
<1> DEFINE x == [Idle EXCEPT !.pc = "locked", !.form = f, !.read = cases]
<1>1. cases' = cases /\ rows' = rows /\ newest' = newest /\ files' = files
  BY DEF LockNames, Problem
<1>2. req' = [req EXCEPT ![r] = x] /\ x.pc = "locked" /\ x.kind = "names" /\ x.read = cases /\ x.form = f
  BY DEF LockNames, Idle
<1>3. RowsInv'
  BY <1>1 DEF FilesInv, RowsInv, NewestUpload
<1>4. \A q \in Requests \ {r} : req'[q] = req[q]
  BY <1>2 DEF FormsAreLegal
<1>5. req'[r] = x
  BY <1>2 DEF FormsAreLegal
<1> HIDE DEF x
<1>6. Holders' = Holders \cup {r}
  BY <1>2, <1>4, <1>5 DEF Holders
<1>7. \A q \in Holders' : req'[q].read = cases'
  BY <1>1, <1>2, <1>4, <1>5, <1>6 DEF FilesInv, LocksInv
<1>8. cases' # <<>> => Holders' = {r}
  BY <1>1, <1>6 DEF LockNames, Locked
<1>9. ASSUME NEW q \in Requests, At(q, "locked", "names")'
      PROVE  rows' + req'[q].form.count - Len(cases') <= MaxRows
  <2>1. CASE q = r
    BY <1>1, <1>2, <1>5, <2>1 DEF LockNames
  <2>2. CASE q # r
    BY <1>1, <1>4, <1>9, <2>2 DEF FilesInv, LocksInv, At
  <2>. QED  BY <2>1, <2>2
<1>10. LocksInv'
  BY <1>7, <1>8, <1>9 DEF LocksInv
<1>11. UploadInv(x)
  BY <1>2 DEF UploadInv
<1>. QED  BY <1>2, <1>3, <1>10, <1>11, OneUpload DEF FilesInv

\* The row an upload locks is in a list, so that nobody else holds a lock.
LEMMA LockCaseKeeps ==
  ASSUME FilesInv, FormsAreLegal, NEW r \in Requests, LockCase(r)
  PROVE  FilesInv'
<1>1. cases' = cases /\ rows' = rows /\ newest' = newest /\ files' = files
  BY DEF LockCase, Problem
<1>2. CASE Ends(r)
  BY <1>2, EndsFree, GoesFree DEF LockCase
<1>3. CASE ~Ends(r)
  <2> DEFINE x == [req[r] EXCEPT !.pc = "locked", !.read = cases]
  <2>1. req' = [req EXCEPT ![r] = x] /\ Head(req[r].todo).at < Len(cases)
    BY <1>3 DEF LockCase
  <2>2. x.pc = "locked" /\ x.kind = "upload" /\ x.read = cases /\ x.todo = req[r].todo
    BY DEF FormsAreLegal, LockCase, At, Idle
  <2>3. \A q \in Requests \ {r} : req'[q] = req[q]
    BY <2>1 DEF FormsAreLegal
  <2>4. req'[r] = x
    BY <2>1 DEF FormsAreLegal
  <2> HIDE DEF x
  <2>5. cases # <<>>
    <3>1. req[r].todo \in Seq(Target) /\ req[r].todo # <<>>
      BY DEF FilesInv, UploadInv, LockCase, At
    <3>2. Head(req[r].todo) \in Target
      BY <3>1, HeadTailProperties
    <3>3. Head(req[r].todo).at \in Nat
      BY <3>2 DEF Target
    <3>. QED  BY <2>1, <3>3, EmptySeq
  <2>6. Holders' = {r}
    BY <2>2, <2>3, <2>4, <2>5 DEF Holders, LockCase, Locked
  <2>7. RowsInv'
    BY <1>1 DEF FilesInv, RowsInv, NewestUpload
  <2>8. LocksInv'
    BY <1>1, <2>2, <2>3, <2>4, <2>6 DEF FilesInv, LocksInv, At
  <2>9. UploadInv(x)
    BY <2>1, <2>2 DEF FilesInv, UploadInv, LockCase, At
  <2>. QED  BY <2>1, <2>7, <2>8, <2>9, OneUpload DEF FilesInv
<1>. QED  BY <1>2, <1>3

\* The file is made before the row is written: nothing of the list changes.
LEMMA MakeFileKeeps ==
  ASSUME FilesInv, FormsAreLegal, NEW r \in Requests, MakeFile(r)
  PROVE  FilesInv'
<1>1. cases' = cases /\ rows' = rows /\ newest' = newest
  BY DEF MakeFile, Problem
<1>2. CASE Ends(r) /\ UNCHANGED files
  BY <1>2, EndsFree, GoesFree DEF MakeFile
<1>3. CASE ~(Ends(r) /\ UNCHANGED files)
  <2> DEFINE x == [req[r] EXCEPT !.pc = "made", !.file = files']
  <2>1. req' = [req EXCEPT ![r] = x] /\ files < MaxFiles /\ files' = files + 1
    BY <1>3 DEF MakeFile
  <2>2. /\ x.pc = "made" /\ x.kind = "upload" /\ x.read = req[r].read
        /\ x.todo = req[r].todo /\ x.file = files'
    BY DEF FormsAreLegal, MakeFile, At, Idle
  <2>3. \A q \in Requests \ {r} : req'[q] = req[q]
    BY <2>1 DEF FormsAreLegal
  <2>4. req'[r] = x
    BY <2>1 DEF FormsAreLegal
  <2> HIDE DEF x
  <2>5. files' \in Files
    BY <2>1, TestCasesAssumption DEF FilesInv, RowsInv, Files
  <2>6. Holders' = Holders /\ r \in Holders
    BY <2>2, <2>3, <2>4 DEF Holders, MakeFile, At
  <2>7. RowsInv'
    BY <1>1, <2>5 DEF FilesInv, RowsInv, NewestUpload
  <2>8. LocksInv'
    <3>1. \A q \in Holders : req'[q].read = cases
      BY <2>2, <2>3, <2>4, <2>6 DEF FilesInv, LocksInv, Holders
    <3>2. \A q \in Requests : At(q, "locked", "names")' => q # r
      BY <2>2, <2>4 DEF At
    <3>3. \A q \in Requests : At(q, "locked", "names")' =>
            At(q, "locked", "names") /\ req'[q].form = req[q].form
      BY <2>3, <3>2 DEF At
    <3>. QED  BY <1>1, <2>6, <3>1, <3>3 DEF FilesInv, LocksInv
  <2>9. UploadInv(x)
    BY <2>2, <2>5 DEF FilesInv, UploadInv, MakeFile, At
  <2>. QED  BY <2>1, <2>7, <2>8, <2>9, OneUpload DEF FilesInv
<1>. QED  BY <1>2, <1>3

\* The list that a page writes: the rows that stay are those of the list, which
\* are still what was read; the others have new ids and no file.
LEMMA CommitNamesKeeps ==
  ASSUME FilesInv, FormsAreLegal, NEW r \in Requests, CommitNames(r)
  PROVE  FilesInv'
<1> DEFINE n == Len(cases)
           m == req[r].form.count
<1>1. /\ At(r, "locked", "names") /\ ~Waits(r) /\ Ends(r) /\ cases' = Listed(r)
      /\ rows' = rows + Cardinality(NewPlaces(r)) /\ newest' = newest /\ files' = files
  BY DEF CommitNames
<1>2. r \in Holders /\ req[r].read = cases
  BY <1>1 DEF Holders, At, FilesInv, LocksInv
<1>3. m \in Nat /\ n \in Nat /\ cases \in Seq(CaseRow) /\ DOMAIN cases = 1 .. n
  BY <1>1, TestCasesAssumption, LenProperties DEF FilesInv, RowsInv, FormsAreLegal
<1>4. NewPlaces(r) = n + 1 .. m
  BY <1>2 DEF NewPlaces
<1>5. rows' = IF m > n THEN rows + (m - n) ELSE rows
  <2>1. Cardinality(n + 1 .. m) = IF n + 1 > m THEN 0 ELSE m - (n + 1) + 1
    BY <1>3, FS_Interval, SMTT(30)
  <2>2. rows \in Nat
    BY TestCasesAssumption DEF FilesInv, RowsInv
  <2>. QED  BY <1>1, <1>3, <1>4, <2>1, <2>2
<1>6. rows + m - n <= MaxRows /\ rows \in 0 .. MaxRows /\ MaxRows \in Nat
  BY <1>1, TestCasesAssumption DEF FilesInv, LocksInv, RowsInv
<1>7. /\ DOMAIN cases' = 1 .. m
      /\ \A i \in 1 .. m : i > n => cases'[i] = [id |-> rows + i - n, input |-> NoFile, output |-> NoFile]
      /\ \A i \in 1 .. m : i <= n => cases'[i] = cases[i]
  BY <1>1, <1>2, <1>3, <1>4 DEF Listed
<1>8. \A i \in 1 .. n : /\ cases[i] \in CaseRow /\ cases[i].id \in 1 .. rows
                        /\ \A s \in Sides : cases[i][s] = newest[cases[i].id][s]
  <2>1. \A i \in 1 .. n : cases[i] \in CaseRow
    BY <1>3, ElementOfSeq
  <2>. QED  BY <1>3, <1>6, <2>1 DEF FilesInv, RowsInv, CaseRow, NewestUpload
<1>9. \A i \in 1 .. m : i > n => /\ cases'[i] \in CaseRow /\ cases'[i].id = rows + i - n
                                 /\ cases'[i].id \in rows + 1 .. rows'
                                 /\ \A s \in Sides : cases'[i][s] = NoFile
  <2> SUFFICES ASSUME NEW i \in 1 .. m, i > n
               PROVE  /\ cases'[i] \in CaseRow /\ cases'[i].id = rows + i - n
                      /\ cases'[i].id \in rows + 1 .. rows'
                      /\ \A s \in Sides : cases'[i][s] = NoFile
    OBVIOUS
  <2>1. cases'[i] = [id |-> rows + i - n, input |-> NoFile, output |-> NoFile]
    BY <1>7
  <2>2. rows + i - n \in rows + 1 .. rows' /\ rows + i - n \in 1 .. MaxRows
    <3> HIDE DEF n, m
    <3>1. m > n /\ i \in Nat /\ i <= m /\ rows \in Nat
      BY <1>3, <1>6
    <3>2. rows' = rows + (m - n)
      BY <1>5, <3>1
    <3>3. rows + i - n <= rows + (m - n) /\ rows + i - n >= rows + 1 /\ rows + i - n \in Int
      BY <1>3, <3>1
    <3>4. rows + (m - n) = rows + m - n /\ rows + m - n \in Int
      BY <1>3, <3>1
    <3>5. rows + i - n <= MaxRows /\ rows + i - n >= 1
      BY <1>6, <3>1, <3>3, <3>4
    <3>. QED  BY <1>6, <3>1, <3>2, <3>3, <3>4, <3>5
  <2>3. NoFile \in Files
    BY TestCasesAssumption DEF NoFile, Files
  <2>. QED  BY <2>1, <2>2, <2>3 DEF CaseRow, Sides
<1>10. RowsInv'
  <2>1. cases' \in Seq(CaseRow)
    <3>1. \A i \in 1 .. m : cases'[i] \in CaseRow
      BY <1>3, <1>7, <1>8, <1>9
    <3>2. cases' = [i \in 1 .. m |-> cases'[i]]
      BY <1>1, <1>2 DEF Listed
    <3>. QED  BY <1>3, <3>1, <3>2
  <2>2. rows' \in rows .. MaxRows
    BY <1>3, <1>5, <1>6
  <2>3. \A i \in 1 .. m : cases'[i].id <= rows'
    BY <1>3, <1>6, <1>7, <1>8, <1>9, <2>2
  <2>4. ASSUME NEW i \in 1 .. m, NEW k \in 1 .. m, cases'[i].id = cases'[k].id
        PROVE  i = k
    <3>1. CASE i <= n /\ k <= n
      BY <1>3, <1>7, <2>4, <3>1 DEF FilesInv, RowsInv
    <3>2. CASE i > n /\ k > n
      BY <1>3, <1>6, <1>9, <2>4, <3>2
    <3>3. CASE (i > n /\ k <= n) \/ (i <= n /\ k > n)
      BY <1>3, <1>6, <1>7, <1>8, <1>9, <2>4, <3>3
    <3>. QED  BY <1>3, <3>1, <3>2, <3>3
  <2>5. \A id \in 1 .. MaxRows : id > rows => \A s \in Sides : newest[id][s] = NoFile
    BY DEF FilesInv, RowsInv
  <2>6. \A i \in 1 .. m, s \in Sides : cases'[i][s] = newest'[cases'[i].id][s]
    <3> SUFFICES ASSUME NEW i \in 1 .. m, NEW s \in Sides
                 PROVE  cases'[i][s] = newest[cases'[i].id][s]
      BY <1>1
    <3>1. CASE i <= n
      BY <1>3, <1>7, <1>8, <3>1
    <3>2. CASE i > n
      <4>1. cases'[i].id \in 1 .. MaxRows /\ cases'[i].id > rows
        BY <1>6, <1>9, <2>2, <3>2
      <4>. QED  BY <1>9, <2>5, <3>2, <4>1
    <3>. QED  BY <1>3, <3>1, <3>2
  <2>7. \A id \in 1 .. MaxRows : id > rows' => \A s \in Sides : newest'[id][s] = NoFile
    BY <1>1, <1>6, <2>2, <2>5
  <2>8. rows' \in 0 .. MaxRows
    BY <1>6, <2>2
  <2>. QED  BY <1>1, <1>7, <2>1, <2>3, <2>4, <2>6, <2>7, <2>8 DEF FilesInv, RowsInv, NewestUpload
<1>11. LocksInv'
  <2>1. PICK x : req' = [req EXCEPT ![r] = x] /\ x.pc \in {"idle", "shown"} /\ UploadInv(x)
    BY <1>1, EndsFree
  <2>2. CASE Holders \subseteq {r}
    BY <2>1, <2>2, LastFreesAll
  <2>3. CASE ~(Holders \subseteq {r})
    <3>1. cases = <<>> /\ n = 0
      BY <1>2, <2>3, EmptySeq DEF FilesInv, LocksInv
    <3>2. m <= n
      BY <1>1, <1>2, <1>3, <2>3 DEF Waits, Inserts
    <3>3. cases' = cases
      <4>1. 1 .. m = {} /\ 1 .. n = {}
        BY <1>3, <3>1, <3>2
      <4>2. cases' \in Seq(CaseRow) /\ DOMAIN cases' = {}
        BY <1>7, <1>10, <4>1 DEF RowsInv
      <4>3. Len(cases') = 0
        BY <4>2, LenProperties
      <4>. QED  BY <3>1, <4>2, <4>3, EmptySeq
    <3>4. rows' = rows
      BY <1>3, <1>5, <3>2
    <3>. QED  BY <2>1, <3>3, <3>4, FreeKeepsLocks DEF FilesInv
  <2>. QED  BY <2>2, <2>3
<1>. QED  BY <1>1, <1>10, <1>11, EndsFree, OneUpload DEF FilesInv

\* An upload writes its row back as it was read, with the file it has made: the
\* row is still what was read, and no other row has its id.
LEMMA CommitUploadKeeps ==
  ASSUME FilesInv, FormsAreLegal, NEW r \in Requests, CommitUpload(r)
  PROVE  FilesInv'
<1> DEFINE t == Head(req[r].todo)
           k == t.at + 1
           c == cases[k]
           new == IF t.side = "input" THEN [c EXCEPT !.input = req[r].file]
                                      ELSE [c EXCEPT !.output = req[r].file]
<1>1. r \in Holders /\ req[r].read = cases /\ At(r, "made", "upload")
  BY DEF CommitUpload, Holders, At, FilesInv, LocksInv
<1>2. /\ cases' = [cases EXCEPT ![k] = new] /\ newest' = [newest EXCEPT ![c.id][t.side] = req[r].file]
      /\ rows' = rows /\ files' = files /\ NextFile(r)
  BY <1>1 DEF CommitUpload
<1>3. /\ cases \in Seq(CaseRow) /\ DOMAIN cases = 1 .. Len(cases) /\ Len(cases) \in Nat
      /\ rows \in 0 .. MaxRows /\ newest \in [1 .. MaxRows -> [Sides -> Files]]
      /\ \A i \in DOMAIN cases : cases[i].id <= rows
      /\ \A i, j \in DOMAIN cases : cases[i].id = cases[j].id => i = j
      /\ \A id \in 1 .. MaxRows : id > rows => \A s \in Sides : newest[id][s] = NoFile
      /\ \A i \in DOMAIN cases, s \in Sides : cases[i][s] = newest[cases[i].id][s]
  BY LenProperties DEF FilesInv, RowsInv, NewestUpload
<1>4. /\ req[r].todo \in Seq(Target) /\ req[r].todo # <<>>
      /\ t.at < Len(cases) /\ req[r].file \in Files
  BY <1>1 DEF FilesInv, UploadInv, At
<1>5. t.at \in Nat /\ t.side \in Sides /\ k \in 1 .. Len(cases)
  <2>1. t \in Target
    BY <1>4, HeadTailProperties
  <2>2. \A x \in Target : x.at \in Nat /\ x.side \in Sides
    BY DEF Target
  <2>3. t.at \in Nat /\ t.side \in Sides
    BY <2>1, <2>2
  <2>4. \A a, n \in Nat : a < n => a + 1 \in 1 .. n
    OBVIOUS
  <2>. QED  BY <1>3, <1>4, <2>3, <2>4
<1>6. \A i \in 1 .. Len(cases) : cases[i] \in CaseRow
  BY <1>3, ElementOfSeq
<1>7. c \in CaseRow /\ c.id \in 1 .. MaxRows /\ c.id <= rows
  BY <1>3, <1>5, <1>6 DEF CaseRow
<1> HIDE DEF t, k, c
<1>8. /\ new \in CaseRow /\ new.id = c.id /\ new[t.side] = req[r].file
      /\ \A s \in Sides \ {t.side} : new[s] = c[s]
  BY <1>4, <1>5, <1>7 DEF CaseRow, Sides
<1> HIDE DEF new
<1>9. /\ cases' \in Seq(CaseRow) /\ DOMAIN cases' = DOMAIN cases /\ Len(cases') = Len(cases)
      /\ cases'[k] = new /\ \A i \in DOMAIN cases \ {k} : cases'[i] = cases[i]
  BY <1>2, <1>3, <1>5, <1>8, ExceptSeq
<1>10. /\ newest' \in [1 .. MaxRows -> [Sides -> Files]]
       /\ newest'[c.id][t.side] = req[r].file
       /\ \A s \in Sides \ {t.side} : newest'[c.id][s] = newest[c.id][s]
       /\ \A id \in 1 .. MaxRows \ {c.id} : newest'[id] = newest[id]
  BY <1>2, <1>3, <1>4, <1>5, <1>7
<1>11. \A i \in DOMAIN cases : cases'[i].id = cases[i].id
  BY <1>5, <1>8, <1>9 DEF c
<1>12. ASSUME NEW i \in DOMAIN cases, NEW s \in Sides
       PROVE  cases'[i][s] = newest'[cases'[i].id][s]
  <2>1. CASE i # k
    <3>1. cases[i].id # c.id /\ cases[i].id \in 1 .. MaxRows
      BY <1>3, <1>5, <1>6, <2>1 DEF c, CaseRow
    <3>. QED  BY <1>3, <1>9, <1>10, <2>1, <3>1
  <2>2. CASE i = k /\ s = t.side
    BY <1>8, <1>9, <1>10, <2>2
  <2>3. CASE i = k /\ s # t.side
    BY <1>3, <1>8, <1>9, <1>10, <2>3 DEF c
  <2>. QED  BY <2>1, <2>2, <2>3
<1>13. \A id \in 1 .. MaxRows : id > rows => \A s \in Sides : newest'[id][s] = NoFile
  <2> SUFFICES ASSUME NEW id \in 1 .. MaxRows, id > rows
               PROVE  \A s \in Sides : newest'[id][s] = NoFile
    OBVIOUS
  <2>1. id # c.id
    BY <1>3, <1>7
  <2>. QED  BY <1>3, <1>10, <2>1
<1>14. RowsInv'
  BY <1>2, <1>3, <1>9, <1>10, <1>11, <1>12, <1>13 DEF FilesInv, RowsInv, NewestUpload
<1>15. PICK x : req' = [req EXCEPT ![r] = x] /\ x.pc \in {"idle", "shown"} /\ UploadInv(x)
  BY <1>1, <1>2, NextFileFree DEF FilesInv
<1>16. Holders \subseteq {r}
  <2>1. cases # <<>>
    BY <1>3, <1>5, EmptySeq
  <2>. QED  BY <1>1, <2>1 DEF FilesInv, LocksInv
<1>. QED  BY <1>14, <1>15, <1>16, LastFreesAll, OneUpload, ZenonT(40) DEF FilesInv

\* The steps that write no row.
LEMMA OthersKeep ==
  ASSUME FilesInv, FormsAreLegal, NEW r \in Requests,
         \/ GivesUp(r) \/ NamesFail(r) \/ UploadFails(r) \/ ReadProblem(r) \/ SaveProblem(r)
         \/ \E u \in Uploads : PostUpload(r, u)
  PROVE  FilesInv'
<1>1. CASE GivesUp(r) \/ NamesFail(r)
  BY <1>1, EndsFree, GoesFree DEF GivesUp, NamesFail
<1>2. CASE UploadFails(r)
  BY <1>2, EndsFree, NextFileFree, GoesFree DEF UploadFails, FilesInv
<1>3. ASSUME NEW u \in Uploads, PostUpload(r, u) PROVE FilesInv'
  <2> DEFINE x == [Idle EXCEPT !.pc = "shown", !.kind = "upload", !.todo = u]
  <2>1. x.pc = "shown" /\ x.todo = u
    BY DEF Idle
  <2>2. UploadInv(x)
    BY <2>1, TestCasesAssumption DEF UploadInv
  <2>3. req' = [req EXCEPT ![r] = x] /\ UNCHANGED <<Problem, files>>
    BY <1>3 DEF PostUpload
  <2> HIDE DEF x
  <2>. QED  BY <2>1, <2>2, <2>3, GoesFree
<1>4. CASE ReadProblem(r)
  <2> DEFINE x == [Idle EXCEPT !.pc = "shown", !.kind = "edit", !.score = score]
  <2>1. x.pc = "shown" /\ UploadInv(x)
    BY DEF Idle, UploadInv
  <2>2. req' = [req EXCEPT ![r] = x] /\ UNCHANGED <<Problem, files>>
    BY <1>4 DEF ReadProblem
  <2> HIDE DEF x
  <2>. QED  BY <2>1, <2>2, GoesFree
<1>5. CASE SaveProblem(r)
  <2>1. PICK x : req' = [req EXCEPT ![r] = x] /\ x.pc \in {"idle", "shown"} /\ UploadInv(x)
    BY <1>5, EndsFree DEF SaveProblem
  <2>2. cases' = cases /\ rows' = rows /\ newest' = newest /\ files' = files
    BY <1>5 DEF SaveProblem
  <2>3. RowsInv'
    BY <2>2 DEF FilesInv, RowsInv, NewestUpload
  <2>. QED  BY <2>1, <2>2, <2>3, FreeKeepsLocks, OneUpload DEF FilesInv
<1>. QED  BY <1>1, <1>2, <1>3, <1>4, <1>5

\* Every step keeps the row with its files, and the locks with their holders.
LEMMA FilesStep == FilesInv /\ FormsAreLegal /\ [Next]_vars => FilesInv'
<1> SUFFICES ASSUME FilesInv, FormsAreLegal, [Next]_vars PROVE FilesInv'
  OBVIOUS
<1>1. ASSUME UNCHANGED <<Problem, files, req>> PROVE FilesInv'
  BY <1>1 DEF Problem, FilesInv, RowsInv, LocksInv, NewestUpload, Holders, At, UploadInv
<1>2. CASE UNCHANGED vars \/ \E j \in Jobs : ReadCases(j) \/ ReadSets(j) \/ Judge(j)
  BY <1>1, <1>2 DEF vars, Problem, ReadCases, ReadSets, Judge
<1>3. ASSUME NEW r \in Requests, NamesStep(r) PROVE FilesInv'
  BY <1>3, LockNamesKeeps, CommitNamesKeeps, OthersKeep DEF NamesStep
<1>4. ASSUME NEW r \in Requests, UploadStep(r) PROVE FilesInv'
  BY <1>4, LockCaseKeeps, MakeFileKeeps, CommitUploadKeeps, OthersKeep DEF UploadStep
<1>5. ASSUME NEW r \in Requests, ReadProblem(r) \/ SaveProblem(r) PROVE FilesInv'
  BY <1>5, OthersKeep
<1>. QED  BY <1>2, <1>3, <1>4, <1>5 DEF Next

-----------------------------------------------------------------------------
(* The theorems. *)

\* So the invariant always holds.
LEMMA CasesInvHolds == Spec => []CasesInv
  BY InitInv, StepInv, PTL DEF Spec

\* The sets of the problem, and those of every job, name cases of their list:
\* the page refuses the others, and ppjc reads both of one snapshot.
THEOREM SetsFitEver == Spec => []SetsFitCases
<1>1. CasesInv => SetsFitCases
  BY DEF CasesInv, JobsFit, JobFits, SetsFitCases
<1>. QED  BY <1>1, CasesInvHolds, PTL

\* The worker gives the points of a set for all of its cases and for no less,
\* although its loop looks for a case that failed only.
THEOREM PointsAreEarnedEver == Spec => []PointsAreEarned
<1>1. CasesInv => PointsAreEarned
  <2> SUFFICES ASSUME CasesInv, NEW j \in Jobs, job[j].pc = "done"
               PROVE  job[j].points = Earned(job[j].view, job[j].verdicts)
    BY DEF PointsAreEarned
  <2>1. JobFits(job[j])
    BY DEF CasesInv, JobsFit
  <2>. QED  BY <2>1, PassedIsEarned DEF JobFits
<1>. QED  BY <1>1, CasesInvHolds, PTL

\* No upload is undone: the row of a case names the file that was committed for
\* it last, although pages write whole rows and whole lists back that they read
\* before, and whichever requests and statements fail meanwhile.
THEOREM NewestUploadEver == Spec => []NewestUpload
<1>1. CasesInv => FormsAreLegal
  BY DEF CasesInv
<1>2. Init => FilesInv
  BY FilesInit
<1>3. FilesInv /\ FormsAreLegal /\ [Next]_vars => FilesInv'
  BY FilesStep
<1>4. FilesInv => NewestUpload
  BY DEF FilesInv, RowsInv
<1>. QED  BY <1>1, <1>2, <1>3, <1>4, CasesInvHolds, PTL DEF Spec

-----------------------------------------------------------------------------
(***************************************************************************)
(* Ranking.  The totals of a row are sums over the set of problems, so the  *)
(* first lemmas are about the library's SumFunction: its recursion has a    *)
(* solution on a finite set (a least set without one would have one), hence *)
(* sums of natural numbers are natural numbers, sums of zeros are zero and  *)
(* the sum of one number is the number.                                     *)
(*                                                                         *)
(* The invariant is a conjunction of five.  RankingTypeOK; RunsInv: a clean *)
(* user (one not in spoiled) has one run and one result per submission;     *)
(* ReadInv: between a read and its write no other report of the user reads; *)
(* RowInv: the general column of a clean user is the total of the cells,    *)
(* and a report that has read holds them with its submission counted;       *)
(* SoundInv: the cell is the best of the submissions done, with the wrong   *)
(* answers before it, as long as the verdicts that have arrived are still   *)
(* in the submissions table (a late case report may overwrite one).         *)
(***************************************************************************)

\* What a sum over a set does with its subsets, of which it takes one element
\* after the other.
Pick(s) == CHOOSE x \in s : TRUE
\* The equation of the iteration, and its solution on the subsets of S.
IsIter(g, w, D) ==
  g = [s \in D |-> IF s = {} THEN 0 ELSE w[Pick(s)] + g[s \ {Pick(s)}]]
Iter(w, S) == CHOOSE g : IsIter(g, w, SUBSET S)

\* A set of numbers that is not empty has a least one.
LEMMA LeastNumber ==
  ASSUME NEW T, T \subseteq Nat, T # {}
  PROVE  \E m \in T : \A k \in T : m <= k
<1>1. \E m \in T : \A k \in T : ~ (<<k, m>> \in OpToRel(<, Nat))
  BY WFMin, NatLessThanWellFounded
<1>2. PICK m \in T : \A k \in T : ~ (<<k, m>> \in OpToRel(<, Nat))
  BY <1>1
<1>3. \A k \in T : ~ (k < m)
  BY <1>2 DEF OpToRel
<1>. QED  BY <1>3

\* A set of subsets of a finite set has a minimal one.
LEMMA LeastSet ==
  ASSUME NEW S, IsFiniteSet(S), NEW T, T \subseteq SUBSET S, T # {}
  PROVE  \E A \in T : \A B \in T : B \subseteq A => B = A
<1>1. IsWellFoundedOn(StrictSubsetOrdering(S), SUBSET S)
  BY FS_StrictSubsetOrderingWellFounded, FS_FiniteSubsetsOfFinite
<1>2. PICK A \in T : \A B \in T : ~ (<<B, A>> \in StrictSubsetOrdering(S))
  BY <1>1, WFMin
<1>. QED  BY <1>2 DEF StrictSubsetOrdering

\* The library's sum is the value of the iteration at the whole domain.
LEMMA SumIsIter ==
  ASSUME NEW w PROVE SumFunction(w) = Iter(w, DOMAIN w)[DOMAIN w]
  BY DEF SumFunction, SumFunctionOnSet, FoldFunctionOnSet, MapThenFoldSet, Iter, IsIter, Pick

\* The subsets of at most n elements: the induction below is over n.
Small(S, n) == {s \in SUBSET S : Cardinality(s) <= n}

\* The element picked is one of the set.
LEMMA PickIsIn == ASSUME NEW s, s # {} PROVE Pick(s) \in s
  BY DEF Pick

\* On a finite set the iteration is defined: there is a function that solves its
\* equation, whose domain a least counterexample would make larger.
LEMMA IterExists ==
  ASSUME NEW S, IsFiniteSet(S), NEW w
  PROVE  IsIter(Iter(w, S), w, SUBSET S)
<1>0. \A s \in SUBSET S : IsFiniteSet(s) /\ Cardinality(s) \in Nat
  BY FS_Subset, FS_CardinalityType
<1> DEFINE Bad == {n \in Nat : ~ \E g : IsIter(g, w, Small(S, n))}
<1>1. ASSUME Bad # {} PROVE FALSE
  <2>1. PICK n \in Bad : \A k \in Bad : n <= k
    BY <1>1, LeastNumber
  <2>2. CASE n = 0
    <3>1. Small(S, 0) = {{}}
      BY <1>0, FS_EmptySet DEF Small
    <3>2. IsIter([s \in {{}} |-> 0], w, {{}})
      BY DEF IsIter
    <3>. QED  BY <2>1, <2>2, <3>1, <3>2
  <2>3. CASE n # 0
    <3>1. n \in Nat /\ n - 1 \in Nat /\ n - 1 \notin Bad
      BY <2>1, <2>3
    <3>2. PICK g : IsIter(g, w, Small(S, n - 1))
      BY <3>1
    <3> DEFINE value(s) == IF s = {} THEN 0 ELSE w[Pick(s)] + g[s \ {Pick(s)}]
               h == [s \in Small(S, n) |-> value(s)]
    <3>3. \A s \in Small(S, n - 1) : s \in Small(S, n) /\ g[s] = value(s)
      <4>1. \A s \in Small(S, n - 1) : g[s] = value(s)
        BY <3>2 DEF IsIter
      <4>2. \A s \in Small(S, n - 1) : s \in Small(S, n)
        BY <1>0, <3>1 DEF Small
      <4>. QED  BY <4>1, <4>2
    <3>4. ASSUME NEW s \in Small(S, n), s # {}
          PROVE  s \ {Pick(s)} \in Small(S, n - 1)
      BY <1>0, <3>1, <3>4, PickIsIn, FS_RemoveElement DEF Small
    <3>5. \A s \in Small(S, n) : s # {} => h[s \ {Pick(s)}] = g[s \ {Pick(s)}]
      BY <3>3, <3>4
    <3>6. \A s \in Small(S, n) :
            value(s) = IF s = {} THEN 0 ELSE w[Pick(s)] + h[s \ {Pick(s)}]
      BY <3>5
    <3>7. h = [s \in Small(S, n) |-> IF s = {} THEN 0 ELSE w[Pick(s)] + h[s \ {Pick(s)}]]
      BY <3>6
    <3>8. IsIter(h, w, Small(S, n))
      BY <3>7 DEF IsIter
    <3>. QED  BY <2>1, <3>8
  <2>. QED  BY <2>2, <2>3
<1>2. Small(S, Cardinality(S)) = SUBSET S
  BY <1>0, FS_Subset, FS_CardinalityType DEF Small
<1>3. \E g : IsIter(g, w, SUBSET S)
  <2>1. Cardinality(S) \in Nat /\ Cardinality(S) \notin Bad
    BY <1>1, FS_CardinalityType
  <2>. QED  BY <1>2, <2>1
<1>. QED  BY <1>3 DEF Iter

\* The iteration adds the element picked to the sum of the others.
LEMMA IterStep ==
  ASSUME NEW S, IsFiniteSet(S), NEW w, NEW s \in SUBSET S
  PROVE  /\ s = {} => Iter(w, S)[s] = 0
         /\ s # {} => Iter(w, S)[s] = w[Pick(s)] + Iter(w, S)[s \ {Pick(s)}]
<1> DEFINE g == Iter(w, S)
<1>1. g = [t \in SUBSET S |-> IF t = {} THEN 0 ELSE w[Pick(t)] + g[t \ {Pick(t)}]]
  BY IterExists DEF IsIter
<1> HIDE DEF g
<1>2. g[s] = IF s = {} THEN 0 ELSE w[Pick(s)] + g[s \ {Pick(s)}]
  BY <1>1
<1>. QED  BY <1>2 DEF g

\* A sum of natural numbers is one.
LEMMA SumIsNat ==
  ASSUME NEW w, IsFiniteSet(DOMAIN w), \A x \in DOMAIN w : w[x] \in Nat
  PROVE  SumFunction(w) \in Nat
<1> DEFINE S == DOMAIN w
           Bad == {s \in SUBSET S : Iter(w, S)[s] \notin Nat}
<1>1. ASSUME Bad # {} PROVE FALSE
  <2>0. Bad \subseteq SUBSET S /\ IsFiniteSet(S)
    OBVIOUS
  <2> HIDE DEF Bad
  <2>1. PICK A \in Bad : \A B \in Bad : B \subseteq A => B = A
    BY <1>1, <2>0, LeastSet
  <2> USE DEF Bad
  <2>5. A \in SUBSET S /\ Iter(w, S)[A] \notin Nat
    BY <2>1
  <2>7. A = {} => Iter(w, S)[A] = 0
    BY <2>0, <2>5, IterStep
  <2>2. A # {}
    BY <2>5, <2>7
  <2>3. Pick(A) \in A /\ A \ {Pick(A)} \in SUBSET S /\ A \ {Pick(A)} \notin Bad
    BY <2>1, <2>2, PickIsIn
  <2>4. Iter(w, S)[A \ {Pick(A)}] \in Nat /\ w[Pick(A)] \in Nat
    BY <2>1, <2>3
  <2>6. Iter(w, S)[A] = w[Pick(A)] + Iter(w, S)[A \ {Pick(A)}]
    BY ZenonT(40), <2>0, <2>2, <2>5, IterStep
  <2>. QED  BY <2>4, <2>5, <2>6
<1>. QED  BY <1>1, SumIsIter

\* A sum of zeros is zero.
LEMMA SumOfZeros ==
  ASSUME NEW w, IsFiniteSet(DOMAIN w), \A x \in DOMAIN w : w[x] = 0
  PROVE  SumFunction(w) = 0
<1> DEFINE S == DOMAIN w
           Bad == {s \in SUBSET S : Iter(w, S)[s] # 0}
<1>1. ASSUME Bad # {} PROVE FALSE
  <2>0. Bad \subseteq SUBSET S /\ IsFiniteSet(S)
    OBVIOUS
  <2> HIDE DEF Bad
  <2>1. PICK A \in Bad : \A B \in Bad : B \subseteq A => B = A
    BY <1>1, <2>0, LeastSet
  <2> USE DEF Bad
  <2>5. A \in SUBSET S /\ Iter(w, S)[A] # 0
    BY <2>1
  <2>7. A = {} => Iter(w, S)[A] = 0
    BY <2>0, <2>5, IterStep
  <2>2. A # {}
    BY <2>5, <2>7
  <2>3. Pick(A) \in A /\ A \ {Pick(A)} \in SUBSET S /\ A \ {Pick(A)} \notin Bad
    BY <2>1, <2>2, PickIsIn
  <2>4. Iter(w, S)[A \ {Pick(A)}] = 0 /\ w[Pick(A)] = 0
    BY <2>1, <2>3
  <2>6. Iter(w, S)[A] = w[Pick(A)] + Iter(w, S)[A \ {Pick(A)}]
    BY <2>0, <2>2, <2>5, IterStep
  <2>. QED  BY <2>4, <2>5, <2>6
<1>. QED  BY <1>1, SumIsIter

\* The sum of one number is the number.
LEMMA SumOfOne ==
  ASSUME NEW e, NEW n \in Nat
  PROVE  SumFunction([x \in {e} |-> n]) = n
<1> DEFINE w == [x \in {e} |-> n]
<1>1. DOMAIN w = {e} /\ w[e] = n /\ IsFiniteSet({e})
  BY FS_Singleton
<1>2. Pick({e}) = e
  BY PickIsIn
<1> HIDE DEF w
<1>3. Iter(w, {e})[{e}] = w[e] + Iter(w, {e})[{e} \ {e}]
  BY <1>1, <1>2, IterStep
<1>4. Iter(w, {e})[{}] = 0
  BY <1>1, IterStep
<1>5. {e} \ {e} = {}
  OBVIOUS
<1>6. SumFunction(w) = Iter(w, {e})[{e}]
  BY <1>1, SumIsIter
<1>7. SumFunction(w) = n
  BY <1>1, <1>3, <1>4, <1>5, <1>6
<1>. QED  BY <1>7 DEF w

\* A finite set of numbers has a largest one.
LEMMA MaxOfFinite ==
  ASSUME NEW S, IsFiniteSet(S), S \subseteq Nat, S # {}
  PROVE  Max(S) \in Nat
<1> DEFINE HasMax(A) == \E x \in A : \A y \in A : x >= y
           Bad == {A \in SUBSET S : A # {} /\ ~ HasMax(A)}
<1>1. ASSUME Bad # {} PROVE FALSE
  <2>0. Bad \subseteq SUBSET S /\ Bad # {} /\ IsFiniteSet(S)
    BY <1>1
  <2> HIDE DEF Bad
  <2>1. PICK A \in Bad : \A B \in Bad : B \subseteq A => B = A
    BY ONLY <2>0, LeastSet
  <2> USE DEF Bad
  <2>2. PICK x \in A : TRUE
    BY <2>1
  <2>3. A \ {x} \notin Bad
    BY <2>1, <2>2
  <2>4. CASE A \ {x} = {}
    BY <2>1, <2>2, <2>4
  <2>5. CASE A \ {x} # {}
    <3>1. HasMax(A \ {x})
      BY <2>1, <2>3, <2>5
    <3>2. PICK m \in A \ {x} : \A y \in A \ {x} : m >= y
      BY <3>1
    <3>3. m \in Nat /\ x \in Nat /\ \A y \in A : y \in Nat
      BY <2>1
    <3>. QED  BY <2>1, <2>2, <3>2, <3>3
  <2>. QED  BY <2>4, <2>5
<1>2. HasMax(S)
  BY <1>1
<1>. QED  BY <1>2 DEF Max

-----------------------------------------------------------------------------
(* Types. *)

\* The totals of a row are natural numbers.
LEMMA GeneralType ==
  ASSUME NEW row \in [Problems -> Cell]
  PROVE  /\ GeneralScore(row) \in Nat
         /\ GeneralTime(row) \in Nat
         /\ GeneralPenalty(row) \in Nat
<1>1. IsFiniteSet(Problems) /\ IsFiniteSet(Scored(row)) /\ Scored(row) \subseteq Problems
  BY FS_Subset, RankingAssumption DEF Scored
<1>2. GeneralScore(row) \in Nat
  <2> DEFINE w == [p \in Problems |-> row[p].score]
  <2>1. DOMAIN w = Problems /\ \A x \in Problems : w[x] \in Nat
    BY RankingAssumption DEF Cell, Scores
  <2> HIDE DEF w
  <2>2. SumFunction(w) \in Nat
    BY <1>1, <2>1, SumIsNat
  <2>. QED  BY <2>2 DEF w, GeneralScore
<1>3. GeneralPenalty(row) \in Nat
  <2> DEFINE w == [p \in Scored(row) |-> row[p].penalty]
  <2>1. DOMAIN w = Scored(row) /\ \A x \in Scored(row) : w[x] \in Nat
    BY <1>1 DEF Cell
  <2> HIDE DEF w
  <2>2. SumFunction(w) \in Nat
    BY <1>1, <2>1, SumIsNat
  <2>. QED  BY <2>2 DEF w, GeneralPenalty
<1>4. SumFunction([p \in Scored(row) |-> row[p].time]) \in Nat
  <2> DEFINE w == [p \in Scored(row) |-> row[p].time]
  <2>1. DOMAIN w = Scored(row) /\ \A x \in Scored(row) : w[x] \in Nat
    BY <1>1 DEF Cell
  <2> HIDE DEF w
  <2>2. SumFunction(w) \in Nat
    BY <1>1, <2>1, SumIsNat
  <2>. QED  BY <2>2 DEF w
<1>5. Max({0} \cup {row[p].time : p \in Scored(row)}) \in Nat
  <2> DEFINE times == {row[p].time : p \in Scored(row)}
  <2>1. times \subseteq Nat
    BY <1>1 DEF Cell
  <2>2. IsFiniteSet(times)
    <3> DEFINE f == [p \in Scored(row) |-> row[p].time]
    <3>1. f \in Surjection(Scored(row), times)
      BY DEF Surjection
    <3>. QED  BY <1>1, <3>1, FS_Surjection
  <2> HIDE DEF times
  <2>3. IsFiniteSet({0} \cup times)
    BY <2>2, FS_AddElement
  <2>4. Max({0} \cup times) \in Nat
    <3>1. {0} \cup times \subseteq Nat /\ {0} \cup times # {}
      BY <2>1
    <3>. QED  BY ONLY <2>3, <3>1, MaxOfFinite
  <2>. QED  BY <2>4 DEF times
<1>. QED  BY <1>2, <1>3, <1>4, <1>5 DEF GeneralTime

\* The general column computed from a row is one.
LEMMA GeneralIsTyped ==
  ASSUME RankingTypeOK, NEW row \in [Problems -> Cell]
  PROVE  GeneralOf(row) \in General
<1>1. type \in Types
  BY RankingAssumption DEF RankingTypeOK
<1>2. /\ GeneralScore(row) \in Nat
      /\ GeneralTime(row) \in Nat
      /\ GeneralPenalty(row) \in Nat
  BY GeneralType
<1> HIDE DEF General
<1>3. /\ Evaluation1(GeneralTime(row), GeneralPenalty(row)) \in Int
      /\ Evaluation2(GeneralTime(row), GeneralPenalty(row)) \in Int
  BY <1>1, <1>2 DEF Evaluation1, Evaluation2, Types
<1>. QED  BY <1>2, <1>3 DEF GeneralOf, General

\* The empty cell and the empty general column are ones.
LEMMA NoCellTyped == NoCell \in Cell /\ NoGeneral \in General
  BY RankingAssumption DEF NoCell, Cell, NoGeneral, General, Scores

\* The wrong answers before a submission are finitely many.
LEMMA CountIsNat ==
  ASSUME RankingTypeOK, NEW u, NEW p, NEW last
  PROVE  CountForPenalty(u, p, last) \in Nat
<1> DEFINE S == {s \in SubsOf(u, p) : sub[s].status = "WA" /\ s <= last}
<1>1. S \subseteq 1 .. sent /\ IsFiniteSet(1 .. sent)
  BY FS_Interval DEF SubsOf, RankingTypeOK
<1>2. Cardinality(S) \in Nat
  BY <1>1, FS_Subset, FS_CardinalityType
<1>. QED  BY <1>2 DEF CountForPenalty

\* The verdicts fit the table, and the result that is read fits the row.
LEMMA ReportCell ==
  ASSUME RankingTypeOK, NEW r \in reports
  PROVE  \A c \in Cell : \A new : NewCell(c, r, new) => new \in Cell
<1> SUFFICES ASSUME NEW c \in Cell, NEW new, NewCell(c, r, new)
             PROVE  new \in Cell
  OBVIOUS
<1>1. r.sid \in Nat /\ r.jid \in Nat /\ r.score \in Scores
  BY DEF RankingTypeOK, Report, Sids
<1>2. CellOf(r) \in Cell
  BY <1>1 DEF CellOf, Cell
<1>3. ASSUME NEW s \in Sids PROVE LoweredCell(c, r, s) \in Cell
  <2>1. s \in Nat /\ sub[s].jid \in Nat
    BY DEF RankingTypeOK, Submission, Sids
  <2>. QED  BY <1>1, <2>1 DEF LoweredCell, Cell
<1>. QED  BY <1>2, <1>3 DEF NewCell

\* The cell a report is about, and the report after its row was read.
CellAt(r) == cells[Owner[r.sid]][Of[r.sid]]
\* The general column and the report that reading leads to, with a cell chosen.
GeneralAfter(r, c) == GeneralOf([cells[Owner[r.sid]] EXCEPT ![Of[r.sid]] = c])
AfterReading(r, new) ==
  LET final == WithPenalty(new, Owner[r.sid], Of[r.sid])
  IN [r EXCEPT !.pc = "read", !.cell = final, !.general = GeneralAfter(r, final)]

\* A report is about a submission of a user and a problem of the contest.
LEMMA ReportPlace ==
  ASSUME RankingTypeOK, NEW r \in reports
  PROVE  /\ r \in Report /\ r.sid \in Sids /\ Owner[r.sid] \in Users /\ Of[r.sid] \in Problems
         /\ CellAt(r) \in Cell
  BY RankingAssumption DEF RankingTypeOK, Report, CellAt

\* Counting the penalty changes that column of the cell only.
LEMMA WithPenaltyTyped ==
  ASSUME RankingTypeOK, NEW new \in Cell, NEW u, NEW p
  PROVE  /\ WithPenalty(new, u, p) \in Cell
         /\ WithPenalty(new, u, p) =
              [new EXCEPT !.penalty = CountForPenalty(u, p, IF new.score > 0 THEN new.sid - 1 ELSE new.sid)]
  BY CountIsNat DEF WithPenalty, Cell

\* What ReadRow does to the reports, with the cell it chose.
LEMMA ReadRowShape ==
  ASSUME RankingTypeOK, NEW r \in reports, ReadRow(r)
  PROVE  /\ r.pc = "stored" /\ SentInTime(r)
         /\ Owner[r.sid] \in members
         /\ ~ Ignored(CellAt(r), r)
         /\ \E new \in Cell :
              /\ NewCell(CellAt(r), r, new)
              /\ AfterReading(r, new) \in Report
              /\ reports' = (reports \ {r}) \cup {AfterReading(r, new)}
<1>1. PICK new :
          /\ NewCell(CellAt(r), r, new)
          /\ reports' = (reports \ {r}) \cup {AfterReading(r, new)}
  BY DEF ReadRow, CellAt, AfterReading, GeneralAfter
<1>2. new \in Cell
  BY <1>1, ReportCell, ReportPlace
<1> DEFINE final == WithPenalty(new, Owner[r.sid], Of[r.sid])
           row == [cells[Owner[r.sid]] EXCEPT ![Of[r.sid]] = final]
<1>3. final \in Cell
  BY <1>2, WithPenaltyTyped
<1> HIDE DEF final
<1>4. row \in [Problems -> Cell]
  BY <1>3, ReportPlace DEF RankingTypeOK
<1> HIDE DEF row
<1>5. GeneralOf(row) \in General
  BY <1>4, GeneralIsTyped
<1>6. [r EXCEPT !.pc = "read", !.cell = final, !.general = GeneralOf(row)] \in Report
  BY <1>3, <1>5, ReportPlace DEF Report
<1>7. AfterReading(r, new) \in Report
  BY <1>6 DEF AfterReading, GeneralAfter, final, row
<1>. QED  BY <1>1, <1>2, <1>7 DEF ReadRow, CellAt

-----------------------------------------------------------------------------
\* The variables are typed when the contest is created.
LEMMA InitTypes == RankingInit => RankingTypeOK
<1> SUFFICES ASSUME RankingInit PROVE RankingTypeOK
  OBVIOUS
<1>1. NoCell \in Cell /\ NoGeneral \in General
  BY NoCellTyped
<1>2. [jid |-> 0, status |-> "WJ", score |-> 0] \in Submission
  BY RankingAssumption DEF Submission, Scores
<1>. QED  BY <1>1, <1>2, RankingAssumption DEF RankingInit, RankingTypeOK

\* What a trouble, and what a change of the table made late, does with the history.
LEMMA TroubleTyped ==
  ASSUME RankingTypeOK, NEW us, us \subseteq Users, Trouble(us)
  PROVE  troubles' \in 0 .. MaxTroubles /\ raced' = raced /\ spoiled' = spoiled \cup us
         /\ raced' \subseteq spoiled' /\ spoiled' \subseteq Users
  BY RankingAssumption DEF RankingTypeOK, Trouble

\* A step without trouble leaves the history alone.
LEMMA FineTyped ==
  ASSUME RankingTypeOK, Fine
  PROVE  troubles' \in 0 .. MaxTroubles /\ raced' = raced /\ spoiled' = spoiled
         /\ raced' \subseteq spoiled' /\ spoiled' \subseteq Users
  BY DEF RankingTypeOK, Fine, History

\* Neither a late row nor a late column spoils a row that is there.
LEMMA LateTyped ==
  ASSUME RankingTypeOK, Late
  PROVE  troubles' \in 0 .. MaxTroubles /\ raced' = raced /\ spoiled' = spoiled
         /\ raced' \subseteq spoiled' /\ spoiled' \subseteq Users
  BY FineTyped, TroubleTyped DEF Late

\* The steps of users, administrators and the submit handler keep the types.
LEMMA TableStepTypes ==
  ASSUME RankingTypeOK,
         \/ Submit
         \/ \E u \in Users : Join(u)
         \/ \E p \in Problems : AddProblem(p) \/ DropProblem(p)
  PROVE  RankingTypeOK'
<1>1. CASE Submit
  BY <1>1, FineTyped, RankingAssumption DEF Submit, RankingTypeOK, Table
<1>2. ASSUME NEW u \in Users, Join(u) PROVE RankingTypeOK'
  BY <1>2, LateTyped DEF Join, RankingTypeOK, Judged
<1>3. ASSUME NEW p \in Problems, AddProblem(p) PROVE RankingTypeOK'
  BY <1>3, LateTyped DEF AddProblem, RankingTypeOK, Judged
<1>4. ASSUME NEW p \in Problems, DropProblem(p) PROVE RankingTypeOK'
  <2>1. cells' \in [Users -> [Problems -> Cell]]
    BY <1>4, NoCellTyped DEF DropProblem, RankingTypeOK
  <2>. QED  BY <1>4, <2>1, TroubleTyped DEF DropProblem, RankingTypeOK, Judged
<1>. QED  BY <1>1, <1>2, <1>3, <1>4

\* The steps of the workers keep the types.
LEMMA JudgeStepTypes ==
  ASSUME RankingTypeOK, NEW s \in Sids
  PROVE  /\ Start(s) => RankingTypeOK'
         /\ \A j \in 1 .. MaxRuns : CaseReport(s, j) => RankingTypeOK'
         /\ \A j \in 1 .. MaxRuns, v \in RunVerdicts : Post(s, j, v) => RankingTypeOK'
<1>0. Owner[s] \in Users
  BY RankingAssumption
<1>1. ASSUME Start(s) PROVE RankingTypeOK'
  <2>1. sub' \in [Sids -> Submission]
    BY <1>1 DEF Start, RankingTypeOK, Submission
  <2>2. runs' \in [Sids -> 0 .. MaxRuns]
    BY <1>1, RankingAssumption DEF Start, RankingTypeOK
  <2>3. Fine \/ Trouble({Owner[s]})
    BY <1>1 DEF Start
  <2>4. troubles' \in 0 .. MaxTroubles /\ raced' \subseteq spoiled' /\ spoiled' \subseteq Users
    BY <1>0, <2>3, FineTyped, TroubleTyped
  <2>. QED  BY <1>1, <2>1, <2>2, <2>4 DEF Start, RankingTypeOK, Table
<1>2. ASSUME NEW j \in 1 .. MaxRuns, CaseReport(s, j) PROVE RankingTypeOK'
  <2>1. sub' \in [Sids -> Submission]
    BY <1>2, RankingAssumption DEF CaseReport, RankingTypeOK, Submission, Scores
  <2>2. Fine \/ Trouble({})
    BY <1>2 DEF CaseReport
  <2>3. troubles' \in 0 .. MaxTroubles /\ raced' \subseteq spoiled' /\ spoiled' \subseteq Users
    BY <2>2, FineTyped, TroubleTyped
  <2>. QED  BY <1>2, <2>1, <2>3 DEF CaseReport, RankingTypeOK, Table
<1>3. ASSUME NEW j \in 1 .. MaxRuns, NEW v \in RunVerdicts, Post(s, j, v) PROVE RankingTypeOK'
  <2>1. posted' \in [Sids -> [1 .. MaxRuns -> 0 .. MaxPosts]] /\ posted'[s][j] \in 1 .. MaxPosts
    BY <1>3, RankingAssumption DEF Post, RankingTypeOK
  <2>2. v.status \in {"AC", "WA", "CE"} /\ v.score \in Scores
    BY RankingAssumption DEF RunVerdicts, Scores
  <2>3. reports' \subseteq Report
    BY <1>3, <2>1, <2>2, NoCellTyped DEF Post, RankingTypeOK, Report
  <2>4. Fine \/ Trouble({Owner[s]})
    BY <1>3 DEF Post
  <2>5. troubles' \in 0 .. MaxTroubles /\ raced' \subseteq spoiled' /\ spoiled' \subseteq Users
    BY <1>0, <2>4, FineTyped, TroubleTyped
  <2>. QED  BY <1>3, <2>1, <2>3, <2>5 DEF Post, RankingTypeOK, Table
<1>. QED  BY <1>1, <1>2, <1>3

\* The steps of the result handler keep the types.
LEMMA ReportStepTypes ==
  ASSUME RankingTypeOK, NEW r \in reports,
         Store(r) \/ StopAfterReading(r) \/ ReadRow(r) \/ WriteRow(r) \/ Lose(r)
  PROVE  RankingTypeOK'
<1>0. r \in Report /\ r.sid \in Sids /\ Owner[r.sid] \in Users /\ Of[r.sid] \in Problems
  BY ReportPlace
<1>1. CASE Store(r)
  <2>1. sub' \in [Sids -> Submission]
    BY <1>0, <1>1, RankingAssumption DEF Store, RankingTypeOK, Submission, Report
  <2>2. [r EXCEPT !.pc = "stored"] \in Report
    BY <1>0 DEF Report
  <2>3. reports' \subseteq Report
    BY <1>1, <2>2 DEF Store, RankingTypeOK
  <2>. QED  BY <1>1, <2>1, <2>3, FineTyped DEF Store, RankingTypeOK, Table
<1>2. CASE StopAfterReading(r)
  BY SMTT(30), <1>0, <1>2 DEF StopAfterReading, RankingTypeOK, Judged, Table
<1>3. CASE ReadRow(r)
  <2>1. reports' \subseteq Report
    BY SMTT(30), <1>3, ReadRowShape DEF RankingTypeOK
  <2>2. raced' \subseteq spoiled' /\ spoiled' \subseteq Users
    BY <1>0, <1>3 DEF ReadRow, RankingTypeOK
  <2>. QED  BY <1>3, <2>1, <2>2 DEF ReadRow, RankingTypeOK, Judged, Table
<1>4. CASE WriteRow(r)
  <2>1. r.cell \in Cell /\ r.general \in General
    BY <1>0 DEF Report
  <2>2. cells' \in [Users -> [Problems -> Cell]] /\ general' \in [Users -> General]
    BY <1>0, <1>4, <2>1 DEF WriteRow, RankingTypeOK
  <2>. QED  BY <1>4, <2>2, FineTyped DEF WriteRow, RankingTypeOK, Judged
<1>5. CASE Lose(r)
  BY <1>0, <1>5, TroubleTyped DEF Lose, RankingTypeOK, Judged, Table
<1>. QED  BY <1>1, <1>2, <1>3, <1>4, <1>5

\* Every step keeps the types.
LEMMA StepTypes == RankingTypeOK /\ [RankingNext]_rankingVars => RankingTypeOK'
<1> SUFFICES ASSUME RankingTypeOK, [RankingNext]_rankingVars PROVE RankingTypeOK'
  OBVIOUS
<1>1. CASE UNCHANGED rankingVars
  BY <1>1 DEF rankingVars, History, RankingTypeOK
<1>. QED  BY <1>1, TableStepTypes, JudgeStepTypes, ReportStepTypes DEF RankingNext

\* Every column of the table and of the submissions stays in its range, whatever
\* the numbers of users, problems, submissions, runs and open reports.
THEOREM RankingTypes == RankingSpec => []RankingTypeOK
<1>. QED  BY InitTypes, StepTypes, PTL DEF RankingSpec

-----------------------------------------------------------------------------
(* The runs of a submission and the results they post. *)

\* A submission is judged; two reports are of one result.
HasVerdict(s) == sub[s].status \in {"AC", "WA", "CE"}
SameRun(r, q) == r.sid = q.sid /\ r.jid = q.jid /\ r.post = q.post

\* What is known of the runs: a verdict names a run that posted it, a report is one
\* of the results posted, and a clean user's submission has one run and one result.
RunsInv ==
  /\ \A s \in Sids : runs[s] > 0 => s <= sent
  /\ \A s \in Sids : \A j \in 1 .. MaxRuns : posted[s][j] > 0 => j <= runs[s]
  /\ \A s \in Sids : sub[s].jid <= runs[s]
  /\ \A s \in Sids : HasVerdict(s) => sub[s].jid >= 1 /\ posted[s][sub[s].jid] > 0
  /\ \A r \in reports : r.post <= posted[r.sid][r.jid]
  /\ \A r, q \in reports : SameRun(r, q) => r = q
  /\ \A s \in Sids : Owner[s] \notin spoiled =>
       runs[s] <= 1 /\ \A j \in 1 .. MaxRuns : posted[s][j] <= 1

\* No run has begun yet.
LEMMA InitRuns == RankingInit => RunsInv
  BY RankingAssumption DEF RankingInit, RunsInv, HasVerdict, SameRun

\* A report that moves on is still of its run.
LEMMA MovedReport ==
  ASSUME RunsInv, NEW r \in reports, NEW q, SameRun(r, q),
         reports' = (reports \ {r}) \cup {q}, posted' = posted
  PROVE  /\ \A x \in reports' : x.post <= posted'[x.sid][x.jid]
         /\ \A x, y \in reports' : SameRun(x, y) => x = y
  BY DEF RunsInv, SameRun

\* The steps of the table's rows and columns touch no run.
LEMMA TableStepRuns ==
  ASSUME RankingTypeOK, RunsInv,
         \/ Submit
         \/ \E u \in Users : Join(u)
         \/ \E p \in Problems : AddProblem(p) \/ DropProblem(p)
  PROVE  RunsInv'
<1>1. UNCHANGED <<sub, runs, posted, reports>> /\ sent' \in Nat /\ sent' >= sent
  BY RankingAssumption DEF Submit, Join, AddProblem, DropProblem, Judged, RankingTypeOK
<1>2. spoiled \subseteq spoiled'
  BY FineTyped, LateTyped DEF Submit, Join, AddProblem, DropProblem, Trouble
<1>3. \A s \in Sids : runs'[s] > 0 => s <= sent'
  <2> SUFFICES ASSUME NEW s \in Sids, runs'[s] > 0 PROVE s <= sent'
    OBVIOUS
  <2>1. s <= sent
    BY <1>1 DEF RunsInv
  <2>. QED  BY <1>1, <2>1, RankingAssumption DEF RankingTypeOK, Sids
<1>. QED  BY <1>1, <1>2, <1>3 DEF RunsInv, HasVerdict

\* A run that starts is the next one of a submission sent.
LEMMA StartRuns ==
  ASSUME RankingTypeOK, RunsInv, NEW s \in Sids, Start(s)
  PROVE  RunsInv'
<1>1. /\ runs' = [runs EXCEPT ![s] = @ + 1] /\ sub' = [sub EXCEPT ![s].status = "WJ"]
      /\ UNCHANGED <<sent, posted, reports>> /\ s <= sent
  BY DEF Start
<1>2. spoiled \subseteq spoiled' /\ (Owner[s] \notin spoiled' => runs[s] = 0)
  BY FineTyped DEF Start, Trouble
<1>3. /\ \A t \in Sids : runs[t] \in Nat /\ sub[t].jid \in Nat
      /\ \A t \in Sids : \A j \in 1 .. MaxRuns : posted[t][j] \in Nat
      /\ runs'[s] = runs[s] + 1 /\ \A t \in Sids \ {s} : runs'[t] = runs[t]
      /\ sub'[s].jid = sub[s].jid /\ sub'[s].status = "WJ"
      /\ \A t \in Sids \ {s} : sub'[t] = sub[t]
  BY SMTT(30), <1>1, RankingAssumption DEF RankingTypeOK, Submission
<1>4. \A t \in Sids : runs'[t] > 0 => t <= sent'
  BY <1>1, <1>3 DEF RunsInv
<1>5. \A t \in Sids : \A j \in 1 .. MaxRuns : posted'[t][j] > 0 => j <= runs'[t]
  BY <1>1, <1>3 DEF RunsInv
<1>6. \A t \in Sids : sub'[t].jid <= runs'[t]
  BY <1>3 DEF RunsInv
<1>7. \A t \in Sids : HasVerdict(t)' => sub'[t].jid >= 1 /\ posted'[t][sub'[t].jid] > 0
  BY <1>1, <1>3 DEF RunsInv, HasVerdict
<1>8. \A t \in Sids : Owner[t] \notin spoiled' =>
         runs'[t] <= 1 /\ \A j \in 1 .. MaxRuns : posted'[t][j] <= 1
  BY <1>1, <1>2, <1>3 DEF RunsInv
<1>. QED  BY <1>1, <1>4, <1>5, <1>6, <1>7, <1>8 DEF RunsInv

\* A case report names a run that was handed out.
LEMMA CaseReportRuns ==
  ASSUME RankingTypeOK, RunsInv, NEW s \in Sids, NEW j \in 1 .. MaxRuns, CaseReport(s, j)
  PROVE  RunsInv'
<1>1. /\ sub' = [sub EXCEPT ![s] = [jid |-> j, status |-> "JG", score |-> 0]]
      /\ UNCHANGED <<sent, runs, posted, reports>> /\ j <= runs[s]
  BY DEF CaseReport
<1>2. spoiled \subseteq spoiled'
  BY FineTyped DEF CaseReport, Trouble
<1>3. /\ sub'[s].jid = j /\ sub'[s].status = "JG"
      /\ \A t \in Sids \ {s} : sub'[t] = sub[t]
  BY <1>1 DEF RankingTypeOK
<1>4. \A t \in Sids : sub'[t].jid <= runs'[t]
  BY <1>1, <1>3 DEF RunsInv
<1>5. \A t \in Sids : HasVerdict(t)' => sub'[t].jid >= 1 /\ posted'[t][sub'[t].jid] > 0
  BY <1>1, <1>3 DEF RunsInv, HasVerdict
<1>. QED  BY <1>1, <1>2, <1>4, <1>5 DEF RunsInv

\* A result is posted by a run that was handed out, and makes one more report.
LEMMA PostRuns ==
  ASSUME RankingTypeOK, RunsInv, NEW s \in Sids, NEW j \in 1 .. MaxRuns, NEW v, Post(s, j, v)
  PROVE  RunsInv'
<1> DEFINE n == posted'[s][j]
           new == [sid |-> s, jid |-> j, post |-> n, status |-> v.status,
                   score |-> v.score, pc |-> "posted", cell |-> NoCell, general |-> NoGeneral]
<1>1. /\ posted' = [posted EXCEPT ![s][j] = @ + 1] /\ reports' = reports \cup {new}
      /\ UNCHANGED <<sent, runs, sub>> /\ j <= runs[s]
  BY DEF Post
<1>2. spoiled \subseteq spoiled' /\ (Owner[s] \notin spoiled' => posted[s][j] = 0)
  BY FineTyped DEF Post, Trouble
<1>3. /\ \A t \in Sids : \A k \in 1 .. MaxRuns : posted[t][k] \in Nat /\ posted'[t][k] \in Nat
      /\ n = posted[s][j] + 1
      /\ \A t \in Sids : \A k \in 1 .. MaxRuns : <<t, k>> # <<s, j>> => posted'[t][k] = posted[t][k]
  BY SMTT(30), <1>1, RankingAssumption DEF RankingTypeOK
<1>4. new.sid = s /\ new.jid = j /\ new.post = n
  OBVIOUS
<1>5. \A r \in reports : r.sid \in Sids /\ r.jid \in 1 .. MaxRuns /\ r.post \in Nat
  BY RankingAssumption DEF RankingTypeOK, Report
<1> HIDE DEF n, new
<1>6. \A r \in reports' : r.post <= posted'[r.sid][r.jid]
  BY <1>1, <1>3, <1>4, <1>5 DEF RunsInv, n
<1>7. \A r \in reports : ~ SameRun(r, new)
  BY <1>3, <1>4, <1>5 DEF RunsInv, SameRun
<1>8. \A r, q \in reports' : SameRun(r, q) => r = q
  BY <1>1, <1>7 DEF RunsInv, SameRun
<1>9. \A t \in Sids : \A k \in 1 .. MaxRuns : posted'[t][k] > 0 => k <= runs'[t]
  BY <1>1, <1>3 DEF RunsInv
<1>10. \A t \in Sids : HasVerdict(t)' => sub'[t].jid >= 1 /\ posted'[t][sub'[t].jid] > 0
  <2> SUFFICES ASSUME NEW t \in Sids, HasVerdict(t)'
               PROVE  sub'[t].jid >= 1 /\ posted'[t][sub'[t].jid] > 0
    OBVIOUS
  <2>1. sub[t].jid >= 1 /\ posted[t][sub[t].jid] > 0 /\ sub[t].jid <= runs[t]
    BY <1>1 DEF RunsInv, HasVerdict
  <2>2. sub[t].jid \in 1 .. MaxRuns
    BY <2>1, RankingAssumption DEF RankingTypeOK, Submission
  <2>. QED  BY <1>1, <1>3, <2>1, <2>2
<1>11. \A t \in Sids : Owner[t] \notin spoiled' =>
         runs'[t] <= 1 /\ \A k \in 1 .. MaxRuns : posted'[t][k] <= 1
  BY <1>1, <1>2, <1>3 DEF RunsInv, n
<1>. QED  BY <1>1, <1>6, <1>8, <1>9, <1>10, <1>11 DEF RunsInv

\* The result handler stores only results that were posted.
LEMMA ReportStepRuns ==
  ASSUME RankingTypeOK, RunsInv, NEW r \in reports,
         Store(r) \/ StopAfterReading(r) \/ ReadRow(r) \/ WriteRow(r) \/ Lose(r)
  PROVE  RunsInv'
<1>0. /\ r \in Report /\ r.sid \in Sids /\ r.jid \in 1 .. MaxRuns /\ r.post \in 1 .. MaxPosts
      /\ posted[r.sid][r.jid] \in Nat /\ runs[r.sid] \in Nat /\ r.post <= posted[r.sid][r.jid]
  BY ReportPlace, RankingAssumption DEF RankingTypeOK, Report, RunsInv
<1>1. CASE Store(r)
  <2>1. SameRun(r, [r EXCEPT !.pc = "stored"])
    BY <1>0 DEF SameRun, Report
  <2>2. /\ \A x \in reports' : x.post <= posted'[x.sid][x.jid]
        /\ \A x, y \in reports' : SameRun(x, y) => x = y
    BY <1>1, <2>1, MovedReport DEF Store
  <2>3. \A t \in Sids : sub'[t] = sub[t] \/ (t = r.sid /\ sub'[t].jid = r.jid)
    BY <1>0, <1>1 DEF Store, RankingTypeOK
  <2>4. posted[r.sid][r.jid] > 0 /\ r.jid <= runs[r.sid] /\ r.jid >= 1
    BY <1>0 DEF RunsInv
  <2>5. UNCHANGED <<sent, runs, posted, spoiled>>
    BY <1>1 DEF Store, Fine, History
  <2>6. \A t \in Sids : sub'[t].jid <= runs'[t]
    BY <2>3, <2>4, <2>5 DEF RunsInv
  <2>7. \A t \in Sids : HasVerdict(t)' => sub'[t].jid >= 1 /\ posted'[t][sub'[t].jid] > 0
    BY <2>3, <2>4, <2>5 DEF RunsInv, HasVerdict
  <2>. QED  BY <2>2, <2>5, <2>6, <2>7 DEF RunsInv
<1>2. CASE StopAfterReading(r) \/ WriteRow(r) \/ Lose(r)
  <2>1. UNCHANGED <<sent, runs, posted, sub>> /\ reports' = reports \ {r} /\ spoiled \subseteq spoiled'
    BY <1>2, FineTyped DEF StopAfterReading, WriteRow, Lose, Trouble, Judged
  <2>. QED  BY <2>1 DEF RunsInv, HasVerdict
<1>3. CASE ReadRow(r)
  <2>1. PICK new \in Cell : reports' = (reports \ {r}) \cup {AfterReading(r, new)}
    BY <1>3, ReadRowShape
  <2>2. SameRun(r, AfterReading(r, new))
    BY SMTT(30), <1>0 DEF SameRun, Report, AfterReading
  <2>3. UNCHANGED <<sent, runs, posted, sub>> /\ spoiled \subseteq spoiled'
    BY <1>3 DEF ReadRow, Judged
  <2>4. /\ \A x \in reports' : x.post <= posted'[x.sid][x.jid]
        /\ \A x, y \in reports' : SameRun(x, y) => x = y
    BY <2>1, <2>2, <2>3, MovedReport
  <2>. QED  BY <2>3, <2>4 DEF RunsInv, HasVerdict
<1>. QED  BY <1>1, <1>2, <1>3

\* Every step keeps what is known of the runs.
LEMMA StepRuns == RankingTypeOK /\ RunsInv /\ [RankingNext]_rankingVars => RunsInv'
<1> SUFFICES ASSUME RankingTypeOK, RunsInv, [RankingNext]_rankingVars PROVE RunsInv'
  OBVIOUS
<1>1. CASE UNCHANGED rankingVars
  BY <1>1 DEF rankingVars, History, RunsInv, HasVerdict
<1>. QED  BY <1>1, TableStepRuns, StartRuns, CaseReportRuns, PostRuns, ReportStepRuns DEF RankingNext

\* A user who is not spoiled has one run and one report per submission.
LEMMA OneRun ==
  ASSUME RankingTypeOK, RunsInv, NEW r \in reports, Owner[r.sid] \notin spoiled
  PROVE  /\ r.jid = 1 /\ 1 \in 1 .. MaxRuns /\ runs[r.sid] = 1 /\ posted[r.sid][1] = 1
         /\ \A q \in reports : q.sid = r.sid => q = r
<1>1. \A q \in reports : /\ q.sid \in Sids /\ q.jid \in 1 .. MaxRuns /\ q.post \in 1 .. MaxPosts
                         /\ posted[q.sid][q.jid] \in Nat /\ runs[q.sid] \in Nat
                         /\ q.post <= posted[q.sid][q.jid]
  BY RankingAssumption DEF RankingTypeOK, Report, RunsInv
<1>2. \A q \in reports : q.sid = r.sid => q.jid = 1 /\ q.post = 1 /\ runs[q.sid] = 1
                                        /\ posted[q.sid][1] = 1
  <2> SUFFICES ASSUME NEW q \in reports, q.sid = r.sid
               PROVE  q.jid = 1 /\ q.post = 1 /\ runs[q.sid] = 1 /\ posted[q.sid][1] = 1
    OBVIOUS
  <2>1. q.jid <= runs[q.sid] /\ runs[q.sid] <= 1 /\ posted[q.sid][q.jid] <= 1
    BY <1>1 DEF RunsInv
  <2>. QED  BY <1>1, <2>1
<1>. QED  BY <1>1, <1>2 DEF RunsInv, SameRun

-----------------------------------------------------------------------------
(* Reports between their read and their write. *)

\* Who has read a row and not yet written it: one report of a user, unless two
\* raced, and what it writes is higher than the cell or of a newer run.
IsRead(r) == r.pc = "read"
ReadInv ==
  /\ \A r, q \in reports : IsRead(r) /\ IsRead(q) /\ Owner[r.sid] = Owner[q.sid]
                           /\ Owner[r.sid] \notin raced => r = q
  /\ \A u \in Users, p \in Problems : cells[u][p].valid \/ cells[u][p].score = 0
  /\ \A r \in reports : IsRead(r) => r.cell.valid
  /\ \A r \in reports : IsRead(r) /\ Owner[r.sid] \notin raced /\ r.cell.score < CellAt(r).score
       => r.sid = CellAt(r).sid /\ r.jid > CellAt(r).jid

\* Nobody has read a row yet.
LEMMA InitRead == RankingInit => ReadInv
  BY DEF RankingInit, ReadInv, NoCell

\* The cell a report computes is valid; its score is lower than before only
\* for a newer run of the submission the cell named.
LEMMA NewCellFacts ==
  ASSUME NEW c \in Cell, NEW r \in Report, NEW new, NewCell(c, r, new), ~ Ignored(c, r),
         c.valid \/ c.score = 0
  PROVE  new.valid /\ (new.score < c.score => r.sid = c.sid /\ r.jid > c.jid)
<1>1. /\ c.valid \in BOOLEAN /\ c.sid \in Nat /\ c.jid \in Nat /\ c.score \in Nat
      /\ r.sid \in Nat /\ r.jid \in Nat /\ r.score \in Nat
  BY SMTT(30), RankingAssumption DEF Cell, Report, Sids, Scores
<1>2. CASE Replaces(c, r)
  <2>0. CASE new = CellOf(r)
    <3>1. new.valid /\ new.score = r.score
      BY <2>0 DEF CellOf
    <3>. QED  BY <1>1, <1>2, <3>1 DEF Replaces
  <2>. QED  BY <1>1, <1>2, <2>0 DEF NewCell, Replaces, Lowered
<1>3. CASE Lowered(c, r)
  <2>1. PICK s \in Sids : new = LoweredCell(c, r, s)
    BY <1>1, <1>3 DEF NewCell, Lowered, Replaces
  <2>2. new.valid
    BY <1>3, <2>1 DEF Lowered, LoweredCell, Cell
  <2>. QED  BY <1>1, <1>3, <2>2 DEF Lowered, Ignored
<1>4. CASE ~ Replaces(c, r) /\ ~ Lowered(c, r)
  BY <1>1, <1>4 DEF NewCell, Replaces
<1>. QED  BY <1>2, <1>3, <1>4

\* What reading leaves as it was, and what it sets.
ReadOf(q, r, new) ==
  /\ q.sid = r.sid /\ q.jid = r.jid /\ q.post = r.post /\ q.status = r.status
  /\ q.score = r.score /\ q.pc = "read"
  /\ q.cell = WithPenalty(new, Owner[r.sid], Of[r.sid])
  /\ q.general = GeneralAfter(r, q.cell)
  /\ q.cell.valid = new.valid /\ q.cell.sid = new.sid /\ q.cell.jid = new.jid
  /\ q.cell.time = new.time /\ q.cell.score = new.score

\* The report after ReadRow, column by column.
LEMMA AfterReadingFields ==
  ASSUME RankingTypeOK, NEW r \in reports, NEW new \in Cell
  PROVE  ReadOf(AfterReading(r, new), r, new)
<1>1. r \in Report
  BY ReportPlace
<1> DEFINE final == WithPenalty(new, Owner[r.sid], Of[r.sid])
           g == GeneralAfter(r, final)
<1>2. /\ final.valid = new.valid /\ final.sid = new.sid /\ final.jid = new.jid
      /\ final.time = new.time /\ final.score = new.score
  BY DEF WithPenalty, Cell
<1> HIDE DEF final, g
<1>3. \A q : q = [r EXCEPT !.pc = "read", !.cell = final, !.general = g] =>
         /\ q.sid = r.sid /\ q.jid = r.jid /\ q.post = r.post /\ q.status = r.status
         /\ q.score = r.score /\ q.pc = "read" /\ q.cell = final /\ q.general = g
  BY <1>1 DEF Report
<1>4. AfterReading(r, new) = [r EXCEPT !.pc = "read", !.cell = final, !.general = g]
  BY DEF AfterReading, final, g
<1>5. \A q : q = AfterReading(r, new) => ReadOf(q, r, new)
  BY <1>2, <1>3, <1>4 DEF ReadOf, final, g
<1>. QED  BY <1>5

\* A step after which nobody more has read a row.
LEMMA NoNewReads ==
  ASSUME ReadInv, \A r \in reports' : IsRead(r) => r \in reports, cells' = cells, raced' = raced
  PROVE  ReadInv'
  BY DEF ReadInv, IsRead, CellAt

\* A second reader of a user's row is a race.
LEMMA ReadRowRead ==
  ASSUME RankingTypeOK, ReadInv, NEW r \in reports, ReadRow(r)
  PROVE  ReadInv'
<1>1. PICK new \in Cell : /\ NewCell(CellAt(r), r, new) /\ ~ Ignored(CellAt(r), r)
                          /\ reports' = (reports \ {r}) \cup {AfterReading(r, new)}
  BY ReadRowShape
<1>q. PICK q : q = AfterReading(r, new)
  OBVIOUS
<1>2. q.sid = r.sid /\ q.jid = r.jid /\ q.cell.valid = new.valid /\ q.cell.score = new.score
  <2>1. ReadOf(q, r, new)
    BY <1>1, <1>q, AfterReadingFields
  <2>. QED  BY <2>1 DEF ReadOf
<1>3. CellAt(r) \in Cell /\ r \in Report /\ (CellAt(r).valid \/ CellAt(r).score = 0)
  BY ReportPlace DEF ReadInv, CellAt
<1>4. new.valid /\ (new.score < CellAt(r).score => r.sid = CellAt(r).sid /\ r.jid > CellAt(r).jid)
  BY <1>1, <1>3, NewCellFacts
<1>5. cells' = cells /\ raced \subseteq raced'
      /\ ((\E x \in reports : Owner[x.sid] = Owner[r.sid] /\ IsRead(x)) => Owner[r.sid] \in raced')
  BY DEF ReadRow, Table, OpenReports, IsRead
<1>6. reports' = (reports \ {r}) \cup {q}
  BY <1>1, <1>q
<1>7. \A x, y \in reports' : IsRead(x) /\ IsRead(y) /\ Owner[x.sid] = Owner[y.sid]
                            /\ Owner[x.sid] \notin raced' => x = y
  BY <1>2, <1>5, <1>6 DEF ReadInv
<1>8. CellAt(q)' = CellAt(r) /\ \A x \in reports : CellAt(x)' = CellAt(x)
  BY <1>2, <1>5 DEF CellAt
<1>9. \A x \in reports' : IsRead(x) /\ Owner[x.sid] \notin raced' /\ x.cell.score < CellAt(x)'.score
       => x.sid = CellAt(x)'.sid /\ x.jid > CellAt(x)'.jid
  BY <1>2, <1>4, <1>5, <1>6, <1>8 DEF ReadInv
<1>10. \A x \in reports' : IsRead(x) => x.cell.valid
  BY <1>2, <1>4, <1>6 DEF ReadInv
<1>. QED  BY <1>5, <1>7, <1>9, <1>10 DEF ReadInv, CellAt

\* The only reader of the row is the one who writes it.
LEMMA WriteRowRead ==
  ASSUME RankingTypeOK, ReadInv, NEW r \in reports, WriteRow(r)
  PROVE  ReadInv'
<1>1. /\ IsRead(r) /\ reports' = reports \ {r} /\ raced' = raced
      /\ cells' = [cells EXCEPT ![Owner[r.sid]][Of[r.sid]] = r.cell]
  BY DEF WriteRow, IsRead, Fine, History
<1>2. \A u \in Users, p \in Problems : cells'[u][p] = r.cell \/ cells'[u][p] = cells[u][p]
  BY <1>1, ReportPlace DEF RankingTypeOK
<1>3. \A u \in Users \ {Owner[r.sid]} : cells'[u] = cells[u]
  BY <1>1, ReportPlace DEF RankingTypeOK
<1>4. r.cell.valid
  BY <1>1 DEF ReadInv
<1>5. \A x \in reports' : IsRead(x) /\ Owner[x.sid] \notin raced' => Owner[x.sid] # Owner[r.sid]
  BY <1>1 DEF ReadInv
<1>6. \A x \in reports' : IsRead(x) /\ Owner[x.sid] \notin raced' => CellAt(x)' = CellAt(x)
  BY <1>1, <1>3, <1>5, ReportPlace DEF CellAt
<1>7. \A x \in reports' : IsRead(x) /\ Owner[x.sid] \notin raced' /\ x.cell.score < CellAt(x)'.score
       => x.sid = CellAt(x)'.sid /\ x.jid > CellAt(x)'.jid
  BY <1>1, <1>6 DEF ReadInv
<1>8. \A u \in Users, p \in Problems : cells'[u][p].valid \/ cells'[u][p].score = 0
  BY <1>2, <1>4 DEF ReadInv
<1>. QED  BY <1>1, <1>7, <1>8 DEF ReadInv, CellAt

\* Only three actions write the table or read a row.
LEMMA QuietSteps ==
  ASSUME RankingTypeOK, [RankingNext]_rankingVars
  PROVE  \/ /\ cells' = cells /\ general' = general /\ raced' = raced
            /\ \A r \in reports' : IsRead(r) => r \in reports
         \/ \E p \in Problems : DropProblem(p)
         \/ \E r \in reports : ReadRow(r) \/ WriteRow(r)
<1> DEFINE Quiet == /\ cells' = cells /\ general' = general /\ raced' = raced
                    /\ \A r \in reports' : IsRead(r) => r \in reports
<1>1. CASE UNCHANGED rankingVars
  BY <1>1 DEF rankingVars, History
<1>2. CASE Submit \/ (\E u \in Users : Join(u)) \/ (\E p \in Problems : AddProblem(p))
           \/ (\E s \in Sids : Start(s))
           \/ (\E s \in Sids, j \in 1 .. MaxRuns : CaseReport(s, j))
  <2>1. reports' = reports /\ cells' = cells /\ general' = general
    BY <1>2 DEF Submit, Join, AddProblem, Start, CaseReport, Table
  <2>2. raced' = raced
    BY <1>2 DEF Submit, Join, AddProblem, Start, CaseReport, Late, Fine, Trouble, History
  <2>. QED  BY <2>1, <2>2
<1>4. ASSUME NEW s \in Sids, NEW j \in 1 .. MaxRuns, NEW v \in RunVerdicts, Post(s, j, v)
      PROVE  Quiet
  <2>1. \A x \in reports' : x \in reports \/ x.pc = "posted"
    BY <1>4 DEF Post
  <2>2. cells' = cells /\ general' = general /\ raced' = raced
    BY <1>4 DEF Post, Table, Fine, Trouble, History
  <2>. QED  BY <2>1, <2>2 DEF IsRead
<1>5. ASSUME NEW r \in reports, Store(r) PROVE Quiet
  <2>1. [r EXCEPT !.pc = "stored"].pc = "stored"
    BY ReportPlace DEF Report
  <2>2. \A x \in reports' : IsRead(x) => x \in reports
    BY <1>5, <2>1 DEF Store, IsRead
  <2>. QED  BY <1>5, <2>2 DEF Store, Table, Fine, History
<1>6. ASSUME NEW r \in reports, StopAfterReading(r) \/ Lose(r) PROVE Quiet
  BY <1>6 DEF StopAfterReading, Lose, Table, Trouble
<1>. QED  BY <1>1, <1>2, <1>4, <1>5, <1>6 DEF RankingNext

\* Every step keeps what is known of the readers.
LEMMA StepRead == RankingTypeOK /\ ReadInv /\ [RankingNext]_rankingVars => ReadInv'
<1> SUFFICES ASSUME RankingTypeOK, ReadInv, [RankingNext]_rankingVars PROVE ReadInv'
  OBVIOUS
<1>1. ASSUME NEW p \in Problems, DropProblem(p) PROVE ReadInv'
  <2>1. \A x \in reports' : ~ IsRead(x)
    BY <1>1 DEF DropProblem, NoTransaction, IsRead
  <2>2. \A u \in Users, q \in Problems : cells'[u][q] = NoCell \/ cells'[u][q] = cells[u][q]
    BY <1>1 DEF DropProblem, RankingTypeOK
  <2>3. \A u \in Users, q \in Problems : cells'[u][q].valid \/ cells'[u][q].score = 0
    BY <2>2 DEF ReadInv, NoCell
  <2>. QED  BY <2>1, <2>3 DEF ReadInv
<1>. QED  BY <1>1, QuietSteps, NoNewReads, ReadRowRead, WriteRowRead

\* The score of a cell falls only with a newer run of the submission it names, unless the
\* problem goes or two reports raced.
LEMMA StepLowers ==
  ASSUME RankingTypeOK, ReadInv, [RankingNext]_rankingVars,
         NEW u \in Users, NEW p \in Problems, cells'[u][p].score < cells[u][p].score
  PROVE  \/ p \in dropped' \/ u \in raced
         \/ \E r \in reports \ reports' : r.sid = cells[u][p].sid /\ r.jid > cells[u][p].jid
<1>0. cells[u][p].score \in Nat
  BY RankingAssumption DEF RankingTypeOK, Cell, Scores
<1>1. CASE cells' = cells
  BY <1>0, <1>1
<1>2. ASSUME NEW d \in Problems, DropProblem(d) PROVE p \in dropped'
  <2>1. cells'[u][p] = cells[u][p] \/ p = d
    BY <1>2 DEF DropProblem, RankingTypeOK
  <2>. QED  BY <1>0, <1>2, <2>1 DEF DropProblem
<1>3. ASSUME NEW r \in reports, WriteRow(r), u \notin raced
      PROVE  r \in reports \ reports' /\ r.sid = cells[u][p].sid /\ r.jid > cells[u][p].jid
  <2>1. /\ IsRead(r) /\ reports' = reports \ {r}
        /\ cells' = [cells EXCEPT ![Owner[r.sid]][Of[r.sid]] = r.cell]
    BY <1>3 DEF WriteRow, IsRead
  <2>2. CASE u = Owner[r.sid] /\ p = Of[r.sid]
    <3>1. cells'[u][p] = r.cell /\ cells[u][p] = CellAt(r)
      BY <2>1, <2>2, ReportPlace DEF RankingTypeOK, CellAt
    <3>. QED  BY <1>3, <2>1, <2>2, <3>1 DEF ReadInv
  <2>3. CASE ~ (u = Owner[r.sid] /\ p = Of[r.sid])
    <3>1. cells'[u][p] = cells[u][p]
      BY <2>1, <2>3, ReportPlace DEF RankingTypeOK
    <3>. QED  BY <1>0, <3>1
  <2>. QED  BY <2>2, <2>3
<1>4. CASE UNCHANGED rankingVars
  BY <1>1, <1>4 DEF rankingVars
<1>5. CASE RankingNext
  <2>1. \/ cells' = cells \/ (\E d \in Problems : DropProblem(d)) \/ (\E r \in reports : WriteRow(r))
    BY ZenonT(40), <1>5 DEF RankingNext, Submit, Join, AddProblem, Start, CaseReport, Post, Store,
                StopAfterReading, ReadRow, Lose, Table
  <2>. QED  BY SMTT(30), <1>1, <1>2, <1>3, <2>1
<1>. QED  BY <1>4, <1>5

\* The score of a cell falls only with a newer run of the submission it names, with
\* its problem, or in a race of two reports.
THEOREM ScoresFallOnRejudge == RankingSpec => OnlyRejudgeLowers
<1>1. RankingTypeOK /\ ReadInv /\ [RankingNext]_rankingVars =>
        [\A u \in Users, p \in Problems :
           cells'[u][p].score < cells[u][p].score =>
             \/ p \in dropped' \/ u \in raced
             \/ \E r \in reports \ reports' :
                  r.sid = cells[u][p].sid /\ r.jid > cells[u][p].jid]_rankingVars
  BY StepLowers
<1>. QED  BY <1>1, InitTypes, StepTypes, InitRead, StepRead, PTL DEF RankingSpec, OnlyRejudgeLowers

-----------------------------------------------------------------------------
(* The rows of the users who are not spoiled. *)

\* The result of the submission's run has come and been handled.
Done(s) == runs[s] = 1 /\ posted[s][1] = 1 /\ \A r \in reports : r.sid # s

\* What a step never takes back.
LEMMA Lasting ==
  ASSUME RankingTypeOK, [RankingNext]_rankingVars
  PROVE  type' = type /\ finish' = finish /\ members \subseteq members' /\ spoiled \subseteq spoiled'
<1>1. CASE UNCHANGED rankingVars
  BY <1>1 DEF rankingVars, History
<1>2. type' = type /\ finish' = finish
  BY ZenonT(40), <1>1
  DEF RankingNext, Submit, Join, AddProblem, DropProblem, Start, CaseReport, Post, Store,
              StopAfterReading, ReadRow, WriteRow, Lose, Judged
<1>3. members \subseteq members'
  BY ZenonT(40), <1>1
  DEF RankingNext, Submit, Join, AddProblem, DropProblem, Start, CaseReport, Post, Store,
              StopAfterReading, ReadRow, WriteRow, Lose, Table
<1>4. Fine \/ Late \/ (\E us : Trouble(us)) => spoiled \subseteq spoiled'
  BY DEF Fine, Late, Trouble, History
<1>5. CASE \E r \in reports : StopAfterReading(r) \/ ReadRow(r)
  BY <1>2, <1>3, <1>5 DEF StopAfterReading, ReadRow
<1>6. CASE RankingNext /\ ~ \E r \in reports : StopAfterReading(r) \/ ReadRow(r)
  <2>1. Fine \/ Late \/ \E us : Trouble(us)
    BY <1>6 DEF RankingNext, Submit, Join, AddProblem, DropProblem, Start, CaseReport, Post, Store,
                WriteRow, Lose
  <2>. QED  BY <1>2, <1>3, <1>4, <2>1
<1>. QED  BY <1>1, <1>2, <1>3, <1>5, <1>6

\* A submission whose only result is in stays so while its user is not spoiled.
LEMMA DoneLasts ==
  ASSUME RankingTypeOK, RunsInv, [RankingNext]_rankingVars,
         NEW t \in Sids, Owner[t] \notin spoiled', Done(t)
  PROVE  Done(t)'
<1>1. CASE runs' = runs /\ posted' = posted /\ \A x \in reports' : \E y \in reports : y.sid = x.sid
  BY <1>1 DEF Done
<1>2. CASE UNCHANGED rankingVars
  BY <1>1, <1>2 DEF rankingVars
<1>3. CASE Submit \/ (\E u \in Users : Join(u))
           \/ (\E p \in Problems : AddProblem(p) \/ DropProblem(p))
           \/ (\E s \in Sids, j \in 1 .. MaxRuns : CaseReport(s, j))
           \/ (\E r \in reports : StopAfterReading(r) \/ WriteRow(r) \/ Lose(r))
  <2>1. runs' = runs /\ posted' = posted /\ reports' \subseteq reports
    BY <1>3 DEF Submit, Join, AddProblem, DropProblem, CaseReport, StopAfterReading, WriteRow, Lose,
                Judged
  <2>. QED  BY <1>1, <2>1
<1>4. ASSUME NEW s \in Sids, Start(s) PROVE Done(t)'
  <2>1. runs' = [runs EXCEPT ![s] = @ + 1] /\ UNCHANGED <<posted, reports>>
        /\ (Owner[s] \notin spoiled' => runs[s] = 0)
    BY <1>4 DEF Start, Trouble
  <2>2. t # s /\ runs'[t] = runs[t]
    BY <2>1 DEF RankingTypeOK, Done
  <2>. QED  BY <2>1, <2>2 DEF Done
<1>5. ASSUME NEW s \in Sids, NEW j \in 1 .. MaxRuns, NEW v \in RunVerdicts, Post(s, j, v)
      PROVE  Done(t)'
  <2>1. /\ posted' = [posted EXCEPT ![s][j] = @ + 1] /\ UNCHANGED runs /\ j <= runs[s]
        /\ \A x \in reports' : x \in reports \/ x.sid = s
        /\ (Owner[s] \notin spoiled' => posted[s][j] = 0)
    BY <1>5 DEF Post, Trouble
  <2>2. t = s => j = 1
    BY <2>1 DEF Done
  <2>3. t # s
    BY <2>1, <2>2 DEF Done
  <2>4. posted'[t] = posted[t]
    BY <2>1, <2>3 DEF RankingTypeOK
  <2>. QED  BY <2>1, <2>3, <2>4 DEF Done
<1>6. ASSUME NEW r \in reports, Store(r) PROVE Done(t)'
  <2>1. [r EXCEPT !.pc = "stored"].sid = r.sid
    BY ReportPlace DEF Report
  <2>. QED  BY <1>1, <1>6, <2>1 DEF Store
<1>7. ASSUME NEW r \in reports, ReadRow(r) PROVE Done(t)'
  <2>1. PICK new \in Cell : reports' = (reports \ {r}) \cup {AfterReading(r, new)}
    BY <1>7, ReadRowShape
  <2>2. AfterReading(r, new).sid = r.sid
    BY AfterReadingFields DEF ReadOf
  <2>. QED  BY <1>1, <1>7, <2>1, <2>2 DEF ReadRow, Judged
<1>. QED  BY <1>2, <1>3, <1>4, <1>5, <1>6, <1>7 DEF RankingNext

\* A clean user's cell is empty or of a submission that is done, and was in time.
CellKnown(u, p) ==
  /\ ~ cells[u][p].valid => cells[u][p] = NoCell
  /\ cells[u][p].valid =>
       /\ cells[u][p].sid \in Sids /\ Owner[cells[u][p].sid] = u /\ Of[cells[u][p].sid] = p
       /\ Done(cells[u][p].sid) /\ finish > cells[u][p].sid
       /\ cells[u][p].jid = 1 /\ cells[u][p].time = cells[u][p].sid

\* A clean user's general column is the total of the row, or empty with it.
GeneralKnown(u) ==
  /\ (\E p \in Problems : cells[u][p].valid) =>
       \A row \in [Problems -> Cell] : row = cells[u] => general[u] = GeneralOf(row)
  /\ (\A p \in Problems : ~ cells[u][p].valid) => general[u] = NoGeneral
  /\ u \notin members => \A p \in Problems : ~ cells[u][p].valid

\* What a report makes of the cell it has read.
ReadFrom(c, r) ==
  /\ r.cell.valid
  /\ c.valid => c.sid # r.sid
  /\ Replaces(c, r) => /\ r.cell.sid = r.sid /\ r.cell.jid = r.jid /\ r.cell.time = r.sid
                       /\ r.cell.score = r.score
  /\ ~ Replaces(c, r) => /\ c.valid /\ r.cell.sid = c.sid /\ r.cell.jid = c.jid
                         /\ r.cell.time = c.time /\ r.cell.score = c.score

\* A clean user's report that has read: its cell and totals are those of the row
\* with its submission counted.
ReadKnown(r) ==
  /\ Owner[r.sid] \in members /\ SentInTime(r)
  /\ ReadFrom(CellAt(r), r)
  /\ \A row \in [Problems -> Cell] :
       row = [cells[Owner[r.sid]] EXCEPT ![Of[r.sid]] = r.cell] => r.general = GeneralOf(row)

\* The rows of the clean users.
RowInv ==
  /\ \A u \in Users \ spoiled : GeneralKnown(u) /\ \A p \in Problems : CellKnown(u, p)
  /\ \A r \in reports : IsRead(r) /\ Owner[r.sid] \notin spoiled => ReadKnown(r)

\* All rows are empty at first.
LEMMA InitRow == RankingInit => RowInv
  BY DEF RankingInit, RowInv, GeneralKnown, CellKnown, NoCell

\* The totals of a row depend on the contest's type only, which does not change.
LEMMA SameGeneral ==
  ASSUME type' = type
  PROVE  \A row : GeneralOf(row)' = GeneralOf(row)
<1> SUFFICES ASSUME NEW row PROVE GeneralOf(row)' = GeneralOf(row)
  OBVIOUS
<1>1. Scored(row)' = Scored(row) /\ GeneralScore(row)' = GeneralScore(row)
      /\ GeneralPenalty(row)' = GeneralPenalty(row)
  BY DEF Scored, GeneralScore, GeneralPenalty
<1>2. GeneralTime(row)' = GeneralTime(row)
  BY DEF GeneralTime, Scored
<1>3. \A time, penalty : /\ Evaluation1(time, penalty)' = Evaluation1(time, penalty)
                        /\ Evaluation2(time, penalty)' = Evaluation2(time, penalty)
  BY DEF Evaluation1, Evaluation2
<1>. QED  BY <1>1, <1>2, <1>3 DEF GeneralOf

\* A row that is not written stays known.
LEMMA RowLasts ==
  ASSUME RankingTypeOK, RunsInv, [RankingNext]_rankingVars,
         NEW u \in Users, u \notin spoiled', cells'[u] = cells[u], general'[u] = general[u],
         GeneralKnown(u), \A p \in Problems : CellKnown(u, p)
  PROVE  GeneralKnown(u)' /\ \A p \in Problems : CellKnown(u, p)'
<1>1. type' = type /\ finish' = finish /\ members \subseteq members'
  BY Lasting
<1>2. \A row : GeneralOf(row)' = GeneralOf(row)
  BY <1>1, SameGeneral
<1>3. GeneralKnown(u)'
  BY <1>1, <1>2 DEF GeneralKnown
<1>4. ASSUME NEW p \in Problems PROVE CellKnown(u, p)'
  <2>1. CASE cells[u][p].valid
    <3>1. PICK s \in Sids : s = cells[u][p].sid /\ Owner[s] = u /\ Done(s)
      BY <2>1, <1>4 DEF CellKnown
    <3>2. Done(s)'
      BY <3>1, DoneLasts
    <3>. QED  BY <1>1, <2>1, <3>1, <3>2 DEF CellKnown
  <2>2. CASE ~ cells[u][p].valid
    BY <2>2 DEF CellKnown
  <2>. QED  BY <2>1, <2>2
<1>. QED  BY <1>3, <1>4

\* What a report has read stays true while the row is not written.
LEMMA ReadLasts ==
  ASSUME RankingTypeOK, [RankingNext]_rankingVars, NEW r \in reports, ReadKnown(r),
         cells'[Owner[r.sid]] = cells[Owner[r.sid]]
  PROVE  ReadKnown(r)'
<1>1. type' = type /\ finish' = finish /\ members \subseteq members'
  BY Lasting
<1>2. \A row : GeneralOf(row)' = GeneralOf(row)
  BY SMTT(30), <1>1, SameGeneral
<1>3. ReadFrom(CellAt(r), r)' /\ SentInTime(r)'
  BY <1>1 DEF ReadKnown, ReadFrom, CellAt, Replaces, SentInTime
<1>. QED  BY <1>1, <1>2, <1>3 DEF ReadKnown

\* The cell of a clean user does not name a submission whose report is open.
LEMMA CleanCell ==
  ASSUME RankingTypeOK, RunsInv, RowInv, NEW r \in reports, Owner[r.sid] \notin spoiled,
         CellAt(r).valid
  PROVE  CellAt(r).sid # r.sid
  BY ReportPlace DEF RowInv, CellKnown, CellAt, Done

\* The cell chosen for the first report of a submission: its own, or the old one.
LEMMA NextCellFrom ==
  ASSUME NEW r \in reports, NEW c \in Cell, NEW new \in Cell, NewCell(c, r, new),
         c.valid => c.sid # r.sid, NEW q, ReadOf(q, r, new)
  PROVE  ReadFrom(c, q)
<1>1. ~ Lowered(c, r)
  BY DEF Lowered
<1>2. q.sid = r.sid /\ q.score = r.score /\ q.jid = r.jid /\ (Replaces(c, q) <=> Replaces(c, r))
  BY DEF ReadOf, Replaces
<1>3. CASE Replaces(c, r)
  <2>1. new = CellOf(r)
    BY <1>1, <1>3 DEF NewCell
  <2>2. new.valid /\ new.sid = r.sid /\ new.jid = r.jid /\ new.time = r.sid /\ new.score = r.score
    BY <2>1 DEF CellOf
  <2>. QED  BY <1>2, <1>3, <2>2 DEF ReadFrom, ReadOf
<1>4. CASE ~ Replaces(c, r)
  <2>1. new = c /\ c.valid
    BY <1>1, <1>4 DEF NewCell, Replaces
  <2>. QED  BY <1>2, <1>4, <2>1 DEF ReadFrom, ReadOf
<1>. QED  BY <1>3, <1>4

\* After reading, the report holds a cell of the row and the totals of the row with it.
LEMMA ReadRowRow ==
  ASSUME RankingTypeOK, RunsInv, RowInv, NEW r \in reports, ReadRow(r)
  PROVE  RowInv'
<1>0. [RankingNext]_rankingVars
  BY DEF RankingNext
<1>1. PICK new \in Cell : /\ NewCell(CellAt(r), r, new)
                          /\ reports' = (reports \ {r}) \cup {AfterReading(r, new)}
  BY ReadRowShape
<1>2. PICK q : q = AfterReading(r, new)
  OBVIOUS
<1>3. ReadOf(q, r, new)
  BY <1>1, <1>2, AfterReadingFields
<1>4. cells' = cells /\ general' = general /\ members' = members /\ finish' = finish
      /\ type' = type /\ spoiled \subseteq spoiled'
      /\ Owner[r.sid] \in members /\ SentInTime(r)
  BY DEF ReadRow, Table, Judged
<1>5. \A u \in Users \ spoiled' : GeneralKnown(u)' /\ \A p \in Problems : CellKnown(u, p)'
  BY <1>0, <1>4, RowLasts DEF RowInv
<1>6. ASSUME NEW x \in reports, IsRead(x), Owner[x.sid] \notin spoiled'
      PROVE  ReadKnown(x)'
  BY <1>0, <1>4, <1>6, ReadLasts DEF RowInv
<1>7. ASSUME Owner[r.sid] \notin spoiled' PROVE ReadKnown(q)'
  <2>1. CellAt(r).valid => CellAt(r).sid # r.sid
    BY <1>4, <1>7, CleanCell
  <2>2. CellAt(r) \in Cell
    BY ReportPlace
  <2>3. ReadFrom(CellAt(r), q)
    BY <1>1, <1>3, <2>1, <2>2, NextCellFrom
  <2>4. q.sid = r.sid
    BY SMTT(30), <1>3 DEF ReadOf
  <2>5. ReadFrom(CellAt(q), q)'
    BY <1>4, <2>3, <2>4 DEF CellAt, ReadFrom, Replaces
  <2>6. \A row : row = [cells[Owner[r.sid]] EXCEPT ![Of[r.sid]] = q.cell] => q.general = GeneralOf(row)
    BY <1>3 DEF ReadOf, GeneralAfter
  <2>7. \A row : GeneralOf(row)' = GeneralOf(row)
    BY <1>4, SameGeneral
  <2>8. \A row \in [Problems -> Cell] :
          row = [cells'[Owner[q.sid]] EXCEPT ![Of[q.sid]] = q.cell] => q.general = GeneralOf(row)'
    BY <1>4, <2>4, <2>6, <2>7
  <2>9. Owner[q.sid] \in members' /\ SentInTime(q)'
    BY <1>4, <2>4 DEF SentInTime
  <2>. QED  BY <2>5, <2>8, <2>9 DEF ReadKnown
<1>8. q.sid = r.sid /\ reports' = (reports \ {r}) \cup {q}
  BY <1>1, <1>2, <1>3 DEF ReadOf
<1>. QED  BY <1>5, <1>6, <1>7, <1>8 DEF RowInv, IsRead

\* After the write the general column is the total of the row again.
LEMMA WriteRowRow ==
  ASSUME RankingTypeOK, RunsInv, ReadInv, RowInv, NEW r \in reports, WriteRow(r)
  PROVE  RowInv'
<1> DEFINE u == Owner[r.sid]
           p == Of[r.sid]
<1>0. [RankingNext]_rankingVars
  BY DEF RankingNext
<1>1. /\ IsRead(r) /\ reports' = reports \ {r}
      /\ cells' = [cells EXCEPT ![u][p] = r.cell] /\ general' = [general EXCEPT ![u] = r.general]
      /\ UNCHANGED <<type, finish, members, raced, spoiled, runs, posted>>
  BY DEF WriteRow, IsRead, Fine, History, Judged
<1>2. u \in Users /\ p \in Problems /\ r.sid \in Sids /\ r \in Report
  BY ReportPlace
<1>3. /\ \A w \in Users \ {u} : cells'[w] = cells[w] /\ general'[w] = general[w]
      /\ cells'[u] = [cells[u] EXCEPT ![p] = r.cell] /\ general'[u] = r.general
      /\ cells[u] \in [Problems -> Cell]
  BY <1>1, <1>2 DEF RankingTypeOK
<1> HIDE DEF u, p
<1>4. \A w \in Users \ spoiled' : w # u =>
         GeneralKnown(w)' /\ \A o \in Problems : CellKnown(w, o)'
  <2> SUFFICES ASSUME NEW w \in Users, w \notin spoiled', w # u
               PROVE  GeneralKnown(w)' /\ \A o \in Problems : CellKnown(w, o)'
    OBVIOUS
  <2>1. cells'[w] = cells[w] /\ general'[w] = general[w]
    BY <1>3
  <2>2. GeneralKnown(w) /\ \A o \in Problems : CellKnown(w, o)
    BY <1>1 DEF RowInv
  <2>. QED  BY <1>0, <2>1, <2>2, RowLasts
<1>5. ASSUME NEW x \in reports', IsRead(x), Owner[x.sid] \notin spoiled'
      PROVE  ReadKnown(x)'
  <2>1. Owner[x.sid] # u
    BY <1>1, <1>5 DEF ReadInv, RankingTypeOK, u
  <2>2. cells'[Owner[x.sid]] = cells[Owner[x.sid]] /\ x \in reports
    BY <1>1, <1>3, <2>1, ReportPlace
  <2>. QED  BY <1>0, <1>1, <1>5, <2>2, ReadLasts DEF RowInv
<1>6. ASSUME u \notin spoiled'
      PROVE  GeneralKnown(u)' /\ \A o \in Problems : CellKnown(u, o)'
  <2>0. u \notin spoiled
    BY <1>1, <1>6
  <2>1. ReadKnown(r) /\ GeneralKnown(u) /\ \A o \in Problems : CellKnown(u, o)
    BY <1>1, <1>2, <2>0 DEF RowInv, u
  <2>2. r.cell.valid /\ ReadFrom(cells[u][p], r) /\ SentInTime(r) /\ u \in members
    BY <2>1 DEF ReadKnown, ReadFrom, CellAt, u, p
  <2>3. cells'[u][p] = r.cell /\ \A o \in Problems \ {p} : cells'[u][o] = cells[u][o]
    BY <1>2, <1>3
  <2>4. \A s \in Sids : Owner[s] = u /\ Done(s) => Done(s)'
    BY <1>0, <1>6, DoneLasts
  <2>5. r.jid = 1 /\ Done(r.sid)'
    BY <1>1, <2>0, OneRun DEF Done, u
  <2>6. ASSUME NEW o \in Problems, o # p PROVE CellKnown(u, o)'
    <3>1. CellKnown(u, o) /\ cells'[u][o] = cells[u][o]
      BY <2>1, <2>3, <2>6
    <3>2. CASE cells[u][o].valid
      <4>1. PICK s \in Sids : s = cells[u][o].sid /\ Owner[s] = u /\ Done(s)
        BY <3>1, <3>2 DEF CellKnown
      <4>2. Done(s)'
        BY <2>4, <4>1
      <4>. QED  BY <1>1, <3>1, <3>2, <4>1, <4>2 DEF CellKnown
    <3>3. CASE ~ cells[u][o].valid
      BY <3>1, <3>3 DEF CellKnown
    <3>. QED  BY <3>2, <3>3
  <2>7. CellKnown(u, p)'
    <3>1. CASE Replaces(cells[u][p], r)
      <4>1. r.cell.sid = r.sid /\ r.cell.jid = 1 /\ r.cell.time = r.sid
        BY <2>2, <2>5, <3>1 DEF ReadFrom
      <4>. QED  BY <1>1, <1>2, <2>2, <2>3, <2>5, <4>1 DEF CellKnown, SentInTime, u, p
    <3>2. CASE ~ Replaces(cells[u][p], r)
      <4>1. CellKnown(u, p) /\ cells[u][p].valid /\ r.cell.sid = cells[u][p].sid
            /\ r.cell.jid = cells[u][p].jid /\ r.cell.time = cells[u][p].time
        BY <1>2, <2>1, <2>2, <3>2 DEF ReadFrom
      <4>2. PICK s \in Sids : s = cells[u][p].sid /\ Owner[s] = u /\ Of[s] = p /\ Done(s)
        BY <4>1 DEF CellKnown
      <4>3. Done(s)'
        BY <2>4, <4>2
      <4>. QED  BY <1>1, <2>2, <2>3, <4>1, <4>2, <4>3 DEF CellKnown
    <3>. QED  BY <3>1, <3>2
  <2>8. GeneralKnown(u)'
    <3>1. \A row \in [Problems -> Cell] : row = cells'[u] => general'[u] = GeneralOf(row)
      BY <1>3, <2>1 DEF ReadKnown, u, p
    <3>2. \A row : GeneralOf(row)' = GeneralOf(row)
      BY <1>1, SameGeneral
    <3>3. cells'[u][p].valid /\ u \in members'
      BY <1>1, <2>2, <2>3
    <3>. QED  BY <1>2, <3>1, <3>2, <3>3 DEF GeneralKnown
  <2>. QED  BY <2>6, <2>7, <2>8
<1>7. \A w \in Users \ spoiled' : GeneralKnown(w)' /\ \A o \in Problems : CellKnown(w, o)'
  BY <1>4, <1>6
<1>. QED  BY <1>5, <1>7 DEF RowInv

\* Every step keeps the rows of the clean users known.
LEMMA StepRow ==
  RankingTypeOK /\ RunsInv /\ ReadInv /\ RowInv /\ [RankingNext]_rankingVars => RowInv'
<1> SUFFICES ASSUME RankingTypeOK, RunsInv, ReadInv, RowInv, [RankingNext]_rankingVars
             PROVE  RowInv'
  OBVIOUS
<1>0. spoiled \subseteq spoiled'
  BY Lasting
<1>1. CASE /\ cells' = cells /\ general' = general
           /\ \A r \in reports' : IsRead(r) => r \in reports
  <2>1. \A u \in Users \ spoiled' : GeneralKnown(u)' /\ \A p \in Problems : CellKnown(u, p)'
    BY <1>0, <1>1, RowLasts DEF RowInv
  <2>2. \A r \in reports' : IsRead(r) /\ Owner[r.sid] \notin spoiled' => ReadKnown(r)'
    BY <1>0, <1>1, ReadLasts DEF RowInv
  <2>. QED  BY <2>1, <2>2 DEF RowInv
<1>2. ASSUME NEW p \in Problems, DropProblem(p) PROVE RowInv'
  BY <1>2 DEF DropProblem, Trouble, RowInv, NoTransaction, IsRead
<1>. QED  BY <1>1, <1>2, QuietSteps, ReadRowRow, WriteRowRow

-----------------------------------------------------------------------------
(* What the rows hold, for users whose stored results are still there. *)

\* The result of the submission's run is in the submissions table.
Arrived(s) == /\ runs[s] = 1 /\ posted[s][1] = 1
              /\ \A r \in reports : r.sid = s => r.pc # "posted"

\* No late case report has put a submission of the user back to "judging".
Sound(u) == /\ u \notin spoiled
            /\ \A s \in Sids : Owner[s] = u /\ Arrived(s) => HasVerdict(s)

\* The reports in time about a cell, and the submissions of a cell that are done.
About(r, u, p) == Owner[r.sid] = u /\ Of[r.sid] = p /\ finish > r.sid
NoneStored(u, p) == \A r \in reports : About(r, u, p) => r.pc # "stored"
NoneRead(u, p) == \A r \in reports : About(r, u, p) => r.pc # "read"
DoneIn(u, p) == {s \in Sids : Owner[s] = u /\ Of[s] = p /\ finish > s /\ Done(s)}

\* The last submission whose wrong answer costs something.
LastOf(c) == IF c.score > 0 THEN c.sid - 1 ELSE c.sid
Counts(c, u, p) == c.penalty = CountForPenalty(u, p, LastOf(c))
\* The cell names the best of the submissions.
BestOf(c, S) == \A t \in S \ {c.sid} :
                  c.score > sub[t].score \/ (c.score = sub[t].score /\ c.sid < t)

\* A cell of a user all of whose arrived results have a verdict: the best of the
\* submissions done, and the wrong answers before it once no result is on its way.
CellSound(u, p) ==
  /\ cells[u][p].valid => /\ cells[u][p].score = sub[cells[u][p].sid].score
                          /\ BestOf(cells[u][p], DoneIn(u, p))
  /\ ~ cells[u][p].valid => DoneIn(u, p) = {}
  /\ cells[u][p].valid /\ NoneStored(u, p) /\ NoneRead(u, p) => Counts(cells[u][p], u, p)

\* A report on its way, likewise.
ReportSound(r) ==
  /\ r.pc # "posted" => sub[r.sid].score = r.score
  /\ IsRead(r) /\ NoneStored(Owner[r.sid], Of[r.sid]) => Counts(r.cell, Owner[r.sid], Of[r.sid])

\* All of it for the sound users.
SoundInv ==
  /\ \A s \in Sids : Owner[s] \notin spoiled /\ HasVerdict(s) => Arrived(s)
  /\ \A u \in Users : Sound(u) => \A p \in Problems : CellSound(u, p)
  /\ \A r \in reports : Sound(Owner[r.sid]) => ReportSound(r)

\* No result has arrived yet.
LEMMA InitSound == RankingInit => SoundInv
  BY DEF RankingInit, SoundInv, HasVerdict, CellSound, DoneIn, Done, NoCell

\* A status changes to a verdict only when a result is stored.
LEMMA SubSteps ==
  ASSUME RankingTypeOK, [RankingNext]_rankingVars, NEW s \in Sids
  PROVE  \/ sub'[s] = sub[s]
         \/ sub'[s].status = "WJ" /\ \E t \in Sids : Start(t) /\ t = s
         \/ sub'[s].status = "JG"
         \/ \E r \in reports : Store(r) /\ r.sid = s
<1>1. CASE sub' = sub
  BY <1>1
<1>2. ASSUME NEW t \in Sids, Start(t)
      PROVE  sub'[s] = sub[s] \/ (sub'[s].status = "WJ" /\ t = s)
  BY <1>2 DEF Start, RankingTypeOK, Submission
<1>3. ASSUME NEW t \in Sids, NEW j \in 1 .. MaxRuns, CaseReport(t, j)
      PROVE  sub'[s] = sub[s] \/ sub'[s].status = "JG"
  BY <1>3 DEF CaseReport, RankingTypeOK
<1>4. ASSUME NEW r \in reports, Store(r)
      PROVE  sub'[s] = sub[s] \/ r.sid = s
  BY SMTT(30), <1>4 DEF Store, RankingTypeOK
<1>5. \/ sub' = sub \/ (\E t \in Sids : Start(t))
      \/ (\E t \in Sids, j \in 1 .. MaxRuns : CaseReport(t, j))
      \/ (\E r \in reports : Store(r))
  BY DEF RankingNext, rankingVars, Submit, Join, AddProblem, DropProblem, Post, StopAfterReading,
         ReadRow, WriteRow, Lose, Judged
<1>. QED  BY <1>1, <1>2, <1>3, <1>4, <1>5

\* Every report of the new state is a report of the old one that has not been
\* put back, or a new one.
LEMMA ReportSteps ==
  ASSUME RankingTypeOK, [RankingNext]_rankingVars, NEW x \in reports'
  PROVE  \/ x \in reports
         \/ x.pc = "posted" /\ \E s \in Sids, j \in 1 .. MaxRuns, v \in RunVerdicts :
                                  Post(s, j, v) /\ x.sid = s
         \/ \E r \in reports : Store(r) /\ x.sid = r.sid /\ x.pc = "stored" /\ x.score = r.score
         \/ \E r \in reports : ReadRow(r) /\ x.sid = r.sid /\ x.pc = "read" /\ x.score = r.score
<1>1. CASE reports' \subseteq reports
  BY <1>1
<1>2. ASSUME NEW s \in Sids, NEW j \in 1 .. MaxRuns, NEW v \in RunVerdicts, Post(s, j, v)
      PROVE  x \in reports \/ (x.pc = "posted" /\ x.sid = s)
  BY <1>2 DEF Post
<1>3. ASSUME NEW r \in reports, Store(r)
      PROVE  x \in reports \/ (x.sid = r.sid /\ x.pc = "stored" /\ x.score = r.score)
  <2>1. PICK q : q = [r EXCEPT !.pc = "stored"]
    OBVIOUS
  <2>2. q.sid = r.sid /\ q.pc = "stored" /\ q.score = r.score
    BY <2>1, ReportPlace DEF Report
  <2>. QED  BY <1>3, <2>1, <2>2 DEF Store
<1>4. ASSUME NEW r \in reports, ReadRow(r)
      PROVE  x \in reports \/ (x.sid = r.sid /\ x.pc = "read" /\ x.score = r.score)
  <2>1. PICK new \in Cell : reports' = (reports \ {r}) \cup {AfterReading(r, new)}
    BY <1>4, ReadRowShape
  <2>2. ReadOf(AfterReading(r, new), r, new)
    BY <2>1, AfterReadingFields
  <2>. QED  BY <2>1, <2>2 DEF ReadOf
<1>5. \/ reports' \subseteq reports
      \/ (\E s \in Sids, j \in 1 .. MaxRuns, v \in RunVerdicts : Post(s, j, v))
      \/ (\E r \in reports : Store(r) \/ ReadRow(r))
  BY DEF RankingNext, rankingVars, Submit, Join, AddProblem, DropProblem, Start, CaseReport,
         StopAfterReading, WriteRow, Lose
<1>. QED  BY <1>1, <1>2, <1>3, <1>4, <1>5

\* A clean user's stored result stays stored, unless a case report undoes it.
LEMMA ArrivedLasts ==
  ASSUME RankingTypeOK, RunsInv, [RankingNext]_rankingVars,
         NEW s \in Sids, Owner[s] \notin spoiled', Arrived(s)
  PROVE  Arrived(s)' /\ (sub'[s] = sub[s] \/ sub'[s].status = "JG")
<1>1. ~ \E t \in Sids : Start(t) /\ t = s
  BY DEF Start, Trouble, Arrived
<1>2. ASSUME NEW t \in Sids, NEW j \in 1 .. MaxRuns, NEW v \in RunVerdicts, Post(t, j, v)
      PROVE  t # s
  BY <1>2 DEF Post, Trouble, Arrived
<1>3. ~ \E r \in reports : Store(r) /\ r.sid = s
  BY DEF Store, Arrived
<1>4. sub'[s] = sub[s] \/ sub'[s].status = "JG"
  BY <1>1, <1>3, SubSteps
<1>5. \A x \in reports' : x.sid = s => x.pc # "posted"
  BY <1>2, <1>3, ReportSteps DEF Arrived
<1>6. runs'[s] = runs[s]
  <2>1. runs' = runs \/ \E t \in Sids : Start(t)
    BY ZenonT(40)
    DEF RankingNext, rankingVars, Submit, Join, AddProblem, DropProblem, CaseReport, Post, Store,
           StopAfterReading, ReadRow, WriteRow, Lose, Judged
  <2>2. ASSUME NEW t \in Sids, Start(t) PROVE runs'[s] = runs[s]
    BY <1>1, <2>2 DEF Start, RankingTypeOK
  <2>. QED  BY SMTT(30), <2>1, <2>2
<1>7. posted'[s] = posted[s]
  <2>1. posted' = posted \/ \E t \in Sids, j \in 1 .. MaxRuns, v \in RunVerdicts : Post(t, j, v)
    BY DEF RankingNext, rankingVars, Submit, Join, AddProblem, DropProblem, Start, CaseReport, Store,
           StopAfterReading, ReadRow, WriteRow, Lose, Judged
  <2>2. ASSUME NEW t \in Sids, NEW j \in 1 .. MaxRuns, NEW v \in RunVerdicts, Post(t, j, v)
        PROVE  posted'[s] = posted[s]
    BY <1>2, <2>2 DEF Post, RankingTypeOK
  <2>. QED  BY <2>1, <2>2
<1>. QED  BY <1>4, <1>5, <1>6, <1>7 DEF Arrived

\* A user found sound was so before, and the stored results have not changed.
LEMMA SoundBefore ==
  ASSUME RankingTypeOK, RunsInv, [RankingNext]_rankingVars, NEW u \in Users, Sound(u)'
  PROVE  /\ Sound(u)
         /\ \A s \in Sids : Owner[s] = u /\ Arrived(s) => sub'[s] = sub[s] /\ Arrived(s)'
<1>1. u \notin spoiled' /\ u \notin spoiled
  BY Lasting DEF Sound
<1>2. ASSUME NEW s \in Sids, Owner[s] = u, Arrived(s)
      PROVE  sub'[s] = sub[s] /\ Arrived(s)' /\ HasVerdict(s)
  <2>1. Arrived(s)' /\ (sub'[s] = sub[s] \/ sub'[s].status = "JG")
    BY <1>1, <1>2, ArrivedLasts
  <2>2. HasVerdict(s)'
    BY <1>2, <2>1 DEF Sound
  <2>. QED  BY <2>1, <2>2 DEF HasVerdict
<1>. QED  BY <1>1, <1>2 DEF Sound

\* A handled or stored submission's result has arrived.
LEMMA DoneArrived == \A s : Done(s) => Arrived(s)
  BY DEF Done, Arrived

\* A report past its first step has arrived.
LEMMA OpenArrived ==
  ASSUME RankingTypeOK, RunsInv, NEW r \in reports, Owner[r.sid] \notin spoiled, r.pc # "posted"
  PROVE  Arrived(r.sid)
  BY OneRun DEF Arrived

\* A submission gets its verdict with the report of its only run.
LEMMA VerdictsArrive ==
  ASSUME RankingTypeOK, RunsInv, SoundInv, [RankingNext]_rankingVars,
         NEW s \in Sids, Owner[s] \notin spoiled', HasVerdict(s)'
  PROVE  Arrived(s)'
<1>1. Owner[s] \notin spoiled /\ RunsInv' /\ RankingTypeOK'
  BY Lasting, StepRuns, StepTypes
<1>2. CASE HasVerdict(s)
  BY <1>1, <1>2, ArrivedLasts DEF SoundInv
<1>3. CASE ~ HasVerdict(s)
  <2>1. PICK r \in reports : Store(r) /\ r.sid = s
    BY <1>3, SubSteps DEF HasVerdict
  <2>2. runs[s] = 1 /\ posted[s][1] = 1 /\ \A q \in reports : q.sid = s => q = r
    BY <1>1, <2>1, OneRun
  <2>3. runs' = runs /\ posted' = posted
    BY <2>1 DEF Store
  <2>4. \A x \in reports' : x.sid = s => x.pc # "posted"
    <3>1. [r EXCEPT !.pc = "stored"].pc = "stored"
      BY ReportPlace DEF Report
    <3>. QED  BY <2>1, <2>2, <3>1 DEF Store
  <2>. QED  BY <2>2, <2>3, <2>4 DEF Arrived
<1>. QED  BY <1>2, <1>3

\* Within a sound user's submissions, wrong answers come only from Store.
LEMMA WrongsLast ==
  ASSUME RankingTypeOK, RunsInv, SoundInv, [RankingNext]_rankingVars, NEW u \in Users, Sound(u)',
         NEW s \in Sids, Owner[s] = u, ~ \E r \in reports : Store(r) /\ r.sid = s
  PROVE  sub'[s].status = "WA" <=> sub[s].status = "WA"
<1>1. CASE HasVerdict(s)
  <2>1. Arrived(s)
    BY <1>1, SoundBefore DEF SoundInv, Sound
  <2>. QED  BY <2>1, SoundBefore
<1>2. CASE ~ HasVerdict(s)
  BY <1>2, SubSteps DEF HasVerdict
<1>. QED  BY <1>1, <1>2

\* The wrong answers that are counted up to a submission.
Wrongs(u, p, last) == {s \in SubsOf(u, p) : sub[s].status = "WA" /\ s <= last}

\* The wrong answers up to a submission change only when the result of one of
\* them is stored.
LEMMA CountLasts ==
  ASSUME RankingTypeOK, RunsInv, SoundInv, [RankingNext]_rankingVars, NEW u \in Users, Sound(u)',
         NEW p \in Problems, NEW last \in Int,
         \A r \in reports : Store(r) /\ Owner[r.sid] = u /\ Of[r.sid] = p => r.sid > last
  PROVE  CountForPenalty(u, p, last)' = CountForPenalty(u, p, last)
<1>1. RunsInv' /\ RankingTypeOK'
  BY StepRuns, StepTypes
<1>2. \A s \in Sids : sub[s].status = "WA" => s <= sent
  <2> SUFFICES ASSUME NEW s \in Sids, sub[s].status = "WA" PROVE s <= sent
    OBVIOUS
  <2>1. sub[s].jid >= 1 /\ sub[s].jid <= runs[s]
    BY DEF RunsInv, HasVerdict
  <2>2. runs[s] > 0
    BY <2>1, RankingAssumption DEF RankingTypeOK, Submission
  <2>. QED  BY <2>2 DEF RunsInv
<1>3. \A s \in Sids : sub'[s].status = "WA" => s <= sent'
  <2> SUFFICES ASSUME NEW s \in Sids, sub'[s].status = "WA" PROVE s <= sent'
    OBVIOUS
  <2>1. sub'[s].jid >= 1 /\ sub'[s].jid <= runs'[s]
    BY <1>1 DEF RunsInv, HasVerdict
  <2>2. runs'[s] > 0
    BY <1>1, <2>1, RankingAssumption DEF RankingTypeOK, Submission
  <2>. QED  BY <1>1, <2>2 DEF RunsInv
<1>4. sent \in 0 .. NSubs /\ sent' \in 0 .. NSubs
  BY <1>1 DEF RankingTypeOK
<1>5. \A s \in Sids : Owner[s] = u /\ Of[s] = p /\ s <= last =>
        (sub'[s].status = "WA" <=> sub[s].status = "WA")
  BY WrongsLast DEF Sids
<1>6. Wrongs(u, p, last) = {s \in Sids : Owner[s] = u /\ Of[s] = p /\ s <= last
                                       /\ sub[s].status = "WA"}
  BY <1>2, <1>4, RankingAssumption DEF Wrongs, SubsOf, Sids
<1>7. Wrongs(u, p, last)' = {s \in Sids : Owner[s] = u /\ Of[s] = p /\ s <= last
                                        /\ sub'[s].status = "WA"}
  BY <1>3, <1>4, RankingAssumption DEF Wrongs, SubsOf, Sids
<1>8. Wrongs(u, p, last)' = Wrongs(u, p, last)
  BY <1>5, <1>6, <1>7
<1>9. CountForPenalty(u, p, last) = Cardinality(Wrongs(u, p, last))
      /\ CountForPenalty(u, p, last)' = Cardinality(Wrongs(u, p, last)')
  BY DEF CountForPenalty, Wrongs
<1>. QED  BY <1>8, <1>9

\* How a report goes.
LEMMA Gone ==
  ASSUME [RankingNext]_rankingVars, NEW r \in reports, r \notin reports'
  PROVE  Store(r) \/ StopAfterReading(r) \/ ReadRow(r) \/ WriteRow(r) \/ Lose(r)
<1>1. ASSUME NEW q \in reports, Store(q) \/ StopAfterReading(q) \/ ReadRow(q) \/ WriteRow(q) \/ Lose(q)
      PROVE  q = r
  BY <1>1 DEF Store, StopAfterReading, ReadRow, WriteRow, Lose
<1>2. \/ reports \subseteq reports'
      \/ \E q \in reports : Store(q) \/ StopAfterReading(q) \/ ReadRow(q) \/ WriteRow(q) \/ Lose(q)
  BY DEF RankingNext, rankingVars, Submit, Join, AddProblem, DropProblem, Start, CaseReport, Post
<1>. QED  BY SMTT(30), <1>1, <1>2

\* A clean user's report that was sent in time does not end before its row is written.
LEMMA InTimeGone ==
  ASSUME RankingTypeOK, RunsInv, RowInv, [RankingNext]_rankingVars,
         NEW r \in reports, r \notin reports', Owner[r.sid] \notin spoiled', SentInTime(r)
  PROVE  Store(r) \/ ReadRow(r) \/ WriteRow(r)
<1>1. ~ Lose(r)
  BY DEF Lose, Trouble
<1>2. Owner[r.sid] \notin spoiled
  BY Lasting
<1>3. ~ Ignored(CellAt(r), r)
  BY <1>2, CleanCell DEF Ignored
<1>4. ~ StopAfterReading(r)
  BY <1>3 DEF StopAfterReading, CellAt
<1>. QED  BY <1>1, <1>4, Gone

\* A report that is stored or read leaves one of its submission.
LEMMA Follows ==
  ASSUME RankingTypeOK, NEW r \in reports, Store(r) \/ ReadRow(r)
  PROVE  \E x \in reports' : x.sid = r.sid /\ (Store(r) => x.pc = "stored") /\ (ReadRow(r) => x.pc = "read")
<1>1. CASE Store(r)
  <2>1. PICK q : q = [r EXCEPT !.pc = "stored"]
    OBVIOUS
  <2>2. q.sid = r.sid /\ q.pc = "stored"
    BY <2>1, ReportPlace DEF Report
  <2>. QED  BY <1>1, <2>1, <2>2 DEF Store, ReadRow
<1>2. CASE ReadRow(r)
  <2>1. PICK new \in Cell : reports' = (reports \ {r}) \cup {AfterReading(r, new)}
    BY <1>2, ReadRowShape
  <2>2. ReadOf(AfterReading(r, new), r, new)
    BY SMTT(30), <2>1, AfterReadingFields
  <2>3. r.pc = "stored"
    BY <1>2 DEF ReadRow
  <2>. QED  BY <1>2, <2>1, <2>2, <2>3 DEF ReadOf, Store
<1>. QED  BY <1>1, <1>2

\* A submission in time is done when its report has written the row.
LEMMA DoneSteps ==
  ASSUME RankingTypeOK, RunsInv, RowInv, [RankingNext]_rankingVars,
         NEW s \in Sids, Owner[s] \notin spoiled', finish > s, Done(s)', ~ Done(s)
  PROVE  \E r \in reports : WriteRow(r) /\ r.sid = s
<1>1. CASE \E r \in reports : r.sid = s
  <2>1. PICK r \in reports : r.sid = s
    BY <1>1
  <2>2. r \notin reports'
    BY <2>1 DEF Done
  <2>3. Store(r) \/ ReadRow(r) \/ WriteRow(r)
    BY <2>1, <2>2, InTimeGone DEF SentInTime
  <2>4. ~ (Store(r) \/ ReadRow(r))
    BY <2>1, Follows DEF Done
  <2>. QED  BY <2>1, <2>3, <2>4
<1>2. CASE \A r \in reports : r.sid # s
  <2>1. runs[s] # 1 \/ posted[s][1] # 1
    BY <1>2 DEF Done
  <2>2. ASSUME NEW t \in Sids, Start(t) PROVE FALSE
    <3>1. runs' = [runs EXCEPT ![t] = @ + 1] /\ posted' = posted
          /\ (Owner[t] \notin spoiled' => runs[t] = 0)
      BY <2>2 DEF Start, Trouble
    <3>2. t = s
      BY <2>1, <3>1 DEF RankingTypeOK, Done
    <3>3. runs[s] = 0 /\ posted[s][1] = 1 /\ runs'[s] = 1
      BY <3>1, <3>2 DEF Done
    <3>4. 1 \in 1 .. MaxRuns
      BY <3>3, StepTypes, RankingAssumption DEF RankingTypeOK
    <3>. QED  BY <3>3, <3>4 DEF RunsInv
  <2>3. ASSUME NEW t \in Sids, NEW j \in 1 .. MaxRuns, NEW v \in RunVerdicts, Post(t, j, v) PROVE FALSE
    <3>1. posted' = [posted EXCEPT ![t][j] = @ + 1] /\ runs' = runs
      BY <2>3 DEF Post
    <3>2. \E x \in reports' : x.sid = t
      <4>1. PICK x : x = [sid |-> t, jid |-> j, post |-> posted'[t][j], status |-> v.status,
                          score |-> v.score, pc |-> "posted", cell |-> NoCell,
                          general |-> NoGeneral]
        OBVIOUS
      <4>2. x.sid = t
        BY <4>1
      <4>. QED  BY <2>3, <4>1, <4>2 DEF Post
    <3>3. t # s
      BY <3>2 DEF Done
    <3>4. posted'[s] = posted[s]
      BY <3>1, <3>3 DEF RankingTypeOK
    <3>. QED  BY <2>1, <3>1, <3>4 DEF Done
  <2>4. (runs' = runs /\ posted' = posted) \/ (\E t \in Sids : Start(t))
        \/ \E t \in Sids, j \in 1 .. MaxRuns, v \in RunVerdicts : Post(t, j, v)
    BY DEF RankingNext, rankingVars, Submit, Join, AddProblem, DropProblem, CaseReport, Store,
           StopAfterReading, ReadRow, WriteRow, Lose, Judged
  <2>. QED  BY <2>1, <2>2, <2>3, <2>4 DEF Done
<1>. QED  BY <1>1, <1>2

\* Reports that were stored and not yet read are so still, unless one is read.
LEMMA StoredBefore ==
  ASSUME RankingTypeOK, RunsInv, RowInv, [RankingNext]_rankingVars,
         NEW u \in Users, u \notin spoiled', NEW p \in Problems, NoneStored(u, p)',
         ~ \E r \in reports : ReadRow(r) /\ About(r, u, p)
  PROVE  /\ NoneStored(u, p)
         /\ \A r \in reports : Store(r) /\ Owner[r.sid] = u /\ Of[r.sid] = p => r.sid >= finish
<1>0. finish' = finish /\ finish \in Int
  BY Lasting, RankingAssumption DEF RankingTypeOK
<1>1. NoneStored(u, p)
  <2> SUFFICES ASSUME NEW r \in reports, About(r, u, p), r.pc = "stored" PROVE FALSE
    BY DEF NoneStored
  <2>1. r \notin reports'
    BY <1>0 DEF NoneStored, About
  <2>2. Store(r) \/ ReadRow(r) \/ WriteRow(r)
    BY <2>1, InTimeGone DEF About, SentInTime
  <2>. QED  BY <2>2 DEF Store, WriteRow
<1>2. ASSUME NEW r \in reports, Store(r), Owner[r.sid] = u, Of[r.sid] = p PROVE r.sid >= finish
  <2>1. PICK x \in reports' : x.sid = r.sid /\ x.pc = "stored"
    BY <1>2, Follows
  <2>2. ~ finish > r.sid
    BY <1>0, <1>2, <2>1 DEF NoneStored, About
  <2>3. r.sid \in Int
    BY ReportPlace DEF Sids
  <2>. QED  BY <1>0, <2>2, <2>3
<1>. QED  BY <1>1, <1>2

\* A cell that is not written.
LEMMA CellLasts ==
  ASSUME RankingTypeOK, RunsInv, RowInv, SoundInv, [RankingNext]_rankingVars,
         NEW u \in Users, Sound(u)', NEW p \in Problems, cells'[u][p] = cells[u][p],
         ~ \E r \in reports : WriteRow(r) /\ Owner[r.sid] = u /\ Of[r.sid] = p
  PROVE  CellSound(u, p)'
<1>0. Sound(u) /\ CellSound(u, p) /\ u \notin spoiled /\ u \notin spoiled' /\ CellKnown(u, p)
  BY SoundBefore DEF SoundInv, Sound, RowInv
<1>1. finish' = finish
  BY Lasting
<1>2. DoneIn(u, p)' = DoneIn(u, p)
  <2>1. \A s \in Sids : Owner[s] = u /\ Of[s] = p /\ finish > s => (Done(s)' <=> Done(s))
    BY <1>0, DoneLasts, DoneSteps
  <2>. QED  BY <1>1, <2>1 DEF DoneIn
<1>3. \A s \in DoneIn(u, p) : sub'[s] = sub[s]
  BY SoundBefore, DoneArrived DEF DoneIn
<1>4. cells[u][p].valid => cells[u][p].sid \in DoneIn(u, p)
  BY <1>0 DEF CellKnown, DoneIn
<1>5. CASE ~ cells[u][p].valid
  BY <1>0, <1>2, <1>5 DEF CellSound
<1>6. CASE cells[u][p].valid
  <2>1. cells'[u][p].valid /\ cells'[u][p].score = sub'[cells'[u][p].sid].score
    BY <1>0, <1>3, <1>4, <1>6 DEF CellSound
  <2>2. BestOf(cells[u][p], DoneIn(u, p))'
    BY <1>0, <1>2, <1>3, <1>6 DEF CellSound, BestOf
  <2>3. ASSUME NoneStored(u, p)', NoneRead(u, p)' PROVE Counts(cells[u][p], u, p)'
    <3>1. \A r \in reports : ReadRow(r) => ~ About(r, u, p)
      BY <1>1, <2>3, Follows DEF NoneRead, About
    <3>2. NoneStored(u, p) /\ \A r \in reports : Store(r) /\ Owner[r.sid] = u /\ Of[r.sid] = p
                                                  => r.sid >= finish
      BY <1>0, <2>3, <3>1, StoredBefore
    <3>3. NoneRead(u, p)
      <4> SUFFICES ASSUME NEW r \in reports, About(r, u, p), r.pc = "read" PROVE FALSE
        BY DEF NoneRead
      <4>1. r \notin reports'
        BY <1>1, <2>3 DEF NoneRead, About
      <4>2. Store(r) \/ ReadRow(r) \/ WriteRow(r)
        BY <1>0, <4>1, InTimeGone DEF About, SentInTime
      <4>. QED  BY <4>2 DEF Store, ReadRow, About
    <3>4. Counts(cells[u][p], u, p)
      BY <1>0, <1>6, <3>2, <3>3 DEF CellSound
    <3> DEFINE last == LastOf(cells[u][p])
    <3>5. cells[u][p] \in Cell
      BY DEF RankingTypeOK
    <3>6. last \in Int /\ finish > last
      BY <1>0, <1>6, <3>5, RankingAssumption DEF LastOf, CellKnown, Cell, RankingTypeOK, Scores
    <3> HIDE DEF last
    <3>7. PICK n \in Int : n = last
      BY <3>6
    <3>8. CountForPenalty(u, p, n)' = CountForPenalty(u, p, n)
      <4>1. \A r \in reports : Store(r) /\ Owner[r.sid] = u /\ Of[r.sid] = p => r.sid > n
        BY <3>2, <3>6, <3>7, ReportPlace, RankingAssumption DEF Sids, RankingTypeOK
      <4>. QED  BY <4>1, CountLasts
    <3>9. n = LastOf(cells[u][p]) /\ n = LastOf(cells[u][p])'
      BY <3>7 DEF last, LastOf
    <3>. QED  BY <3>4, <3>8, <3>9 DEF Counts
  <2>. QED  BY <1>6, <2>1, <2>2, <2>3 DEF CellSound
<1>. QED  BY <1>5, <1>6

\* The cell that is written is the best of the results handled before and this one.
LEMMA CellWritten ==
  ASSUME RankingTypeOK, RunsInv, ReadInv, RowInv, SoundInv,
         NEW r \in reports, WriteRow(r), Sound(Owner[r.sid])'
  PROVE  CellSound(Owner[r.sid], Of[r.sid])'
<1> DEFINE u == Owner[r.sid]
           p == Of[r.sid]
<1>0. [RankingNext]_rankingVars
  BY DEF RankingNext
<1>1. r.sid \in Sids /\ u \in Users /\ p \in Problems /\ r \in Report /\ CellAt(r) = cells[u][p]
      /\ CellAt(r) \in Cell /\ r.cell \in Cell
  BY ReportPlace DEF CellAt, Report
<1> HIDE DEF u, p
<1>2. u = Owner[r.sid] /\ p = Of[r.sid]
  BY DEF u, p
<1>3. Sound(u) /\ u \notin spoiled /\ u \notin spoiled'
  BY <1>0, <1>1, <1>2, SoundBefore DEF Sound
<1>4. /\ IsRead(r) /\ reports' = reports \ {r} /\ cells'[u][p] = r.cell
      /\ sub' = sub /\ sent' = sent /\ finish' = finish
  BY <1>1, <1>2 DEF WriteRow, IsRead, RankingTypeOK, Judged
<1>5. CellSound(u, p) /\ CellKnown(u, p) /\ ReadKnown(r) /\ ReportSound(r)
  BY <1>1, <1>2, <1>3, <1>4 DEF SoundInv, RowInv
<1>6. ReadFrom(cells[u][p], r) /\ finish > r.sid /\ r.cell.valid
  BY <1>1, <1>5 DEF ReadKnown, ReadFrom, SentInTime
<1>7. sub[r.sid].score = r.score
  BY <1>4, <1>5 DEF ReportSound, IsRead
<1>8. Done(r.sid)'
  BY <1>2, <1>3, <1>4, OneRun DEF Done, WriteRow, Judged
<1>9. DoneIn(u, p)' = DoneIn(u, p) \cup {r.sid}
  <2>1. \A s \in Sids : Owner[s] = u /\ Of[s] = p /\ finish > s /\ s # r.sid => (Done(s)' <=> Done(s))
    <3>1. \A s \in Sids : s # r.sid => (Done(s)' <=> Done(s))
      BY <1>4 DEF Done, WriteRow, Judged
    <3>. QED  BY <3>1
  <2>. QED  BY <1>1, <1>2, <1>4, <1>6, <1>8, <2>1 DEF DoneIn
<1>10. r.cell.score = sub[r.cell.sid].score /\ BestOf(r.cell, DoneIn(u, p) \cup {r.sid})
  <2> DEFINE c == cells[u][p]
  <2>1. /\ c.score \in Int /\ c.sid \in Int /\ r.score \in Int /\ r.sid \in Int
        /\ c \in Cell /\ c.valid \in BOOLEAN
        /\ \A s \in Sids : s \in Int /\ sub[s].score \in Int
    <3>1. c \in Cell
      BY <1>1
    <3>2. c.score \in Int /\ c.sid \in Int /\ c.valid \in BOOLEAN
      BY <3>1, RankingAssumption DEF Cell, Scores
    <3>3. r.score \in Int /\ r.sid \in Int
      BY <1>1, RankingAssumption DEF Report, Scores, Sids
    <3>4. ASSUME NEW s \in Sids PROVE s \in Int /\ sub[s].score \in Int
      BY RankingAssumption DEF RankingTypeOK, Submission, Scores, Sids
    <3>. QED  BY <3>1, <3>2, <3>3, <3>4
  <2>2. /\ c.valid => c.score = sub[c.sid].score /\ BestOf(c, DoneIn(u, p)) /\ c.sid # r.sid
        /\ ~ c.valid => DoneIn(u, p) = {}
    BY <1>5, <1>6 DEF CellSound, ReadFrom
  <2>3. /\ Replaces(c, r) => r.cell.sid = r.sid /\ r.cell.score = r.score
        /\ ~ Replaces(c, r) => c.valid /\ r.cell.sid = c.sid /\ r.cell.score = c.score
    BY <1>6 DEF ReadFrom
  <2>4. DoneIn(u, p) \subseteq Sids
    BY DEF DoneIn
  <2> HIDE DEF c
  <2>5. CASE Replaces(c, r)
    <3>1. ASSUME NEW t \in DoneIn(u, p), t # r.sid
          PROVE  r.score > sub[t].score \/ (r.score = sub[t].score /\ r.sid < t)
      <4>1. c.valid /\ (c.score < r.score \/ (c.score = r.score /\ c.sid > r.sid))
        BY <2>2, <2>5, <3>1 DEF Replaces
      <4>2. t = c.sid \/ c.score > sub[t].score \/ (c.score = sub[t].score /\ c.sid < t)
        BY <2>2, <3>1, <4>1 DEF BestOf
      <4>3. t \in Int /\ sub[t].score \in Int
        BY <2>1, <2>4, <3>1
      <4>. QED  BY <2>1, <2>2, <4>1, <4>2, <4>3
    <3>. QED  BY <1>7, <2>3, <2>5, <3>1 DEF BestOf
  <2>6. CASE ~ Replaces(c, r)
    <3>1. c.valid /\ (c.score > r.score \/ (c.score = r.score /\ c.sid < r.sid))
      BY <2>1, <2>2, <2>3, <2>6 DEF Replaces
    <3>. QED  BY <1>7, <2>2, <2>3, <2>6, <3>1 DEF BestOf
  <2>. QED  BY <2>5, <2>6
<1>11. ASSUME NoneStored(u, p)' PROVE Counts(r.cell, u, p)'
  <2>1. NoneStored(u, p)
    BY <1>4, <1>11 DEF NoneStored, About, IsRead
  <2>2. Counts(r.cell, u, p)
    BY <1>2, <1>4, <1>5, <2>1 DEF ReportSound
  <2>. QED  BY <1>4, <2>2 DEF Counts, LastOf, CountForPenalty, SubsOf
<1>12. BestOf(r.cell, DoneIn(u, p) \cup {r.sid})'
  BY <1>4, <1>9, <1>10 DEF BestOf
<1>13. BestOf(cells[u][p], DoneIn(u, p))'
  BY <1>4, <1>9, <1>10 DEF BestOf
<1>14. Counts(cells[u][p], u, p)' \/ ~ NoneStored(u, p)'
  BY <1>4, <1>11 DEF Counts, LastOf
<1>15. cells'[u][p].valid /\ cells'[u][p].score = sub'[cells'[u][p].sid].score
  BY <1>4, <1>6, <1>10
<1>16. CellSound(u, p)'
  BY <1>13, <1>14, <1>15 DEF CellSound
<1>. QED  BY <1>16 DEF u, p

\* The reports of a sound user stay sound: the penalty one has counted is out of
\* date only while a result for the same cell is on its way, which will count again.
LEMMA ReportLasts ==
  ASSUME RankingTypeOK, RunsInv, ReadInv, RowInv, SoundInv, [RankingNext]_rankingVars,
         NEW x \in reports', Sound(Owner[x.sid])'
  PROVE  ReportSound(x)'
<1> DEFINE u == Owner[x.sid]
           p == Of[x.sid]
<1>0. RankingTypeOK' /\ RunsInv' /\ ReadInv'
  BY StepTypes, StepRuns, StepRead
<1>1. x.sid \in Sids /\ u \in Users /\ p \in Problems /\ x \in Report
  BY <1>0, RankingAssumption DEF RankingTypeOK, Report
<1> HIDE DEF u, p
<1>2. u = Owner[x.sid] /\ p = Of[x.sid]
  BY DEF u, p
<1>3. Sound(u) /\ u \notin spoiled /\ u \notin spoiled' /\ u \notin raced'
  BY <1>0, <1>1, <1>2, SoundBefore DEF Sound, RankingTypeOK
<1>4. \A s \in Sids : Owner[s] = u /\ Arrived(s) => sub'[s] = sub[s]
  BY <1>1, <1>2, SoundBefore
<1>5. ASSUME NEW r \in reports, r.sid = x.sid, r.score = x.score, r.pc # "posted"
      PROVE  sub'[x.sid].score = x.score
  <2>1. ReportSound(r)
    BY <1>2, <1>3, <1>5 DEF SoundInv
  <2>2. Arrived(x.sid)
    BY <1>2, <1>3, <1>5, OpenArrived
  <2>. QED  BY <1>1, <1>2, <1>4, <1>5, <2>1, <2>2 DEF ReportSound
<1>6. x.pc # "posted" => sub'[x.sid].score = x.score
  <2>1. CASE x \in reports
    BY <1>5, <2>1
  <2>2. ASSUME NEW r \in reports, Store(r), x.sid = r.sid, x.score = r.score
        PROVE  sub'[x.sid].score = x.score
    <3>1. sub[r.sid].jid <= runs[r.sid] /\ runs[r.sid] = 1 /\ r.jid = 1
      BY <1>1, <1>2, <1>3, <2>2, OneRun DEF RunsInv
    <3>2. ~ sub[r.sid].jid > r.jid
      BY <1>1, <2>2, <3>1 DEF RankingTypeOK, Submission
    <3>3. sub' = [sub EXCEPT ![r.sid] = [jid |-> r.jid, status |-> r.status, score |-> r.score]]
      BY <2>2, <3>2 DEF Store
    <3>. QED  BY <1>1, <2>2, <3>3 DEF RankingTypeOK
  <2>3. ASSUME NEW r \in reports, ReadRow(r), x.sid = r.sid, x.score = r.score
        PROVE  sub'[x.sid].score = x.score
    BY <1>5, <2>3 DEF ReadRow
  <2>. QED  BY <2>1, <2>2, <2>3, ReportSteps
<1>7. ASSUME IsRead(x), NoneStored(u, p)' PROVE Counts(x.cell, u, p)'
  <2>1. CASE x \in reports
    <3>1. ~ \E r \in reports : ReadRow(r) /\ About(r, u, p)
      <4> SUFFICES ASSUME NEW r \in reports, ReadRow(r), Owner[r.sid] = u PROVE FALSE
        BY DEF About
      <4>1. x \in OpenReports(u) /\ x.pc = "read"
        BY <1>2, <1>7, <2>1 DEF OpenReports, IsRead
      <4>. QED  BY <1>3, <4>1 DEF ReadRow
    <3>2. /\ NoneStored(u, p)
          /\ \A r \in reports : Store(r) /\ Owner[r.sid] = u /\ Of[r.sid] = p => r.sid >= finish
      BY <1>1, <1>3, <1>7, <3>1, StoredBefore
    <3>3. Counts(x.cell, u, p)
      BY <1>2, <1>3, <1>7, <2>1, <3>2 DEF SoundInv, ReportSound
    <3>4. ReadKnown(x) /\ CellKnown(u, p) /\ CellAt(x) = cells[u][p]
      BY <1>1, <1>2, <1>3, <1>7, <2>1 DEF RowInv, CellAt
    <3>5. x.cell \in Cell /\ x.sid \in Int /\ finish \in Int
      BY <1>1, RankingAssumption DEF Report, Sids, RankingTypeOK
    <3>6. finish > x.cell.sid
      BY <3>4 DEF ReadKnown, ReadFrom, SentInTime, CellKnown
    <3>7. LastOf(x.cell) \in Int /\ finish > LastOf(x.cell)
      BY <3>5, <3>6, RankingAssumption DEF LastOf, Cell, Scores
    <3>8. PICK n \in Int : n = LastOf(x.cell)
      BY <3>7
    <3>9. \A r \in reports : Store(r) /\ Owner[r.sid] = u /\ Of[r.sid] = p => r.sid > n
      BY <3>2, <3>5, <3>7, <3>8, ReportPlace DEF Sids
    <3>10. CountForPenalty(u, p, n)' = CountForPenalty(u, p, n)
      BY <1>1, <1>2, <3>9, CountLasts
    <3>. QED  BY <3>3, <3>8, <3>10 DEF Counts, LastOf
  <2>2. ASSUME NEW r \in reports, ReadRow(r), x \notin reports PROVE Counts(x.cell, u, p)'
    <3>1. PICK new \in Cell : reports' = (reports \ {r}) \cup {AfterReading(r, new)}
      BY <2>2, ReadRowShape
    <3>2. x = AfterReading(r, new)
      BY <2>2, <3>1
    <3>3. ReadOf(x, r, new)
      BY <3>1, <3>2, AfterReadingFields
    <3>4. x.cell = WithPenalty(new, u, p) /\ x.cell.score = new.score /\ x.cell.sid = new.sid
      BY <1>2, <3>3 DEF ReadOf
    <3>5. x.cell.penalty = CountForPenalty(u, p, IF new.score > 0 THEN new.sid - 1 ELSE new.sid)
      BY <3>1, <3>4 DEF WithPenalty, Cell
    <3>6. Counts(x.cell, u, p)
      BY <3>4, <3>5 DEF Counts, LastOf
    <3>7. sub' = sub /\ sent' = sent
      BY <2>2 DEF ReadRow, Judged
    <3>. QED  BY <3>6, <3>7 DEF Counts, LastOf, CountForPenalty, SubsOf
  <2>. QED  BY <1>7, <2>1, <2>2, ReportSteps DEF IsRead
<1>. QED  BY <1>2, <1>6, <1>7 DEF ReportSound

\* Every step keeps the cells and the open reports of the sound users sound.
LEMMA StepSound ==
  RankingTypeOK /\ RunsInv /\ ReadInv /\ RowInv /\ SoundInv /\ [RankingNext]_rankingVars
    => SoundInv'
<1> SUFFICES ASSUME RankingTypeOK, RunsInv, ReadInv, RowInv, SoundInv, [RankingNext]_rankingVars
             PROVE  SoundInv'
  OBVIOUS
<1>1. ASSUME NEW u \in Users, Sound(u)', NEW p \in Problems PROVE CellSound(u, p)'
  <2>1. CASE \E r \in reports : WriteRow(r) /\ Owner[r.sid] = u /\ Of[r.sid] = p
    BY <1>1, <2>1, CellWritten
  <2>2. CASE ~ \E r \in reports : WriteRow(r) /\ Owner[r.sid] = u /\ Of[r.sid] = p
    <3>1. cells'[u][p] = cells[u][p]
      <4>1. CASE cells' = cells
        BY <4>1
      <4>2. ASSUME NEW d \in Problems, DropProblem(d) PROVE FALSE
        BY <1>1, <4>2 DEF DropProblem, Trouble, Sound
      <4>3. ASSUME NEW r \in reports, WriteRow(r) PROVE cells'[u][p] = cells[u][p]
        BY <2>2, <4>3, ReportPlace DEF WriteRow, RankingTypeOK
      <4>4. ASSUME NEW r \in reports, ReadRow(r) PROVE cells' = cells
        BY <4>4 DEF ReadRow, Table
      <4>. QED  BY <4>1, <4>2, <4>3, <4>4, QuietSteps
    <3>. QED  BY <1>1, <2>2, <3>1, CellLasts
  <2>. QED  BY <2>1, <2>2
<1>. QED  BY <1>1, VerdictsArrive, ReportLasts DEF SoundInv

\* Nothing of a user settled is under way: the submissions with a verdict are
\* the ones whose report is done, and the row is what they give.
LEMMA SettledSound ==
  ASSUME RankingTypeOK, RunsInv, SoundInv, NEW u \in Users \ spoiled, Settled(u)
  PROVE  /\ Sound(u)
         /\ \A p \in Problems : NoneStored(u, p) /\ NoneRead(u, p)
         /\ \A p \in Problems : Results(u, p) = DoneIn(u, p)
<1>1. \A s \in Sids : Owner[s] = u /\ runs[s] = 1 => s \in 1 .. sent /\ HasVerdict(s)
  BY RankingAssumption DEF RunsInv, Settled, HasVerdict, RankingTypeOK, Sids
<1>2. \A r \in reports : Owner[r.sid] # u
  BY DEF Settled, OpenReports
<1>3. Sound(u)
  BY <1>1 DEF Sound, Arrived
<1>4. ASSUME NEW p \in Problems PROVE Results(u, p) = DoneIn(u, p)
  <2>1. \A s \in Sids : Owner[s] = u /\ HasVerdict(s) => Done(s)
    BY <1>2 DEF SoundInv, Arrived, Done
  <2>2. \A s \in Sids : Owner[s] = u /\ Done(s) => s \in 1 .. sent /\ HasVerdict(s)
    BY <1>1 DEF Done
  <2>3. 1 .. sent \subseteq Sids /\ finish \in Int
    BY RankingAssumption DEF RankingTypeOK, Sids
  <2>4. \A s \in Sids : s \in Int
    BY DEF Sids
  <2>. QED  BY <2>1, <2>2, <2>3, <2>4 DEF Results, DoneIn, SubsOf, HasVerdict
<1>. QED  BY <1>2, <1>3, <1>4 DEF NoneStored, NoneRead, About

\* The cell of a settled user names the best result.
LEMMA SettledBest ==
  ASSUME RankingTypeOK, RunsInv, RowInv, SoundInv, NEW u \in Users \ spoiled, Settled(u),
         NEW p \in Problems, cells[u][p].valid
  PROVE  /\ cells[u][p].sid \in Results(u, p)
         /\ cells[u][p].score = sub[cells[u][p].sid].score
         /\ BestResult(u, p) = {cells[u][p].sid}
<1>1. /\ CellKnown(u, p) /\ CellSound(u, p) /\ Results(u, p) = DoneIn(u, p)
  BY SettledSound DEF RowInv, SoundInv
<1> PICK c \in Cell : c = cells[u][p]
  BY DEF RankingTypeOK
<1>2. c.valid /\ c.sid \in Sids /\ c.sid \in Results(u, p) /\ c.score = sub[c.sid].score
  BY <1>1 DEF CellKnown, CellSound, DoneIn
<1>3. \A t \in Results(u, p) \ {c.sid} :
        sub[c.sid].score > sub[t].score \/ (sub[c.sid].score = sub[t].score /\ c.sid < t)
  BY <1>1, <1>2 DEF CellSound, BestOf
<1>4. \A t \in Results(u, p) : t \in Int /\ sub[t].score \in Int
  BY <1>1, RankingAssumption DEF DoneIn, RankingTypeOK, Submission, Scores, Sids
<1>5. c.sid \in BestResult(u, p)
  BY <1>2, <1>3 DEF BestResult
<1>6. ASSUME NEW s \in BestResult(u, p), s # c.sid PROVE FALSE
  <2>1. s \in Results(u, p)
    BY <1>6 DEF BestResult
  <2>2. sub[s].score > sub[c.sid].score \/ (sub[s].score = sub[c.sid].score /\ s < c.sid)
    BY <1>2, <1>6 DEF BestResult
  <2>. QED  BY <1>2, <1>3, <1>4, <1>6, <2>1, <2>2
<1>. QED  BY <1>2, <1>5, <1>6

\* The penalty counted up to the best result is the one the reference counts.
LEMMA SettledWrongs ==
  ASSUME RankingTypeOK, RunsInv, RowInv, SoundInv, NEW u \in Users \ spoiled, Settled(u),
         NEW p \in Problems, NEW c \in Cell, c.sid \in Results(u, p), c.score = sub[c.sid].score
  PROVE  CountForPenalty(u, p, LastOf(c)) =
           Cardinality({t \in Results(u, p) : sub[t].status = "WA" /\
                          (t < c.sid \/ (t = c.sid /\ sub[c.sid].score = 0))})
<1>1. c.sid < finish /\ c.sid \in Int /\ finish \in Int /\ c.score \in Nat /\ sent \in Int
  BY RankingAssumption DEF Results, SubsOf, RankingTypeOK, Cell, Scores
<1>2. \A t \in SubsOf(u, p) : t \in Int
  BY DEF SubsOf
<1>3. \A t \in SubsOf(u, p) :
        t <= LastOf(c) <=> t < c.sid \/ (t = c.sid /\ sub[c.sid].score = 0)
  BY <1>1, <1>2 DEF LastOf
<1>4. \A t \in SubsOf(u, p) : t <= LastOf(c) => t < finish
  BY <1>1, <1>2, <1>3
<1>5. {t \in SubsOf(u, p) : sub[t].status = "WA" /\ t <= LastOf(c)} =
        {t \in Results(u, p) : sub[t].status = "WA" /\
           (t < c.sid \/ (t = c.sid /\ sub[c.sid].score = 0))}
  BY <1>3, <1>4 DEF Results
<1>. QED  BY <1>5 DEF CountForPenalty

\* The cell of a settled user is the reference's.
LEMMA SettledCell ==
  ASSUME RankingTypeOK, RunsInv, RowInv, SoundInv, NEW u \in Users \ spoiled, Settled(u),
         NEW p \in Problems
  PROVE  cells[u][p] = DerivedCell(u, p)
<1>1. /\ CellKnown(u, p) /\ CellSound(u, p) /\ Results(u, p) = DoneIn(u, p)
      /\ NoneStored(u, p) /\ NoneRead(u, p)
  BY SettledSound DEF RowInv, SoundInv
<1> PICK c \in Cell : c = cells[u][p]
  BY DEF RankingTypeOK
<1>2. CASE ~ c.valid
  <2>1. c = NoCell /\ Results(u, p) = {}
    BY <1>1, <1>2 DEF CellKnown, CellSound
  <2>. QED  BY <2>1 DEF DerivedCell
<1>3. CASE c.valid
  <2>1. c.sid \in Results(u, p) /\ c.score = sub[c.sid].score /\ BestResult(u, p) = {c.sid}
    BY <1>3, SettledBest
  <2>2. (CHOOSE s \in BestResult(u, p) : TRUE) = c.sid
    BY <2>1
  <2>3. c.penalty = Cardinality({t \in Results(u, p) : sub[t].status = "WA" /\
                                   (t < c.sid \/ (t = c.sid /\ sub[c.sid].score = 0))})
    <3>1. Counts(c, u, p)
      BY <1>1, <1>3 DEF CellSound
    <3>. QED  BY <2>1, <3>1, SettledWrongs DEF Counts
  <2>4. c.jid = 1 /\ c.time = c.sid /\ c.sid \in Sids /\ Done(c.sid)
    BY <1>1, <1>3 DEF CellKnown
  <2>5. sub[c.sid].jid = 1
    <3>1. HasVerdict(c.sid)
      BY <2>1 DEF Results, HasVerdict
    <3>2. sub[c.sid].jid >= 1 /\ sub[c.sid].jid <= 1
      BY <2>4, <3>1 DEF RunsInv, Done
    <3>. QED  BY <2>4, <3>2 DEF RankingTypeOK, Submission
  <2>6. c = [valid |-> TRUE, sid |-> c.sid, jid |-> sub[c.sid].jid, time |-> c.sid,
             score |-> sub[c.sid].score, penalty |-> c.penalty]
    BY <1>3, <2>1, <2>4, <2>5 DEF Cell
  <2>. QED  BY <2>1, <2>2, <2>3, <2>6 DEF DerivedCell
<1>. QED  BY <1>2, <1>3

\* And so is the general column, once there is a cell.
LEMMA SettledRow ==
  ASSUME RankingTypeOK, RunsInv, RowInv, SoundInv, NEW u \in Users \ spoiled, Settled(u)
  PROVE  /\ cells[u] = [q \in Problems |-> DerivedCell(u, q)]
         /\ (\E p \in Problems : cells[u][p].valid) =>
              general[u] = GeneralOf([q \in Problems |-> DerivedCell(u, q)])
<1>1. cells[u] \in [Problems -> Cell]
  BY DEF RankingTypeOK
<1>2. cells[u] = [q \in Problems |-> DerivedCell(u, q)]
  BY <1>1, SettledCell
<1>3. GeneralKnown(u)
  BY DEF RowInv
<1>. QED  BY <1>1, <1>2, <1>3 DEF GeneralKnown

\* The invariants imply the property.
LEMMA DerivedByInv ==
  RankingTypeOK /\ RunsInv /\ RowInv /\ SoundInv => TableIsDerived
  BY SettledCell, SettledRow DEF TableIsDerived

\* The five invariants hold together.
LEMMA RankingInvariants ==
  RankingSpec => [](RankingTypeOK /\ RunsInv /\ ReadInv /\ RowInv /\ SoundInv)
<1>1. RankingInit => RankingTypeOK /\ RunsInv /\ ReadInv /\ RowInv /\ SoundInv
  BY InitTypes, InitRuns, InitRead, InitRow, InitSound
<1>2. RankingTypeOK /\ RunsInv /\ ReadInv /\ RowInv /\ SoundInv /\ [RankingNext]_rankingVars
        => (RankingTypeOK /\ RunsInv /\ ReadInv /\ RowInv /\ SoundInv)'
  BY StepTypes, StepRuns, StepRead, StepRow, StepSound
<1>. QED  BY <1>1, <1>2, PTL DEF RankingSpec

\* The row of a user who is settled and not spoiled is what the submissions
\* table gives, for any number of users, problems, submissions and reports handled
\* at the same time.
THEOREM TableAlwaysDerived == RankingSpec => []TableIsDerived
  BY RankingInvariants, DerivedByInv, PTL

-----------------------------------------------------------------------------
\* The rules' totals of a settled user are the totals of the row.
LEMMA RuleTotals ==
  ASSUME RankingTypeOK, NEW u, NEW row \in [Problems -> Cell],
         \A p \in Problems : row[p] = DerivedCell(u, p)
  PROVE  /\ RulePoints(u) = GeneralScore(row) /\ RuleWrong(u) = GeneralPenalty(row)
         /\ RuleTime(u) = GeneralTime(row)
<1>1. RuleSolved(u) = Scored(row)
  <2>1. \A p \in Problems : row[p].score \in Nat
    BY RankingAssumption DEF Cell, Scores
  <2>. QED  BY <2>1 DEF RuleSolved, Scored
<1>2. [p \in Problems |-> DerivedCell(u, p).score] = [p \in Problems |-> row[p].score]
  OBVIOUS
<1>3. [p \in RuleSolved(u) |-> DerivedCell(u, p).penalty] = [p \in Scored(row) |-> row[p].penalty]
  BY <1>1 DEF Scored
<1>4. [p \in RuleSolved(u) |-> DerivedCell(u, p).time] = [p \in Scored(row) |-> row[p].time]
  BY <1>1 DEF Scored
<1>5. {DerivedCell(u, p).time : p \in RuleSolved(u)} = {row[p].time : p \in Scored(row)}
  BY <1>1 DEF Scored
<1>6. RulePoints(u) = GeneralScore(row)
  BY <1>2 DEF RulePoints, GeneralScore
<1>7. RuleWrong(u) = GeneralPenalty(row)
  BY <1>3 DEF RuleWrong, GeneralPenalty
<1>8. RuleTime(u) = GeneralTime(row)
  BY <1>4, <1>5 DEF RuleTime, GeneralTime
<1>. QED  BY <1>6, <1>7, <1>8

\* An empty row totals nothing.
LEMMA EmptyTotals ==
  ASSUME NEW row \in [Problems -> Cell], \A p \in Problems : row[p] = NoCell
  PROVE  GeneralScore(row) = 0 /\ GeneralPenalty(row) = 0 /\ GeneralTime(row) = 0
<1>0. Scored(row) = {} /\ IsFiniteSet({})
  BY FS_EmptySet DEF Scored, NoCell
<1>1. GeneralScore(row) = 0
  <2> DEFINE w == [p \in Problems |-> row[p].score]
  <2>1. IsFiniteSet(DOMAIN w) /\ \A p \in DOMAIN w : w[p] = 0
    BY RankingAssumption DEF NoCell
  <2> HIDE DEF w
  <2>2. SumFunction(w) = 0
    BY <2>1, SumOfZeros
  <2>. QED  BY <2>2 DEF GeneralScore, w
<1>2. \A w : DOMAIN w = {} => SumFunction(w) = 0
  <2> SUFFICES ASSUME NEW w, DOMAIN w = {} PROVE SumFunction(w) = 0
    OBVIOUS
  <2>1. IsFiniteSet(DOMAIN w) /\ \A x \in DOMAIN w : w[x] = 0
    BY <1>0
  <2>. QED  BY <2>1, SumOfZeros
<1>3. GeneralPenalty(row) = 0
  <2>1. DOMAIN [p \in Scored(row) |-> row[p].penalty] = {}
    BY <1>0
  <2>. QED  BY <1>2, <2>1 DEF GeneralPenalty
<1>4. GeneralTime(row) = 0
  <2>1. DOMAIN [p \in Scored(row) |-> row[p].time] = {}
    BY <1>0
  <2>2. SumFunction([p \in Scored(row) |-> row[p].time]) = 0
    BY <1>2, <2>1
  <2>3. Max({0} \cup {row[p].time : p \in Scored(row)}) = 0
    <3>1. {0} \cup {row[p].time : p \in Scored(row)} = {0}
      BY <1>0
    <3>2. Max({0}) = 0
      BY DEF Max
    <3>. QED  BY <3>1, <3>2
  <2>. QED  BY <2>2, <2>3 DEF GeneralTime
<1>. QED  BY <1>1, <1>3, <1>4

\* The general column of a settled user, in the terms of the rules; a user
\* without a result has an empty one, which is the same.
LEMMA SettledGeneral ==
  ASSUME RankingTypeOK, RunsInv, RowInv, SoundInv, NEW u \in Users \ spoiled, Settled(u)
  PROVE  /\ RulePoints(u) \in Nat /\ RuleTime(u) \in Nat /\ RuleWrong(u) \in Nat
         /\ general[u].score = RulePoints(u)
         /\ general[u].value1 = Evaluation1(RuleTime(u), RuleWrong(u))
         /\ general[u].value2 = Evaluation2(RuleTime(u), RuleWrong(u))
<1> PICK row \in [Problems -> Cell] : row = cells[u]
  BY DEF RankingTypeOK
<1>1. \A p \in Problems : row[p] = DerivedCell(u, p)
  BY SettledCell
<1>2. /\ RulePoints(u) = GeneralScore(row) /\ RuleWrong(u) = GeneralPenalty(row)
      /\ RuleTime(u) = GeneralTime(row)
  BY <1>1, RuleTotals
<1>3. GeneralScore(row) \in Nat /\ GeneralTime(row) \in Nat /\ GeneralPenalty(row) \in Nat
  BY GeneralType
<1>4. GeneralKnown(u) /\ \A p \in Problems : CellKnown(u, p)
  BY DEF RowInv
<1>5. /\ general[u].score = GeneralScore(row)
      /\ general[u].value1 = Evaluation1(GeneralTime(row), GeneralPenalty(row))
      /\ general[u].value2 = Evaluation2(GeneralTime(row), GeneralPenalty(row))
  <2>1. CASE \E p \in Problems : row[p].valid
    <3>1. general[u] = GeneralOf(row)
      BY <1>4, <2>1 DEF GeneralKnown
    <3>. QED  BY <3>1 DEF GeneralOf
  <2>2. CASE \A p \in Problems : ~ row[p].valid
    <3>1. general[u] = NoGeneral /\ \A p \in Problems : row[p] = NoCell
      BY <1>4, <2>2 DEF GeneralKnown, CellKnown
    <3>2. GeneralScore(row) = 0 /\ GeneralPenalty(row) = 0 /\ GeneralTime(row) = 0
      BY <3>1, EmptyTotals
    <3>3. \A t, n \in Nat : t <= 0 /\ n <= 0 => Evaluation1(t, n) = 0 /\ Evaluation2(t, n) = 0
      <4> SUFFICES ASSUME NEW t \in Nat, NEW n \in Nat, t <= 0, n <= 0
                   PROVE  Evaluation1(t, n) = 0 /\ Evaluation2(t, n) = 0
        OBVIOUS
      <4>1. -t = 0 /\ -n = 0 /\ -t - n = 0
        OBVIOUS
      <4>2. CASE type = "JOI"
        BY <4>1, <4>2 DEF Evaluation1, Evaluation2
      <4>3. CASE type = "PCK"
        BY <4>1, <4>3 DEF Evaluation1, Evaluation2
      <4>4. CASE type # "JOI" /\ type # "PCK"
        BY <4>1, <4>4 DEF Evaluation1, Evaluation2
      <4>. QED  BY <4>2, <4>3, <4>4
    <3>. QED  BY <1>3, <3>1, <3>2, <3>3 DEF NoGeneral
  <2>. QED  BY <2>1, <2>2
<1>. QED  BY <1>2, <1>3, <1>5

\* With the totals in the rules' terms the two orders are arithmetic, type by type.
LEMMA OrderByInv ==
  ASSUME Penalty = 1
  PROVE  RankingTypeOK /\ RunsInv /\ RowInv /\ SoundInv => OrderFollowsRules
<1> SUFFICES ASSUME RankingTypeOK, RunsInv, RowInv, SoundInv,
                    NEW u \in Users \ spoiled, NEW w \in Users \ spoiled, Settled(u), Settled(w)
             PROVE  Above(u, w) <=> Beats(u, w)
  BY DEF OrderFollowsRules
<1> DEFINE TotalsOf(x, s, t, n) ==
       /\ RulePoints(x) = s /\ RuleTime(x) = t /\ RuleWrong(x) = n
       /\ general[x].score = s /\ general[x].value1 = Evaluation1(t, n)
       /\ general[x].value2 = Evaluation2(t, n)
<1>1. PICK s1 \in Nat, t1 \in Nat, n1 \in Nat : TotalsOf(u, s1, t1, n1)
  BY SettledGeneral
<1>2. PICK s2 \in Nat, t2 \in Nat, n2 \in Nat : TotalsOf(w, s2, t2, n2)
  BY SettledGeneral
<1>3. type \in Types
  BY RankingAssumption DEF RankingTypeOK
<1>4. CASE type = "JOI"
  <2>1. /\ Evaluation1(t1, n1) = -t1 /\ Evaluation1(t2, n2) = -t2
        /\ Evaluation2(t1, n1) = 0 /\ Evaluation2(t2, n2) = 0
    BY <1>4 DEF Evaluation1, Evaluation2
  <2>2. Above(u, w) <=> s1 > s2 \/ (s1 = s2 /\ -t1 > -t2)
    BY <1>1, <1>2, <2>1 DEF Above
  <2>3. Beats(u, w) <=> s1 > s2 \/ (s1 = s2 /\ t1 < t2)
    BY <1>1, <1>2, <1>4 DEF Beats
  <2>. QED  BY <2>2, <2>3
<1>5. CASE type = "PCK"
  <2>1. /\ Evaluation1(t1, n1) = -n1 /\ Evaluation1(t2, n2) = -n2
        /\ Evaluation2(t1, n1) = -t1 /\ Evaluation2(t2, n2) = -t2
    BY <1>5 DEF Evaluation1, Evaluation2
  <2>2. Above(u, w) <=> \/ s1 > s2
                        \/ s1 = s2 /\ -n1 > -n2
                        \/ s1 = s2 /\ -n1 = -n2 /\ -t1 > -t2
    BY <1>1, <1>2, <2>1 DEF Above
  <2>3. Beats(u, w) <=> s1 > s2 \/ (s1 = s2 /\ (n1 < n2 \/ (n1 = n2 /\ t1 < t2)))
    BY <1>1, <1>2, <1>5 DEF Beats
  <2>. QED  BY <2>2, <2>3
<1>6. CASE type # "JOI" /\ type # "PCK"
  <2>1. /\ Evaluation1(t1, n1) = -t1 - n1 /\ Evaluation1(t2, n2) = -t2 - n2
        /\ Evaluation2(t1, n1) = 0 /\ Evaluation2(t2, n2) = 0
    BY <1>6 DEF Evaluation1, Evaluation2
  <2>2. Above(u, w) <=> s1 > s2 \/ (s1 = s2 /\ -t1 - n1 > -t2 - n2)
    BY <1>1, <1>2, <2>1 DEF Above
  <2>3. Beats(u, w) <=> s1 > s2 \/ (s1 = s2 /\ t1 + 1 * n1 < t2 + 1 * n2)
    BY <1>1, <1>2, <1>6 DEF Beats
  <2>. QED  BY <2>2, <2>3
<1>. QED  BY <1>4, <1>5, <1>6

\* When a wrong answer costs a minute, the only price the code knows, the ranking
\* pages list any two settled users in the order of the rules of the contest type.
THEOREM OrderAlwaysFollows ==
  ASSUME Penalty = 1
  PROVE  RankingSpec => []OrderFollowsRules
  BY RankingInvariants, OrderByInv, PTL

-----------------------------------------------------------------------------
\* What the board of a table shows.
EntryOf(c) == IF c.valid THEN {[sid |-> c.sid, score |-> c.score]} ELSE {}
\* The entries of a row, and the board's three variables.
EntriesOf(row) == [p \in Problems |-> EntryOf(row[p])]
NoEntries == [p \in Problems |-> {}]
BoardBest == [u \in Users |-> IF OnBoard(u) THEN EntriesOf(cells[u]) ELSE NoEntries]
BoardTotal == [u \in Users |-> IF OnBoard(u) THEN general[u].score ELSE 0]
BoardVars == <<members \ spoiled, BoardBest, BoardTotal>>

\* The same, as the refinement mapping of Ranking writes it.
BoardEntries ==
  [u \in Users |-> [p \in Problems |->
     IF OnBoard(u) /\ cells[u][p].valid
     THEN {[sid |-> cells[u][p].sid, score |-> cells[u][p].score]} ELSE {}]]

\* The two ways to write the entries are one, before and after a step.
LEMMA BoardBestIs == BoardEntries = BoardBest /\ BoardEntries' = BoardBest'
  BY DEF BoardEntries, BoardBest, EntriesOf, EntryOf, NoEntries

\* The entry a report leaves is the better of the old one and its own.
LEMMA EntryCounted ==
  ASSUME NEW c \in Cell, NEW r \in Report, ReadFrom(c, r)
  PROVE  Board!TopOf(EntryOf(c) \cup {[sid |-> r.sid, score |-> r.score]}) = EntryOf(r.cell)
<1> DEFINE e == [sid |-> r.sid, score |-> r.score]
           f == [sid |-> c.sid, score |-> c.score]
<1>1. r.sid \in Int /\ r.score \in Int /\ c.sid \in Int /\ c.score \in Int /\ c.valid \in BOOLEAN
  <2>1. r.sid \in Int /\ r.score \in Int
    BY RankingAssumption DEF Report, Sids, Scores
  <2>2. c.sid \in Int /\ c.score \in Int /\ c.valid \in BOOLEAN
    BY RankingAssumption DEF Cell, Scores
  <2>. QED  BY <2>1, <2>2
<1>2. e.sid = r.sid /\ e.score = r.score /\ f.sid = c.sid /\ f.score = c.score
  OBVIOUS
<1>3. EntryOf(c) = IF c.valid THEN {f} ELSE {}
  BY DEF EntryOf
<1>4. EntryOf(r.cell) = {[sid |-> r.cell.sid, score |-> r.cell.score]}
  BY DEF ReadFrom, EntryOf
<1>5. Replaces(c, r) => EntryOf(r.cell) = {e}
  BY <1>4 DEF ReadFrom
<1>6. ~ Replaces(c, r) => c.valid /\ EntryOf(r.cell) = {f}
  BY <1>4 DEF ReadFrom
<1>7. c.valid => c.sid # r.sid
  BY DEF ReadFrom
<1>8. \A S : Board!TopOf(S) = {x \in S : \A y \in S \ {x} : Board!Better(x, y)}
  BY DEF Board!TopOf
<1>9. \A x, y : Board!Better(x, y) <=> x.score > y.score \/ (x.score = y.score /\ x.sid < y.sid)
  BY DEF Board!Better
<1>10. Board!Better(e, f) <=> r.score > c.score \/ (r.score = c.score /\ r.sid < c.sid)
  BY <1>2, <1>9
<1>11. Board!Better(f, e) <=> c.score > r.score \/ (c.score = r.score /\ c.sid < r.sid)
  BY <1>2, <1>9
<1>12. c.valid => e # f
  BY <1>2, <1>7
<1> HIDE DEF e, f
<1>13. CASE ~ c.valid
  <2>1. Replaces(c, r) /\ EntryOf(c) = {}
    BY <1>3, <1>13 DEF Replaces
  <2>2. Board!TopOf({e}) = {e}
    BY <1>8
  <2>. QED  BY <1>5, <2>1, <2>2 DEF e
<1>14. CASE c.valid /\ Replaces(c, r)
  <2>1. Board!Better(e, f) /\ ~ Board!Better(f, e)
    BY <1>1, <1>7, <1>10, <1>11, <1>14 DEF Replaces
  <2>2. Board!TopOf({f} \cup {e}) = {e}
    BY <1>8, <1>12, <1>14, <2>1
  <2>. QED  BY <1>3, <1>5, <1>14, <2>2 DEF e
<1>15. CASE c.valid /\ ~ Replaces(c, r)
  <2>1. Board!Better(f, e) /\ ~ Board!Better(e, f)
    BY <1>1, <1>7, <1>10, <1>11, <1>15 DEF Replaces
  <2>2. Board!TopOf({f} \cup {e}) = {f}
    BY <1>8, <1>12, <1>15, <2>1
  <2>. QED  BY <1>3, <1>6, <1>15, <2>2 DEF e
<1>. QED  BY <1>13, <1>14, <1>15

\* The sum of a row's entries is the row's score.
LEMMA EntriesSum ==
  ASSUME NEW row \in [Problems -> Cell], \A p \in Problems : row[p].valid \/ row[p].score = 0
  PROVE  SumFunction([q \in Problems |-> SumFunction([e \in EntriesOf(row)[q] |-> e.score])])
           = GeneralScore(row)
<1>1. ASSUME NEW q \in Problems PROVE SumFunction([e \in EntriesOf(row)[q] |-> e.score]) = row[q].score
  <2>1. row[q].score \in Nat /\ row[q] \in Cell
    BY RankingAssumption DEF Cell, Scores
  <2>2. EntriesOf(row)[q] = EntryOf(row[q])
    BY DEF EntriesOf
  <2>3. CASE row[q].valid
    <3> DEFINE f == [sid |-> row[q].sid, score |-> row[q].score]
    <3>1. EntryOf(row[q]) = {f} /\ f.score = row[q].score
      BY <2>3 DEF EntryOf
    <3> HIDE DEF f
    <3>2. [e \in {f} |-> e.score] = [e \in {f} |-> row[q].score]
      BY <3>1
    <3>3. EntriesOf(row)[q] = {f}
      BY <2>2, <3>1
    <3>4. [e \in EntriesOf(row)[q] |-> e.score] = [e \in {f} |-> row[q].score]
      BY <3>2, <3>3
    <3>5. SumFunction([e \in {f} |-> row[q].score]) = row[q].score
      BY <2>1, SumOfOne
    <3>. QED  BY <3>4, <3>5
  <2>4. CASE ~ row[q].valid
    <3>1. EntryOf(row[q]) = {} /\ row[q].score = 0
      BY <2>4 DEF EntryOf
    <3>2. \A w : DOMAIN w = {} => SumFunction(w) = 0
      <4> SUFFICES ASSUME NEW w, DOMAIN w = {} PROVE SumFunction(w) = 0
        OBVIOUS
      <4>. QED  BY SumOfZeros, FS_EmptySet
    <3>3. DOMAIN [e \in EntriesOf(row)[q] |-> e.score] = {}
      BY <2>2, <3>1
    <3>. QED  BY <3>1, <3>2, <3>3
  <2>. QED  BY <2>3, <2>4
<1>2. [q \in Problems |-> SumFunction([e \in EntriesOf(row)[q] |-> e.score])]
        = [q \in Problems |-> row[q].score]
  BY <1>1
<1>. QED  BY <1>2 DEF GeneralScore

\* The board's sums are the table's.
LEMMA BoardSums == \A w : Board!SumFunction(w) = SumFunction(w)
  BY DEF Board!SumFunction, SumFunction, Board!SumFunctionOnSet, SumFunctionOnSet,
         Board!FoldFunctionOnSet, FoldFunctionOnSet, Board!MapThenFoldSet, MapThenFoldSet

\* A step that leaves the rows of the users who stay clean alone gives the
\* spoiled ones up, or is none.
LEMMA RowsGivenUp ==
  ASSUME RankingTypeOK, [RankingNext]_rankingVars, members' = members, NEW us, us = spoiled',
         \A u \in Users \ us : cells'[u] = cells[u] /\ general'[u] = general[u]
  PROVE  Board!GiveUp(us)
<1>1. spoiled \subseteq spoiled'
  BY Lasting
<1>2. \A u \in Users : OnBoard(u)' <=> OnBoard(u) /\ u \notin us
  BY <1>1 DEF OnBoard
<1>3. (members \ spoiled)' = (members \ spoiled) \ us
  BY <1>1
<1>4. BoardBest' = [u \in Users |-> IF u \in us THEN NoEntries ELSE BoardBest[u]]
  <2>1. ASSUME NEW u \in Users
        PROVE  BoardBest'[u] = IF u \in us THEN NoEntries ELSE BoardBest[u]
    BY <1>2, <2>1 DEF BoardBest, EntriesOf, NoEntries
  <2>. QED  BY <2>1 DEF BoardBest
<1>5. BoardTotal' = [u \in Users |-> IF u \in us THEN 0 ELSE BoardTotal[u]]
  <2>1. ASSUME NEW u \in Users
        PROVE  BoardTotal'[u] = IF u \in us THEN 0 ELSE BoardTotal[u]
    BY <1>2, <2>1 DEF BoardTotal
  <2>. QED  BY <2>1 DEF BoardTotal
<1>. QED  BY <1>3, <1>4, <1>5, BoardBestIs DEF Board!GiveUp, BoardEntries, BoardTotal, NoEntries

\* A user who joins enters the board, unless the user is spoiled.
LEMMA Enters ==
  ASSUME RankingTypeOK, RowInv, NEW u \in Users, Join(u)
  PROVE  Board!Enter(u) \/ UNCHANGED BoardVars
<1>1. /\ u \notin members /\ members' = members \cup {u} /\ spoiled' = spoiled
      /\ cells' = cells /\ general' = general
  BY LateTyped DEF Join
<1>2. \A w \in Users : w # u => (OnBoard(w)' <=> OnBoard(w))
  BY <1>1 DEF OnBoard
<1>3. ~ OnBoard(u)
  BY <1>1 DEF OnBoard
<1>4. CASE u \in spoiled
  <2>1. ~ OnBoard(u)' /\ members' \ spoiled' = members \ spoiled
    BY <1>1, <1>4 DEF OnBoard
  <2>2. BoardBest' = BoardBest /\ BoardTotal' = BoardTotal
    BY <1>1, <1>2, <1>3, <2>1 DEF BoardBest, BoardTotal, EntriesOf, NoEntries
  <2>. QED  BY <2>1, <2>2 DEF BoardVars
<1>5. CASE u \notin spoiled
  <2>1. (\A p \in Problems : ~ cells[u][p].valid) /\ general[u] = NoGeneral
    BY <1>1, <1>5 DEF RowInv, GeneralKnown
  <2>2. EntriesOf(cells[u]) = NoEntries /\ general[u].score = 0
    BY <2>1 DEF EntriesOf, EntryOf, NoEntries, NoGeneral
  <2>3. BoardBest' = BoardBest /\ BoardTotal' = BoardTotal
    BY SMTT(30), <1>1, <1>2, <1>3, <2>2 DEF BoardBest, BoardTotal, EntriesOf, NoEntries
  <2>4. u \notin members \ spoiled /\ (members \ spoiled)' = (members \ spoiled) \cup {u}
    BY <1>1, <1>5
  <2>. QED  BY <2>3, <2>4, BoardBestIs DEF Board!Enter, BoardEntries, BoardTotal
<1>. QED  BY <1>4, <1>5

\* The write of a clean user's report counts its submission.
LEMMA CountsIt ==
  ASSUME RankingTypeOK, RankingTypeOK', ReadInv', RowInv,
         NEW r \in reports, WriteRow(r), Owner[r.sid] \notin spoiled
  PROVE  Board!Count(r.sid, r.score)
<1> DEFINE u == Owner[r.sid]
           p == Of[r.sid]
           e == [sid |-> r.sid, score |-> r.score]
<1>1. r.sid \in Sids /\ u \in Users /\ p \in Problems /\ r \in Report /\ CellAt(r) = cells[u][p]
      /\ CellAt(r) \in Cell /\ r.cell \in Cell
  BY ReportPlace DEF CellAt, Report
<1> HIDE DEF u, p, e
<1>2. u = Owner[r.sid] /\ p = Of[r.sid]
  BY DEF u, p
<1>3. /\ IsRead(r) /\ cells' = [cells EXCEPT ![u][p] = r.cell]
      /\ general' = [general EXCEPT ![u] = r.general]
      /\ members' = members /\ spoiled' = spoiled
  BY <1>2 DEF WriteRow, IsRead, Fine, History
<1>4. ReadKnown(r) /\ u \notin spoiled
  BY <1>2, <1>3 DEF RowInv
<1>5. u \in members /\ OnBoard(u)
  BY <1>2, <1>4 DEF ReadKnown, OnBoard
<1>6. \A w : OnBoard(w)' <=> OnBoard(w)
  BY <1>3 DEF OnBoard
<1>7. Board!TopOf(EntryOf(cells[u][p]) \cup {e}) = EntryOf(r.cell)
  BY <1>1, <1>4, EntryCounted DEF ReadKnown, e
<1> PICK row \in [Problems -> Cell] : row = cells[u]
  BY <1>1 DEF RankingTypeOK
<1> PICK after : after = [row EXCEPT ![p] = r.cell]
  OBVIOUS
<1>8. after \in [Problems -> Cell] /\ cells'[u] = after /\ \A w \in Users : w # u => cells'[w] = cells[w]
  BY <1>1, <1>3 DEF RankingTypeOK
<1>9. [BoardBest[u] EXCEPT ![p] = Board!TopOf(@ \cup {e})] = EntriesOf(after)
  <2>1. BoardBest[u] = EntriesOf(row)
    BY <1>1, <1>5 DEF BoardBest
  <2>2. EntriesOf(row)[p] = EntryOf(row[p])
    BY <1>1 DEF EntriesOf
  <2>3. [EntriesOf(row) EXCEPT ![p] = EntryOf(r.cell)] = EntriesOf(after)
    BY <1>1 DEF EntriesOf
  <2>. QED  BY <1>7, <2>1, <2>2, <2>3
<1>10. BoardBest' = [BoardBest EXCEPT ![u] = EntriesOf(after)]
  <2>1. ASSUME NEW w \in Users, w # u PROVE BoardBest'[w] = BoardBest[w]
    BY <1>6, <1>8, <2>1 DEF BoardBest, EntriesOf
  <2>2. BoardBest'[u] = EntriesOf(after)
    BY <1>1, <1>5, <1>6, <1>8 DEF BoardBest, EntriesOf
  <2>. QED  BY <1>1, <2>1, <2>2 DEF BoardBest
<1>11. BoardTotal' = [BoardTotal EXCEPT ![u] = GeneralScore(after)]
  <2>1. r.general = GeneralOf(after)
    BY <1>2, <1>4, <1>8 DEF ReadKnown
  <2>2. general'[u].score = GeneralScore(after) /\ \A w \in Users : w # u => general'[w] = general[w]
    BY <1>1, <1>3, <2>1 DEF GeneralOf, RankingTypeOK
  <2>. QED  BY <1>1, <1>5, <1>6, <2>2 DEF BoardTotal
<1>12. SumFunction([q \in Problems |-> SumFunction([x \in EntriesOf(after)[q] |-> x.score])])
         = GeneralScore(after)
  <2>1. \A q \in Problems : after[q].valid \/ after[q].score = 0
    BY <1>1, <1>8 DEF ReadInv
  <2>. QED  BY <1>8, <2>1, EntriesSum
<1>13. u \in members \ spoiled /\ (members \ spoiled)' = members \ spoiled
  BY <1>3, <1>4, <1>5
<1>14. EntriesOf(after) =
         [BoardEntries[Owner[r.sid]] EXCEPT ![Of[r.sid]] =
            Board!TopOf(@ \cup {[sid |-> r.sid, score |-> r.score]})]
  BY <1>2, <1>9, BoardBestIs DEF e
<1>15. BoardEntries' = [BoardEntries EXCEPT ![Owner[r.sid]] = EntriesOf(after)]
  BY <1>2, <1>10, BoardBestIs
<1>16. BoardTotal' = [BoardTotal EXCEPT ![Owner[r.sid]] =
         SumFunction([q \in Problems |-> SumFunction([x \in EntriesOf(after)[q] |-> x.score])])]
  BY <1>2, <1>11, <1>12
<1>17. Owner[r.sid] \in members \ spoiled /\ (members \ spoiled)' = members \ spoiled
  BY <1>2, <1>13
<1> HIDE DEF e
<1> DEFINE entries == [BoardEntries[Owner[r.sid]] EXCEPT ![Of[r.sid]] =
                         Board!TopOf(@ \cup {[sid |-> r.sid, score |-> r.score]})]
<1> HIDE DEF entries
<1>18. entries = EntriesOf(after)
  BY <1>14 DEF entries
<1>19. /\ BoardEntries' = [BoardEntries EXCEPT ![Owner[r.sid]] = entries]
       /\ BoardTotal' = [BoardTotal EXCEPT ![Owner[r.sid]] =
            Board!SumFunction([q \in Problems |-> Board!SumFunction([x \in entries[q] |-> x.score])])]
  BY <1>15, <1>16, <1>18, BoardSums
<1>. QED  BY ONLY <1>17, <1>19 DEF Board!Count, BoardEntries, BoardTotal, entries

\* Every step is a step of the board, or none.
LEMMA StepBoard ==
  ASSUME RankingTypeOK, RunsInv, ReadInv, RowInv, [RankingNext]_rankingVars
  PROVE  Board!Next \/ UNCHANGED BoardVars
<1>0. RankingTypeOK' /\ ReadInv' /\ spoiled' \in SUBSET Users
  BY StepTypes, StepRead DEF RankingTypeOK
<1>1. ASSUME members' = members,
             \A u \in Users \ spoiled' : cells'[u] = cells[u] /\ general'[u] = general[u]
      PROVE  Board!Next
  <2>1. PICK us \in SUBSET Users : us = spoiled'
    BY <1>0
  <2>2. Board!GiveUp(us)
    BY <1>1, <2>1, RowsGivenUp
  <2>. QED  BY <2>2 DEF Board!Next
<1>2. ASSUME NEW u \in Users, Join(u) PROVE Board!Next \/ UNCHANGED BoardVars
  BY <1>2, Enters DEF Board!Next
<1>3. ASSUME NEW p \in Problems, DropProblem(p) PROVE Board!Next
  BY <1>1, <1>3 DEF DropProblem, Trouble
<1>4. ASSUME NEW r \in reports, WriteRow(r) PROVE Board!Next
  <2>1. r.sid \in Sids /\ r.score \in Scores /\ Owner[r.sid] \in Users
    BY ReportPlace DEF Report
  <2>2. CASE Owner[r.sid] \notin spoiled
    BY <1>0, <1>4, <2>1, <2>2, CountsIt DEF Board!Next
  <2>3. CASE Owner[r.sid] \in spoiled
    <3>1. /\ members' = members /\ spoiled' = spoiled
          /\ \A u \in Users : u # Owner[r.sid] => cells'[u] = cells[u] /\ general'[u] = general[u]
      BY <1>4, <2>1 DEF WriteRow, Fine, History, RankingTypeOK
    <3>. QED  BY <1>1, <2>3, <3>1
  <2>. QED  BY <2>2, <2>3
<1>5. ASSUME NEW r \in reports, ReadRow(r) PROVE Board!Next
  BY <1>1, <1>5 DEF ReadRow, Table
<1>6. CASE members' = members /\ cells' = cells /\ general' = general
  BY SMTT(30), <1>1, <1>6
<1>7. members' = members \/ \E u \in Users : Join(u)
  BY DEF RankingNext, rankingVars, Submit, AddProblem, DropProblem, Start, CaseReport, Post, Store,
         StopAfterReading, ReadRow, WriteRow, Lose, Table
<1>. QED  BY <1>2, <1>3, <1>4, <1>5, <1>6, <1>7, QuietSteps

\* The table is created empty, as the board is.
LEMMA InitBoard == RankingInit => Board!Init
<1> SUFFICES ASSUME RankingInit PROVE Board!Init
  OBVIOUS
<1>1. /\ members \ spoiled = {} /\ \A u : ~ OnBoard(u)
  BY DEF RankingInit, OnBoard
<1>. QED  BY <1>1 DEF Board!Init

\* The ranking table implements the board: every counted submission is one
\* atomic step of it, although a report takes three and others interleave.
THEOREM TableIsABoard == RankingSpec => IsABoard
<1>1. RankingTypeOK /\ RunsInv /\ ReadInv /\ RowInv /\ [RankingNext]_rankingVars
        => [Board!Next]_<<members \ spoiled, BoardEntries, BoardTotal>>
  BY StepBoard, BoardBestIs DEF BoardVars
<1>. QED  BY <1>1, InitBoard, RankingInvariants, PTL
          DEF RankingSpec, IsABoard, Board!Spec, BoardEntries, BoardTotal
=============================================================================
