------------------------------- MODULE JudgeJob -------------------------------
(***************************************************************************)
(* The goroutines of one job in ppjudge/main.go:                            *)
(*                                                                         *)
(*   main        prepares the job, runs judge.Run, waits for the            *)
(*               downloader, unlocks the files, calls oneFinish             *)
(*   downloader  fetches input and output of each case and hands the case   *)
(*               over through casesChan (capacity: all cases)               *)
(*   reporter    takes the statuses judge.Run puts into statusChan          *)
(*               (capacity StatusCap, 10 in the code) and reports them      *)
(*                                                                         *)
(* judge.Run is JudgeSimple.Run or JudgeRunCode.Run; they differ in what    *)
(* runs in the containers, not in what they put into the channel.           *)
(***************************************************************************)
EXTENDS JobSteps, Sequences

CONSTANT StatusCap

ASSUME StatusCapAssumption == StatusCap \in Nat \ {0}

VARIABLES
  main,        \* main goroutine
  dl,          \* downloader: pc, and the case it is at
  handed,      \* cases sent to casesChan
  taken,       \* cases judge.Run has received from it
  casesClosed, \* close(casesChan)
  result,      \* the total judge.Run has sent, or "none"
  statuses,    \* contents of statusChan
  rep,         \* reporter: pc, statuses taken, worst verdict (totalStatus)
  responded,   \* lastResultResponded
  locks,       \* lockers joined into releaser and not unlocked
  inflight,    \* reports sent and not answered
  sent         \* history: every report, in the order of sending

runVars == <<taken, result, statuses>>
dlVars == <<dl, handed, casesClosed, responded>>
vars == <<main, runVars, dlVars, rep, locks, inflight, sent>>

Total == [total : {TRUE}, v : RunResults]
Status == [total : {FALSE}, v : CaseVerdicts \cup {JG}]

TypeOK ==
  /\ main \in {"prep", "refused", "setup", "recv", "begin", "exec", "close",
               "wait", "finish", "end"}
  /\ dl \in [pc : {"off", "input", "output", "send", "post", "mark", "close",
                   "end"},
             i : 0 .. NCases]
  /\ handed \in 0 .. NCases
  /\ taken \in 0 .. handed
  /\ casesClosed \in BOOLEAN
  /\ result \in RunResults \cup {"none"}
  /\ statuses \in Seq(Total \cup Status)
  /\ Len(statuses) <= StatusCap
  /\ rep \in [pc : {"off", "recv", "post", "end"}, n : 0 .. 2 * NCases,
              worst : CaseVerdicts]
  /\ responded \in BOOLEAN
  /\ locks \in 0 .. 2 * NCases
  /\ inflight \subseteq ReportKinds
  /\ sent \in Seq(ReportKinds)

Init ==
  /\ main = "prep"
  /\ dl = [pc |-> "off", i |-> 0]
  /\ handed = 0 /\ taken = 0 /\ casesClosed = FALSE
  /\ result = "none" /\ statuses = <<>>
  /\ rep = [pc |-> "off", n |-> 0, worst |-> "AC"]
  /\ responded = FALSE /\ locks = 0
  /\ inflight = {} /\ sent = <<>>

Send(r) == /\ inflight' = inflight \cup {r}
           /\ sent' = Append(sent, r)
Silent == UNCHANGED <<inflight, sent>>

-----------------------------------------------------------------------------
(* The main goroutine and judge.Run. *)

\* One of the early returns: an internal error is reported, then oneFinish.
Refuse ==
  /\ main = "prep"
  /\ main' = "refused"
  /\ Send(RefusedReport)
  /\ UNCHANGED <<runVars, dlVars, rep, locks>>

\* The goroutines are started and judge.Run is called.
Start ==
  /\ main = "prep"
  /\ main' = "setup"
  /\ dl' = [dl EXCEPT !.pc = "input"]
  /\ rep' = [rep EXCEPT !.pc = "recv"]
  /\ UNCHANGED <<runVars, handed, casesClosed, responded, locks>> /\ Silent

\* ch <- status, which waits while the channel is full.
Put(m) == /\ Len(statuses) < StatusCap
          /\ statuses' = Append(statuses, m)

\* Directories, containers or a compiler fail, or the code does not compile.
RunAborts ==
  /\ main = "setup"
  /\ main' = "close"
  /\ result' \in {"CE", "IE"}
  /\ Put([total |-> TRUE, v |-> result'])
  /\ UNCHANGED <<taken, dlVars, rep, locks>> /\ Silent

RunReady ==
  /\ main = "setup"
  /\ main' = "recv"
  /\ UNCHANGED <<runVars, dlVars, rep, locks>> /\ Silent

\* for tc := range tests
RunTakesCase ==
  /\ main = "recv"
  /\ taken < handed
  /\ taken' = taken + 1
  /\ main' = "begin"
  /\ UNCHANGED <<result, statuses, dlVars, rep, locks>> /\ Silent

RunBeginsCase ==
  /\ main = "begin"
  /\ Put([total |-> FALSE, v |-> JG])
  /\ main' = "exec"
  /\ UNCHANGED <<taken, result, dlVars, rep, locks>> /\ Silent

RunJudgesCase ==
  /\ main = "exec"
  /\ \E v \in CaseVerdicts : Put([total |-> FALSE, v |-> v])
  /\ main' = "recv"
  /\ UNCHANGED <<taken, result, dlVars, rep, locks>> /\ Silent

RunTotals ==
  /\ main = "recv"
  /\ taken = handed /\ casesClosed
  /\ result' = "cases"
  /\ Put([total |-> TRUE, v |-> "cases"])
  /\ main' = "close"
  /\ UNCHANGED <<taken, dlVars, rep, locks>> /\ Silent

\* close(ch), and judge.Run returns to the deferred calls of the job.
RunReturns ==
  /\ main = "close"
  /\ main' = "wait"
  /\ UNCHANGED <<runVars, dlVars, rep, locks>> /\ Silent

\* Mutant of Unlock: no releaserWG.Wait().
UnlockEarly ==
  /\ main = "wait"
  /\ locks' = 0
  /\ main' = "finish"
  /\ UNCHANGED <<runVars, dlVars, rep>> /\ Silent

\* releaserWG.Wait() and releaser().
Unlock ==
  /\ main = "wait"
  /\ dl.pc = "end"
  /\ locks' = 0
  /\ main' = "finish"
  /\ UNCHANGED <<runVars, dlVars, rep>> /\ Silent

\* oneFinish().
Finish ==
  /\ main = "finish"
  /\ main' = "end"
  /\ UNCHANGED <<runVars, dlVars, rep, locks>> /\ Silent

-----------------------------------------------------------------------------
(* The downloader. *)

\* ppd.Download of the input, then of the output.
DownloadFile ==
  /\ \/ dl.pc = "input" /\ dl.i < NCases /\ dl' = [dl EXCEPT !.pc = "output"]
     \/ dl.pc = "output" /\ dl' = [dl EXCEPT !.pc = "send"]
  /\ locks' = locks + 1
  /\ UNCHANGED <<main, runVars, handed, casesClosed, responded, rep>> /\ Silent

DownloadError ==
  /\ \/ dl.pc = "input" /\ dl.i < NCases
     \/ dl.pc = "output"
  /\ dl' = [dl EXCEPT !.pc = "post"]
  /\ Send(DownloadFailedReport)
  /\ UNCHANGED <<main, runVars, handed, casesClosed, responded, rep, locks>>

\* casesChan <- TestCase
HandCase ==
  /\ dl.pc = "send"
  /\ handed' = handed + 1
  /\ dl' = [pc |-> "input", i |-> dl.i + 1]
  /\ UNCHANGED <<main, runVars, casesClosed, responded, rep, locks>> /\ Silent

\* lastResultResponded = true
MarkResponded ==
  /\ dl.pc = "mark"
  /\ responded' = TRUE
  /\ dl' = [dl EXCEPT !.pc = "close"]
  /\ UNCHANGED <<main, runVars, handed, casesClosed, rep, locks>> /\ Silent

\* Mutant of DownloaderReturns: casesChan is closed after the loop only.
DownloaderReturnsOpen ==
  /\ \/ dl.pc = "input" /\ dl.i = NCases /\ casesClosed' = TRUE
     \/ dl.pc = "close" /\ UNCHANGED casesClosed
  /\ dl' = [dl EXCEPT !.pc = "end"]
  /\ UNCHANGED <<main, runVars, handed, responded, rep, locks>> /\ Silent

\* The deferred close(casesChan) and releaserWG.Done().
DownloaderReturns ==
  /\ \/ dl.pc = "input" /\ dl.i = NCases
     \/ dl.pc = "close"
  /\ casesClosed' = TRUE
  /\ dl' = [dl EXCEPT !.pc = "end"]
  /\ UNCHANGED <<main, runVars, handed, responded, rep, locks>> /\ Silent

-----------------------------------------------------------------------------
(* The reporter. *)

TakeStatus == /\ rep.pc = "recv"
              /\ statuses # <<>>
              /\ statuses' = Tail(statuses)

\* A status of a case.  A run that ended well may still be judged wrong: the
\* reporter compares the output.
ReportCase ==
  /\ TakeStatus
  /\ ~Head(statuses).total
  /\ \E v \in IF Head(statuses).v = "AC" THEN CaseVerdicts ELSE {Head(statuses).v} :
       /\ rep' = [pc |-> "post", n |-> rep.n + 1,
                  worst |-> IF v = JG THEN rep.worst ELSE Worse(rep.worst, v)]
       /\ Send(CaseReport(rep.n \div 2, v))
  /\ UNCHANGED <<main, taken, result, dlVars, locks>>

\* Mutant: lastResultResponded is not read.
RespondedIgnored == {FALSE}

\* What the unsynchronised read of lastResultResponded may return: the close
\* of casesChan orders it after the write only if judge.Run drained the channel.
RespondedSeen ==
  IF Head(statuses).v = "cases" THEN {responded} ELSE {responded, FALSE}

\* The total status ends the reporter.
ReportTotal ==
  /\ TakeStatus
  /\ Head(statuses).total
  /\ \E seen \in RespondedSeen :
       \/ /\ seen
          /\ rep' = [rep EXCEPT !.pc = "end"]
          /\ Silent
       \/ /\ ~seen
          /\ rep' = [rep EXCEPT !.pc = "post"]
          /\ Send(ResultReport("main", IF Head(statuses).v = "cases"
                                       THEN rep.worst ELSE Head(statuses).v))
  /\ UNCHANGED <<main, taken, result, dlVars, locks>>

-----------------------------------------------------------------------------
\* ppjc answers r, or the request fails: the goroutine that sent it goes on.
Answer(r) ==
  /\ r \in inflight
  /\ inflight' = inflight \ {r}
  /\ \/ /\ r.by = "dl"
        /\ dl' = [dl EXCEPT !.pc = "mark"]
        /\ UNCHANGED <<main, rep>>
     \/ /\ r.by = "main" /\ main = "refused"
        /\ main' = "finish"
        /\ UNCHANGED <<dl, rep>>
     \/ /\ r.by = "main" /\ main # "refused"
        /\ rep' = [rep EXCEPT !.pc = IF r.type = "result" THEN "end" ELSE "recv"]
        /\ UNCHANGED <<main, dl>>
  /\ UNCHANGED <<runVars, handed, casesClosed, responded, locks, sent>>

Main == \/ Refuse \/ Start \/ RunAborts \/ RunReady \/ RunTakesCase
        \/ RunBeginsCase \/ RunJudgesCase \/ RunTotals \/ RunReturns
        \/ Unlock \/ Finish
Downloader == \/ DownloadFile \/ DownloadError \/ HandCase \/ MarkResponded
              \/ DownloaderReturns
Reporter == ReportCase \/ ReportTotal
Next == Main \/ Downloader \/ Reporter \/ \E r \in inflight : Answer(r)

Spec == Init /\ [][Next]_vars

\* The Go scheduler runs every goroutine that can run, and a request ends.
FairSpec == /\ Spec
            /\ WF_vars(Main) /\ WF_vars(Downloader) /\ WF_vars(Reporter)
            /\ WF_vars(\E r \in inflight : Answer(r))

-----------------------------------------------------------------------------
Ended == main = "end" /\ dl.pc \in {"off", "end"} /\ rep.pc \in {"off", "end"}

\* The job never hangs: no goroutine waits for ever on a full or an empty
\* channel, however slowly reports are answered.
Terminates == <>Ended

\* A slot is given back only after every file lock of the job is.
NoLockLeaks == main = "end" => locks = 0 /\ dl.pc \in {"off", "end"}

(***************************************************************************)
(* The refinement mapping: what ppjc can see of the job.                    *)
(***************************************************************************)
Refusing == main = "refused" \/ (dl.pc = "off" /\ main \in {"finish", "end"})

jobBar ==
  [dl |-> handed,
   dlst |-> CASE Refusing -> "done"
              [] dl.pc = "post" -> "post"
              [] dl.pc \in {"mark", "close"} \/ responded -> "failed"
              [] OTHER -> IF handed = NCases THEN "done" ELSE "run",
   total |-> IF Refusing THEN "early" ELSE result,
   rep |-> rep.n,
   worst |-> rep.worst,
   main |-> CASE main = "refused" -> "post"
              [] Refusing /\ main # "refused" -> "end"
              [] ~Refusing /\ rep.pc \in {"off", "recv"} -> "run"
              [] OTHER -> rep.pc,
   released |-> main = "end"]

Promise == INSTANCE JobReports WITH job <- jobBar

\* What ppjc is told is true: cases are reported in order, an accepted total
\* follows an accepted verdict on every case, and a job that failed to download
\* a case claims no verdict on all of them.
ReportsAreTrue == /\ Promise!ReportsInOrder
                  /\ Promise!AcceptedIsComplete
                  /\ Promise!FailedIsNotJudged

\* Every step of the goroutines is a step JobSteps allows, or none.
KeepsPromise == Promise!Spec
=============================================================================
