------------------------------ MODULE JobSteps ------------------------------
(***************************************************************************)
(* A job of ppjudge (the goroutine of ppjudge/main.go that judges one       *)
(* dispatched submission, with its downloader, judge.Run and its reporting  *)
(* goroutine), reduced to what ppjc can see of it: the reports it sends,    *)
(* each goroutine waiting for the answer to its own, and the moment it      *)
(* gives its slot back.  The steps are operators on a job record, so that   *)
(* JudgePipeline can run many jobs and JobReports a single one; JudgeJob    *)
(* has the goroutines and channels behind them.                             *)
(*                                                                         *)
(*   dl, dlst   the downloader: cases handed to judge.Run, and whether it   *)
(*              runs, waits for the answer to the internal error it         *)
(*              reports, has failed, or is done                             *)
(*   total      how judge.Run ended: "none" while it runs, "cases" after    *)
(*              the last case, "CE" or "IE" before the first, "early" when  *)
(*              the job was refused and it never started                    *)
(*   rep, worst the reporting goroutine: statuses taken, two for each case  *)
(*              ("started", verdict), and the worst verdict among them      *)
(*   main       whether it runs, waits for an answer, or has ended          *)
(*   released   oneFinish has been called                                   *)
(***************************************************************************)
EXTENDS SubmissionStore

RunResults == {"CE", "IE", "cases"}

JobState ==
  [dl : 0 .. NCases, dlst : {"run", "post", "failed", "done"},
   total : {"none", "early"} \cup RunResults,
   rep : 0 .. 2 * NCases, worst : CaseVerdicts,
   main : {"run", "post", "end"}, released : BOOLEAN]

NewState == [dl |-> 0, dlst |-> IF NCases = 0 THEN "done" ELSE "run",
             total |-> "none", rep |-> 0, worst |-> "AC", main |-> "run",
             released |-> FALSE]

\* All goroutines of the job have returned.
Over(j) == j.main = "end" /\ j.released

\* What a report says; by names the goroutine that waits for the answer.
CaseReport(id, status) ==
  [type |-> "case", by |-> "main", id |-> id, status |-> status]
ResultReport(by, status) ==
  [type |-> "result", by |-> by, id |-> 0, status |-> status]

ReportKinds ==
  [type : {"case"}, by : {"main"}, id : CaseIds, status : {JG} \cup CaseVerdicts]
  \cup
  [type : {"result"}, by : {"main", "dl"}, id : {0}, status : TotalVerdicts]

\* The job is refused before judge.Run: an unsupported problem type or
\* language, or a file that cannot be fetched or read.
CanRefuse(j) == j.total = "none" /\ j.main = "run" /\ j.dl = 0 /\ j.rep = 0
                /\ j.dlst \in {"run", "done"}
Refused(j) == [j EXCEPT !.total = "early", !.dlst = "done", !.main = "post"]
RefusedReport == ResultReport("main", "IE")

\* The downloader hands the next case to judge.Run ...
CanDownload(j) == j.dlst = "run" /\ j.dl < NCases
Downloaded(j) == [j EXCEPT !.dl = @ + 1,
                           !.dlst = IF j.dl + 1 = NCases THEN "done" ELSE @]

\* ... or fails and reports an internal error by itself.
DownloadFailed(j) == [j EXCEPT !.dlst = "post"]
DownloadFailedReport == ResultReport("dl", "IE")

\* judge.Run ends: before the first case (compile error, internal error), or
\* when the channel of cases is closed and drained.
CanReturn(j, t) ==
  /\ j.total = "none"
  /\ t = "cases" => j.dlst \in {"failed", "done"}
  /\ t # "cases" => j.rep = 0
Returned(j, t) == [j EXCEPT !.total = t]

\* Statuses judge.Run has sent or may have sent: two for each case at hand.
RunStatuses(j) == IF j.total \in {"none", "cases"} THEN 2 * j.dl ELSE 0

\* The reporting goroutine reports that a case starts, or its verdict v.
CanReportCase(j, v) ==
  /\ j.main = "run" /\ j.total # "early"
  /\ j.rep < RunStatuses(j)
  /\ v \in IF j.rep % 2 = 0 THEN {JG} ELSE CaseVerdicts
CaseReported(j, v) ==
  [j EXCEPT !.rep = @ + 1, !.main = "post",
            !.worst = IF v = JG THEN @ ELSE Worse(@, v)]

NextCaseReport(j, v) == CaseReport(j.rep \div 2, v)

\* The reporting goroutine has taken every status and gets the total.
CanReportTotal(j) ==
  /\ j.main = "run" /\ j.total \in RunResults
  /\ j.rep = RunStatuses(j)
TotalReport(j) ==
  ResultReport("main", IF j.total = "cases" THEN j.worst ELSE j.total)
TotalReported(j) == [j EXCEPT !.main = "post"]

(***************************************************************************)
(* It keeps the total to itself when the downloader has set                 *)
(* lastResultResponded.  That variable is not synchronised: only the        *)
(* closing of the case channel orders the write before the read, and a run  *)
(* that ended before its first case did not wait for that.                  *)
(***************************************************************************)
MaySkipAnyTotal(j) == CanReportTotal(j)  \* mutant: lastResultResponded is inverted
MaySkipTotal(j) == CanReportTotal(j) /\ j.dlst = "failed"
MaySendTotal(j) == CanReportTotal(j) /\ (j.dlst = "failed" => j.total # "cases")
TotalSkipped(j) == [j EXCEPT !.main = "end"]

\* oneFinish: judge.Run and the downloader have returned; the reporting
\* goroutine may still be at work.
CanRelease(j) ==
  /\ ~j.released
  /\ j.total # "none"
  /\ j.dlst \in {"failed", "done"}
  /\ j.total = "early" => j.main = "end"
ReleasedAgain(j) == j                \* mutant: oneFinish can be called again
Released(j) == [j EXCEPT !.released = TRUE]

\* The goroutine that sent report r goes on, whatever the answer was.
Answered(j, r) ==
  IF r.by = "dl" THEN [j EXCEPT !.dlst = "failed"]
  ELSE [j EXCEPT !.main = IF r.type = "result" THEN "end" ELSE "run"]
=============================================================================
