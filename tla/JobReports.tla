------------------------------ MODULE JobReports ------------------------------
(***************************************************************************)
(* What one job of ppjudge promises ppjc: which reports it sends and in     *)
(* which order, and when it gives its slot back.  This is the view          *)
(* JudgePipeline takes of a job; JudgeJob shows the goroutines of           *)
(* ppjudge/main.go to keep the promise.                                     *)
(***************************************************************************)
EXTENDS JobSteps, Sequences, FiniteSets

VARIABLES
  job,       \* the job, as JobSteps sees it
  inflight,  \* reports sent and not answered yet
  sent       \* history: every report, in the order of sending

vars == <<job, inflight, sent>>

Init == job = NewState /\ inflight = {} /\ sent = <<>>

Send(r) == /\ inflight' = inflight \cup {r}
           /\ sent' = Append(sent, r)

Silent == UNCHANGED <<inflight, sent>>

Refuse == CanRefuse(job) /\ job' = Refused(job) /\ Send(RefusedReport)

Download == CanDownload(job) /\ job' = Downloaded(job) /\ Silent

DownloadError ==
  CanDownload(job) /\ job' = DownloadFailed(job) /\ Send(DownloadFailedReport)

RunReturns ==
  /\ \E t \in RunResults : CanReturn(job, t) /\ job' = Returned(job, t)
  /\ Silent

ReportCase ==
  \E v \in Statuses : /\ CanReportCase(job, v)
                      /\ job' = CaseReported(job, v)
                      /\ Send(NextCaseReport(job, v))

ReportTotal ==
  \/ MaySendTotal(job) /\ job' = TotalReported(job) /\ Send(TotalReport(job))
  \/ MaySkipTotal(job) /\ job' = TotalSkipped(job) /\ Silent

Release == CanRelease(job) /\ job' = Released(job) /\ Silent

\* ppjc answers r, or the request fails.
Answer(r) ==
  /\ r \in inflight
  /\ inflight' = inflight \ {r}
  /\ job' = Answered(job, r)
  /\ UNCHANGED sent

Next ==
  \/ Refuse \/ Download \/ DownloadError \/ RunReturns \/ ReportCase
  \/ ReportTotal \/ Release
  \/ \E r \in inflight : Answer(r)

Spec == Init /\ [][Next]_vars

-----------------------------------------------------------------------------
TypeOK ==
  /\ job \in JobState
  /\ inflight \subseteq ReportKinds
  /\ sent \in Seq(ReportKinds)

\* How many reports the reporting goroutine had sent before the i-th.
MainBefore(i) == Cardinality({k \in 1 .. i - 1 : sent[k].by = "main"})

\* The reporting goroutine says of each case that it started and then its
\* verdict, case after case, and nothing follows its total.
ReportsInOrder ==
  \A i \in DOMAIN sent : sent[i].by = "main" =>
    \/ /\ sent[i].type = "case"
       /\ sent[i].id = MainBefore(i) \div 2
       /\ (sent[i].status = JG) <=> (MainBefore(i) % 2 = 0)
    \/ /\ sent[i].type = "result"
       /\ \A k \in DOMAIN sent : k > i => sent[k].by # "main"

\* An accepted total comes after an accepted verdict on every case.
AcceptedIsComplete ==
  \A i \in DOMAIN sent :
    sent[i].type = "result" /\ sent[i].status = "AC"
      => \A c \in CaseIds : \E k \in 1 .. i - 1 :
           sent[k] = CaseReport(c, "AC")

\* A job that has failed to download a case never claims a verdict on all.
FailedIsNotJudged ==
  job.dlst = "failed" =>
    \A i \in DOMAIN sent :
      sent[i].by = "main" /\ sent[i].type = "result" => sent[i].status \in {"CE", "IE"}
=============================================================================
