--------------------------- MODULE JudgeJobProofs ---------------------------
(***************************************************************************)
(* The goroutines of a job do what JobReports promises of it: the proof     *)
(* that every step of JudgeJob is a step of JobReports or none, for any     *)
(* number of cases and any capacity of the channel of statuses, and that    *)
(* JudgeJob keeps NoLockLeaks and ReportsAreTrue.                            *)
(*                                                                         *)
(* The link between the goroutines is the channel of statuses.  What the     *)
(* reporter has taken and what is still in the channel are together what     *)
(* judge.Run has produced, in the order of the cases (ChannelInv); so the     *)
(* reporter, which only counts, knows which case a status is about.          *)
(*                                                                         *)
(* The second half is about judge.Run itself (JudgeRun): jobs stay in their  *)
(* own places, leave nothing and tell statuses that add up, for any jobs,    *)
(* names, cases and failures.  The deferred calls of a job are the link:     *)
(* while it works they follow from the step it is at (StackInv), and they    *)
(* say which directories, containers and cgroups are the job's (DirsInv,     *)
(* LeftInv, OwnInv).                                                        *)
(***************************************************************************)
EXTENDS JudgeJob, JudgeRun, FiniteSetTheorems, TLAPS

USE NCasesAssumption, StatusCapAssumption DEF NCasesAssumption, StatusCapAssumption

\* The downloader, and what it leaves to the deferred calls of the job.
DownloaderInv ==
  /\ dl.pc = "off" =>
       /\ main \in {"prep", "refused", "finish", "end"}
       /\ rep = [pc |-> "off", n |-> 0, worst |-> "AC"]
       /\ handed = 0 /\ taken = 0 /\ statuses = <<>> /\ result = "none" /\ locks = 0
  /\ dl.pc # "off" => main \notin {"prep", "refused"} /\ rep.pc # "off"
  /\ dl.i = handed
  /\ dl.pc \in {"output", "send", "post", "mark", "close"} => dl.i < NCases
  /\ casesClosed <=> dl.pc = "end"
  /\ responded <=> dl.pc = "close" \/ (dl.pc = "end" /\ handed < NCases)
  /\ dl.pc = "input" => locks <= 2 * dl.i
  /\ dl.pc = "output" => locks <= 2 * dl.i + 1
  /\ dl.pc = "send" => locks <= 2 * dl.i + 2
  /\ main \in {"finish", "end"} => locks = 0 /\ dl.pc \in {"off", "end"}

\* Whoever has sent a report waits for its answer.
WaitingInv ==
  /\ \A r \in inflight : r.by = "dl" => dl.pc = "post"
  /\ \A r \in inflight : r.by = "main" => main = "refused" \/ rep.pc = "post"
  /\ \A r, s \in inflight : r.by = s.by => r = s
  /\ main = "refused" => \A r \in inflight : r.type = "result"

\* The statuses of cases in the channel, and all that were ever put into it.
CasesIn == IF result # "none" /\ statuses # <<>> THEN Len(statuses) - 1 ELSE Len(statuses)
Produced == CASE main = "begin" -> 2 * taken - 2
              [] main = "exec" -> 2 * taken - 1
              [] OTHER -> 2 * taken

\* The total is on its way to the reporter, or has come there.
TotalToCome == result # "none" => statuses # <<>>
TotalTaken == result # "none" /\ statuses = <<>>

ChannelInv ==
  /\ result = "none" <=> \/ main \in {"prep", "refused", "setup", "recv", "begin", "exec"}
                         \/ dl.pc = "off"
  /\ main = "setup" => taken = 0
  /\ main \in {"begin", "exec"} => taken > 0
  /\ result \in {"CE", "IE"} => taken = 0
  /\ result = "cases" => taken = handed /\ casesClosed
  /\ rep.n + CasesIn = Produced
  /\ \A i \in 1 .. Len(statuses) :
       /\ statuses[i].total <=> (result # "none" /\ i = Len(statuses))
       /\ statuses[i].total => statuses[i].v = result
       /\ ~statuses[i].total => ((statuses[i].v = JG) <=> ((rep.n + i) % 2 = 1))
  /\ rep.pc = "recv" => TotalToCome
  /\ rep.pc = "end" => TotalTaken
  /\ \A r \in inflight : rep.pc = "post" /\ r.by = "main" =>
       IF r.type = "result" THEN TotalTaken ELSE TotalToCome

\* What has been reported: which reports are the reporter's, and which of them
\* are totals.
Mains == {k \in 1 .. Len(sent) : sent[k].by = "main"}
MainResults == {k \in Mains : sent[k].type = "result"}

\* The reporter's reports are as many as the statuses it took, none follows a
\* total, and a total that is a verdict on all cases comes after the last of
\* them, from a job that downloaded every one.
SentInv ==
  /\ dl.pc = "off" => sent = IF main = "prep" THEN <<>> ELSE <<RefusedReport>>
  /\ MainResults # {} => \/ dl.pc = "off" \/ rep.pc = "end"
                         \/ \E r \in inflight :
                              rep.pc = "post" /\ r.by = "main" /\ r.type = "result"
  /\ dl.pc # "off" /\ MainResults = {} => Cardinality(Mains) = rep.n
  /\ rep.worst = "AC" =>
       \A c \in CaseIds : 2 * c + 1 < rep.n =>
         \E k \in 1 .. Len(sent) : sent[k] = CaseReport(c, "AC")
  /\ Promise!ReportsInOrder
  /\ Promise!AcceptedIsComplete
  /\ \A k \in MainResults :
       sent[k].status \notin {"CE", "IE"} => dl.pc = "end" /\ ~responded

-----------------------------------------------------------------------------
\* A report that is sent is the last one.
LEMMA SendType ==
  ASSUME TypeOK, NEW r \in ReportKinds, Send(r)
  PROVE  /\ inflight' \subseteq ReportKinds /\ sent' \in Seq(ReportKinds)
         /\ Len(sent') = Len(sent) + 1 /\ sent'[Len(sent) + 1] = r
         /\ \A i \in 1 .. Len(sent) : sent'[i] = sent[i]
  BY DEF TypeOK, Send

\* What goes into the channel is a status, and it stays a sequence of statuses.
LEMMA PutType ==
  ASSUME TypeOK, NEW m \in Total \cup Status, Put(m)
  PROVE  /\ statuses' \in Seq(Total \cup Status)
         /\ Len(statuses') <= StatusCap
         /\ Len(statuses') = Len(statuses) + 1
         /\ \A i \in 1 .. Len(statuses) : statuses'[i] = statuses[i]
         /\ statuses'[Len(statuses) + 1] = m
  BY DEF TypeOK, Put

\* What is taken out of it is the first of them.
LEMMA TakeType ==
  ASSUME TypeOK, TakeStatus
  PROVE  /\ Head(statuses) \in Total \cup Status /\ Head(statuses) = statuses[1]
         /\ statuses' \in Seq(Total \cup Status)
         /\ Len(statuses) > 0 /\ Len(statuses') = Len(statuses) - 1
         /\ \A i \in 1 .. Len(statuses') : statuses'[i] = statuses[i + 1]
  BY DEF TypeOK, TakeStatus

\* The status of a case that the reporter takes is the next one it expects, and
\* it is about a case of the problem.
LEMMA TakenIsNext ==
  ASSUME TypeOK, ChannelInv, TakeStatus, ~Head(statuses).total
  PROVE  /\ result \notin {"CE", "IE"}
         /\ rep.n < 2 * taken /\ rep.n < 2 * NCases
         /\ Head(statuses) \in Status
         /\ (Head(statuses).v = JG) <=> (rep.n % 2 = 0)
<1>1. /\ Len(statuses) > 0 /\ Head(statuses) = statuses[1] /\ 1 \in 1 .. Len(statuses)
      /\ Head(statuses) \in Status
  <2>1. Head(statuses) \in Total \cup Status
    BY TakeType
  <2>2. Head(statuses) \notin Total
    BY DEF Total
  <2>. QED  BY <2>1, <2>2, TakeType DEF TypeOK
<1>2. CasesIn > 0
  BY <1>1 DEF ChannelInv, CasesIn, TypeOK
<1>3. Produced <= 2 * taken /\ Produced \in Int /\ rep.n + CasesIn = Produced /\ CasesIn \in Int
  BY SMTT(30) DEF Produced, ChannelInv, TypeOK, CasesIn
<1>4. taken \in Nat /\ taken <= NCases /\ rep.n \in Nat
  BY DEF TypeOK
<1>5. rep.n < 2 * taken /\ rep.n < 2 * NCases
  BY <1>2, <1>3, <1>4
<1>6. (statuses[1].v = JG) <=> ((rep.n + 1) % 2 = 1)
  BY <1>1 DEF ChannelInv
<1>7. ((rep.n + 1) % 2 = 1) <=> (rep.n % 2 = 0)
  BY <1>4
<1>8. result \notin {"CE", "IE"}
  BY <1>4, <1>5 DEF ChannelInv
<1>. QED  BY <1>1, <1>5, <1>6, <1>7, <1>8

\* The total comes when every status before it has been taken; if it is that of
\* all cases, the downloader has ended.
LEMMA TotalIsDue ==
  ASSUME TypeOK, DownloaderInv, ChannelInv, TakeStatus, Head(statuses).total
  PROVE  /\ Head(statuses).v = result /\ result \in RunResults
         /\ result = "cases" => /\ rep.n = 2 * handed
                                /\ dl.pc = "end" /\ (handed = NCases \/ responded)
         /\ result # "cases" => rep.n = 0
<1>. USE DEF TypeOK
<1>1. Len(statuses) > 0 /\ Head(statuses) = statuses[1] /\ 1 \in 1 .. Len(statuses)
  BY TakeType
<1>2. Len(statuses) = 1 /\ result # "none" /\ Head(statuses).v = result
  BY <1>1 DEF ChannelInv
<1>3. CasesIn = 0
  <2>1. statuses # <<>>
    BY <1>1
  <2>. QED  BY <1>2, <2>1 DEF CasesIn
<1>4. result = "cases" => /\ main \notin {"begin", "exec"} /\ taken = handed
                          /\ dl.pc = "end" /\ dl.i = handed
                          /\ (handed = NCases \/ responded)
  BY <1>2 DEF ChannelInv, DownloaderInv
<1>5. result # "cases" => taken = 0 /\ main \notin {"begin", "exec"}
  BY <1>2 DEF ChannelInv, RunResults
<1>6. Produced = 2 * taken
  BY <1>4, <1>5 DEF Produced
<1>7. rep.n + CasesIn = Produced
  BY DEF ChannelInv
<1>8. /\ result = "cases" => rep.n = 2 * handed
      /\ result # "cases" => rep.n = 0
  BY <1>3, <1>4, <1>5, <1>6, <1>7, SMTT(30)
<1>. QED  BY <1>2, <1>4, <1>8

\* The variables stay within their ranges.
LEMMA TypeStep ==
  ASSUME TypeOK, DownloaderInv, ChannelInv, Next
  PROVE  TypeOK'
<1>. USE DEF TypeOK, runVars, dlVars, Silent
<1>1. CASE Refuse
  BY <1>1 DEF Refuse, Send, RefusedReport, ResultReport, ReportKinds, TotalVerdicts
<1>2. CASE Start \/ RunReady \/ RunTakesCase \/ RunReturns \/ Unlock \/ Finish
  BY <1>2 DEF Start, RunReady, RunTakesCase, RunReturns, Unlock, Finish
<1>3. CASE RunAborts \/ RunTotals
  <2>1. /\ result' \in RunResults /\ [total |-> TRUE, v |-> result'] \in Total \cup Status
        /\ Put([total |-> TRUE, v |-> result'])
    BY <1>3 DEF RunAborts, RunTotals, RunResults, Total
  <2>. QED  BY <1>3, <2>1, PutType DEF RunAborts, RunTotals
<1>4. CASE RunBeginsCase \/ RunJudgesCase
  <2>1. PICK m \in Total \cup Status : Put(m)
    BY <1>4 DEF RunBeginsCase, RunJudgesCase, Status
  <2>. QED  BY <1>4, <2>1, PutType DEF RunBeginsCase, RunJudgesCase
<1>5. CASE DownloadFile
  BY <1>5, SMTT(30) DEF DownloadFile, DownloaderInv
<1>6. CASE DownloadError
  BY <1>6, SMTT(30) DEF DownloadError, Send, DownloadFailedReport, ResultReport, ReportKinds, TotalVerdicts
<1>7. CASE HandCase
  BY <1>7 DEF HandCase, DownloaderInv
<1>8. CASE MarkResponded \/ DownloaderReturns
  BY <1>8 DEF MarkResponded, DownloaderReturns
<1>9. CASE ReportCase
  <2>1. statuses' \in Seq(Total \cup Status) /\ Len(statuses') <= StatusCap
    BY <1>9, TakeType DEF ReportCase
  <2>0. TakeStatus /\ ~Head(statuses).total
    BY <1>9 DEF ReportCase
  <2>2. rep.n < 2 * NCases /\ Head(statuses).v \in CaseVerdicts \cup {JG}
    BY <2>0, TakenIsNext DEF Status
  <2>3. PICK v \in CaseVerdicts \cup {JG} :
          /\ rep' = [pc |-> "post", n |-> rep.n + 1,
                     worst |-> IF v = JG THEN rep.worst ELSE Worse(rep.worst, v)]
          /\ Send(CaseReport(rep.n \div 2, v))
    BY <1>9, <2>2 DEF ReportCase
  <2>4. CaseReport(rep.n \div 2, v) \in ReportKinds
    BY <2>2 DEF CaseReport, ReportKinds, CaseIds
  <2>5. rep'.worst \in CaseVerdicts
    BY <2>3 DEF Worse, CaseVerdicts
  <2>. QED  BY <1>9, <2>1, <2>2, <2>3, <2>4, <2>5, SMTT(30) DEF ReportCase, Send
<1>10. CASE ReportTotal
  <2>1. statuses' \in Seq(Total \cup Status) /\ Len(statuses') <= StatusCap
    BY <1>10, TakeType DEF ReportTotal
  <2>2. Head(statuses).v \in RunResults
    BY <1>10, TakeType DEF ReportTotal, Total, Status
  <2>3. ResultReport("main", IF Head(statuses).v = "cases" THEN rep.worst ELSE Head(statuses).v) \in ReportKinds
    BY <2>2 DEF ResultReport, ReportKinds, RunResults, CaseVerdicts, TotalVerdicts
  <2>4. rep' = [rep EXCEPT !.pc = "end"] \/ rep' = [rep EXCEPT !.pc = "post"]
    BY <1>10 DEF ReportTotal
  <2>5. inflight' \subseteq ReportKinds /\ sent' \in Seq(ReportKinds)
    <3>1. Silent \/ \E r \in ReportKinds : Send(r)
      BY <1>10, <2>3, Zenon DEF ReportTotal
    <3>. QED  BY <3>1, SendType
  <2>6. UNCHANGED <<main, taken, result, dlVars, locks>>
    BY <1>10 DEF ReportTotal
  <2>. QED  BY <2>1, <2>4, <2>5, <2>6
<1>11. ASSUME NEW r \in inflight, Answer(r)
       PROVE  TypeOK'
  BY <1>11 DEF Answer
<1>. QED  BY <1>1, <1>2, <1>3, <1>4, <1>5, <1>6, <1>7, <1>8, <1>9, <1>10, <1>11
          DEF Next, Main, Downloader, Reporter

\* Every step leaves the downloader and the deferred calls as DownloaderInv has them.
LEMMA DownloaderStep ==
  ASSUME TypeOK, DownloaderInv, WaitingInv, ChannelInv, Next
  PROVE  DownloaderInv'
<1>. USE DEF TypeOK, runVars, dlVars, Silent, DownloaderInv
<1>1. CASE Refuse
  BY <1>1 DEF Refuse, Send
<1>2. CASE Start \/ RunReady \/ RunTakesCase \/ RunReturns \/ Unlock \/ Finish
  BY <1>2 DEF Start, RunReady, RunTakesCase, RunReturns, Unlock, Finish
<1>3. CASE RunAborts \/ RunTotals
  BY <1>3 DEF RunAborts, RunTotals
<1>4. CASE RunBeginsCase \/ RunJudgesCase
  BY <1>4 DEF RunBeginsCase, RunJudgesCase
<1>5. CASE DownloadFile
  BY <1>5, SMTT(30) DEF DownloadFile
<1>6. CASE DownloadError
  BY <1>6 DEF DownloadError, Send
<1>7. CASE HandCase
  BY <1>7 DEF HandCase
<1>8. CASE MarkResponded \/ DownloaderReturns
  BY <1>8 DEF MarkResponded, DownloaderReturns
<1>9. CASE ReportCase
  BY <1>9 DEF ReportCase, TakeStatus, Send
<1>10. CASE ReportTotal
  BY <1>10 DEF ReportTotal, TakeStatus, Send
<1>11. ASSUME NEW r \in inflight, Answer(r)
       PROVE  DownloaderInv'
  BY <1>11 DEF Answer, WaitingInv
<1>. QED  BY <1>1, <1>2, <1>3, <1>4, <1>5, <1>6, <1>7, <1>8, <1>9, <1>10, <1>11
          DEF Next, Main, Downloader, Reporter

\* A goroutine that waits is left alone until the answer comes.
LEMMA WaitingStep ==
  ASSUME TypeOK, DownloaderInv, WaitingInv, Next
  PROVE  WaitingInv'
<1>. USE DEF TypeOK, runVars, dlVars, Silent, WaitingInv
<1>0. main = "prep" => inflight = {}
  BY DEF DownloaderInv, ReportKinds
<1>1. CASE Refuse
  BY <1>0, <1>1 DEF Refuse, Send, RefusedReport, ResultReport
<1>12. CASE Start
  BY <1>0, <1>12 DEF Start
<1>2. CASE RunReady \/ RunTakesCase \/ RunReturns \/ Unlock \/ Finish
  BY <1>2 DEF RunReady, RunTakesCase, RunReturns, Unlock, Finish
<1>3. CASE RunAborts \/ RunTotals
  BY <1>3 DEF RunAborts, RunTotals
<1>4. CASE RunBeginsCase \/ RunJudgesCase
  BY <1>4 DEF RunBeginsCase, RunJudgesCase
<1>5. CASE DownloadFile
  BY <1>5 DEF DownloadFile
<1>6. CASE DownloadError
  BY <1>6 DEF DownloadError, Send, DownloadFailedReport, ResultReport, DownloaderInv
<1>7. CASE HandCase
  BY <1>7 DEF HandCase
<1>8. CASE MarkResponded \/ DownloaderReturns
  BY <1>8 DEF MarkResponded, DownloaderReturns
<1>9. CASE ReportCase
  BY <1>9 DEF ReportCase, TakeStatus, Send, CaseReport, DownloaderInv
<1>10. CASE ReportTotal
  <2>1. /\ UNCHANGED <<main, dl>> /\ dl.pc # "off" /\ rep.pc = "recv"
        /\ rep'.pc = "post" \/ inflight' = inflight
    BY <1>10 DEF ReportTotal, TakeStatus, DownloaderInv
  <2>2. inflight' = inflight \/ \E r : r.by = "main" /\ r.type = "result" /\ inflight' = inflight \cup {r}
    BY <1>10 DEF ReportTotal, Send, ResultReport
  <2>3. main # "refused" /\ \A r \in inflight : r.by # "main"
    BY <2>1 DEF DownloaderInv
  <2>. QED  BY <2>1, <2>2, <2>3
<1>11. ASSUME NEW r \in inflight, Answer(r)
       PROVE  WaitingInv'
  BY <1>11 DEF Answer
<1>. QED  BY <1>1, <1>2, <1>3, <1>4, <1>5, <1>6, <1>7, <1>8, <1>9, <1>10, <1>11, <1>12
          DEF Next, Main, Downloader, Reporter

-----------------------------------------------------------------------------
(* The channel of statuses. *)

\* judge.Run puts the status it is up to.
LEMMA PutKeepsChannel ==
  ASSUME TypeOK, DownloaderInv, ChannelInv,
         RunAborts \/ RunTotals \/ RunBeginsCase \/ RunJudgesCase
  PROVE  ChannelInv'
<1>. USE DEF TypeOK, runVars, dlVars, Silent
<1>1. main \in {"setup", "recv", "begin", "exec"} /\ dl.pc # "off" /\ result = "none"
  BY DEF RunAborts, RunTotals, RunBeginsCase, RunJudgesCase, DownloaderInv, ChannelInv
<1>2. UNCHANGED <<rep, taken, inflight, dl, handed, casesClosed>>
  BY DEF RunAborts, RunTotals, RunBeginsCase, RunJudgesCase
<1>3. /\ taken \in Nat /\ rep.n \in Nat /\ Len(statuses) \in Nat
      /\ CasesIn = Len(statuses) /\ rep.n + Len(statuses) = Produced
  BY <1>1 DEF CasesIn, ChannelInv
<1>4. \A i \in 1 .. Len(statuses) : /\ ~statuses[i].total
                                    /\ (statuses[i].v = JG) <=> ((rep.n + i) % 2 = 1)
  BY <1>1 DEF ChannelInv
<1>5. rep.pc # "end" /\ \A r \in inflight : rep.pc = "post" /\ r.by = "main" => r.type # "result"
  BY <1>1 DEF ChannelInv, TotalTaken
<1>6. CASE RunAborts \/ RunTotals
  <2>1. /\ result' \in RunResults /\ [total |-> TRUE, v |-> result'] \in Total \cup Status
        /\ Put([total |-> TRUE, v |-> result']) /\ main' = "close"
    BY <1>6 DEF RunAborts, RunTotals, RunResults, Total
  <2>2. /\ Len(statuses') = Len(statuses) + 1 /\ statuses' # <<>>
        /\ \A i \in 1 .. Len(statuses) : statuses'[i] = statuses[i]
        /\ statuses'[Len(statuses) + 1] = [total |-> TRUE, v |-> result']
    BY <2>1, PutType
  <2>3. result' # "none"
    BY <2>1 DEF RunResults
  <2>4. Produced = 2 * taken /\ Produced' = 2 * taken
    BY <1>2, <1>6, <2>1 DEF Produced, RunAborts, RunTotals
  <2>5. (rep.n + CasesIn = Produced)'
    BY <1>2, <1>3, <2>2, <2>3, <2>4 DEF CasesIn
  <2>6. /\ result' \in {"CE", "IE"} => taken = 0
        /\ result' = "cases" => taken = handed /\ casesClosed
    BY <1>6 DEF RunAborts, RunTotals, ChannelInv
  <2>7. ASSUME NEW i \in 1 .. Len(statuses')
        PROVE  /\ statuses'[i].total <=> i = Len(statuses')
               /\ statuses'[i].total => statuses'[i].v = result'
               /\ ~statuses'[i].total => ((statuses'[i].v = JG) <=> ((rep.n + i) % 2 = 1))
    <3>1. CASE i = Len(statuses')
      BY <1>3, <2>2, <3>1
    <3>2. CASE i # Len(statuses')
      <4>1. i \in 1 .. Len(statuses)
        BY <1>3, <2>2, <3>2
      <4>. QED  BY <1>4, <2>2, <3>2, <4>1
    <3>. QED  BY <3>1, <3>2
  <2>. QED  BY <1>1, <1>2, <1>5, <2>1, <2>2, <2>3, <2>5, <2>6, <2>7 DEF ChannelInv, TotalToCome, TotalTaken
<1>7. CASE RunBeginsCase \/ RunJudgesCase
  <2>1. PICK v \in CaseVerdicts \cup {JG} :
          /\ Put([total |-> FALSE, v |-> v])
          /\ (v = JG) <=> (main = "begin")
    BY <1>7 DEF RunBeginsCase, RunJudgesCase, CaseVerdicts, JG
  <2>2. /\ Len(statuses') = Len(statuses) + 1 /\ statuses' # <<>>
        /\ \A i \in 1 .. Len(statuses) : statuses'[i] = statuses[i]
        /\ statuses'[Len(statuses) + 1] = [total |-> FALSE, v |-> v]
    <3>1. [total |-> FALSE, v |-> v] \in Total \cup Status
      BY DEF Status
    <3>. QED  BY <2>1, <3>1, PutType
  <2>3. result' = "none"
    BY <1>1, <1>7 DEF RunBeginsCase, RunJudgesCase
  <2>4. /\ main = "begin" => Produced = 2 * taken - 2 /\ Produced' = 2 * taken - 1 /\ main' = "exec"
        /\ main # "begin" => Produced = 2 * taken - 1 /\ Produced' = 2 * taken /\ main' = "recv"
        /\ taken > 0
    BY <1>2, <1>7 DEF Produced, RunBeginsCase, RunJudgesCase, ChannelInv
  <2>5. (rep.n + CasesIn = Produced)'
    <3>1. CasesIn' = Len(statuses) + 1
      BY <2>2, <2>3 DEF CasesIn
    <3>2. Produced' = Produced + 1
      BY <1>3, <2>4
    <3>3. Produced \in Int
      BY <1>3, <2>4
    <3>4. rep'.n = rep.n
      BY <1>2
    <3>5. rep.n + (Len(statuses) + 1) = Produced + 1
      BY <1>3, <3>3
    <3>. QED  BY <3>1, <3>2, <3>4, <3>5
  <2>6. (v = JG) <=> ((rep.n + (Len(statuses) + 1)) % 2 = 1)
    <3>1. CASE main = "begin"
      <4>1. rep.n + (Len(statuses) + 1) = 2 * taken - 1
        BY <1>3, <2>4, <3>1
      <4>2. (2 * taken - 1) % 2 = 1
        BY <1>3
      <4>. QED  BY <2>1, <3>1, <4>1, <4>2
    <3>2. CASE main # "begin"
      <4>1. rep.n + (Len(statuses) + 1) = 2 * taken
        BY <1>3, <2>4, <3>2
      <4>2. (2 * taken) % 2 = 0
        BY <1>3
      <4>. QED  BY <2>1, <3>2, <4>1, <4>2
    <3>. QED  BY <3>1, <3>2
  <2>7. ASSUME NEW i \in 1 .. Len(statuses')
        PROVE  /\ ~statuses'[i].total
               /\ (statuses'[i].v = JG) <=> ((rep.n + i) % 2 = 1)
    <3>1. CASE i = Len(statuses')
      BY <1>3, <2>2, <2>6, <3>1
    <3>2. CASE i # Len(statuses')
      <4>1. i \in 1 .. Len(statuses)
        BY <1>3, <2>2, <3>2
      <4>. QED  BY <1>4, <2>2, <4>1
    <3>. QED  BY <3>1, <3>2
  <2>. QED  BY <1>1, <1>2, <1>5, <2>2, <2>3, <2>4, <2>5, <2>7 DEF ChannelInv, TotalToCome, TotalTaken
<1>. QED  BY <1>6, <1>7

\* The reporter takes one.
LEMMA TakeKeepsChannel ==
  ASSUME TypeOK, DownloaderInv, WaitingInv, ChannelInv, ReportCase \/ ReportTotal
  PROVE  ChannelInv'
<1>. USE DEF TypeOK, runVars, dlVars, Silent
<1>1. TakeStatus /\ UNCHANGED <<main, taken, result, dl, handed, casesClosed, responded>>
  BY DEF ReportCase, ReportTotal
<1>2. /\ rep.pc = "recv" /\ dl.pc # "off" /\ main \notin {"prep", "refused"}
      /\ \A r \in inflight : r.by # "main"
  BY <1>1 DEF TakeStatus, DownloaderInv, WaitingInv
<1>3. /\ Len(statuses) > 0 /\ Len(statuses') = Len(statuses) - 1 /\ Len(statuses) \in Nat
      /\ Head(statuses) = statuses[1]
      /\ \A i \in 1 .. Len(statuses') : statuses'[i] = statuses[i + 1]
  BY <1>1, TakeType
<1>4. Produced' = Produced
  BY <1>1 DEF Produced
<1>5. \A i \in 1 .. Len(statuses) :
        /\ statuses[i].total <=> (result # "none" /\ i = Len(statuses))
        /\ statuses[i].total => statuses[i].v = result
        /\ ~statuses[i].total => ((statuses[i].v = JG) <=> ((rep.n + i) % 2 = 1))
  BY DEF ChannelInv
<1>6. CASE ReportCase
  <2>1. ~Head(statuses).total
    BY <1>6 DEF ReportCase
  <2>0. PICK v : /\ rep' = [pc |-> "post", n |-> rep.n + 1,
                           worst |-> IF v = JG THEN rep.worst ELSE Worse(rep.worst, v)]
                 /\ inflight' = inflight \cup {CaseReport(rep.n \div 2, v)}
    BY <1>6 DEF ReportCase, Send
  <2>2. /\ rep'.n = rep.n + 1 /\ rep'.pc = "post"
        /\ CaseReport(rep.n \div 2, v).type = "case"
    BY <2>0 DEF CaseReport
  <2>3. result # "none" => Len(statuses) > 1
    BY <1>3, <1>5, <2>1
  <2>4. (rep.n + CasesIn = Produced)'
    <3>1. CasesIn \in Int /\ CasesIn' = CasesIn - 1
      BY <1>1, <1>3, <2>3 DEF CasesIn
    <3>2. rep.n \in Int /\ rep.n + CasesIn = Produced
      BY DEF ChannelInv
    <3>. QED  BY <1>4, <2>2, <3>1, <3>2
  <2>5. ASSUME NEW i \in 1 .. Len(statuses')
        PROVE  /\ statuses'[i].total <=> (result # "none" /\ i = Len(statuses'))
               /\ statuses'[i].total => statuses'[i].v = result
               /\ ~statuses'[i].total => ((statuses'[i].v = JG) <=> ((rep'.n + i) % 2 = 1))
    <3>0. rep.n \in Nat /\ i \in Nat
      BY <1>3
    <3>1. i + 1 \in 1 .. Len(statuses) /\ rep'.n + i = rep.n + (i + 1)
      BY <1>3, <2>2, <3>0
    <3>2. statuses'[i] = statuses[i + 1]
      BY <1>3
    <3>3. i + 1 = Len(statuses) <=> i = Len(statuses')
      BY <1>3
    <3>. QED  BY <1>5, <3>1, <3>2, <3>3
  <2>6. TotalToCome'
    BY <1>1, <1>3, <2>3 DEF TotalToCome
  <2>. QED  BY <1>1, <1>2, <2>0, <2>2, <2>4, <2>5, <2>6 DEF ChannelInv
<1>7. CASE ReportTotal
  <2>1. result # "none" /\ Len(statuses) = 1
    BY <1>3, <1>5, <1>7 DEF ReportTotal
  <2>2. /\ rep'.n = rep.n
        /\ \/ rep'.pc = "end" /\ inflight' = inflight
           \/ /\ rep'.pc = "post"
              /\ \E r : r.type = "result" /\ inflight' = inflight \cup {r}
    BY <1>7 DEF ReportTotal, Send, ResultReport
  <2>3. Len(statuses') = 0 /\ statuses' = <<>>
    BY <1>1, <1>3, <2>1, TakeType
  <2>4. (rep.n + CasesIn = Produced)'
    <3>1. CasesIn = 0 /\ CasesIn' = 0
      BY <1>1, <1>3, <2>1, <2>3 DEF CasesIn
    <3>2. rep.n \in Int /\ rep.n + CasesIn = Produced
      BY DEF ChannelInv
    <3>. QED  BY <1>4, <2>2, <3>1, <3>2
  <2>. QED  BY <1>1, <1>2, <2>1, <2>2, <2>3, <2>4 DEF ChannelInv, TotalTaken
<1>. QED  BY <1>6, <1>7

\* The statuses taken and those in the channel stay what judge.Run has produced.
LEMMA ChannelStep ==
  ASSUME TypeOK, DownloaderInv, WaitingInv, ChannelInv, Next
  PROVE  ChannelInv'
<1>. USE DEF TypeOK, runVars, dlVars, Silent
<1>1. CASE Refuse
  BY <1>1 DEF Refuse, ChannelInv, DownloaderInv, CasesIn, Produced, TotalToCome, TotalTaken, Send
<1>2. CASE Start
  BY <1>2 DEF Start, ChannelInv, DownloaderInv, CasesIn, Produced, TotalToCome, TotalTaken
<1>3. CASE RunReady \/ RunReturns \/ Unlock \/ Finish
  BY <1>3 DEF RunReady, RunReturns, Unlock, Finish, ChannelInv, DownloaderInv, CasesIn, Produced,
     TotalToCome, TotalTaken
<1>4. CASE RunTakesCase
  BY <1>4 DEF RunTakesCase, ChannelInv, DownloaderInv, CasesIn, Produced, TotalToCome, TotalTaken
<1>5. CASE RunAborts \/ RunTotals \/ RunBeginsCase \/ RunJudgesCase
  BY <1>5, PutKeepsChannel
<1>6. CASE ReportCase \/ ReportTotal
  BY <1>6, TakeKeepsChannel
<1>7. CASE DownloadFile \/ MarkResponded \/ DownloaderReturns
  BY <1>7 DEF DownloadFile, MarkResponded, DownloaderReturns, ChannelInv, DownloaderInv, CasesIn,
     Produced, TotalToCome, TotalTaken
<1>8. CASE DownloadError
  BY <1>8 DEF DownloadError, Send, DownloadFailedReport, ResultReport, ChannelInv, DownloaderInv,
     CasesIn, Produced, TotalToCome, TotalTaken
<1>9. CASE HandCase
  BY <1>9 DEF HandCase, ChannelInv, DownloaderInv, CasesIn, Produced, TotalToCome, TotalTaken
<1>10. ASSUME NEW r \in inflight, Answer(r)
       PROVE  ChannelInv'
  BY <1>10, ZenonT(40) DEF Answer, ChannelInv, DownloaderInv, WaitingInv, CasesIn, Produced, TotalToCome, TotalTaken
<1>. QED  BY <1>1, <1>2, <1>3, <1>4, <1>5, <1>6, <1>7, <1>8, <1>9, <1>10
          DEF Next, Main, Downloader, Reporter

-----------------------------------------------------------------------------
(* The reports. *)

\* JobReports counts, and names reports, as JudgeJob does.
LEMMA SameCardinality == \A S : Promise!Cardinality(S) = Cardinality(S)
  BY DEF Cardinality, Promise!Cardinality

\* The promise and the job mean the same by a report of a case.
LEMMA SameReports ==
  /\ Promise!JG = JG /\ Promise!CaseIds = CaseIds
  /\ \A c, v : Promise!CaseReport(c, v) = CaseReport(c, v)
  BY DEF Promise!JG, JG, Promise!CaseIds, CaseIds, Promise!CaseReport, CaseReport

\* Sending a report leaves the numbers of the earlier ones as they are.
LEMMA Appends ==
  ASSUME TypeOK, NEW r \in ReportKinds, Send(r)
  PROVE  /\ Cardinality(Mains) \in Nat
         /\ \A i \in 1 .. Len(sent) : Promise!MainBefore(i)' = Promise!MainBefore(i)
         /\ \A i : i = Len(sent) + 1 => Promise!MainBefore(i)' = Cardinality(Mains)
         /\ r.by = "main" => Cardinality(Mains') = Cardinality(Mains) + 1
         /\ r.by # "main" => Mains' = Mains
         /\ MainResults' = IF r.by = "main" /\ r.type = "result"
                           THEN MainResults \cup {Len(sent) + 1} ELSE MainResults
<1>. DEFINE n == Len(sent) + 1
<1>1. /\ Len(sent') = n /\ Len(sent) \in Nat /\ sent'[n] = r
      /\ \A i \in 1 .. Len(sent) : sent'[i] = sent[i]
  BY SendType DEF TypeOK
<1>. HIDE DEF n
<1>2. /\ IsFiniteSet(Mains) /\ Cardinality(Mains) \in Nat /\ n \notin Mains
  <2>1. Len(sent) \in Nat /\ n = Len(sent) + 1
    BY <1>1 DEF n
  <2>2. IsFiniteSet(1 .. Len(sent))
    BY <2>1, FS_Interval
  <2>3. IsFiniteSet(Mains)
    BY <2>2, FS_Subset DEF Mains
  <2>. QED  BY <2>1, <2>3, FS_CardinalityType DEF Mains
<1>3. ASSUME NEW i \in 1 .. Len(sent)
      PROVE  Promise!MainBefore(i)' = Promise!MainBefore(i)
  <2>1. {k \in 1 .. i - 1 : sent'[k].by = "main"} = {k \in 1 .. i - 1 : sent[k].by = "main"}
    BY <1>1
  <2>. QED  BY <2>1 DEF Promise!MainBefore
<1>4. ASSUME NEW i, i = Len(sent) + 1
      PROVE  Promise!MainBefore(i)' = Cardinality(Mains)
  <2>1. i - 1 = Len(sent)
    BY <1>1, <1>4
  <2>2. {k \in 1 .. i - 1 : sent'[k].by = "main"} = Mains
    BY <1>1, <2>1 DEF Mains
  <2>. QED  BY <2>2, SameCardinality DEF Promise!MainBefore
<1>5. 1 .. Len(sent') = (1 .. Len(sent)) \cup {n}
  BY <1>1 DEF n
<1>6. Mains' = IF r.by = "main" THEN Mains \cup {n} ELSE Mains
  BY <1>1, <1>5 DEF Mains
<1>7. MainResults' = IF r.by = "main" /\ r.type = "result" THEN MainResults \cup {n} ELSE MainResults
  <2>1. \A k \in Mains : sent'[k] = sent[k]
    BY <1>1 DEF Mains
  <2>. QED  BY <1>1, <1>6, <2>1 DEF MainResults
<1>8. r.by = "main" => Cardinality(Mains') = Cardinality(Mains) + 1
  BY <1>2, <1>6, FS_AddElement
<1>. QED  BY <1>2, <1>3, <1>4, <1>6, <1>7, <1>8 DEF n

\* The reports stay in order if the reporter sends what it is up to.
LEMMA OrderKept ==
  ASSUME TypeOK, Promise!ReportsInOrder, NEW r \in ReportKinds, Send(r),
         r.by = "main" =>
           /\ MainResults = {}
           /\ r.type = "case" => /\ r.id = Cardinality(Mains) \div 2
                                 /\ (r.status = JG) <=> (Cardinality(Mains) % 2 = 0)
  PROVE  Promise!ReportsInOrder'
<1>1. /\ Len(sent) \in Nat /\ Len(sent') = Len(sent) + 1 /\ sent'[Len(sent) + 1] = r
      /\ \A i \in 1 .. Len(sent) : sent'[i] = sent[i]
      /\ DOMAIN sent = 1 .. Len(sent) /\ DOMAIN sent' = 1 .. Len(sent')
  BY SendType DEF TypeOK
<1>2. r.type \in {"case", "result"}
  BY DEF ReportKinds
<1>3. ASSUME NEW i \in DOMAIN sent', sent'[i].by = "main"
      PROVE  \/ /\ sent'[i].type = "case"
                /\ sent'[i].id = Promise!MainBefore(i)' \div 2
                /\ (sent'[i].status = JG) <=> (Promise!MainBefore(i)' % 2 = 0)
             \/ /\ sent'[i].type = "result"
                /\ \A k \in DOMAIN sent' : k > i => sent'[k].by # "main"
  <2>1. CASE i = Len(sent) + 1
    <3>1. sent'[i] = r /\ Promise!MainBefore(i)' = Cardinality(Mains)
      BY <1>1, <2>1, Appends
    <3>2. \A k \in DOMAIN sent' : ~(k > i)
      BY <1>1, <2>1
    <3>. QED  BY <1>2, <1>3, <3>1, <3>2
  <2>2. CASE i # Len(sent) + 1
    <3>1. i \in 1 .. Len(sent) /\ i \in DOMAIN sent /\ sent'[i] = sent[i]
      BY <1>1, <2>2
    <3>2. Promise!MainBefore(i)' = Promise!MainBefore(i)
      BY <3>1, Appends
    <3>3. sent[i].type = "result" => i \in MainResults
      BY <1>3, <3>1 DEF MainResults, Mains
    <3>4. ASSUME sent[i].type = "result", NEW k \in DOMAIN sent', k > i, sent'[k].by = "main"
          PROVE  k \in DOMAIN sent /\ sent[k].by = "main"
      BY <1>1, <3>3, <3>4
    <3>5. \/ /\ sent[i].type = "case"
             /\ sent[i].id = Promise!MainBefore(i) \div 2
             /\ (sent[i].status = JG) <=> (Promise!MainBefore(i) % 2 = 0)
          \/ /\ sent[i].type = "result"
             /\ \A k \in DOMAIN sent : k > i => sent[k].by # "main"
      BY <1>3, <3>1, SameReports DEF Promise!ReportsInOrder
    <3>. QED  BY <3>1, <3>2, <3>4, <3>5
  <2>. QED  BY <2>1, <2>2
<1>. QED  BY <1>3, SameReports DEF Promise!ReportsInOrder

\* An accepted total may be sent once every case is accepted.
LEMMA CompleteKept ==
  ASSUME TypeOK, Promise!AcceptedIsComplete, NEW r \in ReportKinds, Send(r),
         r.type = "result" /\ r.status = "AC" =>
           \A c \in CaseIds : \E k \in 1 .. Len(sent) : sent[k] = CaseReport(c, "AC")
  PROVE  Promise!AcceptedIsComplete'
<1>1. /\ Len(sent) \in Nat /\ Len(sent') = Len(sent) + 1 /\ sent'[Len(sent) + 1] = r
      /\ \A i \in 1 .. Len(sent) : sent'[i] = sent[i]
      /\ DOMAIN sent = 1 .. Len(sent) /\ DOMAIN sent' = 1 .. Len(sent')
  BY SendType DEF TypeOK
<1>2. ASSUME NEW i \in DOMAIN sent', sent'[i].type = "result", sent'[i].status = "AC",
             NEW c \in CaseIds
      PROVE  \E k \in 1 .. i - 1 : sent'[k] = CaseReport(c, "AC")
  <2>1. CASE i = Len(sent) + 1
    <3>1. PICK k \in 1 .. Len(sent) : sent[k] = CaseReport(c, "AC")
      BY <1>1, <1>2, <2>1
    <3>. QED  BY <1>1, <2>1, <3>1
  <2>2. CASE i # Len(sent) + 1
    <3>1. i \in DOMAIN sent /\ sent[i] = sent'[i]
      BY <1>1, <2>2
    <3>2. PICK k \in 1 .. i - 1 : sent[k] = CaseReport(c, "AC")
      BY <1>2, <3>1, SameReports DEF Promise!AcceptedIsComplete
    <3>3. sent'[k] = sent[k]
      BY <1>1, <3>1, <3>2
    <3>. QED  BY <3>2, <3>3
  <2>. QED  BY <2>1, <2>2
<1>. QED  BY <1>2, SameReports DEF Promise!AcceptedIsComplete

\* What has been sent stays in order and complete while nothing is sent.
LEMMA SilentKeepsOrder ==
  ASSUME UNCHANGED sent, Promise!ReportsInOrder, Promise!AcceptedIsComplete
  PROVE  /\ Mains' = Mains /\ MainResults' = MainResults
         /\ Promise!ReportsInOrder' /\ Promise!AcceptedIsComplete'
<1>1. Mains' = Mains
  BY DEF Mains
<1>2. MainResults' = MainResults
  BY <1>1 DEF MainResults
<1>3. Promise!ReportsInOrder' /\ Promise!AcceptedIsComplete'
  BY DEF Promise!ReportsInOrder, Promise!AcceptedIsComplete, Promise!MainBefore
<1>. QED  BY <1>1, <1>2, <1>3

\* The steps that send nothing.
LEMMA SilentKeepsSent ==
  ASSUME TypeOK, DownloaderInv, SentInv, UNCHANGED <<sent, inflight>>,
         UNCHANGED rep \/ (Start /\ rep'.n = rep.n /\ rep'.worst = rep.worst),
         (dl'.pc = "off") = (dl.pc = "off") \/ Start,
         dl.pc = "off" => Start \/ (main # "prep" /\ main' # "prep"),
         dl.pc = "end" => dl'.pc = "end" /\ responded' = responded
  PROVE  SentInv'
<1>1. Mains' = Mains /\ MainResults' = MainResults
  BY SilentKeepsOrder DEF SentInv
<1>2. Promise!ReportsInOrder' /\ Promise!AcceptedIsComplete'
  BY SilentKeepsOrder DEF SentInv
<1>3. CASE Start
  <2>1. sent = <<>> /\ dl'.pc # "off" /\ rep.n = 0
    BY <1>3 DEF Start, SentInv, DownloaderInv, TypeOK
  <2>2. Mains = {} /\ MainResults = {}
    BY <2>1 DEF Mains, MainResults
  <2>. QED  BY <1>1, <1>2, <1>3, <2>1, <2>2, FS_EmptySet DEF SentInv
<1>4. CASE ~Start
  BY <1>1, <1>2, <1>4 DEF SentInv
<1>. QED  BY <1>3, <1>4

\* The reporter has taken an odd number of statuses after the start of a case.
LEMMA Halves == \A c \in Nat : (2 * c + 1) % 2 = 1 /\ (2 * c + 1) \div 2 = c
  OBVIOUS

\* The next status of a case is reported.
LEMMA CaseKeepsSent ==
  ASSUME TypeOK, DownloaderInv, WaitingInv, ChannelInv, SentInv, ReportCase
  PROVE  SentInv'
<1>. USE DEF TypeOK
<1>1. /\ TakeStatus /\ ~Head(statuses).total /\ rep.pc = "recv" /\ dl.pc # "off"
      /\ UNCHANGED <<main, dl, responded>>
  BY DEF ReportCase, TakeStatus, dlVars, DownloaderInv
<1>2. /\ Head(statuses) \in Status
      /\ (Head(statuses).v = JG) <=> (rep.n % 2 = 0)
      /\ rep.n \in Nat /\ rep.n < 2 * NCases
  BY <1>1, TakenIsNext
<1>3. PICK v \in CaseVerdicts \cup {JG} :
        /\ (v = JG) <=> (rep.n % 2 = 0)
        /\ rep' = [pc |-> "post", n |-> rep.n + 1,
                   worst |-> IF v = JG THEN rep.worst ELSE Worse(rep.worst, v)]
        /\ Send(CaseReport(rep.n \div 2, v))
  <2>1. PICK v \in IF Head(statuses).v = "AC" THEN CaseVerdicts ELSE {Head(statuses).v} :
          /\ rep' = [pc |-> "post", n |-> rep.n + 1,
                     worst |-> IF v = JG THEN rep.worst ELSE Worse(rep.worst, v)]
          /\ Send(CaseReport(rep.n \div 2, v))
    BY DEF ReportCase
  <2>2. /\ v \in CaseVerdicts \cup {JG}
        /\ (v = JG) <=> (Head(statuses).v = JG)
    BY <1>2 DEF Status, CaseVerdicts, JG
  <2>. QED  BY <1>2, <2>1, <2>2
<1>. DEFINE r == CaseReport(rep.n \div 2, v)
<1>4. /\ r \in ReportKinds /\ r.by = "main" /\ r.type = "case" /\ r.status = v
      /\ r.id = rep.n \div 2 /\ rep.n \div 2 \in CaseIds
  BY <1>2 DEF CaseReport, ReportKinds, CaseIds
<1>5. MainResults = {} /\ Cardinality(Mains) = rep.n
  BY <1>1 DEF SentInv
<1>. HIDE DEF r
<1>6. Send(r)
  BY <1>3 DEF r
<1>7. MainResults' = {} /\ Cardinality(Mains') = rep'.n
  BY <1>3, <1>4, <1>5, <1>6, Appends
<1>8. Promise!ReportsInOrder'
  BY <1>3, <1>4, <1>5, <1>6, OrderKept DEF SentInv
<1>9. Promise!AcceptedIsComplete'
  BY <1>4, <1>6, CompleteKept DEF SentInv
<1>10. ASSUME rep'.worst = "AC", NEW c \in CaseIds, 2 * c + 1 < rep'.n
       PROVE  \E k \in 1 .. Len(sent') : sent'[k] = CaseReport(c, "AC")
  <2>1. rep.worst = "AC" /\ v \in {JG, "AC"}
    BY <1>3, <1>10 DEF Worse, CaseVerdicts, JG
  <2>2. /\ Len(sent) \in Nat /\ Len(sent') = Len(sent) + 1 /\ sent'[Len(sent) + 1] = r
        /\ \A i \in 1 .. Len(sent) : sent'[i] = sent[i]
    BY <1>4, <1>6, SendType
  <2>3. CASE 2 * c + 1 < rep.n
    <3>1. PICK k \in 1 .. Len(sent) : sent[k] = CaseReport(c, "AC")
      BY <2>1, <2>3 DEF SentInv
    <3>. QED  BY <2>2, <3>1
  <2>4. CASE ~(2 * c + 1 < rep.n)
    <3>0. c \in Nat /\ rep'.n = rep.n + 1
      BY <1>3 DEF CaseIds
    <3>1. rep.n \in Nat /\ 2 * c + 1 < rep.n + 1 /\ ~(2 * c + 1 < rep.n)
      BY <1>2, <1>10, <2>4, <3>0
    <3>2. 2 * c + 1 = rep.n
      BY <3>0, <3>1
    <3>3. rep.n % 2 = 1 /\ rep.n \div 2 = c
      BY <3>0, <3>2, Halves
    <3>4. r = CaseReport(c, "AC")
      BY <1>3, <2>1, <3>3 DEF r
    <3>. QED  BY <2>2, <3>4
  <2>. QED  BY <2>3, <2>4
<1>. QED  BY <1>1, <1>7, <1>8, <1>9, <1>10 DEF SentInv

\* The total is reported, or kept back.
LEMMA TotalKeepsSent ==
  ASSUME TypeOK, DownloaderInv, WaitingInv, ChannelInv, SentInv, ReportTotal
  PROVE  SentInv'
<1>. USE DEF TypeOK
<1>1. /\ TakeStatus /\ Head(statuses).total /\ rep.pc = "recv" /\ dl.pc # "off"
      /\ UNCHANGED <<main, dl, responded>>
  BY DEF ReportTotal, TakeStatus, dlVars, DownloaderInv
<1>2. MainResults = {} /\ Cardinality(Mains) = rep.n
  BY <1>1 DEF SentInv
<1>3. /\ Head(statuses).v = result /\ result \in RunResults
      /\ result = "cases" => rep.n = 2 * NCases \/ responded
  <2>1. result = "cases" => rep.n = 2 * handed /\ (handed = NCases \/ responded)
    BY <1>1, TotalIsDue
  <2>. QED  BY <1>1, <2>1, TotalIsDue
<1>4. CASE Silent
  <2>1. rep' = [rep EXCEPT !.pc = "end"] \/ rep' = [rep EXCEPT !.pc = "post"]
    BY DEF ReportTotal
  <2>2. Mains' = Mains /\ MainResults' = MainResults /\ sent' = sent
    BY <1>4, SilentKeepsOrder DEF SentInv, Silent
  <2>3. Promise!ReportsInOrder' /\ Promise!AcceptedIsComplete'
    BY <2>2, SilentKeepsOrder DEF SentInv
  <2>4. rep'.n = rep.n /\ rep'.worst = rep.worst
    BY <2>1
  <2>. QED  BY <1>1, <1>2, <2>2, <2>3, <2>4 DEF SentInv
<1>5. CASE ~Silent
  <2>. DEFINE r == ResultReport("main", IF result = "cases" THEN rep.worst ELSE result)
  <2>1. /\ rep' = [rep EXCEPT !.pc = "post"] /\ Send(r)
        /\ result = "cases" => ~responded
    BY <1>3, <1>5, Zenon DEF ReportTotal, RespondedSeen
  <2>2. /\ r \in ReportKinds /\ r.by = "main" /\ r.type = "result"
        /\ r.status = IF result = "cases" THEN rep.worst ELSE result
    BY <1>3 DEF ResultReport, ReportKinds, RunResults, CaseVerdicts, TotalVerdicts
  <2>. HIDE DEF r
  <2>3. /\ Len(sent) \in Nat /\ Len(sent') = Len(sent) + 1 /\ sent'[Len(sent) + 1] = r
        /\ \A i \in 1 .. Len(sent) : sent'[i] = sent[i]
    BY <2>1, <2>2, SendType
  <2>4. MainResults' = {Len(sent) + 1}
    BY <1>2, <2>1, <2>2, Appends
  <2>5. Promise!ReportsInOrder'
    BY <1>2, <2>1, <2>2, OrderKept DEF SentInv
  <2>6. r.status = "AC" => \A c \in CaseIds :
          \E k \in 1 .. Len(sent) : sent[k] = CaseReport(c, "AC")
    <3>1. r.status = "AC" => rep.worst = "AC" /\ rep.n = 2 * NCases
      BY <1>3, <2>1, <2>2 DEF RunResults
    <3>2. \A c \in CaseIds : 2 * c + 1 < 2 * NCases
      BY DEF CaseIds
    <3>. QED  BY <3>1, <3>2 DEF SentInv
  <2>7. Promise!AcceptedIsComplete'
    BY <2>1, <2>2, <2>6, CompleteKept DEF SentInv
  <2>8. r \in inflight' /\ rep'.pc = "post"
    BY <2>1 DEF Send
  <2>9. ASSUME rep'.worst = "AC", NEW c \in CaseIds, 2 * c + 1 < rep'.n
        PROVE  \E k \in 1 .. Len(sent') : sent'[k] = CaseReport(c, "AC")
    <3>1. rep'.n = rep.n /\ rep'.worst = rep.worst
      BY <2>1
    <3>2. PICK k \in 1 .. Len(sent) : sent[k] = CaseReport(c, "AC")
      BY <2>9, <3>1 DEF SentInv
    <3>. QED  BY <2>3, <3>2
  <2>10. \A k \in MainResults' :
           sent'[k].status \notin {"CE", "IE"} => dl'.pc = "end" /\ ~responded'
    <3>1. r.status \notin {"CE", "IE"} => result = "cases"
      BY <1>3, <2>2 DEF RunResults
    <3>2. result = "cases" => dl.pc = "end"
      BY DEF ChannelInv, DownloaderInv
    <3>. QED  BY <1>1, <2>1, <2>3, <2>4, <3>1, <3>2
  <2>. QED  BY <1>1, <2>2, <2>4, <2>5, <2>7, <2>8, <2>9, <2>10 DEF SentInv
<1>. QED  BY <1>4, <1>5

\* Every step leaves the history of reports as SentInv has it.
LEMMA SentStep ==
  ASSUME TypeOK, DownloaderInv, WaitingInv, ChannelInv, SentInv, Next
  PROVE  SentInv'
<1>. USE DEF TypeOK, runVars, dlVars
<1>1. CASE Refuse
  <2>1. sent = <<>> /\ dl.pc = "off" /\ dl'.pc = "off" /\ main' # "prep" /\ rep' = rep
    BY <1>1 DEF Refuse, SentInv, DownloaderInv
  <2>2. /\ Send(RefusedReport) /\ RefusedReport \in ReportKinds /\ RefusedReport.type = "result"
        /\ RefusedReport.by = "main" /\ RefusedReport.status = "IE"
    BY <1>1 DEF Refuse, RefusedReport, ResultReport, ReportKinds, TotalVerdicts
  <2>3. MainResults = {}
    BY <2>1 DEF Mains, MainResults
  <2>4. Promise!ReportsInOrder' /\ Promise!AcceptedIsComplete'
    BY <2>2, <2>3, OrderKept, CompleteKept DEF SentInv
  <2>5. sent' = <<RefusedReport>>
    BY <2>1, <2>2 DEF Send
  <2>6. \A k \in MainResults' : sent'[k] = RefusedReport
    BY <2>5 DEF Mains, MainResults
  <2>7. rep.n = 0
    BY <2>1 DEF DownloaderInv
  <2>8. \A c \in CaseIds : ~(2 * c + 1 < rep'.n)
    BY <2>1, <2>7 DEF CaseIds
  <2>. QED  BY <2>1, <2>2, <2>4, <2>5, <2>6, <2>8 DEF SentInv
<1>2. CASE Start \/ RunReady \/ RunTakesCase \/ RunReturns \/ Unlock \/ Finish
  BY <1>2, SilentKeepsSent
     DEF Start, RunReady, RunTakesCase, RunReturns, Unlock, Finish, Silent, DownloaderInv
<1>3. CASE RunAborts \/ RunTotals \/ RunBeginsCase \/ RunJudgesCase
  BY <1>3, SilentKeepsSent
     DEF RunAborts, RunTotals, RunBeginsCase, RunJudgesCase, Silent, DownloaderInv
<1>4. CASE DownloadFile \/ HandCase \/ MarkResponded \/ DownloaderReturns
  BY <1>4, SilentKeepsSent
     DEF DownloadFile, HandCase, MarkResponded, DownloaderReturns, Silent, DownloaderInv
<1>5. CASE DownloadError
  <2>1. /\ dl.pc # "off" /\ dl.pc # "end" /\ dl'.pc # "off"
        /\ UNCHANGED <<rep, main, responded>>
    BY <1>5 DEF DownloadError
  <2>2. /\ Send(DownloadFailedReport) /\ DownloadFailedReport \in ReportKinds
        /\ DownloadFailedReport.by # "main" /\ DownloadFailedReport.status # "AC"
    BY <1>5 DEF DownloadError, DownloadFailedReport, ResultReport, ReportKinds, TotalVerdicts
  <2>3. Mains' = Mains /\ MainResults' = MainResults
    BY <2>2, Appends
  <2>4. Promise!ReportsInOrder' /\ Promise!AcceptedIsComplete'
    BY <2>2, OrderKept, CompleteKept DEF SentInv
  <2>5. /\ Len(sent) \in Nat /\ Len(sent') = Len(sent) + 1
        /\ \A i \in 1 .. Len(sent) : sent'[i] = sent[i]
    BY <2>2, SendType
  <2>6. inflight \subseteq inflight'
    BY <2>2 DEF Send
  <2>7. rep'.worst = "AC" => \A c \in CaseIds : 2 * c + 1 < rep'.n =>
          \E k \in 1 .. Len(sent') : sent'[k] = CaseReport(c, "AC")
    <3>1. ASSUME NEW c, \E k \in 1 .. Len(sent) : sent[k] = CaseReport(c, "AC")
          PROVE  \E k \in 1 .. Len(sent') : sent'[k] = CaseReport(c, "AC")
      BY <2>5, <3>1
    <3>. QED  BY <2>1, <3>1 DEF SentInv
  <2>8. \A k \in MainResults : sent[k].status \in {"CE", "IE"} /\ sent'[k] = sent[k]
    BY <2>1, <2>5 DEF SentInv, MainResults, Mains
  <2>. QED  BY <2>1, <2>3, <2>4, <2>6, <2>7, <2>8 DEF SentInv
<1>6. CASE ReportCase \/ ReportTotal
  BY <1>6, CaseKeepsSent, TotalKeepsSent
<1>7. ASSUME NEW r \in inflight, Answer(r)
      PROVE  SentInv'
  <2>1. /\ UNCHANGED <<sent, responded>> /\ inflight' = inflight \ {r}
        /\ main # "prep" /\ main' # "prep" /\ (dl'.pc = "off") = (dl.pc = "off")
        /\ dl.pc = "end" => dl'.pc = "end"
    BY <1>7 DEF Answer, WaitingInv, DownloaderInv, ReportKinds
  <2>2. Mains' = Mains /\ MainResults' = MainResults
    BY <2>1, SilentKeepsOrder DEF SentInv
  <2>3. Promise!ReportsInOrder' /\ Promise!AcceptedIsComplete'
    BY <2>1, SilentKeepsOrder DEF SentInv
  <2>4. rep'.n = rep.n /\ rep'.worst = rep.worst
    BY <1>7 DEF Answer
  <2>5. MainResults # {} => \/ dl.pc = "off" \/ rep'.pc = "end"
                            \/ \E s \in inflight' : rep'.pc = "post" /\ s.by = "main" /\ s.type = "result"
    <3>1. SUFFICES ASSUME MainResults # {}, dl.pc # "off"
                   PROVE  \/ rep'.pc = "end"
                          \/ \E s \in inflight' : rep'.pc = "post" /\ s.by = "main" /\ s.type = "result"
      OBVIOUS
    <3>2. main # "refused"
      BY <3>1 DEF DownloaderInv
    <3>3. CASE r.by = "dl"
      BY <1>7, <2>1, <3>1, <3>3 DEF Answer, SentInv
    <3>4. CASE r.by = "main"
      <4>1. rep.pc = "post" /\ \A s \in inflight : s.by = "main" => s = r
        BY <1>7, <3>2, <3>4 DEF WaitingInv
      <4>2. r.type = "result"
        BY <3>1, <4>1 DEF SentInv
      <4>3. rep'.pc = "end"
        BY <1>7, <3>2, <3>4, <4>2 DEF Answer
      <4>. QED  BY <4>3
    <3>. QED  BY <3>3, <3>4 DEF ReportKinds
  <2>. QED  BY <2>1, <2>2, <2>3, <2>4, <2>5 DEF SentInv
<1>. QED  BY <1>1, <1>2, <1>3, <1>4, <1>5, <1>6, <1>7 DEF Next, Main, Downloader, Reporter

-----------------------------------------------------------------------------
(* The refinement. *)

\* What the download looks like to ppjc, once the goroutines are started.
LEMMA DownloadSeen ==
  ASSUME TypeOK, DownloaderInv, dl.pc # "off"
  PROVE  /\ ~Refusing
         /\ jobBar.dl = handed /\ jobBar.total = result
         /\ jobBar.rep = rep.n /\ jobBar.worst = rep.worst
         /\ jobBar.main = IF rep.pc = "recv" THEN "run" ELSE rep.pc
         /\ jobBar.released = (main = "end")
         /\ jobBar.dlst = IF dl.pc = "post" THEN "post"
                          ELSE IF dl.pc = "mark" \/ responded THEN "failed"
                          ELSE IF handed = NCases THEN "done" ELSE "run"
  BY DEF TypeOK, DownloaderInv, Refusing, jobBar

\* The same after a step.
LEMMA DownloadSeenNext ==
  ASSUME TypeOK', DownloaderInv', dl'.pc # "off"
  PROVE  /\ ~Refusing'
         /\ jobBar'.dl = handed' /\ jobBar'.total = result'
         /\ jobBar'.rep = rep'.n /\ jobBar'.worst = rep'.worst
         /\ jobBar'.main = IF rep'.pc = "recv" THEN "run" ELSE rep'.pc
         /\ jobBar'.released = (main' = "end")
         /\ jobBar'.dlst = IF dl'.pc = "post" THEN "post"
                           ELSE IF dl'.pc = "mark" \/ responded' THEN "failed"
                           ELSE IF handed' = NCases THEN "done" ELSE "run"
  BY DEF TypeOK, DownloaderInv, Refusing, jobBar

\* A refused job, before the answer to its report and after it.
LEMMA RefusalSeen ==
  ASSUME TypeOK, DownloaderInv, dl.pc = "off"
  PROVE  /\ jobBar.dl = 0 /\ jobBar.rep = 0 /\ jobBar.worst = "AC"
         /\ jobBar.total = IF main = "prep" THEN "none" ELSE "early"
         /\ jobBar.main = IF main = "prep" THEN "run" ELSE IF main = "refused" THEN "post" ELSE "end"
         /\ jobBar.dlst = IF main # "prep" \/ NCases = 0 THEN "done" ELSE "run"
         /\ jobBar.released = (main = "end")
<1>1. /\ main \in {"prep", "refused", "finish", "end"} /\ handed = 0 /\ ~responded
      /\ rep = [pc |-> "off", n |-> 0, worst |-> "AC"] /\ result = "none"
  BY DEF DownloaderInv
<1>3. /\ jobBar.dl = 0 /\ jobBar.rep = 0 /\ jobBar.worst = "AC"
      /\ jobBar.released = (main = "end")
  BY <1>1 DEF jobBar
<1>4. jobBar.total = IF main = "prep" THEN "none" ELSE "early"
  BY <1>1 DEF jobBar, Refusing
<1>6. jobBar.dlst = IF main # "prep" \/ NCases = 0 THEN "done" ELSE "run"
  <2>1. CASE main = "prep"
    BY <1>1, <2>1 DEF jobBar, Refusing
  <2>2. CASE main # "prep"
    BY <1>1, <2>2 DEF jobBar, Refusing
  <2>. QED  BY <2>1, <2>2
<1>5. jobBar.main = IF main = "prep" THEN "run" ELSE IF main = "refused" THEN "post" ELSE "end"
  <2>1. CASE main = "prep"
    BY <1>1, <2>1 DEF jobBar, Refusing
  <2>2. CASE main = "refused"
    BY <1>1, <2>2 DEF jobBar, Refusing
  <2>3. CASE main \in {"finish", "end"}
    BY <1>1, <2>3 DEF jobBar, Refusing
  <2>. QED  BY <1>1, <2>1, <2>2, <2>3
<1>. QED  BY <1>3, <1>4, <1>5, <1>6

\* The same after a step.
LEMMA RefusalSeenNext ==
  ASSUME TypeOK', DownloaderInv', dl'.pc = "off"
  PROVE  /\ jobBar'.dl = 0 /\ jobBar'.rep = 0 /\ jobBar'.worst = "AC"
         /\ jobBar'.total = IF main' = "prep" THEN "none" ELSE "early"
         /\ jobBar'.main = IF main' = "prep" THEN "run" ELSE IF main' = "refused" THEN "post" ELSE "end"
         /\ jobBar'.dlst = IF main' # "prep" \/ NCases = 0 THEN "done" ELSE "run"
         /\ jobBar'.released = (main' = "end")
<1>1. /\ main' \in {"prep", "refused", "finish", "end"} /\ handed' = 0 /\ ~responded'
      /\ rep' = [pc |-> "off", n |-> 0, worst |-> "AC"] /\ result' = "none"
  BY DEF DownloaderInv
<1>3. /\ jobBar'.dl = 0 /\ jobBar'.rep = 0 /\ jobBar'.worst = "AC"
      /\ jobBar'.released = (main' = "end")
  BY <1>1 DEF jobBar
<1>4. jobBar'.total = IF main' = "prep" THEN "none" ELSE "early"
  BY <1>1 DEF jobBar, Refusing
<1>6. jobBar'.dlst = IF main' # "prep" \/ NCases = 0 THEN "done" ELSE "run"
  <2>1. CASE main' = "prep"
    BY <1>1, <2>1 DEF jobBar, Refusing
  <2>2. CASE main' # "prep"
    BY <1>1, <2>2 DEF jobBar, Refusing
  <2>. QED  BY <2>1, <2>2
<1>5. jobBar'.main = IF main' = "prep" THEN "run" ELSE IF main' = "refused" THEN "post" ELSE "end"
  <2>1. CASE main' = "prep"
    BY <1>1, <2>1 DEF jobBar, Refusing
  <2>2. CASE main' = "refused"
    BY <1>1, <2>2 DEF jobBar, Refusing
  <2>3. CASE main' \in {"finish", "end"}
    BY <1>1, <2>3 DEF jobBar, Refusing
  <2>. QED  BY <1>1, <2>1, <2>2, <2>3
<1>. QED  BY <1>3, <1>4, <1>5, <1>6

\* A view of a job is the record of its fields.
LEMMA Fields ==
  /\ jobBar = [dl |-> jobBar.dl, dlst |-> jobBar.dlst, total |-> jobBar.total, rep |-> jobBar.rep,
               worst |-> jobBar.worst, main |-> jobBar.main, released |-> jobBar.released]
  /\ jobBar' = [dl |-> jobBar'.dl, dlst |-> jobBar'.dlst, total |-> jobBar'.total,
                rep |-> jobBar'.rep, worst |-> jobBar'.worst, main |-> jobBar'.main,
                released |-> jobBar'.released]
  BY DEF jobBar

\* Two views of a job that agree on every field are the same.
LEMMA SameJob ==
  ASSUME jobBar'.dl = jobBar.dl, jobBar'.dlst = jobBar.dlst, jobBar'.total = jobBar.total,
         jobBar'.rep = jobBar.rep, jobBar'.worst = jobBar.worst, jobBar'.main = jobBar.main,
         jobBar'.released = jobBar.released
  PROVE  jobBar' = jobBar
  BY DEF jobBar

\* The steps ppjc sees nothing of.
LEMMA HiddenSteps ==
  ASSUME TypeOK, DownloaderInv, TypeOK', DownloaderInv',
         \/ Start \/ RunReady \/ RunTakesCase \/ RunBeginsCase \/ RunJudgesCase
         \/ RunReturns \/ Unlock \/ DownloadFile \/ MarkResponded \/ DownloaderReturns
  PROVE  UNCHANGED <<jobBar, inflight, sent>>
<1>. USE DEF runVars, dlVars, Silent
<1>1. CASE Start
  BY <1>1 DEF Start, jobBar, Refusing, TypeOK, DownloaderInv
<1>2. CASE ~Start
  <2>1. dl.pc # "off"
    BY <1>2 DEF RunReady, RunTakesCase, RunBeginsCase, RunJudgesCase, RunReturns, Unlock,
       DownloadFile, MarkResponded, DownloaderReturns, DownloaderInv
  <2>2. UNCHANGED <<inflight, sent, rep, handed, result>> /\ main # "end" /\ main' # "end"
    BY <1>2, <2>1 DEF RunReady, RunTakesCase, RunBeginsCase, RunJudgesCase, RunReturns, Unlock,
       DownloadFile, MarkResponded, DownloaderReturns, DownloaderInv, TypeOK
  <2>3. /\ dl'.pc # "off"
        /\ (dl'.pc = "post") <=> (dl.pc = "post")
        /\ (dl'.pc = "mark" \/ responded') <=> (dl.pc = "mark" \/ responded)
    <3>1. CASE RunReady \/ RunTakesCase \/ RunBeginsCase \/ RunJudgesCase \/ RunReturns \/ Unlock
      BY <2>1, <3>1 DEF RunReady, RunTakesCase, RunBeginsCase, RunJudgesCase, RunReturns, Unlock
    <3>2. CASE DownloadFile
      BY <3>2 DEF DownloadFile, TypeOK
    <3>3. CASE MarkResponded
      BY <3>3 DEF MarkResponded, TypeOK
    <3>4. CASE DownloaderReturns
      BY <3>4 DEF DownloaderReturns, TypeOK
    <3>. QED  BY <1>2, <3>1, <3>2, <3>3, <3>4
  <2>4. /\ jobBar'.dl = jobBar.dl /\ jobBar'.total = jobBar.total
        /\ jobBar'.rep = jobBar.rep /\ jobBar'.worst = jobBar.worst
        /\ jobBar'.main = jobBar.main /\ jobBar'.released = jobBar.released
    BY <2>1, <2>2, <2>3, DownloadSeen, DownloadSeenNext
  <2>5. jobBar'.dlst = jobBar.dlst
    BY <2>1, <2>2, <2>3, DownloadSeen, DownloadSeenNext
  <2>. QED  BY <2>2, <2>4, <2>5, SameJob
<1>. QED  BY <1>1, <1>2

\* The job is refused.
LEMMA RefusePromised ==
  ASSUME TypeOK, DownloaderInv, TypeOK', DownloaderInv', Refuse
  PROVE  Promise!Refuse
<1>1. main = "prep" /\ dl.pc = "off" /\ dl'.pc = "off" /\ main' = "refused"
  BY DEF Refuse, DownloaderInv, dlVars
<1>2. Promise!CanRefuse(jobBar)
  BY <1>1, RefusalSeen DEF Promise!CanRefuse
<1>3. /\ jobBar'.dl = jobBar.dl /\ jobBar'.rep = jobBar.rep /\ jobBar'.worst = jobBar.worst
      /\ jobBar'.total = "early" /\ jobBar'.main = "post" /\ jobBar'.dlst = "done"
      /\ jobBar'.released = jobBar.released
  BY <1>1, RefusalSeen, RefusalSeenNext
<1>4. jobBar' = Promise!Refused(jobBar)
  BY <1>3, Fields DEF Promise!Refused
<1>5. Promise!Send(Promise!RefusedReport)
  BY DEF Refuse, Send, Promise!Send, RefusedReport, Promise!RefusedReport, ResultReport,
     Promise!ResultReport
<1>. QED  BY <1>2, <1>4, <1>5 DEF Promise!Refuse

\* judge.Run returns.
LEMMA RunReturnsPromised ==
  ASSUME TypeOK, DownloaderInv, ChannelInv, RunAborts \/ RunTotals
  PROVE  Promise!RunReturns
<1>1. /\ dl.pc # "off" /\ dl'.pc # "off" /\ main \in {"setup", "recv"} /\ main' = "close"
      /\ UNCHANGED <<rep, handed, responded, dl>> /\ UNCHANGED <<inflight, sent>>
      /\ result' \in RunResults
  BY DEF RunAborts, RunTotals, dlVars, Silent, DownloaderInv, RunResults
<1>2. result = "none"
  BY <1>1 DEF ChannelInv
<1>3. result' = "cases" => /\ dl.pc = "end" 
                           /\ handed = NCases \/ responded
  BY DEF RunAborts, RunTotals, DownloaderInv, TypeOK
<1>4. result' # "cases" => rep.n = 0
  <2>1. result' # "cases" => main = "setup"
    BY DEF RunAborts, RunTotals
  <2>2. main = "setup" => Produced = 0
    BY DEF ChannelInv, Produced
  <2>3. CasesIn = Len(statuses) /\ Len(statuses) \in Nat /\ rep.n \in Nat
    BY <1>2 DEF CasesIn, TypeOK
  <2>4. rep.n + CasesIn = Produced
    BY DEF ChannelInv
  <2>. QED  BY <2>1, <2>2, <2>3, <2>4
<1>5. /\ jobBar.total = "none" /\ jobBar.rep = rep.n
      /\ result' = "cases" => jobBar.dlst \in {"failed", "done"}
  BY <1>1, <1>2, <1>3, DownloadSeen
<1>6. jobBar' = [jobBar EXCEPT !.total = result']
  BY <1>1, <1>2 DEF jobBar, Refusing
<1>7. Promise!CanReturn(jobBar, result') /\ result' \in Promise!RunResults
  BY <1>1, <1>4, <1>5 DEF Promise!CanReturn, Promise!RunResults, RunResults
<1>. QED  BY <1>1, <1>6, <1>7 DEF Promise!RunReturns, Promise!Returned, Promise!Silent

\* The downloader hands over a case.
LEMMA DownloadPromised ==
  ASSUME TypeOK, DownloaderInv, TypeOK', DownloaderInv', HandCase
  PROVE  Promise!Download
<1>1. /\ dl.pc = "send" /\ dl'.pc = "input" /\ main \notin {"prep", "refused"}
      /\ handed < NCases /\ handed' = handed + 1 /\ ~responded
      /\ UNCHANGED <<rep, result, responded, main>> /\ UNCHANGED <<inflight, sent>>
  BY DEF HandCase, runVars, Silent, DownloaderInv, TypeOK
<1>2. jobBar.dlst = "run" /\ jobBar.dl = handed
  BY <1>1, DownloadSeen
<1>3. /\ jobBar'.dl = handed + 1 /\ jobBar'.rep = jobBar.rep /\ jobBar'.worst = jobBar.worst
      /\ jobBar'.total = jobBar.total /\ jobBar'.main = jobBar.main
      /\ jobBar'.dlst = (IF handed + 1 = NCases THEN "done" ELSE "run")
      /\ jobBar'.released = jobBar.released
  BY <1>1, DownloadSeen, DownloadSeenNext
<1>4. jobBar' = Promise!Downloaded(jobBar)
  BY <1>2, <1>3, Fields DEF Promise!Downloaded
<1>. QED  BY <1>1, <1>2, <1>4 DEF Promise!Download, Promise!CanDownload, Promise!Silent

\* The downloader fails.
LEMMA DownloadErrorPromised ==
  ASSUME TypeOK, DownloaderInv, DownloadError
  PROVE  Promise!DownloadError
<1>1. /\ dl.pc \in {"input", "output"} /\ dl'.pc = "post" /\ main \notin {"prep", "refused"}
      /\ handed < NCases /\ ~responded
      /\ UNCHANGED <<rep, handed, result, responded, main>>
  BY DEF DownloadError, runVars, DownloaderInv, TypeOK
<1>2. jobBar.dlst = "run" /\ jobBar.dl = handed
  BY <1>1, DownloadSeen
<1>3. jobBar' = [jobBar EXCEPT !.dlst = "post"]
  BY <1>1 DEF jobBar, Refusing
<1>4. Promise!Send(Promise!DownloadFailedReport)
  BY DEF DownloadError, Send, Promise!Send, DownloadFailedReport, Promise!DownloadFailedReport,
     ResultReport, Promise!ResultReport
<1>. QED  BY <1>1, <1>2, <1>3, <1>4
          DEF Promise!DownloadError, Promise!CanDownload, Promise!DownloadFailed

\* The reporter reports a status of a case.
LEMMA CasePromised ==
  ASSUME TypeOK, DownloaderInv, ChannelInv, TypeOK', DownloaderInv', ReportCase
  PROVE  Promise!ReportCase
<1>1. /\ TakeStatus /\ ~Head(statuses).total /\ rep.pc = "recv" /\ dl.pc # "off"
      /\ UNCHANGED <<main, dl, handed, responded, result>> /\ dl'.pc # "off"
  BY DEF ReportCase, TakeStatus, dlVars, DownloaderInv
<1>2. /\ Head(statuses) \in Status
      /\ (Head(statuses).v = JG) <=> (rep.n % 2 = 0)
      /\ rep.n \in Nat /\ rep.n < 2 * taken /\ result \notin {"CE", "IE"}
  BY <1>1, TakenIsNext DEF TypeOK
<1>3. PICK v : /\ v \in CaseVerdicts \cup {JG}
               /\ (v = JG) <=> (rep.n % 2 = 0)
               /\ rep' = [pc |-> "post", n |-> rep.n + 1,
                          worst |-> IF v = JG THEN rep.worst ELSE Worse(rep.worst, v)]
               /\ Send(CaseReport(rep.n \div 2, v))
  <2>1. PICK v \in IF Head(statuses).v = "AC" THEN CaseVerdicts ELSE {Head(statuses).v} :
          /\ rep' = [pc |-> "post", n |-> rep.n + 1,
                     worst |-> IF v = JG THEN rep.worst ELSE Worse(rep.worst, v)]
          /\ Send(CaseReport(rep.n \div 2, v))
    BY DEF ReportCase
  <2>2. /\ v \in CaseVerdicts \cup {JG}
        /\ (v = JG) <=> (Head(statuses).v = JG)
    BY <1>2 DEF Status, CaseVerdicts, JG
  <2>. QED  BY <1>2, <2>1, <2>2
<1>4. /\ jobBar.main = "run" /\ jobBar.total = result /\ jobBar.rep = rep.n
      /\ jobBar.dl = handed /\ jobBar.worst = rep.worst
  BY <1>1, DownloadSeen
<1>5. rep.n < Promise!RunStatuses(jobBar)
  <2>1. taken <= handed /\ taken \in Nat /\ handed \in Nat /\ result \in {"none", "cases"}
    BY <1>2 DEF TypeOK, RunResults
  <2>2. Promise!RunStatuses(jobBar) = 2 * handed
    BY <1>4, <2>1 DEF Promise!RunStatuses, Promise!RunResults
  <2>. QED  BY <1>2, <2>1, <2>2
<1>6. Promise!CanReportCase(jobBar, v) /\ v \in Promise!Statuses
  <2>1. v \in Promise!Statuses
    BY <1>3 DEF CaseVerdicts, Promise!JG, JG, Promise!Statuses, Promise!TotalVerdicts
  <2>2. jobBar.total # "early"
    BY <1>4 DEF TypeOK, RunResults
  <2>3. v \in IF rep.n % 2 = 0 THEN {Promise!JG} ELSE Promise!CaseVerdicts
    BY <1>3 DEF Promise!CaseVerdicts, CaseVerdicts, Promise!JG, JG
  <2>. QED  BY <1>4, <1>5, <2>1, <2>2, <2>3 DEF Promise!CanReportCase
<1>7. jobBar' = Promise!CaseReported(jobBar, v)
  <2>1. /\ jobBar'.dl = jobBar.dl /\ jobBar'.dlst = jobBar.dlst /\ jobBar'.total = jobBar.total
        /\ jobBar'.rep = rep.n + 1 /\ jobBar'.main = "post"
        /\ jobBar'.worst = (IF v = JG THEN rep.worst ELSE Worse(rep.worst, v))
        /\ jobBar'.released = jobBar.released
    BY <1>1, <1>3, DownloadSeen, DownloadSeenNext
  <2>. QED  BY <1>4, <2>1, Fields DEF Promise!CaseReported, Promise!JG, JG, Promise!Worse, Worse
<1>8. Promise!Send(Promise!NextCaseReport(jobBar, v))
  BY <1>3, <1>4 DEF Send, Promise!Send, CaseReport, Promise!CaseReport, Promise!NextCaseReport
<1>. QED  BY <1>6, <1>7, <1>8 DEF Promise!ReportCase

\* The reporter ends with the total, reported or kept back.
LEMMA TotalPromised ==
  ASSUME TypeOK, DownloaderInv, ChannelInv, TypeOK', DownloaderInv', ReportTotal
  PROVE  Promise!ReportTotal
<1>1. /\ TakeStatus /\ Head(statuses).total /\ rep.pc = "recv" /\ dl.pc # "off"
      /\ UNCHANGED <<main, dl, handed, responded, result>> /\ dl'.pc # "off"
  BY DEF ReportTotal, TakeStatus, dlVars, DownloaderInv
<1>2. /\ Head(statuses).v = result /\ result \in RunResults
      /\ result = "cases" => rep.n = 2 * handed /\ dl.pc = "end"
      /\ result # "cases" => rep.n = 0
  BY <1>1, TotalIsDue
<1>3. /\ jobBar.main = "run" /\ jobBar.total = result /\ jobBar.rep = rep.n
      /\ jobBar.dl = handed /\ jobBar.worst = rep.worst
      /\ responded => dl.pc # "post" /\ jobBar.dlst = "failed"
  BY <1>1, DownloadSeen DEF DownloaderInv
<1>4. Promise!CanReportTotal(jobBar)
  BY <1>2, <1>3 DEF Promise!CanReportTotal, Promise!RunStatuses, Promise!RunResults, RunResults
<1>5. /\ jobBar'.dl = jobBar.dl /\ jobBar'.dlst = jobBar.dlst /\ jobBar'.total = jobBar.total
      /\ rep'.n = rep.n => jobBar'.rep = jobBar.rep
      /\ rep'.worst = rep.worst => jobBar'.worst = jobBar.worst
      /\ jobBar'.main = IF rep'.pc = "recv" THEN "run" ELSE rep'.pc
      /\ jobBar'.released = jobBar.released
  BY <1>1, DownloadSeen, DownloadSeenNext
<1>6. CASE rep'.pc = "end"
  <2>1. rep' = [rep EXCEPT !.pc = "end"] /\ responded /\ Silent
    <3>1. rep' # [rep EXCEPT !.pc = "post"]
      BY <1>6 DEF TypeOK
    <3>2. \E seen \in RespondedSeen : seen /\ rep' = [rep EXCEPT !.pc = "end"] /\ Silent
      BY <3>1, Zenon DEF ReportTotal
    <3>. QED  BY <3>2 DEF RespondedSeen, TypeOK
  <2>2. rep'.n = rep.n /\ rep'.worst = rep.worst /\ rep'.pc = "end"
    BY <2>1 DEF TypeOK
  <2>3. jobBar' = Promise!TotalSkipped(jobBar)
    BY <1>5, <2>2, Fields DEF Promise!TotalSkipped
  <2>4. Promise!MaySkipTotal(jobBar)
    BY <1>3, <1>4, <2>1 DEF Promise!MaySkipTotal
  <2>. QED  BY <2>1, <2>3, <2>4 DEF Promise!ReportTotal, Promise!Silent, Silent
<1>7. CASE rep'.pc # "end"
  <2>. DEFINE r == ResultReport("main", IF result = "cases" THEN rep.worst ELSE result)
  <2>1. /\ rep' = [rep EXCEPT !.pc = "post"] /\ Send(r)
        /\ result = "cases" => ~responded
    <3>1. rep' # [rep EXCEPT !.pc = "end"]
      BY <1>7 DEF TypeOK
    <3>. QED  BY <1>2, <3>1, Zenon DEF ReportTotal, RespondedSeen
  <2>2. rep'.n = rep.n /\ rep'.worst = rep.worst /\ rep'.pc = "post"
    BY <2>1 DEF TypeOK
  <2>3. jobBar' = Promise!TotalReported(jobBar)
    BY <1>5, <2>2, Fields DEF Promise!TotalReported
  <2>4. result = "cases" => jobBar.dlst # "failed"
    BY <1>1, <1>2, <2>1, DownloadSeen
  <2>5. Promise!MaySendTotal(jobBar)
    BY <1>3, <1>4, <2>4 DEF Promise!MaySendTotal
  <2>6. Promise!TotalReport(jobBar) = r
    BY <1>3 DEF Promise!TotalReport, Promise!ResultReport, ResultReport
  <2>. QED  BY <2>1, <2>3, <2>5, <2>6 DEF Promise!ReportTotal, Promise!Send, Send
<1>. QED  BY <1>6, <1>7

\* The slot is given back.
LEMMA FinishPromised ==
  ASSUME TypeOK, DownloaderInv, ChannelInv, TypeOK', DownloaderInv', Finish
  PROVE  Promise!Release
<1>1. /\ main = "finish" /\ main' = "end" /\ UNCHANGED <<dl, handed, responded, result, rep>>
      /\ UNCHANGED <<inflight, sent>>
  BY DEF Finish, dlVars, runVars, Silent
<1>2. /\ jobBar'.dl = jobBar.dl /\ jobBar'.dlst = jobBar.dlst /\ jobBar'.total = jobBar.total
      /\ jobBar'.rep = jobBar.rep /\ jobBar'.worst = jobBar.worst /\ jobBar'.main = jobBar.main
      /\ jobBar.released = FALSE /\ jobBar'.released = TRUE
      /\ jobBar.total # "none" /\ jobBar.dlst \in {"failed", "done"}
      /\ jobBar.total = "early" => jobBar.main = "end"
  <2>1. CASE dl.pc = "off"
    BY <1>1, <2>1, RefusalSeen, RefusalSeenNext
  <2>2. CASE dl.pc # "off"
    <3>1. result # "none" /\ result # "early"
      BY <1>1, <2>2 DEF ChannelInv, TypeOK, RunResults
    <3>2. dl.pc = "end" /\ (handed = NCases \/ responded)
      BY <1>1, <2>2 DEF DownloaderInv, TypeOK
    <3>. QED  BY <1>1, <2>2, <3>1, <3>2, DownloadSeen, DownloadSeenNext
  <2>. QED  BY <2>1, <2>2
<1>3. jobBar' = Promise!Released(jobBar)
  BY <1>2, Fields DEF Promise!Released
<1>4. Promise!CanRelease(jobBar)
  BY <1>2 DEF Promise!CanRelease
<1>. QED  BY <1>1, <1>3, <1>4 DEF Promise!Release, Promise!Silent

\* A report is answered.
LEMMA AnswerPromised ==
  ASSUME TypeOK, DownloaderInv, WaitingInv, TypeOK', DownloaderInv',
         NEW r \in inflight, Answer(r)
  PROVE  Promise!Answer(r)
<1>1. /\ inflight' = inflight \ {r} /\ UNCHANGED <<handed, responded, result, sent>>
      /\ r.by \in {"main", "dl"}
  BY DEF Answer, runVars, TypeOK, ReportKinds
<1>2. jobBar' = Promise!Answered(jobBar, r)
  <2>1. CASE r.by = "dl"
    <3>1. /\ dl.pc = "post" /\ dl'.pc = "mark" /\ UNCHANGED <<main, rep>>
      BY <2>1 DEF Answer, WaitingInv, TypeOK
    <3>2. /\ jobBar'.dl = jobBar.dl /\ jobBar'.dlst = "failed" /\ jobBar'.total = jobBar.total
          /\ jobBar'.rep = jobBar.rep /\ jobBar'.worst = jobBar.worst
          /\ jobBar'.main = jobBar.main /\ jobBar'.released = jobBar.released
      BY <1>1, <3>1, DownloadSeen, DownloadSeenNext
    <3>. QED  BY <2>1, <3>2, Fields DEF Promise!Answered
  <2>2. CASE r.by = "main" /\ main = "refused"
    <3>1. /\ dl.pc = "off" /\ dl'.pc = "off" /\ main' = "finish" /\ UNCHANGED rep
          /\ r.type = "result"
      BY <2>2 DEF Answer, WaitingInv, DownloaderInv
    <3>2. /\ jobBar'.dl = jobBar.dl /\ jobBar'.dlst = jobBar.dlst /\ jobBar'.total = jobBar.total
          /\ jobBar'.rep = jobBar.rep /\ jobBar'.worst = jobBar.worst
          /\ jobBar'.main = "end" /\ jobBar'.released = jobBar.released
      BY <2>2, <3>1, RefusalSeen, RefusalSeenNext
    <3>. QED  BY <2>2, <3>1, <3>2, Fields DEF Promise!Answered
  <2>3. CASE r.by = "main" /\ main # "refused"
    <3>1. /\ dl.pc # "off" /\ UNCHANGED <<main, dl>>
          /\ rep' = [rep EXCEPT !.pc = IF r.type = "result" THEN "end" ELSE "recv"]
      BY <2>3 DEF Answer, WaitingInv, DownloaderInv
    <3>2. /\ rep'.pc = (IF r.type = "result" THEN "end" ELSE "recv")
          /\ rep'.n = rep.n /\ rep'.worst = rep.worst
      BY <3>1 DEF TypeOK
    <3>3. /\ jobBar'.dl = jobBar.dl /\ jobBar'.dlst = jobBar.dlst /\ jobBar'.total = jobBar.total
          /\ jobBar'.rep = jobBar.rep /\ jobBar'.worst = jobBar.worst
          /\ jobBar'.main = (IF r.type = "result" THEN "end" ELSE "run")
          /\ jobBar'.released = jobBar.released
      BY <1>1, <3>1, <3>2, DownloadSeen, DownloadSeenNext
    <3>. QED  BY <2>3, <3>3, Fields DEF Promise!Answered
  <2>. QED  BY <1>1, <2>1, <2>2, <2>3
<1>. QED  BY <1>1, <1>2 DEF Promise!Answer

-----------------------------------------------------------------------------
(* The inductive invariant, and what follows from it. *)

IInv == TypeOK /\ DownloaderInv /\ WaitingInv /\ ChannelInv /\ SentInv

\* It holds of a job that has just been taken ...
LEMMA InitIInv == Init => IInv
<1>1. SUFFICES ASSUME Init
               PROVE  IInv
  OBVIOUS
<1>2. TypeOK
  <2>1. 0 \in 0 .. NCases /\ 0 \in 0 .. 0 /\ 0 \in 0 .. 2 * NCases
    OBVIOUS
  <2>2. statuses \in Seq(Total \cup Status) /\ sent \in Seq(ReportKinds) /\ Len(statuses) <= StatusCap
    BY <1>1 DEF Init
  <2>3. rep \in [pc : {"off", "recv", "post", "end"}, n : 0 .. 2 * NCases, worst : CaseVerdicts]
    BY <1>1, <2>1 DEF Init, CaseVerdicts
  <2>4. dl \in [pc : {"off", "input", "output", "send", "post", "mark", "close", "end"},
                i : 0 .. NCases]
    BY <1>1, <2>1 DEF Init
  <2>. QED  BY <1>1, <2>1, <2>2, <2>3, <2>4 DEF Init, TypeOK
<1>3. DownloaderInv /\ WaitingInv
  BY <1>1 DEF Init, DownloaderInv, WaitingInv
<1>4. ChannelInv
  <2>1. CasesIn = 0 /\ Produced = 0
    BY <1>1 DEF Init, CasesIn, Produced
  <2>. QED  BY <1>1, <2>1 DEF Init, ChannelInv
<1>5. SentInv
  <2>1. sent = <<>> /\ Mains = {} /\ MainResults = {} /\ rep.n = 0
    BY <1>1 DEF Init, Mains, MainResults
  <2>2. Promise!ReportsInOrder /\ Promise!AcceptedIsComplete
    BY <2>1 DEF Promise!ReportsInOrder, Promise!AcceptedIsComplete
  <2>3. \A c \in CaseIds : ~(2 * c + 1 < rep.n)
    BY <2>1 DEF CaseIds
  <2>. QED  BY <1>1, <2>1, <2>2, <2>3 DEF SentInv, Init
<1>. QED  BY <1>2, <1>3, <1>4, <1>5 DEF IInv

\* ... and every step of a goroutine keeps it.
LEMMA NextIInv == IInv /\ [Next]_vars => IInv'
<1>1. CASE Next
  BY <1>1, TypeStep, DownloaderStep, WaitingStep, ChannelStep, SentStep DEF IInv
<1>2. CASE UNCHANGED vars
  <2>1. SUFFICES ASSUME IInv
                 PROVE  IInv'
    OBVIOUS
  <2>2. UNCHANGED <<main, dl, handed, taken, casesClosed, result, statuses, rep, responded, locks,
                    inflight, sent>>
    BY <1>2 DEF vars, runVars, dlVars
  <2>3. (TypeOK /\ DownloaderInv /\ WaitingInv)'
    BY <2>1, <2>2 DEF IInv, TypeOK, DownloaderInv, WaitingInv
  <2>4. ChannelInv'
    BY <2>1, <2>2 DEF IInv, ChannelInv, CasesIn, Produced, TotalToCome, TotalTaken
  <2>5. SentInv'
    BY <2>1, <2>2, SilentKeepsOrder DEF IInv, SentInv
  <2>. QED  BY <2>3, <2>4, <2>5 DEF IInv
<1>. QED  BY <1>1, <1>2

\* So it always holds.
LEMMA Inductive == Spec => []IInv
  BY InitIInv, NextIInv, PTL DEF Spec

\* The goroutines stay within their program counters and channels
\* (ppjudge/main.go).
THEOREM TypeCorrect == Spec => []TypeOK
<1>1. IInv => TypeOK
  BY DEF IInv
<1>. QED  BY <1>1, Inductive, PTL

\* oneFinish is called when every lock on a file is given back and the
\* downloader, which takes them, has returned: whatever fails on the way.
THEOREM LocksAreGivenBack == Spec => []NoLockLeaks
<1>1. IInv => NoLockLeaks
  BY DEF IInv, DownloaderInv, NoLockLeaks
<1>. QED  BY <1>1, Inductive, PTL

\* What the job has reported is in order, an accepted total follows an accepted
\* verdict on every case, and no verdict on all follows a failed download.
THEOREM ReportsTrue == Spec => []ReportsAreTrue
<1>1. IInv => ReportsAreTrue
  <2>1. SUFFICES ASSUME IInv
                 PROVE  ReportsAreTrue
    OBVIOUS
  <2>2. ASSUME jobBar.dlst = "failed", NEW i \in DOMAIN sent,
               sent[i].by = "main", sent[i].type = "result"
        PROVE  sent[i].status \in {"CE", "IE"}
    <3>1. i \in MainResults
      BY <2>1, <2>2 DEF IInv, TypeOK, MainResults, Mains
    <3>2. CASE dl.pc = "off"
      BY <2>1, <2>2, <3>2, RefusalSeen DEF IInv
    <3>3. CASE dl.pc # "off"
      <4>1. dl.pc = "mark" \/ responded
        BY <2>1, <2>2, <3>3, DownloadSeen DEF IInv
      <4>. QED  BY <2>1, <3>1, <4>1 DEF IInv, SentInv
    <3>. QED  BY <3>2, <3>3
  <2>. QED  BY <2>1, <2>2 DEF ReportsAreTrue, IInv, SentInv, Promise!FailedIsNotJudged
<1>. QED  BY <1>1, Inductive, PTL

\* Every step of the goroutines is a step the promise allows, or none.
LEMMA StepPromised ==
  IInv /\ IInv' /\ [Next]_vars => [Promise!Next]_(Promise!vars)
<1>1. SUFFICES ASSUME IInv, IInv', [Next]_vars
               PROVE  Promise!Next \/ UNCHANGED <<jobBar, inflight, sent>>
  BY DEF Promise!vars
<1>. USE DEF IInv, Promise!Next
<1>2. CASE Refuse
  BY <1>1, <1>2, RefusePromised
<1>3. CASE RunAborts \/ RunTotals
  BY <1>1, <1>3, RunReturnsPromised
<1>4. CASE \/ Start \/ RunReady \/ RunTakesCase \/ RunBeginsCase \/ RunJudgesCase
           \/ RunReturns \/ Unlock \/ DownloadFile \/ MarkResponded \/ DownloaderReturns
  BY <1>1, <1>4, HiddenSteps
<1>5. CASE HandCase \/ DownloadError
  BY <1>1, <1>5, DownloadPromised, DownloadErrorPromised
<1>6. CASE ReportCase \/ ReportTotal
  BY <1>1, <1>6, CasePromised, TotalPromised
<1>7. CASE Finish
  BY <1>1, <1>7, FinishPromised
<1>8. ASSUME NEW r \in inflight, Answer(r)
      PROVE  Promise!Next
  BY <1>1, <1>8, AnswerPromised
<1>9. CASE UNCHANGED vars
  BY <1>9 DEF vars, runVars, dlVars, jobBar, Refusing
<1>. QED  BY <1>1, <1>2, <1>3, <1>4, <1>5, <1>6, <1>7, <1>8, <1>9
          DEF Next, Main, Downloader, Reporter

\* JudgeJob implements JobReports: the view JudgePipeline takes of a job, in
\* which goroutines, channels and locks do not appear, is a view of the code.
THEOREM JobKeepsPromise == Spec => KeepsPromise
<1>1. ASSUME Init
      PROVE  Promise!Init
  <2>1. main = "prep" /\ dl.pc = "off" /\ inflight = {} /\ sent = <<>> /\ IInv
    BY <1>1, InitIInv DEF Init
  <2>2. /\ jobBar.dl = 0 /\ jobBar.rep = 0 /\ jobBar.worst = "AC" /\ jobBar.total = "none"
        /\ jobBar.main = "run" /\ jobBar.dlst = (IF NCases = 0 THEN "done" ELSE "run")
    BY <2>1, RefusalSeen DEF IInv
  <2>3. jobBar.released = FALSE
    BY <2>1 DEF jobBar
  <2>4. jobBar = Promise!NewState
    BY <2>2, <2>3, Fields DEF Promise!NewState
  <2>. QED  BY <2>1, <2>4 DEF Promise!Init
<1>. QED  BY <1>1, StepPromised, Inductive, PTL DEF Spec, KeepsPromise, Promise!Spec

-----------------------------------------------------------------------------
(* judge.Run: the places it makes and the statuses it tells. *)

USE JudgeRunAssumption DEF JudgeRunAssumption

-----------------------------------------------------------------------------
(* Sequences of deferred calls. *)

Call == {"rmdir", "delete"} \X Roles
Elems(s) == {s[i] : i \in 1 .. Len(s)}
NoTwice(s) == \A i, k \in 1 .. Len(s) : s[i] = s[k] => i = k
\* The removals of containers come before those of directories.
DeletesFirst(s) == \A i, k \in 1 .. Len(s) : i < k /\ s[k][1] = "delete" => s[i][1] = "delete"
Stack(s) == s \in Seq(Call) /\ NoTwice(s) /\ DeletesFirst(s)

\* A call is deferred that was not.
LEMMA Pushes ==
  ASSUME NEW s, Stack(s), NEW x \in Call, x \notin Elems(s),
         x[1] = "delete" \/ \A y \in Elems(s) : y[1] # "delete"
  PROVE  /\ Stack(<<x>> \o s) /\ Elems(<<x>> \o s) = {x} \cup Elems(s)
         /\ <<x>> \o s # <<>> /\ Head(<<x>> \o s) = x
<1> DEFINE t == <<x>> \o s
<1>1. t \in Seq(Call) /\ Len(t) = Len(s) + 1 /\ Len(s) \in Nat
  BY DEF Stack
<1>2. t[1] = x /\ \A i \in 1 .. Len(s) : t[i + 1] = s[i]
  BY DEF Stack
<1> HIDE DEF t
<1>3. \A i \in 1 .. Len(t) : \/ i = 1 /\ t[i] = x
                             \/ i - 1 \in 1 .. Len(s) /\ t[i] = s[i - 1]
  BY <1>1, <1>2
<1>4. Elems(t) = {x} \cup Elems(s)
  <2>1. ASSUME NEW y \in Elems(t) PROVE y \in {x} \cup Elems(s)
    BY <1>3, <2>1 DEF Elems
  <2>2. x \in Elems(t)
    BY <1>1, <1>2 DEF Elems
  <2>3. ASSUME NEW i \in 1 .. Len(s) PROVE s[i] \in Elems(t)
    <3>1. i + 1 \in 1 .. Len(t)
      BY <1>1
    <3>. QED  BY <1>2, <3>1 DEF Elems
  <2>. QED  BY <2>1, <2>2, <2>3 DEF Elems
<1>5. NoTwice(t)
  <2> SUFFICES ASSUME NEW i \in 1 .. Len(t), NEW k \in 1 .. Len(t), t[i] = t[k] PROVE i = k
    BY DEF NoTwice
  <2>1. ASSUME NEW l \in 1 .. Len(s) PROVE s[l] # x
    BY DEF Elems
  <2>2. CASE i = 1 \/ k = 1
    <3>1. t[i] = x
      BY <1>2, <2>2
    <3>2. \A l \in 1 .. Len(t) : t[l] = x => l = 1
      BY <1>3, <2>1
    <3>. QED  BY <3>1, <3>2
  <2>3. CASE i # 1 /\ k # 1
    <3>1. /\ i - 1 \in 1 .. Len(s) /\ k - 1 \in 1 .. Len(s)
          /\ s[i - 1] = s[k - 1]
      BY <1>3, <2>3
    <3>2. i - 1 = k - 1
      BY <3>1 DEF Stack, NoTwice
    <3>. QED  BY <1>1, <3>2
  <2>. QED  BY <2>2, <2>3
<1>6. DeletesFirst(t)
  <2> SUFFICES ASSUME NEW i \in 1 .. Len(t), NEW k \in 1 .. Len(t), i < k, t[k][1] = "delete"
               PROVE  t[i][1] = "delete"
    BY DEF DeletesFirst
  <2>1. k - 1 \in 1 .. Len(s) /\ t[k] = s[k - 1] /\ s[k - 1] \in Elems(s)
    BY <1>1, <1>3 DEF Elems
  <2>2. CASE i = 1
    BY <1>2, <2>1, <2>2
  <2>3. CASE i # 1
    BY <1>1, <1>3, <2>1, <2>3, SMTT(30) DEF Stack, DeletesFirst
  <2>. QED  BY <2>2, <2>3
<1>7. t # <<>> /\ Head(t) = x
  BY <1>1, <1>2
<1>. QED  BY <1>1, <1>4, <1>5, <1>6, <1>7 DEF Stack, t

\* The last call that was deferred is made.
LEMMA Pops ==
  ASSUME NEW s, Stack(s), s # <<>>
  PROVE  /\ Stack(Tail(s)) /\ Head(s) \in Call
         /\ Elems(s) = {Head(s)} \cup Elems(Tail(s)) /\ Head(s) \notin Elems(Tail(s))
         /\ Head(s)[1] = "rmdir" => \A y \in Elems(s) : y[1] # "delete"
<1> DEFINE t == Tail(s)
<1>1. /\ t \in Seq(Call) /\ Len(t) = Len(s) - 1 /\ Len(s) \in Nat \ {0}
      /\ Head(s) = s[1] /\ s[1] \in Call
      /\ \A i \in 1 .. Len(t) : t[i] = s[i + 1]
  BY DEF Stack
<1> HIDE DEF t
<1>2. \A i \in 1 .. Len(t) : i + 1 \in 1 .. Len(s)
  BY <1>1
<1>3. \A i \in 1 .. Len(s) : i = 1 \/ (i - 1 \in 1 .. Len(t) /\ s[i] = t[i - 1])
  BY <1>1
<1>4. Elems(s) = {s[1]} \cup Elems(t)
  BY <1>1, <1>2, <1>3, SMTT(30) DEF Elems
<1>5. s[1] \notin Elems(t)
  <2> SUFFICES ASSUME NEW i \in 1 .. Len(t), t[i] = s[1] PROVE FALSE
    BY DEF Elems
  <2>1. i + 1 \in 1 .. Len(s) /\ 1 \in 1 .. Len(s) /\ s[i + 1] = s[1]
    BY <1>1, <1>2
  <2>. QED  BY <2>1 DEF Stack, NoTwice
<1>6. NoTwice(t) /\ DeletesFirst(t)
  <2>1. ASSUME NEW i \in 1 .. Len(t), NEW k \in 1 .. Len(t)
        PROVE  /\ t[i] = t[k] => i = k
               /\ i < k /\ t[k][1] = "delete" => t[i][1] = "delete"
    <3>1. /\ i + 1 \in 1 .. Len(s) /\ k + 1 \in 1 .. Len(s)
          /\ t[i] = s[i + 1] /\ t[k] = s[k + 1]
      BY <1>1, <1>2
    <3>2. t[i] = t[k] => i + 1 = k + 1
      BY <3>1 DEF Stack, NoTwice
    <3>3. i + 1 < k + 1 /\ s[k + 1][1] = "delete" => s[i + 1][1] = "delete"
      BY <3>1 DEF Stack, DeletesFirst
    <3>. QED  BY <3>1, <3>2, <3>3
  <2>. QED  BY <2>1 DEF NoTwice, DeletesFirst
<1>7. ASSUME s[1][1] = "rmdir", NEW y \in Elems(s) PROVE y[1] # "delete"
  <2>1. PICK i \in 1 .. Len(s) : y = s[i]
    BY DEF Elems
  <2>2. i # 1 => 1 < i /\ 1 \in 1 .. Len(s)
    BY <1>1
  <2>. QED  BY <1>7, <2>1, <2>2 DEF Stack, DeletesFirst
<1>. QED  BY <1>1, <1>4, <1>5, <1>6, <1>7 DEF Stack, t

-----------------------------------------------------------------------------
(* What Run does before the first case. *)

Kinds == {"simple", "code"}
Steps(kind) == 1 .. Len(SetUp[kind])

\* The calls deferred by the first n steps.
Calls(kind, n) ==
  {c \in Call : \E i \in 1 .. n :
     SetUp[kind][i] = <<IF c[1] = "rmdir" THEN "mkdir" ELSE "make", c[2]>>}

\* The steps, one by one.
LEMMA SetUpSteps ==
  /\ Len(SetUp["simple"]) = 3 /\ Len(SetUp["code"]) = 7
  /\ SetUp["simple"][1] = <<"mkdir", "judged">> /\ SetUp["simple"][2] = <<"build", "judged">>
  /\ SetUp["simple"][3] = <<"make", "judged">>
  /\ SetUp["code"][1] = <<"mkdir", "data">> /\ SetUp["code"][2] = <<"mkdir", "checker">>
  /\ SetUp["code"][3] = <<"mkdir", "judged">> /\ SetUp["code"][4] = <<"build", "checker">>
  /\ SetUp["code"][5] = <<"build", "judged">> /\ SetUp["code"][6] = <<"make", "judged">>
  /\ SetUp["code"][7] = <<"make", "checker">>
  BY DEF SetUp

\* What a step has before it.
LEMMA StepFacts ==
  ASSUME NEW kind \in Kinds, NEW k \in Steps(kind),
         NEW what, NEW role, SetUp[kind][k] = <<what, role>>
  PROVE  /\ k \in 1 .. 7 /\ Len(SetUp[kind]) \in 1 .. 7
         /\ what \in {"mkdir", "build", "make"} /\ role \in Roles
         /\ what \in {"build", "make"} =>
              (\E i \in 1 .. k - 1 : SetUp[kind][i] = <<"mkdir", role>>)
         /\ what \in {"build", "make"} => (\A i \in 1 .. k - 1 : SetUp[kind][i] # <<"make", role>>)
         /\ what = "mkdir" => \A i \in 1 .. k - 1 : /\ SetUp[kind][i] # <<"mkdir", role>>
                                                     /\ \A r : SetUp[kind][i] # <<"make", r>>
         /\ what = "make" /\ role # "judged" =>
              role = "checker" /\ kind = "code" /\ k = Len(SetUp[kind])
<1>1. CASE kind = "simple"
  <2>1. k \in {1, 2, 3} /\ Len(SetUp[kind]) = 3
    BY <1>1, SetUpSteps DEF Steps
  <2>. QED  BY <1>1, <2>1, SetUpSteps DEF Roles
<1>2. CASE kind = "code"
  <2>1. k \in 1 .. 7 /\ Len(SetUp[kind]) = 7
    BY <1>2, SetUpSteps DEF Steps
  <2>2. k \in {1, 2, 3}
        \/ k \in {4, 5, 6, 7}
    BY <2>1
  <2>3. CASE k \in {1, 2, 3}
    BY <1>2, <2>1, <2>3, SetUpSteps DEF Roles
  <2>4. CASE k \in {4, 5, 6, 7}
    BY <1>2, <2>1, <2>4, SetUpSteps DEF Roles
  <2>. QED  BY <2>2, <2>3, <2>4
<1>. QED  BY <1>1, <1>2 DEF Kinds

-----------------------------------------------------------------------------
(* The deferred calls of a job. *)

Before(J) == J.pc \in {"setup", "building", "built"}
Running(J) == J.pc \in {"recv", "exec", "check"}
Of(J) == SetUp[J.kind][J.step]
Owes(J, what, role) == <<what, role>> \in Elems(J.defers)

\* The calls deferred follow from the step a job is at; once it ends they are
\* some of the last ones.
StackInv(J) ==
  /\ Stack(J.defers)
  /\ \A r \in Roles : Owes(J, "delete", r) => Owes(J, "rmdir", r)
  /\ J.pc \in {"idle", "end"} => J.defers = <<>>
  /\ J.pc = "idle" => J.step = 1
  /\ Before(J) => J.step \in Steps(J.kind) /\ Elems(J.defers) = Calls(J.kind, J.step - 1)
  /\ Running(J) => Elems(J.defers) = Calls(J.kind, Len(SetUp[J.kind]))
  /\ J.pc \in {"building", "built"} => Of(J)[1] = "build"
  /\ J.pc = "check" => J.kind = "code"
  /\ J.pc = "panic" => J.missing
  /\ J.missing =>
       \/ J.pc = "panic" /\ ~Owes(J, "delete", "checker")
       \/ /\ J.pc \in {"recv", "exec", "check", "unwind"}
          /\ J.defers # <<>> /\ Head(J.defers) = <<"delete", "checker">>

\* Job J has a container and a cgroup named n, or had when it is ending.
MadeAt(J, n) ==
  \/ J.pc = "building" /\ n = J.name[Of(J)[2]]
  \/ \E r \in Roles : /\ Owes(J, "delete", r) /\ n = J.name[r]
                      /\ ~(J.missing /\ r = "checker")

DirsInv ==
  /\ \A j \in Jobs, r \in Roles :
       Owes(job[j], "rmdir", r) => dirs[job[j].name[r]] = [job |-> j, role |-> r]
  /\ \A n \in Names : dirs[n] # Free =>
       /\ dirs[n].job \in Jobs /\ dirs[n].role \in Roles
       /\ Owes(job[dirs[n].job], "rmdir", dirs[n].role)
       /\ job[dirs[n].job].name[dirs[n].role] = n

\* Where no removal failed, a container or cgroup is of a job that has it.
LeftInv == \A n \in Names \ kept, j \in Jobs : boxes[n] = j \/ cgroups[n] = j => MadeAt(job[j], n)

\* While a job works, what it has made is there.
OwnInv == \A j \in Jobs, n \in Names :
  (Before(job[j]) \/ Running(job[j])) /\ MadeAt(job[j], n) => boxes[n] = j /\ cgroups[n] = j

PlaceInv == (\A j \in Jobs : StackInv(job[j])) /\ DirsInv /\ LeftInv /\ OwnInv

\* Of what is deferred while a job runs.
LEMMA AllCalls ==
  ASSUME NEW kind \in Kinds
  PROVE  LET all == Calls(kind, Len(SetUp[kind]))
         IN /\ <<"rmdir", "judged">> \in all /\ <<"delete", "judged">> \in all
            /\ kind = "code" => /\ <<"rmdir", "checker">> \in all /\ <<"rmdir", "data">> \in all
                                /\ <<"delete", "checker">> \in all
<1>1. \A r \in Roles : <<"rmdir", r>> \in Call /\ <<"delete", r>> \in Call
  BY DEF Call
<1>2. /\ <<"rmdir", "judged">>[1] = "rmdir" /\ <<"rmdir", "judged">>[2] = "judged"
      /\ <<"delete", "judged">>[1] # "rmdir" /\ <<"delete", "judged">>[2] = "judged"
      /\ <<"rmdir", "checker">>[1] = "rmdir" /\ <<"rmdir", "checker">>[2] = "checker"
      /\ <<"delete", "checker">>[1] # "rmdir" /\ <<"delete", "checker">>[2] = "checker"
      /\ <<"rmdir", "data">>[1] = "rmdir" /\ <<"rmdir", "data">>[2] = "data"
  OBVIOUS
<1>3. CASE kind = "simple"
  <2>1. 1 \in 1 .. Len(SetUp[kind]) /\ 3 \in 1 .. Len(SetUp[kind])
    BY <1>3, SetUpSteps
  <2>2. SetUp[kind][1] = <<"mkdir", "judged">> /\ SetUp[kind][3] = <<"make", "judged">>
    BY <1>3, SetUpSteps
  <2>. QED  BY <1>1, <1>2, <1>3, <2>1, <2>2 DEF Calls, Roles
<1>4. CASE kind = "code"
  <2>1. {1, 2, 3, 6, 7} \subseteq 1 .. Len(SetUp[kind])
    BY <1>4, SetUpSteps
  <2>2. /\ SetUp[kind][1] = <<"mkdir", "data">> /\ SetUp[kind][2] = <<"mkdir", "checker">>
        /\ SetUp[kind][3] = <<"mkdir", "judged">> /\ SetUp[kind][6] = <<"make", "judged">>
        /\ SetUp[kind][7] = <<"make", "checker">>
    BY <1>4, SetUpSteps
  <2>. QED  BY <1>1, <1>2, <1>4, <2>1, <2>2 DEF Calls, Roles
<1>. QED  BY <1>3, <1>4 DEF Kinds

\* What a step adds to the calls.
LEMMA CallsGrow ==
  ASSUME NEW kind \in Kinds, NEW k \in Steps(kind), NEW what, NEW role,
         SetUp[kind][k] = <<what, role>>
  PROVE  /\ what = "build" => Calls(kind, k) = Calls(kind, k - 1)
         /\ what = "mkdir" => /\ Calls(kind, k) = {<<"rmdir", role>>} \cup Calls(kind, k - 1)
                              /\ <<"rmdir", role>> \notin Calls(kind, k - 1)
                              /\ \A c \in Calls(kind, k - 1) : c[1] # "delete"
         /\ what = "make" => Calls(kind, k) = {<<"delete", role>>} \cup Calls(kind, k - 1)
         /\ what \in {"build", "make"} => /\ <<"rmdir", role>> \in Calls(kind, k - 1)
                                          /\ <<"delete", role>> \notin Calls(kind, k - 1)
<1>1. /\ k \in Nat /\ k - 1 \in Nat /\ role \in Roles /\ what \in {"mkdir", "build", "make"}
      /\ \A i : i \in 1 .. k <=> i = k \/ i \in 1 .. k - 1
  BY StepFacts
<1>2. \A c \in Call : /\ c[1] \in {"rmdir", "delete"} /\ c[2] \in Roles
                      /\ c = <<c[1], c[2]>>
  BY DEF Call
<1>3. \A r \in Roles : <<"rmdir", r>> \in Call /\ <<"delete", r>> \in Call
  BY DEF Call
<1>4. \A r : /\ <<"rmdir", r>>[1] = "rmdir" /\ <<"rmdir", r>>[2] = r
             /\ <<"delete", r>>[1] = "delete" /\ <<"delete", r>>[2] = r
  OBVIOUS
<1> DEFINE Did(n, w, r) == \E i \in 1 .. n : SetUp[kind][i] = <<w, r>>
<1>5. \A n : \A r \in Roles :
        /\ <<"rmdir", r>> \in Calls(kind, n) <=> Did(n, "mkdir", r)
        /\ <<"delete", r>> \in Calls(kind, n) <=> Did(n, "make", r)
  BY <1>3, <1>4 DEF Calls
<1>6. \A n : \A c \in Calls(kind, n) :
        /\ c \in Call
        /\ c[1] = "delete" => Did(n, "make", c[2])
  BY <1>2 DEF Calls
<1>7. \A w, r : Did(k, w, r) <=> Did(k - 1, w, r) \/ (what = w /\ role = r)
  <2>1. \A w, r : <<what, role>> = <<w, r>> <=> what = w /\ role = r
    OBVIOUS
  <2>. QED  BY <1>1, <2>1
<1>8. \A c \in Call : \/ c = <<"rmdir", c[2]>> /\ c[2] \in Roles
                      \/ c = <<"delete", c[2]>> /\ c[2] \in Roles
  BY <1>2
<1>14. what \in {"build", "make"} => Did(k - 1, "mkdir", role) /\ ~Did(k - 1, "make", role)
  <2>1. ASSUME what \in {"build", "make"}
        PROVE  \E i \in 1 .. k - 1 : SetUp[kind][i] = <<"mkdir", role>>
    BY <2>1, StepFacts
  <2>2. ASSUME what \in {"build", "make"}, NEW i \in 1 .. k - 1
        PROVE  SetUp[kind][i] # <<"make", role>>
    BY <2>2, StepFacts
  <2>. QED  BY <2>1, <2>2
<1>15. what = "mkdir" => ~Did(k - 1, "mkdir", role) /\ \A r : ~Did(k - 1, "make", r)
  BY <1>1, StepFacts, SMTT(30)
<1> HIDE DEF Did
<1>9. ASSUME NEW c \in Call
      PROVE  c \in Calls(kind, k) <=>
        \/ c \in Calls(kind, k - 1)
        \/ what = "mkdir" /\ c = <<"rmdir", role>>
        \/ what = "make" /\ c = <<"delete", role>>
  <2>1. PICK r \in Roles : c = <<"rmdir", r>> \/ c = <<"delete", r>>
    BY <1>8
  <2>2. \A s : <<"rmdir", r>> # <<"delete", s>> /\ (<<"rmdir", r>> = <<"rmdir", s>> => r = s)
               /\ <<"delete", r>> # <<"rmdir", s>> /\ (<<"delete", r>> = <<"delete", s>> => r = s)
    BY <1>4
  <2>3. CASE c = <<"rmdir", r>>
    <3>1. /\ c \in Calls(kind, k) <=> Did(k, "mkdir", r)
          /\ c \in Calls(kind, k - 1) <=> Did(k - 1, "mkdir", r)
      BY <1>5, <2>3
    <3>2. (c = <<"rmdir", role>> <=> role = r) /\ c # <<"delete", role>>
      BY <2>2, <2>3
    <3>3. Did(k, "mkdir", r) <=> Did(k - 1, "mkdir", r) \/ (what = "mkdir" /\ role = r)
      BY <1>7
    <3>. QED  BY <3>1, <3>2, <3>3
  <2>4. CASE c = <<"delete", r>>
    <3>1. /\ c \in Calls(kind, k) <=> Did(k, "make", r)
          /\ c \in Calls(kind, k - 1) <=> Did(k - 1, "make", r)
      BY <1>5, <2>4
    <3>2. (c = <<"delete", role>> <=> role = r) /\ c # <<"rmdir", role>>
      BY <2>2, <2>4
    <3>3. Did(k, "make", r) <=> Did(k - 1, "make", r) \/ (what = "make" /\ role = r)
      BY <1>7
    <3>. QED  BY <3>1, <3>2, <3>3
  <2>. QED  BY <2>1, <2>3, <2>4
<1>10. Calls(kind, k) \subseteq Call /\ Calls(kind, k - 1) \subseteq Call
  BY <1>6
<1>11. <<"rmdir", role>> \in Call /\ <<"delete", role>> \in Call
  BY <1>1, <1>3
<1>12. what \in {"build", "make"} => /\ <<"rmdir", role>> \in Calls(kind, k - 1)
                                     /\ <<"delete", role>> \notin Calls(kind, k - 1)
  BY <1>1, <1>5, <1>14
<1>13. what = "mkdir" => /\ <<"rmdir", role>> \notin Calls(kind, k - 1)
                         /\ \A c \in Calls(kind, k - 1) : c[1] # "delete"
  BY <1>1, <1>5, <1>6, <1>15
<1>. QED  BY <1>9, <1>10, <1>11, <1>12, <1>13

\* The same, by what the step does.
LEMMA MkdirGrows ==
  ASSUME NEW kind \in Kinds, NEW k \in Steps(kind), NEW role, SetUp[kind][k] = <<"mkdir", role>>
  PROVE  /\ Calls(kind, k) = {<<"rmdir", role>>} \cup Calls(kind, k - 1)
         /\ <<"rmdir", role>> \notin Calls(kind, k - 1)
         /\ \A c \in Calls(kind, k - 1) : c[1] # "delete"
  BY CallsGrow

\* A compiler defers nothing.
LEMMA BuildGrows ==
  ASSUME NEW kind \in Kinds, NEW k \in Steps(kind), NEW role, SetUp[kind][k] = <<"build", role>>
  PROVE  /\ Calls(kind, k) = Calls(kind, k - 1)
         /\ <<"rmdir", role>> \in Calls(kind, k - 1) /\ <<"delete", role>> \notin Calls(kind, k - 1)
  BY CallsGrow

\* A container defers its deletion.
LEMMA MakeGrows ==
  ASSUME NEW kind \in Kinds, NEW k \in Steps(kind), NEW role, SetUp[kind][k] = <<"make", role>>
  PROVE  /\ Calls(kind, k) = {<<"delete", role>>} \cup Calls(kind, k - 1)
         /\ <<"rmdir", role>> \in Calls(kind, k - 1) /\ <<"delete", role>> \notin Calls(kind, k - 1)
  BY CallsGrow

-----------------------------------------------------------------------------
(* The statuses of a job. *)

\* Statuses s, of cases alone, in turn begun and judged; w is the worst verdict.
CasesTold(s, w) ==
  /\ w \in Verdicts
  /\ \A i \in 1 .. Len(s) :
       /\ ~s[i].total
       /\ s[i].status = "JG" <=> i % 2 = 1
       /\ s[i].status # "JG" => s[i].status \in Verdicts /\ Rank(s[i].status) <= Rank(w)
  /\ w # "AC" => \E i \in 1 .. Len(s) : s[i].status = w

\* All that was told before the total, which is the last one.
Front(s) == [i \in 1 .. Len(s) - 1 |-> s[i]]

OutInv(J, s) ==
  /\ s \in Seq(JudgeStatus)
  /\ J.pc = "idle" \/ Before(J) => s = <<>> /\ J.taken = 0 /\ J.worst = "AC"
  /\ J.pc = "recv" => Len(s) = 2 * J.taken /\ CasesTold(s, J.worst)
  /\ J.pc \in {"exec", "check"} => Len(s) = 2 * J.taken - 1 /\ J.taken > 0 /\ CasesTold(s, J.worst)
  /\ J.pc \in {"unwind", "end"} =>
       /\ s # <<>> /\ s[Len(s)].total
       /\ \/ Len(s) = 1 /\ s[1].status \in {"CE", "IE"}
          \/ /\ Len(s) % 2 = 1 /\ s[Len(s)].status = J.worst
             /\ CasesTold(Front(s), J.worst)

StatusInv == \A j \in Jobs : OutInv(job[j], out[j])

-----------------------------------------------------------------------------
(* What a step does to its job. *)

\* Job j becomes K, and nothing happens to the others.
Becomes(j, K) ==
  /\ job' \in [Jobs -> Job] /\ job'[j] = K
  /\ \A i \in Jobs : i # j => job'[i] = job[i]

\* One job takes the step.
LEMMA GoesBecomes ==
  ASSUME RunTypeOK, NEW j \in Jobs, NEW K \in Job, Goes(j, K)
  PROVE  Becomes(j, K)
  BY DEF RunTypeOK, Goes, Becomes

\* The step that comes next pushes call d, or none.
Pushed(J, d) ==
  \/ Of(J)[1] = "build" /\ d = <<>>
  \/ Of(J)[1] = "mkdir" /\ d = << <<"rmdir", Of(J)[2]>> >>
  \/ Of(J)[1] = "make" /\ d = << <<"delete", Of(J)[2]>> >>

\* The step a job is at.
LEMMA AtStep ==
  ASSUME NEW J \in Job, StackInv(J), Before(J)
  PROVE  /\ J.kind \in Kinds /\ J.step \in Steps(J.kind) /\ J.step \in 1 .. 7
         /\ J.step <= Len(SetUp[J.kind]) /\ Len(SetUp[J.kind]) \in 1 .. 7
         /\ SetUp[J.kind][J.step] = <<Of(J)[1], Of(J)[2]>>
         /\ Of(J)[1] \in {"mkdir", "build", "make"} /\ Of(J)[2] \in Roles
         /\ J.name[Of(J)[2]] \in Names
         /\ ~J.missing
         /\ Of(J)[1] \in {"build", "make"} =>
              Owes(J, "rmdir", Of(J)[2]) /\ ~Owes(J, "delete", Of(J)[2])
         /\ Of(J)[1] = "mkdir" => ~Owes(J, "rmdir", Of(J)[2]) /\ \A c \in Elems(J.defers) : c[1] # "delete"
<1>1. J.kind \in Kinds /\ J.step \in Steps(J.kind)
  BY DEF StackInv, Job, Kinds
<1>2. SetUp[J.kind][J.step] = <<Of(J)[1], Of(J)[2]>>
  <2>1. CASE J.kind = "simple"
    <3>1. J.step \in {1, 2, 3}
      BY <1>1, <2>1, SetUpSteps DEF Steps
    <3>. QED  BY <2>1, <3>1, SetUpSteps DEF Of
  <2>2. CASE J.kind = "code"
    <3>1. J.step \in {1, 2, 3, 4, 5, 6, 7}
      BY <1>1, <2>2, SetUpSteps DEF Steps
    <3>. QED  BY <2>2, <3>1, SetUpSteps DEF Of
  <2>. QED  BY <1>1, <2>1, <2>2 DEF Kinds
<1>3. /\ J.step \in 1 .. 7 /\ Len(SetUp[J.kind]) \in 1 .. 7
      /\ Of(J)[1] \in {"mkdir", "build", "make"} /\ Of(J)[2] \in Roles
  BY <1>1, <1>2, StepFacts
<1>4. J.step <= Len(SetUp[J.kind]) /\ J.name[Of(J)[2]] \in Names /\ ~J.missing
  BY <1>1, <1>3 DEF Steps, Job, StackInv, Before
<1>5. Elems(J.defers) = Calls(J.kind, J.step - 1)
  BY DEF StackInv
<1>6. Of(J)[1] \in {"build", "make"} =>
        Owes(J, "rmdir", Of(J)[2]) /\ ~Owes(J, "delete", Of(J)[2])
  BY <1>1, <1>2, <1>5, BuildGrows, MakeGrows DEF Owes
<1>7. Of(J)[1] = "mkdir" => ~Owes(J, "rmdir", Of(J)[2]) /\ \A c \in Elems(J.defers) : c[1] # "delete"
  BY <1>1, <1>2, <1>5, MkdirGrows DEF Owes
<1>. QED  BY <1>1, <1>2, <1>3, <1>4, <1>6, <1>7

\* The calls deferred after it.
LEMMA PushedCalls ==
  ASSUME NEW J \in Job, StackInv(J), Before(J), NEW d, Pushed(J, d)
  PROVE  /\ Stack(d \o J.defers) /\ Elems(d \o J.defers) = Calls(J.kind, J.step)
         /\ \A r \in Roles : <<"delete", r>> \in Elems(d \o J.defers)
                               => <<"rmdir", r>> \in Elems(d \o J.defers)
         /\ Elems(J.defers) \subseteq Elems(d \o J.defers)
         /\ Of(J)[1] = "mkdir" => Elems(d \o J.defers) = {<<"rmdir", Of(J)[2]>>} \cup Elems(J.defers)
         /\ Of(J)[1] = "make" => /\ Elems(d \o J.defers) = {<<"delete", Of(J)[2]>>} \cup Elems(J.defers)
                                 /\ d \o J.defers # <<>>
                                 /\ Head(d \o J.defers) = <<"delete", Of(J)[2]>>
<1> DEFINE r == Of(J)[2]
           k == J.step
<1>1. /\ J.kind \in Kinds /\ k \in Steps(J.kind) /\ SetUp[J.kind][k] = <<Of(J)[1], r>>
      /\ r \in Roles /\ Stack(J.defers) /\ J.defers \in Seq(Call)
      /\ Elems(J.defers) = Calls(J.kind, k - 1)
      /\ \A q \in Roles : <<"delete", q>> \in Elems(J.defers) => <<"rmdir", q>> \in Elems(J.defers)
  BY AtStep DEF StackInv, Stack, Owes
<1>2. /\ <<"rmdir", r>> \in Call /\ <<"delete", r>> \in Call
      /\ <<"rmdir", r>>[1] = "rmdir" /\ <<"delete", r>>[1] = "delete"
  BY <1>1 DEF Call
<1>3. CASE Of(J)[1] = "build" /\ d = <<>>
  <2>1. d \o J.defers = J.defers
    BY <1>1, <1>3
  <2>2. Calls(J.kind, k) = Calls(J.kind, k - 1)
    <3>1. SetUp[J.kind][k] = <<"build", r>>
      BY <1>1, <1>3
    <3>. QED  BY <1>1, <3>1, BuildGrows, ZenonT(40)
  <2>. QED  BY <1>1, <1>3, <2>1, <2>2
<1>4. CASE Of(J)[1] = "mkdir" /\ d = << <<"rmdir", r>> >>
  <2>1. /\ Calls(J.kind, k) = {<<"rmdir", r>>} \cup Calls(J.kind, k - 1)
        /\ <<"rmdir", r>> \notin Calls(J.kind, k - 1)
        /\ \A c \in Calls(J.kind, k - 1) : c[1] # "delete"
    BY <1>1, <1>4, MkdirGrows
  <2>2. Stack(d \o J.defers) /\ Elems(d \o J.defers) = {<<"rmdir", r>>} \cup Elems(J.defers)
    BY <1>1, <1>2, <1>4, <2>1, Pushes
  <2>3. \A q \in Roles : <<"delete", q>> # <<"rmdir", r>>
    OBVIOUS
  <2>. QED  BY <1>1, <1>4, <2>1, <2>2, <2>3
<1>5. CASE Of(J)[1] = "make" /\ d = << <<"delete", r>> >>
  <2>1. /\ Calls(J.kind, k) = {<<"delete", r>>} \cup Calls(J.kind, k - 1)
        /\ <<"rmdir", r>> \in Calls(J.kind, k - 1) /\ <<"delete", r>> \notin Calls(J.kind, k - 1)
    BY <1>1, <1>5, MakeGrows
  <2>2. /\ Stack(d \o J.defers) /\ Elems(d \o J.defers) = {<<"delete", r>>} \cup Elems(J.defers)
        /\ d \o J.defers # <<>> /\ Head(d \o J.defers) = <<"delete", r>>
    BY <1>1, <1>2, <1>5, <2>1, Pushes
  <2>3. \A q \in Roles : <<"delete", q>> = <<"delete", r>> => q = r
    OBVIOUS
  <2>. QED  BY <1>1, <1>5, <2>1, <2>2, <2>3
<1>. QED  BY <1>3, <1>4, <1>5 DEF Pushed

\* A job that gets on.
LEMMA AdvancedJob ==
  ASSUME NEW j \in Jobs, job[j] \in Job, StackInv(job[j]), Before(job[j]), NEW d, Pushed(job[j], d)
  PROVE  LET J == job[j]
             K == Advanced(j, d)
         IN /\ K \in Job /\ StackInv(K)
            /\ K.pc \in {"setup", "recv"} /\ K.kind = J.kind /\ K.name = J.name
            /\ K.defers = d \o J.defers /\ K.missing = J.missing
            /\ K.taken = J.taken /\ K.worst = J.worst
            /\ Of(J) = <<"make", "checker">> => K.pc = "recv" /\ K.kind = "code"
<1> DEFINE J == job[j]
           K == Advanced(j, d)
<1>1. /\ J.step \in 1 .. 7 /\ Len(SetUp[J.kind]) \in 1 .. 7 /\ J.step <= Len(SetUp[J.kind])
      /\ J.kind \in Kinds /\ ~J.missing /\ J.step \in Steps(J.kind)
      /\ SetUp[J.kind][J.step] = <<Of(J)[1], Of(J)[2]>>
  BY AtStep
<1>2. /\ Stack(d \o J.defers) /\ Elems(d \o J.defers) = Calls(J.kind, J.step)
      /\ \A r \in Roles : <<"delete", r>> \in Elems(d \o J.defers)
                            => <<"rmdir", r>> \in Elems(d \o J.defers)
  BY PushedCalls
<1>3. d \o J.defers \in Seq({"rmdir", "delete"} \X Roles)
  BY <1>2 DEF Stack, Call
<1>4. CASE J.step < Len(SetUp[J.kind])
  <2>1. K = [J EXCEPT !.pc = "setup", !.step = J.step + 1, !.defers = d \o J.defers]
    BY <1>4 DEF Advanced
  <2>2. J.step + 1 \in 1 .. 7 /\ J.step + 1 \in Steps(J.kind) /\ (J.step + 1) - 1 = J.step
    <3> DEFINE n == J.step
               l == Len(SetUp[J.kind])
    <3>1. n \in 1 .. 7 /\ l \in 1 .. 7 /\ n < l
      BY <1>1, <1>4
    <3> HIDE DEF n, l
    <3>2. n + 1 \in 1 .. 7 /\ n + 1 \in 1 .. l /\ (n + 1) - 1 = n
      BY <3>1
    <3>. QED  BY <3>2 DEF Steps, n, l
  <2>3. /\ K \in Job /\ K.pc = "setup" /\ K.kind = J.kind /\ K.name = J.name /\ K.step = J.step + 1
        /\ K.defers = d \o J.defers /\ K.missing = J.missing /\ K.taken = J.taken /\ K.worst = J.worst
    BY <1>3, <2>1, <2>2 DEF Job
  <2>4. StackInv(K)
    BY <1>1, <1>2, <2>2, <2>3 DEF StackInv, Before, Running, Owes
  <2>5. Of(J) # <<"make", "checker">>
    BY <1>1, <1>4, StepFacts DEF Of
  <2>. QED  BY <2>3, <2>4, <2>5
<1>5. CASE ~(J.step < Len(SetUp[J.kind]))
  <2>1. K = [J EXCEPT !.pc = "recv", !.defers = d \o J.defers]
    BY <1>5 DEF Advanced
  <2>2. J.step = Len(SetUp[J.kind])
    BY <1>1, <1>5
  <2>3. /\ K \in Job /\ K.pc = "recv" /\ K.kind = J.kind /\ K.name = J.name
        /\ K.defers = d \o J.defers /\ K.missing = J.missing /\ K.taken = J.taken /\ K.worst = J.worst
    BY <1>3, <2>1 DEF Job
  <2>4. StackInv(K)
    BY <1>1, <1>2, <2>2, <2>3 DEF StackInv, Before, Running, Owes
  <2>5. Of(J) = <<"make", "checker">> => K.kind = "code"
    BY <1>1, <2>3, StepFacts DEF Of
  <2>. QED  BY <2>3, <2>4, <2>5
<1>. QED  BY <1>4, <1>5

\* A job that gives up before the first case.
Aborted(J, d) == [J EXCEPT !.pc = "unwind", !.defers = d \o @]
\* Its deferred calls stay in order.
LEMMA AbortedJob ==
  ASSUME NEW J \in Job, StackInv(J), Before(J), NEW d, Pushed(J, d) \/ d = <<>>
  PROVE  LET K == Aborted(J, d)
         IN /\ K \in Job /\ StackInv(K) /\ K.pc = "unwind" /\ K.name = J.name
            /\ K.defers = d \o J.defers /\ K.missing = J.missing
            /\ d = <<>> => K.defers = J.defers
<1> DEFINE K == Aborted(J, d)
<1>1. ~J.missing /\ J.defers \in Seq(Call)
  BY AtStep DEF StackInv, Stack
<1>2. /\ Stack(d \o J.defers)
      /\ \A r \in Roles : <<"delete", r>> \in Elems(d \o J.defers)
                            => <<"rmdir", r>> \in Elems(d \o J.defers)
      /\ d = <<>> => d \o J.defers = J.defers
  <2>1. CASE d = <<>>
    <3>1. d \o J.defers = J.defers
      BY <1>1, <2>1
    <3>. QED  BY <3>1 DEF StackInv, Owes
  <2>2. CASE d # <<>>
    BY <2>2, PushedCalls
  <2>. QED  BY <2>1, <2>2
<1>3. d \o J.defers \in Seq({"rmdir", "delete"} \X Roles)
  BY <1>2 DEF Stack, Call
<1>4. /\ K \in Job /\ K.pc = "unwind" /\ K.name = J.name
      /\ K.defers = d \o J.defers /\ K.missing = J.missing
  BY <1>3 DEF Aborted, Job
<1>5. StackInv(K)
  BY <1>1, <1>2, <1>4 DEF StackInv, Before, Running, Owes
<1>. QED  BY <1>2, <1>4, <1>5

-----------------------------------------------------------------------------
(* A step leaves the places of other jobs alone. *)

Working(J) == Before(J) \/ Running(J)

\* One name belongs to one job, and to one thing of it.
LEMMA SamePlace ==
  ASSUME DirsInv, NEW i \in Jobs, NEW j \in Jobs, NEW q \in Roles, NEW r \in Roles,
         Owes(job[i], "rmdir", q), Owes(job[j], "rmdir", r), job[i].name[q] = job[j].name[r]
  PROVE  i = j /\ q = r
<1>1. /\ dirs[job[i].name[q]] = [job |-> i, role |-> q]
      /\ dirs[job[j].name[r]] = [job |-> j, role |-> r]
  BY DEF DirsInv
<1>. QED  BY <1>1

\* What a job has made lies in a directory of its own.
LEMMA MadeInside ==
  ASSUME RunTypeOK, PlaceInv, NEW j \in Jobs, NEW n, MadeAt(job[j], n)
  PROVE  n \in Names /\ dirs[n] # Free /\ dirs[n].job = j
<1>1. PICK r \in Roles : Owes(job[j], "rmdir", r) /\ n = job[j].name[r]
  <2>1. job[j] \in Job /\ StackInv(job[j])
    BY DEF RunTypeOK, PlaceInv
  <2>2. CASE job[j].pc = "building" /\ n = job[j].name[Of(job[j])[2]]
    BY <2>1, <2>2, AtStep DEF Before, StackInv
  <2>3. CASE \E r \in Roles : Owes(job[j], "delete", r) /\ n = job[j].name[r]
    BY <2>1, <2>3 DEF StackInv
  <2>. QED  BY <2>2, <2>3 DEF MadeAt
<1>2. dirs[n] = [job |-> j, role |-> r]
  BY <1>1 DEF PlaceInv, DirsInv
<1>. QED  BY <1>1, <1>2 DEF RunTypeOK, Job, Free, Nobody

\* Job j has to do with the name n alone.
Touches(j, n) ==
  /\ dirs[n] = Free \/ dirs[n].job = j
  /\ dirs'[n] = Free \/ dirs'[n].job = j
  /\ boxes'[n] \in {boxes[n], j, Nobody} /\ cgroups'[n] \in {cgroups[n], j, Nobody}
Leaves(n) == dirs'[n] = dirs[n] /\ boxes'[n] = boxes[n] /\ cgroups'[n] = cgroups[n]

\* The places of job j, after the step.
DirsOf(j, K) ==
  /\ \A r \in Roles : Owes(K, "rmdir", r) => dirs'[K.name[r]] = [job |-> j, role |-> r]
  /\ \A n \in Names : dirs'[n] # Free /\ dirs'[n].job = j =>
       /\ dirs'[n].role \in Roles /\ Owes(K, "rmdir", dirs'[n].role)
       /\ K.name[dirs'[n].role] = n
LeftOf(j, K) == \A n \in Names \ kept' : boxes'[n] = j \/ cgroups'[n] = j => MadeAt(K, n)
OwnOf(j, K) == Working(K) => \A n \in Names : MadeAt(K, n) => boxes'[n] = j /\ cgroups'[n] = j

\* A step of one job that touches its own places keeps the invariant.
LEMMA OneJob ==
  ASSUME RunTypeOK, PlaceInv, NEW j \in Jobs, NEW K, Becomes(j, K), StackInv(K),
         kept \subseteq kept', \A n \in Names : Leaves(n) \/ Touches(j, n),
         DirsOf(j, K), LeftOf(j, K), OwnOf(j, K)
  PROVE  PlaceInv'
<1>1. job'[j] = K /\ \A i \in Jobs \ {j} : job'[i] = job[i]
  BY DEF Becomes
<1>2. \A n \in Names : Touches(j, n) \/ Leaves(n)
  OBVIOUS
<1>3. \A i \in Jobs : StackInv(job'[i])
  BY <1>1 DEF PlaceInv
<1>4. \A i \in Jobs, n \in Names : i # j /\ dirs[n] # Free /\ dirs[n].job = i => Leaves(n)
  BY <1>2 DEF Touches
<1>5. ASSUME NEW i \in Jobs, i # j, NEW r \in Roles, Owes(job[i], "rmdir", r)
      PROVE  dirs'[job[i].name[r]] = [job |-> i, role |-> r]
  <2>1. dirs[job[i].name[r]] = [job |-> i, role |-> r] /\ job[i].name[r] \in Names
    BY <1>5 DEF PlaceInv, DirsInv, RunTypeOK, Job
  <2>2. dirs[job[i].name[r]] # Free
    BY <2>1 DEF Free, Nobody
  <2>3. Leaves(job[i].name[r])
    BY <1>4, <1>5, <2>1, <2>2
  <2>. QED  BY <2>1, <2>3 DEF Leaves
<1>6. ASSUME NEW n \in Names, dirs'[n] # Free, dirs'[n].job # j
      PROVE  /\ dirs'[n].job \in Jobs /\ dirs'[n].role \in Roles
             /\ Owes(job[dirs'[n].job], "rmdir", dirs'[n].role)
             /\ job[dirs'[n].job].name[dirs'[n].role] = n
  <2>1. Leaves(n)
    BY <1>2, <1>6 DEF Touches
  <2>. QED  BY <1>6, <2>1 DEF Leaves, PlaceInv, DirsInv
<1>7. DirsInv'
  <2>1. ASSUME NEW i \in Jobs, NEW r \in Roles, Owes(job'[i], "rmdir", r)
        PROVE  dirs'[job'[i].name[r]] = [job |-> i, role |-> r]
    BY <1>1, <1>5, <2>1 DEF DirsOf
  <2>2. ASSUME NEW n \in Names, dirs'[n] # Free
        PROVE  /\ dirs'[n].job \in Jobs /\ dirs'[n].role \in Roles
               /\ Owes(job'[dirs'[n].job], "rmdir", dirs'[n].role)
               /\ job'[dirs'[n].job].name[dirs'[n].role] = n
    BY <1>1, <1>6, <2>2 DEF DirsOf
  <2>. QED  BY <2>1, <2>2 DEF DirsInv
<1>8. ASSUME NEW n \in Names \ kept', NEW i \in Jobs, boxes'[n] = i \/ cgroups'[n] = i
      PROVE  MadeAt(job'[i], n)
  <2>1. CASE i = j
    BY <1>1, <1>8, <2>1 DEF LeftOf
  <2>2. CASE i # j
    <3>1. boxes[n] = i \/ cgroups[n] = i
      BY <1>2, <1>8, <2>2 DEF Touches, Leaves, Nobody
    <3>. QED  BY <1>1, <2>2, <3>1 DEF PlaceInv, LeftInv
  <2>. QED  BY <2>1, <2>2
<1>9. ASSUME NEW i \in Jobs, NEW n \in Names, Working(job'[i]), MadeAt(job'[i], n)
      PROVE  boxes'[n] = i /\ cgroups'[n] = i
  <2>1. CASE i = j
    BY <1>1, <1>9, <2>1 DEF OwnOf
  <2>2. CASE i # j
    <3>1. Working(job[i]) /\ MadeAt(job[i], n)
      BY <1>1, <1>9, <2>2
    <3>2. Leaves(n)
      BY <1>4, <2>2, <3>1, MadeInside
    <3>. QED  BY <3>1, <3>2 DEF Leaves, PlaceInv, OwnInv, Working
  <2>. QED  BY <2>1, <2>2
<1>10. LeftInv'
  BY <1>8 DEF LeftInv
<1>11. OwnInv'
  BY <1>9 DEF OwnInv, Working, Before, Running
<1>. QED  BY <1>3, <1>7, <1>10, <1>11 DEF PlaceInv

\* A job that goes on and keeps what it has.
LEMMA Quiet ==
  ASSUME RunTypeOK, PlaceInv, NEW j \in Jobs, NEW K, Becomes(j, K), StackInv(K),
         UNCHANGED <<dirs, boxes, cgroups>>, kept \subseteq kept',
         K.name = job[j].name, K.defers = job[j].defers, K.missing = job[j].missing,
         K.pc # "building", job[j].pc # "building", Working(K) => Working(job[j])
  PROVE  PlaceInv'
<1>1. \A n : MadeAt(K, n) <=> MadeAt(job[j], n)
  BY DEF MadeAt, Owes
<1>2. \A w, r : Owes(K, w, r) <=> Owes(job[j], w, r)
  BY DEF Owes
<1>3. DirsOf(j, K)
  BY <1>2 DEF DirsOf, PlaceInv, DirsInv
<1>4. LeftOf(j, K)
  BY <1>1 DEF LeftOf, PlaceInv, LeftInv
<1>5. OwnOf(j, K)
  BY <1>1 DEF OwnOf, PlaceInv, OwnInv, Working
<1>6. \A n \in Names : Leaves(n)
  BY DEF Leaves
<1>. QED  BY <1>3, <1>4, <1>5, <1>6, OneJob

-----------------------------------------------------------------------------
(* The steps and the places. *)

\* A job before its first case.
LEMMA DoingFacts ==
  ASSUME RunTypeOK, PlaceInv, NEW j \in Jobs, Before(job[j])
  PROVE  /\ job[j] \in Job /\ StackInv(job[j]) /\ ~job[j].missing
         /\ Step(j) = Of(job[j]) /\ Role(j) = Of(job[j])[2] /\ Role(j) \in Roles
         /\ Place(j) = job[j].name[Role(j)] /\ Place(j) \in Names
         /\ Of(job[j]) = <<Of(job[j])[1], Role(j)>>
         /\ Of(job[j])[1] \in {"build", "make"} =>
              /\ Owes(job[j], "rmdir", Role(j)) /\ ~Owes(job[j], "delete", Role(j))
              /\ dirs[Place(j)] # Free /\ dirs[Place(j)].job = j
         /\ Of(job[j])[1] = "mkdir" => /\ ~Owes(job[j], "rmdir", Role(j))
                                       /\ \A r : ~Owes(job[j], "delete", r)
<1>1. job[j] \in Job /\ StackInv(job[j])
  BY DEF RunTypeOK, PlaceInv
<1>2. Step(j) = Of(job[j]) /\ Role(j) = Of(job[j])[2] /\ Place(j) = job[j].name[Role(j)]
  BY DEF Step, Of, Role, Place
<1>3. /\ ~job[j].missing /\ Role(j) \in Roles /\ Place(j) \in Names
      /\ Of(job[j])[1] \in {"build", "make"} =>
              Owes(job[j], "rmdir", Role(j)) /\ ~Owes(job[j], "delete", Role(j))
      /\ Of(job[j])[1] = "mkdir" => /\ ~Owes(job[j], "rmdir", Role(j))
                                    /\ \A c \in Elems(job[j].defers) : c[1] # "delete"
  BY <1>1, <1>2, AtStep
<1>4. Of(job[j]) = <<Of(job[j])[1], Role(j)>>
  BY <1>1, <1>2, AtStep DEF Of
<1>5. Owes(job[j], "rmdir", Role(j)) => dirs[Place(j)] # Free /\ dirs[Place(j)].job = j
  <2>1. Owes(job[j], "rmdir", Role(j)) => dirs[Place(j)] = [job |-> j, role |-> Role(j)]
    BY <1>2, <1>3 DEF PlaceInv, DirsInv
  <2>. QED  BY <2>1 DEF Free, Nobody
<1>6. Of(job[j])[1] = "mkdir" => \A r : ~Owes(job[j], "delete", r)
  BY <1>3 DEF Owes
<1>. QED  BY <1>1, <1>2, <1>3, <1>4, <1>5, <1>6

\* A job that gives up, or gets on, without a call to defer.
LEMMA AbortQuiet ==
  ASSUME RunTypeOK, PlaceInv, NEW j \in Jobs, Before(job[j]), job[j].pc # "building",
         Aborts(j, <<>>, "IE") \/ Aborts(j, <<>>, "CE"),
         UNCHANGED <<dirs, boxes, cgroups>>, kept \subseteq kept'
  PROVE  PlaceInv'
<1> DEFINE K == Aborted(job[j], <<>>)
<1>1. Goes(j, K)
  BY DEF Aborts, Aborted
<1>2. /\ K \in Job /\ StackInv(K) /\ K.pc = "unwind" /\ K.name = job[j].name
      /\ K.defers = job[j].defers /\ K.missing = job[j].missing
  BY DoingFacts, AbortedJob
<1>3. Becomes(j, K)
  BY <1>1, <1>2, GoesBecomes
<1> HIDE DEF K
<1>. QED  BY <1>2, <1>3, Quiet DEF Working, Before, Running

\* A job gets on and has nothing to undo for it (a compiler that was not needed or did well).
LEMMA AdvanceQuiet ==
  ASSUME RunTypeOK, PlaceInv, NEW j \in Jobs, Before(job[j]), job[j].pc # "building",
         Of(job[j])[1] = "build", Goes(j, Advanced(j, <<>>)),
         UNCHANGED <<dirs, boxes, cgroups>>, kept \subseteq kept'
  PROVE  PlaceInv'
<1> DEFINE K == Advanced(j, <<>>)
<1>1. job[j] \in Job /\ StackInv(job[j]) /\ Pushed(job[j], <<>>)
  BY DoingFacts DEF Pushed
<1>2. /\ K \in Job /\ StackInv(K) /\ K.pc \in {"setup", "recv"} /\ K.name = job[j].name
      /\ K.defers = <<>> \o job[j].defers /\ K.missing = job[j].missing
  BY <1>1, AdvancedJob
<1>3. K.defers = job[j].defers
  BY <1>1, <1>2 DEF Job
<1>4. Becomes(j, K)
  BY <1>2, GoesBecomes
<1> HIDE DEF K
<1>. QED  BY <1>2, <1>3, <1>4, Quiet DEF Working, Before, Running

\* A job begins.
LEMMA StartPlaces ==
  ASSUME RunTypeOK, PlaceInv, NEW j \in Jobs, Enter(j)
  PROVE  PlaceInv'
<1>1. PICK k \in Kinds, n \in [Roles -> Names] :
        Goes(j, [job[j] EXCEPT !.pc = "setup", !.kind = k, !.name = n])
  BY DEF Enter, Kinds
<1> DEFINE K == [job[j] EXCEPT !.pc = "setup", !.kind = k, !.name = n]
<1>2. /\ job[j] \in Job /\ StackInv(job[j]) /\ job[j].pc = "idle"
      /\ UNCHANGED <<dirs, boxes, cgroups, kept>>
  BY DEF Enter, At, RunTypeOK, PlaceInv, Makes, History
<1>3. /\ K \in Job /\ K.pc = "setup" /\ K.kind = k /\ K.name = n /\ K.step = 1 /\ K.defers = <<>>
      /\ K.missing = job[j].missing /\ job[j].defers = <<>> /\ ~job[j].missing
  BY <1>2 DEF Job, StackInv, Kinds
<1>4. Elems(<<>>) = {} /\ Calls(k, 0) = {}
  BY DEF Elems, Calls
<1>5. 1 \in Steps(k)
  BY SetUpSteps DEF Steps, Kinds
<1>6. StackInv(K)
  <2>1. Stack(K.defers)
    BY <1>2, <1>3 DEF StackInv
  <2>2. ~K.missing /\ K.pc = "setup"
    BY <1>3
  <2> HIDE DEF K
  <2>3. Elems(K.defers) = Calls(K.kind, K.step - 1) /\ K.step \in Steps(K.kind)
    <3>1. K.step - 1 = 0
      BY <1>3
    <3>. QED  BY <1>3, <1>4, <1>5, <3>1
  <2>4. \A w, r : ~Owes(K, w, r)
    BY <1>3, <1>4 DEF Owes
  <2>. QED  BY <2>1, <2>2, <2>3, <2>4 DEF StackInv, Before, Running
<1>7. Becomes(j, K)
  BY <1>1, <1>3, GoesBecomes
<1> HIDE DEF K
<1>8. \A w, r, m : ~Owes(K, w, r) /\ ~Owes(job[j], w, r) /\ ~MadeAt(K, m) /\ ~MadeAt(job[j], m)
  BY <1>2, <1>3, <1>4 DEF Owes, MadeAt
<1>9. DirsOf(j, K) /\ LeftOf(j, K) /\ OwnOf(j, K)
  BY <1>2, <1>8 DEF DirsOf, LeftOf, OwnOf, PlaceInv, DirsInv, LeftInv
<1>10. \A m \in Names : Leaves(m)
  BY <1>2 DEF Leaves
<1>. QED  BY <1>2, <1>6, <1>7, <1>9, <1>10, OneJob

\* A directory that was made, by a job that gets on or gives up.
LEMMA MkdirMade ==
  ASSUME RunTypeOK, PlaceInv, NEW j \in Jobs, Before(job[j]), job[j].pc # "building",
         Of(job[j])[1] = "mkdir",
         dirs[Place(j)] = Free, dirs' = [dirs EXCEPT ![Place(j)] = [job |-> j, role |-> Role(j)]],
         UNCHANGED <<boxes, cgroups>>, kept \subseteq kept',
         NEW K \in Job, Becomes(j, K), StackInv(K), K.name = job[j].name,
         K.defers = << <<"rmdir", Role(j)>> >> \o job[j].defers,
         K.missing = job[j].missing, K.pc # "building"
  PROVE  PlaceInv'
<1> DEFINE m == Place(j)
           d == << <<"rmdir", Role(j)>> >>
<1>1. /\ job[j] \in Job /\ StackInv(job[j]) /\ Role(j) = Of(job[j])[2] /\ Role(j) \in Roles
      /\ m = job[j].name[Role(j)] /\ m \in Names /\ \A r : ~Owes(job[j], "delete", r)
  BY DoingFacts
<1>2. Elems(K.defers) = {<<"rmdir", Role(j)>>} \cup Elems(job[j].defers)
  <2>1. Pushed(job[j], d)
    BY <1>1 DEF Pushed
  <2>. QED  BY <1>1, <2>1, PushedCalls
<1>3. \A r : Owes(K, "rmdir", r) <=> Owes(job[j], "rmdir", r) \/ r = Role(j)
  BY <1>2 DEF Owes
<1>4. \A r : ~Owes(K, "delete", r)
  BY <1>1, <1>2 DEF Owes
<1>5. \A n : ~MadeAt(K, n) /\ ~MadeAt(job[j], n)
  BY <1>1, <1>4 DEF MadeAt
<1>6. dirs'[m] = [job |-> j, role |-> Role(j)] /\ \A n \in Names : n # m => dirs'[n] = dirs[n]
  BY <1>1 DEF RunTypeOK
<1>7. DirsOf(j, K)
  <2>1. ASSUME NEW r \in Roles, Owes(K, "rmdir", r) PROVE dirs'[K.name[r]] = [job |-> j, role |-> r]
    <3>1. CASE r = Role(j)
      BY <1>1, <1>6, <3>1
    <3>2. CASE r # Role(j)
      <4>1. dirs[job[j].name[r]] = [job |-> j, role |-> r] /\ job[j].name[r] \in Names
        BY <1>1, <1>3, <2>1, <3>2 DEF PlaceInv, DirsInv, Job
      <4>2. job[j].name[r] # m
        BY <4>1 DEF Free, Nobody
      <4>. QED  BY <1>6, <4>1, <4>2
    <3>. QED  BY <3>1, <3>2
  <2>2. ASSUME NEW n \in Names, dirs'[n] # Free, dirs'[n].job = j
        PROVE  /\ dirs'[n].role \in Roles /\ Owes(K, "rmdir", dirs'[n].role)
               /\ K.name[dirs'[n].role] = n
    <3>1. CASE n = m
      BY <1>1, <1>3, <1>6, <3>1
    <3>2. CASE n # m
      BY <1>3, <1>6, <2>2, <3>2 DEF PlaceInv, DirsInv
    <3>. QED  BY <3>1, <3>2
  <2>. QED  BY <2>1, <2>2 DEF DirsOf
<1>8. LeftOf(j, K) /\ OwnOf(j, K)
  BY <1>5 DEF LeftOf, OwnOf, PlaceInv, LeftInv
<1>9. \A n \in Names : Leaves(n) \/ Touches(j, n)
  BY <1>6 DEF Leaves, Touches
<1>. QED  BY <1>7, <1>8, <1>9, OneJob

\* A directory is made, or the job gives up.
LEMMA MkdirPlaces ==
  ASSUME RunTypeOK, PlaceInv, NEW j \in Jobs, Mkdir(j)
  PROVE  PlaceInv'
<1> DEFINE d == << <<"rmdir", Role(j)>> >>
<1>1. /\ job[j].pc = "setup" /\ Before(job[j]) /\ UNCHANGED <<boxes, cgroups>>
      /\ Step(j)[1] = "mkdir" /\ (Fine => kept' = kept) /\ \A k : Fails(k) => kept' = kept
  BY DEF Mkdir, Doing, At, Before, Makes, Fine, Fails, History
<1>2. /\ job[j] \in Job /\ StackInv(job[j]) /\ Of(job[j])[1] = "mkdir" /\ Pushed(job[j], d)
  BY <1>1, DoingFacts DEF Pushed
<1>3. CASE Aborts(j, <<>>, "IE") /\ dirs' = dirs /\ kept' = kept
  BY <1>1, <1>3, AbortQuiet
<1> DEFINE Makes1 == /\ dirs[Place(j)] = Free
                     /\ dirs' = [dirs EXCEPT ![Place(j)] = [job |-> j, role |-> Role(j)]]
                     /\ kept' = kept
<1>4. CASE Makes1 /\ Goes(j, Advanced(j, d))
  <2> DEFINE K == Advanced(j, d)
  <2>1. /\ K \in Job /\ StackInv(K) /\ K.pc \in {"setup", "recv"} /\ K.name = job[j].name
        /\ K.defers = d \o job[j].defers /\ K.missing = job[j].missing
    BY <1>1, <1>2, AdvancedJob
  <2>2. Becomes(j, K)
    BY <1>4, <2>1, GoesBecomes
  <2> HIDE DEF K
  <2>. QED  BY <1>1, <1>2, <1>4, <2>1, <2>2, MkdirMade
<1>5. CASE Makes1 /\ Aborts(j, d, "IE")
  <2> DEFINE K == Aborted(job[j], d)
  <2>1. /\ K \in Job /\ StackInv(K) /\ K.pc = "unwind" /\ K.name = job[j].name
        /\ K.defers = d \o job[j].defers /\ K.missing = job[j].missing
    BY <1>1, <1>2, AbortedJob
  <2>2. Goes(j, K)
    BY <1>5 DEF Aborts, Aborted
  <2>3. Becomes(j, K)
    BY <2>1, <2>2, GoesBecomes
  <2> HIDE DEF K
  <2>. QED  BY <1>1, <1>2, <1>5, <2>1, <2>3, MkdirMade
<1>. QED  BY <1>1, <1>3, <1>4, <1>5 DEF Mkdir

\* A step that makes or deletes what is named m, which is the job's.
LEMMA BoxStep ==
  ASSUME RunTypeOK, PlaceInv, NEW j \in Jobs, NEW K, Becomes(j, K), StackInv(K),
         kept \subseteq kept', dirs' = dirs, K.name = job[j].name,
         \A r \in Roles : Owes(K, "rmdir", r) <=> Owes(job[j], "rmdir", r),
         NEW m \in Names, dirs[m] # Free, dirs[m].job = j,
         \A n \in Names : n # m => boxes'[n] = boxes[n] /\ cgroups'[n] = cgroups[n],
         boxes'[m] \in {boxes[m], j, Nobody}, cgroups'[m] \in {cgroups[m], j, Nobody},
         LeftOf(j, K), OwnOf(j, K)
  PROVE  PlaceInv'
<1>1. DirsOf(j, K)
  BY DEF DirsOf, PlaceInv, DirsInv
<1>2. \A n \in Names : Leaves(n) \/ Touches(j, n)
  <2>1. \A n \in Names : n # m => Leaves(n)
    BY DEF Leaves
  <2>2. Touches(j, m)
    BY DEF Touches
  <2>. QED  BY <2>1, <2>2
<1>. QED  BY <1>1, <1>2, OneJob

\* A container is made.
LEMMA MadePlaces ==
  ASSUME RunTypeOK, PlaceInv, NEW j \in Jobs, NEW K, Becomes(j, K), StackInv(K),
         dirs' = dirs, K.name = job[j].name, Working(job[j]),
         \A r \in Roles : Owes(K, "rmdir", r) <=> Owes(job[j], "rmdir", r),
         NEW m \in Names, dirs[m] # Free, dirs[m].job = j, Made(j, m),
         \A n : MadeAt(K, n) <=> MadeAt(job[j], n) \/ n = m
  PROVE  PlaceInv'
<1>1. /\ kept' = kept /\ boxes'[m] = j /\ cgroups'[m] = j
      /\ \A n \in Names : n # m => boxes'[n] = boxes[n] /\ cgroups'[n] = cgroups[n]
  BY DEF Made, Fine, History, RunTypeOK
<1>2. LeftOf(j, K)
  BY <1>1 DEF LeftOf, PlaceInv, LeftInv
<1>3. OwnOf(j, K)
  BY <1>1 DEF OwnOf, PlaceInv, OwnInv, Working
<1>. QED  BY <1>1, <1>2, <1>3, BoxStep

\* A container is not made.
LEMMA NotMadePlaces ==
  ASSUME RunTypeOK, PlaceInv, NEW j \in Jobs, NEW K, Becomes(j, K), StackInv(K),
         dirs' = dirs, K.name = job[j].name, Working(job[j]),
         \A r \in Roles : Owes(K, "rmdir", r) <=> Owes(job[j], "rmdir", r),
         NEW m \in Names, dirs[m] # Free, dirs[m].job = j, NotMade(m),
         ~MadeAt(job[j], m), \A n : MadeAt(K, n) <=> MadeAt(job[j], n)
  PROVE  PlaceInv'
<1>1. /\ kept' = kept /\ boxes' = boxes /\ cgroups'[m] \in {cgroups[m], Nobody}
      /\ \A n \in Names : n # m => cgroups'[n] = cgroups[n]
  BY DEF NotMade, Fine, Fails, History, RunTypeOK
<1>2. j # Nobody
  BY DEF Nobody
<1>3. LeftOf(j, K)
  <2> SUFFICES ASSUME NEW n \in Names \ kept', boxes'[n] = j \/ cgroups'[n] = j
               PROVE  MadeAt(K, n)
    BY DEF LeftOf
  <2>1. boxes[n] = j \/ cgroups[n] = j
    BY <1>1, <1>2
  <2>. QED  BY <1>1, <2>1 DEF PlaceInv, LeftInv
<1>4. OwnOf(j, K)
  <2> SUFFICES ASSUME Working(K), NEW n \in Names, MadeAt(K, n)
               PROVE  boxes'[n] = j /\ cgroups'[n] = j
    BY DEF OwnOf
  <2>1. MadeAt(job[j], n) /\ n # m
    OBVIOUS
  <2>. QED  BY <1>1, <2>1 DEF PlaceInv, OwnInv, Working
<1>. QED  BY <1>1, <1>3, <1>4, BoxStep

\* A container is deleted, or its removal fails.
LEMMA DeletedPlaces ==
  ASSUME RunTypeOK, PlaceInv, NEW j \in Jobs, NEW K, Becomes(j, K), StackInv(K),
         dirs' = dirs, K.name = job[j].name, Working(K) => Working(job[j]),
         \A r \in Roles : Owes(K, "rmdir", r) <=> Owes(job[j], "rmdir", r),
         NEW m \in Names, dirs[m] # Free, dirs[m].job = j, Deleted(m),
         \A n : MadeAt(K, n) <=> MadeAt(job[j], n) /\ n # m
  PROVE  PlaceInv'
<1>1. /\ kept \subseteq kept'
      /\ boxes'[m] \in {boxes[m], Nobody} /\ cgroups'[m] \in {cgroups[m], Nobody}
      /\ \A n \in Names : n # m => boxes'[n] = boxes[n] /\ cgroups'[n] = cgroups[n]
      /\ m \in kept' \/ (boxes'[m] = Nobody /\ cgroups'[m] = Nobody)
  BY DEF Deleted, Fine, History, RunTypeOK
<1>2. j # Nobody
  BY DEF Nobody
<1>3. LeftOf(j, K)
  <2> SUFFICES ASSUME NEW n \in Names \ kept', boxes'[n] = j \/ cgroups'[n] = j
               PROVE  MadeAt(K, n)
    BY DEF LeftOf
  <2>1. n # m /\ n \notin kept
    BY <1>1, <1>2
  <2>. QED  BY <1>1, <2>1 DEF PlaceInv, LeftInv
<1>4. OwnOf(j, K)
  <2> SUFFICES ASSUME Working(K), NEW n \in Names, MadeAt(K, n)
               PROVE  boxes'[n] = j /\ cgroups'[n] = j
    BY DEF OwnOf
  <2>. QED  BY <1>1 DEF PlaceInv, OwnInv, Working
<1>. QED  BY <1>1, <1>3, <1>4, BoxStep

\* What is at the place of the step before the step is done.
LEMMA PlaceFree ==
  ASSUME RunTypeOK, PlaceInv, NEW j \in Jobs, Before(job[j]), job[j].pc # "building",
         Of(job[j])[1] \in {"build", "make"}
  PROVE  ~MadeAt(job[j], Place(j))
<1>1. /\ Role(j) \in Roles /\ Place(j) = job[j].name[Role(j)]
      /\ Owes(job[j], "rmdir", Role(j)) /\ ~Owes(job[j], "delete", Role(j)) /\ StackInv(job[j])
  BY DoingFacts
<1>2. ASSUME NEW r \in Roles, Owes(job[j], "delete", r), job[j].name[r] = Place(j) PROVE FALSE
  <2>1. Owes(job[j], "rmdir", r)
    BY <1>1, <1>2 DEF StackInv
  <2>2. r = Role(j)
    BY <1>1, <1>2, <2>1, SamePlace DEF PlaceInv
  <2>. QED  BY <1>1, <1>2, <2>2
<1>. QED  BY <1>2 DEF MadeAt

\* A job whose container could not be made gives up.
LEMMA NotMadeAborts ==
  ASSUME RunTypeOK, PlaceInv, NEW j \in Jobs, Before(job[j]), job[j].pc # "building",
         Of(job[j])[1] \in {"build", "make"}, NotMade(Place(j)), Aborts(j, <<>>, "IE"), dirs' = dirs
  PROVE  PlaceInv'
<1> DEFINE K == Aborted(job[j], <<>>)
<1>1. Goes(j, K)
  BY DEF Aborts, Aborted
<1>2. /\ K \in Job /\ StackInv(K) /\ K.pc = "unwind" /\ K.name = job[j].name
      /\ K.defers = job[j].defers /\ K.missing = job[j].missing
  BY DoingFacts, AbortedJob
<1>3. Becomes(j, K)
  BY <1>1, <1>2, GoesBecomes
<1> HIDE DEF K
<1>4. Place(j) \in Names /\ dirs[Place(j)] # Free /\ dirs[Place(j)].job = j
  BY DoingFacts
<1>5. \A w, r : Owes(K, w, r) <=> Owes(job[j], w, r)
  BY <1>2 DEF Owes
<1>6. \A n : MadeAt(K, n) <=> MadeAt(job[j], n)
  BY <1>2, <1>5 DEF MadeAt
<1>7. ~MadeAt(job[j], Place(j)) /\ Working(job[j])
  BY PlaceFree DEF Working
<1>. QED  BY <1>2, <1>3, <1>4, <1>5, <1>6, <1>7, NotMadePlaces

\* A compiler is needed or not, and its container made or not.
LEMMA BuildPlaces ==
  ASSUME RunTypeOK, PlaceInv, NEW j \in Jobs, Build(j)
  PROVE  PlaceInv'
<1>1. /\ job[j].pc = "setup" /\ Before(job[j]) /\ Step(j)[1] = "build" /\ dirs' = dirs
  BY DEF Build, Doing, At, Before
<1>2. /\ job[j] \in Job /\ StackInv(job[j]) /\ Of(job[j])[1] = "build" /\ ~job[j].missing
      /\ Place(j) = job[j].name[Of(job[j])[2]] /\ Place(j) \in Names
      /\ dirs[Place(j)] # Free /\ dirs[Place(j)].job = j
  BY <1>1, DoingFacts
<1>3. CASE Goes(j, Advanced(j, <<>>)) /\ UNCHANGED <<Makes, out>> /\ Fine
  <2>1. UNCHANGED <<dirs, boxes, cgroups>> /\ kept \subseteq kept'
    BY <1>1, <1>3 DEF Makes, Fine, History
  <2>. QED  BY <1>1, <1>2, <1>3, <2>1, AdvanceQuiet
<1>4. CASE Made(j, Place(j)) /\ Goes(j, [job[j] EXCEPT !.pc = "building"])
  <2> DEFINE K == [job[j] EXCEPT !.pc = "building"]
  <2>1. /\ K \in Job /\ K.pc = "building" /\ K.kind = job[j].kind /\ K.step = job[j].step
        /\ K.name = job[j].name /\ K.defers = job[j].defers /\ K.missing = job[j].missing
    BY <1>2 DEF Job
  <2>2. Becomes(j, K)
    BY <1>4, <2>1, GoesBecomes
  <2> HIDE DEF K
  <2>3. /\ \A w, r : Owes(K, w, r) <=> Owes(job[j], w, r)
        /\ Of(K) = Of(job[j])
    BY <2>1 DEF Owes, Of
  <2>4. StackInv(K)
    BY <1>1, <1>2, <2>1, <2>3 DEF StackInv, Before, Running
  <2>5. \A n : MadeAt(K, n) <=> MadeAt(job[j], n) \/ n = Place(j)
    BY <1>1, <1>2, <2>1, <2>3 DEF MadeAt
  <2>6. Working(job[j])
    BY <1>1 DEF Working
  <2>. QED  BY <1>1, <1>2, <1>4, <2>1, <2>2, <2>3, <2>4, <2>5, <2>6, MadePlaces
<1>5. CASE NotMade(Place(j)) /\ Aborts(j, <<>>, "IE")
  BY <1>1, <1>2, <1>5, NotMadeAborts
<1>. QED  BY <1>3, <1>4, <1>5 DEF Build

\* The container of a compiler is deleted.
LEMMA BuiltPlaces ==
  ASSUME RunTypeOK, PlaceInv, NEW j \in Jobs, Built(j)
  PROVE  PlaceInv'
<1>1. /\ job[j].pc = "building" /\ Before(job[j]) /\ dirs' = dirs /\ Deleted(Place(j))
  BY DEF Built, At, Before
<1>2. /\ job[j] \in Job /\ StackInv(job[j]) /\ Role(j) \in Roles
      /\ Role(j) = Of(job[j])[2] /\ Place(j) = job[j].name[Role(j)] /\ Place(j) \in Names
  BY <1>1, DoingFacts
<1>3. /\ dirs[Place(j)] # Free /\ dirs[Place(j)].job = j
      /\ Owes(job[j], "rmdir", Role(j)) /\ ~Owes(job[j], "delete", Role(j))
  <2>1. Of(job[j])[1] \in {"build", "make"}
    BY <1>1, <1>2 DEF StackInv
  <2>. QED  BY <1>1, <2>1, DoingFacts
<1> DEFINE K == [job[j] EXCEPT !.pc = "built"]
<1>4. /\ K \in Job /\ K.pc = "built" /\ K.kind = job[j].kind /\ K.step = job[j].step
      /\ K.name = job[j].name /\ K.defers = job[j].defers /\ K.missing = job[j].missing
  BY <1>2 DEF Job
<1>5. Becomes(j, K)
  BY <1>4, GoesBecomes DEF Built
<1> HIDE DEF K
<1>6. /\ \A w, r : Owes(K, w, r) <=> Owes(job[j], w, r)
      /\ Of(K) = Of(job[j])
  BY <1>4 DEF Owes, Of
<1>7. StackInv(K)
  BY <1>1, <1>2, <1>4, <1>6 DEF StackInv, Before, Running
<1>8. ASSUME NEW r \in Roles, Owes(job[j], "delete", r) PROVE job[j].name[r] # Place(j)
  <2>1. Owes(job[j], "rmdir", r)
    BY <1>2, <1>8 DEF StackInv
  <2>. QED  BY <1>2, <1>3, <1>8, <2>1, SamePlace DEF PlaceInv
<1>9. \A n : MadeAt(K, n) <=> MadeAt(job[j], n) /\ n # Place(j)
  BY <1>1, <1>2, <1>4, <1>6, <1>8 DEF MadeAt
<1>10. Working(job[j])
  BY <1>1 DEF Working
<1>. QED  BY <1>1, <1>2, <1>3, <1>4, <1>5, <1>6, <1>7, <1>9, <1>10, DeletedPlaces

\* The result of the compiler is looked at.
LEMMA CompiledPlaces ==
  ASSUME RunTypeOK, PlaceInv, NEW j \in Jobs, Compiled(j)
  PROVE  PlaceInv'
<1>1. /\ job[j].pc = "built" /\ Before(job[j]) /\ UNCHANGED <<dirs, boxes, cgroups>>
  BY DEF Compiled, At, Before, Makes
<1>2. Of(job[j])[1] = "build"
  BY <1>1 DEF PlaceInv, StackInv
<1>3. kept \subseteq kept'
  BY DEF Compiled, Exited, Fails, Fine, History
<1>4. CASE Goes(j, Advanced(j, <<>>))
  BY <1>1, <1>2, <1>3, <1>4, AdvanceQuiet
<1>5. CASE Aborts(j, <<>>, "CE") \/ Aborts(j, <<>>, "IE")
  BY <1>1, <1>3, <1>5, AbortQuiet
<1>. QED  BY <1>4, <1>5 DEF Compiled

\* The container of the cases is made or not; without one for the checker the job goes on.
LEMMA MakePlaces ==
  ASSUME RunTypeOK, PlaceInv, NEW j \in Jobs, Make(j)
  PROVE  PlaceInv'
<1> DEFINE d == << <<"delete", Role(j)>> >>
           A == Advanced(j, d)
<1>1. /\ job[j].pc = "setup" /\ Before(job[j]) /\ Step(j)[1] = "make" /\ dirs' = dirs
  BY DEF Make, Doing, At, Before
<1>2. /\ job[j] \in Job /\ StackInv(job[j]) /\ Of(job[j])[1] = "make" /\ ~job[j].missing
      /\ Role(j) = Of(job[j])[2] /\ Role(j) \in Roles
      /\ Of(job[j]) = <<"make", Role(j)>>
      /\ Place(j) = job[j].name[Role(j)] /\ Place(j) \in Names
      /\ dirs[Place(j)] # Free /\ dirs[Place(j)].job = j
  BY <1>1, DoingFacts
<1>3. Pushed(job[j], d)
  BY <1>2 DEF Pushed
<1>4. /\ A \in Job /\ StackInv(A) /\ A.pc \in {"setup", "recv"} /\ A.name = job[j].name
      /\ A.defers = d \o job[j].defers /\ A.missing = job[j].missing
      /\ Role(j) = "checker" => A.pc = "recv" /\ A.kind = "code"
  BY <1>1, <1>2, <1>3, AdvancedJob
<1>5. /\ Elems(A.defers) = {<<"delete", Role(j)>>} \cup Elems(job[j].defers)
      /\ A.defers # <<>> /\ Head(A.defers) = <<"delete", Role(j)>>
  BY <1>1, <1>2, <1>3, <1>4, PushedCalls, ZenonT(40)
<1>6. Working(job[j]) /\ ~MadeAt(job[j], Place(j))
  BY <1>1, <1>2, PlaceFree DEF Working
<1> HIDE DEF A
<1>7. \A r : /\ Owes(A, "rmdir", r) <=> Owes(job[j], "rmdir", r)
             /\ Owes(A, "delete", r) <=> Owes(job[j], "delete", r) \/ r = Role(j)
  BY <1>5 DEF Owes
<1>8. CASE Made(j, Place(j)) /\ Goes(j, A)
  <2>1. Becomes(j, A)
    BY <1>4, <1>8, GoesBecomes
  <2>2. \A n : MadeAt(A, n) <=> MadeAt(job[j], n) \/ n = Place(j)
    BY <1>1, <1>2, <1>4, <1>7 DEF MadeAt
  <2>. QED  BY <1>1, <1>2, <1>4, <1>6, <1>7, <1>8, <2>1, <2>2, MadePlaces
<1>9. CASE NotMade(Place(j)) /\ Role(j) = "judged" /\ Aborts(j, <<>>, "IE")
  BY <1>1, <1>2, <1>9, NotMadeAborts
<1>10. CASE NotMade(Place(j)) /\ Role(j) # "judged" /\ Goes(j, [A EXCEPT !.missing = TRUE])
  <2> DEFINE K == [A EXCEPT !.missing = TRUE]
  <2>1. /\ K \in Job /\ K.pc = A.pc /\ K.kind = A.kind /\ K.step = A.step
        /\ K.name = A.name /\ K.defers = A.defers /\ K.missing
    BY <1>4 DEF Job
  <2>2. Becomes(j, K)
    BY <1>10, <2>1, GoesBecomes
  <2>3. Role(j) = "checker" /\ A.pc = "recv" /\ A.kind = "code"
    <3>1. SetUp[job[j].kind][job[j].step] = <<"make", Role(j)>>
      BY <1>2 DEF Of
    <3>2. job[j].kind \in Kinds /\ job[j].step \in Steps(job[j].kind)
      BY <1>1, <1>2, AtStep
    <3>. QED  BY <1>4, <1>10, <3>1, <3>2, StepFacts, SMTT(30)
  <2> HIDE DEF K
  <2>4. \A w, r : Owes(K, w, r) <=> Owes(A, w, r)
    BY <2>1 DEF Owes
  <2>5. StackInv(K)
    BY <1>4, <1>5, <2>1, <2>3, <2>4 DEF StackInv, Before, Running
  <2>6. \A n : MadeAt(K, n) <=> MadeAt(job[j], n)
    <3>1. ~Owes(job[j], "delete", "checker")
      BY <1>1, <1>2, <2>3, DoingFacts
    <3>. QED  BY <1>1, <1>2, <1>4, <1>7, <2>1, <2>3, <2>4, <3>1 DEF MadeAt
  <2>. QED  BY <1>1, <1>2, <1>4, <1>6, <1>7, <1>10, <2>1, <2>2, <2>4, <2>5, <2>6, NotMadePlaces
<1>. QED  BY <1>8, <1>9, <1>10 DEF Make, A, d

-----------------------------------------------------------------------------
(* The cases and the places. *)

\* A job goes on with its cases, or to its end.
LEMMA RunQuiet ==
  ASSUME RunTypeOK, PlaceInv, NEW j \in Jobs, Running(job[j]), NEW K \in Job, Goes(j, K),
         K.pc \in {"recv", "exec", "check", "unwind"}, K.pc = "check" => K.kind = "code",
         K.kind = job[j].kind, K.name = job[j].name, K.defers = job[j].defers,
         K.missing = job[j].missing,
         UNCHANGED <<dirs, boxes, cgroups>>, kept \subseteq kept'
  PROVE  PlaceInv'
<1>1. Becomes(j, K)
  BY GoesBecomes
<1>2. StackInv(job[j])
  BY DEF PlaceInv
<1>3. \A w, r : Owes(K, w, r) <=> Owes(job[j], w, r)
  BY DEF Owes
<1>4. StackInv(K)
  BY <1>2, <1>3 DEF StackInv, Before, Running
<1>5. job[j].pc # "building" /\ K.pc # "building" /\ (Working(K) => Working(job[j]))
  BY DEF Running, Working
<1>. QED  BY <1>1, <1>4, <1>5, Quiet

\* maxStatus is the worse of two.
LEMMA Worst ==
  ASSUME NEW a \in Verdicts, NEW b \in Verdicts
  PROVE  /\ MaxStatus(a, b) \in {a, b} /\ MaxStatus(a, b) \in Verdicts
         /\ Rank(a) <= Rank(MaxStatus(a, b)) /\ Rank(b) <= Rank(MaxStatus(a, b))
         /\ Rank(MaxStatus(a, b)) \in Nat
  BY DEF MaxStatus, Rank, Verdicts

\* A job with a verdict more.
LEMMA JudgedJob ==
  ASSUME RunTypeOK, NEW j \in Jobs, NEW v \in Verdicts
  PROVE  LET K == [job[j] EXCEPT !.pc = "recv", !.worst = MaxStatus(@, v)]
         IN /\ K \in Job /\ K.pc = "recv" /\ K.kind = job[j].kind /\ K.name = job[j].name
            /\ K.defers = job[j].defers /\ K.missing = job[j].missing
            /\ K.taken = job[j].taken /\ K.worst = MaxStatus(job[j].worst, v)
<1>1. job[j] \in Job /\ job[j].worst \in Verdicts
  BY DEF RunTypeOK, Job
<1>2. MaxStatus(job[j].worst, v) \in Verdicts
  BY <1>1, Worst
<1>. QED  BY <1>1, <1>2 DEF Job

\* The cases leave all places as they are.
LEMMA CasePlaces ==
  ASSUME RunTypeOK, PlaceInv, NEW j \in Jobs, Recv(j) \/ TotalStatus(j) \/ Exec(j) \/ Check(j)
  PROVE  PlaceInv'
<1>1. /\ Running(job[j]) /\ UNCHANGED <<dirs, boxes, cgroups>> /\ kept \subseteq kept'
      /\ job[j] \in Job
  BY DEF Recv, TotalStatus, Exec, Check, At, Running, Makes, History, Exited, Fails, Fine, RunTypeOK
<1>2. CASE Recv(j)
  <2> DEFINE K == [job[j] EXCEPT !.pc = "exec", !.taken = @ + 1]
  <2>1. job[j].taken \in 0 .. Cases /\ job[j].taken < Cases
    BY <1>1, <1>2 DEF Recv, Job
  <2>2. job[j].taken + 1 \in 0 .. Cases
    BY <2>1
  <2>3. /\ K \in Job /\ K.pc = "exec" /\ K.kind = job[j].kind /\ K.name = job[j].name
        /\ K.defers = job[j].defers /\ K.missing = job[j].missing
    BY <1>1, <2>2 DEF Job
  <2>4. Goes(j, K)
    BY <1>2 DEF Recv
  <2> HIDE DEF K
  <2>. QED  BY <1>1, <2>3, <2>4, RunQuiet
<1>3. CASE TotalStatus(j)
  <2> DEFINE K == [job[j] EXCEPT !.pc = "unwind"]
  <2>1. /\ K \in Job /\ K.pc = "unwind" /\ K.kind = job[j].kind /\ K.name = job[j].name
        /\ K.defers = job[j].defers /\ K.missing = job[j].missing
    BY <1>1 DEF Job
  <2>2. Goes(j, K)
    BY <1>3 DEF TotalStatus
  <2> HIDE DEF K
  <2>. QED  BY <1>1, <2>1, <2>2, RunQuiet
<1>4. ASSUME NEW v \in Verdicts, Judged(j, v) PROVE PlaceInv'
  <2> DEFINE K == [job[j] EXCEPT !.pc = "recv", !.worst = MaxStatus(@, v)]
  <2>1. /\ K \in Job /\ K.pc = "recv" /\ K.kind = job[j].kind /\ K.name = job[j].name
        /\ K.defers = job[j].defers /\ K.missing = job[j].missing
    BY JudgedJob, ZenonT(40)
  <2>2. Goes(j, K)
    BY <1>4 DEF Judged
  <2> HIDE DEF K
  <2>. QED  BY <1>1, <2>1, <2>2, RunQuiet
<1>5. CASE job[j].kind = "code" /\ ToCheck(j)
  <2> DEFINE K == [job[j] EXCEPT !.pc = "check"]
  <2>1. /\ K \in Job /\ K.pc = "check" /\ K.kind = job[j].kind /\ K.name = job[j].name
        /\ K.defers = job[j].defers /\ K.missing = job[j].missing
    BY <1>1 DEF Job
  <2>2. Goes(j, K)
    BY <1>5 DEF ToCheck
  <2> HIDE DEF K
  <2>. QED  BY <1>1, <1>5, <2>1, <2>2, RunQuiet
<1>6. "AC" \in Verdicts /\ "WA" \in Verdicts /\ "IE" \in Verdicts
  BY DEF Verdicts
<1>7. CASE Exec(j)
  BY <1>4, <1>5, <1>6, <1>7 DEF Exec
<1>8. CASE Check(j)
  BY <1>4, <1>6, <1>8 DEF Check
<1>. QED  BY <1>2, <1>3, <1>7, <1>8

-----------------------------------------------------------------------------
(* The deferred calls and the places. *)

\* The job after a deferred call.
Popped(J, pc) == [J EXCEPT !.pc = pc, !.defers = Tail(@)]
\* The calls that are left stay in order.
LEMMA PoppedJob ==
  ASSUME NEW J \in Job, StackInv(J), J.defers # <<>>, NEW pc \in {"unwind", "panic"},
         pc = "panic" => J.missing /\ (J.pc = "panic" \/ Head(J.defers) = <<"delete", "checker">>),
         pc = "unwind" => J.pc = "unwind" /\ ~J.missing
  PROVE  LET K == Popped(J, pc)
             c == Head(J.defers)
         IN /\ K \in Job /\ StackInv(K) /\ K.pc = pc /\ K.name = J.name /\ K.missing = J.missing
            /\ c \in Call /\ \A w, r : Owes(K, w, r) <=> Owes(J, w, r) /\ <<w, r>> # c
            /\ Owes(J, c[1], c[2]) /\ Owes(J, "rmdir", c[2])
            /\ c[1] = "rmdir" => \A r : ~Owes(J, "delete", r)
<1> DEFINE K == Popped(J, pc)
           c == Head(J.defers)
<1>1. /\ Stack(Tail(J.defers)) /\ c \in Call
      /\ Elems(J.defers) = {c} \cup Elems(Tail(J.defers)) /\ c \notin Elems(Tail(J.defers))
      /\ c[1] = "rmdir" => \A y \in Elems(J.defers) : y[1] # "delete"
  BY Pops DEF StackInv
<1>2. c = <<c[1], c[2]>> /\ c[1] \in {"rmdir", "delete"} /\ c[2] \in Roles
  BY <1>1 DEF Call
<1> HIDE DEF c
<1>3. Tail(J.defers) \in Seq({"rmdir", "delete"} \X Roles)
  BY <1>1 DEF Stack, Call
<1>4. /\ K \in Job /\ K.pc = pc /\ K.name = J.name /\ K.defers = Tail(J.defers)
      /\ K.missing = J.missing
  BY <1>3 DEF Job, Popped
<1> HIDE DEF K
<1>5. \A w, r : Owes(K, w, r) <=> Owes(J, w, r) /\ <<w, r>> # c
  BY <1>1, <1>4 DEF Owes
<1>6. Owes(J, c[1], c[2])
  BY <1>1, <1>2 DEF Owes
<1>7. c[1] = "rmdir" => \A r : ~Owes(J, "delete", r)
  BY <1>1 DEF Owes
<1>8. Owes(J, "rmdir", c[2])
  BY <1>2, <1>6 DEF StackInv
<1>9. \A r \in Roles : Owes(K, "delete", r) => Owes(K, "rmdir", r)
  <2>1. \A r \in Roles : Owes(J, "delete", r) => Owes(J, "rmdir", r)
    BY DEF StackInv
  <2>2. \A r : <<"rmdir", r>> = c => c[1] = "rmdir"
    OBVIOUS
  <2>. QED  BY <1>5, <1>7, <2>1, <2>2
<1>10. J.missing => K.pc = "panic" /\ ~Owes(K, "delete", "checker")
  BY <1>4, <1>5 DEF StackInv, c
<1>11. StackInv(K)
  BY <1>1, <1>4, <1>9, <1>10 DEF StackInv, Before, Running
<1>. QED  BY <1>1, <1>4, <1>5, <1>6, <1>7, <1>8, <1>11 DEF c, K

\* The deferred deletion of an executor that is nil panics.
LEMMA PanicPlaces ==
  ASSUME RunTypeOK, PlaceInv, NEW j \in Jobs, Panic(j)
  PROVE  PlaceInv'
<1> DEFINE J == job[j]
           K == Popped(job[j], "panic")
<1>1. /\ J \in Job /\ StackInv(J) /\ J.missing /\ J.pc \in {"check", "unwind"}
      /\ UNCHANGED <<dirs, boxes, cgroups, kept>> /\ Goes(j, K)
  BY DEF Panic, At, RunTypeOK, PlaceInv, Makes, History, Popped
<1>2. J.defers # <<>> /\ Head(J.defers) = <<"delete", "checker">>
  BY <1>1 DEF StackInv
<1>3. /\ K \in Job /\ StackInv(K) /\ K.pc = "panic" /\ K.name = J.name /\ K.missing = J.missing
      /\ \A w, r : Owes(K, w, r) <=> Owes(J, w, r) /\ <<w, r>> # <<"delete", "checker">>
  <2>1. "panic" \in {"unwind", "panic"}
    OBVIOUS
  <2>2. "panic" = "panic" => J.missing /\ (J.pc = "panic" \/ Head(J.defers) = <<"delete", "checker">>)
    BY <1>1, <1>2
  <2>3. "panic" # "unwind"
    OBVIOUS
  <2>4. /\ K \in Job /\ StackInv(K) /\ K.pc = "panic" /\ K.name = J.name /\ K.missing = J.missing
        /\ \A w, r : Owes(K, w, r) <=> Owes(J, w, r) /\ <<w, r>> # Head(J.defers)
    BY <1>1, <1>2, <2>1, <2>2, <2>3, PoppedJob
  <2>. QED  BY <1>2, <2>4
<1>4. Becomes(j, K)
  BY <1>1, <1>3, GoesBecomes
<1> HIDE DEF K
<1>5. \A r : /\ Owes(K, "rmdir", r) <=> Owes(J, "rmdir", r)
             /\ Owes(K, "delete", r) <=> Owes(J, "delete", r) /\ r # "checker"
  <2>1. \A r : <<"rmdir", r>> # <<"delete", "checker">>
               /\ (<<"delete", r>> = <<"delete", "checker">> <=> r = "checker")
    OBVIOUS
  <2>. QED  BY <1>3, <2>1
<1>6. \A n : MadeAt(K, n) <=> MadeAt(J, n)
  BY <1>1, <1>3, <1>5 DEF MadeAt
<1>7. DirsOf(j, K)
  BY <1>1, <1>3, <1>5 DEF DirsOf, PlaceInv, DirsInv
<1>8. LeftOf(j, K) /\ OwnOf(j, K)
  BY <1>1, <1>3, <1>6 DEF LeftOf, OwnOf, PlaceInv, LeftInv, Working, Before, Running
<1>9. \A n \in Names : Leaves(n)
  BY <1>1 DEF Leaves
<1>. QED  BY <1>1, <1>3, <1>4, <1>7, <1>8, <1>9, OneJob

\* A deferred call is made.
LEMMA UnwindPlaces ==
  ASSUME RunTypeOK, PlaceInv, NEW j \in Jobs, Unwind(j)
  PROVE  PlaceInv'
<1> DEFINE J == job[j]
           K == Popped(job[j], job[j].pc)
           c == Head(job[j].defers)
           m == job[j].name[Head(job[j].defers)[2]]
<1>1. /\ J \in Job /\ StackInv(J) /\ J.defers # <<>>
      /\ J.pc = "panic" \/ (J.pc = "unwind" /\ ~J.missing)
  BY DEF Unwind, At, RunTypeOK, PlaceInv
<1>2. J.pc = "panic" => J.missing /\ ~Owes(J, "delete", "checker")
  BY <1>1 DEF StackInv
<1>3. /\ K \in Job /\ StackInv(K) /\ K.pc = J.pc /\ K.name = J.name /\ K.missing = J.missing
      /\ c \in Call /\ \A w, r : Owes(K, w, r) <=> Owes(J, w, r) /\ <<w, r>> # c
      /\ Owes(J, c[1], c[2]) /\ Owes(J, "rmdir", c[2])
      /\ c[1] = "rmdir" => \A r : ~Owes(J, "delete", r)
  BY <1>1, <1>2, PoppedJob
<1>4. K = [J EXCEPT !.defers = Tail(@)]
  BY <1>1 DEF Popped, Job
<1>5. Becomes(j, K)
  <2>1. Goes(j, K)
    BY <1>4 DEF Unwind
  <2>. QED  BY <1>3, <2>1, GoesBecomes
<1>6. \/ c[1] = "delete" /\ Deleted(m) /\ dirs' = dirs
      \/ c[1] = "rmdir" /\ dirs' = [dirs EXCEPT ![m] = Free] /\ UNCHANGED <<boxes, cgroups, kept>>
  BY DEF Unwind, Name, Makes, Fine, History
<1>7. c = <<c[1], c[2]>> /\ c[2] \in Roles
  BY <1>3 DEF Call
<1>8. m = J.name[c[2]] /\ m \in Names
  BY <1>1, <1>7 DEF Job
<1> HIDE DEF K, c, m
<1>9. dirs[m] = [job |-> j, role |-> c[2]]
  BY <1>3, <1>7, <1>8 DEF PlaceInv, DirsInv
<1>10. dirs[m] # Free /\ dirs[m].job = j
  BY <1>9 DEF Free, Nobody
<1>11. J.pc # "building" /\ K.pc # "building" /\ ~Working(K)
  BY <1>1, <1>3 DEF Working, Before, Running
<1>12. ASSUME NEW q \in Roles, Owes(J, "rmdir", q), J.name[q] = m PROVE q = c[2]
  BY <1>3, <1>7, <1>8, <1>12, SamePlace DEF PlaceInv
<1>13. CASE c[1] = "delete"
  <2>1. \A r : /\ Owes(K, "rmdir", r) <=> Owes(J, "rmdir", r)
               /\ Owes(K, "delete", r) <=> Owes(J, "delete", r) /\ r # c[2]
    <3>1. \A r : /\ <<"rmdir", r>> # <<"delete", c[2]>>
                 /\ <<"delete", r>> = <<"delete", c[2]>> <=> r = c[2]
      OBVIOUS
    <3>. QED  BY <1>3, <1>7, <1>13, <3>1
  <2>2. \A q \in Roles : Owes(J, "delete", q) /\ J.name[q] = m => q = c[2]
    BY <1>1, <1>12 DEF StackInv
  <2>3. ~(J.missing /\ c[2] = "checker")
    BY <1>1, <1>2, <1>3, <1>13
  <2>4. \A n : MadeAt(K, n) <=> MadeAt(J, n) /\ n # m
    BY <1>3, <1>8, <1>11, <2>1, <2>2, <2>3 DEF MadeAt
  <2>5. Deleted(m) /\ dirs' = dirs
    BY <1>6, <1>13
  <2>. QED  BY <1>3, <1>5, <1>8, <1>10, <1>11, <2>1, <2>4, <2>5, DeletedPlaces
<1>14. CASE c[1] = "rmdir"
  <2>1. dirs' = [dirs EXCEPT ![m] = Free] /\ UNCHANGED <<boxes, cgroups, kept>>
    BY <1>6, <1>14
  <2>2. dirs'[m] = Free /\ \A n \in Names : n # m => dirs'[n] = dirs[n]
    BY <1>8, <2>1 DEF RunTypeOK
  <2>3. \A r : /\ Owes(K, "rmdir", r) <=> Owes(J, "rmdir", r) /\ r # c[2]
               /\ ~Owes(K, "delete", r) /\ ~Owes(J, "delete", r)
    <3>1. \A r : <<"rmdir", r>> = <<"rmdir", c[2]>> <=> r = c[2]
      OBVIOUS
    <3>. QED  BY <1>3, <1>7, <1>14, <3>1
  <2>4. \A n : ~MadeAt(K, n) /\ ~MadeAt(J, n)
    BY <1>11, <2>3 DEF MadeAt
  <2>5. DirsOf(j, K)
    <3>1. ASSUME NEW r \in Roles, Owes(K, "rmdir", r)
          PROVE  dirs'[K.name[r]] = [job |-> j, role |-> r]
      <4>1. Owes(J, "rmdir", r) /\ r # c[2] /\ J.name[r] \in Names
        BY <1>1, <2>3, <3>1 DEF Job
      <4>2. J.name[r] # m
        BY <1>12, <4>1
      <4>3. dirs[J.name[r]] = [job |-> j, role |-> r]
        BY <4>1 DEF PlaceInv, DirsInv
      <4>. QED  BY <1>3, <2>2, <4>1, <4>2, <4>3
    <3>2. ASSUME NEW n \in Names, dirs'[n] # Free, dirs'[n].job = j
          PROVE  /\ dirs'[n].role \in Roles /\ Owes(K, "rmdir", dirs'[n].role)
                 /\ K.name[dirs'[n].role] = n
      <4>1. n # m /\ dirs'[n] = dirs[n]
        BY <2>2, <3>2
      <4>2. /\ dirs[n].role \in Roles /\ Owes(J, "rmdir", dirs[n].role)
            /\ J.name[dirs[n].role] = n
        BY <3>2, <4>1 DEF PlaceInv, DirsInv
      <4>. QED  BY <1>3, <1>8, <2>3, <4>1, <4>2
    <3>. QED  BY <3>1, <3>2 DEF DirsOf
  <2>6. LeftOf(j, K) /\ OwnOf(j, K)
    BY <1>11, <2>1, <2>4 DEF LeftOf, OwnOf, PlaceInv, LeftInv
  <2>7. \A n \in Names : Leaves(n) \/ Touches(j, n)
    BY <1>10, <2>1, <2>2 DEF Leaves, Touches
  <2>. QED  BY <1>3, <1>5, <2>1, <2>5, <2>6, <2>7, OneJob
<1>. QED  BY <1>6, <1>13, <1>14

\* A job with nothing left to undo returns.
LEMMA ReturnPlaces ==
  ASSUME RunTypeOK, PlaceInv, NEW j \in Jobs, Return(j)
  PROVE  PlaceInv'
<1> DEFINE K == [job[j] EXCEPT !.pc = "end"]
<1>1. /\ job[j] \in Job /\ StackInv(job[j]) /\ job[j].pc = "unwind" /\ job[j].defers = <<>>
      /\ UNCHANGED <<dirs, boxes, cgroups, kept>> /\ Goes(j, K)
  BY DEF Return, At, RunTypeOK, PlaceInv, Makes, History
<1>2. /\ K \in Job /\ K.pc = "end" /\ K.name = job[j].name
      /\ K.defers = job[j].defers /\ K.missing = job[j].missing
  BY <1>1 DEF Job
<1>3. Becomes(j, K)
  BY <1>1, <1>2, GoesBecomes
<1> HIDE DEF K
<1>4. ~K.missing
  BY <1>1, <1>2 DEF StackInv
<1>5. \A w, r : Owes(K, w, r) <=> Owes(job[j], w, r)
  BY <1>2 DEF Owes
<1>6. StackInv(K)
  BY <1>1, <1>2, <1>4, <1>5 DEF StackInv, Before, Running
<1>. QED  BY <1>1, <1>2, <1>3, <1>6, Quiet DEF Working, Before, Running

\* Every step keeps the places.
LEMMA PlacesKept ==
  ASSUME RunTypeOK, PlaceInv, [RunNext]_runState
  PROVE  PlaceInv'
<1>1. ASSUME UNCHANGED <<job, dirs, boxes, cgroups, kept>> PROVE PlaceInv'
  BY <1>1 DEF PlaceInv, DirsInv, LeftInv, OwnInv
<1>2. CASE UNCHANGED runState
  BY <1>1, <1>2 DEF runState, History
<1>3. ASSUME NEW j \in Jobs, Die(j) PROVE PlaceInv'
  BY <1>1, <1>3 DEF Die, Makes, History
<1>. QED  BY <1>2, <1>3, StartPlaces, MkdirPlaces, BuildPlaces, BuiltPlaces, CompiledPlaces,
             MakePlaces, CasePlaces, PanicPlaces, UnwindPlaces, ReturnPlaces DEF RunNext

-----------------------------------------------------------------------------
(* The steps and the statuses. *)

\* Jobs and statuses, after the step.
ToldInv == job' \in [Jobs -> Job] /\ out' \in [Jobs -> Seq(JudgeStatus)] /\ StatusInv'

\* A step that tells statuses of one job.
LEMMA Tells ==
  ASSUME RunTypeOK, StatusInv, NEW j \in Jobs, NEW K \in Job, Goes(j, K),
         NEW t, t \in Seq(JudgeStatus), out' = [out EXCEPT ![j] = t], OutInv(K, t)
  PROVE  ToldInv
<1>1. /\ job' \in [Jobs -> Job] /\ job'[j] = K
      /\ \A i \in Jobs : i # j => job'[i] = job[i]
  BY GoesBecomes DEF Becomes
<1>2. out' \in [Jobs -> Seq(JudgeStatus)] /\ out'[j] = t /\ \A i \in Jobs : i # j => out'[i] = out[i]
  BY DEF RunTypeOK
<1>3. \A i \in Jobs : OutInv(job'[i], out'[i])
  BY <1>1, <1>2 DEF StatusInv
<1>. QED  BY <1>1, <1>2, <1>3 DEF ToldInv, StatusInv

\* A step that tells nothing.
LEMMA TellsNothing ==
  ASSUME RunTypeOK, StatusInv, NEW j \in Jobs, NEW K \in Job, Goes(j, K), out' = out, OutInv(K, out[j])
  PROVE  ToldInv
<1>1. out[j] \in Seq(JudgeStatus) /\ out' = [out EXCEPT ![j] = out[j]]
  BY DEF RunTypeOK
<1>. QED  BY <1>1, Tells

\* A step that tells one status.
LEMMA TellsOne ==
  ASSUME RunTypeOK, StatusInv, NEW j \in Jobs, NEW K \in Job, Goes(j, K),
         NEW total \in BOOLEAN, NEW v \in Verdicts \cup {"JG", "CE"}, Sends(j, total, v),
         OutInv(K, Append(out[j], [total |-> total, status |-> v]))
  PROVE  ToldInv
<1> DEFINE t == Append(out[j], [total |-> total, status |-> v])
<1>1. [total |-> total, status |-> v] \in JudgeStatus
  BY DEF JudgeStatus
<1>2. out[j] \in Seq(JudgeStatus)
  BY DEF RunTypeOK
<1>3. t \in Seq(JudgeStatus)
  BY <1>1, <1>2
<1>4. out' = [out EXCEPT ![j] = t]
  BY DEF Sends
<1> HIDE DEF t
<1>5. OutInv(K, t)
  BY DEF t
<1>. QED  BY <1>3, <1>4, <1>5, Tells

\* Nothing is told of no case.
LEMMA NothingTold == CasesTold(<<>>, "AC") /\ <<>> \in Seq(JudgeStatus) /\ Len(<<>>) = 0
  BY DEF CasesTold, Verdicts

\* One status more.
LEMMA OneMore ==
  ASSUME NEW s \in Seq(JudgeStatus), NEW x \in JudgeStatus
  PROVE  LET t == Append(s, x)
         IN /\ t \in Seq(JudgeStatus) /\ Len(t) = Len(s) + 1 /\ Len(s) \in Nat /\ t # <<>>
            /\ t[Len(t)] = x /\ \A i \in 1 .. Len(s) : t[i] = s[i]
            /\ \A i \in 1 .. Len(t) : i \in 1 .. Len(s) \/ i = Len(s) + 1
            /\ 1 .. Len(s) \subseteq 1 .. Len(t) /\ Len(s) + 1 \in 1 .. Len(t)
  OBVIOUS

\* A job that has told nothing gets on.
LEMMA BeforeTells ==
  ASSUME RunTypeOK, StatusInv, NEW j \in Jobs, job[j].pc = "idle" \/ Before(job[j]),
         NEW K \in Job, Goes(j, K), out' = out, K.pc = "recv" \/ Before(K),
         K.taken = job[j].taken, K.worst = job[j].worst
  PROVE  ToldInv
<1>1. OutInv(job[j], out[j])
  BY DEF StatusInv
<1>2. out[j] = <<>> /\ K.taken = 0 /\ K.worst = "AC"
  BY <1>1 DEF OutInv
<1>3. OutInv(K, <<>>)
  BY <1>2, NothingTold DEF OutInv, Before
<1>. QED  BY <1>2, <1>3, TellsNothing

\* It gives up.
LEMMA AbortTells ==
  ASSUME RunTypeOK, PlaceInv, StatusInv, NEW j \in Jobs, Before(job[j]),
         NEW d, Pushed(job[j], d) \/ d = <<>>, NEW v \in {"CE", "IE"}, Aborts(j, d, v)
  PROVE  ToldInv
<1> DEFINE K == Aborted(job[j], d)
           x == [total |-> TRUE, status |-> v]
           t == Append(out[j], x)
<1>1. /\ job[j] \in Job /\ StackInv(job[j]) /\ OutInv(job[j], out[j])
  BY DEF RunTypeOK, PlaceInv, StatusInv
<1>2. K \in Job /\ K.pc = "unwind"
  BY <1>1, AbortedJob
<1>3. Goes(j, K) /\ Sends(j, TRUE, v)
  BY DEF Aborts, Aborted
<1>4. out[j] = <<>> /\ x \in JudgeStatus /\ x.total /\ x.status = v
  BY <1>1 DEF OutInv, JudgeStatus, Verdicts
<1>5. t \in Seq(JudgeStatus) /\ Len(t) = 1 /\ t[1] = x /\ t # <<>>
  BY <1>4
<1> HIDE DEF K, t
<1>6. OutInv(K, t)
  BY <1>2, <1>4, <1>5 DEF OutInv, Before
<1>7. v \in Verdicts \cup {"JG", "CE"}
  BY DEF Verdicts
<1>. QED  BY <1>2, <1>3, <1>6, <1>7, TellsOne DEF t

\* What is told before the first case: nothing, or an error alone.
LEMMA SetUpTells ==
  ASSUME RunTypeOK, PlaceInv, StatusInv, NEW j \in Jobs,
         Enter(j) \/ Mkdir(j) \/ Build(j) \/ Built(j) \/ Compiled(j) \/ Make(j)
  PROVE  ToldInv
<1>1. job[j] \in Job /\ StackInv(job[j])
  BY DEF RunTypeOK, PlaceInv
<1>2. CASE Enter(j)
  <2>1. PICK k \in Kinds, n \in [Roles -> Names] :
          Goes(j, [job[j] EXCEPT !.pc = "setup", !.kind = k, !.name = n])
    BY <1>2 DEF Enter, Kinds
  <2> DEFINE K == [job[j] EXCEPT !.pc = "setup", !.kind = k, !.name = n]
  <2>2. K \in Job /\ K.pc = "setup" /\ K.taken = job[j].taken /\ K.worst = job[j].worst
    BY <1>1 DEF Job, Kinds
  <2>3. Goes(j, K) /\ out' = out /\ job[j].pc = "idle"
    BY <1>2, <2>1 DEF Enter, At
  <2> HIDE DEF K
  <2>. QED  BY <2>2, <2>3, BeforeTells DEF Before
<1>3. ASSUME Before(job[j]), NEW d, Pushed(job[j], d), Goes(j, Advanced(j, d)), out' = out
      PROVE  ToldInv
  <2> DEFINE K == Advanced(j, d)
  <2>1. /\ K \in Job /\ K.pc \in {"setup", "recv"}
        /\ K.taken = job[j].taken /\ K.worst = job[j].worst
    BY <1>1, <1>3, AdvancedJob
  <2> HIDE DEF K
  <2>2. Goes(j, K)
    BY <1>3 DEF K
  <2>. QED  BY <1>3, <2>1, <2>2, BeforeTells DEF Before
<1>4. ASSUME NEW pc \in {"building", "built"}, Before(job[j]),
             Goes(j, [job[j] EXCEPT !.pc = pc]), out' = out
      PROVE  ToldInv
  <2> DEFINE K == [job[j] EXCEPT !.pc = pc]
  <2>1. K \in Job /\ K.pc = pc /\ K.taken = job[j].taken /\ K.worst = job[j].worst
    BY <1>1 DEF Job
  <2> HIDE DEF K
  <2>2. Goes(j, K)
    BY <1>4 DEF K
  <2>. QED  BY <1>4, <2>1, <2>2, BeforeTells DEF Before
<1>5. CASE Mkdir(j)
  <2> DEFINE d == << <<"rmdir", Role(j)>> >>
  <2>1. Before(job[j]) /\ Step(j)[1] = "mkdir"
    BY <1>5 DEF Mkdir, Doing, At, Before
  <2>2. Pushed(job[j], d)
    BY <2>1, DoingFacts DEF Pushed
  <2>3. \/ Goes(j, Advanced(j, d)) /\ out' = out
        \/ Aborts(j, d, "IE") \/ Aborts(j, <<>>, "IE")
    BY <1>5 DEF Mkdir
  <2> HIDE DEF d
  <2>. QED  BY <1>3, <2>1, <2>2, <2>3, AbortTells
<1>6. CASE Build(j)
  <2>1. Before(job[j]) /\ Step(j)[1] = "build"
    BY <1>6 DEF Build, Doing, At, Before
  <2>2. Pushed(job[j], <<>>)
    BY <2>1, DoingFacts DEF Pushed
  <2>3. \/ Goes(j, Advanced(j, <<>>)) /\ out' = out
        \/ Goes(j, [job[j] EXCEPT !.pc = "building"]) /\ out' = out
        \/ Aborts(j, <<>>, "IE")
    BY <1>6 DEF Build
  <2>. QED  BY <1>3, <1>4, <2>1, <2>2, <2>3, AbortTells
<1>7. CASE Built(j)
  BY <1>4, <1>7 DEF Built, At, Before
<1>8. CASE Compiled(j)
  <2>1. Before(job[j]) /\ Of(job[j])[1] = "build"
    BY <1>1, <1>8 DEF Compiled, At, Before, StackInv
  <2>2. Pushed(job[j], <<>>)
    BY <2>1 DEF Pushed
  <2>3. \/ Goes(j, Advanced(j, <<>>)) /\ out' = out
        \/ Aborts(j, <<>>, "CE") \/ Aborts(j, <<>>, "IE")
    BY <1>8 DEF Compiled
  <2>. QED  BY <1>3, <2>1, <2>2, <2>3, AbortTells
<1>9. CASE Make(j)
  <2> DEFINE d == << <<"delete", Role(j)>> >>
             A == Advanced(j, d)
  <2>1. Before(job[j]) /\ Step(j)[1] = "make"
    BY <1>9 DEF Make, Doing, At, Before
  <2>2. Pushed(job[j], d)
    BY <2>1, DoingFacts DEF Pushed
  <2>3. \/ Goes(j, A) /\ out' = out
        \/ Aborts(j, <<>>, "IE")
        \/ Goes(j, [A EXCEPT !.missing = TRUE]) /\ out' = out
    BY <1>9 DEF Make
  <2>4. CASE Goes(j, A) /\ out' = out
    BY <1>3, <2>1, <2>2, <2>4
  <2>5. CASE Aborts(j, <<>>, "IE")
    BY <2>1, <2>5, AbortTells
  <2>6. CASE Goes(j, [A EXCEPT !.missing = TRUE]) /\ out' = out
    <3> DEFINE K == [A EXCEPT !.missing = TRUE]
    <3>1. /\ A \in Job /\ A.pc \in {"setup", "recv"}
          /\ A.taken = job[j].taken /\ A.worst = job[j].worst
      BY <1>1, <2>1, <2>2, AdvancedJob
    <3> HIDE DEF A
    <3>2. K \in Job /\ K.pc = A.pc /\ K.taken = A.taken /\ K.worst = A.worst
      BY <3>1 DEF Job
    <3> HIDE DEF K
    <3>3. Goes(j, K)
      BY <2>6 DEF K
    <3>. QED  BY <2>1, <2>6, <3>1, <3>2, <3>3, BeforeTells DEF Before
  <2>. QED  BY <2>3, <2>4, <2>5, <2>6
<1>. QED  BY <1>2, <1>5, <1>6, <1>7, <1>8, <1>9

\* A case is begun.
LEMMA CaseBegun ==
  ASSUME NEW s \in Seq(JudgeStatus), NEW w, CasesTold(s, w), Len(s) % 2 = 0
  PROVE  CasesTold(Append(s, [total |-> FALSE, status |-> "JG"]), w)
<1> DEFINE x == [total |-> FALSE, status |-> "JG"]
           t == Append(s, x)
<1>1. x \in JudgeStatus /\ ~x.total /\ x.status = "JG"
  BY DEF JudgeStatus
<1>2. /\ Len(t) = Len(s) + 1 /\ Len(s) \in Nat /\ t[Len(t)] = x
      /\ \A i \in 1 .. Len(s) : t[i] = s[i]
      /\ \A i \in 1 .. Len(t) : i \in 1 .. Len(s) \/ i = Len(s) + 1
      /\ 1 .. Len(s) \subseteq 1 .. Len(t)
  BY <1>1, OneMore
<1> HIDE DEF x, t
<1>3. (Len(s) + 1) % 2 = 1
  BY <1>2
<1>4. ASSUME NEW i \in 1 .. Len(t)
      PROVE  /\ ~t[i].total
             /\ t[i].status = "JG" <=> i % 2 = 1
             /\ t[i].status # "JG" => t[i].status \in Verdicts /\ Rank(t[i].status) <= Rank(w)
  <2>1. CASE i \in 1 .. Len(s)
    BY <1>2, <2>1 DEF CasesTold
  <2>2. CASE i = Len(s) + 1
    BY <1>1, <1>2, <1>3, <2>2
  <2>. QED  BY <1>2, <2>1, <2>2
<1>5. w # "AC" => \E i \in 1 .. Len(t) : t[i].status = w
  BY <1>2 DEF CasesTold
<1>6. CasesTold(t, w)
  BY <1>4, <1>5 DEF CasesTold
<1>. QED  BY <1>6 DEF t, x

\* It has its verdict.
LEMMA CaseJudged ==
  ASSUME NEW s \in Seq(JudgeStatus), NEW w, CasesTold(s, w), Len(s) % 2 = 1, NEW v \in Verdicts
  PROVE  CasesTold(Append(s, [total |-> FALSE, status |-> v]), MaxStatus(w, v))
<1> DEFINE x == [total |-> FALSE, status |-> v]
           t == Append(s, x)
           m == MaxStatus(w, v)
<1>1. x \in JudgeStatus /\ ~x.total /\ x.status = v /\ v # "JG"
  BY DEF JudgeStatus, Verdicts
<1>2. /\ Len(t) = Len(s) + 1 /\ Len(s) \in Nat /\ t[Len(t)] = x
      /\ \A i \in 1 .. Len(s) : t[i] = s[i]
      /\ \A i \in 1 .. Len(t) : i \in 1 .. Len(s) \/ i = Len(s) + 1
      /\ 1 .. Len(s) \subseteq 1 .. Len(t) /\ Len(s) + 1 \in 1 .. Len(t)
  BY <1>1, OneMore
<1>3. /\ m \in {w, v} /\ m \in Verdicts /\ Rank(w) <= Rank(m) /\ Rank(v) <= Rank(m)
      /\ Rank(m) \in Nat
  BY Worst DEF CasesTold
<1> HIDE DEF x, t, m
<1>4. (Len(s) + 1) % 2 # 1
  BY <1>2
<1>5. \A u \in Verdicts : Rank(u) \in Nat
  BY DEF Rank, Verdicts
<1>6. ASSUME NEW i \in 1 .. Len(t)
      PROVE  /\ ~t[i].total
             /\ t[i].status = "JG" <=> i % 2 = 1
             /\ t[i].status # "JG" => t[i].status \in Verdicts /\ Rank(t[i].status) <= Rank(m)
  <2>1. CASE i \in 1 .. Len(s)
    <3>1. /\ ~s[i].total /\ (s[i].status = "JG" <=> i % 2 = 1)
          /\ s[i].status # "JG" => s[i].status \in Verdicts /\ Rank(s[i].status) <= Rank(w)
      BY <2>1 DEF CasesTold
    <3>2. w \in Verdicts
      BY DEF CasesTold
    <3>. QED  BY <1>2, <1>3, <1>5, <2>1, <3>1, <3>2
  <2>2. CASE i = Len(s) + 1
    BY <1>1, <1>2, <1>3, <1>4, <2>2
  <2>. QED  BY <1>2, <2>1, <2>2
<1>7. m # "AC" => \E i \in 1 .. Len(t) : t[i].status = m
  <2>1. CASE m = v
    BY <1>1, <1>2, <2>1
  <2>2. CASE m = w
    BY <1>2, <2>2 DEF CasesTold
  <2>. QED  BY <1>3, <2>1, <2>2
<1>8. CasesTold(t, m)
  BY <1>3, <1>6, <1>7 DEF CasesTold
<1>. QED  BY <1>8 DEF t, x, m

\* What was told before the total.
LEMMA FrontIs ==
  ASSUME NEW s \in Seq(JudgeStatus), NEW x \in JudgeStatus
  PROVE  Front(Append(s, x)) = s
<1> DEFINE t == Append(s, x)
<1>1. /\ Len(t) = Len(s) + 1 /\ Len(s) \in Nat /\ \A i \in 1 .. Len(s) : t[i] = s[i]
  BY OneMore
<1> HIDE DEF t
<1>2. Len(t) - 1 = Len(s)
  BY <1>1
<1>3. Front(t) = [i \in 1 .. Len(s) |-> s[i]]
  BY <1>1, <1>2 DEF Front
<1>4. s = [i \in 1 .. Len(s) |-> s[i]]
  OBVIOUS
<1>. QED  BY <1>3, <1>4 DEF t

\* The verdict of a case is told.
LEMMA JudgedTells ==
  ASSUME RunTypeOK, StatusInv, NEW j \in Jobs, job[j].pc \in {"exec", "check"},
         NEW v \in Verdicts, Judged(j, v)
  PROVE  ToldInv
<1> DEFINE K == [job[j] EXCEPT !.pc = "recv", !.worst = MaxStatus(@, v)]
           x == [total |-> FALSE, status |-> v]
           s == out[j]
           t == Append(s, x)
<1>1. /\ K \in Job /\ K.pc = "recv" /\ K.taken = job[j].taken
      /\ K.worst = MaxStatus(job[j].worst, v)
  BY JudgedJob, ZenonT(40)
<1>2. Goes(j, K) /\ Sends(j, FALSE, v)
  BY DEF Judged
<1>3. /\ s \in Seq(JudgeStatus) /\ Len(s) = 2 * job[j].taken - 1 /\ job[j].taken > 0
      /\ CasesTold(s, job[j].worst) /\ job[j].taken \in Nat
  BY DEF RunTypeOK, Job, StatusInv, OutInv
<1>4. Len(s) % 2 = 1 /\ Len(s) + 1 = 2 * job[j].taken
  BY <1>3
<1>5. x \in JudgeStatus
  BY DEF JudgeStatus
<1>6. t \in Seq(JudgeStatus) /\ Len(t) = Len(s) + 1
  BY <1>3, <1>5, OneMore
<1>7. CasesTold(t, MaxStatus(job[j].worst, v))
  BY <1>3, <1>4, CaseJudged
<1> HIDE DEF K, s, t
<1>8. OutInv(K, t)
  BY <1>1, <1>4, <1>6, <1>7 DEF OutInv, Before
<1>. QED  BY <1>1, <1>2, <1>8, TellsOne DEF t, s

\* What is told of the cases, and the total.
LEMMA CaseTells ==
  ASSUME RunTypeOK, StatusInv, NEW j \in Jobs, Recv(j) \/ TotalStatus(j) \/ Exec(j) \/ Check(j)
  PROVE  ToldInv
<1> DEFINE s == out[j]
<1>1. /\ job[j] \in Job /\ OutInv(job[j], s) /\ s \in Seq(JudgeStatus) /\ job[j].taken \in 0 .. Cases
      /\ job[j].worst \in Verdicts
  BY DEF RunTypeOK, StatusInv, Job
<1>2. "AC" \in Verdicts /\ "WA" \in Verdicts /\ "IE" \in Verdicts
  BY DEF Verdicts
<1>3. CASE Recv(j)
  <2> DEFINE K == [job[j] EXCEPT !.pc = "exec", !.taken = @ + 1]
             x == [total |-> FALSE, status |-> "JG"]
             t == Append(s, x)
  <2>1. /\ job[j].taken < Cases /\ Goes(j, K) /\ Sends(j, FALSE, "JG") /\ job[j].pc = "recv"
    BY <1>3 DEF Recv, At
  <2>2. job[j].taken + 1 \in 0 .. Cases
    BY <1>1, <2>1
  <2>3. /\ K \in Job /\ K.pc = "exec" /\ K.taken = job[j].taken + 1 /\ K.worst = job[j].worst
    BY <1>1, <2>2 DEF Job
  <2>4. Len(s) = 2 * job[j].taken /\ CasesTold(s, job[j].worst)
    BY <1>1, <2>1 DEF OutInv
  <2>5. Len(s) % 2 = 0 /\ Len(s) + 1 = 2 * (job[j].taken + 1) - 1 /\ job[j].taken + 1 > 0
    BY <1>1, <2>4
  <2>6. x \in JudgeStatus
    BY DEF JudgeStatus
  <2>7. t \in Seq(JudgeStatus) /\ Len(t) = Len(s) + 1
    BY <1>1, <2>6, OneMore
  <2>8. CasesTold(t, job[j].worst)
    BY <1>1, <2>4, <2>5, CaseBegun
  <2> HIDE DEF K, s, t
  <2>9. OutInv(K, t)
    BY <2>3, <2>5, <2>7, <2>8 DEF OutInv, Before
  <2>. QED  BY <2>1, <2>3, <2>9, TellsOne DEF t, s
<1>4. CASE TotalStatus(j)
  <2> DEFINE K == [job[j] EXCEPT !.pc = "unwind"]
             w == job[j].worst
             x == [total |-> TRUE, status |-> w]
             t == Append(s, x)
  <2>1. Goes(j, K) /\ Sends(j, TRUE, w) /\ job[j].pc = "recv"
    BY <1>4 DEF TotalStatus, At
  <2>2. K \in Job /\ K.pc = "unwind" /\ K.worst = w
    BY <1>1 DEF Job
  <2>3. Len(s) = 2 * job[j].taken /\ CasesTold(s, w)
    BY <1>1, <2>1 DEF OutInv
  <2>4. (Len(s) + 1) % 2 = 1
    BY <1>1, <2>3
  <2>5. x \in JudgeStatus /\ x.total /\ x.status = w
    BY <1>1 DEF JudgeStatus
  <2>6. t \in Seq(JudgeStatus) /\ Len(t) = Len(s) + 1 /\ t # <<>> /\ t[Len(t)] = x
    BY <1>1, <2>5, OneMore
  <2>7. Front(t) = s
    BY <1>1, <2>5, FrontIs
  <2>8. w \in Verdicts
    BY <1>1
  <2> HIDE DEF K, s, t, w, x
  <2>9. OutInv(K, t)
    BY <2>2, <2>3, <2>4, <2>5, <2>6, <2>7 DEF OutInv, Before
  <2>10. w \in Verdicts \cup {"JG", "CE"}
    BY <2>8
  <2>. QED  BY <2>1, <2>2, <2>9, <2>10, TellsOne DEF t, s, x
<1>5. CASE At(j, "exec") /\ ToCheck(j)
  <2> DEFINE K == [job[j] EXCEPT !.pc = "check"]
  <2>1. K \in Job /\ K.pc = "check" /\ K.taken = job[j].taken /\ K.worst = job[j].worst
    BY <1>1 DEF Job
  <2>2. Goes(j, K) /\ out' = out /\ job[j].pc = "exec"
    BY <1>5 DEF ToCheck, At
  <2> HIDE DEF K
  <2>3. OutInv(K, out[j])
    BY <1>1, <2>1, <2>2 DEF OutInv, Before
  <2>. QED  BY <2>1, <2>2, <2>3, TellsNothing
<1>6. CASE Exec(j)
  <2>1. job[j].pc \in {"exec", "check"} /\ At(j, "exec")
    BY <1>6 DEF Exec, At
  <2>2. (\E v \in {"AC", "WA", "IE"} : Judged(j, v)) \/ ToCheck(j)
    BY <1>6 DEF Exec
  <2>. QED  BY <1>2, <1>5, <2>1, <2>2, JudgedTells
<1>7. CASE Check(j)
  <2>1. job[j].pc \in {"exec", "check"}
    BY <1>7 DEF Check, At
  <2>2. \E v \in {"AC", "WA", "IE"} : Judged(j, v)
    BY <1>7 DEF Check
  <2>. QED  BY <1>2, <2>1, <2>2, JudgedTells
<1>. QED  BY <1>3, <1>4, <1>6, <1>7

\* Nothing is told after the total.
LEMMA EndTells ==
  ASSUME RunTypeOK, PlaceInv, StatusInv, NEW j \in Jobs, Panic(j) \/ Unwind(j) \/ Return(j)
  PROVE  ToldInv
<1>1. /\ job[j] \in Job /\ StackInv(job[j]) /\ OutInv(job[j], out[j]) /\ out' = out
  BY DEF RunTypeOK, PlaceInv, StatusInv, Panic, Unwind, Return
<1>2. job[j].defers # <<>> => Tail(job[j].defers) \in Seq({"rmdir", "delete"} \X Roles)
  BY <1>1 DEF Job
<1>3. CASE Panic(j)
  <2> DEFINE K == [job[j] EXCEPT !.pc = "panic", !.defers = Tail(@)]
  <2>1. job[j].defers # <<>>
    BY <1>1, <1>3 DEF Panic, At, StackInv
  <2>2. K \in Job /\ K.pc = "panic"
    BY <1>1, <1>2, <2>1 DEF Job
  <2>3. Goes(j, K)
    BY <1>3 DEF Panic
  <2> HIDE DEF K
  <2>4. OutInv(K, out[j])
    BY <1>1, <2>2 DEF OutInv, Before
  <2>. QED  BY <1>1, <2>2, <2>3, <2>4, TellsNothing
<1>4. CASE Unwind(j)
  <2> DEFINE K == [job[j] EXCEPT !.defers = Tail(@)]
  <2>1. job[j].defers # <<>>
    BY <1>4 DEF Unwind
  <2>2. K \in Job /\ K.pc = job[j].pc /\ K.taken = job[j].taken /\ K.worst = job[j].worst
    BY <1>1, <1>2, <2>1 DEF Job
  <2>3. Goes(j, K)
    BY <1>4 DEF Unwind
  <2> HIDE DEF K
  <2>4. OutInv(K, out[j])
    BY <1>1, <2>2 DEF OutInv, Before
  <2>. QED  BY <1>1, <2>2, <2>3, <2>4, TellsNothing
<1>5. CASE Return(j)
  <2> DEFINE K == [job[j] EXCEPT !.pc = "end"]
  <2>1. K \in Job /\ K.pc = "end" /\ K.taken = job[j].taken /\ K.worst = job[j].worst
    BY <1>1 DEF Job
  <2>2. Goes(j, K) /\ job[j].pc = "unwind"
    BY <1>5 DEF Return, At
  <2> HIDE DEF K
  <2>3. OutInv(K, out[j])
    BY <1>1, <2>1, <2>2 DEF OutInv, Before
  <2>. QED  BY <1>1, <2>1, <2>2, <2>3, TellsNothing
<1>. QED  BY <1>3, <1>4, <1>5

-----------------------------------------------------------------------------
(* The invariant. *)

RunIInv == RunTypeOK /\ PlaceInv /\ StatusInv

\* Nothing but the worker, its bookkeeping and one place changes type, if at all.
LEMMA PlacesTyped ==
  ASSUME RunTypeOK, PlaceInv, [RunNext]_runState
  PROVE  /\ dirs' \in [Names -> [job : Jobs, role : Roles] \cup {Free}]
         /\ boxes' \in [Names -> Jobs \cup {Nobody}] /\ cgroups' \in [Names -> Jobs \cup {Nobody}]
         /\ alive' \in BOOLEAN /\ failures' \in 0 .. MaxFailures /\ kept' \subseteq Names
<1> DEFINE Typed == /\ dirs' \in [Names -> [job : Jobs, role : Roles] \cup {Free}]
                    /\ boxes' \in [Names -> Jobs \cup {Nobody}] /\ cgroups' \in [Names -> Jobs \cup {Nobody}]
                    /\ alive' \in BOOLEAN /\ failures' \in 0 .. MaxFailures /\ kept' \subseteq Names
<1>1. ASSUME Fine \/ \E kind : Fails(kind) PROVE failures' \in 0 .. MaxFailures /\ kept' = kept
  BY <1>1 DEF Fine, Fails, History, RunTypeOK
<1>2. ASSUME UNCHANGED <<dirs, boxes, cgroups, alive>>, Fine \/ \E kind : Fails(kind) PROVE Typed
  BY <1>1, <1>2 DEF RunTypeOK
<1>3. CASE UNCHANGED runState
  BY <1>3 DEF runState, History, RunTypeOK
<1>4. ASSUME NEW j \in Jobs,
             Enter(j) \/ Compiled(j) \/ Recv(j) \/ TotalStatus(j) \/ Exec(j) \/ Check(j) \/ Panic(j) \/ Return(j)
      PROVE  Typed
  <2>1. UNCHANGED <<dirs, boxes, cgroups, alive>>
    BY <1>4 DEF Enter, Compiled, Recv, TotalStatus, Exec, Check, Panic, Return, Makes
  <2>2. Fine \/ \E kind : Fails(kind)
    BY <1>4 DEF Enter, Compiled, Recv, TotalStatus, Exec, Check, Panic, Return, Exited, Fine
  <2>. QED  BY <1>2, <2>1, <2>2
<1>5. ASSUME NEW j \in Jobs, Mkdir(j) PROVE Typed
  <2>1. Role(j) \in Roles
    <3>1. Before(job[j])
      BY <1>5 DEF Mkdir, Doing, At, Before
    <3>. QED  BY <3>1, DoingFacts
  <2>2. /\ UNCHANGED <<boxes, cgroups, alive>> /\ (Fine \/ \E kind : Fails(kind))
        /\ dirs' = dirs \/ dirs' = [dirs EXCEPT ![Place(j)] = [job |-> j, role |-> Role(j)]]
    BY <1>5 DEF Mkdir, Makes
  <2>3. dirs' \in [Names -> [job : Jobs, role : Roles] \cup {Free}]
    <3> DEFINE x == [job |-> j, role |-> Role(j)]
               m == Place(j)
    <3>1. x \in [job : Jobs, role : Roles]
      BY <2>1
    <3>2. dirs' = dirs \/ dirs' = [dirs EXCEPT ![m] = x]
      BY <2>2
    <3> HIDE DEF x, m
    <3>. QED  BY <3>1, <3>2 DEF RunTypeOK
  <2>. QED  BY <1>1, <2>2, <2>3 DEF RunTypeOK
<1>6. ASSUME NEW j \in Jobs, NEW n, Made(j, n) \/ NotMade(n), UNCHANGED <<dirs, alive>> PROVE Typed
  <2>1. boxes' \in [Names -> Jobs \cup {Nobody}] /\ cgroups' \in [Names -> Jobs \cup {Nobody}]
    BY <1>6 DEF Made, NotMade, RunTypeOK
  <2>2. Fine \/ \E kind : Fails(kind)
    BY <1>6 DEF Made, NotMade
  <2>. QED  BY <1>1, <1>6, <2>1, <2>2 DEF RunTypeOK
<1>7. ASSUME NEW n \in Names, Deleted(n), UNCHANGED <<dirs, alive>> PROVE Typed
  <2>1. boxes' \in [Names -> Jobs \cup {Nobody}] /\ cgroups' \in [Names -> Jobs \cup {Nobody}]
    BY <1>7 DEF Deleted, RunTypeOK
  <2>2. failures' \in 0 .. MaxFailures /\ kept' \subseteq Names
    BY <1>7 DEF Deleted, Fine, History, RunTypeOK
  <2>. QED  BY <1>7, <2>1, <2>2 DEF RunTypeOK
<1>8. ASSUME NEW j \in Jobs, Build(j) \/ Make(j) PROVE Typed
  <2>1. UNCHANGED <<dirs, alive>>
    BY <1>8 DEF Build, Make
  <2>2. \/ UNCHANGED <<boxes, cgroups>> /\ Fine
        \/ Made(j, Place(j)) \/ NotMade(Place(j))
    BY <1>8 DEF Build, Make, Makes
  <2>. QED  BY <1>2, <1>6, <2>1, <2>2
<1>9. ASSUME NEW j \in Jobs, Built(j) PROVE Typed
  <2>1. Place(j) \in Names
    <3>1. Before(job[j])
      BY <1>9 DEF Built, At, Before
    <3>. QED  BY <3>1, DoingFacts
  <2>2. Deleted(Place(j)) /\ UNCHANGED <<dirs, alive>>
    BY <1>9 DEF Built
  <2>. QED  BY <1>7, <2>1, <2>2
<1>10. ASSUME NEW j \in Jobs, Unwind(j) PROVE Typed
  <2> DEFINE c == Head(job[j].defers)
             n == job[j].name[Head(job[j].defers)[2]]
  <2>1. job[j] \in Job /\ Stack(job[j].defers) /\ job[j].defers # <<>>
    BY <1>10 DEF Unwind, RunTypeOK, PlaceInv, StackInv
  <2>2. c \in Call
    BY <2>1, Pops
  <2>3. n \in Names
    BY <2>1, <2>2, SMTT(30) DEF Call, Job
  <2>4. /\ alive' = alive
        /\ \/ Deleted(n) /\ dirs' = dirs
           \/ dirs' = [dirs EXCEPT ![n] = Free] /\ UNCHANGED <<boxes, cgroups>> /\ Fine
    BY <1>10 DEF Unwind, Name, Makes
  <2> HIDE DEF n
  <2>5. CASE Deleted(n) /\ dirs' = dirs
    BY <1>7, <2>3, <2>4, <2>5
  <2>6. CASE dirs' = [dirs EXCEPT ![n] = Free] /\ UNCHANGED <<boxes, cgroups>> /\ Fine
    <3>1. dirs' \in [Names -> [job : Jobs, role : Roles] \cup {Free}]
      BY <2>6 DEF RunTypeOK
    <3>. QED  BY <1>1, <2>4, <2>6, <3>1 DEF RunTypeOK
  <2>. QED  BY <2>4, <2>5, <2>6
<1>11. ASSUME NEW j \in Jobs, Die(j) PROVE Typed
  BY <1>11 DEF Die, Makes, History, RunTypeOK
<1>. QED  BY <1>3, <1>4, <1>5, <1>8, <1>9, <1>10, <1>11 DEF RunNext

\* Every step tells what it may.
LEMMA AllTell ==
  ASSUME RunTypeOK, PlaceInv, StatusInv, [RunNext]_runState
  PROVE  ToldInv
<1>1. ASSUME UNCHANGED <<job, out>> PROVE ToldInv
  BY <1>1 DEF ToldInv, RunTypeOK, StatusInv
<1>2. CASE UNCHANGED runState
  BY <1>1, <1>2 DEF runState
<1>3. ASSUME NEW j \in Jobs, Die(j) PROVE ToldInv
  BY <1>1, <1>3 DEF Die
<1>. QED  BY <1>2, <1>3, SetUpTells, CaseTells, EndTells DEF RunNext

\* The invariant holds at the beginning.
LEMMA InitInv == RunInit => RunIInv
<1> SUFFICES ASSUME RunInit PROVE RunIInv
  OBVIOUS
<1>1. PICK n \in Names :
        job = [j \in Jobs |-> [pc |-> "idle", kind |-> "simple", step |-> 1, name |-> [r \in Roles |-> n],
                               defers |-> <<>>, taken |-> 0, worst |-> "AC", missing |-> FALSE]]
  BY DEF RunInit
<1>2. ASSUME NEW j \in Jobs
      PROVE  /\ job[j] \in Job /\ job[j].pc = "idle" /\ job[j].step = 1 /\ job[j].defers = <<>>
             /\ job[j].taken = 0 /\ job[j].worst = "AC" /\ ~job[j].missing
  BY <1>1 DEF Job, Verdicts
<1>3. /\ dirs = [m \in Names |-> Free] /\ out = [j \in Jobs |-> <<>>] /\ alive = TRUE
      /\ boxes = [m \in Names |-> Nobody] /\ cgroups = [m \in Names |-> Nobody]
      /\ failures = 0 /\ kept = {}
  BY DEF RunInit
<1>4. RunTypeOK
  <2>1. job \in [Jobs -> Job]
    BY <1>1, <1>2
  <2>. QED  BY <1>3, <2>1, NothingTold DEF RunTypeOK
<1>5. Stack(<<>>) /\ Elems(<<>>) = {}
  BY DEF Stack, NoTwice, DeletesFirst, Elems
<1>6. \A j \in Jobs : StackInv(job[j])
  BY <1>2, <1>5 DEF StackInv, Owes, Before, Running
<1>7. \A j \in Jobs : \A w, r : ~Owes(job[j], w, r)
  BY <1>2, <1>5 DEF Owes
<1>8. \A j \in Jobs : \A m : ~MadeAt(job[j], m)
  BY <1>2, <1>7 DEF MadeAt
<1>9. DirsInv /\ LeftInv /\ OwnInv
  BY <1>3, <1>7, <1>8 DEF DirsInv, LeftInv, OwnInv, Nobody
<1>10. StatusInv
  BY <1>2, <1>3, NothingTold DEF StatusInv, OutInv, Before
<1>. QED  BY <1>4, <1>6, <1>9, <1>10 DEF RunIInv, PlaceInv

\* Every step keeps it.
LEMMA StepInv == RunIInv /\ [RunNext]_runState => RunIInv'
<1> SUFFICES ASSUME RunTypeOK, PlaceInv, StatusInv, [RunNext]_runState PROVE RunIInv'
  BY DEF RunIInv
<1>1. ToldInv
  BY AllTell
<1>2. RunTypeOK'
  BY <1>1, PlacesTyped DEF ToldInv, RunTypeOK
<1>3. PlaceInv'
  BY PlacesKept
<1>. QED  BY <1>1, <1>2, <1>3 DEF RunIInv, ToldInv

\* What the proofs of this module rest on: of a job, the deferred calls follow from
\* how far it has come, its directories are those it owes the removal of, its
\* containers lie in them, and its statuses follow from the cases it has taken.
THEOREM RunInv == RunSpec => []RunIInv
  BY InitInv, StepInv, PTL DEF RunSpec

\* Jobs, places and statuses keep their types.
THEOREM RunTypes == RunSpec => []RunTypeOK
<1>1. RunIInv => RunTypeOK
  BY DEF RunIInv
<1>. QED  BY <1>1, RunInv, PTL

\* A compiler, the judged code and the checker run in containers of their own job, on
\* directories made for them (newExecutor, ExecutorManager; names of RandomName may
\* clash).
THEOREM RunsInOwnPlace == RunSpec => []OwnPlace
<1>1. ASSUME RunIInv PROVE OwnPlace
  <2> DEFINE Own(j, role) == /\ dirs[Name(j, role)] = [job |-> j, role |-> role]
                             /\ boxes[Name(j, role)] = j /\ cgroups[Name(j, role)] = j
  <2> SUFFICES ASSUME NEW j \in Jobs
               PROVE  /\ At(j, "building") => Own(j, Role(j))
                      /\ At(j, "exec") => Own(j, "judged")
                      /\ At(j, "check") /\ ~job[j].missing =>
                           Own(j, "checker") /\ dirs[Name(j, "data")] = [job |-> j, role |-> "data"]
    BY DEF OwnPlace
  <2>1. RunTypeOK /\ PlaceInv /\ job[j] \in Job /\ StackInv(job[j])
    BY <1>1 DEF RunIInv, RunTypeOK, PlaceInv
  <2>2. ASSUME NEW r \in Roles, Owes(job[j], "rmdir", r)
        PROVE  dirs[Name(j, r)] = [job |-> j, role |-> r]
    BY <2>1, <2>2 DEF PlaceInv, DirsInv, Name
  <2>3. ASSUME NEW r \in Roles, Before(job[j]) \/ Running(job[j]), MadeAt(job[j], Name(j, r))
        PROVE  boxes[Name(j, r)] = j /\ cgroups[Name(j, r)] = j
    BY <2>1, <2>3 DEF PlaceInv, OwnInv, Name, Job
  <2>4. ASSUME At(j, "building") PROVE Own(j, Role(j))
    <3>1. Before(job[j]) /\ Of(job[j])[1] = "build" /\ job[j].pc = "building"
      BY <2>1, <2>4 DEF At, Before, StackInv
    <3>2. /\ Role(j) \in Roles /\ Role(j) = Of(job[j])[2] /\ Owes(job[j], "rmdir", Role(j))
      BY <2>1, <3>1, DoingFacts
    <3>3. MadeAt(job[j], Name(j, Role(j)))
      BY <3>1, <3>2 DEF MadeAt, Name
    <3>. QED  BY <2>2, <2>3, <3>1, <3>2, <3>3
  <2>5. ASSUME Running(job[j])
        PROVE  LET all == Calls(job[j].kind, Len(SetUp[job[j].kind]))
               IN /\ Elems(job[j].defers) = all /\ job[j].kind \in Kinds
                  /\ <<"rmdir", "judged">> \in all /\ <<"delete", "judged">> \in all
                  /\ job[j].kind = "code" => /\ <<"rmdir", "checker">> \in all
                                             /\ <<"rmdir", "data">> \in all
                                             /\ <<"delete", "checker">> \in all
    <3>1. job[j].kind \in Kinds
      BY <2>1 DEF Job, Kinds
    <3>. QED  BY <2>1, <2>5, <3>1, AllCalls DEF StackInv
  <2>6. "judged" \in Roles /\ "checker" \in Roles /\ "data" \in Roles
    BY DEF Roles
  <2>7. ASSUME At(j, "exec") PROVE Own(j, "judged")
    <3>1. Running(job[j])
      BY <2>7 DEF At, Running
    <3>2. Owes(job[j], "rmdir", "judged") /\ Owes(job[j], "delete", "judged")
      BY <2>5, <3>1 DEF Owes
    <3>3. MadeAt(job[j], Name(j, "judged"))
      BY <2>6, <3>2 DEF MadeAt, Name
    <3>. QED  BY <2>2, <2>3, <2>6, <3>1, <3>2, <3>3
  <2>8. ASSUME At(j, "check"), ~job[j].missing
        PROVE  Own(j, "checker") /\ dirs[Name(j, "data")] = [job |-> j, role |-> "data"]
    <3>1. Running(job[j]) /\ job[j].kind = "code"
      BY <2>1, <2>8 DEF At, Running, StackInv
    <3>2. /\ Owes(job[j], "rmdir", "checker") /\ Owes(job[j], "delete", "checker")
          /\ Owes(job[j], "rmdir", "data")
      BY <2>5, <3>1 DEF Owes
    <3>3. MadeAt(job[j], Name(j, "checker"))
      BY <2>6, <2>8, <3>2 DEF MadeAt, Name
    <3>. QED  BY <2>2, <2>3, <2>6, <3>1, <3>2, <3>3
  <2>. QED  BY <2>4, <2>7, <2>8
<1>. QED  BY <1>1, RunInv, PTL

\* Of a job that has returned nothing is left, and no container outlives its
\* directory, wherever the removals themselves did not fail (the deferred calls of
\* judge_simple.go and judge_runCode.go).
THEOREM LeavesNothing == RunSpec => []NothingLeft
<1>1. ASSUME RunIInv PROVE NothingLeft
  <2> SUFFICES ASSUME NEW n \in Names \ kept
               PROVE  /\ \A j \in Jobs : At(j, "end") => j \notin {dirs[n].job, boxes[n], cgroups[n]}
                      /\ boxes[n] # Nobody => dirs[n].job = boxes[n]
    BY DEF NothingLeft
  <2>1. RunTypeOK /\ PlaceInv
    BY <1>1 DEF RunIInv
  <2>2. ASSUME NEW j \in Jobs, At(j, "end") PROVE j \notin {dirs[n].job, boxes[n], cgroups[n]}
    <3>1. job[j].pc = "end" /\ job[j].defers = <<>>
      BY <2>1, <2>2 DEF At, PlaceInv, StackInv
    <3>2. \A w, r : ~Owes(job[j], w, r)
      BY <3>1 DEF Owes, Elems
    <3>3. ~MadeAt(job[j], n)
      BY <3>1, <3>2 DEF MadeAt
    <3>4. dirs[n].job # j
      BY <2>1, <3>2 DEF PlaceInv, DirsInv, Free, Nobody
    <3>. QED  BY <2>1, <3>3, <3>4 DEF PlaceInv, LeftInv
  <2>3. ASSUME boxes[n] # Nobody PROVE dirs[n].job = boxes[n]
    <3>1. PICK j \in Jobs : boxes[n] = j
      BY <2>1, <2>3 DEF RunTypeOK
    <3>2. MadeAt(job[j], n)
      BY <2>1, <3>1 DEF PlaceInv, LeftInv
    <3>. QED  BY <2>1, <3>1, <3>2, MadeInside
  <2>. QED  BY <2>2, <2>3
<1>. QED  BY <1>1, RunInv, PTL

\* For each case a job tells that it begins and one verdict, and at the end one
\* total that is the worst of them; or an error alone (the channel of statuses of Run).
THEOREM StatusesAlwaysAddUp == RunSpec => []StatusesAddUp
<1>1. ASSUME RunIInv PROVE StatusesAddUp
  <2> SUFFICES ASSUME NEW j \in Jobs, job[j].pc # "panic"
               PROVE  LET s == out[j]
                          k == Len(s)
                      IN /\ \A i \in 1 .. k : s[i].total <=> (i = k /\ job[j].pc \in {"unwind", "end"})
                         /\ \A i \in 1 .. k : ~s[i].total => ((s[i].status = "JG") <=> (i % 2 = 1))
                         /\ job[j].pc \in {"unwind", "end"} =>
                              \/ k = 1 /\ s[1].status \in {"CE", "IE"}
                              \/ /\ k % 2 = 1 /\ s[k].status \in Given(s) \cup {"AC"}
                                 /\ \A v \in Given(s) : Rank(v) <= Rank(s[k].status)
    BY DEF StatusesAddUp
  <2> DEFINE s == out[j]
             k == Len(s)
             w == job[j].worst
  <2>1. /\ job[j] \in Job /\ OutInv(job[j], s) /\ s \in Seq(JudgeStatus) /\ k \in Nat
    BY <1>1 DEF RunIInv, RunTypeOK, StatusInv
  <2> HIDE DEF s
  <2>2. CASE job[j].pc = "idle" \/ Before(job[j])
    <3>1. k = 0 /\ job[j].pc \notin {"unwind", "end"}
      BY <2>1, <2>2 DEF OutInv, Before
    <3>. QED  BY <3>1 DEF s
  <2>3. CASE Running(job[j])
    <3>1. CasesTold(s, w) /\ job[j].pc \notin {"unwind", "end"}
      BY <2>1, <2>3 DEF OutInv, Running
    <3>. QED  BY <3>1 DEF CasesTold, s
  <2>4. CASE job[j].pc \in {"unwind", "end"}
    <3>1. k > 0 /\ s[k].total
      BY <2>1, <2>4 DEF OutInv
    <3>2. CASE k = 1 /\ s[1].status \in {"CE", "IE"}
      <4>1. \A i \in 1 .. k : i = k
        BY <3>2
      <4>. QED  BY <2>4, <3>1, <3>2, <4>1 DEF s
    <3>3. CASE k % 2 = 1 /\ s[k].status = w /\ CasesTold(Front(s), w)
      <4>1. \A i \in 1 .. k - 1 : Front(s)[i] = s[i]
        BY DEF Front
      <4>2. Len(Front(s)) = k - 1
        BY <2>1, <3>1 DEF Front
      <4>3. \A i \in 1 .. k - 1 :
              /\ ~s[i].total /\ (s[i].status = "JG" <=> i % 2 = 1)
              /\ s[i].status # "JG" => s[i].status \in Verdicts /\ Rank(s[i].status) <= Rank(w)
        BY <3>3, <4>1, <4>2 DEF CasesTold
      <4>4. \A i \in 1 .. k : i = k \/ i \in 1 .. k - 1
        BY <2>1, <3>1
      <4>5. \A i \in 1 .. k - 1 : i # k
        BY <2>1
      <4>6. \A v \in Given(s) : Rank(v) <= Rank(w)
        BY <4>3 DEF Given
      <4>7. w # "AC" => w \in Given(s)
        <5>1. w \in Verdicts /\ (w # "AC" => \E i \in 1 .. k - 1 : s[i].status = w)
          BY <3>3, <4>1, <4>2 DEF CasesTold
        <5>2. w # "JG"
          BY <5>1 DEF Verdicts
        <5>. QED  BY <5>1, <5>2 DEF Given
      <4>8. \A i \in 1 .. k : s[i].total <=> i = k
        BY <3>1, <4>3, <4>4, <4>5
      <4>9. \A i \in 1 .. k : ~s[i].total => ((s[i].status = "JG") <=> (i % 2 = 1))
        BY <3>1, <4>3, <4>4
      <4>. QED  BY <2>4, <3>3, <4>6, <4>7, <4>8, <4>9 DEF s
    <3>. QED  BY <2>1, <2>4, <3>2, <3>3 DEF OutInv
  <2>. QED  BY <2>1, <2>2, <2>3, <2>4 DEF Job, Before, Running
<1>. QED  BY <1>1, RunInv, PTL
=============================================================================
