-------------------------- MODULE JudgePipelineProofs --------------------------
(***************************************************************************)
(* The proofs about JudgePipeline, for all values of its constants.         *)
(*                                                                         *)
(* Types first (TypeStep).  Then, for each component of the state, a lemma  *)
(* that says where its elements in the next state come from (JobsCome,      *)
(* ReqsCome, DispatchesCome, RowsCome, ...): the invariants about runs are  *)
(* shown from these and look at no action again.  NothingBeforeSubmit makes *)
(* the row SubmissionAdd creates a new one, so used_jid never decreases     *)
(* (RowGrows); so it stays ahead of every run around (JidStep); so the run  *)
(* a load transaction hands out is nobody else's (UniqueStep).              *)
(*                                                                         *)
(* On these rest the invariants on slots (SlotInv), on the verdicts a run    *)
(* has told (VerdictInv), on who still owes a submission its verdict         *)
(* (CarryInv), and on a verdict that no report of its own run takes back     *)
(* (KeptInv).                                                                *)
(***************************************************************************)
EXTENDS JudgePipeline, SequenceTheorems, FiniteSetTheorems, TLAPS

USE NCasesAssumption, PipelineAssumption DEF NCasesAssumption, PipelineAssumption

-----------------------------------------------------------------------------
(***************************************************************************)
(* What the operators of SubmissionStore and JobSteps return, once and for  *)
(* all values of NCases: the lemmas the proofs about JudgePipeline rest on. *)
(***************************************************************************)

-----------------------------------------------------------------------------
(* Rows. *)

\* SubmissionAdd stores a well-formed row.
LEMMA NewRowType == NewRow \in Row
  BY DEF Row, NewRow, Statuses, WJ

\* Handing out a run and resetting for a rejudge keep a row well formed.
LEMMA DispatchAndResetType ==
  ASSUME NEW row \in Row
  PROVE  UsedJidPlusOne(row) \in Row /\ ResetForRejudge(row) \in Row
  BY DEF Row, UsedJidPlusOne, ResetForRejudge, Statuses, WJ

\* So does a total verdict ...
LEMMA UpdateResultType ==
  ASSUME NEW row \in Row, NEW jid \in Nat, NEW status \in TotalVerdicts
  PROVE  UpdateResult(row, jid, status) \in Row
<1>1. KeptCases(row, jid) \in SUBSET CaseRow
  BY DEF Row, KeptCases
<1>. QED  BY <1>1 DEF Row, UpdateResult, Statuses

\* ... and a report on a case of the problem.
LEMMA UpdateTestCaseType ==
  ASSUME NEW row \in Row, NEW jid \in Nat, NEW id \in CaseIds,
         NEW status \in {JG} \cup CaseVerdicts
  PROVE  UpdateTestCase(row, jid, id, status) \in Row
<1>1. KeptCases(row, jid) \in SUBSET CaseRow
  BY DEF Row, KeptCases
<1>2. {c \in {[jid |-> jid, id |-> id, status |-> status]} : status # JG}
        \in SUBSET CaseRow
  BY DEF CaseRow
<1>. QED  BY <1>1, <1>2 DEF Row, UpdateTestCase, Statuses

-----------------------------------------------------------------------------
(* Job records. *)

\* A job starts as a job record.
LEMMA NewStateType == NewState \in JobState
  BY DEF NewState, JobState, CaseVerdicts

\* Every step of a job leaves a job record of the right shape.
LEMMA JobTypes ==
  ASSUME NEW j \in JobState
  PROVE  /\ Refused(j) \in JobState
         /\ CanDownload(j) => Downloaded(j) \in JobState
         /\ DownloadFailed(j) \in JobState
         /\ \A t \in RunResults : Returned(j, t) \in JobState
         /\ \A v \in Statuses : CanReportCase(j, v) => CaseReported(j, v) \in JobState
         /\ TotalReported(j) \in JobState
         /\ TotalSkipped(j) \in JobState
         /\ Released(j) \in JobState
         /\ \A r \in ReportKinds : Answered(j, r) \in JobState
<1>1. Refused(j) \in JobState /\ DownloadFailed(j) \in JobState
  BY DEF JobState, Refused, DownloadFailed
<1>2. ASSUME CanDownload(j) PROVE Downloaded(j) \in JobState
  <2>1. j.dl + 1 \in 0 .. NCases
    BY <1>2 DEF JobState, CanDownload
  <2>. QED  BY <2>1 DEF JobState, Downloaded
<1>3. \A t \in RunResults : Returned(j, t) \in JobState
  BY DEF JobState, Returned
<1>4. ASSUME NEW v \in Statuses, CanReportCase(j, v)
      PROVE  CaseReported(j, v) \in JobState
  <2>1. j.rep + 1 \in 0 .. 2 * NCases
    BY <1>4 DEF JobState, CanReportCase, RunStatuses
  <2>2. (IF v = JG THEN j.worst ELSE Worse(j.worst, v)) \in CaseVerdicts
    BY <1>4 DEF JobState, CanReportCase, Worse, CaseVerdicts, JG
  <2>. QED  BY <2>1, <2>2 DEF JobState, CaseReported
<1>5. TotalReported(j) \in JobState /\ TotalSkipped(j) \in JobState
      /\ Released(j) \in JobState
  BY DEF JobState, TotalReported, TotalSkipped, Released
<1>6. \A r \in ReportKinds : Answered(j, r) \in JobState
  BY DEF JobState, Answered
<1>. QED  BY <1>1, <1>2, <1>3, <1>4, <1>5, <1>6

\* Every report a job sends is well formed; a case report names a case of the
\* problem.
LEMMA ReportTypes ==
  ASSUME NEW j \in JobState
  PROVE  /\ RefusedReport \in ReportKinds
         /\ DownloadFailedReport \in ReportKinds
         /\ \A v \in Statuses : CanReportCase(j, v) => NextCaseReport(j, v) \in ReportKinds
         /\ CanReportTotal(j) => TotalReport(j) \in ReportKinds
<1>1. RefusedReport \in ReportKinds /\ DownloadFailedReport \in ReportKinds
  BY DEF RefusedReport, DownloadFailedReport, ResultReport, ReportKinds, TotalVerdicts
<1>2. ASSUME NEW v \in Statuses, CanReportCase(j, v)
      PROVE  NextCaseReport(j, v) \in ReportKinds
  <2>1. j.rep \in Nat /\ j.rep < 2 * NCases
    BY <1>2 DEF JobState, CanReportCase, RunStatuses
  <2>2. j.rep \div 2 \in CaseIds
    BY <2>1 DEF CaseIds
  <2>3. v \in {JG} \cup CaseVerdicts
    BY <1>2 DEF CanReportCase
  <2>. QED  BY <2>2, <2>3 DEF NextCaseReport, CaseReport, ReportKinds
<1>3. ASSUME CanReportTotal(j)
      PROVE  TotalReport(j) \in ReportKinds
  <2>1. (IF j.total = "cases" THEN j.worst ELSE j.total) \in TotalVerdicts
    BY <1>3 DEF JobState, CanReportTotal, RunResults, CaseVerdicts, TotalVerdicts
  <2>. QED  BY <2>1 DEF TotalReport, ResultReport, ReportKinds
<1>. QED  BY <1>1, <1>2, <1>3

-----------------------------------------------------------------------------
(* Types. *)

\* A sender that holds a submission holds one of them.
SenderHolds == \A c \in Conns : Dispatching(c) => sender[c].sub \in Subs

TypeInv == TypeOK /\ SenderHolds

-----------------------------------------------------------------------------
(* What the helpers of the actions do to the types. *)

\* An idle sender is a sender at the given place in its loop.
LEMMA IdleType ==
  ASSUME NEW pc \in {"none", "top", "brpop", "load", "write", "sel", "end"}
  PROVE  Idle(pc) \in Sender /\ Idle(pc).pc = pc
  BY DEF Idle, Sender

\* A sender that goes to a place outside a dispatch keeps the senders typed.
LEMMA SenderIdle ==
  ASSUME TypeInv, NEW c \in Conns, NEW pc \in {"top", "brpop", "sel", "end"},
         sender' = [sender EXCEPT ![c] = Idle(pc)]
  PROVE  sender' \in [Conns -> Sender] /\ SenderHolds'
<1>1. Idle(pc) \in Sender /\ Idle(pc).pc \notin {"load", "write"}
  BY IdleType
<1>. QED  BY <1>1 DEF TypeInv, TypeOK, SenderHolds, Dispatching

\* The return of a sender keeps sender, conn and fin typed.
LEMMA SenderReturnType ==
  ASSUME TypeInv, NEW c \in Conns, SenderReturn(c)
  PROVE  /\ sender' \in [Conns -> Sender]
         /\ conn' \in [Conns -> {"new", "up", "down"}]
         /\ fin' \in [Conns -> Nat]
         /\ SenderHolds'
  BY SenderIdle DEF SenderReturn, TypeInv, TypeOK

\* The error paths that give the slot back keep sender and avail typed.
LEMMA SenderRetryType ==
  ASSUME TypeInv, NEW c \in Conns, SenderRetry(c)
  PROVE  /\ sender' \in [Conns -> Sender]
         /\ avail' \in [Conns -> Nat]
         /\ SenderHolds'
<1>1. avail' \in [Conns -> Nat]
  BY DEF SenderRetry, TypeInv, TypeOK
<1>2. sender' = [sender EXCEPT ![c] = Idle("top")]
  BY DEF SenderRetry
<1>. QED  BY <1>1, <1>2, SenderIdle

\* A job that goes on as a job record leaves typed jobs.
LEMMA JobGoesOnType ==
  ASSUME jobs \subseteq Job, NEW j \in jobs, NEW st \in JobState, JobGoesOn(j, st)
  PROVE  jobs' \subseteq Job
<1>1. [j EXCEPT !.st = st] \in Job
  BY DEF Job
<1>. QED  BY <1>1 DEF JobGoesOn

\* A well-formed report of a job is a well-formed request.
LEMMA SendType ==
  ASSUME jobs \subseteq Job, reqs \subseteq Req, NEW j \in jobs,
         NEW rep \in ReportKinds, Send(j, rep)
  PROVE  reqs' \subseteq Req
<1>1. [sub |-> j.sub, jid |-> j.jid, awaited |-> TRUE, rep |-> rep] \in Req
  BY DEF Job, Req
<1>. QED  BY <1>1 DEF Send

\* A job that got an answer is a job still ...
LEMMA ResumedType ==
  ASSUME NEW j \in Job, NEW r \in Req
  PROVE  Resumed(j, r) \in Job
<1>1. Answered(j.st, r.rep) \in JobState
  BY JobTypes DEF Job, Req
<1>. QED  BY <1>1 DEF Resumed, Job

\* ... so an answer leaves typed jobs.
LEMMA AnswerType ==
  ASSUME jobs \subseteq Job, NEW r \in Req, Answer(r)
  PROVE  jobs' \subseteq Job
  BY ResumedType DEF Answer

\* A job whose requests died with ppjc is a job still.
LEMMA GivenUpType ==
  ASSUME NEW j \in Job
  PROVE  GivenUp(j) \in Job
  BY DEF GivenUp, Job, JobState

\* A report leaves a well-formed row.
LEMMA ReportedType ==
  ASSUME NEW row \in Row, NEW r \in Req
  PROVE  Reported(row, r) \in Row
<1>1. r.jid \in Nat /\ r.rep \in ReportKinds
  BY DEF Req
<1>2. CASE r.rep.type = "case"
  <2>1. r.rep.id \in CaseIds /\ r.rep.status \in {JG} \cup CaseVerdicts
    BY <1>1, <1>2 DEF ReportKinds
  <2>. QED  BY <1>1, <1>2, <2>1, UpdateTestCaseType DEF Reported
<1>3. CASE r.rep.type # "case"
  <2>1. r.rep.status \in TotalVerdicts
    BY <1>1, <1>3 DEF ReportKinds
  <2>. QED  BY <1>1, <1>3, <2>1, UpdateResultType DEF Reported
<1>. QED  BY <1>2, <1>3

\* A report and the internal error of the submit handler ask for a transaction.
LEMMA AskedType ==
  ASSUME TypeOK, NEW t \in Asked
  PROVE  /\ t \in Tx /\ t.sub \in Subs /\ t.jid \in Nat
         /\ t.rep.type = "case" => t.rep.id \in Nat
<1>1. CASE t \in {TxOf(r) : r \in reqs}
  <2>1. PICK r \in reqs : t = TxOf(r)
    BY <1>1
  <2>2. /\ t.sub = r.sub /\ t.jid = r.jid /\ t.rep = r.rep /\ r.rep \in ReportKinds
        /\ t \in Tx
    BY <2>1 DEF TypeOK, TxOf, Tx, Req
  <2>. QED  BY <2>1, <2>2 DEF TypeOK, Req, ReportKinds, CaseIds
<1>2. CASE t \in {WebTx(s) : s \in {u \in Subs : web[u] = "failed"}}
  BY <1>2 DEF WebTx, Tx, WebReport, ResultReport
<1>. QED  BY <1>1, <1>2 DEF Asked

\* The first half of a transaction keeps the types of the keys.
LEMMA ChangeKeyType ==
  ASSUME TypeOK, NEW t \in Asked, ChangeKey(t) \/ ChangeKeyError(t)
  PROVE  progress' \in [Subs -> Nat] /\ open' \subseteq Tx /\ parted' \subseteq Subs
<1>1. t \in Tx /\ t.sub \in Subs /\ (t.rep.type = "case" => t.rep.id \in Nat)
  BY AskedType
<1>2. (IF t.rep.type = "case" THEN t.rep.id + 1 ELSE 0) \in Nat
  BY <1>1
<1>. QED  BY <1>1, <1>2 DEF ChangeKey, ChangeKeyError, TypeOK

\* So does a rollback.
LEMMA RolledBackType ==
  ASSUME TypeOK, NEW ended, RolledBack(ended)
  PROVE  open' \subseteq Tx /\ parted' \subseteq Subs
  BY DEF RolledBack, TypeOK, Tx

\* Losing a report keeps the dropped submissions typed.
LEMMA VerdictLostType ==
  ASSUME TypeOK, NEW r \in Req, VerdictLost(r)
  PROVE  dropped' \subseteq Subs
  BY DEF VerdictLost, TypeOK, Req

\* A request to judge a submission is typed.
LEMMA PushType ==
  ASSUME NEW s \in Subs, NEW n \in Nat
  PROVE  <<s, n>> \in Push
  BY DEF Push

\* LPUSH and BRPOP leave a sequence of submissions.
LEMMA QueueTypes ==
  ASSUME NEW S, NEW q \in Seq(S)
  PROVE  /\ \A s \in S : <<s>> \o q \in Seq(S)
         /\ q # <<>> => /\ q[Len(q)] \in S
                        /\ SubSeq(q, 1, Len(q) - 1) \in Seq(S)
<1>1. ASSUME NEW s \in S PROVE <<s>> \o q \in Seq(S)
  BY ConcatProperties
<1>2. ASSUME q # <<>>
      PROVE  q[Len(q)] \in S /\ SubSeq(q, 1, Len(q) - 1) \in Seq(S)
  <2>1. Len(q) \in 1 .. Len(q)
    BY <1>2, EmptySeq
  <2>. QED  BY <1>2, <2>1, SubSeqProperties, ElementOfSeq
<1>. QED  BY <1>1, <1>2

\* The initial state is typed.
LEMMA TypeInit == Init => TypeInv
  BY NewRowType, IdleType, EmptySeq DEF Init, TypeInv, TypeOK, SenderHolds,
    Dispatching, NoListing

\* Every step keeps the types: one case for each action.
LEMMA TypeStep == TypeInv /\ [Next]_vars => TypeInv'
<1> SUFFICES ASSUME TypeInv, [Next]_vars PROVE TypeInv'
  OBVIOUS
<1> USE DEF webVars, keyVars, connVars, jobRest
<1>1. ASSUME NEW s \in Subs, Submit(s) PROVE TypeInv'
  <2>1. NewRow \in Row /\ <<s, 0>> \in Push
    BY <1>1, NewRowType, PushType
  <2>. QED  BY <1>1, <2>1 DEF Submit, Fault, TypeInv, TypeOK, SenderHolds,
      Dispatching
<1>2. ASSUME NEW s \in Subs, SubmitError(s) PROVE TypeInv'
  BY <1>2 DEF SubmitError, Fault, TypeInv, TypeOK, SenderHolds, Dispatching
<1>3. ASSUME NEW s \in Subs, SubmitFailed(s) PROVE TypeInv'
  <2>1. UpdateResult(rows[s], 0, "IE") \in Row
    BY <1>3, UpdateResultType DEF TypeInv, TypeOK, TotalVerdicts
  <2>. QED  BY <1>3, <2>1 DEF SubmitFailed, Fault, TypeInv, TypeOK,
      SenderHolds, Dispatching
<1>4. ASSUME NEW s \in Subs, Rejudge(s) PROVE TypeInv'
  <2>1. ResetForRejudge(rows[s]) \in Row
    BY <1>4, DispatchAndResetType DEF TypeInv, TypeOK
  <2>2. <<s, rejudges + 1>> \in Push
    BY <1>4, PushType DEF TypeInv, TypeOK
  <2>3. rows' \in [Subs -> Row]
    BY <1>4, <2>1 DEF Rejudge, TypeInv, TypeOK
  <2>4. pushes' \subseteq Push
    BY <1>4, <2>2 DEF Rejudge, TypeInv, TypeOK
  <2>5. rejudges' \in Nat
    BY <1>4 DEF Rejudge, TypeInv, TypeOK
  <2>. QED  BY <1>4, <2>3, <2>4, <2>5 DEF Rejudge, Fault, TypeInv, TypeOK,
      SenderHolds, Dispatching
<1>5. ASSUME RejudgeList PROVE TypeInv'
  BY <1>5 DEF RejudgeList, Fault, TypeInv, TypeOK, SenderHolds, Dispatching
<1>6. ASSUME RejudgeAll PROVE TypeInv'
  <2>1. \A s \in Subs : ResetForRejudge(rows[s]) \in Row
    BY <1>6, DispatchAndResetType DEF TypeInv, TypeOK
  <2>2. listing.subs \X {listing.n} \subseteq Push
    BY <1>6 DEF TypeInv, TypeOK, Push
  <2>3. NoListing \in [n : Nat, subs : SUBSET Subs]
    BY <1>6 DEF NoListing
  <2>. QED  BY <1>6, <2>1, <2>2, <2>3 DEF RejudgeAll, Fault, TypeInv, TypeOK,
      SenderHolds, Dispatching
<1>7. ASSUME NEW p \in pushes, RejudgeError(p) PROVE TypeInv'
  <2>1. p[1] \in Subs
    BY <1>7 DEF TypeInv, TypeOK, Push
  <2>. QED  BY <1>7, <2>1 DEF RejudgeError, Fault, TypeInv, TypeOK,
      SenderHolds, Dispatching
<1>8. ASSUME WebCrash PROVE TypeInv'
  <2>1. NoListing \in [n : Nat, subs : SUBSET Subs]
    BY <1>8 DEF NoListing
  <2>2. open' \subseteq Tx /\ parted' \subseteq Subs
    BY <1>8, RolledBackType DEF WebCrash, TypeInv
  <2>. QED  BY <1>8, <2>1, <2>2 DEF WebCrash, Fault, TypeInv, TypeOK, SenderHolds,
      Dispatching
<1>9. ASSUME NEW p \in pushes, HandleSubmit(p) PROVE TypeInv'
  <2>1. p[1] \in Subs
    BY <1>9 DEF TypeInv, TypeOK, Push
  <2>2. queue' \in Seq(Subs)
    BY <1>9, <2>1, QueueTypes DEF HandleSubmit, TypeInv, TypeOK
  <2>. QED  BY <1>9, <2>1, <2>2 DEF HandleSubmit, Fault, TypeInv, TypeOK,
      SenderHolds, Dispatching
<1>10. ASSUME NEW c \in Conns, Connect(c) PROVE TypeInv'
  <2>1. sender' \in [Conns -> Sender] /\ SenderHolds'
    BY <1>10, SenderIdle DEF Connect
  <2>. QED  BY <1>10, <2>1 DEF Connect, Fault, TypeInv, TypeOK
<1>11. ASSUME NEW c \in Conns, SenderTake(c) PROVE TypeInv'
  <2>1. avail[c] - 1 \in Nat
    BY <1>11 DEF SenderTake, TypeInv, TypeOK
  <2>2. /\ sender' \in [Conns -> Sender]
        /\ SenderHolds'
        /\ conn' \in [Conns -> {"new", "up", "down"}]
        /\ fin' \in [Conns -> Nat]
    BY <1>11, SenderReturnType, SenderIdle DEF SenderTake, TypeInv, TypeOK
  <2>. QED  BY <1>11, <2>1, <2>2 DEF SenderTake, Fault, TypeInv, TypeOK
<1>12. ASSUME NEW c \in Conns, SenderStop(c) PROVE TypeInv'
  <2>1. /\ sender' \in [Conns -> Sender]
        /\ SenderHolds'
        /\ conn' \in [Conns -> {"new", "up", "down"}]
        /\ fin' \in [Conns -> Nat]
    BY <1>12, SenderReturnType DEF SenderStop
  <2>. QED  BY <1>12, <2>1 DEF SenderStop, Fault, TypeInv, TypeOK
<1>13. ASSUME NEW c \in Conns, SenderCancelled(c) PROVE TypeInv'
  <2>1. /\ sender' \in [Conns -> Sender]
        /\ SenderHolds'
        /\ conn' \in [Conns -> {"new", "up", "down"}]
        /\ fin' \in [Conns -> Nat]
    BY <1>13, SenderReturnType DEF SenderCancelled
  <2>. QED  BY <1>13, <2>1 DEF SenderCancelled, Fault, TypeInv, TypeOK
<1>14. ASSUME NEW c \in Conns, SenderPop(c) PROVE TypeInv'
  <2>1. queue[Len(queue)] \in Subs /\ queue' \in Seq(Subs)
    BY <1>14, QueueTypes DEF SenderPop, TypeInv, TypeOK
  <2>2. sender' \in [Conns -> Sender] /\ SenderHolds'
    BY <1>14, <2>1 DEF SenderPop, TypeInv, TypeOK, SenderHolds, Dispatching,
      Sender, Idle
  <2>. QED  BY <1>14, <2>1, <2>2 DEF SenderPop, Fault, TypeInv, TypeOK
<1>15. ASSUME NEW c \in Conns, SenderRedisError(c) PROVE TypeInv'
  <2>1. queue # <<>> => queue[Len(queue)] \in Subs
    BY <1>15, QueueTypes DEF TypeInv, TypeOK
  <2>2. queue' \in Seq(Subs)
    <3>1. queue # <<>> => SubSeq(queue, 1, Len(queue) - 1) \in Seq(Subs)
      BY QueueTypes DEF TypeInv, TypeOK
    <3>. QED  BY <1>15, <3>1 DEF SenderRedisError, TypeInv, TypeOK
  <2>3. /\ sender' \in [Conns -> Sender]
        /\ avail' \in [Conns -> Nat]
        /\ SenderHolds'
    BY <1>15, SenderRetryType DEF SenderRedisError
  <2>4. faults' \in Nat /\ dropped' \subseteq Subs
    BY <1>15, <2>1 DEF SenderRedisError, Fault, TypeInv, TypeOK
  <2>. QED  BY <1>15, <2>2, <2>3, <2>4 DEF SenderRedisError, TypeInv, TypeOK
<1>16. ASSUME NEW c \in Conns, SenderLoad(c) PROVE TypeInv'
  <2>1. sender[c].sub \in Subs
    BY <1>16 DEF SenderLoad, TypeInv, SenderHolds, Dispatching
  <2>2. rows' \in [Subs -> Row]
    BY <1>16, <2>1, DispatchAndResetType DEF SenderLoad, TypeInv, TypeOK
  <2>3. rows[sender[c].sub].usedJid + 1 \in Nat
    BY <1>16, <2>1 DEF TypeInv, TypeOK, Row
  <2>4. sender' \in [Conns -> Sender] /\ SenderHolds'
    BY <1>16, <2>1, <2>3, ZenonT(40) DEF SenderLoad, TypeInv, TypeOK, SenderHolds,
      Dispatching, Sender
  <2>. QED  BY <1>16, <2>1, <2>2, <2>3, <2>4 DEF SenderLoad, Fault, TypeInv,
      TypeOK
<1>17. ASSUME NEW c \in Conns, SenderLoadError(c) PROVE TypeInv'
  <2>1. sender[c].sub \in Subs
    BY <1>17 DEF SenderLoadError, TypeInv, SenderHolds, Dispatching
  <2>2. /\ sender' \in [Conns -> Sender]
        /\ avail' \in [Conns -> Nat]
        /\ SenderHolds'
    BY <1>17, SenderRetryType DEF SenderLoadError
  <2>. QED  BY <1>17, <2>1, <2>2 DEF SenderLoadError, Fault, TypeInv, TypeOK
<1>18. ASSUME NEW c \in Conns, SenderWrite(c) PROVE TypeInv'
  <2>1. sender[c].sub \in Subs
    BY <1>18 DEF SenderWrite, TypeInv, SenderHolds, Dispatching
  <2>2. NewJob(sender[c].sub, sender[c].jid, c) \in Job
    BY <1>18, <2>1, NewStateType DEF TypeInv, TypeOK, NewJob, Job, Sender
  <2>3. sender' \in [Conns -> Sender] /\ SenderHolds'
    BY <1>18, SenderIdle DEF SenderWrite
  <2>. QED  BY <1>18, <2>1, <2>2, <2>3 DEF SenderWrite, Fault, TypeInv, TypeOK
<1>19. ASSUME NEW c \in Conns, SenderWriteLost(c) PROVE TypeInv'
  <2>1. sender[c].sub \in Subs
    BY <1>19 DEF SenderWriteLost, TypeInv, SenderHolds, Dispatching
  <2>2. /\ sender' \in [Conns -> Sender]
        /\ avail' \in [Conns -> Nat]
        /\ SenderHolds'
    BY <1>19, SenderRetryType, SenderIdle DEF SenderWriteLost, TypeInv, TypeOK
  <2>. QED  BY <1>19, <2>1, <2>2 DEF SenderWriteLost, Fault, TypeInv, TypeOK
<1>20. ASSUME NEW c \in Conns, ReaderFinished(c) PROVE TypeInv'
  <2>1. fin[c] - 1 \in Nat /\ avail[c] + 1 \in Nat
    BY <1>20 DEF ReaderFinished, TypeInv, TypeOK
  <2>. QED  BY <1>20, <2>1 DEF ReaderFinished, Fault, TypeInv, TypeOK,
      SenderHolds, Dispatching
<1>21. ASSUME NEW c \in Conns, ReaderClosed(c) PROVE TypeInv'
  BY <1>21 DEF ReaderClosed, Fault, TypeInv, TypeOK, SenderHolds, Dispatching
<1>22. ASSUME NEW c \in Conns, ConnDown(c) PROVE TypeInv'
  BY <1>22 DEF ConnDown, Fault, TypeInv, TypeOK, SenderHolds, Dispatching
<1>23. ASSUME NEW c \in Conns, WorkerExit(c) PROVE TypeInv'
  <2>1. {j.sub : j \in {k \in {l \in jobs : l.conn = c} : Unfinished(k)}} \subseteq Subs
    BY <1>23 DEF TypeInv, TypeOK, Job
  <2>. QED  BY <1>23, <2>1 DEF WorkerExit, Fault, TypeInv, TypeOK, SenderHolds,
      Dispatching
<1>24. ASSUME NEW j \in jobs, JobRefused(j) PROVE TypeInv'
  <2>1. j.st \in JobState
    BY <1>24 DEF TypeInv, TypeOK, Job
  <2>2. jobs' \subseteq Job
    BY <1>24, <2>1, JobTypes, JobGoesOnType DEF JobRefused, TypeInv, TypeOK
  <2>3. reqs' \subseteq Req
    BY <1>24, <2>1, ReportTypes, SendType DEF JobRefused, TypeInv, TypeOK
  <2>. QED  BY <1>24, <2>1, <2>2, <2>3 DEF JobRefused, Fault, TypeInv, TypeOK,
      SenderHolds, Dispatching
<1>25. ASSUME NEW j \in jobs, JobDownload(j) PROVE TypeInv'
  <2>1. j.st \in JobState
    BY <1>25 DEF TypeInv, TypeOK, Job
  <2>2. jobs' \subseteq Job
    BY <1>25, <2>1, JobTypes, JobGoesOnType DEF JobDownload, TypeInv, TypeOK
  <2>. QED  BY <1>25, <2>1, <2>2 DEF JobDownload, Fault, TypeInv, TypeOK,
      SenderHolds, Dispatching
<1>26. ASSUME NEW j \in jobs, JobDownloadError(j) PROVE TypeInv'
  <2>1. j.st \in JobState
    BY <1>26 DEF TypeInv, TypeOK, Job
  <2>2. jobs' \subseteq Job
    BY <1>26, <2>1, JobTypes, JobGoesOnType DEF JobDownloadError, TypeInv,
      TypeOK
  <2>3. reqs' \subseteq Req
    BY <1>26, <2>1, ReportTypes, SendType DEF JobDownloadError, TypeInv, TypeOK
  <2>. QED  BY <1>26, <2>1, <2>2, <2>3 DEF JobDownloadError, Fault, TypeInv,
      TypeOK, SenderHolds, Dispatching
<1>27. ASSUME NEW j \in jobs, JobRunReturns(j) PROVE TypeInv'
  <2>1. j.st \in JobState
    BY <1>27 DEF TypeInv, TypeOK, Job
  <2>2. jobs' \subseteq Job
    BY <1>27, <2>1, JobTypes, JobGoesOnType DEF JobRunReturns, TypeInv, TypeOK
  <2>. QED  BY <1>27, <2>1, <2>2 DEF JobRunReturns, Fault, TypeInv, TypeOK,
      SenderHolds, Dispatching
<1>28. ASSUME NEW j \in jobs, JobReportCase(j) PROVE TypeInv'
  <2>1. j.st \in JobState
    BY <1>28 DEF TypeInv, TypeOK, Job
  <2>2. jobs' \subseteq Job
    BY <1>28, <2>1, JobTypes, JobGoesOnType DEF JobReportCase, TypeInv, TypeOK
  <2>3. reqs' \subseteq Req
    BY <1>28, <2>1, ReportTypes, SendType DEF JobReportCase, TypeInv, TypeOK
  <2>. QED  BY <1>28, <2>1, <2>2, <2>3 DEF JobReportCase, Fault, TypeInv,
      TypeOK, SenderHolds, Dispatching
<1>29. ASSUME NEW j \in jobs, JobReportTotal(j) PROVE TypeInv'
  <2>1. j.st \in JobState
    BY <1>29 DEF TypeInv, TypeOK, Job
  <2>2. jobs' \subseteq Job
    BY <1>29, <2>1, JobTypes, JobGoesOnType DEF JobReportTotal, TypeInv, TypeOK
  <2>3. reqs' \subseteq Req
    BY <1>29, <2>1, ReportTypes, SendType DEF JobReportTotal, MaySendTotal,
      TypeInv, TypeOK
  <2>. QED  BY <1>29, <2>1, <2>2, <2>3 DEF JobReportTotal, Fault, TypeInv,
      TypeOK, SenderHolds, Dispatching
<1>30. ASSUME NEW j \in jobs, JobRelease(j) PROVE TypeInv'
  <2>1. j.st \in JobState
    BY <1>30 DEF TypeInv, TypeOK, Job
  <2>2. jobs' \subseteq Job
    BY <1>30, <2>1, JobTypes, JobGoesOnType DEF JobRelease, TypeInv, TypeOK
  <2>3. fin' \in [Conns -> Nat]
    <3>1. j.conn \in Conns
      BY DEF TypeInv, TypeOK, Job
    <3>. QED  BY <1>30, <3>1 DEF JobRelease, TypeInv, TypeOK
  <2>. QED  BY <1>30, <2>2, <2>3 DEF JobRelease, Fault, TypeInv, TypeOK,
      SenderHolds, Dispatching
<1>31. ASSUME NEW r \in reqs, HandleReport(r) PROVE TypeInv'
  <2>1. r \in Req /\ r.sub \in Subs
    BY <1>31 DEF TypeInv, TypeOK, Req
  <2>2. Reported(rows[r.sub], r) \in Row
    BY <1>31, <2>1, ReportedType DEF TypeInv, TypeOK
  <2>3. jobs' \subseteq Job
    BY <1>31, <2>1, AnswerType DEF HandleReport, TypeInv, TypeOK
  <2>. QED  BY <1>31, <2>1, <2>2, <2>3 DEF HandleReport, Fault, TypeInv,
      TypeOK, SenderHolds, Dispatching
<1>32. ASSUME NEW r \in reqs, HandleReportAbort(r) PROVE TypeInv'
  <2>1. r \in Req /\ r.sub \in Subs
    BY <1>32 DEF TypeInv, TypeOK, Req
  <2>2. jobs' \subseteq Job
    BY <1>32, <2>1, AnswerType DEF HandleReportAbort, TypeInv, TypeOK
  <2>3. open' \subseteq Tx /\ parted' \subseteq Subs
    BY <1>32, RolledBackType DEF HandleReportAbort, TypeInv
  <2>4. dropped' \subseteq Subs
    BY <1>32, <2>1, VerdictLostType DEF HandleReportAbort, TypeInv
  <2>. QED  BY <1>32, <2>1, <2>2, <2>3, <2>4 DEF HandleReportAbort, Fault,
      TypeInv, TypeOK, SenderHolds, Dispatching
<1>33. ASSUME NEW r \in reqs, LoseReport(r) PROVE TypeInv'
  <2>1. r \in Req /\ r.sub \in Subs
    BY <1>33 DEF TypeInv, TypeOK, Req
  <2>2. jobs' \subseteq Job
    BY <1>33, <2>1, AnswerType DEF LoseReport, TypeInv, TypeOK
  <2>3. dropped' \subseteq Subs
    BY <1>33, <2>1, VerdictLostType DEF LoseReport, TypeInv
  <2>. QED  BY <1>33, <2>1, <2>2, <2>3 DEF LoseReport, Fault, TypeInv, TypeOK,
      SenderHolds, Dispatching
<1>34. ASSUME NEW r \in reqs, DetachReport(r) PROVE TypeInv'
  <2>1. r \in Req /\ r.sub \in Subs
    BY <1>34 DEF TypeInv, TypeOK, Req
  <2>2. jobs' \subseteq Job
    BY <1>34, <2>1, AnswerType DEF DetachReport, TypeInv, TypeOK
  <2>3. reqs' \subseteq Req
    BY <1>34, <2>1 DEF DetachReport, TypeInv, TypeOK, Req
  <2>. QED  BY <1>34, <2>1, <2>2, <2>3, SMTT(30) DEF DetachReport, Fault, TypeInv,
      TypeOK, SenderHolds, Dispatching
<1>35. ASSUME PpjcRestart PROVE TypeInv'
  <2>1. jobs' \subseteq Job
    BY <1>35, GivenUpType DEF PpjcRestart, TypeInv, TypeOK
  <2>2. dropped' \subseteq Subs
    BY <1>35 DEF PpjcRestart, TypeInv, TypeOK, Push
  <2>3. sender' \in [Conns -> Sender] /\ SenderHolds'
    BY <1>35, IdleType DEF PpjcRestart, TypeInv, TypeOK, SenderHolds,
      Dispatching
  <2>4. /\ conn' \in [Conns -> {"new", "up", "down"}]
        /\ closed' \in [Conns -> BOOLEAN]
        /\ fin' \in [Conns -> Nat]
        /\ web' \in [Subs -> {"none", "wait", "failed", "done"}]
    BY <1>35 DEF PpjcRestart, TypeInv, TypeOK
  <2>5. reqs' \subseteq Req /\ pushes' \subseteq Push /\ faults' \in Nat
    BY <1>35 DEF PpjcRestart, Fault, TypeInv, TypeOK
  <2>6. open' \subseteq Tx /\ parted' \subseteq Subs
    BY <1>35, RolledBackType DEF PpjcRestart, TypeInv
  <2>. QED  BY <1>35, <2>1, <2>2, <2>3, <2>4, <2>5, <2>6 DEF PpjcRestart, Fault,
      TypeInv, TypeOK
<1>36. ASSUME NEW t \in Asked, ChangeKey(t) PROVE TypeInv'
  BY <1>36, ChangeKeyType DEF ChangeKey, TypeInv, TypeOK, SenderHolds, Dispatching
<1>37. ASSUME NEW t \in Asked, ChangeKeyError(t) PROVE TypeInv'
  BY <1>37, ChangeKeyType DEF ChangeKeyError, Fault, TypeInv, TypeOK, SenderHolds, Dispatching
<1>38. ASSUME NEW s \in Subs, SubmitFailedAbort(s) PROVE TypeInv'
  <2>1. open' \subseteq Tx /\ parted' \subseteq Subs
    BY <1>38, RolledBackType DEF SubmitFailedAbort, TypeInv
  <2>. QED  BY <1>38, <2>1 DEF SubmitFailedAbort, Fault, TypeInv, TypeOK, SenderHolds,
      Dispatching
<1>39. CASE UNCHANGED vars
  BY <1>39 DEF vars, TypeInv, TypeOK, SenderHolds, Dispatching
<1>. QED
  BY <1>1, <1>2, <1>3, <1>4, <1>5, <1>6, <1>7, <1>8, <1>9, <1>10, <1>11, <1>12,
    <1>13, <1>14, <1>15, <1>16, <1>17, <1>18, <1>19, <1>20, <1>21, <1>22,
    <1>23, <1>24, <1>25, <1>26, <1>27, <1>28, <1>29, <1>30, <1>31, <1>32,
    <1>33, <1>34, <1>35, <1>39, <1>36, <1>37, <1>38 DEF Next, WebNext, SenderNext, ReaderNext,
    JobNext, FaultNext

-----------------------------------------------------------------------------
(* Where the jobs, reports and dispatches of a state come from. *)

SameRun(a, b) == a.sub = b.sub /\ a.jid = b.jid

\* The jobs after a step of one job are runs that had a job before ...
LEMMA JobGoesOnSame ==
  ASSUME jobs \subseteq Job, NEW j \in jobs, NEW st, JobGoesOn(j, st)
  PROVE  \A k \in jobs' : \E l \in jobs : SameRun(k, l)
<1>1. SameRun([j EXCEPT !.st = st], j)
  BY DEF SameRun, Job
<1>. QED  BY <1>1 DEF JobGoesOn, SameRun

\* ... a job that got an answer keeps its run ...
LEMMA ResumedSame ==
  ASSUME NEW j \in Job, NEW r
  PROVE  SameRun(Resumed(j, r), j)
  BY DEF SameRun, Resumed, Job

\* ... so an answer starts no run ...
LEMMA AnswerSame ==
  ASSUME jobs \subseteq Job, NEW r, Answer(r)
  PROVE  \A k \in jobs' : \E l \in jobs : SameRun(k, l)
  BY ResumedSame DEF Answer

\* ... and neither does the loss of ppjc.
LEMMA GivenUpSame ==
  ASSUME NEW j \in Job
  PROVE  SameRun(GivenUp(j), j)
  BY DEF SameRun, GivenUp, Job

\* A request a job sends is of the job's run.
LEMMA SendSame ==
  ASSUME NEW j \in jobs, NEW rep, Send(j, rep)
  PROVE  \A q \in reqs' : q \in reqs \/ SameRun(q, j)
  BY DEF Send, SameRun

\* A job was there before, or a sender had its run to write.
JobComes(k) == \/ \E l \in jobs : SameRun(k, l)
               \/ \E c \in Conns : /\ sender[c].pc = "write"
                                   /\ sender'[c].pc # "write"
                                   /\ SameRun(k, sender[c])

\* Where the jobs of the next state come from: a job of the same run, or the
\* sender that has just written that run.
LEMMA JobsCome ==
  ASSUME TypeInv, [Next]_vars
  PROVE  \A k \in jobs' : JobComes(k)
<1> USE DEF webVars, connVars, jobRest
<1>1. ASSUME NEW j \in jobs, JobRefused(j) PROVE \A k \in jobs' : JobComes(k)
  BY <1>1, JobGoesOnSame DEF JobRefused, JobComes, TypeInv, TypeOK
<1>2. ASSUME NEW j \in jobs, JobDownload(j) PROVE \A k \in jobs' : JobComes(k)
  BY <1>2, JobGoesOnSame DEF JobDownload, JobComes, TypeInv, TypeOK
<1>3. ASSUME NEW j \in jobs, JobDownloadError(j)
      PROVE  \A k \in jobs' : JobComes(k)
  BY <1>3, JobGoesOnSame DEF JobDownloadError, JobComes, TypeInv, TypeOK
<1>4. ASSUME NEW j \in jobs, JobRunReturns(j)
      PROVE  \A k \in jobs' : JobComes(k)
  BY <1>4, JobGoesOnSame DEF JobRunReturns, JobComes, TypeInv, TypeOK
<1>5. ASSUME NEW j \in jobs, JobReportCase(j)
      PROVE  \A k \in jobs' : JobComes(k)
  BY <1>5, JobGoesOnSame DEF JobReportCase, JobComes, TypeInv, TypeOK
<1>6. ASSUME NEW j \in jobs, JobReportTotal(j)
      PROVE  \A k \in jobs' : JobComes(k)
  BY <1>6, JobGoesOnSame DEF JobReportTotal, JobComes, TypeInv, TypeOK
<1>7. ASSUME NEW j \in jobs, JobRelease(j) PROVE \A k \in jobs' : JobComes(k)
  BY <1>7, JobGoesOnSame DEF JobRelease, JobComes, TypeInv, TypeOK
<1>8. ASSUME NEW r \in reqs, HandleReport(r) PROVE \A k \in jobs' : JobComes(k)
  BY <1>8, AnswerSame DEF HandleReport, JobComes, TypeInv, TypeOK
<1>9. ASSUME NEW r \in reqs, HandleReportAbort(r)
      PROVE  \A k \in jobs' : JobComes(k)
  BY <1>9, AnswerSame DEF HandleReportAbort, JobComes, TypeInv, TypeOK
<1>10. ASSUME NEW r \in reqs, LoseReport(r) PROVE \A k \in jobs' : JobComes(k)
  BY <1>10, AnswerSame DEF LoseReport, JobComes, TypeInv, TypeOK
<1>11. ASSUME NEW r \in reqs, DetachReport(r)
       PROVE  \A k \in jobs' : JobComes(k)
  BY <1>11, AnswerSame DEF DetachReport, JobComes, TypeInv, TypeOK
<1>12. ASSUME NEW c \in Conns, WorkerExit(c) PROVE \A k \in jobs' : JobComes(k)
  BY <1>12 DEF WorkerExit, JobComes, SameRun
<1>13. ASSUME PpjcRestart PROVE \A k \in jobs' : JobComes(k)
  BY <1>13, GivenUpSame DEF PpjcRestart, JobComes, TypeInv, TypeOK
<1>14. ASSUME NEW c \in Conns, SenderWrite(c)
       PROVE  \A k \in jobs' : JobComes(k)
  <2>1. sender[c].pc = "write" /\ sender'[c] = Idle("sel")
    BY <1>14 DEF SenderWrite, TypeInv, TypeOK
  <2>2. sender'[c].pc # "write"
    BY <2>1 DEF Idle
  <2>3. ASSUME NEW k \in jobs' PROVE JobComes(k)
    <3>1. k \in jobs \/ k = NewJob(sender[c].sub, sender[c].jid, c)
      BY <1>14 DEF SenderWrite
    <3>2. SameRun(NewJob(sender[c].sub, sender[c].jid, c), sender[c])
      BY DEF SameRun, NewJob
    <3>. QED  BY <2>1, <2>2, <3>1, <3>2 DEF JobComes, SameRun
  <2>. QED  BY <2>3
<1>15. CASE UNCHANGED jobs
  BY <1>15 DEF JobComes, SameRun
<1>. QED
  BY <1>1, <1>2, <1>3, <1>4, <1>5, <1>6, <1>7, <1>8, <1>9, <1>10, <1>11, <1>12,
    <1>13, <1>14, <1>15
  DEF Next, WebNext, SenderNext, ReaderNext, JobNext, FaultNext, vars, ChangeKey,
      ChangeKeyError, SubmitFailedAbort,
      Submit, SubmitError, SubmitFailed, Rejudge, RejudgeList,
      RejudgeAll, RejudgeError, WebCrash, HandleSubmit, Connect,
      SenderTake, SenderStop, SenderCancelled, SenderPop, SenderRedisError,
      SenderLoad, SenderLoadError, SenderWriteLost, ReaderFinished, ReaderClosed,
      ConnDown

\* A report was there before, or a job had its run.
ReqComes(q) == \/ \E r \in reqs : SameRun(q, r)
               \/ \E j \in jobs : SameRun(q, j)

\* Where the requests of the next state come from: a request or a job of the
\* same run.
LEMMA ReqsCome ==
  ASSUME TypeInv, [Next]_vars
  PROVE  \A q \in reqs' : ReqComes(q)
<1> USE DEF webVars, connVars, jobRest
<1>1. ASSUME NEW j \in jobs, JobRefused(j) PROVE \A q \in reqs' : ReqComes(q)
  BY <1>1, SendSame DEF JobRefused, ReqComes, SameRun
<1>2. ASSUME NEW j \in jobs, JobDownloadError(j)
      PROVE  \A q \in reqs' : ReqComes(q)
  BY <1>2, SendSame DEF JobDownloadError, ReqComes, SameRun
<1>3. ASSUME NEW j \in jobs, JobReportCase(j)
      PROVE  \A q \in reqs' : ReqComes(q)
  BY <1>3, SendSame DEF JobReportCase, ReqComes, SameRun
<1>4. ASSUME NEW j \in jobs, JobReportTotal(j)
      PROVE  \A q \in reqs' : ReqComes(q)
  BY <1>4, SendSame DEF JobReportTotal, ReqComes, SameRun
<1>5. ASSUME NEW r \in reqs, HandleReport(r) PROVE \A q \in reqs' : ReqComes(q)
  BY <1>5 DEF HandleReport, ReqComes, SameRun, TypeInv, TypeOK, Req
<1>6. ASSUME NEW r \in reqs, HandleReportAbort(r)
      PROVE  \A q \in reqs' : ReqComes(q)
  BY <1>6 DEF HandleReportAbort, ReqComes, SameRun, TypeInv, TypeOK, Req
<1>7. ASSUME NEW r \in reqs, LoseReport(r) PROVE \A q \in reqs' : ReqComes(q)
  BY <1>7 DEF LoseReport, ReqComes, SameRun, TypeInv, TypeOK, Req
<1>8. ASSUME NEW r \in reqs, DetachReport(r) PROVE \A q \in reqs' : ReqComes(q)
  BY <1>8 DEF DetachReport, ReqComes, SameRun, TypeInv, TypeOK, Req
<1>9. ASSUME PpjcRestart PROVE \A q \in reqs' : ReqComes(q)
  BY <1>9 DEF PpjcRestart, ReqComes, SameRun, TypeInv, TypeOK, Req
<1>10. CASE UNCHANGED reqs
  BY <1>10 DEF ReqComes, SameRun
<1>. QED
  BY <1>1, <1>2, <1>3, <1>4, <1>5, <1>6, <1>7, <1>8, <1>9, <1>10
  DEF Next, WebNext, SenderNext, ReaderNext, JobNext, FaultNext, vars, ChangeKey,
      ChangeKeyError, SubmitFailedAbort,
      Submit, SubmitError, SubmitFailed, Rejudge, RejudgeList,
      RejudgeAll, RejudgeError, WebCrash, HandleSubmit, Connect,
      SenderTake, SenderStop, SenderCancelled, SenderPop, SenderRedisError,
      SenderLoad, SenderLoadError, SenderWrite, SenderWriteLost, ReaderFinished,
      ReaderClosed, ConnDown, WorkerExit, JobDownload, JobRunReturns,
      JobRelease

\* A dispatch was under way before, has just been popped, or has just got its
\* run in the load transaction.
DispatchComes(c) ==
  \/ sender'[c] = sender[c]
  \/ /\ sender'[c].pc = "load"
     /\ queue # <<>> /\ sender'[c].sub = queue[Len(queue)]
  \/ /\ sender[c].pc = "load" /\ sender'[c].pc = "write"
     /\ sender'[c].sub = sender[c].sub
     /\ sender'[c].jid = rows[sender[c].sub].usedJid + 1
     /\ rows' = [rows EXCEPT ![sender[c].sub] = UsedJidPlusOne(@)]
     /\ jobs' = jobs /\ reqs' = reqs
     /\ \A d \in Conns \ {c} : sender'[d] = sender[d]

\* Where the dispatches of the next state come from: one is under way
\* already, or one sender has just popped or loaded its submission.
LEMMA DispatchesCome ==
  ASSUME TypeInv, [Next]_vars, NEW d \in Conns, Dispatching(d)'
  PROVE  DispatchComes(d)
<1> USE DEF webVars, connVars, jobRest
<1>1. ASSUME NEW c \in Conns, Connect(c) PROVE DispatchComes(d)
  BY <1>1 DEF Connect, DispatchComes, Dispatching, Idle, TypeInv, TypeOK,
    Sender, SenderReturn, SenderRetry
<1>2. ASSUME NEW c \in Conns, SenderTake(c) PROVE DispatchComes(d)
  BY <1>2 DEF SenderTake, DispatchComes, Dispatching, Idle, TypeInv, TypeOK,
    Sender, SenderReturn, SenderRetry
<1>3. ASSUME NEW c \in Conns, SenderStop(c) PROVE DispatchComes(d)
  BY <1>3 DEF SenderStop, DispatchComes, Dispatching, Idle, TypeInv, TypeOK,
    Sender, SenderReturn, SenderRetry
<1>4. ASSUME NEW c \in Conns, SenderCancelled(c) PROVE DispatchComes(d)
  BY <1>4 DEF SenderCancelled, DispatchComes, Dispatching, Idle, TypeInv,
    TypeOK, Sender, SenderReturn, SenderRetry
<1>5. ASSUME NEW c \in Conns, SenderPop(c) PROVE DispatchComes(d)
  BY <1>5 DEF SenderPop, DispatchComes, Dispatching, Idle, TypeInv, TypeOK,
    Sender, SenderReturn, SenderRetry
<1>6. ASSUME NEW c \in Conns, SenderRedisError(c) PROVE DispatchComes(d)
  BY <1>6 DEF SenderRedisError, DispatchComes, Dispatching, Idle, TypeInv,
    TypeOK, Sender, SenderReturn, SenderRetry
<1>7. ASSUME NEW c \in Conns, SenderLoad(c) PROVE DispatchComes(d)
  <2>1. CASE d # c
    <3>1. sender'[d] = sender[d]
      BY <1>7, <2>1 DEF SenderLoad, TypeInv, TypeOK
    <3>. QED  BY <3>1 DEF DispatchComes
  <2>2. CASE d = c
    <3>1. sender' = [sender EXCEPT ![c].pc = "write",
                                   ![c].jid = rows[sender[c].sub].usedJid + 1]
      BY <1>7 DEF SenderLoad
    <3>2. /\ sender[c] \in Sender /\ sender \in [Conns -> Sender]
          /\ sender[c].pc = "load"
      BY <1>7 DEF SenderLoad, TypeInv, TypeOK
    <3>3. /\ sender'[c].pc = "write" /\ sender'[c].sub = sender[c].sub
          /\ sender'[c].jid = rows[sender[c].sub].usedJid + 1
      BY <3>1, <3>2 DEF Sender
    <3>4. \A e \in Conns \ {c} : sender'[e] = sender[e]
      BY <3>1, <3>2
    <3>. QED  BY <1>7, <2>2, <3>2, <3>3, <3>4 DEF SenderLoad, DispatchComes
  <2>. QED  BY <2>1, <2>2
<1>8. ASSUME NEW c \in Conns, SenderLoadError(c) PROVE DispatchComes(d)
  BY <1>8 DEF SenderLoadError, DispatchComes, Dispatching, Idle, TypeInv,
    TypeOK, Sender, SenderReturn, SenderRetry
<1>9. ASSUME NEW c \in Conns, SenderWrite(c) PROVE DispatchComes(d)
  BY <1>9 DEF SenderWrite, DispatchComes, Dispatching, Idle, TypeInv, TypeOK,
    Sender, SenderReturn, SenderRetry
<1>10. ASSUME NEW c \in Conns, SenderWriteLost(c) PROVE DispatchComes(d)
  BY <1>10 DEF SenderWriteLost, DispatchComes, Dispatching, Idle, TypeInv,
    TypeOK, Sender, SenderReturn, SenderRetry
<1>11. ASSUME PpjcRestart PROVE DispatchComes(d)
  BY <1>11 DEF PpjcRestart, DispatchComes, Dispatching, Idle, TypeInv, TypeOK,
    Sender, SenderReturn, SenderRetry
<1>12. CASE UNCHANGED sender
  BY <1>12 DEF DispatchComes
<1>. QED
  BY <1>1, <1>2, <1>3, <1>4, <1>5, <1>6, <1>7, <1>8, <1>9, <1>10, <1>11, <1>12
  DEF Next, WebNext, SenderNext, ReaderNext, JobNext, FaultNext, vars, ChangeKey,
      ChangeKeyError, SubmitFailedAbort,
      Submit, SubmitError, SubmitFailed, Rejudge, RejudgeList,
      RejudgeAll, RejudgeError, WebCrash, HandleSubmit, ReaderFinished,
      ReaderClosed, ConnDown, WorkerExit, JobRefused, JobDownload,
      JobDownloadError, JobRunReturns, JobReportCase, JobReportTotal, JobRelease,
      HandleReport, HandleReportAbort, LoseReport, DetachReport

\* A row changes by one transaction of SubmissionStore.
RowComes(s) ==
  \/ rows'[s] = rows[s]
  \/ ~Exists(s) /\ rows'[s] = NewRow
  \/ Exists(s) /\ rows'[s] = ResetForRejudge(rows[s])
  \/ /\ \E c \in Conns : Dispatching(c) /\ sender[c].sub = s
     /\ rows'[s] = UsedJidPlusOne(rows[s])
  \/ Exists(s) /\ rows'[s] = UpdateResult(rows[s], 0, "IE")
  \/ \E r \in reqs : r.sub = s /\ rows'[s] = Reported(rows[s], r)

\* What a step does to a row: nothing, or one of the operations of the store.
LEMMA RowsCome ==
  ASSUME TypeInv, [Next]_vars, NEW t \in Subs
  PROVE  RowComes(t)
<1> USE DEF webVars, connVars, jobRest
<1>1. ASSUME NEW s \in Subs, Submit(s) PROVE RowComes(t)
  BY <1>1 DEF Submit, RowComes, Exists, TypeInv, TypeOK
<1>2. ASSUME NEW s \in Subs, SubmitFailed(s) PROVE RowComes(t)
  BY <1>2 DEF SubmitFailed, RowComes, Exists, TypeInv, TypeOK
<1>3. ASSUME NEW s \in Subs, Rejudge(s) PROVE RowComes(t)
  BY <1>3 DEF Rejudge, RowComes, Exists, TypeInv, TypeOK
<1>4. ASSUME RejudgeAll PROVE RowComes(t)
  BY <1>4 DEF RejudgeAll, RowComes, Exists, TypeInv, TypeOK
<1>5. ASSUME NEW c \in Conns, SenderLoad(c) PROVE RowComes(t)
  BY <1>5 DEF SenderLoad, RowComes, Dispatching, TypeInv, TypeOK
<1>6. ASSUME NEW r \in reqs, HandleReport(r) PROVE RowComes(t)
  BY <1>6 DEF HandleReport, RowComes, TypeInv, TypeOK
<1>7. CASE UNCHANGED rows
  BY <1>7 DEF RowComes
<1>. QED
  BY <1>1, <1>2, <1>3, <1>4, <1>5, <1>6, <1>7
  DEF Next, WebNext, SenderNext, ReaderNext, JobNext, FaultNext, vars, ChangeKey,
      ChangeKeyError, SubmitFailedAbort,
      SubmitError, RejudgeList, RejudgeError, WebCrash, HandleSubmit,
      Connect, SenderTake, SenderStop, SenderCancelled, SenderPop,
      SenderRedisError, SenderLoadError, SenderWrite, SenderWriteLost, ReaderFinished,
      ReaderClosed, ConnDown, WorkerExit, JobRefused, JobDownload,
      JobDownloadError, JobRunReturns, JobReportCase, JobReportTotal, JobRelease,
      HandleReportAbort, LoseReport, DetachReport, PpjcRestart

-----------------------------------------------------------------------------
(* Nothing is under way for a submission nobody submitted. *)

\* A submission that exists stays.
LEMMA ExistsStays ==
  ASSUME TypeInv, [Next]_vars, NEW t \in Subs, Exists(t)
  PROVE  Exists(t)'
<1> USE DEF webVars, connVars, jobRest
<1>1. ASSUME NEW s \in Subs, Submit(s) PROVE Exists(t)'
  BY <1>1 DEF Submit, Exists, TypeInv, TypeOK
<1>2. ASSUME NEW s \in Subs, SubmitError(s) PROVE Exists(t)'
  BY <1>2 DEF SubmitError, Exists, TypeInv, TypeOK
<1>3. ASSUME NEW s \in Subs, SubmitFailed(s) PROVE Exists(t)'
  BY <1>3 DEF SubmitFailed, Exists, TypeInv, TypeOK
<1>4. ASSUME WebCrash PROVE Exists(t)'
  BY <1>4 DEF WebCrash, Exists, TypeInv, TypeOK
<1>5. ASSUME NEW p \in pushes, HandleSubmit(p) PROVE Exists(t)'
  BY <1>5 DEF HandleSubmit, Exists, TypeInv, TypeOK
<1>6. ASSUME PpjcRestart PROVE Exists(t)'
  BY <1>6 DEF PpjcRestart, Exists, TypeInv, TypeOK
<1>7. ASSUME NEW s \in Subs, SubmitFailedAbort(s) PROVE Exists(t)'
  BY <1>7 DEF SubmitFailedAbort, Exists, TypeInv, TypeOK
<1>8. CASE UNCHANGED web
  BY <1>8 DEF Exists
<1>. QED
  BY <1>1, <1>2, <1>3, <1>4, <1>5, <1>6, <1>7, <1>8
  DEF Next, WebNext, SenderNext, ReaderNext, JobNext, FaultNext, vars, ChangeKey,
      ChangeKeyError,
      Rejudge, RejudgeList, RejudgeAll, RejudgeError, Connect,
      SenderTake, SenderStop, SenderCancelled, SenderPop, SenderRedisError,
      SenderLoad, SenderLoadError, SenderWrite, SenderWriteLost, ReaderFinished,
      ReaderClosed, ConnDown, WorkerExit, JobRefused, JobDownload,
      JobDownloadError, JobRunReturns, JobReportCase, JobReportTotal, JobRelease,
      HandleReport, HandleReportAbort, LoseReport, DetachReport

\* Only submissions that exist are pushed ...
LEMMA PushesCome ==
  ASSUME TypeInv, NothingBeforeSubmit, [Next]_vars
  PROVE  \A q \in pushes' : q \in pushes \/ web'[q[1]] # "none"
<1> USE DEF webVars, connVars, jobRest
<1>1. ASSUME NEW s \in Subs, Submit(s)
      PROVE  \A q \in pushes' : q \in pushes \/ web'[q[1]] # "none"
  BY <1>1 DEF Submit, Exists, TypeInv, TypeOK, NothingBeforeSubmit
<1>2. ASSUME NEW s \in Subs, SubmitError(s)
      PROVE  \A q \in pushes' : q \in pushes \/ web'[q[1]] # "none"
  BY <1>2 DEF SubmitError, Exists, TypeInv, TypeOK, NothingBeforeSubmit
<1>3. ASSUME NEW s \in Subs, Rejudge(s)
      PROVE  \A q \in pushes' : q \in pushes \/ web'[q[1]] # "none"
  BY <1>3 DEF Rejudge, Exists, TypeInv, TypeOK, NothingBeforeSubmit
<1>4. ASSUME RejudgeAll
      PROVE  \A q \in pushes' : q \in pushes \/ web'[q[1]] # "none"
  BY <1>4 DEF RejudgeAll, Exists, TypeInv, TypeOK, NothingBeforeSubmit
<1>5. ASSUME NEW p \in pushes, RejudgeError(p)
      PROVE  \A q \in pushes' : q \in pushes \/ web'[q[1]] # "none"
  BY <1>5 DEF RejudgeError, Exists, TypeInv, TypeOK, NothingBeforeSubmit
<1>6. ASSUME WebCrash
      PROVE  \A q \in pushes' : q \in pushes \/ web'[q[1]] # "none"
  BY <1>6 DEF WebCrash, Exists, TypeInv, TypeOK, NothingBeforeSubmit
<1>7. ASSUME NEW p \in pushes, HandleSubmit(p)
      PROVE  \A q \in pushes' : q \in pushes \/ web'[q[1]] # "none"
  BY <1>7 DEF HandleSubmit, Exists, TypeInv, TypeOK, NothingBeforeSubmit
<1>8. ASSUME PpjcRestart
      PROVE  \A q \in pushes' : q \in pushes \/ web'[q[1]] # "none"
  BY <1>8 DEF PpjcRestart, Exists, TypeInv, TypeOK, NothingBeforeSubmit
<1>9. CASE UNCHANGED pushes
  BY <1>9
<1>. QED
  BY <1>1, <1>2, <1>3, <1>4, <1>5, <1>6, <1>7, <1>8, <1>9
  DEF Next, WebNext, SenderNext, ReaderNext, JobNext, FaultNext, vars, ChangeKey,
      ChangeKeyError, SubmitFailedAbort,
      SubmitFailed, RejudgeList, Connect, SenderTake, SenderStop,
      SenderCancelled, SenderPop, SenderRedisError, SenderLoad, SenderLoadError,
      SenderWrite, SenderWriteLost, ReaderFinished, ReaderClosed, ConnDown,
      WorkerExit, JobRefused, JobDownload, JobDownloadError, JobRunReturns,
      JobReportCase, JobReportTotal, JobRelease, HandleReport, HandleReportAbort,
      LoseReport, DetachReport

\* ... or listed for a rejudge ...
LEMMA ListingComes ==
  ASSUME TypeInv, NothingBeforeSubmit, [Next]_vars
  PROVE  \A s \in listing'.subs : web[s] # "none"
<1> USE DEF webVars, connVars, jobRest
<1>1. ASSUME RejudgeList PROVE \A s \in listing'.subs : web[s] # "none"
  BY <1>1 DEF RejudgeList, Exists, NoListing
<1>2. ASSUME RejudgeAll PROVE \A s \in listing'.subs : web[s] # "none"
  BY <1>2 DEF RejudgeAll, Exists, NoListing
<1>3. ASSUME WebCrash PROVE \A s \in listing'.subs : web[s] # "none"
  BY <1>3 DEF WebCrash, Exists, NoListing
<1>4. CASE UNCHANGED listing
  BY <1>4 DEF NothingBeforeSubmit, Exists
<1>. QED
  BY <1>1, <1>2, <1>3, <1>4
  DEF Next, WebNext, SenderNext, ReaderNext, JobNext, FaultNext, vars, ChangeKey,
      ChangeKeyError, SubmitFailedAbort,
      Submit, SubmitError, SubmitFailed, Rejudge, RejudgeError,
      HandleSubmit, Connect, SenderTake, SenderStop, SenderCancelled,
      SenderPop, SenderRedisError, SenderLoad, SenderLoadError, SenderWrite,
      SenderWriteLost, ReaderFinished, ReaderClosed, ConnDown, WorkerExit,
      JobRefused, JobDownload, JobDownloadError, JobRunReturns, JobReportCase,
      JobReportTotal, JobRelease, HandleReport, HandleReportAbort, LoseReport,
      DetachReport, PpjcRestart

\* ... or queued.
LEMMA QueueComes ==
  ASSUME TypeInv, NothingBeforeSubmit, [Next]_vars
  PROVE  \A i \in DOMAIN queue' : web[queue'[i]] # "none"
<1> USE DEF webVars, connVars, jobRest
<1>0. queue \in Seq(Subs) /\ \A i \in 1 .. Len(queue) : web[queue[i]] # "none"
  BY DEF TypeInv, TypeOK, NothingBeforeSubmit, Exists
<1>1. ASSUME NEW p \in pushes, HandleSubmit(p)
      PROVE  \A i \in DOMAIN queue' : web[queue'[i]] # "none"
  BY <1>0, <1>1 DEF HandleSubmit, NothingBeforeSubmit, Exists
<1>2. ASSUME queue # <<>>, queue' = SubSeq(queue, 1, Len(queue) - 1)
      PROVE  \A i \in DOMAIN queue' : web[queue'[i]] # "none"
  BY <1>0, <1>2
<1>3. CASE UNCHANGED queue
  BY <1>0, <1>3
<1>. QED
  BY <1>1, <1>2, <1>3
  DEF Next, WebNext, SenderNext, ReaderNext, JobNext, FaultNext, vars, ChangeKey,
      ChangeKeyError, SubmitFailedAbort,
      Submit, SubmitError, SubmitFailed, Rejudge, RejudgeList,
      RejudgeAll, RejudgeError, WebCrash, Connect, SenderTake,
      SenderStop, SenderCancelled, SenderPop, SenderRedisError, SenderLoad,
      SenderLoadError, SenderWrite, SenderWriteLost, ReaderFinished, ReaderClosed,
      ConnDown, WorkerExit, JobRefused, JobDownload, JobDownloadError,
      JobRunReturns, JobReportCase, JobReportTotal, JobRelease, HandleReport,
      HandleReportAbort, LoseReport, DetachReport, PpjcRestart

\* Initially nothing is under way.
LEMMA NothingInit == Init => NothingBeforeSubmit
  BY EmptySeq DEF Init, NothingBeforeSubmit, Exists, Dispatching, Idle,
    NoListing

\* Nothing gets under way for a submission that nobody submitted.
LEMMA NothingStep ==
  ASSUME TypeInv, NothingBeforeSubmit, [Next]_vars
  PROVE  NothingBeforeSubmit'
<1>1. TypeInv'
  BY TypeStep
<1>2. \A s \in Subs : web[s] # "none" => web'[s] # "none"
  BY ExistsStays DEF Exists
<1>3. \A p \in pushes' : web'[p[1]] # "none"
  BY <1>2, PushesCome DEF NothingBeforeSubmit, TypeInv, TypeOK, Push, Exists
<1>4. \A s \in listing'.subs : web'[s] # "none"
  BY <1>1, <1>2, ListingComes DEF TypeInv, TypeOK
<1>5. \A i \in DOMAIN queue' : web'[queue'[i]] # "none"
  <2>1. queue' \in Seq(Subs)
    BY <1>1 DEF TypeInv, TypeOK
  <2>. QED  BY <1>2, <2>1, QueueComes
<1>6. ASSUME NEW c \in Conns, Dispatching(c)'
      PROVE  web'[sender'[c].sub] # "none"
  <2>1. sender'[c].sub \in Subs
    BY <1>1, <1>6 DEF TypeInv, SenderHolds
  <2>2. DispatchComes(c)
    BY <1>6, DispatchesCome
  <2>3. \A d \in Conns : Dispatching(d) => web[sender[d].sub] # "none"
    BY DEF NothingBeforeSubmit, Exists
  <2>4. queue # <<>> => web[queue[Len(queue)]] # "none"
    BY DEF NothingBeforeSubmit, Exists, TypeInv, TypeOK
  <2>. QED  BY <1>2, <1>6, <2>1, <2>2, <2>3, <2>4 DEF DispatchComes,
      Dispatching
<1>7. ASSUME NEW k \in jobs' PROVE web'[k.sub] # "none"
  <2>1. k.sub \in Subs
    BY <1>1 DEF TypeInv, TypeOK, Job
  <2>2. JobComes(k)
    BY JobsCome
  <2>. QED  BY <1>2, <2>1, <2>2 DEF JobComes, SameRun, NothingBeforeSubmit,
      Dispatching, Exists
<1>8. ASSUME NEW q \in reqs' PROVE web'[q.sub] # "none"
  <2>1. q.sub \in Subs
    BY <1>1 DEF TypeInv, TypeOK, Req
  <2>2. ReqComes(q)
    BY ReqsCome
  <2>. QED  BY <1>2, <2>1, <2>2 DEF ReqComes, SameRun, NothingBeforeSubmit,
      Exists
<1>9. ASSUME NEW s \in Subs, web'[s] = "none" PROVE rows'[s] = NewRow
  <2>1. web[s] = "none" /\ rows[s] = NewRow
    BY <1>2, <1>9 DEF NothingBeforeSubmit, Exists
  <2>2. RowComes(s)
    BY RowsCome
  <2>. QED  BY <2>1, <2>2 DEF RowComes, NothingBeforeSubmit, Exists
<1>. QED  BY <1>3, <1>4, <1>5, <1>6, <1>7, <1>8, <1>9 DEF NothingBeforeSubmit,
    Exists, Dispatching

-----------------------------------------------------------------------------
(* Runs are handed out before anybody reports them, and never go back. *)

\* A report moves the row's run forward or leaves the row alone.
LEMMA ReportedGrows ==
  ASSUME NEW row \in Row, NEW r \in Req
  PROVE  /\ Reported(row, r).usedJid = row.usedJid
         /\ row.jid <= Reported(row, r).jid
         /\ Reported(row, r).jid \in {row.jid, r.jid}
  BY DEF Reported, UpdateTestCase, UpdateResult, Stale, Row, Req

\* No step takes a row back to an older run or takes back a run handed out.
LEMMA RowGrows ==
  ASSUME TypeInv, NothingBeforeSubmit, JidHandedOut, [Next]_vars, NEW s \in Subs
  PROVE  /\ rows[s].jid <= rows'[s].jid
         /\ rows[s].usedJid <= rows'[s].usedJid
         /\ rows'[s].jid <= rows'[s].usedJid
<1>1. rows[s] \in Row /\ rows[s].jid <= rows[s].usedJid
  BY DEF TypeInv, TypeOK, JidHandedOut
<1>2. CASE rows'[s] = rows[s] \/ (~Exists(s) /\ rows'[s] = NewRow)
  BY <1>1, <1>2 DEF NothingBeforeSubmit, Row
<1>3. CASE rows'[s] = ResetForRejudge(rows[s]) \/ rows'[s] = UsedJidPlusOne(rows[s])
  BY <1>1, <1>3 DEF Row, ResetForRejudge, UsedJidPlusOne
<1>4. CASE rows'[s] = UpdateResult(rows[s], 0, "IE")
  BY <1>1, <1>4 DEF Row, UpdateResult, Stale
<1>5. ASSUME NEW r \in reqs, r.sub = s, rows'[s] = Reported(rows[s], r)
      PROVE  /\ rows[s].jid <= rows'[s].jid
             /\ rows[s].usedJid <= rows'[s].usedJid
             /\ rows'[s].jid <= rows'[s].usedJid
  <2>1. r \in Req /\ r.jid <= rows[s].usedJid
    BY <1>5 DEF TypeInv, TypeOK, JidHandedOut
  <2>. QED  BY <1>1, <1>5, <2>1, ReportedGrows DEF Row, Req
<1>. QED  BY <1>2, <1>3, <1>4, <1>5, RowsCome DEF RowComes

\* Initially every row is at run 0.
LEMMA JidInit == Init => JidHandedOut
  BY DEF Init, JidHandedOut, NewRow, Idle

\* used_jid stays ahead: rows only grow, and a new run is the new used_jid.
LEMMA JidStep ==
  ASSUME TypeInv, NothingBeforeSubmit, JidHandedOut, [Next]_vars
  PROVE  JidHandedOut'
<1>1. TypeInv'
  BY TypeStep
<1>2. \A s \in Subs : /\ rows[s].usedJid <= rows'[s].usedJid
                     /\ rows'[s].jid <= rows'[s].usedJid
                     /\ rows[s].usedJid \in Nat /\ rows'[s].usedJid \in Nat
  BY <1>1, RowGrows DEF TypeInv, TypeOK, Row
<1>3. ASSUME NEW k \in jobs' PROVE k.jid <= rows'[k.sub].usedJid
  <2>1. k.sub \in Subs /\ k.jid \in Nat
    BY <1>1 DEF TypeInv, TypeOK, Job
  <2>2. k.jid <= rows[k.sub].usedJid
    BY JobsCome DEF JobComes, SameRun, JidHandedOut
  <2>. QED  BY <1>2, <2>1, <2>2
<1>4. ASSUME NEW q \in reqs' PROVE q.jid <= rows'[q.sub].usedJid
  <2>1. q.sub \in Subs /\ q.jid \in Nat
    BY <1>1 DEF TypeInv, TypeOK, Req
  <2>2. q.jid <= rows[q.sub].usedJid
    BY ReqsCome DEF ReqComes, SameRun, JidHandedOut
  <2>. QED  BY <1>2, <2>1, <2>2
<1>5. ASSUME NEW c \in Conns, sender'[c].pc = "write"
      PROVE  sender'[c].jid <= rows'[sender'[c].sub].usedJid
  <2>1. sender'[c].sub \in Subs /\ sender'[c].jid \in Nat /\ Dispatching(c)'
    BY <1>1, <1>5 DEF TypeInv, TypeOK, SenderHolds, Dispatching, Sender
  <2>2. CASE sender'[c] = sender[c]
    BY <1>2, <1>5, <2>1, <2>2 DEF JidHandedOut
  <2>3. CASE /\ sender'[c].sub = sender[c].sub
             /\ sender'[c].jid = rows[sender[c].sub].usedJid + 1
             /\ rows' = [rows EXCEPT ![sender[c].sub] = UsedJidPlusOne(@)]
    BY <1>2, <2>1, <2>3 DEF TypeInv, TypeOK, Row, UsedJidPlusOne
  <2>. QED  BY <1>5, <2>1, <2>2, <2>3, DispatchesCome DEF DispatchComes
<1>. QED  BY <1>2, <1>3, <1>4, <1>5 DEF JidHandedOut

-----------------------------------------------------------------------------
(* Every dispatch has a run of its own. *)

JobsUnique == \A j, k \in jobs : SameRun(j, k) => j = k

\* A step that keeps the run of every job keeps the runs unique.
LEMMA JobGoesOnUnique ==
  ASSUME jobs \subseteq Job, JobsUnique, NEW j \in jobs, NEW st, JobGoesOn(j, st)
  PROVE  JobsUnique'
<1>1. SameRun([j EXCEPT !.st = st], j)
  BY DEF SameRun, Job
<1>2. ASSUME NEW k \in jobs', NEW l \in jobs', SameRun(k, l)
      PROVE  k = l
  <2>1. \A m \in jobs' : m \in jobs \ {j} \/ m = [j EXCEPT !.st = st]
    BY DEF JobGoesOn
  <2>2. \A m \in jobs \ {j} : ~SameRun(m, j)
    BY DEF JobsUnique
  <2>3. CASE k \in jobs \ {j} /\ l \in jobs \ {j}
    BY <1>2, <2>3 DEF JobsUnique
  <2>. QED  BY <1>1, <1>2, <2>1, <2>2, <2>3 DEF SameRun
<1>. QED  BY <1>2 DEF JobsUnique, SameRun

\* An answer keeps jobs of different runs apart ...
LEMMA AnswerUnique ==
  ASSUME jobs \subseteq Job, JobsUnique, NEW r, Answer(r)
  PROVE  JobsUnique'
  BY ResumedSame DEF Answer, JobsUnique, SameRun

\* ... and so does the loss of ppjc.
LEMMA GivenUpUnique ==
  ASSUME jobs \subseteq Job, JobsUnique,
         jobs' = {k \in {GivenUp(j) : j \in jobs} : ~Over(k.st)}
  PROVE  JobsUnique'
  BY GivenUpSame DEF JobsUnique, SameRun

\* A step of the system keeps jobs of different runs apart; a job that starts
\* takes its run from a sender that shares it with no job.
LEMMA JobsUniqueStep ==
  ASSUME TypeInv, RunsUnique, JobsUnique, [Next]_vars
  PROVE  JobsUnique'
<1> USE DEF webVars, connVars, jobRest
<1>1. ASSUME NEW j \in jobs, JobRefused(j) PROVE JobsUnique'
  BY <1>1, JobGoesOnUnique DEF JobRefused, TypeInv, TypeOK
<1>2. ASSUME NEW j \in jobs, JobDownload(j) PROVE JobsUnique'
  BY <1>2, JobGoesOnUnique DEF JobDownload, TypeInv, TypeOK
<1>3. ASSUME NEW j \in jobs, JobDownloadError(j) PROVE JobsUnique'
  BY <1>3, JobGoesOnUnique DEF JobDownloadError, TypeInv, TypeOK
<1>4. ASSUME NEW j \in jobs, JobRunReturns(j) PROVE JobsUnique'
  BY <1>4, JobGoesOnUnique DEF JobRunReturns, TypeInv, TypeOK
<1>5. ASSUME NEW j \in jobs, JobReportCase(j) PROVE JobsUnique'
  BY <1>5, JobGoesOnUnique DEF JobReportCase, TypeInv, TypeOK
<1>6. ASSUME NEW j \in jobs, JobReportTotal(j) PROVE JobsUnique'
  BY <1>6, JobGoesOnUnique DEF JobReportTotal, TypeInv, TypeOK
<1>7. ASSUME NEW j \in jobs, JobRelease(j) PROVE JobsUnique'
  BY <1>7, JobGoesOnUnique DEF JobRelease, TypeInv, TypeOK
<1>8. ASSUME NEW r \in reqs, HandleReport(r) PROVE JobsUnique'
  BY <1>8, AnswerUnique DEF HandleReport, TypeInv, TypeOK
<1>9. ASSUME NEW r \in reqs, HandleReportAbort(r) PROVE JobsUnique'
  BY <1>9, AnswerUnique DEF HandleReportAbort, TypeInv, TypeOK
<1>10. ASSUME NEW r \in reqs, LoseReport(r) PROVE JobsUnique'
  BY <1>10, AnswerUnique DEF LoseReport, TypeInv, TypeOK
<1>11. ASSUME NEW r \in reqs, DetachReport(r) PROVE JobsUnique'
  BY <1>11, AnswerUnique DEF DetachReport, TypeInv, TypeOK
<1>12. ASSUME NEW c \in Conns, WorkerExit(c) PROVE JobsUnique'
  BY <1>12 DEF WorkerExit, JobsUnique, SameRun
<1>13. ASSUME PpjcRestart PROVE JobsUnique'
  BY <1>13, GivenUpUnique DEF PpjcRestart, TypeInv, TypeOK
<1>14. ASSUME NEW c \in Conns, SenderWrite(c) PROVE JobsUnique'
  BY <1>14 DEF SenderWrite, JobsUnique, RunsUnique, NewJob, SameRun
<1>15. CASE UNCHANGED jobs
  BY <1>15 DEF JobsUnique, SameRun
<1>. QED
  BY <1>1, <1>2, <1>3, <1>4, <1>5, <1>6, <1>7, <1>8, <1>9, <1>10, <1>11, <1>12,
    <1>13, <1>14, <1>15
  DEF Next, WebNext, SenderNext, ReaderNext, JobNext, FaultNext, vars, ChangeKey,
      ChangeKeyError, SubmitFailedAbort,
      Submit, SubmitError, SubmitFailed, Rejudge, RejudgeList,
      RejudgeAll, RejudgeError, WebCrash, HandleSubmit, Connect,
      SenderTake, SenderStop, SenderCancelled, SenderPop, SenderRedisError,
      SenderLoad, SenderLoadError, SenderWriteLost, ReaderFinished, ReaderClosed,
      ConnDown

\* Initially there are no runs.
LEMMA UniqueInit == Init => RunsUnique
  BY DEF Init, RunsUnique, Idle

\* Runs stay unique: a new one is ahead of everything around (JidHandedOut).
LEMMA UniqueStep ==
  ASSUME TypeInv, NothingBeforeSubmit, JidHandedOut, RunsUnique, [Next]_vars
  PROVE  RunsUnique'
<1>1. JobsUnique'
  BY JobsUniqueStep DEF RunsUnique, JobsUnique, SameRun
<1>2. \A s \in Subs : rows[s].usedJid \in Nat
  BY DEF TypeInv, TypeOK, Row
<1>3. \A c \in Conns : sender'[c].pc = "write" => DispatchComes(c)
  BY DispatchesCome DEF Dispatching
<1>4. ASSUME NEW c \in Conns, sender'[c].pc = "write", NEW k \in jobs',
             SameRun(k, sender'[c])
      PROVE  FALSE
  <2>1. CASE sender'[c] = sender[c]
    <3>1. \A l \in jobs : ~SameRun(k, l)
      BY <1>4, <2>1 DEF RunsUnique, SameRun
    <3>2. \A d \in Conns \ {c} : sender[d].pc = "write" => ~SameRun(k, sender[d])
      BY <1>4, <2>1 DEF RunsUnique, SameRun
    <3>. QED  BY <1>4, <2>1, <3>1, <3>2, JobsCome DEF JobComes
  <2>2. CASE /\ sender[c].pc = "load"
             /\ sender'[c].sub = sender[c].sub
             /\ sender'[c].jid = rows[sender[c].sub].usedJid + 1
             /\ jobs' = jobs
    <3>1. k.sub \in Subs /\ k.jid \in Nat /\ k.jid <= rows[k.sub].usedJid
      BY <2>2 DEF JidHandedOut, TypeInv, TypeOK, Job
    <3>. QED  BY <1>2, <1>4, <2>2, <3>1 DEF SameRun
  <2>. QED  BY <1>3, <1>4, <2>1, <2>2 DEF DispatchComes
<1>5. ASSUME NEW c \in Conns, NEW d \in Conns \ {c}, sender'[c].pc = "write",
             sender'[d] = sender[d], sender[d].pc = "write",
             SameRun(sender'[c], sender'[d])
      PROVE  FALSE
  <2>1. CASE sender'[c] = sender[c]
    BY <1>5, <2>1 DEF RunsUnique, SameRun
  <2>2. CASE /\ sender'[c].sub = sender[c].sub
             /\ sender'[c].jid = rows[sender[c].sub].usedJid + 1
    <3>1. /\ sender[d].sub \in Subs /\ sender[d].jid \in Nat
          /\ sender[d].jid <= rows[sender[d].sub].usedJid
      BY <1>5 DEF JidHandedOut, TypeInv, TypeOK, SenderHolds, Dispatching,
        Sender
    <3>. QED  BY <1>2, <1>5, <2>2, <3>1 DEF SameRun
  <2>. QED  BY <1>3, <1>5, <2>1, <2>2 DEF DispatchComes
<1>6. ASSUME NEW c \in Conns, NEW d \in Conns \ {c}, sender'[c].pc = "write",
             sender'[d].pc = "write", SameRun(sender'[c], sender'[d])
      PROVE  FALSE
  <2>1. \/ sender'[d] = sender[d] /\ sender[d].pc = "write"
        \/ sender'[c] = sender[c] /\ sender[c].pc = "write"
    BY <1>3, <1>6 DEF DispatchComes
  <2>. QED  BY <1>5, <1>6, <2>1 DEF SameRun
<1>. QED  BY <1>1, <1>4, <1>6 DEF RunsUnique, JobsUnique, SameRun

-----------------------------------------------------------------------------
(* The case rows of a submission are those of its run. *)

CasesFit(row) == \A k \in row.cases : k.jid = row.jid

\* A total verdict keeps the case rows of the run it belongs to ...
LEMMA UpdateResultFits ==
  ASSUME NEW row \in Row, CasesFit(row), NEW jid \in Nat, NEW status
  PROVE  CasesFit(UpdateResult(row, jid, status))
  BY DEF Row, CasesFit, UpdateResult, KeptCases, Stale

\* ... and a case report adds one of its own run.
LEMMA UpdateTestCaseFits ==
  ASSUME NEW row \in Row, CasesFit(row), NEW jid \in Nat, NEW id, NEW status
  PROVE  CasesFit(UpdateTestCase(row, jid, id, status))
  BY DEF Row, CasesFit, UpdateTestCase, KeptCases, Stale

\* Initially there are no case rows.
LEMMA CasesInit == Init => CasesOfRun
  BY DEF Init, CasesOfRun, NewRow

\* No step mixes the case rows of two runs.
LEMMA CasesStep ==
  ASSUME TypeInv, CasesOfRun, [Next]_vars
  PROVE  CasesOfRun'
<1> SUFFICES ASSUME NEW s \in Subs PROVE CasesFit(rows'[s])
  BY DEF CasesOfRun, CasesFit
<1>1. rows[s] \in Row /\ CasesFit(rows[s])
  BY DEF TypeInv, TypeOK, CasesOfRun, CasesFit
<1>2. CASE rows'[s] = rows[s] \/ rows'[s] = NewRow
  BY <1>1, <1>2 DEF NewRow, CasesFit
<1>3. CASE rows'[s] = ResetForRejudge(rows[s]) \/ rows'[s] = UsedJidPlusOne(rows[s])
  BY <1>1, <1>3 DEF Row, ResetForRejudge, UsedJidPlusOne, CasesFit
<1>4. CASE rows'[s] = UpdateResult(rows[s], 0, "IE")
  BY <1>1, <1>4, UpdateResultFits
<1>5. ASSUME NEW r \in reqs, rows'[s] = Reported(rows[s], r)
      PROVE  CasesFit(rows'[s])
  BY <1>1, <1>5, UpdateResultFits, UpdateTestCaseFits DEF Reported, TypeInv,
    TypeOK, Req
<1>. QED  BY <1>2, <1>3, <1>4, <1>5, RowsCome DEF RowComes

-----------------------------------------------------------------------------
(* The locks of the rows. *)

\* A transaction that holds a row keeps its request.
LEMMA HoldersStay ==
  ASSUME open \subseteq Asked,
         \A t \in open' : t \in open \/ t \in Asked',
         \A r \in reqs : TxOf(r) \in open' => \E q \in reqs' : TxOf(q) = TxOf(r),
         \A s \in Subs : web[s] = "failed" /\ WebTx(s) \in open' => web'[s] = "failed"
  PROVE  open' \subseteq Asked'
<1> SUFFICES ASSUME NEW t \in open' PROVE t \in Asked'
  OBVIOUS
<1>1. CASE t \in Asked'
  BY <1>1
<1>2. CASE t \in open
  <2>1. ASSUME NEW r \in reqs, t = TxOf(r) PROVE t \in Asked'
    BY <2>1 DEF Asked, TxOf
  <2>2. ASSUME NEW s \in Subs, web[s] = "failed", t = WebTx(s) PROVE t \in Asked'
    BY <2>2 DEF Asked, WebTx
  <2>. QED  BY <1>2, <2>1, <2>2 DEF Asked
<1>. QED  BY <1>1, <1>2

\* Every step leaves the locks with their holders.
LEMMA LocksStep ==
  ASSUME TypeInv, LocksAreHeld, [Next]_vars
  PROVE  LocksAreHeld'
<1> USE DEF webVars, keyVars, connVars, jobRest
<1>1. ASSUME open' \subseteq open,
             \A r \in reqs : TxOf(r) \in open' => \E q \in reqs' : TxOf(q) = TxOf(r),
             \A s \in Subs : web[s] = "failed" /\ WebTx(s) \in open' => web'[s] = "failed"
      PROVE  LocksAreHeld'
  BY <1>1, HoldersStay DEF LocksAreHeld
<1>2. ASSUME open' \subseteq open, reqs \subseteq reqs',
             \A s \in Subs : web[s] = "failed" /\ WebTx(s) \in open' => web'[s] = "failed"
      PROVE  LocksAreHeld'
  BY <1>1, <1>2
<1>3. ASSUME NEW s \in Subs, Submit(s) PROVE LocksAreHeld'
  BY <1>2, <1>3 DEF Submit, TypeInv, TypeOK
<1>4. ASSUME NEW s \in Subs, SubmitError(s) PROVE LocksAreHeld'
  BY <1>2, <1>4 DEF SubmitError, TypeInv, TypeOK
<1>5. ASSUME NEW s \in Subs, SubmitFailed(s) PROVE LocksAreHeld'
  BY <1>2, <1>5 DEF SubmitFailed, TypeInv, TypeOK
<1>6. ASSUME NEW s \in Subs, SubmitFailedAbort(s) PROVE LocksAreHeld'
  BY <1>2, <1>6 DEF SubmitFailedAbort, RolledBack, TypeInv, TypeOK
<1>7. ASSUME WebCrash PROVE LocksAreHeld'
  BY <1>2, <1>7 DEF WebCrash, RolledBack, TypeInv, TypeOK
<1>8. ASSUME NEW p \in pushes, HandleSubmit(p) PROVE LocksAreHeld'
  BY <1>2, <1>8 DEF HandleSubmit, TypeInv, TypeOK
<1>9. ASSUME NEW t \in Asked, ChangeKey(t) \/ ChangeKeyError(t) PROVE LocksAreHeld'
  <2>1. open' = open \cup {t} /\ ~Locked(t.sub) /\ reqs' = reqs /\ web' = web
    BY <1>9 DEF ChangeKey, ChangeKeyError, ChangesKey
  <2>2. open' \subseteq Asked'
    BY <2>1 DEF LocksAreHeld, Asked
  <2>3. \A u \in open : u.sub # t.sub
    BY <2>1 DEF Locked
  <2>. QED  BY <2>1, <2>2, <2>3 DEF LocksAreHeld
<1>10. ASSUME NEW r \in reqs, HandleReport(r) \/ HandleReportAbort(r) PROVE LocksAreHeld'
  <2>1. open' = open \ {TxOf(r)} /\ reqs' = reqs \ {r} /\ web' = web
    BY <1>10 DEF HandleReport, HandleReportAbort, RolledBack
  <2>2. \A q \in reqs : TxOf(q) \in open' => q \in reqs'
    BY <2>1
  <2>. QED  BY <1>1, <2>1, <2>2
<1>11. ASSUME NEW r \in reqs, LoseReport(r) PROVE LocksAreHeld'
  <2>1. open' = open /\ TxOf(r) \notin open /\ reqs' = reqs \ {r} /\ web' = web
    BY <1>11 DEF LoseReport
  <2>2. \A q \in reqs : TxOf(q) \in open' => q \in reqs'
    BY <2>1
  <2>. QED  BY <1>1, <2>1, <2>2
<1>12. ASSUME NEW r \in reqs, DetachReport(r) PROVE LocksAreHeld'
  <2>1. /\ open' = open /\ web' = web
        /\ reqs' = (reqs \ {r}) \cup {[r EXCEPT !.awaited = FALSE]}
    BY <1>12 DEF DetachReport
  <2>2. TxOf([r EXCEPT !.awaited = FALSE]) = TxOf(r)
    BY DEF TxOf, TypeInv, TypeOK, Req
  <2>. QED  BY <1>1, <2>1, <2>2
<1>13. ASSUME PpjcRestart PROVE LocksAreHeld'
  <2>1. /\ open' = open \ {TxOf(r) : r \in reqs}
        /\ \A s \in Subs : web[s] = "failed" => web'[s] = "failed"
    BY <1>13 DEF PpjcRestart, RolledBack
  <2>2. open' \subseteq open /\ \A r \in reqs : TxOf(r) \notin open'
    BY <2>1
  <2>. QED  BY <1>1, <2>1, <2>2
<1>14. ASSUME NEW j \in jobs, JobNext(j) \/ JobDownloadError(j) PROVE LocksAreHeld'
  <2>1. open' = open /\ web' = web /\ reqs \subseteq reqs'
    BY <1>14 DEF JobNext, JobRefused, JobDownload, JobDownloadError, JobRunReturns,
      JobReportCase, JobReportTotal, JobRelease, Send
  <2>. QED  BY <1>2, <2>1
<1>15. CASE UNCHANGED <<open, reqs, web>>
  BY <1>2, <1>15
<1>. QED
  BY <1>3, <1>4, <1>5, <1>6, <1>7, <1>8, <1>9, <1>10, <1>11, <1>12, <1>13, <1>14, <1>15
  DEF Next, WebNext, SenderNext, ReaderNext, FaultNext, vars, Rejudge, RejudgeList,
      RejudgeAll, RejudgeError, Connect, SenderTake, SenderStop, SenderCancelled, SenderPop,
      SenderRedisError, SenderLoad, SenderLoadError, SenderWrite, SenderWriteLost,
      ReaderFinished, ReaderClosed, ConnDown, WorkerExit

-----------------------------------------------------------------------------
(* The theorems. *)

\* The inductive invariant holds in every reachable state.
THEOREM PipelineInv == Spec => []IInv
<1>1. Init => IInv
  <2>1. Init => LocksAreHeld
    BY DEF Init, LocksAreHeld
  <2>. QED  BY <2>1, TypeInit, NothingInit, JidInit, UniqueInit, CasesInit DEF IInv, TypeInv,
      SenderHolds
<1>2. IInv /\ [Next]_vars => IInv'
  BY TypeStep, LocksStep, NothingStep, JidStep, UniqueStep, CasesStep DEF IInv, TypeInv,
    SenderHolds
<1>. QED  BY <1>1, <1>2, PTL DEF Spec

\* Every variable keeps its type: whatever the web server, the workers and the
\* faults do, ppjc never stores a status of an unknown kind, a case of another
\* problem or a dispatch without a submission.
THEOREM TypeCorrect == Spec => []TypeOK
  BY PipelineInv, PTL DEF IInv

\* No row, job, report or dispatch is ahead of used_jid, the counter that the
\* load transaction of the sender advances.
THEOREM JidHandedOutAlways == Spec => []JidHandedOut
  BY PipelineInv, PTL DEF IInv

\* However many connections dispatch the same submission at the same time, no
\* two dispatches judge it under the same jid.
THEOREM RunsAlwaysUnique == Spec => []RunsUnique
  BY PipelineInv, PTL DEF IInv

\* Late, lost and reordered reports never leave case rows of one run next to the
\* verdict of another.
THEOREM CasesAlwaysOfRun == Spec => []CasesOfRun
  BY PipelineInv, PTL DEF IInv

\* The lock of a row has one holder, whose request ppjc still serves or whose submit
\* handler still runs: no crash, rollback or lost report leaves a row locked for ever.
THEOREM LocksAlwaysHeld == Spec => []LocksAreHeld
  BY PipelineInv, PTL DEF IInv

\* The run a row shows and the runs handed out never go back, under every fault.
THEOREM RunsOnlyForward == Spec => RunsGoForward
<1>1. IInv /\ [Next]_vars => [NoRunGoesBack]_vars
  BY RowGrows DEF IInv, TypeInv, SenderHolds, NoRunGoesBack
<1>. QED  BY <1>1, PipelineInv, PTL DEF Spec, RunsGoForward

-----------------------------------------------------------------------------
(***************************************************************************)
(* A worker never runs more judges at once than it asked for, and none of   *)
(* its slots is lost while its connection works: the proof that             *)
(* JudgePipeline keeps SlotsConserved.  A slot changes hands in four steps  *)
(* (the sender takes it, a job gets it with the websocket message,          *)
(* oneFinish sends it back, the reader counts it); a job that goes on, or   *)
(* is woken by an answer, is another element of the set of jobs, so what is *)
(* counted is that exactly one element gives way to exactly one other,      *)
(* which needs RunsUnique.                                                  *)
(***************************************************************************)
\* The jobs of a connection that have a slot, and the slot of its sender.
Held(c) == {j \in jobs : j.conn = c /\ ~j.st.released}
Busy(c) == IF sender[c].pc \in {"brpop", "load", "write"} THEN 1 ELSE 0

\* A connection that was never accepted has given nothing away; on one that
\* works the slots add up.
SlotInv ==
  \A c \in Conns :
    /\ conn[c] = "new" => Held(c) = {} /\ sender[c].pc = "none" /\ fin[c] = 0
    /\ conn[c] = "up" =>
         /\ IsFiniteSet(Held(c))
         /\ avail[c] + Busy(c) + Cardinality(Held(c)) + fin[c] = Parallel

\* As many jobs of c have a slot as before.
SameHeld(c) ==
  /\ Held(c) = {} => Held(c)' = {}
  /\ IsFiniteSet(Held(c)) => /\ IsFiniteSet(Held(c)')
                             /\ Cardinality(Held(c)') = Cardinality(Held(c))

-----------------------------------------------------------------------------
(* Jobs that go on. *)

\* Job j gives way to k, which is of the same run and has a slot when j has.
\* Jobs without one may come to their end.
GivesWay(j, k) ==
  /\ SameRun(k, j) /\ k.conn = j.conn /\ k.st.released = j.st.released
  /\ jobs' \subseteq (jobs \ {j}) \cup {k}
  /\ \A l \in (jobs \ {j}) \cup {k} : ~l.st.released => l \in jobs'

\* One job that gives way to one other leaves the number of slots alone.
LEMMA GivesWaySame ==
  ASSUME JobsUnique, NEW j \in jobs, NEW k, GivesWay(j, k), NEW c \in Conns
  PROVE  SameHeld(c)
<1>1. CASE j \in Held(c)
  <2>1. Held(c)' = (Held(c) \ {j}) \cup {k}
    BY <1>1 DEF Held, GivesWay
  <2>2. k \notin Held(c) \ {j}
    BY DEF Held, GivesWay, JobsUnique
  <2>3. ASSUME IsFiniteSet(Held(c))
        PROVE  /\ IsFiniteSet(Held(c)')
               /\ Cardinality(Held(c)') = Cardinality(Held(c))
    <3>1. /\ IsFiniteSet(Held(c) \ {j})
          /\ Cardinality(Held(c) \ {j}) = Cardinality(Held(c)) - 1
      BY <1>1, <2>3, FS_RemoveElement
    <3>2. /\ IsFiniteSet((Held(c) \ {j}) \cup {k})
          /\ Cardinality((Held(c) \ {j}) \cup {k}) = Cardinality(Held(c) \ {j}) + 1
      BY <2>2, <3>1, FS_AddElement
    <3>3. Cardinality(Held(c)) \in Nat
      BY <2>3, FS_CardinalityType
    <3>. QED  BY <2>1, <3>1, <3>2, <3>3
  <2>. QED  BY <1>1, <2>3 DEF SameHeld
<1>2. CASE j \notin Held(c)
  <2>1. Held(c)' = Held(c)
    BY <1>2 DEF Held, GivesWay
  <2>. QED  BY <2>1 DEF SameHeld
<1>. QED  BY <1>1, <1>2

\* A step of a job that is not oneFinish keeps its slot where it is.
LEMMA JobGoesOnHeld ==
  ASSUME jobs \subseteq Job, JobsUnique, NEW j \in jobs, NEW st, JobGoesOn(j, st),
         st.released = j.st.released, NEW c \in Conns
  PROVE  SameHeld(c)
<1> DEFINE k == [j EXCEPT !.st = st]
<1>1. SameRun(k, j) /\ k.conn = j.conn /\ k.st = st
  BY DEF SameRun, Job
<1>2. GivesWay(j, k)
  BY <1>1 DEF GivesWay, JobGoesOn, Over
<1>. QED  BY <1>2, GivesWaySame

\* An answer wakes a goroutine of at most one job.
LEMMA AnswerHeld ==
  ASSUME jobs \subseteq Job, JobsUnique, NEW r, Answer(r), NEW c \in Conns
  PROVE  SameHeld(c)
<1>1. CASE \E j \in jobs : r.awaited /\ Of(r, j)
  <2>1. PICK j \in jobs : r.awaited /\ Of(r, j)
    BY <1>1
  <2>2. \A l \in jobs \ {j} : Resumed(l, r) = l
    BY <2>1 DEF Resumed, Of, JobsUnique, SameRun
  <2>3. /\ Resumed(j, r).conn = j.conn
        /\ Resumed(j, r).st.released = j.st.released
        /\ SameRun(Resumed(j, r), j)
    BY ResumedSame DEF Resumed, Answered, Job, JobState
  <2>4. GivesWay(j, Resumed(j, r))
    BY <2>2, <2>3 DEF GivesWay, Answer, Over
  <2>. QED  BY <2>4, GivesWaySame
<1>2. CASE ~\E j \in jobs : r.awaited /\ Of(r, j)
  <2>1. \A l \in jobs : Resumed(l, r) = l
    BY <1>2 DEF Resumed
  <2>2. Held(c)' = Held(c)
    BY <2>1 DEF Answer, Held, Over
  <2>. QED  BY <2>2 DEF SameHeld
<1>. QED  BY <1>1, <1>2

-----------------------------------------------------------------------------
(* The steps. *)

\* The slots of a connection add up after a step.
SlotsAddUp(c) ==
  /\ conn'[c] = "new" => Held(c)' = {} /\ sender'[c].pc = "none" /\ fin'[c] = 0
  /\ conn'[c] = "up" =>
       /\ IsFiniteSet(Held(c)')
       /\ avail'[c] + Busy(c)' + Cardinality(Held(c)') + fin'[c] = Parallel

\* Only a step of c's own sender, reader or jobs can change the slots of c.
LEMMA Untouched ==
  ASSUME SlotInv, NEW c \in Conns, SameHeld(c), conn'[c] = conn[c],
         sender'[c] = sender[c], avail'[c] = avail[c], fin'[c] = fin[c]
  PROVE  SlotsAddUp(c)
<1>1. Busy(c)' = Busy(c)
  BY DEF Busy
<1>. QED  BY <1>1 DEF SlotInv, SameHeld, SlotsAddUp

\* A step that only wakes or moves jobs.
LEMMA JobsMove ==
  ASSUME SlotInv, UNCHANGED <<conn, sender, avail, fin>>, \A c \in Conns : SameHeld(c)
  PROVE  SlotInv'
<1> SUFFICES ASSUME NEW c \in Conns PROVE SlotsAddUp(c)
  BY DEF SlotInv, SlotsAddUp
<1>. QED  BY Untouched

\* A step that leaves the jobs alone leaves the slots of the jobs alone.
LEMMA NoJobMoves ==
  ASSUME UNCHANGED jobs, NEW c \in Conns
  PROVE  Held(c)' = Held(c) /\ SameHeld(c)
  BY DEF Held, SameHeld

\* What a connection has given away is counted with numbers.
LEMMA HeldType ==
  ASSUME TypeInv, NEW c \in Conns, IsFiniteSet(Held(c))
  PROVE  /\ Cardinality(Held(c)) \in Nat
         /\ avail[c] \in Nat /\ fin[c] \in Nat /\ Busy(c) \in {0, 1}
  BY FS_CardinalityType DEF TypeInv, TypeOK, Busy

\* The loop of the sender and the reader.
LEMMA SenderStep ==
  ASSUME TypeInv, SlotInv, NEW d \in Conns, UNCHANGED jobs,
         \/ Connect(d) \/ SenderTake(d) \/ SenderStop(d) \/ SenderCancelled(d)
         \/ SenderPop(d) \/ SenderLoad(d) \/ SenderWriteLost(d)
         \/ SenderRedisError(d) \/ SenderLoadError(d) \/ ConnDown(d)
         \/ ReaderFinished(d)
  PROVE  SlotInv'
<1> USE DEF webVars, connVars
<1> SUFFICES ASSUME NEW c \in Conns PROVE SlotsAddUp(c)
  BY DEF SlotInv, SlotsAddUp
<1>1. /\ conn \in [Conns -> {"new", "up", "down"}] /\ fin \in [Conns -> Nat]
      /\ avail \in [Conns -> Nat] /\ sender \in [Conns -> Sender]
  BY DEF TypeInv, TypeOK
<1>2. CASE c # d
  <2>1. /\ conn'[c] = conn[c] /\ sender'[c] = sender[c]
        /\ avail'[c] = avail[c] /\ fin'[c] = fin[c]
    BY <1>1, <1>2 DEF Connect, SenderTake, SenderStop, SenderCancelled, SenderPop,
      SenderLoad, SenderWriteLost, SenderRedisError, SenderLoadError, ConnDown,
      ReaderFinished, SenderReturn, SenderRetry
  <2>. QED  BY <2>1, NoJobMoves, Untouched
<1>3. CASE c = d
  <2>1. Held(c)' = Held(c)
    BY NoJobMoves
  <2>2. ASSUME conn'[c] = "new" PROVE FALSE
    <3>1. conn[c] = "new" /\ ~Connect(c)
      BY <1>1, <1>3, <2>2 DEF Connect, SenderTake, SenderStop, SenderCancelled,
        SenderPop, SenderLoad, SenderWriteLost, SenderRedisError, SenderLoadError,
        ConnDown, ReaderFinished, SenderReturn, SenderRetry
    <3>2. sender[c].pc = "none" /\ fin[c] = 0
      BY <3>1 DEF SlotInv
    <3>3. ~SenderTake(c) /\ ~SenderStop(c) /\ ~SenderCancelled(c) /\ ~SenderPop(c)
      BY <3>2 DEF SenderTake, SenderStop, SenderCancelled, SenderPop
    <3>4. ~SenderLoad(c) /\ ~SenderWriteLost(c) /\ ~SenderLoadError(c)
      BY <3>2 DEF SenderLoad, SenderWriteLost, SenderLoadError
    <3>5. ~SenderRedisError(c)
      BY <3>2 DEF SenderRedisError
    <3>6. ~ConnDown(c) /\ ~ReaderFinished(c)
      BY <3>1, <3>2 DEF ConnDown, ReaderFinished
    <3>. QED  BY <1>3, <3>1, <3>3, <3>4, <3>5, <3>6
  <2>3. ASSUME conn'[c] = "up", conn[c] # "up"
        PROVE  /\ IsFiniteSet(Held(c)')
               /\ avail'[c] + Busy(c)' + Cardinality(Held(c)') + fin'[c] = Parallel
    <3>1. Connect(c)
      BY <1>1, <1>3, <2>3 DEF SenderTake, SenderStop, SenderCancelled, SenderPop,
        SenderLoad, SenderWriteLost, SenderRedisError, SenderLoadError, ConnDown,
        ReaderFinished, SenderReturn, SenderRetry
    <3>2. Held(c)' = {} /\ fin'[c] = 0 /\ avail'[c] = Parallel /\ Busy(c)' = 0
      BY <1>1, <2>1, <3>1 DEF Connect, SlotInv, Busy, Idle
    <3>3. IsFiniteSet(Held(c)') /\ Cardinality(Held(c)') = 0
      BY <3>2, FS_EmptySet, Zenon
    <3>4. Parallel \in Nat
      BY PipelineAssumption DEF PipelineAssumption
    <3>. QED  BY <3>2, <3>3, <3>4
  <2>4. ASSUME conn'[c] = "up", conn[c] = "up"
        PROVE  /\ IsFiniteSet(Held(c)')
               /\ avail'[c] + Busy(c)' + Cardinality(Held(c)') + fin'[c] = Parallel
    <3>1. /\ IsFiniteSet(Held(c))
          /\ avail[c] + Busy(c) + Cardinality(Held(c)) + fin[c] = Parallel
      BY <2>4 DEF SlotInv
    <3>2. /\ Cardinality(Held(c)) \in Nat
          /\ avail[c] \in Nat /\ fin[c] \in Nat /\ Busy(c) \in {0, 1}
      BY <3>1, HeldType
    <3>3. avail'[c] + Busy(c)' + fin'[c] = avail[c] + Busy(c) + fin[c]
      <4>1. ~Connect(c) /\ ~ConnDown(c) /\ ~SenderStop(c) /\ ~SenderCancelled(c)
            /\ ~SenderReturn(c) /\ ~SenderWriteLost(c)
        BY <1>1, <2>4 DEF Connect, ConnDown, SenderStop, SenderCancelled,
          SenderReturn, SenderWriteLost
      <4>2. CASE SenderTake(c)
        BY <1>1, <2>4, <4>1, <4>2 DEF SenderTake, Busy, Idle
      <4>3. CASE SenderPop(c)
        BY <1>1, <4>3 DEF SenderPop, Busy, Idle
      <4>4. CASE SenderLoad(c)
        BY <1>1, <4>4 DEF SenderLoad, Busy, Sender
      <4>5. CASE SenderRedisError(c) \/ SenderLoadError(c)
        BY <1>1, <4>5 DEF SenderRedisError, SenderLoadError, SenderRetry, Busy, Idle
      <4>6. CASE ReaderFinished(c)
        BY <1>1, <3>2, <4>6 DEF ReaderFinished, Busy
      <4>. QED  BY <1>3, <4>1, <4>2, <4>3, <4>4, <4>5, <4>6
    <3>4. avail'[c] \in Nat /\ fin'[c] \in Nat /\ Busy(c)' \in {0, 1}
      <4>1. TypeOK'
        BY TypeStep DEF TypeInv, Next, SenderNext, ReaderNext, FaultNext
      <4>. QED  BY <4>1 DEF TypeOK, Busy
    <3>. QED  BY <2>1, <3>1, <3>2, <3>3, <3>4
  <2>. QED  BY <2>2, <2>3, <2>4 DEF SlotsAddUp
<1>. QED  BY <1>2, <1>3

\* The websocket message carries the slot of the sender to the job it starts.
LEMMA WriteStep ==
  ASSUME TypeInv, RunsUnique, SlotInv, NEW d \in Conns, SenderWrite(d)
  PROVE  SlotInv'
<1> SUFFICES ASSUME NEW c \in Conns PROVE SlotsAddUp(c)
  BY DEF SlotInv, SlotsAddUp
<1> DEFINE n == NewJob(sender[d].sub, sender[d].jid, d)
<1>1. /\ conn' = conn /\ avail' = avail /\ fin' = fin
      /\ jobs' = jobs \cup {n} /\ conn[d] = "up" /\ sender[d].pc = "write"
      /\ sender' = [sender EXCEPT ![d] = Idle("sel")]
  BY DEF SenderWrite
<1>2. n.conn = d /\ ~n.st.released /\ n \notin jobs
  BY <1>1 DEF NewJob, NewState, RunsUnique
<1>3. CASE c # d
  <2>1. Held(c)' = Held(c)
    BY <1>1, <1>2, <1>3 DEF Held
  <2>2. sender'[c] = sender[c]
    BY <1>1, <1>3 DEF TypeInv, TypeOK
  <2>3. SameHeld(c)
    BY <2>1 DEF SameHeld
  <2>. QED  BY <1>1, <2>2, <2>3, Untouched
<1>4. CASE c = d
  <2>1. Held(c)' = Held(c) \cup {n} /\ n \notin Held(c)
    BY <1>1, <1>2, <1>4 DEF Held
  <2>2. /\ IsFiniteSet(Held(c))
        /\ avail[c] + Busy(c) + Cardinality(Held(c)) + fin[c] = Parallel
    BY <1>1, <1>4 DEF SlotInv
  <2>3. /\ IsFiniteSet(Held(c)')
        /\ Cardinality(Held(c)') = Cardinality(Held(c)) + 1
    <3>1. /\ IsFiniteSet(Held(c) \cup {n})
          /\ Cardinality(Held(c) \cup {n}) = Cardinality(Held(c)) + 1
      BY <2>1, <2>2, FS_AddElement
    <3>. QED  BY <2>1, <3>1, Zenon
  <2>4. Busy(c) = 1 /\ Busy(c)' = 0
    BY <1>1, <1>4, IdleType DEF Busy, TypeInv, TypeOK
  <2>5. Cardinality(Held(c)) \in Nat /\ avail[c] \in Nat /\ fin[c] \in Nat
    BY <2>2, HeldType
  <2>. QED  BY <1>1, <1>4, <2>2, <2>3, <2>4, <2>5 DEF SlotsAddUp
<1>. QED  BY <1>3, <1>4

\* oneFinish gives the slot of the job to the message, or, when the connection
\* is broken, to nobody who counts.
LEMMA ReleaseStep ==
  ASSUME TypeInv, JobsUnique, SlotInv, NEW j \in jobs, JobRelease(j)
  PROVE  SlotInv'
<1> SUFFICES ASSUME NEW c \in Conns PROVE SlotsAddUp(c)
  BY DEF SlotInv, SlotsAddUp
<1> DEFINE k == [j EXCEPT !.st = Released(@)]
<1>1. /\ conn' = conn /\ avail' = avail /\ sender' = sender
      /\ fin' = [fin EXCEPT ![j.conn] = IF conn[j.conn] = "up" THEN @ + 1 ELSE @]
      /\ ~j.st.released /\ JobGoesOn(j, Released(j.st))
  BY DEF JobRelease, CanRelease, jobRest
<1>2. j \in Job /\ j.conn \in Conns
  BY DEF TypeInv, TypeOK, Job
<1>3. \A l : l \in jobs' => l \in jobs \ {j} \/ l.st.released
  BY <1>1, <1>2 DEF JobGoesOn, Released, Job, JobState
<1>4. \A l \in jobs \ {j} : l \in jobs'
  BY <1>1 DEF JobGoesOn
<1>5. Held(c)' = Held(c) \ {j}
  BY <1>3, <1>4 DEF Held
<1>6. CASE c # j.conn
  <2>1. Held(c)' = Held(c)
    BY <1>5, <1>6 DEF Held
  <2>2. fin'[c] = fin[c]
    BY <1>1, <1>6 DEF TypeInv, TypeOK
  <2>3. SameHeld(c)
    BY <2>1 DEF SameHeld
  <2>. QED  BY <1>1, <2>2, <2>3, Untouched
<1>7. CASE c = j.conn
  <2>1. j \in Held(c)
    BY <1>1, <1>7 DEF Held
  <2>2. conn[c] # "new"
    BY <2>1 DEF SlotInv
  <2>3. ASSUME conn[c] = "up"
        PROVE  /\ IsFiniteSet(Held(c)')
               /\ avail'[c] + Busy(c)' + Cardinality(Held(c)') + fin'[c] = Parallel
    <3>1. /\ IsFiniteSet(Held(c))
          /\ avail[c] + Busy(c) + Cardinality(Held(c)) + fin[c] = Parallel
      BY <2>3 DEF SlotInv
    <3>2. /\ IsFiniteSet(Held(c)')
          /\ Cardinality(Held(c)') = Cardinality(Held(c)) - 1
      <4>1. /\ IsFiniteSet(Held(c) \ {j})
            /\ Cardinality(Held(c) \ {j}) = Cardinality(Held(c)) - 1
        BY <2>1, <3>1, FS_RemoveElement
      <4>. QED  BY <1>5, <4>1, Zenon
    <3>3. fin'[c] = fin[c] + 1
      BY <1>1, <1>7, <2>3 DEF TypeInv, TypeOK
    <3>4. Busy(c)' = Busy(c)
      BY <1>1 DEF Busy
    <3>5. /\ Cardinality(Held(c)) \in Nat
          /\ avail[c] \in Nat /\ fin[c] \in Nat /\ Busy(c) \in {0, 1}
      BY <3>1, HeldType
    <3>. QED  BY <1>1, <3>1, <3>2, <3>3, <3>4, <3>5
  <2>. QED  BY <1>1, <2>2, <2>3 DEF SlotsAddUp
<1>. QED  BY <1>6, <1>7

\* A worker that exits takes only the jobs of its broken connection with it.
LEMMA ExitStep ==
  ASSUME SlotInv, NEW d \in Conns, WorkerExit(d)
  PROVE  SlotInv'
<1> USE DEF connVars
<1> SUFFICES ASSUME NEW c \in Conns PROVE SlotsAddUp(c)
  BY DEF SlotInv, SlotsAddUp
<1>1. /\ conn' = conn /\ avail' = avail /\ sender' = sender /\ fin' = fin
      /\ conn[d] = "down" /\ jobs' = jobs \ {j \in jobs : j.conn = d}
  BY DEF WorkerExit
<1>2. CASE c # d
  <2>1. Held(c)' = Held(c)
    BY <1>1, <1>2 DEF Held
  <2>. QED  BY <1>1, <2>1, Untouched DEF SameHeld
<1>3. CASE c = d
  BY <1>1, <1>3 DEF SlotsAddUp
<1>. QED  BY <1>2, <1>3

\* After a restart of ppjc no connection works.
LEMMA RestartStep ==
  ASSUME TypeInv, SlotInv, PpjcRestart
  PROVE  SlotInv'
<1> SUFFICES ASSUME NEW c \in Conns PROVE SlotsAddUp(c)
  BY DEF SlotInv, SlotsAddUp
<1>1. conn'[c] # "up"
  BY DEF PpjcRestart, TypeInv, TypeOK
<1>2. ASSUME conn'[c] = "new"
      PROVE  Held(c)' = {} /\ sender'[c].pc = "none" /\ fin'[c] = 0
  <2>1. conn[c] = "new"
    BY <1>2 DEF PpjcRestart, TypeInv, TypeOK
  <2>2. sender'[c] = sender[c] /\ fin'[c] = 0
    BY <2>1 DEF PpjcRestart
  <2>3. \A j \in jobs : /\ GivenUp(j).conn = j.conn
                        /\ GivenUp(j).st.released = j.st.released
    <3>1. ASSUME NEW j \in jobs
          PROVE  j \in Job /\ j.st \in JobState
      BY DEF TypeInv, TypeOK, Job
    <3>. QED  BY <3>1 DEF GivenUp, Job, JobState
  <2>4. Held(c) = {} /\ sender[c].pc = "none"
    BY <2>1 DEF SlotInv
  <2>5. Held(c)' = {}
    BY <2>3, <2>4 DEF PpjcRestart, Held
  <2>. QED  BY <2>2, <2>4, <2>5
<1>. QED  BY <1>1, <1>2 DEF SlotsAddUp

\* A step of a job other than oneFinish.
MovesOn(j) ==
  \/ JobDownload(j) \/ JobRefused(j) \/ JobRunReturns(j)
  \/ JobReportCase(j) \/ JobReportTotal(j) \/ JobDownloadError(j)

\* Such a step keeps the slots where they are.
LEMMA JobStep ==
  ASSUME TypeInv, JobsUnique, SlotInv, NEW j \in jobs, MovesOn(j)
  PROVE  SlotInv'
<1> USE DEF webVars, connVars, jobRest
<1>1. j.st \in JobState /\ jobs \subseteq Job
  BY DEF TypeInv, TypeOK, Job
<1>2. UNCHANGED <<conn, sender, avail, fin>>
  BY DEF MovesOn, JobDownload, JobRefused, JobRunReturns, JobReportCase,
    JobReportTotal, JobDownloadError
<1>3. ASSUME NEW c \in Conns PROVE SameHeld(c)
  <2>0. /\ Downloaded(j.st).released = j.st.released
        /\ Refused(j.st).released = j.st.released
        /\ \A t : Returned(j.st, t).released = j.st.released
        /\ \A v : CaseReported(j.st, v).released = j.st.released
        /\ TotalReported(j.st).released = j.st.released
        /\ TotalSkipped(j.st).released = j.st.released
        /\ DownloadFailed(j.st).released = j.st.released
    BY <1>1 DEF Downloaded, Refused, Returned, CaseReported, TotalReported,
      TotalSkipped, DownloadFailed, JobState
  <2>1. \E st : JobGoesOn(j, st) /\ st.released = j.st.released
    <3>1. CASE JobDownload(j)
      BY <3>1, <2>0 DEF JobDownload
    <3>2. CASE JobRefused(j)
      BY <3>2, <2>0 DEF JobRefused
    <3>3. CASE JobRunReturns(j)
      BY <3>3, <2>0 DEF JobRunReturns
    <3>4. CASE JobReportCase(j)
      BY <3>4, <2>0 DEF JobReportCase
    <3>5. CASE JobReportTotal(j)
      BY <3>5, <2>0 DEF JobReportTotal
    <3>6. CASE JobDownloadError(j)
      BY <3>6, <2>0 DEF JobDownloadError
    <3>. QED  BY <3>1, <3>2, <3>3, <3>4, <3>5, <3>6 DEF MovesOn
  <2>. QED  BY <1>1, <2>1, JobGoesOnHeld
<1>. QED  BY <1>2, <1>3, JobsMove

\* A step that answers a report.
LEMMA ReportStep ==
  ASSUME TypeInv, JobsUnique, SlotInv, NEW r \in reqs,
         HandleReport(r) \/ HandleReportAbort(r) \/ LoseReport(r) \/ DetachReport(r)
  PROVE  SlotInv'
<1>1. Answer(r) /\ UNCHANGED <<conn, sender, avail, fin>>
  BY DEF HandleReport, HandleReportAbort, LoseReport, DetachReport, connVars
<1>2. \A c \in Conns : SameHeld(c)
  BY <1>1, AnswerHeld DEF TypeInv, TypeOK
<1>. QED  BY <1>1, <1>2, JobsMove

\* Initially no connection has been accepted.
LEMMA SlotInit == Init => SlotInv
  BY DEF Init, SlotInv, Held, Idle

\* Every step keeps the slots: one case for each action that touches them.
LEMMA SlotStep ==
  ASSUME TypeInv, RunsUnique, SlotInv, [Next]_vars
  PROVE  SlotInv'
<1> USE DEF webVars, connVars, jobRest
<1>0. JobsUnique
  BY DEF RunsUnique, JobsUnique, SameRun
<1>1. ASSUME UNCHANGED <<jobs, conn, sender, avail, fin>> PROVE SlotInv'
  BY <1>1, NoJobMoves, JobsMove
<1>2. ASSUME NEW c \in Conns,
             \/ Connect(c) \/ SenderTake(c) \/ SenderStop(c) \/ SenderCancelled(c)
             \/ SenderPop(c) \/ SenderLoad(c) \/ SenderWriteLost(c)
             \/ SenderRedisError(c) \/ SenderLoadError(c) \/ ConnDown(c)
             \/ ReaderFinished(c)
      PROVE  SlotInv'
  <2>1. UNCHANGED jobs
    BY <1>2 DEF Connect, SenderTake, SenderStop, SenderCancelled, SenderPop,
      SenderLoad, SenderWriteLost, SenderRedisError, SenderLoadError, ConnDown,
      ReaderFinished
  <2>. QED  BY <1>2, <2>1, SenderStep
<1>3. ASSUME NEW j \in jobs, JobNext(j) \/ JobDownloadError(j) PROVE SlotInv'
  BY <1>0, <1>3, JobStep, ReleaseStep DEF JobNext, MovesOn
<1>4. ASSUME NEW c \in Conns, SenderWrite(c) \/ WorkerExit(c) PROVE SlotInv'
  BY <1>4, WriteStep, ExitStep
<1>5. ASSUME NEW r \in reqs,
             \/ HandleReport(r) \/ HandleReportAbort(r)
             \/ LoseReport(r) \/ DetachReport(r)
      PROVE  SlotInv'
  BY <1>0, <1>5, ReportStep
<1>6. CASE PpjcRestart
  BY <1>6, RestartStep
<1>7. CASE \/ WebNext
           \/ \E p \in pushes : HandleSubmit(p) \/ RejudgeError(p)
           \/ \E c \in Conns : ReaderClosed(c)
           \/ \E s \in Subs : SubmitError(s) \/ SubmitFailedAbort(s)
           \/ \E t \in Asked : ChangeKey(t) \/ ChangeKeyError(t)
           \/ WebCrash
           \/ UNCHANGED vars
  BY <1>1, <1>7 DEF WebNext, Submit, SubmitFailed, Rejudge, RejudgeList, RejudgeAll,
    HandleSubmit, RejudgeError, ReaderClosed, SubmitError, SubmitFailedAbort,
    ChangeKey, ChangeKeyError, WebCrash, vars
<1>. QED
  BY <1>2, <1>3, <1>4, <1>5, <1>6, <1>7 DEF Next, SenderNext, ReaderNext, FaultNext

\* However connections break, reports get lost and ppjc restarts: while a
\* connection works every slot of its worker is free, with the sender, with one
\* job or on its way back, so the worker never runs more than Parallel judges.
THEOREM SlotsAlwaysConserved == Spec => []SlotsConserved
<1>1. Init => SlotInv
  BY SlotInit
<1>2. IInv /\ SlotInv /\ [Next]_vars => SlotInv'
  BY SlotStep DEF IInv, TypeInv, SenderHolds
<1>3. IInv /\ SlotInv => SlotsConserved
  <2>1. SUFFICES ASSUME IInv, SlotInv, NEW c \in Conns, conn[c] = "up"
                 PROVE  avail[c] + SlotsInUse(c) = Parallel
    BY DEF SlotsConserved
  <2>2. /\ IsFiniteSet(Held(c))
        /\ avail[c] + Busy(c) + Cardinality(Held(c)) + fin[c] = Parallel
    BY <2>1 DEF SlotInv
  <2>3. /\ Cardinality(Held(c)) \in Nat
        /\ avail[c] \in Nat /\ fin[c] \in Nat /\ Busy(c) \in {0, 1}
    BY <2>1, <2>2, HeldType DEF IInv, TypeInv, SenderHolds
  <2>4. SlotsInUse(c) = Busy(c) + Cardinality(Held(c)) + fin[c]
    BY DEF SlotsInUse, Busy, Held
  <2>. QED  BY <2>2, <2>3, <2>4
<1>. QED  BY <1>1, <1>2, <1>3, PipelineInv, PTL DEF Spec
-----------------------------------------------------------------------------
(***************************************************************************)
(* A user never sees a case twice, nor a failed case next to "accepted".    *)
(*                                                                         *)
(* Reports overtake each other (a worker that gave one up sends the next),  *)
(* so what a row shows says little about what is still to come.  The job    *)
(* knows: it has told every verdict of its run that is in the row or on its  *)
(* way, each for another case (VerdictsTold), and remembers the worst of     *)
(* them.  When an accepted total is on its way or stored, the job has no     *)
(* status left to report (Settled), so that what is on its way is all there  *)
(* is, whether or not the job is still there.                                *)
(***************************************************************************)
Verdict(r) == r.rep.type = "case" /\ r.rep.status # JG

\* An accepted total of the run is on its way, or stored.
AcSent(s, jid) ==
  \/ \E r \in reqs : /\ r.sub = s /\ r.jid = jid
                     /\ r.rep.type = "result" /\ r.rep.status = "AC"
  \/ rows[s].jid = jid /\ rows[s].status = "AC"

\* The run is through its cases, and every status of theirs was reported.
Drained(st) == st.total = "cases" => st.dlst \in {"failed", "done"}
Settled(st) == st.total = "cases" /\ st.rep = 2 * st.dl

\* The job has told verdict c: its case is done, and it is among the worst.
Told(st, c) == 2 * c.id + 1 < st.rep /\ (st.worst = "AC" => c.status = "AC")

\* No two verdicts of a run are for the same case, on their way or stored.
VerdictsDiffer ==
  /\ \A r, q \in reqs : Verdict(r) /\ Verdict(q) /\ SameRun(r, q)
                        /\ r.rep.id = q.rep.id => r = q
  /\ \A r \in reqs : Verdict(r) =>
       \A k \in rows[r.sub].cases : k.jid = r.jid => k.id # r.rep.id
  /\ \A s \in Subs : \A k, l \in rows[s].cases : k.id = l.id => k = l

\* A job has told what is on its way or stored of its run.
VerdictsTold ==
  \A j \in jobs :
    /\ Drained(j.st)
    /\ \A r \in reqs : Verdict(r) /\ SameRun(r, j) => Told(j.st, r.rep)
    /\ \A k \in rows[j.sub].cases : k.jid = j.jid => Told(j.st, k)

\* After an accepted total nothing more is told, and all there is is accepted.
AcceptedWhole ==
  /\ \A j \in jobs : AcSent(j.sub, j.jid) => Settled(j.st)
  /\ \A r \in reqs : Verdict(r) /\ AcSent(r.sub, r.jid) => r.rep.status = "AC"
  /\ \A s \in Subs : AcSent(s, rows[s].jid) => \A k \in rows[s].cases : k.status = "AC"

\* Nobody has heard of the run a sender is about to write.
RunsUnheard ==
  \A c \in Conns : sender[c].pc = "write" =>
    /\ \A r \in reqs : ~SameRun(r, sender[c])
    /\ rows[sender[c].sub].jid # sender[c].jid

VerdictInv == VerdictsDiffer /\ VerdictsTold /\ AcceptedWhole /\ RunsUnheard

-----------------------------------------------------------------------------
(* A job goes on. *)

\* What a step of a job never does: forget what it has told.
Advances(st, new) ==
  /\ st.rep <= new.rep
  /\ new.worst = "AC" => st.worst = "AC"
  /\ Drained(st) => Drained(new) /\ (Settled(st) => Settled(new))

Follows(j, k) == SameRun(k, j) /\ Advances(j.st, k.st)

\* The steps of JobSteps.
LEMMA StepsAdvance ==
  ASSUME NEW j \in JobState
  PROVE  /\ CanRefuse(j) => Advances(j, Refused(j))
         /\ CanDownload(j) => Advances(j, Downloaded(j))
         /\ CanDownload(j) => Advances(j, DownloadFailed(j))
         /\ \A t \in RunResults : CanReturn(j, t) => Advances(j, Returned(j, t))
         /\ \A v \in Statuses : CanReportCase(j, v) => Advances(j, CaseReported(j, v))
         /\ Advances(j, TotalReported(j)) /\ Advances(j, TotalSkipped(j))
         /\ Advances(j, Released(j))
         /\ \A r \in ReportKinds : Advances(j, Answered(j, r))
<1>0. /\ j.rep \in Nat /\ j.dl \in Nat
      /\ j.dlst \in {"run", "post", "failed", "done"} /\ j.worst \in CaseVerdicts
      /\ j.total \in {"none", "early"} \cup RunResults
  BY DEF JobState
<1>1. ASSUME CanRefuse(j) PROVE Advances(j, Refused(j))
  BY <1>0, <1>1 DEF JobState, CanRefuse, Refused, Advances, Drained, Settled
<1>2. ASSUME CanDownload(j) PROVE Advances(j, Downloaded(j)) /\ Advances(j, DownloadFailed(j))
  BY <1>0, <1>2 DEF JobState, CanDownload, Downloaded, DownloadFailed, Advances, Drained, Settled
<1>3. ASSUME NEW t \in RunResults, CanReturn(j, t) PROVE Advances(j, Returned(j, t))
  BY <1>0, <1>3 DEF JobState, CanReturn, Returned, Advances, Drained, Settled
<1>4. ASSUME NEW v \in Statuses, CanReportCase(j, v) PROVE Advances(j, CaseReported(j, v))
  <2>1. ~Settled(j)
    BY <1>0, <1>4 DEF CanReportCase, RunStatuses, Settled
  <2>2. /\ CaseReported(j, v).rep = j.rep + 1
        /\ CaseReported(j, v).total = j.total /\ CaseReported(j, v).dlst = j.dlst
        /\ CaseReported(j, v).worst = IF v = JG THEN j.worst ELSE Worse(j.worst, v)
    BY DEF JobState, CaseReported
  <2>. QED  BY <1>0, <2>1, <2>2 DEF Advances, Drained, Worse
<1>5. Advances(j, TotalReported(j)) /\ Advances(j, TotalSkipped(j)) /\ Advances(j, Released(j))
  BY <1>0 DEF JobState, TotalReported, TotalSkipped, Released, Advances, Drained, Settled
<1>6. \A r \in ReportKinds : Advances(j, Answered(j, r))
  BY <1>0 DEF JobState, Answered, Advances, Drained, Settled
<1>. QED  BY <1>1, <1>2, <1>3, <1>4, <1>5, <1>6

\* A job stands for itself.
LEMMA FollowsItself ==
  ASSUME NEW j \in Job
  PROVE  Follows(j, j)
  BY DEF Follows, SameRun, Advances, Job, JobState

\* The jobs after a step of one of them.
LEMMA GoesOnFollows ==
  ASSUME jobs \subseteq Job, NEW j \in jobs, NEW st, JobGoesOn(j, st), Advances(j.st, st)
  PROVE  /\ Follows(j, [j EXCEPT !.st = st])
         /\ \A k \in jobs' : k \in jobs \ {j} \/ k = [j EXCEPT !.st = st]
<1>1. [j EXCEPT !.st = st].st = st /\ SameRun([j EXCEPT !.st = st], j)
  BY DEF Job, SameRun
<1>. QED  BY <1>1 DEF Follows, JobGoesOn

\* A job that is answered follows on what it was ...
LEMMA ResumedFollows ==
  ASSUME NEW j \in Job, NEW r \in Req
  PROVE  Follows(j, Resumed(j, r))
<1>1. CASE r.awaited /\ Of(r, j)
  <2>1. Resumed(j, r) = [j EXCEPT !.st = Answered(j.st, r.rep)]
    BY <1>1 DEF Resumed
  <2>2. Advances(j.st, Answered(j.st, r.rep))
    BY StepsAdvance DEF Job, Req
  <2>. QED  BY <2>1, <2>2 DEF Follows, SameRun, Job
<1>2. CASE ~(r.awaited /\ Of(r, j))
  BY <1>2, FollowsItself DEF Resumed
<1>. QED  BY <1>1, <1>2

\* ... and so does one that gives its report up.
LEMMA GivenUpFollows ==
  ASSUME NEW j \in Job
  PROVE  Follows(j, GivenUp(j))
<1>1. /\ j.st \in JobState
      /\ GivenUp(j).sub = j.sub /\ GivenUp(j).jid = j.jid
      /\ GivenUp(j).st.rep = j.st.rep /\ GivenUp(j).st.worst = j.st.worst
      /\ GivenUp(j).st.total = j.st.total /\ GivenUp(j).st.dl = j.st.dl
      /\ GivenUp(j).st.dlst = IF j.st.dlst = "post" THEN "failed" ELSE j.st.dlst
  BY DEF GivenUp, Job, JobState
<1>. QED  BY <1>1 DEF Follows, SameRun, Advances, Drained, Settled, JobState

\* Every job of the next state follows one of this state.
JobsFollow == \A k \in jobs' : \E j \in jobs : Follows(j, k)

\* An answer makes no new job.
LEMMA AnswerFollows ==
  ASSUME jobs \subseteq Job, NEW r \in Req, Answer(r)
  PROVE  JobsFollow
  BY ResumedFollows DEF Answer, JobsFollow

\* What was told stays told, and a job that is through its cases stays so.
LEMMA FollowsTold ==
  ASSUME NEW j \in Job, NEW k, Follows(j, k), k.st.rep \in Nat
  PROVE  /\ Drained(j.st) => Drained(k.st)
         /\ Drained(j.st) /\ Settled(j.st) => Settled(k.st)
         /\ \A c : c.id \in Nat /\ Told(j.st, c) => Told(k.st, c)
  BY DEF Follows, Advances, Told, Job, JobState

-----------------------------------------------------------------------------
(* Steps that tell nothing. *)

\* The row shows what it showed, and is not accepted by this step.
RowCalm(s) ==
  /\ rows'[s].jid = rows[s].jid /\ rows'[s].cases = rows[s].cases
  /\ rows'[s].status = "AC" => rows[s].status = "AC"

\* No sender gets a run.
NoNewRun == \A c \in Conns : sender'[c].pc = "write" => sender'[c] = sender[c]

\* The web server and the load transaction leave what a row shows alone.
LEMMA OthersCalm ==
  ASSUME TypeInv, NothingBeforeSubmit, NEW s \in Subs,
         \/ rows'[s] = rows[s]
         \/ ~Exists(s) /\ rows'[s] = NewRow
         \/ rows'[s] = ResetForRejudge(rows[s])
         \/ rows'[s] = UsedJidPlusOne(rows[s])
         \/ rows'[s] = UpdateResult(rows[s], 0, "IE")
  PROVE  RowCalm(s)
<1>1. rows[s] \in Row
  BY DEF TypeInv, TypeOK
<1>2. ~Exists(s) => rows[s] = NewRow
  BY DEF NothingBeforeSubmit
<1>3. CASE rows'[s] = rows[s] \/ (~Exists(s) /\ rows'[s] = NewRow)
  BY <1>2, <1>3 DEF RowCalm
<1>4. CASE rows'[s] = ResetForRejudge(rows[s]) \/ rows'[s] = UsedJidPlusOne(rows[s])
  BY <1>1, <1>4 DEF RowCalm, Row, ResetForRejudge, UsedJidPlusOne, WJ
<1>5. CASE rows'[s] = UpdateResult(rows[s], 0, "IE")
  BY <1>1, <1>5 DEF RowCalm, Row, UpdateResult, KeptCases, Stale
<1>. QED  BY <1>3, <1>4, <1>5

\* An accepted total that is there afterwards was there before.
LEMMA CalmSent ==
  ASSUME NEW s \in Subs, NEW jid, RowCalm(s), reqs' \subseteq reqs, AcSent(s, jid)'
  PROVE  AcSent(s, jid)
  BY DEF AcSent, RowCalm

\* Cases are numbered.
LEMMA ReportIds ==
  ASSUME NEW r \in Req
  PROVE  r.sub \in Subs /\ r.jid \in Nat /\ r.rep \in ReportKinds /\ r.rep.id \in Nat
  BY DEF Req, ReportKinds, CaseIds

\* The fields of a stored case.
LEMMA CaseRowIds ==
  ASSUME NEW row \in Row, NEW k \in row.cases
  PROVE  k \in CaseRow /\ k.id \in Nat
  BY DEF Row, CaseRow, CaseIds

\* The fields of a job.
LEMMA JobFields ==
  ASSUME NEW j \in Job
  PROVE  j.sub \in Subs /\ j.jid \in Nat /\ j.st \in JobState /\ j.st.rep \in Nat
  BY DEF Job, JobState

\* A step that sends nothing and stores nothing.
LEMMA CalmStep ==
  ASSUME TypeInv, TypeInv', VerdictInv, \A s \in Subs : RowCalm(s),
         reqs' \subseteq reqs, JobsFollow, NoNewRun
  PROVE  VerdictInv'
<1>1. /\ jobs \subseteq Job
      /\ \A r \in reqs : r.sub \in Subs /\ r.rep.id \in Nat
      /\ \A s \in Subs : \A k \in rows[s].cases : k.id \in Nat
      /\ \A j \in jobs' : j.sub \in Subs /\ j.st.rep \in Nat
  BY ReportIds, CaseRowIds, JobFields DEF TypeInv, TypeOK
<1>2. VerdictsDiffer'
  BY <1>1 DEF VerdictInv, VerdictsDiffer, RowCalm, Verdict, SameRun
<1>3. ASSUME NEW k \in jobs'
      PROVE  /\ Drained(k.st)
             /\ \A r \in reqs' : Verdict(r) /\ SameRun(r, k) => Told(k.st, r.rep)
             /\ \A c \in rows'[k.sub].cases : c.jid = k.jid => Told(k.st, c)
             /\ AcSent(k.sub, k.jid)' => Settled(k.st)
  <2>1. PICK j \in jobs : Follows(j, k)
    BY DEF JobsFollow
  <2>2. k.sub = j.sub /\ k.jid = j.jid /\ k.sub \in Subs
    BY <1>1, <2>1 DEF Follows, SameRun
  <2>3. /\ Drained(k.st) /\ (Settled(j.st) => Settled(k.st))
        /\ \A c : c.id \in Nat /\ Told(j.st, c) => Told(k.st, c)
    BY <1>1, <2>1, FollowsTold DEF VerdictInv, VerdictsTold
  <2>4. \A r \in reqs' : Verdict(r) /\ SameRun(r, k) => Told(k.st, r.rep)
    BY <1>1, <2>2, <2>3 DEF VerdictInv, VerdictsTold, SameRun
  <2>5. \A c \in rows'[k.sub].cases : c.jid = k.jid => Told(k.st, c)
    BY <1>1, <2>2, <2>3 DEF VerdictInv, VerdictsTold, RowCalm
  <2>6. AcSent(k.sub, k.jid)' => Settled(k.st)
    BY <2>2, <2>3, CalmSent DEF VerdictInv, AcceptedWhole
  <2>. QED  BY <2>3, <2>4, <2>5, <2>6
<1>4. VerdictsTold'
  BY <1>3 DEF VerdictsTold, Verdict, SameRun, Drained, Told
<1>5. AcceptedWhole'
  <2>1. \A j \in jobs' : AcSent(j.sub, j.jid)' => Settled(j.st)
    BY <1>3
  <2>2. \A r \in reqs' : Verdict(r) /\ AcSent(r.sub, r.jid)' => r.rep.status = "AC"
    BY <1>1, CalmSent DEF VerdictInv, AcceptedWhole
  <2>3. ASSUME NEW s \in Subs, NEW jid, jid = rows'[s].jid, AcSent(s, jid)'
        PROVE  \A k \in rows'[s].cases : k.status = "AC"
    <3>1. AcSent(s, rows[s].jid) /\ RowCalm(s)
      BY <2>3, CalmSent DEF RowCalm
    <3>. QED  BY <3>1 DEF VerdictInv, AcceptedWhole, RowCalm
  <2>4. \A s \in Subs : AcSent(s, rows[s].jid)' => \A k \in rows'[s].cases : k.status = "AC"
    BY <2>3
  <2>. QED  BY <2>1, <2>2, <2>4 DEF AcceptedWhole, Verdict, Settled
<1>6. RunsUnheard'
  <2>1. \A c \in Conns : sender[c].pc = "write" => sender[c].sub \in Subs
    BY DEF TypeInv, SenderHolds, Dispatching
  <2>. QED  BY <2>1 DEF VerdictInv, RunsUnheard, NoNewRun, RowCalm, SameRun
<1>. QED  BY <1>2, <1>4, <1>5, <1>6 DEF VerdictInv

-----------------------------------------------------------------------------
(* Dispatches. *)

\* The run that the load transaction hands out is ahead of all there are.
LEMMA LoadUnheard ==
  ASSUME TypeInv, TypeInv', NothingBeforeSubmit, JidHandedOut, VerdictInv, NEW c \in Conns,
         SenderLoad(c)
  PROVE  VerdictInv'
<1> DEFINE s == sender[c].sub
<1>1. /\ s \in Subs /\ sender[c].pc = "load" /\ reqs' = reqs /\ jobs' = jobs
      /\ rows' = [rows EXCEPT ![s] = UsedJidPlusOne(@)]
      /\ sender' = [sender EXCEPT ![c].pc = "write", ![c].jid = rows[s].usedJid + 1]
  BY DEF SenderLoad, TypeInv, SenderHolds, Dispatching
<1>2. /\ sender'[c].sub = s /\ sender'[c].jid = rows[s].usedJid + 1
      /\ \A d \in Conns \ {c} : sender'[d] = sender[d]
  BY <1>1 DEF TypeInv, TypeOK, Sender
<1>3. \A t \in Subs : RowCalm(t)
  BY <1>1, OthersCalm DEF TypeInv, TypeOK
<1>4. JobsFollow
  BY <1>1, FollowsItself DEF JobsFollow, TypeInv, TypeOK
<1>5. /\ \A r \in reqs : r.sub \in Subs /\ r.jid \in Nat /\ r.jid <= rows[r.sub].usedJid
      /\ \A t \in Subs : rows[t].usedJid \in Nat /\ rows[t].jid \in Nat
                         /\ rows[t].jid <= rows[t].usedJid
  BY DEF TypeInv, TypeOK, Req, Row, JidHandedOut
<1> HIDE DEF s
<1>6. RunsUnheard'
  <2> SUFFICES ASSUME NEW d \in Conns, sender'[d].pc = "write"
               PROVE  /\ \A r \in reqs' : ~SameRun(r, sender'[d])
                      /\ rows'[sender'[d].sub].jid # sender'[d].jid
    BY DEF RunsUnheard, SameRun
  <2>1. CASE d = c
    <3>1. \A r \in reqs : r.sub = s => r.jid # rows[s].usedJid + 1
      BY <1>1, <1>5
    <3>2. rows'[s].jid # rows[s].usedJid + 1
      BY <1>1, <1>3, <1>5 DEF RowCalm
    <3>. QED  BY <1>1, <1>2, <2>1, <3>1, <3>2 DEF SameRun
  <2>2. CASE d # c
    <3>1. sender[d].sub \in Subs /\ sender'[d] = sender[d]
      BY <1>2, <2>2 DEF TypeInv, SenderHolds, Dispatching
    <3>2. rows'[sender[d].sub].jid = rows[sender[d].sub].jid
      BY <1>3, <3>1 DEF RowCalm
    <3>. QED  BY <1>1, <3>1, <3>2 DEF VerdictInv, RunsUnheard
  <2>. QED  BY <2>1, <2>2
<1>7. /\ VerdictsDiffer' /\ VerdictsTold' /\ AcceptedWhole'
  <2>1. \A t \in Subs : rows'[t].jid = rows[t].jid /\ rows'[t].cases = rows[t].cases
                        /\ rows'[t].status = rows[t].status
    <3>1. rows[s] \in Row /\ \A t \in Subs \ {s} : rows'[t] = rows[t]
      BY <1>1 DEF TypeInv, TypeOK
    <3>2. rows'[s] = [rows[s] EXCEPT !.usedJid = rows[s].usedJid + 1]
      BY <1>1 DEF TypeInv, TypeOK, UsedJidPlusOne
    <3>3. rows'[s].jid = rows[s].jid /\ rows'[s].cases = rows[s].cases /\ rows'[s].status = rows[s].status
      BY <3>1, <3>2 DEF Row
    <3>. QED  BY <3>1, <3>3
  <2>2. \A t \in Subs : \A jid : AcSent(t, jid)' <=> AcSent(t, jid)
    BY <1>1, <2>1 DEF AcSent
  <2>3. VerdictsDiffer'
    BY <1>1, <1>5, <2>1 DEF VerdictInv, VerdictsDiffer, Verdict, SameRun
  <2>4. \A j \in jobs : j.sub \in Subs
    BY DEF TypeInv, TypeOK, Job
  <2>5. VerdictsTold'
    BY <1>1, <1>5, <2>1, <2>4 DEF VerdictInv, VerdictsTold, Verdict, SameRun, Drained, Told
  <2>6. AcceptedWhole'
    BY <1>1, <1>5, <2>1, <2>2, <2>4 DEF VerdictInv, AcceptedWhole, Verdict, Settled
  <2>. QED  BY <2>3, <2>5, <2>6
<1>. QED  BY <1>6, <1>7 DEF VerdictInv

\* A job that starts has told nothing, and nothing of its run is around.
LEMMA WriteTold ==
  ASSUME TypeInv, TypeInv', CasesOfRun, VerdictInv, NEW c \in Conns, SenderWrite(c)
  PROVE  VerdictInv'
<1> DEFINE n == NewJob(sender[c].sub, sender[c].jid, c)
<1>1. /\ sender[c].pc = "write" /\ sender[c].sub \in Subs
      /\ jobs' = jobs \cup {n} /\ reqs' = reqs /\ rows' = rows
      /\ sender' = [sender EXCEPT ![c] = Idle("sel")]
  BY DEF SenderWrite, TypeInv, SenderHolds, Dispatching
<1>2. n.sub = sender[c].sub /\ n.jid = sender[c].jid /\ n.st = NewState
  BY DEF NewJob
<1> HIDE DEF n
<1>3. Drained(n.st)
  BY <1>2 DEF Drained, NewState
<1>4. \A r \in reqs : ~SameRun(r, n)
  BY <1>1, <1>2 DEF VerdictInv, RunsUnheard, SameRun
<1>5. rows[n.sub].jid # n.jid /\ \A k \in rows[n.sub].cases : k.jid # n.jid
  BY <1>1, <1>2 DEF VerdictInv, RunsUnheard, CasesOfRun
<1>6. ~AcSent(n.sub, n.jid)
  BY <1>4, <1>5 DEF AcSent, SameRun
<1>7. NoNewRun
  BY <1>1 DEF NoNewRun, Idle, TypeInv, TypeOK
<1>8. VerdictsDiffer'
  BY <1>1 DEF VerdictInv, VerdictsDiffer, Verdict, SameRun
<1>9. VerdictsTold'
  BY <1>1, <1>3, <1>4, <1>5 DEF VerdictInv, VerdictsTold, Verdict, SameRun, Drained, Told
<1>10. \A t, jid : AcSent(t, jid)' <=> AcSent(t, jid)
  BY <1>1 DEF AcSent
<1>11. AcceptedWhole'
  BY <1>1, <1>6, <1>10 DEF VerdictInv, AcceptedWhole, Verdict, Settled
<1>12. RunsUnheard'
  BY <1>1, <1>7 DEF VerdictInv, RunsUnheard, NoNewRun, SameRun
<1>. QED  BY <1>8, <1>9, <1>11, <1>12 DEF VerdictInv

-----------------------------------------------------------------------------
(* Reports on their way. *)

\* Job j sends q and goes on as k.
Sends(j, q, k) ==
  /\ reqs' = reqs \cup {q} /\ SameRun(q, j) /\ Follows(j, k)
  /\ \A l \in jobs' : l \in jobs \ {j} \/ l = k
  /\ UNCHANGED <<rows, sender>>

\* What is known of a report when it is sent.
SentTruly(j, q, k) ==
  /\ Verdict(q) => ~Settled(j.st) /\ Told(k.st, q.rep) /\ 2 * q.rep.id + 1 >= j.st.rep
  /\ q.rep.type = "result" /\ q.rep.status = "AC" => Settled(j.st) /\ j.st.worst = "AC"

\* A report that is sent truly keeps the invariant: a verdict is of a case that
\* was not told before, and an accepted total comes last.
LEMMA SendTold ==
  ASSUME TypeInv, TypeInv', RunsUnique, CasesOfRun, VerdictInv, NEW j \in jobs, NEW q, NEW k,
         Sends(j, q, k), SentTruly(j, q, k)
  PROVE  VerdictInv'
<1>1. /\ reqs' = reqs \cup {q} /\ q.sub = j.sub /\ q.jid = j.jid
      /\ rows' = rows /\ sender' = sender /\ q \in reqs'
      /\ k.sub = j.sub /\ k.jid = j.jid
  BY DEF Sends, SameRun, Follows
<1>2. /\ j \in Job /\ j.sub \in Subs /\ j.st.rep \in Nat
      /\ \A r \in reqs' : r.sub \in Subs /\ r.rep.id \in Nat
      /\ \A s \in Subs : \A c \in rows[s].cases : c.id \in Nat
      /\ \A l \in jobs' : l.sub \in Subs /\ l.st.rep \in Nat
      /\ \A l \in jobs : l.sub \in Subs
  BY ReportIds, CaseRowIds, JobFields DEF TypeInv, TypeOK
<1>3. \A l \in jobs' : SameRun(l, j) => l = k
  BY DEF Sends, RunsUnique, SameRun
<1>4. /\ Drained(j.st)
      /\ \A r \in reqs : Verdict(r) /\ SameRun(r, j) => Told(j.st, r.rep)
      /\ \A c \in rows[j.sub].cases : c.jid = j.jid => Told(j.st, c)
  BY DEF VerdictInv, VerdictsTold
<1>5. k \in jobs' =>
        /\ Drained(k.st) /\ (Settled(j.st) => Settled(k.st))
        /\ \A c : c.id \in Nat /\ Told(j.st, c) => Told(k.st, c)
  BY <1>2, <1>4, FollowsTold DEF Sends
<1>6. Verdict(q) => /\ \A r \in reqs : Verdict(r) /\ SameRun(r, j) => r.rep.id # q.rep.id
                    /\ \A c \in rows[j.sub].cases : c.jid = j.jid => c.id # q.rep.id
  <2> SUFFICES ASSUME Verdict(q)
               PROVE  /\ \A r \in reqs : Verdict(r) /\ SameRun(r, j) => r.rep.id # q.rep.id
                      /\ \A c \in rows[j.sub].cases : c.jid = j.jid => c.id # q.rep.id
    OBVIOUS
  <2>1. 2 * q.rep.id + 1 >= j.st.rep /\ q.rep.id \in Nat /\ j.st.rep \in Nat
    BY <1>1, <1>2 DEF SentTruly
  <2>2. \A c : c.id = q.rep.id => ~Told(j.st, c)
    BY <2>1 DEF Told
  <2>. QED  BY <1>4, <2>2
<1>7. VerdictsDiffer'
  <2>1. \A r, p \in reqs' : Verdict(r) /\ Verdict(p) /\ SameRun(r, p)
                            /\ r.rep.id = p.rep.id => r = p
    BY <1>1, <1>6 DEF VerdictInv, VerdictsDiffer, SameRun
  <2>2. \A r \in reqs' : Verdict(r) =>
          \A c \in rows[r.sub].cases : c.jid = r.jid => c.id # r.rep.id
    BY <1>1, <1>6 DEF VerdictInv, VerdictsDiffer
  <2>. QED  BY <1>1, <2>1, <2>2 DEF VerdictInv, VerdictsDiffer, Verdict, SameRun
<1>8. \A l \in jobs' : l # k => l \in jobs /\ ~SameRun(l, j)
  BY <1>3 DEF Sends
<1>9. VerdictsTold'
  <2> SUFFICES ASSUME NEW l \in jobs'
               PROVE  /\ Drained(l.st)
                      /\ \A r \in reqs' : Verdict(r) /\ SameRun(r, l) => Told(l.st, r.rep)
                      /\ \A c \in rows[l.sub].cases : c.jid = l.jid => Told(l.st, c)
    BY <1>1 DEF VerdictsTold, Verdict, SameRun, Drained, Told
  <2>1. CASE l # k
    BY <1>1, <1>8, <2>1 DEF VerdictInv, VerdictsTold, SameRun
  <2>2. CASE l = k
    <3>1. \A r \in reqs : Verdict(r) /\ SameRun(r, k) => Told(k.st, r.rep)
      BY <1>1, <1>2, <1>4, <1>5, <2>2 DEF SameRun
    <3>2. \A c \in rows[k.sub].cases : c.jid = k.jid => Told(k.st, c)
      BY <1>1, <1>2, <1>4, <1>5, <2>2
    <3>3. Verdict(q) => Told(k.st, q.rep)
      BY DEF SentTruly
    <3>. QED  BY <1>1, <1>5, <2>2, <3>1, <3>2, <3>3
  <2>. QED  BY <2>1, <2>2
<1>10. ASSUME NEW s, NEW jid, AcSent(s, jid)', ~AcSent(s, jid)
       PROVE  s = j.sub /\ jid = j.jid /\ Settled(j.st) /\ j.st.worst = "AC"
  BY <1>1, <1>10 DEF AcSent, SentTruly
<1>11. AcceptedWhole'
  <2>1. ASSUME NEW l \in jobs', AcSent(l.sub, l.jid)' PROVE Settled(l.st)
    <3>1. CASE l # k
      BY <1>8, <1>10, <2>1, <3>1 DEF VerdictInv, AcceptedWhole, SameRun
    <3>2. CASE l = k
      <4>1. Settled(j.st)
        BY <1>1, <1>10, <2>1, <3>2 DEF VerdictInv, AcceptedWhole
      <4>. QED  BY <1>5, <3>2, <4>1
    <3>. QED  BY <3>1, <3>2
  <2>2. ASSUME NEW r \in reqs', Verdict(r), AcSent(r.sub, r.jid)' PROVE r.rep.status = "AC"
    <3>1. CASE r \in reqs /\ AcSent(r.sub, r.jid)
      BY <2>2, <3>1 DEF VerdictInv, AcceptedWhole
    <3>2. CASE r \in reqs /\ ~AcSent(r.sub, r.jid)
      <4>1. SameRun(r, j) /\ j.st.worst = "AC"
        BY <1>10, <2>2, <3>2 DEF SameRun
      <4>. QED  BY <1>4, <2>2, <3>2, <4>1 DEF Told
    <3>3. CASE r = q
      <4>1. ~Settled(j.st)
        BY <2>2, <3>3 DEF SentTruly
      <4>. QED  BY <1>1, <1>10, <2>2, <3>3, <4>1 DEF VerdictInv, AcceptedWhole
    <3>. QED  BY <1>1, <3>1, <3>2, <3>3
  <2>3. ASSUME NEW s \in Subs, AcSent(s, rows[s].jid)', NEW c \in rows[s].cases
        PROVE  c.status = "AC"
    <3>1. CASE AcSent(s, rows[s].jid)
      BY <3>1 DEF VerdictInv, AcceptedWhole
    <3>2. CASE ~AcSent(s, rows[s].jid)
      <4>1. s = j.sub /\ rows[s].jid = j.jid /\ j.st.worst = "AC"
        BY <1>1, <1>10, <2>3, <3>2
      <4>2. c.jid = rows[s].jid
        BY DEF CasesOfRun
      <4>. QED  BY <1>4, <4>1, <4>2 DEF Told
    <3>. QED  BY <3>1, <3>2
  <2>. QED  BY <1>1, <2>1, <2>2, <2>3 DEF AcceptedWhole, Verdict, Settled
<1>12. RunsUnheard'
  <2>1. \A c \in Conns : sender[c].pc = "write" => ~SameRun(q, sender[c])
    BY <1>1 DEF RunsUnique, SameRun
  <2>. QED  BY <1>1, <2>1 DEF VerdictInv, RunsUnheard, SameRun
<1>. QED  BY <1>7, <1>9, <1>11, <1>12 DEF VerdictInv

\* A job reports the start of a case or a verdict ...
LEMMA CaseToldTruly ==
  ASSUME NEW j \in Job, NEW v \in Statuses, CanReportCase(j.st, v), NEW q, NEW k,
         q.rep = NextCaseReport(j.st, v), k.st = CaseReported(j.st, v)
  PROVE  SentTruly(j, q, k)
<1>1. /\ j.st.rep \in Nat /\ j.st.dl \in Nat /\ j.st.worst \in CaseVerdicts
      /\ v \in IF j.st.rep % 2 = 0 THEN {JG} ELSE CaseVerdicts
      /\ q.rep.id = j.st.rep \div 2 /\ q.rep.type = "case" /\ q.rep.status = v
  BY DEF Job, JobState, CanReportCase, NextCaseReport, CaseReport
<1>2. /\ k.st.rep = j.st.rep + 1
      /\ k.st.worst = IF v = JG THEN j.st.worst ELSE Worse(j.st.worst, v)
  BY DEF Job, JobState, CaseReported
<1>3. ~Settled(j.st)
  BY <1>1 DEF CanReportCase, RunStatuses, Settled
<1>4. ASSUME v # JG
      PROVE  Told(k.st, q.rep) /\ 2 * q.rep.id + 1 >= j.st.rep
  <2>1. j.st.rep % 2 # 0
    BY <1>1, <1>4
  <2>2. 2 * (j.st.rep \div 2) + 1 = j.st.rep
    BY <1>1, <2>1
  <2>3. k.st.worst = "AC" => v = "AC"
    BY <1>2, <1>4 DEF Worse
  <2>. QED  BY <1>1, <1>2, <2>2, <2>3 DEF Told
<1>. QED  BY <1>1, <1>3, <1>4 DEF SentTruly, Verdict

\* ... a total that is accepted only when the worst verdict is ...
LEMMA TotalToldTruly ==
  ASSUME NEW j \in Job, CanReportTotal(j.st), NEW q, NEW k, q.rep = TotalReport(j.st)
  PROVE  SentTruly(j, q, k)
<1>1. /\ q.rep.type = "result"
      /\ q.rep.status = IF j.st.total = "cases" THEN j.st.worst ELSE j.st.total
      /\ j.st.total \in RunResults
  BY DEF TotalReport, ResultReport, CanReportTotal
<1>. QED  BY <1>1 DEF SentTruly, Verdict, Settled, CanReportTotal, RunStatuses, RunResults

\* ... or an internal error.
LEMMA ErrorToldTruly ==
  ASSUME NEW j, NEW q, NEW k, q.rep \in {RefusedReport, DownloadFailedReport}
  PROVE  SentTruly(j, q, k)
  BY DEF SentTruly, Verdict, RefusedReport, DownloadFailedReport, ResultReport

\* The steps of a job that send a report.
LEMMA ReportingKeeps ==
  ASSUME TypeInv, TypeInv', RunsUnique, CasesOfRun, VerdictInv, NEW j \in jobs,
         JobRefused(j) \/ JobDownloadError(j) \/ JobReportCase(j) \/ JobReportTotal(j)
  PROVE  VerdictInv'
<1> USE DEF jobRest
<1>1. jobs \subseteq Job /\ j \in Job /\ j.st \in JobState
  BY DEF TypeInv, TypeOK, Job
<1>2. ASSUME NEW st, NEW rep, JobGoesOn(j, st), Send(j, rep), Advances(j.st, st),
             UNCHANGED <<rows, sender>>,
             \A q, k : q.rep = rep /\ k.st = st => SentTruly(j, q, k)
      PROVE  VerdictInv'
  <2> DEFINE q == [sub |-> j.sub, jid |-> j.jid, awaited |-> TRUE, rep |-> rep]
             k == [j EXCEPT !.st = st]
  <2>1. q.sub = j.sub /\ q.jid = j.jid /\ q.rep = rep /\ reqs' = reqs \cup {q}
    BY <1>2 DEF Send
  <2>2. k.st = st /\ Follows(j, k) /\ \A l \in jobs' : l \in jobs \ {j} \/ l = k
    BY <1>1, <1>2, GoesOnFollows DEF Job
  <2> HIDE DEF q, k
  <2>3. SentTruly(j, q, k)
    BY <1>2, <2>1, <2>2
  <2>4. Sends(j, q, k)
    BY <1>2, <2>1, <2>2 DEF Sends, SameRun
  <2>. QED  BY <2>3, <2>4, SendTold
<1>3. CASE JobRefused(j)
  <2>1. /\ CanRefuse(j.st) /\ JobGoesOn(j, Refused(j.st)) /\ Send(j, RefusedReport)
        /\ UNCHANGED <<rows, sender>>
    BY <1>3 DEF JobRefused
  <2>2. Advances(j.st, Refused(j.st))
    BY <1>1, <2>1, StepsAdvance
  <2>. QED  BY <1>2, <2>1, <2>2, ErrorToldTruly
<1>4. CASE JobDownloadError(j)
  <2>1. /\ CanDownload(j.st) /\ JobGoesOn(j, DownloadFailed(j.st))
        /\ Send(j, DownloadFailedReport) /\ UNCHANGED <<rows, sender>>
    BY <1>4 DEF JobDownloadError
  <2>2. Advances(j.st, DownloadFailed(j.st))
    BY <1>1, <2>1, StepsAdvance
  <2>. QED  BY <1>2, <2>1, <2>2, ErrorToldTruly
<1>5. CASE JobReportCase(j)
  <2>1. PICK v \in Statuses :
          /\ CanReportCase(j.st, v) /\ JobGoesOn(j, CaseReported(j.st, v))
          /\ Send(j, NextCaseReport(j.st, v))
    BY <1>5 DEF JobReportCase
  <2>2. Advances(j.st, CaseReported(j.st, v))
    BY <1>1, <2>1, StepsAdvance
  <2>3. \A q, k : q.rep = NextCaseReport(j.st, v) /\ k.st = CaseReported(j.st, v)
                    => SentTruly(j, q, k)
    BY <1>1, <2>1, CaseToldTruly
  <2>. QED  BY <1>2, <1>5, <2>1, <2>2, <2>3 DEF JobReportCase
<1>6. CASE JobReportTotal(j)
  <2>1. CASE MaySendTotal(j.st) /\ JobGoesOn(j, TotalReported(j.st)) /\ Send(j, TotalReport(j.st))
    <3>1. CanReportTotal(j.st) /\ Advances(j.st, TotalReported(j.st))
      BY <1>1, <2>1, StepsAdvance DEF MaySendTotal
    <3>2. \A q, k : q.rep = TotalReport(j.st) => SentTruly(j, q, k)
      BY <1>1, <3>1, TotalToldTruly
    <3>. QED  BY <1>2, <1>6, <2>1, <3>1, <3>2 DEF JobReportTotal
  <2>2. CASE JobGoesOn(j, TotalSkipped(j.st)) /\ UNCHANGED reqs
    <3>1. Advances(j.st, TotalSkipped(j.st))
      BY <1>1, StepsAdvance
    <3>2. /\ Follows(j, [j EXCEPT !.st = TotalSkipped(j.st)])
          /\ \A k \in jobs' : k \in jobs \ {j} \/ k = [j EXCEPT !.st = TotalSkipped(j.st)]
      BY <1>1, <2>2, <3>1, GoesOnFollows
    <3>3. JobsFollow
      BY <1>1, <3>2, FollowsItself DEF JobsFollow
    <3>. QED  BY <1>6, <2>2, <3>3, CalmStep DEF JobReportTotal, RowCalm, NoNewRun
  <2>. QED  BY <1>6, <2>1, <2>2 DEF JobReportTotal
<1>. QED  BY <1>3, <1>4, <1>5, <1>6

\* A request that nobody waits for any more is the same report.
LEMMA DetachKeeps ==
  ASSUME TypeInv, TypeInv', VerdictInv, NEW r \in reqs, DetachReport(r)
  PROVE  VerdictInv'
<1> DEFINE d == [r EXCEPT !.awaited = FALSE]
<1>1. reqs' = (reqs \ {r}) \cup {d} /\ rows' = rows /\ sender' = sender /\ Answer(r)
  BY DEF DetachReport, connVars
<1>2. d.sub = r.sub /\ d.jid = r.jid /\ d.rep = r.rep
  BY DEF TypeInv, TypeOK, Req
<1> HIDE DEF d
<1>3. /\ jobs \subseteq Job /\ r \in Req
      /\ \A q \in reqs : q.rep.id \in Nat
      /\ \A s \in Subs : \A c \in rows[s].cases : c.id \in Nat
      /\ \A j \in jobs' : j.sub \in Subs /\ j.st.rep \in Nat
  BY ReportIds, CaseRowIds, JobFields DEF TypeInv, TypeOK
<1>4. JobsFollow
  BY <1>1, <1>3, AnswerFollows
<1>5. \A s, jid : AcSent(s, jid)' <=> AcSent(s, jid)
  BY <1>1, <1>2 DEF AcSent
<1>6. VerdictsDiffer'
  <2>1. \A q \in reqs : Verdict(q) /\ Verdict(r) /\ SameRun(q, r) /\ q.rep.id = r.rep.id => q = r
    BY DEF VerdictInv, VerdictsDiffer
  <2>2. \A p, q \in reqs' : Verdict(p) /\ Verdict(q) /\ SameRun(p, q)
                            /\ p.rep.id = q.rep.id => p = q
    <3> SUFFICES ASSUME NEW p \in reqs', NEW q \in reqs', Verdict(p), Verdict(q),
                        SameRun(p, q), p.rep.id = q.rep.id
                 PROVE  p = q
      OBVIOUS
    <3>1. CASE p \in reqs \ {r} /\ q \in reqs \ {r}
      BY <3>1 DEF VerdictInv, VerdictsDiffer
    <3>2. CASE p \in reqs \ {r} /\ q = d
      BY <1>2, <2>1, <3>2 DEF SameRun, Verdict
    <3>3. CASE q \in reqs \ {r} /\ p = d
      BY <1>2, <2>1, <3>3 DEF SameRun, Verdict
    <3>. QED  BY <1>1, <3>1, <3>2, <3>3
  <2>3. \A q \in reqs' : Verdict(q) =>
          \A c \in rows[q.sub].cases : c.jid = q.jid => c.id # q.rep.id
    BY <1>1, <1>2 DEF VerdictInv, VerdictsDiffer, Verdict
  <2>. QED  BY <1>1, <2>2, <2>3 DEF VerdictInv, VerdictsDiffer, Verdict, SameRun
<1>7. ASSUME NEW k \in jobs'
      PROVE  /\ Drained(k.st)
             /\ \A q \in reqs' : Verdict(q) /\ SameRun(q, k) => Told(k.st, q.rep)
             /\ \A c \in rows[k.sub].cases : c.jid = k.jid => Told(k.st, c)
             /\ AcSent(k.sub, k.jid) => Settled(k.st)
  <2>1. PICK j \in jobs : Follows(j, k)
    BY <1>4 DEF JobsFollow
  <2>2. k.sub = j.sub /\ k.jid = j.jid
    BY <2>1 DEF Follows, SameRun
  <2>3. /\ Drained(k.st) /\ (Settled(j.st) => Settled(k.st))
        /\ \A c : c.id \in Nat /\ Told(j.st, c) => Told(k.st, c)
    BY <1>3, <2>1, FollowsTold DEF VerdictInv, VerdictsTold
  <2>4. \A q \in reqs : Verdict(q) /\ SameRun(q, k) => Told(k.st, q.rep)
    BY <1>3, <2>2, <2>3 DEF VerdictInv, VerdictsTold, SameRun
  <2>5. \A q \in reqs' : Verdict(q) /\ SameRun(q, k) => Told(k.st, q.rep)
    BY <1>1, <1>2, <2>4 DEF SameRun, Verdict
  <2>6. \A c \in rows[k.sub].cases : c.jid = k.jid => Told(k.st, c)
    BY <1>3, <2>2, <2>3 DEF VerdictInv, VerdictsTold
  <2>7. AcSent(k.sub, k.jid) => Settled(k.st)
    BY <2>2, <2>3 DEF VerdictInv, AcceptedWhole
  <2>. QED  BY <2>3, <2>5, <2>6, <2>7
<1>8. VerdictsTold'
  BY <1>1, <1>7 DEF VerdictsTold, Verdict, SameRun, Drained, Told
<1>9. AcceptedWhole'
  <2>1. \A j \in jobs' : AcSent(j.sub, j.jid)' => Settled(j.st)
    BY <1>5, <1>7
  <2>2. \A q \in reqs' : Verdict(q) /\ AcSent(q.sub, q.jid)' => q.rep.status = "AC"
    BY <1>1, <1>2, <1>5 DEF VerdictInv, AcceptedWhole, Verdict
  <2>. QED  BY <1>1, <1>5, <2>1, <2>2 DEF VerdictInv, AcceptedWhole, Verdict, Settled
<1>10. RunsUnheard'
  BY <1>1, <1>2 DEF VerdictInv, RunsUnheard, SameRun
<1>. QED  BY <1>6, <1>8, <1>9, <1>10 DEF VerdictInv

-----------------------------------------------------------------------------
(* Reports that are stored. *)

\* What a report does to its row.
LEMMA ReportedRow ==
  ASSUME NEW row \in Row, NEW r \in Req, NEW new, new = Reported(row, r)
  PROVE  \/ new = row
         \/ /\ r.rep.type = "case" /\ new.jid = r.jid /\ new.status = JG
            /\ new.cases = KeptCases(row, r.jid)
                 \cup {c \in {[jid |-> r.jid, id |-> r.rep.id, status |-> r.rep.status]} :
                         Verdict(r)}
         \/ /\ r.rep.type = "result" /\ new.jid = r.jid /\ new.status = r.rep.status
            /\ new.cases = KeptCases(row, r.jid)
<1>1. r.rep.type \in {"case", "result"}
  BY DEF Req, ReportKinds
<1>2. CASE r.rep.type = "case"
  BY <1>2 DEF Reported, UpdateTestCase, Row, Verdict
<1>3. CASE r.rep.type = "result"
  BY <1>3 DEF Reported, UpdateResult, Row
<1>. QED  BY <1>1, <1>2, <1>3

\* A report that is stored: its case joins the others of its run, of which none
\* is the same, or it is accepted as the whole run is.
LEMMA HandleKeeps ==
  ASSUME TypeInv, TypeInv', CasesOfRun, VerdictInv, NEW r \in reqs, HandleReport(r)
  PROVE  VerdictInv'
<1> DEFINE s == r.sub
           new == [jid |-> r.jid, id |-> r.rep.id, status |-> r.rep.status]
<1>1. /\ reqs' = reqs \ {r} /\ sender' = sender /\ Answer(r)
      /\ r \in Req /\ s \in Subs /\ rows[s] \in Row /\ jobs \subseteq Job
      /\ \A t \in Subs \ {s} : rows'[t] = rows[t]
      /\ rows'[s] = Reported(rows[s], r)
  BY DEF HandleReport, connVars, TypeInv, TypeOK, Req
<1>2. JobsFollow /\ NoNewRun
  BY <1>1, AnswerFollows DEF NoNewRun
<1>3. CASE rows'[s] = rows[s]
  <2>1. \A t \in Subs : RowCalm(t)
    BY <1>1, <1>3 DEF RowCalm
  <2>. QED  BY <1>1, <1>2, <2>1, CalmStep
<1>4. CASE /\ rows'[s].jid = r.jid
           /\ \/ rows'[s].status = JG
              \/ r.rep.type = "result" /\ rows'[s].status = r.rep.status
           /\ rows'[s].cases = KeptCases(rows[s], r.jid) \cup {c \in {new} : Verdict(r)}
  <2>0. /\ \A q \in reqs : q.sub \in Subs /\ q.rep.id \in Nat /\ q.jid \in Nat
        /\ \A t \in Subs : \A c \in rows[t].cases : c.id \in Nat
        /\ \A k \in jobs' : k.sub \in Subs /\ k.st.rep \in Nat
    BY ReportIds, CaseRowIds, JobFields DEF TypeInv, TypeOK
  <2>1. \A c \in rows'[s].cases :
          \/ c \in rows[s].cases /\ rows[s].jid = r.jid /\ c.jid = r.jid
          \/ c = new /\ Verdict(r)
    <3>1. \A c \in KeptCases(rows[s], r.jid) : c \in rows[s].cases /\ rows[s].jid >= r.jid
      BY <1>1 DEF KeptCases, Row, Req
    <3>2. rows[s].jid > r.jid => rows'[s] = rows[s]
      BY <1>1 DEF Reported, UpdateTestCase, UpdateResult, Stale
    <3>3. ~(rows[s].jid > r.jid)
      BY <1>1, <1>4, <3>2 DEF Row, Req
    <3>4. \A c \in KeptCases(rows[s], r.jid) : c \in rows[s].cases /\ rows[s].jid = r.jid
      BY <1>1, <3>1, <3>3 DEF Row, Req
    <3>. QED  BY <1>1, <1>4, <3>4 DEF CasesOfRun
  <2>2. new.jid = r.jid /\ new.id = r.rep.id /\ new.status = r.rep.status
    OBVIOUS
  <2> HIDE DEF new
  <2>3. \A t \in Subs : \A jid : AcSent(t, jid)' => AcSent(t, jid)
    <3> SUFFICES ASSUME NEW t \in Subs, NEW jid, AcSent(t, jid)' PROVE AcSent(t, jid)
      OBVIOUS
    <3>1. CASE \E q \in reqs' : /\ q.sub = t /\ q.jid = jid
                                /\ q.rep.type = "result" /\ q.rep.status = "AC"
      BY <1>1, <3>1 DEF AcSent
    <3>2. CASE rows'[t].jid = jid /\ rows'[t].status = "AC" /\ t # s
      BY <1>1, <3>2 DEF AcSent
    <3>3. CASE rows'[t].jid = jid /\ rows'[t].status = "AC" /\ t = s
      BY <1>4, <3>3 DEF AcSent, JG
    <3>. QED  BY <3>1, <3>2, <3>3 DEF AcSent
  <2>4. VerdictsDiffer'
    <3>1. \A p, q \in reqs' : Verdict(p) /\ Verdict(q) /\ SameRun(p, q)
                              /\ p.rep.id = q.rep.id => p = q
      BY <1>1 DEF VerdictInv, VerdictsDiffer
    <3>2. ASSUME NEW q \in reqs', Verdict(q), NEW c \in rows'[q.sub].cases, c.jid = q.jid
          PROVE  c.id # q.rep.id
      <4>1. CASE c = new /\ Verdict(r) /\ q.sub = s
        BY <1>1, <2>2, <3>2, <4>1 DEF VerdictInv, VerdictsDiffer, SameRun
      <4>2. CASE c \in rows[q.sub].cases
        BY <1>1, <3>2, <4>2 DEF VerdictInv, VerdictsDiffer
      <4>. QED  BY <1>1, <2>0, <2>1, <4>1, <4>2
    <3>3. ASSUME NEW t \in Subs, NEW k \in rows'[t].cases, NEW l \in rows'[t].cases, k.id = l.id
          PROVE  k = l
      <4>1. CASE k \in rows[t].cases /\ l \in rows[t].cases
        BY <3>3, <4>1 DEF VerdictInv, VerdictsDiffer
      <4>2. ASSUME t = s, NEW c \in rows[s].cases, c.jid = r.jid, Verdict(r) PROVE c.id # new.id
        BY <2>2, <4>2 DEF VerdictInv, VerdictsDiffer
      <4>. QED  BY <1>1, <2>1, <3>3, <4>1, <4>2
    <3>. QED  BY <3>1, <3>2, <3>3 DEF VerdictsDiffer, Verdict, SameRun
  <2>5. ASSUME NEW k \in jobs'
        PROVE  /\ Drained(k.st)
               /\ \A q \in reqs' : Verdict(q) /\ SameRun(q, k) => Told(k.st, q.rep)
               /\ \A c \in rows'[k.sub].cases : c.jid = k.jid => Told(k.st, c)
               /\ AcSent(k.sub, k.jid)' => Settled(k.st)
    <3>1. PICK j \in jobs : Follows(j, k)
      BY <1>2 DEF JobsFollow
    <3>2. k.sub = j.sub /\ k.jid = j.jid /\ k.sub \in Subs
      BY <2>0, <3>1 DEF Follows, SameRun
    <3>3. /\ Drained(k.st) /\ (Settled(j.st) => Settled(k.st))
          /\ \A c : c.id \in Nat /\ Told(j.st, c) => Told(k.st, c)
      BY <1>1, <2>0, <3>1, FollowsTold DEF VerdictInv, VerdictsTold
    <3>4. \A q \in reqs : Verdict(q) /\ SameRun(q, k) => Told(k.st, q.rep)
      BY <2>0, <3>2, <3>3 DEF VerdictInv, VerdictsTold, SameRun
    <3>5. \A c \in rows[k.sub].cases : c.jid = k.jid => Told(k.st, c)
      BY <2>0, <3>2, <3>3 DEF VerdictInv, VerdictsTold
    <3>6. k.sub = s /\ k.jid = r.jid /\ Verdict(r) => Told(k.st, new)
      BY <2>2, <3>4 DEF SameRun, Told
    <3>7. \A c \in rows'[k.sub].cases : c.jid = k.jid => Told(k.st, c)
      BY <1>1, <2>1, <2>2, <3>2, <3>5, <3>6
    <3>8. AcSent(k.sub, k.jid)' => Settled(k.st)
      BY <2>3, <3>2, <3>3 DEF VerdictInv, AcceptedWhole
    <3>. QED  BY <1>1, <3>3, <3>4, <3>7, <3>8
  <2>6. VerdictsTold'
    BY <2>5 DEF VerdictsTold, Verdict, SameRun, Drained, Told
  <2>7. AcceptedWhole'
    <3>1. \A q \in reqs' : Verdict(q) /\ AcSent(q.sub, q.jid)' => q.rep.status = "AC"
      BY <1>1, <2>0, <2>3 DEF VerdictInv, AcceptedWhole
    <3>2. ASSUME NEW t \in Subs, NEW jid, jid = rows'[t].jid, AcSent(t, jid)',
                 NEW c \in rows'[t].cases
          PROVE  c.status = "AC"
      <4>1. AcSent(t, jid)
        BY <2>3, <3>2
      <4>2. CASE t # s
        BY <1>1, <3>2, <4>1, <4>2 DEF VerdictInv, AcceptedWhole
      <4>3. CASE t = s /\ c = new /\ Verdict(r)
        BY <1>4, <2>2, <3>2, <4>1, <4>3 DEF VerdictInv, AcceptedWhole
      <4>4. CASE t = s /\ c \in rows[s].cases /\ rows[s].jid = r.jid
        BY <1>1, <1>4, <3>2, <4>1, <4>4 DEF VerdictInv, AcceptedWhole
      <4>. QED  BY <2>1, <3>2, <4>2, <4>3, <4>4
    <3>3. \A t \in Subs : AcSent(t, rows[t].jid)' => \A k \in rows'[t].cases : k.status = "AC"
      BY <3>2
    <3>. QED  BY <2>5, <3>1, <3>3 DEF AcceptedWhole, Verdict, Settled
  <2>8. RunsUnheard'
    <3> SUFFICES ASSUME NEW c \in Conns, sender[c].pc = "write"
                 PROVE  /\ \A q \in reqs' : ~SameRun(q, sender[c])
                        /\ rows'[sender[c].sub].jid # sender[c].jid
      BY <1>1 DEF RunsUnheard, SameRun
    <3>1. sender[c].sub \in Subs
      BY DEF TypeInv, SenderHolds, Dispatching
    <3>2. /\ \A q \in reqs : ~SameRun(q, sender[c])
          /\ rows[sender[c].sub].jid # sender[c].jid
      BY DEF VerdictInv, RunsUnheard
    <3>. QED  BY <1>1, <1>4, <3>1, <3>2 DEF SameRun
  <2>. QED  BY <2>4, <2>6, <2>7, <2>8 DEF VerdictInv
<1>. QED  BY <1>1, <1>3, <1>4, ReportedRow DEF Verdict

-----------------------------------------------------------------------------
(* The steps together. *)

\* Nobody has reported anything yet.
LEMMA VerdictInit == Init => VerdictInv
  BY DEF Init, VerdictInv, VerdictsDiffer, VerdictsTold, AcceptedWhole, RunsUnheard,
    AcSent, NewRow, WJ, Idle

\* The other steps of the jobs, and the loss of reports, workers and ppjc.
LEMMA OthersTellNothing ==
  ASSUME TypeInv, TypeInv', VerdictInv,
         \/ \E j \in jobs : JobDownload(j) \/ JobRunReturns(j) \/ JobRelease(j)
         \/ \E r \in reqs : HandleReportAbort(r) \/ LoseReport(r)
         \/ \E c \in Conns : WorkerExit(c)
         \/ PpjcRestart
  PROVE  VerdictInv'
<1> USE DEF jobRest, connVars
<1>1. jobs \subseteq Job /\ reqs \subseteq Req /\ \A j \in jobs : j.st \in JobState
  BY DEF TypeInv, TypeOK, Job
<1>2. ASSUME UNCHANGED rows, reqs' \subseteq reqs, JobsFollow, NoNewRun PROVE VerdictInv'
  BY <1>2, CalmStep DEF RowCalm
<1>3. ASSUME NEW j \in jobs, NEW st, JobGoesOn(j, st), Advances(j.st, st) PROVE JobsFollow
  <2>1. /\ Follows(j, [j EXCEPT !.st = st])
        /\ \A k \in jobs' : k \in jobs \ {j} \/ k = [j EXCEPT !.st = st]
    BY <1>1, <1>3, GoesOnFollows
  <2>. QED  BY <1>1, <2>1, FollowsItself DEF JobsFollow
<1>4. ASSUME NEW j \in jobs, JobDownload(j) PROVE VerdictInv'
  <2>1. Advances(j.st, Downloaded(j.st)) /\ JobGoesOn(j, Downloaded(j.st))
    BY <1>1, <1>4, StepsAdvance DEF JobDownload
  <2>. QED  BY <1>2, <1>3, <1>4, <2>1 DEF JobDownload, NoNewRun
<1>5. ASSUME NEW j \in jobs, JobRunReturns(j) PROVE VerdictInv'
  <2>1. PICK t \in RunResults : CanReturn(j.st, t) /\ JobGoesOn(j, Returned(j.st, t))
    BY <1>5 DEF JobRunReturns
  <2>2. Advances(j.st, Returned(j.st, t))
    BY <1>1, <2>1, StepsAdvance
  <2>. QED  BY <1>2, <1>3, <1>5, <2>1, <2>2 DEF JobRunReturns, NoNewRun
<1>6. ASSUME NEW j \in jobs, JobRelease(j) PROVE VerdictInv'
  <2>1. Advances(j.st, Released(j.st)) /\ JobGoesOn(j, Released(j.st))
    BY <1>1, <1>6, StepsAdvance DEF JobRelease
  <2>. QED  BY <1>2, <1>3, <1>6, <2>1 DEF JobRelease, NoNewRun
<1>7. ASSUME NEW r \in reqs, HandleReportAbort(r) \/ LoseReport(r) PROVE VerdictInv'
  BY <1>1, <1>2, <1>7, AnswerFollows DEF HandleReportAbort, LoseReport, NoNewRun
<1>8. ASSUME NEW c \in Conns, WorkerExit(c) PROVE VerdictInv'
  <2>1. JobsFollow
    BY <1>1, <1>8, FollowsItself DEF WorkerExit, JobsFollow
  <2>. QED  BY <1>2, <1>8, <2>1 DEF WorkerExit, NoNewRun
<1>9. CASE PpjcRestart
  <2>1. JobsFollow
    BY <1>1, <1>9, GivenUpFollows DEF PpjcRestart, JobsFollow
  <2>2. NoNewRun
    BY <1>9 DEF PpjcRestart, NoNewRun, Idle
  <2>. QED  BY <1>2, <1>9, <2>1, <2>2 DEF PpjcRestart
<1>. QED  BY <1>4, <1>5, <1>6, <1>7, <1>8, <1>9

\* The web server, and the senders where they neither load nor write.
LEMMA RestTellsNothing ==
  ASSUME TypeInv, TypeInv', NothingBeforeSubmit, VerdictInv,
         \/ WebNext \/ WebCrash \/ UNCHANGED vars
         \/ \E p \in pushes : HandleSubmit(p) \/ RejudgeError(p)
         \/ \E s \in Subs : SubmitError(s) \/ SubmitFailedAbort(s)
         \/ \E t \in Asked : ChangeKey(t) \/ ChangeKeyError(t)
         \/ \E c \in Conns :
              \/ Connect(c) \/ SenderTake(c) \/ SenderStop(c) \/ SenderCancelled(c)
              \/ SenderPop(c) \/ SenderWriteLost(c) \/ SenderRedisError(c)
              \/ SenderLoadError(c) \/ ReaderNext(c) \/ ConnDown(c)
  PROVE  VerdictInv'
<1> USE DEF webVars, connVars
<1>1. jobs' = jobs => JobsFollow
  BY FollowsItself DEF JobsFollow, TypeInv, TypeOK
<1>2. ASSUME UNCHANGED <<jobs, reqs, sender>>, \A s \in Subs : RowCalm(s) PROVE VerdictInv'
  BY <1>1, <1>2, CalmStep DEF NoNewRun
<1>3. ASSUME NEW c \in Conns, NEW x, x.pc # "write", sender' = [sender EXCEPT ![c] = x],
             UNCHANGED <<rows, jobs, reqs>>
      PROVE  VerdictInv'
  <2>1. NoNewRun
    BY <1>3 DEF NoNewRun, TypeInv, TypeOK
  <2>. QED  BY <1>1, <1>3, <2>1, CalmStep DEF RowCalm
<1>4. CASE WebNext
  <2>1. UNCHANGED <<jobs, reqs, sender>>
    BY <1>4 DEF WebNext, Submit, SubmitFailed, Rejudge, RejudgeList, RejudgeAll
  <2>2. ASSUME NEW s \in Subs PROVE RowCalm(s)
    BY <1>4, OthersCalm DEF WebNext, Submit, SubmitFailed, Rejudge, RejudgeList, RejudgeAll,
      Exists, TypeInv, TypeOK
  <2>. QED  BY <1>2, <2>1, <2>2
<1>5. CASE \/ WebCrash \/ UNCHANGED vars
           \/ \E p \in pushes : HandleSubmit(p) \/ RejudgeError(p)
           \/ \E s \in Subs : SubmitError(s) \/ SubmitFailedAbort(s)
           \/ \E t \in Asked : ChangeKey(t) \/ ChangeKeyError(t)
           \/ \E c \in Conns : ReaderNext(c) \/ ConnDown(c)
  <2>1. UNCHANGED <<jobs, reqs, sender, rows>>
    BY <1>5 DEF WebCrash, HandleSubmit, RejudgeError, SubmitError, SubmitFailedAbort,
      ChangeKey, ChangeKeyError, ReaderNext,
      ReaderFinished, ReaderClosed, ConnDown, vars
  <2>. QED  BY <1>2, <2>1 DEF RowCalm
<1>6. ASSUME NEW c \in Conns,
             \/ Connect(c) \/ SenderTake(c) \/ SenderStop(c) \/ SenderCancelled(c)
             \/ SenderPop(c) \/ SenderWriteLost(c) \/ SenderRedisError(c) \/ SenderLoadError(c)
      PROVE  VerdictInv'
  <2>1. UNCHANGED <<rows, jobs, reqs>>
    BY <1>6 DEF Connect, SenderTake, SenderStop, SenderCancelled, SenderPop, SenderWriteLost,
      SenderRedisError, SenderLoadError
  <2>2. \/ \E pc \in {"top", "brpop", "sel", "end"} : sender' = [sender EXCEPT ![c] = Idle(pc)]
        \/ SenderPop(c)
    BY <1>6 DEF Connect, SenderTake, SenderStop, SenderCancelled, SenderWriteLost,
      SenderRedisError, SenderLoadError, SenderReturn, SenderRetry
  <2>3. CASE SenderPop(c)
    <3> DEFINE x == [Idle("load") EXCEPT !.sub = queue[Len(queue)]]
    <3>1. sender' = [sender EXCEPT ![c] = x] /\ x.pc = "load"
      BY <2>3 DEF SenderPop, Idle
    <3> HIDE DEF x
    <3>. QED  BY <1>3, <2>1, <3>1
  <2>4. ASSUME NEW pc \in {"top", "brpop", "sel", "end"}, sender' = [sender EXCEPT ![c] = Idle(pc)]
        PROVE  VerdictInv'
    <3>1. Idle(pc).pc # "write"
      BY DEF Idle
    <3>. QED  BY <1>3, <2>1, <2>4, <3>1
  <2>. QED  BY <2>2, <2>3, <2>4
<1>. QED  BY <1>4, <1>5, <1>6

\* Every action, by the kind of step it is.
LEMMA VerdictStep ==
  ASSUME IInv, VerdictInv, [Next]_vars
  PROVE  VerdictInv'
<1>1. /\ TypeInv /\ TypeInv' /\ NothingBeforeSubmit /\ JidHandedOut /\ RunsUnique
      /\ CasesOfRun
  BY TypeStep DEF IInv, TypeInv, SenderHolds
<1>2. ASSUME NEW j \in jobs, JobNext(j) \/ JobDownloadError(j) PROVE VerdictInv'
  BY <1>1, <1>2, ReportingKeeps, OthersTellNothing DEF JobNext
<1>3. ASSUME NEW r \in reqs,
             HandleReport(r) \/ HandleReportAbort(r) \/ LoseReport(r) \/ DetachReport(r)
      PROVE  VerdictInv'
  BY <1>1, <1>3, HandleKeeps, DetachKeeps, OthersTellNothing
<1>4. ASSUME NEW c \in Conns, SenderLoad(c) \/ SenderWrite(c) PROVE VerdictInv'
  BY <1>1, <1>4, LoadUnheard, WriteTold
<1>5. CASE PpjcRestart \/ \E c \in Conns : WorkerExit(c)
  BY <1>1, <1>5, OthersTellNothing
<1>. QED  BY <1>1, <1>2, <1>3, <1>4, <1>5, RestTellsNothing DEF Next, SenderNext, FaultNext

\* Whatever reports are late, lost, overtaken or given up: a user sees no case of
\* a run twice, and no failed case next to an accepted total.
THEOREM CasesAlwaysFit == Spec => []CasesFitVerdict
<1>1. IInv /\ VerdictInv => CasesFitVerdict
  BY DEF VerdictInv, VerdictsDiffer, AcceptedWhole, AcSent, CasesFitVerdict
<1>. QED  BY <1>1, VerdictInit, VerdictStep, PipelineInv, PTL DEF Spec

-----------------------------------------------------------------------------
(***************************************************************************)
(* The progress that the pages show.                                        *)
(***************************************************************************)
(* A transaction that is past its change of the key, and has not been cut off
   from it, has left the key as its report wants it, and nobody else can change
   the row or the key before it ends. *)
KeyFits(t) == /\ t.rep.type = "case" => progress[t.sub] # 0
              /\ t.rep.type # "case" => progress[t.sub] = 0

HolderIsNew == \A t \in open : ~Stale(rows[t.sub], t.jid)

HolderKeyFits == \A t \in open : t.sub \notin parted => KeyFits(t)

KeyInv == HolderIsNew /\ HolderKeyFits /\ ProgressFollowsStatus

\* The second half of a transaction gives the row the status its key goes with.
LEMMA CommitKey ==
  ASSUME TypeInv, LocksAreHeld, KeyInv, NEW t \in Tx, Commits(t), open' = open \ {t},
         rows' = [rows EXCEPT ![t.sub] = Reported(@, t)], UNCHANGED <<progress, parted>>
  PROVE  KeyInv'
<1>1. t.sub \in Subs /\ t.jid \in Nat /\ rows[t.sub] \in Row /\ rows \in [Subs -> Row]
  BY DEF TypeInv, TypeOK, Tx
<1>2. CASE t \in open
  <2>1. \A u \in open' : u \in open /\ u.sub # t.sub /\ rows'[u.sub] = rows[u.sub]
    BY <1>1, <1>2 DEF LocksAreHeld, TypeInv, TypeOK, Tx
  <2>2. HolderIsNew' /\ HolderKeyFits'
    BY <2>1 DEF KeyInv, HolderIsNew, HolderKeyFits, KeyFits, Stale
  <2>3. ~Stale(rows[t.sub], t.jid) /\ (t.sub \notin parted => KeyFits(t))
    BY <1>2 DEF KeyInv, HolderIsNew, HolderKeyFits
  <2>4. t.sub \notin parted => /\ rows'[t.sub].status = JG => progress[t.sub] # 0
                               /\ Final(rows'[t.sub].status) => progress[t.sub] = 0
    <3>1. CASE t.rep.type = "case"
      <4>1. rows'[t.sub].status = JG
        BY <1>1, <2>3, <3>1 DEF Reported, UpdateTestCase, Row
      <4>. QED  BY <2>3, <3>1, <4>1 DEF KeyFits, Final
    <3>2. CASE t.rep.type # "case"
      <4>1. rows'[t.sub].status = t.rep.status
        BY <1>1, <2>3, <3>2 DEF Reported, UpdateResult, Row
      <4>2. t.rep.status \in TotalVerdicts
        BY <3>2 DEF Tx, ReportKinds, WebReport, ResultReport, TotalVerdicts
      <4>. QED  BY <2>3, <3>2, <4>1, <4>2 DEF KeyFits, TotalVerdicts, JG
    <3>. QED  BY <3>1, <3>2
  <2>5. ASSUME NEW s \in Subs, ~Locked(s)', s \notin parted, s # t.sub
        PROVE  /\ rows'[s].status = JG => progress[s] # 0
               /\ Final(rows'[s].status) => progress[s] = 0
    <3>1. ~Locked(s) /\ rows'[s] = rows[s]
      BY <1>1, <2>5 DEF Locked
    <3>. QED  BY <2>5, <3>1 DEF KeyInv, ProgressFollowsStatus
  <2>. QED  BY <2>2, <2>4, <2>5 DEF KeyInv, ProgressFollowsStatus
<1>3. CASE t \notin open
  <2>1. Stale(rows[t.sub], t.jid)
    BY <1>3 DEF Commits
  <2>2. Reported(rows[t.sub], t) = rows[t.sub]
    BY <2>1 DEF Reported, UpdateTestCase, UpdateResult
  <2>3. rows' = rows /\ open' = open
    BY <1>1, <1>3, <2>2
  <2>. QED  BY <2>3 DEF KeyInv, HolderIsNew, HolderKeyFits, KeyFits, Locked,
      ProgressFollowsStatus
<1>. QED  BY <1>2, <1>3

\* The first half locks a free row.
LEMMA ChangeKeyKeeps ==
  ASSUME TypeInv, KeyInv, NEW t \in Asked, ChangeKey(t) \/ ChangeKeyError(t)
  PROVE  KeyInv'
<1>1. t \in Tx /\ t.sub \in Subs /\ (t.rep.type = "case" => t.rep.id \in Nat)
  BY AskedType DEF TypeInv
<1>2. /\ ~Locked(t.sub) /\ ~Stale(rows[t.sub], t.jid) /\ rows' = rows
      /\ open' = open \cup {t}
  BY DEF ChangeKey, ChangeKeyError, ChangesKey
<1>3. \/ /\ progress' = [progress EXCEPT ![t.sub] =
                           IF t.rep.type = "case" THEN t.rep.id + 1 ELSE 0]
         /\ parted' = parted \ {t.sub}
      \/ progress' = progress /\ parted' = parted \cup {t.sub}
  BY DEF ChangeKey, ChangeKeyError
<1>4. /\ \A s \in Subs : s # t.sub => progress'[s] = progress[s]
      /\ \A s \in Subs : s # t.sub => (s \in parted' <=> s \in parted)
  BY <1>3 DEF TypeInv, TypeOK
<1>5. \A u \in open : u.sub # t.sub /\ u.sub \in Subs
  BY <1>2 DEF Locked, TypeInv, TypeOK, Tx
<1>6. HolderIsNew'
  BY <1>2, <1>5 DEF KeyInv, HolderIsNew
<1>7. t.sub \notin parted' => KeyFits(t)'
  BY <1>1, <1>3 DEF KeyFits, TypeInv, TypeOK
<1>8. \A u \in open : u.sub \notin parted' => KeyFits(u)'
  BY <1>4, <1>5 DEF KeyInv, HolderKeyFits, KeyFits
<1>9. HolderKeyFits'
  BY <1>2, <1>7, <1>8 DEF HolderKeyFits
<1>10. ProgressFollowsStatus'
  BY <1>2, <1>4 DEF KeyInv, ProgressFollowsStatus, Locked
<1>. QED  BY <1>6, <1>9, <1>10 DEF KeyInv

\* A rollback leaves row and key as they are and names the submission.
LEMMA RolledBackKey ==
  ASSUME TypeInv, KeyInv, NEW ended, RolledBack(ended), UNCHANGED <<rows, progress>>
  PROVE  KeyInv'
<1>1. /\ open' = open \ ended /\ parted \subseteq parted'
      /\ \A t \in open \ open' : t.sub \in parted'
  BY DEF RolledBack
<1>2. HolderIsNew' /\ HolderKeyFits'
  BY <1>1 DEF KeyInv, HolderIsNew, HolderKeyFits, KeyFits
<1>3. \A s \in Subs : ~Locked(s)' /\ s \notin parted' => ~Locked(s) /\ s \notin parted
  BY <1>1 DEF Locked
<1>4. ProgressFollowsStatus'
  BY <1>3 DEF KeyInv, ProgressFollowsStatus
<1>. QED  BY <1>2, <1>4 DEF KeyInv

\* Every action keeps the keys with the rows.
LEMMA KeyStep ==
  ASSUME TypeInv, LocksAreHeld, NothingBeforeSubmit, KeyInv, [Next]_vars
  PROVE  KeyInv'
<1> USE DEF webVars, keyVars, connVars, jobRest
<1>1. ASSUME NEW s \in Subs, Submit(s) PROVE KeyInv'
  <2>1. rows[s] = NewRow
    BY <1>1 DEF Submit, NothingBeforeSubmit, Exists
  <2>2. rows' = rows /\ keyVars' = keyVars
    BY <1>1, <2>1 DEF Submit, TypeInv, TypeOK
  <2>. QED  BY <2>2 DEF KeyInv, HolderIsNew, HolderKeyFits, KeyFits, Locked,
      ProgressFollowsStatus
<1>2. ASSUME NEW s \in Subs, SubmitFailed(s) PROVE KeyInv'
  <2>1. PICK t : t = WebTx(s)
    OBVIOUS
  <2>2. t \in Tx /\ t.sub = s /\ t.jid = 0 /\ t.rep = WebReport
    BY <2>1 DEF WebTx, Tx
  <2>3. \A row : Reported(row, t) = UpdateResult(row, 0, "IE")
    BY <2>2 DEF Reported, WebReport, ResultReport
  <2>4. rows' = [rows EXCEPT ![t.sub] = Reported(@, t)]
    BY <1>2, <2>2, <2>3 DEF SubmitFailed
  <2>5. Commits(t) /\ open' = open \ {t} /\ UNCHANGED <<progress, parted>>
    BY <1>2, <2>1 DEF SubmitFailed
  <2>. QED  BY <2>2, <2>4, <2>5, CommitKey
<1>3. ASSUME NEW s \in Subs, Rejudge(s) PROVE KeyInv'
  <2>1. /\ rows[s] \in Row /\ ~Locked(s) /\ keyVars' = keyVars
        /\ rows' = [rows EXCEPT ![s] = ResetForRejudge(@)]
    BY <1>3 DEF Rejudge, TypeInv, TypeOK
  <2>2. rows'[s].status = WJ /\ \A u \in Subs : u # s => rows'[u] = rows[u]
    BY <2>1 DEF TypeInv, TypeOK, Row, ResetForRejudge
  <2>3. \A t \in open : t.sub \in Subs /\ t.sub # s
    BY <2>1 DEF Locked, TypeInv, TypeOK, Tx
  <2>4. HolderIsNew' /\ HolderKeyFits'
    BY <2>1, <2>2, <2>3 DEF KeyInv, HolderIsNew, HolderKeyFits, KeyFits, Stale
  <2>5. ProgressFollowsStatus'
    BY <2>1, <2>2 DEF KeyInv, ProgressFollowsStatus, Locked, Final, WJ, JG
  <2>. QED  BY <2>4, <2>5 DEF KeyInv
<1>4. ASSUME RejudgeAll PROVE KeyInv'
  <2>1. open' = {} /\ progress' = progress /\ parted' = parted
        /\ \A s \in Subs : rows'[s] \in {rows[s], ResetForRejudge(rows[s])}
    BY <1>4 DEF RejudgeAll
  <2>2. \A s \in Subs : ResetForRejudge(rows[s]).status = WJ
    BY DEF TypeInv, TypeOK, Row, ResetForRejudge
  <2>3. \A s \in Subs : ~Locked(s)
    BY <1>4 DEF RejudgeAll, Locked
  <2>4. ProgressFollowsStatus'
    BY <2>1, <2>2, <2>3 DEF KeyInv, ProgressFollowsStatus, Final, WJ, JG
  <2>. QED  BY <2>1, <2>4 DEF KeyInv, HolderIsNew, HolderKeyFits
<1>5. ASSUME NEW c \in Conns, SenderLoad(c) PROVE KeyInv'
  <2>1. /\ keyVars' = keyVars
        /\ \A s \in Subs : rows'[s].status = rows[s].status /\ rows'[s].jid = rows[s].jid
    BY <1>5 DEF SenderLoad, TypeInv, TypeOK, UsedJidPlusOne, Row
  <2>2. \A t \in open : t.sub \in Subs
    BY DEF TypeInv, TypeOK, Tx
  <2>3. HolderIsNew' /\ HolderKeyFits'
    BY <2>1, <2>2 DEF KeyInv, HolderIsNew, HolderKeyFits, KeyFits, Stale
  <2>4. ProgressFollowsStatus'
    BY <2>1 DEF KeyInv, ProgressFollowsStatus, Locked
  <2>. QED  BY <2>3, <2>4 DEF KeyInv
<1>6. ASSUME NEW r \in reqs, HandleReport(r) PROVE KeyInv'
  <2>1. PICK t : t = TxOf(r)
    OBVIOUS
  <2>2. t \in Tx /\ t.sub = r.sub /\ t.jid = r.jid /\ t.rep = r.rep
    BY <2>1 DEF TypeInv, TypeOK, TxOf, Tx, Req
  <2>3. \A row : Reported(row, t) = Reported(row, r)
    BY <2>2 DEF Reported
  <2>4. rows' = [rows EXCEPT ![t.sub] = Reported(@, t)]
    BY <1>6, <2>2, <2>3 DEF HandleReport
  <2>5. Commits(t) /\ open' = open \ {t} /\ UNCHANGED <<progress, parted>>
    BY <1>6, <2>1 DEF HandleReport
  <2>. QED  BY <2>2, <2>4, <2>5, CommitKey
<1>7. ASSUME NEW t \in Asked, ChangeKey(t) \/ ChangeKeyError(t) PROVE KeyInv'
  BY <1>7, ChangeKeyKeeps
<1>8. ASSUME NEW r \in reqs, HandleReportAbort(r) PROVE KeyInv'
  BY <1>8, RolledBackKey DEF HandleReportAbort
<1>9. ASSUME NEW s \in Subs, SubmitFailedAbort(s) PROVE KeyInv'
  BY <1>9, RolledBackKey DEF SubmitFailedAbort
<1>10. ASSUME WebCrash PROVE KeyInv'
  BY <1>10, RolledBackKey DEF WebCrash
<1>11. ASSUME PpjcRestart PROVE KeyInv'
  BY <1>11, RolledBackKey DEF PpjcRestart
<1>12. CASE UNCHANGED <<rows, keyVars>>
  BY <1>12 DEF KeyInv, HolderIsNew, HolderKeyFits, KeyFits, Locked,
    ProgressFollowsStatus
<1>. QED
  BY <1>1, <1>2, <1>3, <1>4, <1>5, <1>6, <1>7, <1>8, <1>9, <1>10, <1>11, <1>12
  DEF Next, WebNext, SenderNext, ReaderNext, JobNext, FaultNext, vars,
      SubmitError, RejudgeList, RejudgeError, HandleSubmit, Connect, SenderTake,
      SenderStop, SenderCancelled, SenderPop, SenderRedisError, SenderLoadError,
      SenderWrite, SenderWriteLost, ReaderFinished, ReaderClosed, ConnDown, WorkerExit,
      JobRefused, JobDownload, JobDownloadError, JobRunReturns, JobReportCase,
      JobReportTotal, JobRelease, LoseReport, DetachReport

\* Whenever nobody holds the row of a submission, the key is there while the row says
\* "judging" and gone when it shows a verdict, under all faults; only a report whose
\* key or row was changed alone is excepted, until the next one.
THEOREM ProgressAlwaysFollows == Spec => []ProgressFollowsStatus
<1>1. Init => KeyInv
  BY DEF Init, KeyInv, HolderIsNew, HolderKeyFits, ProgressFollowsStatus,
    NewRow, Final, WJ, JG
<1>2. IInv /\ KeyInv /\ [Next]_vars => KeyInv'
  BY KeyStep DEF IInv, TypeInv, SenderHolds
<1>3. KeyInv => ProgressFollowsStatus
  BY DEF KeyInv
<1>. QED  BY <1>1, <1>2, <1>3, PipelineInv, PTL DEF Spec

-----------------------------------------------------------------------------
(***************************************************************************)
(* A submission without a verdict is on its way to one.                     *)
(*                                                                         *)
(* What carries a submission changes with every step, and a carrier is       *)
(* worth nothing when a newer run has reported: OnTheWay names, for the run   *)
(* the row shows, who still owes a verdict.  That a late report of a case     *)
(* does not leave a row in judging for ever rests on Awaiting: as long as no  *)
(* fault touched the submission, the goroutine that sent the report waits for  *)
(* its answer and will send the total.                                       *)
(***************************************************************************)
\* The reporting goroutine waits for the answer to r.
Awaits(r) == r.awaited /\ r.rep.by = "main"

\* What a job and the requests of its run have to do with each other.
Waiting(j, r) ==
  /\ Awaits(r) => j.st.main = "post"
  /\ r.rep.by = "dl" => j.st.dlst \in {"post", "failed"}
  /\ r.rep.type = "result" /\ r.rep.by = "main" /\ ~r.awaited => j.st.main = "end"

\* The downloader has not failed.
Fetching(st) == st.dlst \in {"run", "done"}

Waits ==
  /\ \A r, q \in reqs : Awaits(r) /\ Awaits(q) /\ SameRun(r, q) => r = q
  /\ \A j \in jobs : \A r \in reqs : SameRun(r, j) => Waiting(j, r)
  /\ \A j \in jobs : j.st.dl > 0 => Fetching(j.st)

\* The sender of a case report waits for the answer, unless a fault took the
\* submission off its way.
CaseAwaited ==
  \A r \in reqs : r.rep.type = "case" /\ r.sub \notin dropped =>
    /\ r.awaited
    /\ \E j \in jobs : SameRun(r, j) /\ j.st.main = "post" /\ j.st.dl > 0

\* The job has not sent a total yet.
Open(j) ==
  /\ Fetching(j.st)
  /\ \/ j.st.main = "run"
     \/ j.st.main = "post"
        /\ \E r \in reqs : SameRun(r, j) /\ r.rep.type = "case" /\ r.awaited

\* Somebody owes s a verdict for the run its row shows, or a later one.  The
\* request and the error branch of the submit handler count for run 0 only.
OnTheWay(s) ==
  \/ \E p \in pushes : p[1] = s /\ (p[2] # 0 \/ rows[s].jid = 0)
  \/ \E i \in DOMAIN queue : queue[i] = s
  \/ \E c \in Conns : sender[c].sub = s /\ sender[c].pc = "load"
  \/ \E c \in Conns : sender[c].sub = s /\ sender[c].pc = "write" /\ sender[c].jid >= rows[s].jid
  \/ \E j \in jobs : j.sub = s /\ j.jid >= rows[s].jid /\ Open(j)
  \/ \E r \in reqs : r.sub = s /\ r.jid >= rows[s].jid /\ r.rep.type = "result"
  \/ web[s] = "failed" /\ rows[s].jid = 0

Owed(s) == Exists(s) /\ ~Final(rows[s].status) /\ s \notin dropped

CarryInv ==
  /\ Waits /\ CaseAwaited
  /\ listing.n = 0 => listing = NoListing
  /\ \A s \in Subs : Owed(s) => OnTheWay(s)

-----------------------------------------------------------------------------
(* One job goes on as k. *)

Becomes(j, k) ==
  /\ SameRun(k, j)
  /\ \A l \in jobs' : l \in jobs \ {j} \/ l = k
  /\ \A l \in jobs : l # j => l \in jobs'
  /\ k.st.main # "end" => k \in jobs'

\* A step of JobSteps is such a move.
LEMMA GoesOnBecomes ==
  ASSUME jobs \subseteq Job, NEW j \in jobs, NEW st, JobGoesOn(j, st)
  PROVE  [j EXCEPT !.st = st].st = st /\ Becomes(j, [j EXCEPT !.st = st])
<1> DEFINE k == [j EXCEPT !.st = st]
<1>1. k.st = st /\ SameRun(k, j)
  BY DEF Job, SameRun
<1>2. jobs' = (jobs \ {j}) \cup {l \in {k} : ~Over(l.st)}
  BY DEF JobGoesOn
<1> HIDE DEF k
<1>3. Becomes(j, k)
  BY <1>1, <1>2 DEF Becomes, Over
<1>. QED  BY <1>1, <1>3 DEF k

\* All that can carry a submission but a job or a report.
Elsewhere(s) ==
  \/ \E p \in pushes : p[1] = s /\ (p[2] # 0 \/ rows[s].jid = 0)
  \/ \E i \in DOMAIN queue : queue[i] = s
  \/ \E c \in Conns : sender[c].sub = s /\ sender[c].pc = "load"
  \/ \E c \in Conns : sender[c].sub = s /\ sender[c].pc = "write" /\ sender[c].jid >= rows[s].jid
  \/ web[s] = "failed" /\ rows[s].jid = 0

ByJob(s) == \E j \in jobs : j.sub = s /\ j.jid >= rows[s].jid /\ Open(j)
ByReport(s) == \E r \in reqs : r.sub = s /\ r.jid >= rows[s].jid /\ r.rep.type = "result"

\* The three kinds of carriers.
LEMMA Carriers ==
  ASSUME NEW s
  PROVE  /\ OnTheWay(s) <=> Elsewhere(s) \/ ByJob(s) \/ ByReport(s)
         /\ OnTheWay(s)' <=> Elsewhere(s)' \/ ByJob(s)' \/ ByReport(s)'
  BY DEF OnTheWay, Elsewhere, ByJob, ByReport

\* A step that leaves everything but jobs, reports and dropped alone.
Inside ==
  /\ UNCHANGED <<rows, pushes, queue, sender, web, listing>>
  /\ dropped \subseteq dropped'

\* Such a step owes no verdict that was not owed.
LEMMA InsideOwes ==
  ASSUME Inside, NEW s \in Subs
  PROVE  /\ Owed(s)' => Owed(s)
         /\ Elsewhere(s)' <=> Elsewhere(s)
         /\ (listing.n = 0 => listing = NoListing) => (listing'.n = 0 => listing' = NoListing)
  BY DEF Inside, Owed, Exists, Elsewhere

\* Job j moves on without a report.
Moves(j, k) ==
  /\ Becomes(j, k) /\ reqs' = reqs
  /\ \/ k.st.main = j.st.main
     \/ j.st.main = "run" /\ k.st.main = "end" /\ ~Fetching(j.st)
  /\ k.st.dlst = j.st.dlst \/ (Fetching(j.st) /\ Fetching(k.st))
  /\ k.st.dl = j.st.dl \/ (k.st.dl = j.st.dl + 1 /\ Fetching(k.st))

\* A job that moves on carries what it carried.
LEMMA MoveCarries ==
  ASSUME jobs \subseteq Job, CarryInv, Inside, NEW j \in jobs, NEW k, Moves(j, k)
  PROVE  CarryInv'
<1>1. /\ j.st.dl \in Nat /\ k.sub = j.sub /\ k.jid = j.jid /\ reqs' = reqs
      /\ dropped \subseteq dropped' /\ rows' = rows
  BY DEF Moves, Becomes, SameRun, Job, JobState, Inside
<1>2. \A r : SameRun(r, k) <=> SameRun(r, j)
  BY <1>1 DEF SameRun
<1>3. \A r \in reqs : SameRun(r, k) => Waiting(k, r)
  BY <1>2 DEF CarryInv, Waits, Waiting, Moves, Fetching
<1>4. k.st.dl > 0 => Fetching(k.st)
  BY <1>1 DEF CarryInv, Waits, Moves, Fetching
<1>5. Waits'
  BY <1>1, <1>3, <1>4 DEF CarryInv, Waits, Moves, Becomes, Awaits, SameRun, Waiting, Fetching
<1>6. CaseAwaited'
  <2> SUFFICES ASSUME NEW r \in reqs, r.rep.type = "case", r.sub \notin dropped
               PROVE  /\ r.awaited
                      /\ \E l \in jobs' : SameRun(r, l) /\ l.st.main = "post" /\ l.st.dl > 0
    BY <1>1 DEF CaseAwaited, SameRun
  <2>1. PICK l \in jobs : r.awaited /\ SameRun(r, l) /\ l.st.main = "post" /\ l.st.dl > 0
    BY DEF CarryInv, CaseAwaited
  <2>2. CASE l = j
    <3>1. k.st.main = "post" /\ k.st.dl > 0 /\ SameRun(r, k) /\ k \in jobs'
      BY <1>1, <1>2, <2>1, <2>2 DEF Moves, Becomes
    <3>. QED  BY <2>1, <3>1
  <2>3. CASE l # j
    BY <2>1, <2>3 DEF Moves, Becomes
  <2>. QED  BY <2>2, <2>3
<1>7. ASSUME NEW s \in Subs, Owed(s)' PROVE OnTheWay(s)'
  <2>1. OnTheWay(s)
    BY <1>7, InsideOwes DEF CarryInv
  <2>2. CASE Elsewhere(s) \/ ByReport(s)
    BY <1>1, <2>2, InsideOwes, Carriers DEF ByReport
  <2>3. CASE ByJob(s)
    <3>1. PICK l \in jobs : l.sub = s /\ l.jid >= rows[s].jid /\ Open(l)
      BY <2>3 DEF ByJob
    <3>2. CASE l = j
      <4>1. k.st.main = j.st.main /\ Fetching(k.st) /\ k \in jobs'
        BY <3>1, <3>2 DEF Open, Moves, Becomes, Fetching
      <4>2. Open(k)'
        <5>1. CASE j.st.main = "run"
          BY <4>1, <5>1 DEF Open, Fetching
        <5>2. CASE j.st.main # "run"
          <6>1. PICK r \in reqs : SameRun(r, j) /\ r.rep.type = "case" /\ r.awaited
            BY <3>1, <3>2, <5>2 DEF Open
          <6>2. SameRun(r, k) /\ r \in reqs' /\ k.st.main = "post"
            BY <1>1, <1>2, <3>1, <3>2, <4>1, <5>2, <6>1 DEF Open
          <6>. QED  BY <4>1, <6>1, <6>2 DEF Open, Fetching, SameRun
        <5>. QED  BY <5>1, <5>2
      <4>3. ByJob(s)'
        BY <1>1, <3>1, <3>2, <4>1, <4>2 DEF ByJob
      <4>. QED  BY <4>3, Carriers
    <3>3. CASE l # j
      <4>1. l \in jobs' /\ Open(l)'
        BY <1>1, <3>1, <3>3 DEF Moves, Becomes, Open, SameRun, Fetching
      <4>2. ByJob(s)'
        BY <1>1, <3>1, <4>1 DEF ByJob
      <4>. QED  BY <4>2, Carriers
    <3>. QED  BY <3>2, <3>3
  <2>. QED  BY <2>1, <2>2, <2>3, Carriers
<1>. QED  BY <1>5, <1>6, <1>7, InsideOwes DEF CarryInv, Inside

\* Job j moves on by sending report q.
Reports(j, q, k) ==
  /\ Becomes(j, k) /\ SameRun(q, j) /\ q.awaited /\ reqs' = reqs \cup {q}
  /\ \/ /\ q.rep.by = "main" /\ j.st.main = "run" /\ k.st.main = "post"
        /\ k.st.dlst = j.st.dlst \/ (q.rep.type = "result" /\ Fetching(j.st) /\ Fetching(k.st))
     \/ /\ q.rep.by = "dl" /\ q.rep.type = "result" /\ k.st.main = j.st.main
        /\ j.st.dl = 0 /\ Fetching(j.st) /\ k.st.dlst = "post"
  /\ k.st.dl = j.st.dl
  /\ q.rep.type = "case" => k.st.dl > 0
  /\ q.rep.type \in {"case", "result"}

\* A job that sends a case report waits for the answer; a total takes over from
\* the job.
LEMMA ReportCarries ==
  ASSUME jobs \subseteq Job, RunsUnique, CarryInv, Inside, dropped' = dropped,
         NEW j \in jobs, NEW q, NEW k, Reports(j, q, k)
  PROVE  CarryInv'
<1>1. /\ j.st.dl \in Nat /\ k.sub = j.sub /\ k.jid = j.jid /\ reqs' = reqs \cup {q}
      /\ rows' = rows /\ q.sub = j.sub /\ q.jid = j.jid /\ q \in reqs'
  BY DEF Reports, Becomes, SameRun, Job, JobState, Inside
<1>2. \A r : SameRun(r, k) <=> SameRun(r, j)
  BY <1>1 DEF SameRun
<1>3. \A l \in jobs : SameRun(q, l) => l = j
  BY <1>1 DEF SameRun, RunsUnique
<1>4. \A r \in reqs : SameRun(r, j) => Waiting(j, r)
  BY DEF CarryInv, Waits
<1>5. Waits'
  <2>1. ASSUME NEW r \in reqs', NEW p \in reqs', Awaits(r), Awaits(p), SameRun(r, p)
        PROVE  r = p
    <3>1. \A a \in reqs : Awaits(a) /\ SameRun(a, j) => j.st.main = "post"
      BY <1>4 DEF Waiting
    <3>2. CASE r = q \/ p = q
      BY <1>1, <2>1, <3>1, <3>2 DEF Reports, Awaits, SameRun
    <3>3. CASE r # q /\ p # q
      BY <1>1, <2>1, <3>3 DEF CarryInv, Waits
    <3>. QED  BY <3>2, <3>3
  <2>2. ASSUME NEW l \in jobs', NEW r \in reqs', SameRun(r, l) PROVE Waiting(l, r)
    <3>1. CASE l = k /\ r = q
      BY <3>1 DEF Waiting, Awaits, Reports
    <3>2. CASE l = k /\ r # q
      <4>1. r \in reqs /\ Waiting(j, r)
        BY <1>1, <1>2, <1>4, <2>2, <3>2
      <4>. QED  BY <3>2, <4>1 DEF Waiting, Awaits, Reports, Fetching
    <3>3. CASE l # k
      <4>1. l \in jobs /\ l # j
        BY <3>3 DEF Reports, Becomes
      <4>2. r \in reqs
        BY <1>1, <1>3, <2>2, <4>1
      <4>. QED  BY <2>2, <4>1, <4>2 DEF CarryInv, Waits
    <3>. QED  BY <3>1, <3>2, <3>3
  <2>3. ASSUME NEW l \in jobs', l.st.dl > 0 PROVE Fetching(l.st)
    BY <1>1, <2>3 DEF CarryInv, Waits, Reports, Becomes, Fetching
  <2>. QED  BY <2>1, <2>2, <2>3 DEF Waits, Awaits, SameRun, Waiting, Fetching
<1>6. CaseAwaited'
  <2> SUFFICES ASSUME NEW r \in reqs', r.rep.type = "case", r.sub \notin dropped
               PROVE  /\ r.awaited
                      /\ \E l \in jobs' : SameRun(r, l) /\ l.st.main = "post" /\ l.st.dl > 0
    BY <1>1 DEF CaseAwaited, SameRun
  <2>1. CASE r = q
    BY <1>1, <2>1 DEF Reports, Becomes, SameRun
  <2>2. CASE r # q
    <3>1. PICK l \in jobs : r.awaited /\ SameRun(r, l) /\ l.st.main = "post" /\ l.st.dl > 0
      BY <1>1, <2>2 DEF CarryInv, CaseAwaited
    <3>2. l # j
      BY <3>1 DEF Reports
    <3>. QED  BY <3>1, <3>2 DEF Reports, Becomes
  <2>. QED  BY <2>1, <2>2
<1>7. ASSUME NEW s \in Subs, Owed(s)' PROVE OnTheWay(s)'
  <2>1. OnTheWay(s)
    BY <1>7, InsideOwes DEF CarryInv
  <2>2. CASE Elsewhere(s) \/ ByReport(s)
    BY <1>1, <2>2, InsideOwes, Carriers DEF ByReport
  <2>3. CASE ByJob(s)
    <3>1. PICK l \in jobs : l.sub = s /\ l.jid >= rows[s].jid /\ Open(l)
      BY <2>3 DEF ByJob
    <3>2. CASE l = j /\ q.rep.type = "result"
      <4>1. ByReport(s)'
        BY <1>1, <3>1, <3>2 DEF ByReport
      <4>. QED  BY <4>1, Carriers
    <3>3. CASE l = j /\ q.rep.type = "case"
      <4>1. k \in jobs' /\ k.st.main = "post" /\ Fetching(k.st)
        BY <3>1, <3>3 DEF Open, Reports, Becomes, Fetching
      <4>2. Open(k)'
        BY <1>1, <3>3, <4>1 DEF Open, SameRun, Fetching, Reports
      <4>3. ByJob(s)'
        BY <1>1, <3>1, <3>3, <4>1, <4>2 DEF ByJob
      <4>. QED  BY <4>3, Carriers
    <3>4. CASE l # j
      <4>1. l \in jobs' /\ Open(l)'
        BY <1>1, <3>1, <3>4 DEF Reports, Becomes, Open, SameRun, Fetching
      <4>2. ByJob(s)'
        BY <1>1, <3>1, <4>1 DEF ByJob
      <4>. QED  BY <4>2, Carriers
    <3>. QED  BY <3>2, <3>3, <3>4 DEF Reports
  <2>. QED  BY <2>1, <2>2, <2>3, Carriers
<1>. QED  BY <1>5, <1>6, <1>7, InsideOwes DEF CarryInv, Inside

\* What a step of job j is.
JobMoves(j) ==
  Inside /\ dropped' = dropped /\ \E k : Moves(j, k) \/ \E q : Reports(j, q, k)

\* The steps of a job are such moves.  A download that fails does so before the
\* first case was handed over: NCases and FaultKinds see to that.
LEMMA JobShapes ==
  ASSUME TypeInv, NCases <= 1 \/ "download" \notin FaultKinds,
         NEW j \in jobs, JobNext(j) \/ JobDownloadError(j)
  PROVE  JobMoves(j)
<1> USE DEF jobRest, webVars
<1>1. /\ jobs \subseteq Job /\ j \in Job /\ j.st \in JobState
      /\ j.st.dl \in 0 .. NCases /\ j.st.rep \in Nat
  BY DEF TypeInv, TypeOK, Job, JobState
<1>2. ASSUME NEW st, JobGoesOn(j, st), Inside, dropped' = dropped,
             \A k : k.st = st /\ Becomes(j, k)
                    => Moves(j, k) \/ (\E q : Reports(j, q, k))
      PROVE  JobMoves(j)
  <2>1. [j EXCEPT !.st = st].st = st /\ Becomes(j, [j EXCEPT !.st = st])
    BY <1>1, <1>2, GoesOnBecomes
  <2>2. Moves(j, [j EXCEPT !.st = st]) \/ \E q : Reports(j, q, [j EXCEPT !.st = st])
    BY <1>2, <2>1
  <2>. QED  BY <1>2, <2>2 DEF JobMoves
<1>3. ASSUME JobDownload(j) PROVE JobMoves(j)
  <2>1. /\ Downloaded(j.st).main = j.st.main /\ Downloaded(j.st).dl = j.st.dl + 1
        /\ Fetching(j.st) /\ Fetching(Downloaded(j.st))
    BY <1>1, <1>3 DEF JobDownload, CanDownload, Downloaded, JobState, Fetching
  <2>. QED  BY <1>2, <1>3, <2>1 DEF JobDownload, Moves, Inside
<1>4. ASSUME JobRunReturns(j) PROVE JobMoves(j)
  <2>1. PICK t \in RunResults : JobGoesOn(j, Returned(j.st, t))
    BY <1>4 DEF JobRunReturns
  <2>2. /\ Returned(j.st, t).main = j.st.main /\ Returned(j.st, t).dl = j.st.dl
        /\ Returned(j.st, t).dlst = j.st.dlst
    BY <1>1 DEF Returned, JobState
  <2>. QED  BY <1>2, <1>4, <2>1, <2>2 DEF JobRunReturns, Moves, Inside
<1>5. ASSUME JobRelease(j) PROVE JobMoves(j)
  <2>1. /\ Released(j.st).main = j.st.main /\ Released(j.st).dl = j.st.dl
        /\ Released(j.st).dlst = j.st.dlst
    BY <1>1 DEF Released, JobState
  <2>. QED  BY <1>2, <1>5, <2>1 DEF JobRelease, Moves, Inside
<1>6. ASSUME NEW st, NEW rep, JobGoesOn(j, st), Send(j, rep), Inside, dropped' = dropped,
             \A q, k : q.rep = rep /\ k.st = st /\ Becomes(j, k) /\ SameRun(q, j) /\ q.awaited
                       /\ reqs' = reqs \cup {q} => Reports(j, q, k)
      PROVE  JobMoves(j)
  <2> DEFINE q == [sub |-> j.sub, jid |-> j.jid, awaited |-> TRUE, rep |-> rep]
  <2>1. q.rep = rep /\ SameRun(q, j) /\ q.awaited /\ reqs' = reqs \cup {q}
    BY <1>6 DEF Send, SameRun
  <2> HIDE DEF q
  <2>2. \A k : k.st = st /\ Becomes(j, k) => Reports(j, q, k)
    BY <1>6, <2>1
  <2>. QED  BY <1>2, <1>6, <2>2
<1>7. ASSUME JobRefused(j) PROVE JobMoves(j)
  <2>1. /\ Refused(j.st).main = "post" /\ Refused(j.st).dl = j.st.dl /\ j.st.main = "run"
        /\ Fetching(j.st) /\ Fetching(Refused(j.st))
        /\ RefusedReport.by = "main" /\ RefusedReport.type = "result"
    BY <1>1, <1>7 DEF JobRefused, CanRefuse, Refused, JobState, Fetching, RefusedReport, ResultReport
  <2>. QED  BY <1>6, <1>7, <2>1 DEF JobRefused, Reports, Inside
<1>8. ASSUME JobDownloadError(j) PROVE JobMoves(j)
  <2>1. j.st.dl = 0 /\ Fetching(j.st)
    BY <1>1, <1>8 DEF JobDownloadError, Fault, CanDownload, Fetching
  <2>2. /\ DownloadFailed(j.st).main = j.st.main /\ DownloadFailed(j.st).dl = j.st.dl
        /\ DownloadFailed(j.st).dlst = "post"
        /\ DownloadFailedReport.by = "dl" /\ DownloadFailedReport.type = "result"
    BY <1>1 DEF DownloadFailed, JobState, DownloadFailedReport, ResultReport
  <2>. QED  BY <1>6, <1>8, <2>1, <2>2 DEF JobDownloadError, Reports, Inside
<1>9. ASSUME JobReportCase(j) PROVE JobMoves(j)
  <2>1. PICK v \in Statuses : /\ CanReportCase(j.st, v) /\ JobGoesOn(j, CaseReported(j.st, v))
                              /\ Send(j, NextCaseReport(j.st, v))
    BY <1>9 DEF JobReportCase
  <2>2. /\ CaseReported(j.st, v).main = "post" /\ CaseReported(j.st, v).dl = j.st.dl
        /\ CaseReported(j.st, v).dlst = j.st.dlst /\ j.st.main = "run"
        /\ NextCaseReport(j.st, v).by = "main" /\ NextCaseReport(j.st, v).type = "case"
    BY <1>1, <2>1 DEF CanReportCase, CaseReported, JobState, NextCaseReport, CaseReport
  <2>3. j.st.dl > 0
    BY <1>1, <2>1 DEF CanReportCase, RunStatuses
  <2>. QED  BY <1>6, <1>9, <2>1, <2>2, <2>3 DEF JobReportCase, Reports, Inside
<1>10. ASSUME JobReportTotal(j) PROVE JobMoves(j)
  <2>1. CASE MaySendTotal(j.st) /\ JobGoesOn(j, TotalReported(j.st)) /\ Send(j, TotalReport(j.st))
    <3>1. /\ TotalReported(j.st).main = "post" /\ TotalReported(j.st).dl = j.st.dl
          /\ TotalReported(j.st).dlst = j.st.dlst /\ j.st.main = "run"
          /\ TotalReport(j.st).by = "main" /\ TotalReport(j.st).type = "result"
      BY <1>1, <2>1 DEF MaySendTotal, CanReportTotal, TotalReported, JobState, TotalReport, ResultReport
    <3>. QED  BY <1>6, <1>10, <2>1, <3>1 DEF JobReportTotal, Reports, Inside
  <2>2. CASE MaySkipTotal(j.st) /\ JobGoesOn(j, TotalSkipped(j.st)) /\ reqs' = reqs
    <3>1. /\ TotalSkipped(j.st).main = "end" /\ TotalSkipped(j.st).dl = j.st.dl
          /\ TotalSkipped(j.st).dlst = j.st.dlst /\ j.st.main = "run" /\ ~Fetching(j.st)
      BY <1>1, <2>2 DEF MaySkipTotal, CanReportTotal, TotalSkipped, JobState, Fetching
    <3>. QED  BY <1>2, <1>10, <2>2, <3>1 DEF JobReportTotal, Moves, Inside
  <2>. QED  BY <1>10, <2>1, <2>2 DEF JobReportTotal
<1>. QED  BY <1>3, <1>4, <1>5, <1>7, <1>8, <1>9, <1>10 DEF JobNext

\* So the steps of a job keep the invariant.
LEMMA JobCarries ==
  ASSUME TypeInv, RunsUnique, CarryInv, NEW j \in jobs, JobMoves(j)
  PROVE  CarryInv'
<1>1. jobs \subseteq Job
  BY DEF TypeInv, TypeOK
<1>. QED  BY <1>1, MoveCarries, ReportCarries DEF JobMoves

-----------------------------------------------------------------------------
(* Answers. *)

\* What an answer does to the job that waits for it.
LEMMA ResumedFields ==
  ASSUME NEW j \in Job, NEW r \in Req, NEW k, k = Resumed(j, r)
  PROVE  /\ SameRun(k, j) /\ k.st.dl = j.st.dl
         /\ ~(r.awaited /\ Of(r, j)) => k = j
         /\ r.awaited /\ Of(r, j) /\ r.rep.by = "dl"
              => k.st.dlst = "failed" /\ k.st.main = j.st.main
         /\ r.awaited /\ Of(r, j) /\ r.rep.by # "dl"
              => /\ k.st.dlst = j.st.dlst
                 /\ k.st.main = IF r.rep.type = "result" THEN "end" ELSE "run"
<1>1. SameRun(k, j)
  BY ResumedSame
<1>2. CASE r.awaited /\ Of(r, j)
  <2>1. j.st \in JobState /\ k.st = Answered(j.st, r.rep)
    BY <1>2 DEF Resumed, Job
  <2>. QED  BY <1>1, <1>2, <2>1 DEF Answered, JobState
<1>3. CASE ~(r.awaited /\ Of(r, j))
  BY <1>1, <1>3 DEF Resumed
<1>. QED  BY <1>2, <1>3

\* Every job meets the answer, and is gone only when it is over.
LEMMA AnswerBothWays ==
  ASSUME NEW r, Answer(r)
  PROVE  /\ \A k \in jobs' : \E j \in jobs : k = Resumed(j, r)
         /\ \A j \in jobs : Resumed(j, r).st.main # "end" => Resumed(j, r) \in jobs'
  BY DEF Answer, Over

\* Report r is answered and, at most, stays as q, which nobody waits for.
Leaves(r, q) ==
  /\ Answer(r)
  /\ \A p \in reqs' : p \in reqs \ {r} \/ (p = q /\ r.awaited)
  /\ \A p \in reqs : p # r => p \in reqs'
  /\ SameRun(q, r) /\ q.rep = r.rep /\ ~q.awaited

\* Only the goroutine that waited goes on, and nothing else of its run is awaited
\* by it.
LEMMA AnswerWaits ==
  ASSUME TypeInv, Waits, NEW r \in reqs, NEW q, Leaves(r, q)
  PROVE  Waits'
<1>1. jobs \subseteq Job /\ r \in Req /\ r.rep.by \in {"main", "dl"}
  BY DEF TypeInv, TypeOK, Req, ReportKinds
<1>2. \A k \in jobs' : \E j \in jobs : k = Resumed(j, r)
  BY AnswerBothWays DEF Leaves
<1>3. ASSUME NEW p \in reqs', NEW t \in reqs', Awaits(p), Awaits(t), SameRun(p, t)
      PROVE  p = t
  BY <1>3 DEF Waits, Leaves, Awaits
<1>4. ASSUME NEW k \in jobs', NEW p \in reqs', SameRun(p, k) PROVE Waiting(k, p)
  <2>1. PICK j \in jobs : k = Resumed(j, r)
    BY <1>2
  <2>2. SameRun(p, j)
    BY <1>1, <1>4, <2>1, ResumedSame DEF SameRun
  <2>3. CASE ~(r.awaited /\ Of(r, j))
    <3>1. k = j
      BY <1>1, <2>1, <2>3, ResumedFields
    <3>2. p \in reqs
      BY <2>2, <2>3 DEF Leaves, SameRun, Of
    <3>. QED  BY <2>2, <3>1, <3>2 DEF Waits
  <2>4. CASE r.awaited /\ Of(r, j)
    <3>1. SameRun(r, j) /\ Waiting(j, r)
      BY <2>4 DEF SameRun, Of, Waits
    <3>2. CASE r.rep.by = "dl"
      <4>1. k.st.dlst = "failed" /\ k.st.main = j.st.main
        BY <1>1, <2>1, <2>4, <3>2, ResumedFields
      <4>2. p = q \/ (p \in reqs /\ Waiting(j, p))
        BY <2>2 DEF Leaves, Waits
      <4>. QED  BY <3>2, <4>1, <4>2 DEF Waiting, Leaves, Awaits
    <3>3. CASE r.rep.by # "dl"
      <4>1. /\ k.st.dlst = j.st.dlst
            /\ k.st.main = IF r.rep.type = "result" THEN "end" ELSE "run"
        BY <1>1, <2>1, <2>4, <3>3, ResumedFields
      <4>2. Awaits(r) /\ j.st.main = "post"
        BY <1>1, <2>4, <3>1, <3>3 DEF Awaits, Waiting
      <4>3. CASE p = q
        BY <1>1, <3>3, <4>1, <4>3 DEF Leaves, Waiting, Awaits
      <4>4. CASE p # q
        <5>1. p \in reqs /\ p # r /\ Waiting(j, p)
          BY <2>2, <4>4 DEF Leaves, Waits
        <5>2. ~Awaits(p)
          BY <2>2, <3>1, <4>2, <5>1 DEF Waits, SameRun
        <5>. QED  BY <4>1, <4>2, <5>1, <5>2 DEF Waiting
      <4>. QED  BY <4>3, <4>4
    <3>. QED  BY <3>2, <3>3
  <2>. QED  BY <2>3, <2>4
<1>5. ASSUME NEW k \in jobs', k.st.dl > 0 PROVE Fetching(k.st)
  <2>1. PICK j \in jobs : k = Resumed(j, r)
    BY <1>2
  <2>2. k.st.dl = j.st.dl
    BY <1>1, <2>1, ResumedFields
  <2>3. Fetching(j.st)
    BY <1>5, <2>2 DEF Waits
  <2>4. CASE ~(r.awaited /\ Of(r, j))
    BY <1>1, <2>1, <2>3, <2>4, ResumedFields
  <2>5. CASE r.awaited /\ Of(r, j)
    <3>1. r.rep.by # "dl"
      BY <2>3, <2>5 DEF Waits, Waiting, SameRun, Of, Fetching
    <3>2. k.st.dlst = j.st.dlst
      BY <1>1, <2>1, <2>5, <3>1, ResumedFields
    <3>. QED  BY <2>3, <3>2 DEF Fetching
  <2>. QED  BY <2>4, <2>5
<1>. QED  BY <1>3, <1>4, <1>5 DEF Waits, Awaits, SameRun, Waiting, Fetching

\* No other report is answered where the sender of a case report waits.
LEMMA AnswerElsewhere ==
  ASSUME TypeInv, Waits, NEW r \in reqs, NEW p \in reqs, NEW j \in jobs, p # r,
         p.rep.type = "case", p.awaited, SameRun(p, j), j.st.dl > 0
  PROVE  Resumed(j, r) = j
<1>1. /\ j \in Job /\ r \in Req /\ p.rep.by = "main" /\ r.rep.by \in {"main", "dl"}
  BY DEF TypeInv, TypeOK, Req, ReportKinds
<1>2. Fetching(j.st)
  BY DEF Waits
<1>3. ~(r.awaited /\ Of(r, j))
  <2> SUFFICES ASSUME r.awaited, Of(r, j) PROVE FALSE
    OBVIOUS
  <2>1. SameRun(r, j) /\ SameRun(p, r) /\ Awaits(p)
    BY <1>1 DEF SameRun, Of, Awaits
  <2>2. r.rep.by # "dl"
    BY <1>2, <2>1 DEF Waits, Waiting, Fetching
  <2>3. Awaits(r)
    BY <1>1, <2>2 DEF Awaits
  <2>. QED  BY <2>1, <2>3 DEF Waits
<1>. QED  BY <1>1, <1>3, ResumedFields

\* So every other report of a case keeps its sender.
LEMMA AnswerAwaited ==
  ASSUME TypeInv, Waits, CaseAwaited, NEW r \in reqs, NEW q, Leaves(r, q),
         dropped \subseteq dropped',
         reqs' \subseteq reqs \/ (r.rep.type = "case" => r.sub \in dropped')
  PROVE  CaseAwaited'
<1> SUFFICES ASSUME NEW p \in reqs', p.rep.type = "case", p.sub \notin dropped'
             PROVE  /\ p.awaited
                    /\ \E j \in jobs' : SameRun(p, j) /\ j.st.main = "post" /\ j.st.dl > 0
  BY DEF CaseAwaited, SameRun
<1>1. p \in reqs /\ p # r
  BY DEF Leaves, SameRun
<1>2. PICK j \in jobs : p.awaited /\ SameRun(p, j) /\ j.st.main = "post" /\ j.st.dl > 0
  BY <1>1 DEF CaseAwaited
<1>3. Resumed(j, r) = j
  BY <1>1, <1>2, AnswerElsewhere
<1>. QED  BY <1>2, <1>3, AnswerBothWays DEF Leaves

\* A carrier of another submission, or of a later run, is not touched.
LEMMA OthersCarried ==
  ASSUME TypeInv, NEW r \in reqs, NEW q, Leaves(r, q), NEW s \in Subs,
         rows'[s] = rows[s], UNCHANGED <<pushes, queue, sender, web>>,
         s # r.sub \/ rows[s].jid > r.jid, OnTheWay(s)
  PROVE  OnTheWay(s)'
<1>1. /\ jobs \subseteq Job /\ r \in Req /\ r.jid \in Nat /\ rows[s].jid \in Nat
      /\ \A j \in jobs : j.jid \in Nat
      /\ \A p \in reqs : p.jid \in Nat
  BY DEF TypeInv, TypeOK, Req, Job, Row
<1>2. CASE Elsewhere(s)
  BY <1>2, Carriers DEF Elsewhere
<1>3. CASE ByReport(s)
  <2>1. PICK p \in reqs : p.sub = s /\ p.jid >= rows[s].jid /\ p.rep.type = "result"
    BY <1>3 DEF ByReport
  <2>2. p # r
    BY <1>1, <2>1
  <2>. QED  BY <2>1, <2>2, Carriers DEF ByReport, Leaves
<1>4. CASE ByJob(s)
  <2>1. PICK j \in jobs : j.sub = s /\ j.jid >= rows[s].jid /\ Open(j)
    BY <1>4 DEF ByJob
  <2>2. ~Of(r, j)
    BY <1>1, <2>1 DEF Of
  <2>3. Resumed(j, r) = j
    BY <1>1, <2>2, ResumedFields
  <2>4. j \in jobs'
    BY <2>1, <2>3, AnswerBothWays DEF Leaves, Open
  <2>5. \A p \in reqs : SameRun(p, j) => p \in reqs'
    BY <2>2 DEF SameRun, Of, Leaves
  <2>6. Open(j)'
    BY <2>1, <2>5 DEF Open, SameRun, Fetching
  <2>7. ByJob(s)'
    BY <2>1, <2>4, <2>6 DEF ByJob
  <2>. QED  BY <2>7, Carriers
<1>. QED  BY <1>2, <1>3, <1>4, Carriers

\* A report of a case that is lost: its sender goes on.
LEMMA CaseLostCarried ==
  ASSUME TypeInv, NEW r \in reqs, NEW q, Leaves(r, q), NEW s \in Subs,
         rows'[s] = rows[s], UNCHANGED <<pushes, queue, sender, web>>,
         r.rep.type = "case", OnTheWay(s)
  PROVE  OnTheWay(s)'
<1>1. jobs \subseteq Job /\ r \in Req /\ r.rep.by # "dl"
  BY DEF TypeInv, TypeOK, Req, ReportKinds
<1>2. CASE Elsewhere(s)
  BY <1>2, Carriers DEF Elsewhere
<1>3. CASE ByReport(s)
  <2>1. PICK p \in reqs : p.sub = s /\ p.jid >= rows[s].jid /\ p.rep.type = "result"
    BY <1>3 DEF ByReport
  <2>2. p # r
    BY <2>1
  <2>. QED  BY <2>1, <2>2, Carriers DEF ByReport, Leaves
<1>4. CASE ByJob(s)
  <2>1. PICK j \in jobs : j.sub = s /\ j.jid >= rows[s].jid /\ Open(j)
    BY <1>4 DEF ByJob
  <2> DEFINE k == Resumed(j, r)
  <2>2. k.sub = s /\ k.jid = j.jid
    BY <1>1, <2>1, ResumedSame DEF SameRun
  <2>3. k.st.main # "end" /\ Open(k)'
    <3>1. CASE r.awaited /\ Of(r, j)
      <4>1. k.st.dlst = j.st.dlst /\ k.st.main = "run"
        BY <1>1, <3>1, ResumedFields
      <4>. QED  BY <2>1, <4>1 DEF Open, Fetching
    <3>2. CASE ~(r.awaited /\ Of(r, j))
      <4>1. k = j
        BY <1>1, <3>2, ResumedFields
      <4>2. \A p \in reqs : SameRun(p, j) /\ p.awaited => p \in reqs'
        BY <3>2 DEF SameRun, Of, Leaves
      <4>. QED  BY <2>1, <4>1, <4>2 DEF Open, SameRun, Fetching
    <3>. QED  BY <3>1, <3>2
  <2>4. k \in jobs'
    BY <2>3, AnswerBothWays DEF Leaves
  <2> HIDE DEF k
  <2>5. ByJob(s)'
    BY <2>1, <2>2, <2>3, <2>4 DEF ByJob
  <2>. QED  BY <2>5, Carriers
<1>. QED  BY <1>2, <1>3, <1>4, Carriers

\* Report r leaves for good, or stays as a request nobody waits for.
LEMMA LeavesSome ==
  ASSUME TypeInv, NEW r \in reqs, Answer(r), NEW q, q = [r EXCEPT !.awaited = FALSE],
         reqs' = reqs \ {r} \/ (r.awaited /\ reqs' = (reqs \ {r}) \cup {q})
  PROVE  Leaves(r, q)
<1>1. SameRun(q, r) /\ q.rep = r.rep /\ ~q.awaited
  BY DEF TypeInv, TypeOK, Req, SameRun
<1>. QED  BY <1>1 DEF Leaves

\* A report of a case that is stored: its sender goes on, for the run that the row
\* shows from now on.
LEMMA CaseHandledCarried ==
  ASSUME TypeInv, Waits, CaseAwaited, NEW r \in reqs, NEW q, Leaves(r, q),
         r.rep.type = "case", r.sub \notin dropped, rows'[r.sub].jid = r.jid
  PROVE  OnTheWay(r.sub)'
<1>1. jobs \subseteq Job /\ r \in Req /\ r.rep.by # "dl" /\ r.jid \in Nat
  BY DEF TypeInv, TypeOK, Req, ReportKinds
<1>2. PICK j \in jobs : r.awaited /\ SameRun(r, j) /\ j.st.main = "post" /\ j.st.dl > 0
  BY DEF CaseAwaited
<1>3. Of(r, j) /\ Fetching(j.st)
  BY <1>2 DEF SameRun, Of, Waits
<1> DEFINE k == Resumed(j, r)
<1>4. SameRun(k, j) /\ k.st.dlst = j.st.dlst /\ k.st.main = "run"
  BY <1>1, <1>2, <1>3, ResumedFields
<1>5. k \in jobs'
  BY <1>4, AnswerBothWays DEF Leaves
<1> HIDE DEF k
<1>6. k.sub = r.sub /\ k.jid = r.jid /\ Open(k)'
  BY <1>2, <1>3, <1>4 DEF SameRun, Open, Fetching
<1>7. ByJob(r.sub)'
  BY <1>1, <1>5, <1>6 DEF ByJob
<1>. QED  BY <1>7, Carriers

\* The report handlers, and the ways a report gets lost.
LEMMA HandledCarries ==
  ASSUME TypeInv, CarryInv, NEW r \in reqs,
         HandleReport(r) \/ HandleReportAbort(r) \/ LoseReport(r) \/ DetachReport(r)
  PROVE  CarryInv'
<1> DEFINE q == [r EXCEPT !.awaited = FALSE]
<1>1. /\ r \in Req /\ r.sub \in Subs /\ r.jid \in Nat
      /\ r.rep.type \in {"case", "result"}
      /\ \A s \in Subs : rows[s] \in Row /\ rows[s].jid \in Nat
  BY DEF TypeInv, TypeOK, Req, ReportKinds, Row
<1>2. /\ Leaves(r, q) /\ dropped \subseteq dropped'
      /\ UNCHANGED <<pushes, queue, sender, web, listing>>
      /\ \A s \in Subs : s # r.sub => rows'[s] = rows[s]
      /\ HandleReport(r) \/ rows' = rows
  BY <1>1, LeavesSome DEF HandleReport, HandleReportAbort, LoseReport, DetachReport, VerdictLost,
    webVars, connVars, TypeInv, TypeOK
<1>3. Waits'
  BY <1>2, AnswerWaits DEF CarryInv
<1>4. CaseAwaited'
  <2>1. reqs' \subseteq reqs \/ (r.rep.type = "case" => r.sub \in dropped')
    BY DEF HandleReport, HandleReportAbort, LoseReport, DetachReport
  <2>. QED  BY <1>2, <2>1, AnswerAwaited DEF CarryInv
<1> HIDE DEF q
<1>5. ASSUME NEW s \in Subs, Owed(s)' PROVE OnTheWay(s)'
  <2>1. CASE rows'[s] = rows[s] /\ (s # r.sub \/ rows[s].jid > r.jid)
    <3>1. OnTheWay(s)
      BY <1>2, <1>5, <2>1 DEF CarryInv, Owed, Exists
    <3>. QED  BY <1>2, <2>1, <3>1, OthersCarried
  <2>2. CASE s = r.sub /\ ~(rows[s].jid > r.jid)
    <3>0. s \notin dropped' /\ s \notin dropped /\ ~Final(rows'[s].status)
      BY <1>2, <1>5 DEF Owed
    <3>1. CASE HandleReport(r)
      <4>1. rows'[s] = Reported(rows[s], r) /\ ~Stale(rows[s], r.jid)
        BY <2>2, <3>1 DEF HandleReport, TypeInv, TypeOK, Stale
      <4>2. CASE r.rep.type = "case"
        <5>1. rows'[s].jid = r.jid
          BY <1>1, <4>1, <4>2 DEF Reported, UpdateTestCase, Row
        <5>. QED  BY <1>2, <2>2, <3>0, <4>2, <5>1, CaseHandledCarried DEF CarryInv
      <4>3. CASE r.rep.type = "result"
        <5>1. rows'[s].status = r.rep.status
          BY <1>1, <4>1, <4>3 DEF Reported, UpdateResult, Row
        <5>2. Final(r.rep.status)
          BY <1>1, <4>3 DEF Req, ReportKinds, TotalVerdicts, Final, WJ, JG
        <5>. QED  BY <3>0, <5>1, <5>2
      <4>. QED  BY <1>1, <4>2, <4>3
    <3>2. CASE HandleReportAbort(r) \/ LoseReport(r)
      <4>1. r.rep.type = "case" /\ rows' = rows
        BY <1>1, <2>2, <3>0, <3>2 DEF HandleReportAbort, LoseReport, VerdictLost, Stale
      <4>2. OnTheWay(s)
        BY <1>2, <1>5, <4>1 DEF CarryInv, Owed, Exists
      <4>. QED  BY <1>2, <4>1, <4>2, CaseLostCarried
    <3>3. CASE DetachReport(r)
      <4>1. r.rep.type = "result" /\ rows' = rows /\ q \in reqs'
        BY <1>1, <2>2, <3>0, <3>3 DEF DetachReport, q
      <4>2. q.sub = r.sub /\ q.jid = r.jid /\ q.rep = r.rep
        BY <1>2 DEF Leaves, SameRun
      <4>3. ByReport(s)'
        BY <1>1, <2>2, <4>1, <4>2 DEF ByReport
      <4>. QED  BY <4>3, Carriers
    <3>. QED  BY <3>1, <3>2, <3>3
  <2>3. s = r.sub /\ rows[s].jid > r.jid => rows'[s] = rows[s]
    BY <1>1, <1>2 DEF HandleReport, Reported, UpdateTestCase, UpdateResult, Stale, TypeInv, TypeOK
  <2>. QED  BY <1>2, <2>1, <2>2, <2>3
<1>. QED  BY <1>2, <1>3, <1>4, <1>5 DEF CarryInv

-----------------------------------------------------------------------------
(* Steps that leave jobs and reports alone. *)

\* If s is owed a verdict afterwards, then the web server, the queue or a sender
\* has it, or none of them had it and a job or a report still does.
Passed(s) ==
  Owed(s)' => \/ Elsewhere(s)'
              \/ Owed(s) /\ rows'[s].jid = rows[s].jid /\ ~Elsewhere(s)

\* A step that passes every submission on keeps the invariant.
LEMMA QuietCarries ==
  ASSUME CarryInv, UNCHANGED <<jobs, reqs>>, dropped \subseteq dropped',
         listing'.n = 0 => listing' = NoListing, \A s \in Subs : Passed(s)
  PROVE  CarryInv'
<1>1. Waits' /\ CaseAwaited'
  BY DEF CarryInv, Waits, CaseAwaited, Awaits, SameRun, Waiting, Fetching
<1>2. ASSUME NEW s \in Subs, Owed(s)' PROVE OnTheWay(s)'
  <2>1. CASE Elsewhere(s)'
    BY <2>1, Carriers
  <2>2. CASE Owed(s) /\ rows'[s].jid = rows[s].jid /\ ~Elsewhere(s)
    <3>1. ByJob(s) \/ ByReport(s)
      BY <2>2, Carriers DEF CarryInv
    <3>2. \A j : Open(j)' <=> Open(j)
      BY DEF Open, SameRun, Fetching
    <3>3. ByJob(s)' \/ ByReport(s)'
      BY <2>2, <3>1, <3>2 DEF ByJob, ByReport
    <3>. QED  BY <3>3, Carriers
  <2>. QED  BY <1>2, <2>1, <2>2 DEF Passed
<1>. QED  BY <1>1, <1>2 DEF CarryInv

InQueue(q, s) == \E i \in DOMAIN q : q[i] = s

\* LPUSH adds one submission, BRPOP takes the one at the end.
LEMMA QueueKeeps ==
  ASSUME NEW q \in Seq(Subs), NEW s \in Subs
  PROVE  /\ \A t \in Subs : InQueue(q, s) \/ s = t => InQueue(<<t>> \o q, s)
         /\ q # <<>> /\ InQueue(q, s)
              => s = q[Len(q)] \/ InQueue(SubSeq(q, 1, Len(q) - 1), s)
<1>1. ASSUME NEW t \in Subs, InQueue(q, s) \/ s = t PROVE InQueue(<<t>> \o q, s)
  <2>1. /\ DOMAIN (<<t>> \o q) = 1 .. Len(q) + 1 /\ (<<t>> \o q)[1] = t
        /\ \A i \in 1 .. Len(q) : (<<t>> \o q)[i + 1] = q[i]
    OBVIOUS
  <2>2. CASE s = t
    BY <2>1, <2>2 DEF InQueue
  <2>3. CASE InQueue(q, s)
    <3>1. PICK i \in 1 .. Len(q) : q[i] = s
      BY <2>3 DEF InQueue
    <3>2. i + 1 \in 1 .. Len(q) + 1 /\ (<<t>> \o q)[i + 1] = s
      BY <2>1, <3>1
    <3>. QED  BY <2>1, <3>2 DEF InQueue
  <2>. QED  BY <1>1, <2>2, <2>3
<1>2. ASSUME q # <<>>, InQueue(q, s), s # q[Len(q)]
      PROVE  InQueue(SubSeq(q, 1, Len(q) - 1), s)
  <2>1. PICK i \in 1 .. Len(q) : q[i] = s
    BY <1>2 DEF InQueue
  <2>2. i \in 1 .. Len(q) - 1
    BY <1>2, <2>1
  <2>3. /\ DOMAIN SubSeq(q, 1, Len(q) - 1) = 1 .. Len(q) - 1
        /\ SubSeq(q, 1, Len(q) - 1)[i] = q[i]
    BY <1>2, <2>2
  <2>. QED  BY <2>1, <2>2, <2>3 DEF InQueue
<1>. QED  BY <1>1, <1>2

\* The web server passes every submission on, or a fault of its own drops it.
LEMMA WebPasses ==
  ASSUME TypeInv, CarryInv, NEW t \in Subs,
         \/ WebNext \/ WebCrash
         \/ \E s \in Subs : SubmitError(s) \/ SubmitFailedAbort(s)
         \/ \E p \in pushes : RejudgeError(p) \/ HandleSubmit(p)
  PROVE  Passed(t)
<1> USE DEF webVars, connVars, Passed, Owed, Exists
<1>1. /\ rows \in [Subs -> Row] /\ web \in [Subs -> {"none", "wait", "failed", "done"}]
      /\ pushes \subseteq Push /\ queue \in Seq(Subs) /\ rejudges \in Nat
      /\ rows[t] \in Row /\ rows[t].jid \in Nat /\ listing.n \in Nat
      /\ listing.n = 0 => listing = NoListing
  BY DEF TypeInv, TypeOK, Row, CarryInv
<1>2. ASSUME NEW s \in Subs, Submit(s) PROVE Passed(t)
  <2>1. CASE s = t
    <3>1. <<t, 0>> \in pushes' /\ rows'[t].jid = 0
      BY <1>1, <1>2, <2>1 DEF Submit, NewRow
    <3>. QED  BY <1>2, <3>1 DEF Elsewhere, Submit
  <2>2. CASE s # t
    BY <1>1, <1>2, <2>2 DEF Submit, Elsewhere
  <2>. QED  BY <2>1, <2>2
<1>3. ASSUME NEW s \in Subs, SubmitError(s) PROVE Passed(t)
  <2>1. /\ \A p \in pushes : p \in pushes' \/ p = <<s, 0>>
        /\ web[s] = "wait" /\ web' = [web EXCEPT ![s] = "failed"]
        /\ UNCHANGED <<rows, queue, sender, dropped>>
    BY <1>3 DEF SubmitError
  <2>2. Owed(t)' => Owed(t)
    BY <1>1, <2>1
  <2>3. Elsewhere(t) => Elsewhere(t)'
    BY <1>1, <2>1 DEF Elsewhere
  <2>. QED  BY <2>1, <2>2, <2>3
<1>11. ASSUME NEW s \in Subs, SubmitFailedAbort(s) PROVE Passed(t)
  <2>1. /\ web[s] = "failed" /\ web' = [web EXCEPT ![s] = "done"]
        /\ dropped' = dropped \cup {s}
        /\ UNCHANGED <<rows, pushes, queue, sender>>
    BY <1>11 DEF SubmitFailedAbort
  <2>2. CASE s = t
    BY <2>1, <2>2
  <2>3. CASE s # t
    <3>1. web'[t] = web[t] /\ (Owed(t)' => Owed(t)) /\ (Elsewhere(t) => Elsewhere(t)')
      BY <1>1, <2>1, <2>3 DEF Elsewhere
    <3>. QED  BY <2>1, <3>1
  <2>. QED  BY <2>2, <2>3
<1>4. ASSUME NEW s \in Subs, SubmitFailed(s) PROVE Passed(t)
  <2>1. CASE s = t /\ rows[t].jid = 0
    <3>1. rows'[t].status = "IE"
      BY <1>1, <1>4, <2>1 DEF SubmitFailed, UpdateResult, Stale, Row
    <3>. QED  BY <1>4, <3>1 DEF SubmitFailed, Final, WJ, JG
  <2>2. CASE s # t \/ rows[t].jid # 0
    <3>1. rows'[t] = rows[t]
      BY <1>1, <1>4, <2>2 DEF SubmitFailed, UpdateResult, Stale
    <3>2. Elsewhere(t) => Elsewhere(t)'
      BY <1>1, <1>4, <2>2, <3>1 DEF SubmitFailed, Elsewhere
    <3>3. Owed(t)' => Owed(t)
      BY <1>1, <1>4, <3>1 DEF SubmitFailed
    <3>. QED  BY <1>4, <3>1, <3>2, <3>3 DEF SubmitFailed
  <2>. QED  BY <2>1, <2>2
<1>5. ASSUME NEW s \in Subs, Rejudge(s) PROVE Passed(t)
  <2>1. CASE s = t
    <3>1. <<t, rejudges + 1>> \in pushes' /\ rejudges + 1 # 0
      BY <1>1, <1>5, <2>1 DEF Rejudge
    <3>. QED  BY <1>5, <3>1 DEF Elsewhere, Rejudge
  <2>2. CASE s # t
    BY <1>1, <1>5, <2>2 DEF Rejudge, Elsewhere
  <2>. QED  BY <2>1, <2>2
<1>6. ASSUME RejudgeList PROVE Passed(t)
  BY <1>1, <1>6 DEF RejudgeList, Elsewhere
<1>7. ASSUME RejudgeAll PROVE Passed(t)
  <2>1. CASE t \in listing.subs
    <3>1. <<t, listing.n>> \in pushes' /\ listing.n # 0
      BY <1>1, <1>7, <2>1 DEF RejudgeAll
    <3>. QED  BY <1>7, <3>1 DEF Elsewhere, RejudgeAll
  <2>2. CASE t \notin listing.subs
    <3>1. rows'[t].jid = rows[t].jid
      BY <1>1, <1>7 DEF RejudgeAll, ResetForRejudge, Row
    <3>2. Elsewhere(t) => Elsewhere(t)'
      BY <1>1, <1>7, <3>1 DEF RejudgeAll, Elsewhere
    <3>3. Owed(t)' => Owed(t)
      BY <1>1, <1>7, <2>2 DEF RejudgeAll
    <3>. QED  BY <1>7, <3>1, <3>2, <3>3 DEF RejudgeAll
  <2>. QED  BY <2>1, <2>2
<1>8. ASSUME NEW p \in pushes, RejudgeError(p) PROVE Passed(t)
  BY <1>1, <1>8 DEF RejudgeError, Elsewhere
<1>9. ASSUME WebCrash PROVE Passed(t)
  <2>1. /\ web' = [s \in Subs |-> IF web[s] = "none" THEN "none" ELSE "done"]
        /\ t \notin dropped' => /\ t \notin dropped /\ web[t] # "failed"
                                /\ \A p \in pushes : p[1] = t => p \in pushes'
        /\ UNCHANGED <<rows, queue, sender>>
    BY <1>9 DEF WebCrash
  <2>2. Owed(t)' => Owed(t)
    BY <1>1, <2>1
  <2>3. t \notin dropped' /\ Elsewhere(t) => Elsewhere(t)'
    BY <1>1, <2>1 DEF Elsewhere
  <2>. QED  BY <2>1, <2>2, <2>3
<1>10. ASSUME NEW p \in pushes, HandleSubmit(p) PROVE Passed(t)
  <2>1. p[1] \in Subs
    BY <1>1 DEF Push
  <2>2. (InQueue(queue, t) \/ t = p[1]) => InQueue(queue', t)
    BY <1>1, <1>10, <2>1, QueueKeeps DEF HandleSubmit
  <2>3. /\ pushes' = pushes \ {p} /\ UNCHANGED <<rows, sender, dropped>>
        /\ web[t] = "failed" => web'[t] = "failed"
        /\ web'[t] # "none" => web[t] # "none"
    BY <1>1, <1>10, <2>1 DEF HandleSubmit
  <2>4. Elsewhere(t) => Elsewhere(t)'
    BY <2>2, <2>3 DEF Elsewhere, InQueue
  <2>. QED  BY <2>3, <2>4
<1>. QED
  BY <1>1, <1>2, <1>3, <1>4, <1>5, <1>6, <1>7, <1>8, <1>9, <1>10, <1>11 DEF WebNext

\* What one sender c does, if nobody else does anything.
SenderAlone(c) ==
  /\ UNCHANGED <<rows, pushes, web>> /\ dropped \subseteq dropped'
  /\ \A d \in Conns \ {c} : sender'[d] = sender[d]

\* Submission t stays where it is when sender c does not hold it, or goes on
\* holding it, and it is not taken from the queue.
LEMMA SenderKeeps ==
  ASSUME NEW c \in Conns, NEW t \in Subs, SenderAlone(c),
         InQueue(queue, t) /\ t \notin dropped' =>
           InQueue(queue', t) \/ (sender'[c].pc = "load" /\ sender'[c].sub = t),
         Dispatching(c) /\ sender[c].sub = t => t \in dropped' \/ sender'[c] = sender[c]
  PROVE  Passed(t)
<1>1. /\ UNCHANGED <<rows, pushes, web>> /\ dropped \subseteq dropped'
      /\ \A d \in Conns : d # c => sender'[d] = sender[d]
  BY DEF SenderAlone
<1>2. Owed(t)' => Owed(t) /\ t \notin dropped'
  BY <1>1 DEF Owed, Exists
<1>3. ASSUME t \notin dropped', NEW d \in Conns, Dispatching(d), sender[d].sub = t
      PROVE  sender'[d] = sender[d]
  BY <1>1, <1>3
<1>4. t \notin dropped' /\ Elsewhere(t) => Elsewhere(t)'
  BY <1>1, <1>3 DEF Elsewhere, InQueue, Dispatching
<1>. QED  BY <1>1, <1>2, <1>4 DEF Passed

\* The load transaction: the sender goes on with the run it handed out.
LEMMA LoadPasses ==
  ASSUME TypeInv, JidHandedOut, NEW c \in Conns, SenderLoad(c), NEW t \in Subs
  PROVE  Passed(t)
<1> DEFINE s == sender[c].sub
<1>1. /\ s \in Subs /\ sender[c].pc = "load"
      /\ rows' = [rows EXCEPT ![s] = UsedJidPlusOne(@)]
      /\ sender' = [sender EXCEPT ![c].pc = "write", ![c].jid = rows[s].usedJid + 1]
      /\ UNCHANGED <<pushes, web, queue, dropped>>
  BY DEF SenderLoad, TypeInv, SenderHolds, Dispatching, webVars
<1>2. /\ sender'[c].sub = s /\ sender'[c].jid = rows[s].usedJid + 1 /\ sender'[c].pc = "write"
      /\ \A d \in Conns : d # c => sender'[d] = sender[d]
  BY <1>1 DEF TypeInv, TypeOK, Sender
<1>3. rows[s] \in Row /\ rows[s].jid \in Nat /\ rows[s].usedJid \in Nat /\ rows[s].jid <= rows[s].usedJid
  BY <1>1 DEF TypeInv, TypeOK, Row, JidHandedOut
<1>4. rows'[s] = UsedJidPlusOne(rows[s]) /\ \A u \in Subs : u # s => rows'[u] = rows[u]
  BY <1>1 DEF TypeInv, TypeOK
<1>5. rows'[s].jid = rows[s].jid
  BY <1>3, <1>4 DEF UsedJidPlusOne, Row
<1> HIDE DEF s
<1>6. CASE t = s
  <2>1. sender'[c].jid >= rows'[t].jid
    BY <1>2, <1>3, <1>5, <1>6
  <2>. QED  BY <1>2, <1>6, <2>1 DEF Passed, Elsewhere
<1>7. CASE t # s
  <2>1. Elsewhere(t) => Elsewhere(t)'
    BY <1>1, <1>2, <1>4, <1>7 DEF Elsewhere, s
  <2>2. Owed(t)' => Owed(t)
    BY <1>1, <1>4, <1>7 DEF Owed, Exists
  <2>. QED  BY <1>4, <1>7, <2>1, <2>2 DEF Passed
<1>. QED  BY <1>6, <1>7

\* The other steps of a sender, but for the one that starts a job.
LEMMA SenderPasses ==
  ASSUME TypeInv, SlotInv, JidHandedOut, NEW t \in Subs, NEW c \in Conns,
         \/ Connect(c) \/ SenderTake(c) \/ SenderStop(c) \/ SenderCancelled(c)
         \/ SenderPop(c) \/ SenderRedisError(c) \/ SenderLoad(c) \/ SenderLoadError(c)
         \/ SenderWriteLost(c)
  PROVE  Passed(t)
<1> USE DEF webVars, connVars
<1>1. /\ sender \in [Conns -> Sender] /\ queue \in Seq(Subs) /\ rows \in [Subs -> Row]
  BY DEF TypeInv, TypeOK
<1>2. ASSUME Connect(c) \/ SenderTake(c) \/ SenderStop(c) \/ SenderCancelled(c)
      PROVE  Passed(t)
  <2>1. sender[c].pc \notin {"load", "write"}
    BY <1>2 DEF SlotInv, Connect, SenderTake, SenderStop, SenderCancelled
  <2>2. SenderAlone(c) /\ queue' = queue
    BY <1>1, <1>2 DEF Connect, SenderTake, SenderStop, SenderCancelled, SenderReturn, SenderAlone
  <2>. QED  BY <2>1, <2>2, SenderKeeps DEF Dispatching
<1>3. ASSUME SenderPop(c) PROVE Passed(t)
  <2>1. /\ sender[c].pc = "brpop" /\ queue # <<>>
        /\ queue' = SubSeq(queue, 1, Len(queue) - 1)
        /\ sender'[c].pc = "load" /\ sender'[c].sub = queue[Len(queue)]
        /\ SenderAlone(c)
    BY <1>1, <1>3 DEF SenderPop, SenderAlone, Idle
  <2>2. InQueue(queue, t) => InQueue(queue', t) \/ sender'[c].sub = t
    BY <1>1, <2>1, QueueKeeps
  <2>. QED  BY <2>1, <2>2, SenderKeeps DEF Dispatching
<1>4. ASSUME SenderRedisError(c)
      PROVE  Passed(t)
  <2>1. /\ sender[c].pc = "brpop" /\ SenderAlone(c)
        /\ \/ queue' = queue
           \/ /\ queue # <<>> /\ queue' = SubSeq(queue, 1, Len(queue) - 1)
              /\ queue[Len(queue)] \in dropped'
    BY <1>1, <1>4 DEF SenderRedisError, SenderRetry, SenderAlone
  <2>2. InQueue(queue, t) => InQueue(queue', t) \/ t \in dropped'
    BY <1>1, <2>1, QueueKeeps
  <2>. QED  BY <2>1, <2>2, SenderKeeps DEF Dispatching, SenderAlone
<1>5. ASSUME SenderLoadError(c) \/ SenderWriteLost(c)
      PROVE  Passed(t)
  <2>1. SenderAlone(c) /\ queue' = queue /\ sender[c].sub \in dropped'
    BY <1>1, <1>5 DEF SenderLoadError, SenderWriteLost, SenderRetry, SenderAlone
  <2>. QED  BY <2>1, SenderKeeps DEF SenderAlone
<1>6. ASSUME SenderLoad(c) PROVE Passed(t)
  BY <1>6, LoadPasses DEF SenderLoad
<1>. QED  BY <1>2, <1>3, <1>4, <1>5, <1>6

-----------------------------------------------------------------------------
(* Jobs that start, and jobs that are gone with their process. *)

\* A job that starts carries its submission on.
LEMMA WriteCarries ==
  ASSUME TypeInv, RunsUnheard, CarryInv, NEW c \in Conns, SenderWrite(c)
  PROVE  CarryInv'
<1>0. PICK n : n = NewJob(sender[c].sub, sender[c].jid, c)
  OBVIOUS
<1>1. /\ sender[c].pc = "write" /\ sender[c].sub \in Subs
      /\ jobs' = jobs \cup {n} /\ \A d \in Conns : d # c => sender'[d] = sender[d]
      /\ UNCHANGED <<rows, reqs, pushes, queue, web, listing, dropped>>
  BY <1>0 DEF SenderWrite, TypeInv, TypeOK, SenderHolds, Dispatching, webVars
<1>2. n.sub = sender[c].sub /\ n.jid = sender[c].jid /\ n.st = NewState
  BY <1>0 DEF NewJob
<1>3. \A r \in reqs : ~SameRun(r, n)
  BY <1>1, <1>2 DEF RunsUnheard, SameRun
<1>4. n.st.main = "run" /\ Fetching(n.st) /\ n.st.dl = 0
  BY <1>2 DEF NewState, Fetching
<1>5. Waits' /\ CaseAwaited'
  BY <1>1, <1>3, <1>4 DEF CarryInv, Waits, CaseAwaited, Awaits, SameRun, Waiting, Fetching
<1>6. ASSUME NEW s \in Subs, Owed(s)' PROVE OnTheWay(s)'
  <2>1. OnTheWay(s)
    BY <1>1, <1>6 DEF CarryInv, Owed, Exists
  <2>2. ASSUME sender[c].sub = s, sender[c].jid >= rows[s].jid PROVE ByJob(s)'
    <3>1. Open(n)'
      BY <1>4 DEF Open, Fetching
    <3>. QED  BY <1>1, <1>2, <2>2, <3>1 DEF ByJob
  <2>3. \A j : Open(j) <=> Open(j)'
    BY <1>1 DEF Open, SameRun, Fetching
  <2>4. ByJob(s) \/ ByReport(s) => ByJob(s)' \/ ByReport(s)'
    BY <1>1, <2>3 DEF ByJob, ByReport
  <2>5. Elsewhere(s) => Elsewhere(s)' \/ (sender[c].sub = s /\ sender[c].jid >= rows[s].jid)
    BY <1>1 DEF Elsewhere
  <2>. QED  BY <2>1, <2>2, <2>4, <2>5, Carriers
<1>. QED  BY <1>1, <1>5, <1>6 DEF CarryInv

\* A worker that exits takes its jobs with it; those that had not told their
\* verdict count as dropped.
LEMMA ExitCarries ==
  ASSUME TypeInv, CarryInv, NEW c \in Conns, WorkerExit(c)
  PROVE  CarryInv'
<1>1. /\ jobs' \subseteq jobs /\ reqs' = reqs /\ dropped \subseteq dropped' /\ Inside
      /\ \A j \in jobs : j \in jobs' \/ (Unfinished(j) => j.sub \in dropped')
  BY DEF WorkerExit, Inside, webVars, connVars
<1>2. Waits'
  BY <1>1 DEF CarryInv, Waits, Awaits, SameRun, Waiting, Fetching
<1>3. CaseAwaited'
  <2> SUFFICES ASSUME NEW r \in reqs, r.rep.type = "case", r.sub \notin dropped'
               PROVE  /\ r.awaited
                      /\ \E j \in jobs' : SameRun(r, j) /\ j.st.main = "post" /\ j.st.dl > 0
    BY <1>1 DEF CaseAwaited, SameRun
  <2>1. PICK j \in jobs : r.awaited /\ SameRun(r, j) /\ j.st.main = "post" /\ j.st.dl > 0
    BY <1>1 DEF CarryInv, CaseAwaited
  <2>2. Awaits(r) /\ Fetching(j.st)
    BY <2>1 DEF TypeInv, TypeOK, Req, ReportKinds, Awaits, CarryInv, Waits
  <2>3. ASSUME NEW q \in reqs, q.rep.type = "result", Of(q, j) PROVE FALSE
    <3>1. SameRun(q, j) /\ SameRun(q, r) /\ q.rep.by \in {"main", "dl"}
      BY <2>1, <2>3 DEF SameRun, Of, TypeInv, TypeOK, Req, ReportKinds
    <3>2. Waiting(j, q)
      BY <3>1 DEF CarryInv, Waits
    <3>3. Awaits(q)
      BY <2>1, <2>2, <2>3, <3>1, <3>2 DEF Waiting, Fetching, Awaits
    <3>. QED  BY <2>2, <2>3, <3>1, <3>3 DEF CarryInv, Waits
  <2>4. Unfinished(j)
    BY <2>1, <2>3 DEF Unfinished
  <2>. QED  BY <1>1, <2>1, <2>4 DEF SameRun
<1>4. ASSUME NEW s \in Subs, Owed(s)' PROVE OnTheWay(s)'
  <2>1. OnTheWay(s) /\ s \notin dropped' /\ rows' = rows
    BY <1>1, <1>4, InsideOwes DEF CarryInv, Owed, Inside
  <2>2. CASE Elsewhere(s) \/ ByReport(s)
    BY <1>1, <2>1, <2>2, InsideOwes, Carriers DEF ByReport
  <2>3. CASE ByJob(s)
    <3>1. PICK j \in jobs : j.sub = s /\ j.jid >= rows[s].jid /\ Open(j)
      BY <2>3 DEF ByJob
    <3>2. CASE Unfinished(j)
      <4>1. j \in jobs' /\ Open(j)'
        BY <1>1, <2>1, <3>1, <3>2 DEF Open, SameRun, Fetching
      <4>2. ByJob(s)'
        BY <2>1, <3>1, <4>1 DEF ByJob
      <4>. QED  BY <4>2, Carriers
    <3>3. CASE ~Unfinished(j)
      <4>1. PICK q \in reqs : q.rep.type = "result" /\ Of(q, j)
        BY <3>1, <3>3 DEF Unfinished, Open
      <4>2. ByReport(s)'
        BY <1>1, <2>1, <3>1, <4>1 DEF ByReport, Of
      <4>. QED  BY <4>2, Carriers
    <3>. QED  BY <3>2, <3>3
  <2>. QED  BY <2>1, <2>2, <2>3, Carriers
<1>. QED  BY <1>1, <1>2, <1>3, <1>4 DEF CarryInv, Inside

\* What a job does when ppjc is gone.
LEMMA GivenUpFields ==
  ASSUME TypeInv, NEW j \in jobs, NEW k, k = GivenUp(j)
  PROVE  /\ k.sub = j.sub /\ k.jid = j.jid /\ k.st.dl = j.st.dl
         /\ Fetching(j.st) <=> Fetching(k.st)
         /\ k.st.main = IF j.st.main # "post" THEN j.st.main
                        ELSE IF \E r \in reqs : /\ r.awaited /\ Of(r, j)
                                                /\ r.rep.type = "result" /\ r.rep.by = "main"
                             THEN "end" ELSE "run"
<1>1. j \in Job /\ j.st \in JobState
  BY DEF TypeInv, TypeOK, Job
<1>2. /\ k.sub = j.sub /\ k.jid = j.jid /\ k.st.dl = j.st.dl
      /\ k.st.dlst = IF j.st.dlst = "post" THEN "failed" ELSE j.st.dlst
  BY <1>1 DEF GivenUp, Job, JobState
<1>3. k.st.main = IF j.st.main # "post" THEN j.st.main
                  ELSE IF \E r \in reqs : /\ r.awaited /\ Of(r, j)
                                          /\ r.rep.type = "result" /\ r.rep.by = "main"
                       THEN "end" ELSE "run"
  BY <1>1 DEF GivenUp, Job, JobState
<1>. QED  BY <1>2, <1>3 DEF Fetching

\* When ppjc is started again, what it was serving is lost and every job goes on
\* with what it has.
LEMMA RestartCarries ==
  ASSUME TypeInv, CarryInv, PpjcRestart
  PROVE  CarryInv'
<1>1. /\ reqs' = {} /\ UNCHANGED <<rows, queue, listing>> /\ dropped \subseteq dropped'
      /\ web' = [s \in Subs |-> IF web[s] = "wait" THEN "failed" ELSE web[s]]
      /\ jobs' = {k \in {GivenUp(j) : j \in jobs} : ~Over(k.st)}
      /\ \A s \in Subs : s \notin dropped' =>
           /\ \A p \in pushes : p[1] = s => p[2] = 0 /\ web[s] = "wait"
           /\ \A c \in Conns : sender[c].sub # s
           /\ \A r \in reqs : r.sub = s => r.rep.type # "result"
  BY DEF PpjcRestart
<1>2. ASSUME NEW j \in jobs, NEW k, k = GivenUp(j)
      PROVE  /\ k.sub = j.sub /\ k.jid = j.jid /\ k.st.dl = j.st.dl
             /\ Fetching(j.st) => Fetching(k.st)
             /\ k.st.main = IF j.st.main # "post" THEN j.st.main
                            ELSE IF \E r \in reqs : /\ r.awaited /\ Of(r, j)
                                                    /\ r.rep.type = "result" /\ r.rep.by = "main"
                                 THEN "end" ELSE "run"
  BY <1>2, GivenUpFields
<1>3. Waits'
  <2>1. \A k \in jobs' : k.st.dl > 0 => Fetching(k.st)
    BY <1>1, <1>2 DEF CarryInv, Waits
  <2>. QED  BY <1>1, <2>1 DEF Waits, Fetching
<1>4. CaseAwaited'
  BY <1>1 DEF CaseAwaited
<1>5. ASSUME NEW s \in Subs, Owed(s)' PROVE OnTheWay(s)'
  <2>1. OnTheWay(s) /\ s \notin dropped'
    BY <1>1, <1>5 DEF CarryInv, Owed, Exists
  <2>2. CASE Elsewhere(s)
    <3>1. Elsewhere(s)'
      BY <1>1, <2>1, <2>2 DEF Elsewhere
    <3>. QED  BY <3>1, Carriers
  <2>3. CASE ByJob(s)
    <3>1. PICK j \in jobs : j.sub = s /\ j.jid >= rows[s].jid /\ Open(j)
      BY <2>3 DEF ByJob
    <3>2. PICK k : k = GivenUp(j)
      OBVIOUS
    <3>3. ASSUME NEW q \in reqs, q.awaited, Of(q, j), q.rep.type = "result", q.rep.by = "main",
                 j.st.main = "post"
          PROVE  FALSE
      <4>1. PICK r \in reqs : SameRun(r, j) /\ r.rep.type = "case" /\ r.awaited
        BY <3>1, <3>3 DEF Open
      <4>2. Awaits(r) /\ Awaits(q) /\ SameRun(r, q)
        BY <3>3, <4>1 DEF TypeInv, TypeOK, Req, ReportKinds, Awaits, SameRun, Of
      <4>. QED  BY <3>3, <4>1, <4>2 DEF CarryInv, Waits
    <3>4. k.st.main = "run" /\ Fetching(k.st)
      BY <1>2, <3>1, <3>2, <3>3 DEF Open
    <3>5. k \in jobs' /\ Open(k)'
      BY <1>1, <3>2, <3>4 DEF Over, Open, Fetching
    <3>6. k.sub = s /\ k.jid >= rows'[s].jid
      BY <1>1, <1>2, <3>1, <3>2
    <3>7. ByJob(s)'
      BY <3>5, <3>6 DEF ByJob
    <3>. QED  BY <3>7, Carriers
  <2>4. ~ByReport(s)
    BY <1>1, <2>1 DEF ByReport
  <2>. QED  BY <2>1, <2>2, <2>3, <2>4, Carriers
<1>. QED  BY <1>1, <1>3, <1>4, <1>5 DEF CarryInv

\* Nobody has submitted anything yet.
LEMMA CarryInit == Init => CarryInv
  BY DEF Init, CarryInv, Waits, CaseAwaited, Owed, Exists

\* Every action, by the kind of step it is.
LEMMA CarryStep ==
  ASSUME NCases <= 1 \/ "download" \notin FaultKinds,
         IInv, SlotInv, VerdictInv, CarryInv, [Next]_vars
  PROVE  CarryInv'
<1> USE DEF webVars, connVars
<1>1. TypeInv /\ JidHandedOut /\ RunsUnique /\ RunsUnheard
  BY DEF IInv, TypeInv, SenderHolds, VerdictInv
<1>2. ASSUME NEW j \in jobs, JobNext(j) \/ JobDownloadError(j) PROVE CarryInv'
  BY <1>1, <1>2, JobShapes, JobCarries
<1>3. ASSUME NEW r \in reqs,
             HandleReport(r) \/ HandleReportAbort(r) \/ LoseReport(r) \/ DetachReport(r)
      PROVE  CarryInv'
  BY <1>1, <1>3, HandledCarries
<1>4. ASSUME \/ WebNext \/ WebCrash \/ \E s \in Subs : SubmitError(s) \/ SubmitFailedAbort(s)
             \/ \E p \in pushes : RejudgeError(p) \/ HandleSubmit(p)
      PROVE  CarryInv'
  <2>1. UNCHANGED <<jobs, reqs>> /\ dropped \subseteq dropped'
    BY <1>4 DEF WebNext, Submit, SubmitError, SubmitFailed, Rejudge, RejudgeList, RejudgeAll,
      RejudgeError, SubmitFailedAbort, WebCrash, HandleSubmit
  <2>2. \A t \in Subs : Passed(t)
    BY <1>1, <1>4, WebPasses
  <2>3. listing'.n = 0 => listing' = NoListing
    <3>1. listing' = listing \/ listing' = NoListing \/ RejudgeList
      BY <1>4 DEF WebNext, Submit, SubmitError, SubmitFailed, Rejudge, RejudgeAll, RejudgeError,
        SubmitFailedAbort, WebCrash, HandleSubmit
    <3>2. RejudgeList => listing'.n # 0
      BY <1>1 DEF RejudgeList, TypeInv, TypeOK
    <3>. QED  BY <3>1, <3>2 DEF CarryInv
  <2>. QED  BY <2>1, <2>2, <2>3, QuietCarries
<1>5. ASSUME NEW c \in Conns,
             \/ Connect(c) \/ SenderTake(c) \/ SenderStop(c) \/ SenderCancelled(c)
             \/ SenderPop(c) \/ SenderRedisError(c) \/ SenderLoad(c) \/ SenderLoadError(c)
             \/ SenderWriteLost(c)
      PROVE  CarryInv'
  <2>1. UNCHANGED <<jobs, reqs, listing>> /\ dropped \subseteq dropped'
    BY <1>5 DEF Connect, SenderTake, SenderStop, SenderCancelled, SenderPop, SenderRedisError,
      SenderLoad, SenderLoadError, SenderWriteLost
  <2>2. \A t \in Subs : Passed(t)
    BY <1>1, <1>5, SenderPasses
  <2>. QED  BY <2>1, <2>2, QuietCarries DEF CarryInv
<1>6. ASSUME NEW c \in Conns, SenderWrite(c) \/ WorkerExit(c) PROVE CarryInv'
  BY <1>1, <1>6, WriteCarries, ExitCarries
<1>7. CASE PpjcRestart
  BY <1>1, <1>7, RestartCarries
<1>8. ASSUME \/ UNCHANGED vars
             \/ \E c \in Conns : ReaderFinished(c) \/ ReaderClosed(c) \/ ConnDown(c)
             \/ \E t \in Asked : ChangeKey(t) \/ ChangeKeyError(t)
      PROVE  CarryInv'
  <2>1. UNCHANGED <<rows, pushes, queue, sender, web, listing, jobs, reqs, dropped>>
    BY <1>8 DEF vars, ReaderFinished, ReaderClosed, ConnDown, ChangeKey, ChangeKeyError
  <2>2. \A t \in Subs : Passed(t)
    BY <2>1 DEF Passed, Owed, Exists, Elsewhere
  <2>. QED  BY <2>1, <2>2, QuietCarries DEF CarryInv
<1>. QED
  BY <1>2, <1>3, <1>4, <1>5, <1>6, <1>7, <1>8 DEF Next, SenderNext, ReaderNext, FaultNext

\* Whatever is lost, late, given up or started again: a submission without a verdict
\* that no fault took off its way has somebody who is still going to give it one.
\* A download that fails after a case was handed over is the exception: the job
\* keeps its total to itself while the row may have gone back to "judging".
THEOREM NothingEverForgotten ==
  ASSUME NCases <= 1 \/ "download" \notin FaultKinds
  PROVE  Spec => []NothingForgotten
<1>1. Init => SlotInv /\ VerdictInv /\ CarryInv
  BY SlotInit, VerdictInit, CarryInit
<1>2. IInv /\ SlotInv /\ VerdictInv /\ CarryInv /\ [Next]_vars
        => SlotInv' /\ VerdictInv' /\ CarryInv'
  BY SlotStep, VerdictStep, CarryStep DEF IInv, TypeInv, SenderHolds
<1>3. CarryInv => NothingForgotten
  <2>. SUFFICES ASSUME CarryInv, NEW s \in Subs, Owed(s) PROVE Carried(s)
    BY DEF NothingForgotten, Owed
  <2>1. OnTheWay(s)
    BY DEF CarryInv
  <2>2. \A j \in jobs : Open(j) => j.st.main # "end"
    BY DEF Open
  <2>. QED  BY <2>1, <2>2 DEF OnTheWay, Carried
<1>. QED  BY <1>1, <1>2, <1>3, PipelineInv, PTL DEF Spec

-----------------------------------------------------------------------------
(***************************************************************************)
(* A verdict stays until a later run reports.                               *)
(*                                                                         *)
(* It could only give way to a report of a case of its own run.  As long as  *)
(* workers get the answers to their reports, one that may still send such a  *)
(* report knows that no total of the run is out (Unsettled): the reporting   *)
(* goroutine sends one report at a time, the total last, and the downloader  *)
(* reports an error only before the first case.                             *)
(***************************************************************************)
\* No total of the run is on its way or stored.
Unsettled(s, jid) ==
  /\ \A q \in reqs : q.sub = s /\ q.jid = jid => q.rep.type # "result"
  /\ rows[s].jid = jid => ~Final(rows[s].status)

KeptInv ==
  /\ \A j \in jobs :
       /\ j.jid # 0
       /\ Fetching(j.st) /\ j.st.main = "run" => Unsettled(j.sub, j.jid)
       /\ j.st.main = "post" => \E r \in reqs : SameRun(r, j) /\ Awaits(r)
  /\ \A r \in reqs : r.rep.type = "case" =>
       /\ r.jid # 0 /\ r.awaited
       /\ Unsettled(r.sub, r.jid)
       /\ \A j \in jobs : SameRun(r, j) => j.st.dl > 0
  /\ \A c \in Conns : sender[c].pc = "write" => sender[c].jid # 0

-----------------------------------------------------------------------------
(* A step settles no run but one that is handled. *)

\* The row shows no verdict of run jid that it did not show.
NothingStored(s, jid) ==
  rows'[s].jid = jid /\ Final(rows'[s].status) => rows[s].jid = jid /\ Final(rows[s].status)

\* No total of run jid is sent.
NothingSent(s, jid) ==
  \A q \in reqs' : q.sub = s /\ q.jid = jid /\ q.rep.type = "result" => q \in reqs

\* Then the total of the run is still not out.
LEMMA UnsettledStays ==
  ASSUME NEW s, NEW jid, Unsettled(s, jid), NothingStored(s, jid), NothingSent(s, jid)
  PROVE  Unsettled(s, jid)'
  BY DEF Unsettled, NothingStored, NothingSent

\* A job that moves on ...
LEMMA MoveKept ==
  ASSUME jobs \subseteq Job, KeptInv, Inside, NEW j \in jobs, NEW k, Moves(j, k)
  PROVE  KeptInv'
<1>1. /\ reqs' = reqs /\ rows' = rows /\ sender' = sender /\ k.sub = j.sub /\ k.jid = j.jid
      /\ j.st.dl \in Nat /\ (k.st.dl = j.st.dl \/ k.st.dl = j.st.dl + 1)
      /\ k.st.main = "post" => j.st.main = "post"
      /\ k.st.main = "run" => j.st.main = "run"
      /\ Fetching(k.st) => Fetching(j.st)
      /\ \A l \in jobs' : l \in jobs \/ l = k
  BY DEF Moves, Becomes, SameRun, Inside, Job, JobState, Fetching
<1>2. \A s, jid : Unsettled(s, jid)' <=> Unsettled(s, jid)
  BY <1>1 DEF Unsettled
<1>3. ASSUME NEW l \in jobs'
      PROVE  /\ l.jid # 0
             /\ Fetching(l.st) /\ l.st.main = "run" => Unsettled(l.sub, l.jid)'
             /\ l.st.main = "post" => \E r \in reqs' : SameRun(r, l) /\ Awaits(r)
  <2>1. CASE l = k
    BY <1>1, <1>2, <2>1 DEF KeptInv, SameRun
  <2>2. CASE l # k
    BY <1>1, <1>2, <2>2 DEF KeptInv
  <2>. QED  BY <2>1, <2>2
<1>4. ASSUME NEW r \in reqs', r.rep.type = "case"
      PROVE  /\ r.jid # 0 /\ r.awaited /\ Unsettled(r.sub, r.jid)'
             /\ \A l \in jobs' : SameRun(r, l) => l.st.dl > 0
  BY <1>1, <1>2, <1>4 DEF KeptInv, SameRun
<1>. QED  BY <1>1, <1>3, <1>4 DEF KeptInv, SameRun, Awaits, Fetching

\* ... or reports: while a case is reported no total is out, and when a total is
\* sent no case is.
LEMMA ReportKept ==
  ASSUME TypeInv, RunsUnique, Waits, KeptInv, Inside, NEW j \in jobs, NEW q, NEW k,
         Reports(j, q, k)
  PROVE  KeptInv'
<1>1. /\ reqs' = reqs \cup {q} /\ rows' = rows /\ sender' = sender
      /\ k.sub = j.sub /\ k.jid = j.jid /\ q.sub = j.sub /\ q.jid = j.jid /\ q.awaited
      /\ k.st.dl = j.st.dl /\ j.st.dl \in Nat /\ j.jid # 0
      /\ q.rep.type \in {"case", "result"}
  BY DEF Reports, Becomes, SameRun, Inside, TypeInv, TypeOK, Job, JobState, KeptInv
<1>2. \A l \in jobs' : l = k \/ (l \in jobs /\ ~SameRun(l, j))
  BY DEF Reports, Becomes, RunsUnique, SameRun
<1>3. q.rep.type = "case" => j.st.dl > 0 /\ j.st.main = "run" /\ Fetching(j.st)
  BY <1>1 DEF Reports, Waits
<1>4. \A s, jid : NothingStored(s, jid)
  BY <1>1 DEF NothingStored
<1>5. \A s, jid : q.rep.type = "case" \/ s # j.sub \/ jid # j.jid => NothingSent(s, jid)
  BY <1>1 DEF NothingSent
<1>6. ASSUME q.rep.type = "result", NEW r \in reqs, r.rep.type = "case", SameRun(r, j)
      PROVE  FALSE
  <2>1. r.awaited /\ j.st.dl > 0
    BY <1>6 DEF KeptInv
  <2>2. Awaits(r) /\ j.st.main = "post"
    BY <1>6, <2>1 DEF TypeInv, TypeOK, Req, ReportKinds, Awaits, Waits, Waiting
  <2>. QED  BY <1>6, <2>1, <2>2 DEF Reports
<1>7. ASSUME NEW l \in jobs'
      PROVE  /\ l.jid # 0
             /\ Fetching(l.st) /\ l.st.main = "run" => Unsettled(l.sub, l.jid)'
             /\ l.st.main = "post" => \E r \in reqs' : SameRun(r, l) /\ Awaits(r)
  <2>1. CASE l = k
    <3>1. ~(Fetching(l.st) /\ l.st.main = "run")
      BY <2>1 DEF Reports, Fetching
    <3>2. ASSUME l.st.main = "post" PROVE \E r \in reqs' : SameRun(r, l) /\ Awaits(r)
      <4>1. CASE q.rep.by = "main"
        BY <1>1, <2>1, <4>1 DEF SameRun, Awaits
      <4>2. CASE q.rep.by # "main"
        <5>1. j.st.main = "post"
          BY <2>1, <3>2, <4>2 DEF Reports
        <5>. QED  BY <1>1, <2>1, <5>1 DEF KeptInv, SameRun
      <4>. QED  BY <4>1, <4>2
    <3>. QED  BY <1>1, <2>1, <3>1, <3>2
  <2>2. CASE l # k
    <3>1. l \in jobs /\ (l.sub # j.sub \/ l.jid # j.jid)
      BY <1>2, <2>2 DEF SameRun
    <3>2. Fetching(l.st) /\ l.st.main = "run" => Unsettled(l.sub, l.jid)'
      BY <1>4, <1>5, <3>1, UnsettledStays DEF KeptInv
    <3>. QED  BY <1>1, <3>1, <3>2 DEF KeptInv
  <2>. QED  BY <2>1, <2>2
<1>8. ASSUME NEW r \in reqs', r.rep.type = "case"
      PROVE  /\ r.jid # 0 /\ r.awaited /\ Unsettled(r.sub, r.jid)'
             /\ \A l \in jobs' : SameRun(r, l) => l.st.dl > 0
  <2>1. CASE q.rep.type = "case" /\ SameRun(r, j)
    <3>1. Unsettled(j.sub, j.jid)'
      BY <1>3, <1>4, <1>5, <2>1, UnsettledStays DEF KeptInv
    <3>2. \A l \in jobs' : SameRun(r, l) => l = k
      BY <1>2, <2>1 DEF SameRun
    <3>3. r.awaited
      BY <1>1, <1>8 DEF KeptInv
    <3>. QED  BY <1>1, <1>3, <2>1, <3>1, <3>2, <3>3 DEF SameRun
  <2>2. CASE ~(q.rep.type = "case" /\ SameRun(r, j))
    <3>1. r \in reqs /\ ~SameRun(r, j)
      BY <1>1, <1>6, <1>8, <2>2 DEF SameRun
    <3>2. Unsettled(r.sub, r.jid)'
      BY <1>4, <1>5, <1>8, <3>1, UnsettledStays DEF KeptInv, SameRun
    <3>3. \A l \in jobs' : SameRun(r, l) => l \in jobs
      BY <1>1, <1>2, <3>1 DEF SameRun
    <3>. QED  BY <1>8, <3>1, <3>2, <3>3 DEF KeptInv
  <2>. QED  BY <2>1, <2>2
<1>. QED  BY <1>1, <1>7, <1>8 DEF KeptInv, SameRun, Awaits, Fetching

\* A report that is handled or lost: if it was a total, its run tells no more cases.
LEMMA HandledKept ==
  ASSUME TypeInv, Waits, KeptInv, NEW r \in reqs,
         HandleReport(r) \/ HandleReportAbort(r) \/ LoseReport(r)
  PROVE  KeptInv'
<1>1. /\ jobs \subseteq Job /\ r \in Req /\ r.sub \in Subs /\ r.jid \in Nat
      /\ r.rep.type \in {"case", "result"} /\ r.rep.by \in {"main", "dl"}
      /\ r.rep.type = "case" => r.rep.by = "main"
  BY DEF TypeInv, TypeOK, Req, ReportKinds
<1>2. reqs' = reqs \ {r} /\ Answer(r) /\ sender' = sender
  BY DEF HandleReport, HandleReportAbort, LoseReport, connVars
<1>3. ASSUME NEW s \in Subs, NEW jid PROVE NothingStored(s, jid) \/ (s = r.sub /\ jid = r.jid /\ r.rep.type = "result")
  <2>1. rows[s] \in Row /\ (rows'[s] = rows[s] \/ (s = r.sub /\ rows'[s] = Reported(rows[s], r)))
    BY DEF HandleReport, HandleReportAbort, LoseReport, TypeInv, TypeOK
  <2>2. CASE rows'[s] = rows[s]
    BY <2>2 DEF NothingStored
  <2>3. CASE s = r.sub /\ rows'[s] # rows[s]
    <3>1. rows'[s].jid = r.jid /\ (r.rep.type = "case" => rows'[s].status = JG)
      BY <1>1, <2>1, <2>3 DEF Reported, UpdateTestCase, UpdateResult, Row
    <3>. QED  BY <1>1, <2>3, <3>1 DEF NothingStored, Final
  <2>. QED  BY <2>1, <2>2, <2>3
<1>4. \A s, jid : NothingSent(s, jid)
  BY <1>2 DEF NothingSent
<1>5. ASSUME NEW s \in Subs, NEW jid, Unsettled(s, jid) PROVE Unsettled(s, jid)'
  <2>1. ~(s = r.sub /\ jid = r.jid /\ r.rep.type = "result")
    BY <1>5 DEF Unsettled
  <2>. QED  BY <1>3, <1>4, <1>5, <2>1, UnsettledStays
<1>6. ASSUME NEW k \in jobs'
      PROVE  /\ k.jid # 0
             /\ Fetching(k.st) /\ k.st.main = "run" => Unsettled(k.sub, k.jid)'
             /\ k.st.main = "post" => \E p \in reqs' : SameRun(p, k) /\ Awaits(p)
  <2>1. PICK j \in jobs : k = Resumed(j, r)
    BY <1>2, AnswerBothWays
  <2>2. /\ j \in Job /\ j.sub \in Subs /\ SameRun(k, j) /\ k.sub = j.sub /\ k.jid = j.jid
    BY <1>1, <2>1, ResumedFields DEF SameRun, Job
  <2>3. CASE ~(r.awaited /\ Of(r, j))
    <3>1. k = j
      BY <1>1, <2>1, <2>2, <2>3, ResumedFields
    <3>2. \A p \in reqs : SameRun(p, j) /\ Awaits(p) => p \in reqs'
      BY <1>2, <2>3 DEF SameRun, Of, Awaits
    <3>. QED  BY <1>5, <2>2, <3>1, <3>2 DEF KeptInv
  <2>4. CASE r.awaited /\ Of(r, j) /\ r.rep.by = "dl"
    <3>1. k.st.dlst = "failed" /\ k.st.main = j.st.main
      BY <1>1, <2>1, <2>2, <2>4, ResumedFields
    <3>2. \A p \in reqs : SameRun(p, j) /\ Awaits(p) => p \in reqs' /\ SameRun(p, k)
      BY <1>2, <2>2, <2>4 DEF SameRun, Awaits
    <3>. QED  BY <2>2, <3>1, <3>2 DEF KeptInv, Fetching
  <2>5. CASE r.awaited /\ Of(r, j) /\ r.rep.by # "dl"
    <3>1. k.st.main = IF r.rep.type = "result" THEN "end" ELSE "run"
      BY <1>1, <2>1, <2>2, <2>5, ResumedFields
    <3>2. r.rep.type = "case" => Unsettled(k.sub, k.jid)'
      BY <1>1, <1>5, <2>2, <2>5 DEF KeptInv, Of
    <3>. QED  BY <1>1, <2>2, <3>1, <3>2 DEF KeptInv
  <2>. QED  BY <2>3, <2>4, <2>5
<1>7. ASSUME NEW p \in reqs', p.rep.type = "case"
      PROVE  /\ p.jid # 0 /\ p.awaited /\ Unsettled(p.sub, p.jid)'
             /\ \A k \in jobs' : SameRun(p, k) => k.st.dl > 0
  <2>1. p \in reqs /\ p.sub \in Subs
    BY <1>2 DEF TypeInv, TypeOK, Req
  <2>2. ASSUME NEW k \in jobs', SameRun(p, k) PROVE k.st.dl > 0
    <3>1. PICK j \in jobs : k = Resumed(j, r)
      BY <1>2, AnswerBothWays
    <3>2. SameRun(k, j) /\ k.st.dl = j.st.dl
      BY <1>1, <3>1, ResumedFields
    <3>. QED  BY <1>7, <2>1, <2>2, <3>2 DEF KeptInv, SameRun
  <2>. QED  BY <1>5, <1>7, <2>1, <2>2 DEF KeptInv
<1>. QED  BY <1>2, <1>6, <1>7 DEF KeptInv, SameRun, Awaits, Fetching

\* A job that starts: nobody has heard of its run.
LEMMA WriteKept ==
  ASSUME TypeInv, RunsUnheard, KeptInv, NEW c \in Conns, SenderWrite(c)
  PROVE  KeptInv'
<1>0. PICK n : n = NewJob(sender[c].sub, sender[c].jid, c)
  OBVIOUS
<1>1. /\ sender[c].pc = "write" /\ sender[c].jid # 0
      /\ jobs' = jobs \cup {n} /\ \A d \in Conns : d # c => sender'[d] = sender[d]
      /\ sender'[c] = Idle("sel") /\ UNCHANGED <<rows, reqs>>
  BY <1>0 DEF SenderWrite, TypeInv, TypeOK, KeptInv
<1>2. n.sub = sender[c].sub /\ n.jid = sender[c].jid /\ n.st.main = "run"
  BY <1>0 DEF NewJob, NewState
<1>3. (\A r \in reqs : ~SameRun(r, n)) /\ rows[n.sub].jid # n.jid
  BY <1>1, <1>2 DEF RunsUnheard, SameRun
<1>4. Unsettled(n.sub, n.jid)
  BY <1>3 DEF Unsettled, SameRun
<1>5. \A s, jid : Unsettled(s, jid)' <=> Unsettled(s, jid)
  BY <1>1 DEF Unsettled
<1>6. \A d \in Conns : sender'[d].pc = "write" => sender'[d].jid # 0
  BY <1>1 DEF KeptInv, Idle
<1>. QED  BY <1>1, <1>2, <1>3, <1>4, <1>5, <1>6 DEF KeptInv, SameRun, Awaits, Fetching

\* When ppjc is started again, only what the rows show is left.
LEMMA RestartKept ==
  ASSUME TypeInv, Waits, KeptInv, PpjcRestart
  PROVE  KeptInv'
<1>1. /\ reqs' = {} /\ rows' = rows
      /\ jobs' \subseteq {GivenUp(j) : j \in jobs}
      /\ \A c \in Conns : sender'[c].pc # "write" \/ sender'[c] = sender[c]
  BY DEF PpjcRestart, Idle, TypeInv, TypeOK
<1>2. \A s, jid : Unsettled(s, jid) => Unsettled(s, jid)'
  BY <1>1 DEF Unsettled
<1>3. ASSUME NEW k \in jobs'
      PROVE  /\ k.jid # 0 /\ k.st.main # "post"
             /\ Fetching(k.st) /\ k.st.main = "run" => Unsettled(k.sub, k.jid)'
  <2>1. PICK j \in jobs : k = GivenUp(j)
    BY <1>1
  <2>2. /\ k.sub = j.sub /\ k.jid = j.jid /\ (Fetching(k.st) => Fetching(j.st))
        /\ k.st.main = IF j.st.main # "post" THEN j.st.main
                       ELSE IF \E r \in reqs : /\ r.awaited /\ Of(r, j)
                                               /\ r.rep.type = "result" /\ r.rep.by = "main"
                            THEN "end" ELSE "run"
    BY <2>1, GivenUpFields
  <2>3. CASE j.st.main = "post" /\ k.st.main = "run"
    <3>1. PICK r \in reqs : SameRun(r, j) /\ Awaits(r)
      BY <2>3 DEF KeptInv
    <3>2. r.rep.type = "case"
      BY <2>2, <2>3, <3>1 DEF TypeInv, TypeOK, Req, ReportKinds, Awaits, SameRun, Of
    <3>3. Unsettled(k.sub, k.jid)
      BY <2>2, <3>1, <3>2 DEF KeptInv, SameRun
    <3>. QED  BY <1>2, <2>2, <2>3, <3>3 DEF KeptInv
  <2>4. CASE ~(j.st.main = "post" /\ k.st.main = "run")
    BY <1>2, <2>2, <2>4 DEF KeptInv
  <2>. QED  BY <2>3, <2>4
<1>. QED  BY <1>1, <1>3 DEF KeptInv, Fetching

\* A step that leaves reports alone and starts no job; an internal error of the
\* submit handler is run 0.
LEMMA QuietKept ==
  ASSUME TypeInv, KeptInv, jobs' \subseteq jobs, reqs' = reqs,
         \A s \in Subs : \A jid : jid # 0 => NothingStored(s, jid),
         \A c \in Conns : sender'[c].pc = "write" => sender'[c].jid # 0
  PROVE  KeptInv'
<1>1. /\ \A j \in jobs : j.sub \in Subs
      /\ \A r \in reqs : r.sub \in Subs
  BY DEF TypeInv, TypeOK, Job, Req
<1>2. ASSUME NEW s \in Subs, NEW jid, jid # 0, Unsettled(s, jid) PROVE Unsettled(s, jid)'
  BY <1>2, UnsettledStays DEF NothingSent
<1>. QED  BY <1>1, <1>2 DEF KeptInv, SameRun, Awaits, Fetching

\* What the web server and the load transaction do to a row.
LEMMA OthersStoreNothing ==
  ASSUME NEW row \in Row, NEW s, row = rows[s], NEW jid, jid # 0,
         \/ rows'[s] = row
         \/ rows'[s] = NewRow
         \/ rows'[s] = ResetForRejudge(row)
         \/ rows'[s] = UsedJidPlusOne(row)
         \/ rows'[s] = UpdateResult(row, 0, "IE")
  PROVE  NothingStored(s, jid)
<1>1. CASE rows'[s] = row \/ rows'[s] = NewRow
  BY <1>1 DEF NothingStored, NewRow, Final
<1>2. CASE rows'[s] = ResetForRejudge(row) \/ rows'[s] = UsedJidPlusOne(row)
  BY <1>2 DEF NothingStored, ResetForRejudge, UsedJidPlusOne, Row, Final
<1>3. CASE rows'[s] = UpdateResult(row, 0, "IE")
  BY <1>3 DEF NothingStored, UpdateResult, Stale, Row
<1>. QED  BY <1>1, <1>2, <1>3

\* A run that is handed out is not run 0.
LEMMA SendersKept ==
  ASSUME TypeInv, KeptInv, [Next]_vars, NEW c \in Conns, sender'[c].pc = "write"
  PROVE  sender'[c].jid # 0
<1>1. DispatchComes(c)
  BY DispatchesCome DEF Dispatching
<1>2. sender[c].pc = "load" => rows[sender[c].sub].usedJid + 1 # 0
  BY DEF TypeInv, TypeOK, SenderHolds, Dispatching, Row
<1>. QED  BY <1>1, <1>2 DEF DispatchComes, KeptInv

\* Every action, by the kind of step it is.
LEMMA KeptStep ==
  ASSUME NCases <= 1 \/ "download" \notin FaultKinds, "detach" \notin FaultKinds,
         IInv, VerdictInv, CarryInv, KeptInv, [Next]_vars
  PROVE  KeptInv'
<1> USE DEF webVars, connVars
<1>1. TypeInv /\ RunsUnique /\ RunsUnheard /\ Waits /\ rows \in [Subs -> Row] /\ jobs \subseteq Job
  BY DEF IInv, TypeInv, TypeOK, SenderHolds, VerdictInv, CarryInv
<1>2. \A c \in Conns : sender'[c].pc = "write" => sender'[c].jid # 0
  BY <1>1, SendersKept
<1>3. ASSUME NEW j \in jobs, JobNext(j) \/ JobDownloadError(j) PROVE KeptInv'
  BY <1>1, <1>3, JobShapes, MoveKept, ReportKept DEF JobMoves
<1>4. ASSUME NEW r \in reqs, HandleReport(r) \/ HandleReportAbort(r) \/ LoseReport(r)
      PROVE  KeptInv'
  BY <1>1, <1>4, HandledKept
<1>5. ~\E r \in reqs : DetachReport(r)
  BY DEF DetachReport, Fault
<1>6. CASE WebNext
  <2>1. UNCHANGED <<jobs, reqs>>
    BY <1>6 DEF WebNext, Submit, SubmitFailed, Rejudge, RejudgeList, RejudgeAll
  <2>2. ASSUME NEW s \in Subs
        PROVE  \/ rows'[s] = rows[s] \/ rows'[s] = NewRow \/ rows'[s] = ResetForRejudge(rows[s])
               \/ rows'[s] = UpdateResult(rows[s], 0, "IE")
    BY <1>1, <1>6 DEF WebNext, Submit, SubmitFailed, Rejudge, RejudgeList, RejudgeAll
  <2>3. \A s \in Subs : \A jid : jid # 0 => NothingStored(s, jid)
    BY <1>1, <2>2, OthersStoreNothing
  <2>. QED  BY <1>1, <1>2, <2>1, <2>3, QuietKept
<1>7. ASSUME NEW c \in Conns, SenderLoad(c) PROVE KeptInv'
  <2>1. UNCHANGED <<jobs, reqs>>
    BY <1>7 DEF SenderLoad
  <2>2. \A s \in Subs : rows'[s] = rows[s] \/ rows'[s] = UsedJidPlusOne(rows[s])
    BY <1>1, <1>7 DEF SenderLoad
  <2>3. \A s \in Subs : \A jid : jid # 0 => NothingStored(s, jid)
    BY <1>1, <2>2, OthersStoreNothing
  <2>. QED  BY <1>1, <1>2, <2>1, <2>3, QuietKept
<1>8. ASSUME NEW c \in Conns, SenderWrite(c) PROVE KeptInv'
  BY <1>1, <1>8, WriteKept
<1>9. CASE PpjcRestart
  BY <1>1, <1>9, RestartKept
<1>10. CASE jobs' \subseteq jobs /\ UNCHANGED <<rows, reqs>>
  <2>1. \A s \in Subs : \A jid : jid # 0 => NothingStored(s, jid)
    BY <1>10 DEF NothingStored
  <2>. QED  BY <1>1, <1>2, <1>10, <2>1, QuietKept
<1>. QED
  BY <1>3, <1>4, <1>5, <1>6, <1>7, <1>8, <1>9, <1>10
  DEF Next, SenderNext, ReaderNext, FaultNext, vars, SubmitError, SubmitFailedAbort, ChangeKey,
      ChangeKeyError, RejudgeError, WebCrash,
      HandleSubmit, Connect, SenderTake, SenderStop, SenderCancelled, SenderPop,
      SenderRedisError, SenderLoadError, SenderWriteLost, ReaderFinished, ReaderClosed,
      ConnDown, WorkerExit

\* A verdict gives way to "judging" by a report of a case of a later run only.
LEMMA KeptFact ==
  ASSUME TypeInv, KeptInv, [Next]_vars, NEW s \in Subs, Final(rows[s].status),
         rows'[s].status = JG
  PROVE  rows[s].jid < rows'[s].jid
<1>1. rows[s] \in Row /\ rows[s].jid \in Nat /\ rows[s].status # JG
  BY DEF TypeInv, TypeOK, Row, Final
<1>2. PICK r \in reqs : r.sub = s /\ rows'[s] = Reported(rows[s], r)
  <2>1. RowComes(s)
    BY RowsCome
  <2>2. rows'[s] # rows[s] /\ rows'[s] # NewRow
    BY <1>1 DEF NewRow, WJ, JG
  <2>3. /\ rows'[s] # ResetForRejudge(rows[s]) /\ rows'[s] # UsedJidPlusOne(rows[s])
        /\ rows'[s] # UpdateResult(rows[s], 0, "IE")
    BY <1>1 DEF ResetForRejudge, UsedJidPlusOne, UpdateResult, Row, WJ, JG
  <2>. QED  BY <2>1, <2>2, <2>3 DEF RowComes
<1>3. r \in Req /\ r.jid \in Nat
  BY DEF TypeInv, TypeOK, Req
<1>4. r.rep.type = "case" /\ ~Stale(rows[s], r.jid) /\ rows'[s].jid = r.jid
  BY <1>1, <1>2, <1>3
  DEF Reported, UpdateTestCase, UpdateResult, Row, Req, ReportKinds, TotalVerdicts, JG
<1>5. rows[s].jid # r.jid
  BY <1>2, <1>4 DEF KeptInv, Unsettled
<1>. QED  BY <1>1, <1>3, <1>4, <1>5 DEF Stale

\* As long as workers get the answers to their reports, and no download fails after a
\* case was handed over, a verdict is never taken back but by a later run.
THEOREM ResultAlwaysKept ==
  ASSUME NCases <= 1 \/ "download" \notin FaultKinds, "detach" \notin FaultKinds
  PROVE  Spec => ResultKept
<1>1. Init => SlotInv /\ VerdictInv /\ CarryInv /\ KeptInv
  BY SlotInit, VerdictInit, CarryInit DEF Init, KeptInv, Idle
<1>2. IInv /\ SlotInv /\ VerdictInv /\ CarryInv /\ KeptInv /\ [Next]_vars
        => SlotInv' /\ VerdictInv' /\ CarryInv' /\ KeptInv'
  BY SlotStep, VerdictStep, CarryStep, KeptStep DEF IInv, TypeInv, SenderHolds
<1>3. IInv /\ KeptInv /\ [Next]_vars
        => \A s \in Subs : Final(rows[s].status) /\ rows'[s].status = JG
                             => rows[s].jid < rows'[s].jid
  BY KeptFact DEF IInv, TypeInv, SenderHolds
<1>. QED  BY <1>1, <1>2, <1>3, PipelineInv, PTL DEF Spec, ResultKept

==============================================================================
