---------------------------- MODULE JudgePipeline ----------------------------
(***************************************************************************)
(* How a submission travels from the web server to a verdict.              *)
(*                                                                         *)
(*   ppweb    stores the row and asks ppjc to queue it; an administrator   *)
(*            rejudges one submission or all submissions of a problem.     *)
(*   Redis    keeps the judge queue (LPUSH / BRPOP) and the progress text  *)
(*            of the submissions that are being judged.                    *)
(*   ppjc     one goroutine pair per worker connection: the sender pops    *)
(*            submissions while the worker has a free slot and writes them *)
(*            to the websocket, the reader counts finished judges.  Other  *)
(*            goroutines handle the workers' HTTP reports.                 *)
(*   ppjudge  one job per dispatched submission: the downloader goroutine, *)
(*            judge.Run and the reporting goroutine.  The job is reduced   *)
(*            here to what it tells ppjc and when.                         *)
(*                                                                         *)
(* A connection is used once: a worker that reconnects is another element  *)
(* of Conns.  Faults are actions guarded by FaultKinds and counted by      *)
(* MaxFaults; "dropped" records which submissions a fault really cost.     *)
(***************************************************************************)
EXTENDS JobSteps, Sequences, FiniteSets

CONSTANTS Subs,          \* submissions (one contest, one problem)
          Conns,         \* websocket connections of workers
          NoSub,         \* "no submission held"
          Parallel,      \* Popcon-Parallel-Judge of every worker
          MaxRejudge,    \* bound: rejudge commands
          MaxFaults,     \* bound: faults
          MaxEvents,     \* bound: faults, and submissions and rejudges, which count double
          FaultKinds     \* the faults that may happen

AllFaults == {"submit", "web", "redis", "load", "conn", "lose", "detach",
              "abort", "download", "ppjc"}

ASSUME PipelineAssumption ==
  /\ NoSub \notin Subs
  /\ Parallel \in Nat \ {0}
  /\ MaxRejudge \in Nat
  /\ MaxFaults \in Nat
  /\ MaxEvents \in Nat
  /\ FaultKinds \subseteq AllFaults

VARIABLES
  rows,       \* submissions table
  progress,   \* Redis judging_progress_<cid>_<sid>: 0 is "no key", k is "k/N"
  open,       \* transactions of MySQL that hold the lock of a row and are past
              \* the change of its key
  parted,     \* history: submissions whose key or row was last changed alone
  web,        \* the submit handler of each submission
  pushes,     \* /judge/submit requests in flight: <<submission, command>>
  rejudges,   \* rejudge commands given so far
  listing,    \* the rejudge of a whole problem between its SELECT and UPDATE
  queue,      \* Redis list popcon_judge_queue, head first
  conn,       \* websocket of each connection
  closed,     \* closed.Finish() has been called
  sender,     \* the sender goroutine of each connection
  avail,      \* availableThread
  fin,        \* JudgeOneFinished messages not yet read
  jobs,       \* jobs of the workers
  reqs,       \* report requests at ppjc
  faults,     \* history: faults so far
  dropped     \* history: submissions whose way to a verdict a fault cut

webVars  == <<web, pushes, rejudges, listing>>
keyVars  == <<progress, open, parted>>
connVars == <<conn, closed, sender, avail, fin>>
vars == <<rows, keyVars, webVars, queue, connVars, jobs, reqs, faults,
          dropped>>

-----------------------------------------------------------------------------
(* Types. *)

Push == Subs \X Nat                  \* command 0 is the submit handler's

Sender == [pc  : {"none", "top", "brpop", "load", "write", "sel", "end"},
           sub : Subs \cup {NoSub},
           jid : Nat]

Idle(pc) == [pc |-> pc, sub |-> NoSub, jid |-> 0]

\* A job of a worker, and a report ppjc has got from one.
Job == [sub : Subs, jid : Nat, conn : Conns, st : JobState]
Req == [sub : Subs, jid : Nat, awaited : BOOLEAN, rep : ReportKinds]

\* The internal error of the submit handler, which is nobody's report.
WebReport == ResultReport("web", "IE")

\* A transaction of SubmissionUpdateResult or SubmissionUpdateTestCase.
Tx == [sub : Subs, jid : Nat, rep : ReportKinds \cup {WebReport}]

\* The type invariant.
TypeOK ==
  /\ rows \in [Subs -> Row]
  /\ progress \in [Subs -> Nat]
  /\ open \subseteq Tx
  /\ parted \subseteq Subs
  /\ web \in [Subs -> {"none", "wait", "failed", "done"}]
  /\ pushes \subseteq Push
  /\ rejudges \in Nat
  /\ listing \in [n : Nat, subs : SUBSET Subs]
  /\ queue \in Seq(Subs)
  /\ conn \in [Conns -> {"new", "up", "down"}]
  /\ closed \in [Conns -> BOOLEAN]
  /\ sender \in [Conns -> Sender]
  /\ avail \in [Conns -> Nat]
  /\ fin \in [Conns -> Nat]
  /\ jobs \subseteq Job
  /\ reqs \subseteq Req
  /\ faults \in Nat
  /\ dropped \subseteq Subs

NoListing == [n |-> 0, subs |-> {}]

Init ==
  /\ rows = [s \in Subs |-> NewRow]
  /\ progress = [s \in Subs |-> 0]
  /\ open = {}
  /\ parted = {}
  /\ web = [s \in Subs |-> "none"]
  /\ pushes = {}
  /\ rejudges = 0
  /\ listing = NoListing
  /\ queue = <<>>
  /\ conn = [c \in Conns |-> "new"]
  /\ closed = [c \in Conns |-> FALSE]
  /\ sender = [c \in Conns |-> Idle("none")]
  /\ avail = [c \in Conns |-> 0]
  /\ fin = [c \in Conns |-> 0]
  /\ jobs = {}
  /\ reqs = {}
  /\ faults = 0
  /\ dropped = {}

Exists(s) == web[s] # "none"

\* The bound on what the environment does still leaves room for cost.
Within(cost) ==
  2 * (Cardinality({s \in Subs : Exists(s)}) + rejudges) + faults + cost <= MaxEvents

Fault(kind) ==
  /\ kind \in FaultKinds
  /\ faults < MaxFaults /\ Within(1)
  /\ faults' = faults + 1

-----------------------------------------------------------------------------
(***************************************************************************)
(* lib/database: the transaction that stores a report.  It locks the row,   *)
(* compares the runs, changes the key in Redis, updates the row and         *)
(* commits; the key is another server's and does not wait for the commit,   *)
(* so the key and the row change in two steps.                              *)
(***************************************************************************)
TxOf(r)  == [sub |-> r.sub, jid |-> r.jid, rep |-> r.rep]
WebTx(s) == [sub |-> s, jid |-> 0, rep |-> WebReport]

\* Transactions that have been asked for and not ended.
Asked == {TxOf(r) : r \in reqs} \cup {WebTx(s) : s \in {u \in Subs : web[u] = "failed"}}

\* Some transaction is past the change of the key and holds the row.
Locked(s) == \E t \in open : t.sub = s

\* Mutant of ChangesKey: the row is read without its lock.
ChangesKeyUnlocked(t) == t \in Asked \ open /\ ~Stale(rows[t.sub], t.jid)

\* The row is free, and the report is not older than what the row shows.
ChangesKey(t) == /\ t \in Asked
                 /\ ~Locked(t.sub)
                 /\ ~Stale(rows[t.sub], t.jid)

\* The first half: "k/N" for a case, no key for a verdict.
ChangeKey(t) ==
  /\ ChangesKey(t)
  /\ open' = open \cup {t}
  /\ progress' = [progress EXCEPT ![t.sub] =
                    IF t.rep.type = "case" THEN t.rep.id + 1 ELSE 0]
  /\ parted' = parted \ {t.sub}
  /\ UNCHANGED <<rows, webVars, queue, connVars, jobs, reqs, faults, dropped>>

\* Redis fails; the error is logged and the transaction goes on.
ChangeKeyError(t) ==
  /\ Fault("redis")
  /\ ChangesKey(t)
  /\ open' = open \cup {t}
  /\ parted' = parted \cup {t.sub}
  /\ UNCHANGED <<rows, progress, webVars, queue, connVars, jobs, reqs, dropped>>

\* The second half may come: the key is done, or the report is too old and the
\* transaction ends without a change.
Commits(t) == t \in open \/ (~Locked(t.sub) /\ Stale(rows[t.sub], t.jid))

\* The transactions of ended roll back: what they did to the keys stays.
RolledBack(ended) == /\ open' = open \ ended
                     /\ parted' = parted \cup {t.sub : t \in open \cap ended}

-----------------------------------------------------------------------------
(* ppweb. *)

\* POST /contests/<cid>/submit: SubmissionAdd, then JudgeSubmit is called.
Submit(s) ==
  /\ web[s] = "none" /\ Within(2)
  /\ web' = [web EXCEPT ![s] = "wait"]
  /\ rows' = [rows EXCEPT ![s] = NewRow]
  /\ pushes' = pushes \cup {<<s, 0>>}
  /\ UNCHANGED <<keyVars, rejudges, listing, queue, connVars, jobs, reqs,
                 faults, dropped>>

\* JudgeSubmit reports an error; ppjc may still be going to serve the request.
SubmitError(s) ==
  /\ Fault("submit")
  /\ web[s] = "wait"
  /\ web' = [web EXCEPT ![s] = "failed"]
  /\ pushes' \in {pushes, pushes \ {<<s, 0>>}}
  /\ UNCHANGED <<rows, keyVars, rejudges, listing, queue, connVars, jobs,
                 reqs, dropped>>

\* The error branch of the submit handler: an internal error as run 0.
SubmitFailed(s) ==
  /\ web[s] = "failed"
  /\ Commits(WebTx(s))
  /\ open' = open \ {WebTx(s)}
  /\ web' = [web EXCEPT ![s] = "done"]
  /\ rows' = [rows EXCEPT ![s] = UpdateResult(@, 0, "IE")]
  /\ UNCHANGED <<progress, parted, pushes, rejudges, listing, queue, connVars,
                 jobs, reqs, faults, dropped>>

\* Its transaction fails; the handler does not look at the error.
SubmitFailedAbort(s) ==
  /\ Fault("abort")
  /\ web[s] = "failed"
  /\ RolledBack({WebTx(s)})
  /\ web' = [web EXCEPT ![s] = "done"]
  /\ dropped' = dropped \cup {s}
  /\ UNCHANGED <<rows, progress, pushes, rejudges, listing, queue, connVars,
                 jobs, reqs>>

\* POST management/rejudge, target 1: the row is reset, then JudgeSubmit.
Rejudge(s) ==
  /\ Exists(s) /\ ~Locked(s)
  /\ rejudges < MaxRejudge /\ Within(2)
  /\ rejudges' = rejudges + 1
  /\ rows' = [rows EXCEPT ![s] = ResetForRejudge(@)]
  /\ pushes' = pushes \cup {<<s, rejudges + 1>>}
  /\ UNCHANGED <<keyVars, web, listing, queue, connVars, jobs, reqs, faults,
                 dropped>>

\* Target 2, first statement: the submissions of the problem are listed.
RejudgeList ==
  /\ listing = NoListing
  /\ rejudges < MaxRejudge /\ Within(2)
  /\ rejudges' = rejudges + 1
  /\ listing' = [n |-> rejudges + 1, subs |-> {s \in Subs : Exists(s)}]
  /\ UNCHANGED <<rows, keyVars, web, pushes, queue, connVars, jobs, reqs,
                 faults, dropped>>

\* Target 2, second statement and commit: every row of the problem is reset,
\* then JudgeSubmit is called for the listed ones.
RejudgeAll ==
  /\ listing # NoListing
  /\ open = {}
  /\ listing' = NoListing
  /\ rows' = [s \in Subs |-> IF Exists(s) THEN ResetForRejudge(rows[s])
                                          ELSE rows[s]]
  /\ pushes' = pushes \cup (listing.subs \X {listing.n})
  /\ dropped' = dropped \cup {s \in Subs \ listing.subs :
                                Exists(s) /\ Final(rows[s].status)}
  /\ UNCHANGED <<keyVars, web, rejudges, queue, connVars, jobs, reqs, faults>>

\* JudgeSubmit fails for a rejudge: the handler goes on with the next one, and
\* the row stays in queue.
RejudgeError(p) ==
  /\ Fault("submit")
  /\ p \in pushes /\ p[2] # 0
  /\ pushes' = pushes \ {p}
  /\ dropped' = dropped \cup {p[1]}
  /\ UNCHANGED <<rows, keyVars, web, rejudges, listing, queue, connVars, jobs,
                 reqs>>

\* The web server dies: its handlers and their transactions are gone, and the
\* requests it had not sent yet are never sent.
WebCrash ==
  /\ Fault("web")
  /\ web' = [s \in Subs |-> IF web[s] = "none" THEN "none" ELSE "done"]
  /\ pushes' \in SUBSET pushes
  /\ listing' = NoListing
  /\ dropped' = dropped \cup {s \in Subs : \/ web[s] = "failed"
                                           \/ \E p \in pushes \ pushes' : p[1] = s}
  /\ RolledBack({WebTx(s) : s \in Subs})
  /\ UNCHANGED <<rows, progress, rejudges, queue, connVars, jobs, reqs>>

-----------------------------------------------------------------------------
(* ppjc: the queue. *)

\* /judge/submit: LPUSH, then the answer to the web server.
HandleSubmit(p) ==
  /\ p \in pushes
  /\ pushes' = pushes \ {p}
  /\ queue' = <<p[1]>> \o queue
  /\ web' = [web EXCEPT ![p[1]] = IF p[2] = 0 /\ @ = "wait" THEN "done" ELSE @]
  /\ UNCHANGED <<rows, keyVars, rejudges, listing, connVars, jobs, reqs,
                 faults, dropped>>

-----------------------------------------------------------------------------
(* ppjc: the connection of a worker. *)

\* /workers/ws/polling accepts a worker and starts the sender goroutine.
Connect(c) ==
  /\ conn[c] = "new"
  /\ conn' = [conn EXCEPT ![c] = "up"]
  /\ sender' = [sender EXCEPT ![c] = Idle("top")]
  /\ avail' = [avail EXCEPT ![c] = Parallel]
  /\ UNCHANGED <<rows, keyVars, webVars, queue, closed, fin, jobs, reqs,
                 faults, dropped>>

\* The sender goroutine returns; the deferred conn.Close() runs.
SenderReturn(c) ==
  /\ sender' = [sender EXCEPT ![c] = Idle("end")]
  /\ conn' = [conn EXCEPT ![c] = "down"]
  /\ fin' = [fin EXCEPT ![c] = 0]

\* The head of the loop, reached at the start, after an error, and when the
\* ticker fires with the ping sent: a free slot is taken, and the context is
\* looked at before the first BRPOP.  Without a free slot the loop waits in
\* its select ("sel").
SenderTake(c) ==
  /\ sender[c].pc \in {"top", "sel"}
  /\ avail[c] > 0
  /\ avail' = [avail EXCEPT ![c] = @ - 1]
  /\ \/ /\ closed[c]
        /\ SenderReturn(c)
     \/ /\ ~closed[c]
        /\ sender' = [sender EXCEPT ![c] = Idle("brpop")]
        /\ UNCHANGED <<conn, fin>>
  /\ UNCHANGED <<rows, keyVars, webVars, queue, closed, jobs, reqs, faults,
                 dropped>>

\* The select sees closed, or the ping fails.
SenderStop(c) ==
  /\ sender[c].pc = "sel"
  /\ closed[c] \/ conn[c] = "down"
  /\ SenderReturn(c)
  /\ UNCHANGED <<rows, keyVars, webVars, queue, closed, avail, jobs, reqs,
                 faults, dropped>>

\* JudgeQueuePopBlockingWithContext looks at the context again when a BRPOP
\* has timed out.
SenderCancelled(c) ==
  /\ sender[c].pc = "brpop"
  /\ closed[c]
  /\ SenderReturn(c)
  /\ UNCHANGED <<rows, keyVars, webVars, queue, closed, avail, jobs, reqs,
                 faults, dropped>>

\* BRPOP answers with the oldest element, even if the connection has been
\* closed since it was sent.
SenderPop(c) ==
  /\ sender[c].pc = "brpop"
  /\ queue # <<>>
  /\ sender' = [sender EXCEPT ![c] = [Idle("load") EXCEPT
                                        !.sub = queue[Len(queue)]]]
  /\ queue' = SubSeq(queue, 1, Len(queue) - 1)
  /\ UNCHANGED <<rows, keyVars, webVars, conn, closed, avail, fin, jobs,
                 reqs, faults, dropped>>

\* The slot goes back and, after a pause, the loop starts again.
SenderRetry(c) ==
  /\ avail' = [avail EXCEPT ![c] = @ + 1]
  /\ sender' = [sender EXCEPT ![c] = Idle("top")]

\* BRPOP fails; Redis may have removed the element already.
SenderRedisError(c) ==
  /\ Fault("redis")
  /\ sender[c].pc = "brpop"
  /\ SenderRetry(c)
  /\ \/ UNCHANGED <<queue, dropped>>
     \/ /\ queue # <<>>
        /\ queue' = SubSeq(queue, 1, Len(queue) - 1)
        /\ dropped' = dropped \cup {queue[Len(queue)]}
  /\ UNCHANGED <<rows, keyVars, webVars, conn, closed, fin, jobs, reqs>>

\* The transaction that loads the submission, under its row lock, and hands
\* out the next run.
SenderLoad(c) ==
  LET s == sender[c].sub IN
  /\ sender[c].pc = "load"
  /\ ~Locked(s)
  /\ rows' = [rows EXCEPT ![s] = UsedJidPlusOne(@)]
  /\ sender' = [sender EXCEPT ![c].pc = "write",
                              ![c].jid = rows[s].usedJid + 1]
  /\ UNCHANGED <<keyVars, webVars, queue, conn, closed, avail, fin, jobs,
                 reqs, faults, dropped>>

\* The transaction fails: what was popped is not put back.
SenderLoadError(c) ==
  /\ Fault("load")
  /\ sender[c].pc = "load"
  /\ SenderRetry(c)
  /\ dropped' = dropped \cup {sender[c].sub}
  /\ UNCHANGED <<rows, keyVars, webVars, queue, conn, closed, fin, jobs, reqs>>

NewJob(s, jid, c) == [sub |-> s, jid |-> jid, conn |-> c, st |-> NewState]

\* WriteJSON over a working connection: the worker starts a job.
SenderWrite(c) ==
  /\ sender[c].pc = "write"
  /\ conn[c] = "up"
  /\ jobs' = jobs \cup {NewJob(sender[c].sub, sender[c].jid, c)}
  /\ sender' = [sender EXCEPT ![c] = Idle("sel")]
  /\ UNCHANGED <<rows, keyVars, webVars, queue, conn, closed, avail, fin,
                 reqs, faults, dropped>>

\* WriteJSON over a broken one: an error, or bytes nobody will read.
SenderWriteLost(c) ==
  /\ sender[c].pc = "write"
  /\ conn[c] = "down"
  /\ dropped' = dropped \cup {sender[c].sub}
  /\ \/ SenderRetry(c)
     \/ /\ sender' = [sender EXCEPT ![c] = Idle("sel")]
        /\ UNCHANGED avail
  /\ UNCHANGED <<rows, keyVars, webVars, queue, conn, closed, fin, jobs,
                 reqs, faults>>

\* Mutant of ReaderFinished: the slot is not given back.
ReaderFinishedUncounted(c) ==
  /\ ~closed[c]
  /\ fin[c] > 0
  /\ fin' = [fin EXCEPT ![c] = @ - 1]
  /\ UNCHANGED <<rows, keyVars, webVars, queue, conn, closed, sender, avail,
                 jobs, reqs, faults, dropped>>

\* The reader gets JudgeOneFinished.
ReaderFinished(c) ==
  /\ ~closed[c]
  /\ fin[c] > 0
  /\ fin' = [fin EXCEPT ![c] = @ - 1]
  /\ avail' = [avail EXCEPT ![c] = @ + 1]
  /\ UNCHANGED <<rows, keyVars, webVars, queue, conn, closed, sender, jobs,
                 reqs, faults, dropped>>

\* ReadJSON fails on a broken connection: closed.Finish().
ReaderClosed(c) ==
  /\ conn[c] = "down"
  /\ ~closed[c]
  /\ closed' = [closed EXCEPT ![c] = TRUE]
  /\ UNCHANGED <<rows, keyVars, webVars, queue, conn, sender, avail, fin,
                 jobs, reqs, faults, dropped>>

-----------------------------------------------------------------------------
(* ppjudge: the jobs (JobSteps has the steps). *)

\* Job j goes on as st; a job whose goroutines have all returned is gone.
JobGoesOn(j, st) ==
  jobs' = (jobs \ {j}) \cup {k \in {[j EXCEPT !.st = st]} : ~Over(k.st)}

\* A goroutine of job j sends a report and waits for the answer.
Send(j, rep) ==
  reqs' = reqs \cup {[sub |-> j.sub, jid |-> j.jid, awaited |-> TRUE,
                      rep |-> rep]}

jobRest == <<rows, keyVars, webVars, queue, conn, closed, sender, avail,
             dropped>>

JobRefused(j) ==
  /\ CanRefuse(j.st)
  /\ JobGoesOn(j, Refused(j.st))
  /\ Send(j, RefusedReport)
  /\ UNCHANGED <<jobRest, fin, faults>>

JobDownload(j) ==
  /\ CanDownload(j.st)
  /\ JobGoesOn(j, Downloaded(j.st))
  /\ UNCHANGED <<jobRest, fin, reqs, faults>>

JobDownloadError(j) ==
  /\ Fault("download")
  /\ CanDownload(j.st)
  /\ JobGoesOn(j, DownloadFailed(j.st))
  /\ Send(j, DownloadFailedReport)
  /\ UNCHANGED <<jobRest, fin>>

JobRunReturns(j) ==
  /\ \E t \in RunResults : CanReturn(j.st, t) /\ JobGoesOn(j, Returned(j.st, t))
  /\ UNCHANGED <<jobRest, fin, reqs, faults>>

JobReportCase(j) ==
  /\ \E v \in Statuses : /\ CanReportCase(j.st, v)
                         /\ JobGoesOn(j, CaseReported(j.st, v))
                         /\ Send(j, NextCaseReport(j.st, v))
  /\ UNCHANGED <<jobRest, fin, faults>>

JobReportTotal(j) ==
  /\ \/ /\ MaySendTotal(j.st)
        /\ JobGoesOn(j, TotalReported(j.st))
        /\ Send(j, TotalReport(j.st))
     \/ /\ MaySkipTotal(j.st)
        /\ JobGoesOn(j, TotalSkipped(j.st))
        /\ UNCHANGED reqs
  /\ UNCHANGED <<jobRest, fin, faults>>

\* The message is lost when the connection is.
JobRelease(j) ==
  /\ CanRelease(j.st)
  /\ JobGoesOn(j, Released(j.st))
  /\ fin' = [fin EXCEPT ![j.conn] = IF conn[j.conn] = "up" THEN @ + 1 ELSE @]
  /\ UNCHANGED <<jobRest, reqs, faults>>

-----------------------------------------------------------------------------
(* ppjc: the report handlers. *)

\* Report r is of job j.
Of(r, j) == r.sub = j.sub /\ r.jid = j.jid

\* The answer to r reaches the goroutine that waits for it.
Resumed(j, r) ==
  IF r.awaited /\ Of(r, j) THEN [j EXCEPT !.st = Answered(@, r.rep)] ELSE j

Answer(r) == jobs' = {k \in {Resumed(j, r) : j \in jobs} : ~Over(k.st)}

\* What a report does to the row.
Reported(row, r) ==
  IF r.rep.type = "case" THEN UpdateTestCase(row, r.jid, r.rep.id, r.rep.status)
                         ELSE UpdateResult(row, r.jid, r.rep.status)

\* /judge/submissions/updateCase and /judge/submissions/updateResult commit.
HandleReport(r) ==
  /\ r \in reqs
  /\ Commits(TxOf(r))
  /\ open' = open \ {TxOf(r)}
  /\ reqs' = reqs \ {r}
  /\ rows' = [rows EXCEPT ![r.sub] = Reported(@, r)]
  /\ Answer(r)
  /\ UNCHANGED <<progress, parted, webVars, queue, connVars, faults, dropped>>

\* A verdict that is thrown away, unless the row belongs to a later run.
VerdictLost(r) ==
  dropped' = dropped \cup {s \in {r.sub} : /\ r.rep.type = "result"
                                           /\ ~Stale(rows[s], r.jid)}

\* The transaction fails before or after the change of the key: status 500.
HandleReportAbort(r) ==
  /\ Fault("abort")
  /\ r \in reqs
  /\ RolledBack({TxOf(r)})
  /\ reqs' = reqs \ {r}
  /\ Answer(r)
  /\ VerdictLost(r)
  /\ UNCHANGED <<rows, progress, webVars, queue, connVars>>

\* The request does not reach ppjc; nobody sends it again.
LoseReport(r) ==
  /\ Fault("lose")
  /\ r \in reqs
  /\ TxOf(r) \notin open
  /\ reqs' = reqs \ {r}
  /\ Answer(r)
  /\ VerdictLost(r)
  /\ UNCHANGED <<rows, keyVars, webVars, queue, connVars>>

\* The worker sees an error for a request that ppjc is going to serve.
DetachReport(r) ==
  /\ Fault("detach")
  /\ r \in reqs
  /\ r.awaited
  /\ reqs' = (reqs \ {r}) \cup {[r EXCEPT !.awaited = FALSE]}
  /\ Answer(r)
  /\ dropped' = dropped \cup {s \in {r.sub} : r.rep.type = "case"}
  /\ UNCHANGED <<rows, keyVars, webVars, queue, connVars>>

-----------------------------------------------------------------------------
(* Connections and processes that go down. *)

\* The websocket breaks, or the worker starts to shut down.
ConnDown(c) ==
  /\ Fault("conn")
  /\ conn[c] = "up"
  /\ conn' = [conn EXCEPT ![c] = "down"]
  /\ fin' = [fin EXCEPT ![c] = 0]
  /\ UNCHANGED <<rows, keyVars, webVars, queue, closed, sender, avail, jobs,
                 reqs, dropped>>

\* No verdict of the job is on its way.
Unfinished(j) ==
  /\ j.st.main # "end"
  /\ ~\E r \in reqs : r.rep.type = "result" /\ Of(r, j)

\* The worker of a broken connection exits; it does not wait for its jobs.
WorkerExit(c) ==
  LET gone == {j \in jobs : j.conn = c} IN
  /\ conn[c] = "down"
  /\ gone # {}
  /\ jobs' = jobs \ gone
  /\ dropped' = dropped \cup {j.sub : j \in {k \in gone : Unfinished(k)}}
  /\ UNCHANGED <<rows, keyVars, webVars, queue, connVars, reqs, faults>>

\* Every goroutine of the job that waits for an answer gets an error instead.
GivenUp(j) ==
  LET dead == {r \in reqs : r.awaited /\ Of(r, j)}
      verdict == \E r \in dead : r.rep.type = "result" /\ r.rep.by = "main"
  IN [j EXCEPT !.st.dlst = IF @ = "post" THEN "failed" ELSE @,
               !.st.main = IF @ # "post" THEN @
                           ELSE IF verdict THEN "end" ELSE "run"]

\* ppjc dies and is started again: connections, senders and the requests it
\* was serving are gone with their transactions, Redis and MySQL stay.
PpjcRestart ==
  LET born == {c \in Conns : conn[c] # "new"} IN
  /\ Fault("ppjc")
  /\ conn' = [c \in Conns |-> IF c \in born THEN "down" ELSE conn[c]]
  /\ closed' = [c \in Conns |-> IF c \in born THEN TRUE ELSE closed[c]]
  /\ sender' = [c \in Conns |-> IF c \in born THEN Idle("end") ELSE sender[c]]
  /\ fin' = [c \in Conns |-> 0]
  /\ reqs' = {}
  /\ jobs' = {k \in {GivenUp(j) : j \in jobs} : ~Over(k.st)}
  /\ pushes' = {}
  /\ web' = [s \in Subs |-> IF web[s] = "wait" THEN "failed" ELSE web[s]]
  /\ dropped' = dropped
       \cup {p[1] : p \in {q \in pushes : q[2] # 0 \/ web[q[1]] # "wait"}}
       \cup {s \in Subs : \/ \E c \in Conns : sender[c].sub = s
                          \/ \E r \in reqs : r.sub = s /\ r.rep.type = "result"}
  /\ RolledBack({TxOf(r) : r \in reqs})
  /\ UNCHANGED <<rows, progress, rejudges, listing, queue, avail>>

-----------------------------------------------------------------------------
(* The specification. *)

WebNext ==
  \/ \E s \in Subs : Submit(s) \/ SubmitFailed(s) \/ Rejudge(s)
  \/ RejudgeList \/ RejudgeAll

SenderNext(c) ==
  \/ SenderTake(c) \/ SenderStop(c) \/ SenderCancelled(c) \/ SenderPop(c)
  \/ SenderLoad(c) \/ SenderWrite(c) \/ SenderWriteLost(c)

ReaderNext(c) == ReaderFinished(c) \/ ReaderClosed(c)

JobNext(j) ==
  \/ JobDownload(j) \/ JobRefused(j) \/ JobRunReturns(j)
  \/ JobReportCase(j) \/ JobReportTotal(j) \/ JobRelease(j)

FaultNext ==
  \/ \E s \in Subs : SubmitError(s) \/ SubmitFailedAbort(s)
  \/ \E t \in Asked : ChangeKeyError(t)
  \/ \E p \in pushes : RejudgeError(p)
  \/ WebCrash
  \/ \E c \in Conns : SenderRedisError(c) \/ SenderLoadError(c) \/ ConnDown(c)
  \/ \E j \in jobs : JobDownloadError(j)
  \/ \E r \in reqs : HandleReportAbort(r) \/ LoseReport(r) \/ DetachReport(r)
  \/ PpjcRestart

Next ==
  \/ WebNext
  \/ \E p \in pushes : HandleSubmit(p)
  \/ \E c \in Conns : Connect(c) \/ SenderNext(c) \/ ReaderNext(c) \/ WorkerExit(c)
  \/ \E j \in jobs : JobNext(j)
  \/ \E t \in Asked : ChangeKey(t)
  \/ \E r \in reqs : HandleReport(r)
  \/ FaultNext

Spec == Init /\ [][Next]_vars

(***************************************************************************)
(* Every goroutine that can go on does so.  Users, administrators and       *)
(* faults owe nothing.                                                      *)
(***************************************************************************)
Fairness ==
  /\ \A s \in Subs : WF_vars(SubmitFailed(s))
  /\ WF_vars(RejudgeAll)
  /\ WF_vars(\E p \in pushes : HandleSubmit(p))
  /\ \A c \in Conns : /\ WF_vars(Connect(c))
                      /\ WF_vars(SenderNext(c))
                      /\ WF_vars(ReaderNext(c))
                      /\ WF_vars(WorkerExit(c))
  /\ WF_vars(\E j \in jobs : JobNext(j))
  /\ WF_vars(\E t \in Asked : ChangeKey(t))
  /\ WF_vars(\E r \in reqs : HandleReport(r))

FairSpec == Spec /\ Fairness

-----------------------------------------------------------------------------
(* Safety. *)

\* A row never names a run that was not handed out, and neither do a job, a
\* report or a sender that holds a run: used_jid is ahead of every run around.
JidHandedOut ==
  /\ \A s \in Subs : rows[s].jid <= rows[s].usedJid
  /\ \A j \in jobs : j.jid <= rows[j.sub].usedJid
  /\ \A r \in reqs : r.jid <= rows[r.sub].usedJid
  /\ \A c \in Conns : sender[c].pc = "write" =>
       sender[c].jid <= rows[sender[c].sub].usedJid

\* The row lock of the load transaction gives every dispatch a run of its own,
\* whichever connections dispatch the submission at the same time.
RunsUnique ==
  /\ \A j, k \in jobs : j.sub = k.sub /\ j.jid = k.jid => j = k
  /\ \A c \in Conns : sender[c].pc = "write" =>
       /\ \A j \in jobs : ~(j.sub = sender[c].sub /\ j.jid = sender[c].jid)
       /\ \A d \in Conns : /\ d # c
                           /\ sender[d].pc = "write"
                           /\ sender[d].sub = sender[c].sub
                           => sender[d].jid # sender[c].jid

\* The case rows a user sees belong to the run the verdict belongs to: no
\* report of an older run is mixed in, and a newer run starts from none.
CasesOfRun == \A s \in Subs : \A k \in rows[s].cases : k.jid = rows[s].jid

\* What a user sees of a run belongs together: no case appears twice, and an
\* accepted submission has no failed case next to the verdict.
CasesFitVerdict ==
  \A s \in Subs :
    /\ \A k, l \in rows[s].cases : k.id = l.id => k = l
    /\ rows[s].status = "AC" => \A k \in rows[s].cases : k.status = "AC"

\* SubmissionViewFind asks Redis for the progress of a submission that is being
\* judged and of no other.  When nobody holds the row, the key is there if the
\* row says "judging" and gone if it has a verdict, whichever reports, rejudges
\* and rollbacks came in which order, except after a report that changed one of
\* the two alone (Redis failed, or the transaction rolled back), until the next
\* report of the same or a later run changes both.
ProgressFollowsStatus ==
  \A s \in Subs : ~Locked(s) /\ s \notin parted =>
    /\ rows[s].status = JG => progress[s] # 0
    /\ Final(rows[s].status) => progress[s] = 0

\* Slots a connection has given away: to the sender, to a job that has not
\* called oneFinish, or to a JudgeOneFinished message on its way.
SlotsInUse(c) ==
  (IF sender[c].pc \in {"brpop", "load", "write"} THEN 1 ELSE 0)
  + Cardinality({j \in jobs : j.conn = c /\ ~j.st.released})
  + fin[c]

\* While a connection works no slot is lost or invented, so a worker never runs
\* more judges at once than it asked for.
SlotsConserved ==
  \A c \in Conns : conn[c] = "up" => avail[c] + SlotsInUse(c) = Parallel

\* Somebody is still going to give the submission a verdict.
Carried(s) ==
  \/ \E p \in pushes : p[1] = s
  \/ \E i \in DOMAIN queue : queue[i] = s
  \/ \E c \in Conns : sender[c].sub = s
  \/ \E j \in jobs : j.sub = s /\ j.st.main # "end" /\ j.jid >= rows[s].jid
  \/ \E r \in reqs : r.sub = s /\ r.rep.type = "result" /\ r.jid >= rows[s].jid
  \/ web[s] = "failed" /\ rows[s].jid = 0

\* A submission without a verdict is on its way to one, unless a fault took it
\* off the way.
NothingForgotten ==
  \A s \in Subs : Exists(s) /\ ~Final(rows[s].status) /\ s \notin dropped
                    => Carried(s)

\* The lock of a row has one holder, and no lock outlives the request or the
\* submit handler it was taken for.
LocksAreHeld ==
  /\ open \subseteq Asked
  /\ \A t, u \in open : t.sub = u.sub => t = u

(***************************************************************************)
(* The inductive invariant behind TypeOK, JidHandedOut, RunsUnique and       *)
(* CasesOfRun: a sender in the middle of a dispatch holds a submission, and  *)
(* nothing is under way for a submission that nobody submitted, so the row   *)
(* SubmissionAdd creates is really new.                                      *)
(***************************************************************************)
Dispatching(c) == sender[c].pc \in {"load", "write"}

NothingBeforeSubmit ==
  /\ \A p \in pushes : Exists(p[1])
  /\ \A s \in listing.subs : Exists(s)
  /\ \A i \in DOMAIN queue : Exists(queue[i])
  /\ \A c \in Conns : Dispatching(c) => Exists(sender[c].sub)
  /\ \A j \in jobs : Exists(j.sub)
  /\ \A r \in reqs : Exists(r.sub)
  /\ \A s \in Subs : ~Exists(s) => rows[s] = NewRow

IInv ==
  /\ TypeOK
  /\ \A c \in Conns : Dispatching(c) => sender[c].sub \in Subs
  /\ LocksAreHeld
  /\ NothingBeforeSubmit
  /\ JidHandedOut
  /\ RunsUnique
  /\ CasesOfRun

-----------------------------------------------------------------------------
(* What a step may never do. *)

NoRunGoesBack == \A s \in Subs : /\ rows[s].jid <= rows'[s].jid
                                  /\ rows[s].usedJid <= rows'[s].usedJid

\* The run a row shows never goes back to an older one, and runs are handed
\* out in order.
RunsGoForward == [][NoRunGoesBack]_vars

\* A verdict gives way to "judging" only when a later run reports.
ResultKept ==
  [][\A s \in Subs : Final(rows[s].status) /\ rows'[s].status = JG
                       => rows[s].jid < rows'[s].jid]_vars

-----------------------------------------------------------------------------
(* Liveness. *)

\* Every submission ends up with a verdict that stays, unless a fault took it
\* off the way.
Settles ==
  \A s \in Subs : Exists(s) ~> [](Final(rows[s].status) \/ s \in dropped)

=============================================================================
