# Verification of popcon-sc

TLA+ specifications, TLC configurations and TLAPS proofs for popcon-sc, a
system for programming contests written in Go. Paths and line numbers are
relative to the repository's root.

1. [The system](#1-the-system)
2. [The modules](#2-the-modules)
3. [The runs](#3-the-runs)
4. [Where the code falls short](#4-where-the-code-falls-short)
5. [What is proved](#5-what-is-proved)
6. [What is left out](#6-what-is-left-out)
7. [Plan](#7-plan)

Run a model with `tlc -workers 2 -config <Run>.cfg <Module>` and a proof with
`tlapm <Module>Proofs.tla`. `PROJECT.json` maps every definition to its lines,
lists the runs, the hazards of the code with the properties about them, and for
every property a plausible bug ("mutant") under which TLC finds it violated.

## 1. The system

Four programs share MySQL, MongoDB (GridFS) and Redis:

| program | what it does | goroutines that matter |
|---|---|---|
| `ppweb` | the web pages: accounts, contests, problems, submissions, ranking | one per request |
| `ppjc` | the judge controller: queue, dispatch to workers, reports, ranking table | one per HTTP request; a sender and a reader per worker connection |
| `ppjudge` | a worker: fetches files, compiles and runs programs in containers | per job: main, downloader, reporter; one deleter |
| `ppms` | deletes files some minutes after they were replaced | HTTP handlers; one loop |

A submission travels like this. `ppweb` stores its row and asks `ppjc` over HTTP
to queue it (`LPUSH`). For each worker `ppjc` holds a websocket; its sender
goroutine pops (`BRPOP`) while the worker has a free slot, hands out the next
run number (`used_jid`) under the lock of the row and writes the job to the
socket. The worker judges it and posts a report per case and a total to `ppjc`,
which stores them if the run is not older than the one the row shows and then
updates the ranking table. When the worker is through it returns the slot over
the websocket.

### Components, their state and what makes them correct

| component | state | operations | hard behaviour | correct when |
|---|---|---|---|---|
| submissions table (`lib/database/submission.go`) | rows with status, `jid`, `used_jid`, case rows, file names | add, reset, hand out a run, store a case, store a total, remove | reports of two runs in any order | runs are unique and never go back; case rows belong to the run of the verdict |
| judge queue and progress (`lib/redis`) | list `popcon_judge_queue`, keys `judging_progress_*` | push, blocking pop, set, delete | a pop that is answered after its connection closed | a submission is in the queue or on its way |
| dispatcher of `ppjc` (`ppjc/handlerv1.go:410-623`) | connections, `availableThread`, sender, reader | connect, take a slot, pop, load, write, finish, close | two goroutines per connection, errors at each step | slots are conserved; nothing popped is forgotten unless a fault took it |
| report and submit handlers of `ppjc` | requests | submit, updateCase, updateResult | served late, twice, after a rejudge | verdicts stay; progress follows the status |
| client of `ppjc` (`ppjc/client`) | none but the websocket | HTTP calls, polling | a lost request or a lost answer | (what its callers make of it) |
| job of a worker (`ppjudge/main.go`) | goroutines, two channels, file locks | download, run, report, release | an unsynchronised variable, waits on three sides | it ends; no lock leaks; it tells the truth |
| containers (`ppjudge/judge*.go`, `executor.go`) | directories, cgroups, containers | make, compile, run, check, delete | names may coincide; a dozen error branches | everything runs in its own place; nothing is left behind |
| file cache (`ppjudge/downloader.go`) | two maps with counters, a directory | download, lock, open, close, delete | each call enters the mutex several times | a file in use stays; an unused file goes |
| ranking (`contest_ranking.go`, `types/contest.go`) | a table with a row per user and a column per problem | add a row, add and drop a column, update | read-modify-write without a lock | rows are what the submissions give; order follows the rules |
| submit and rejudge (`ppweb/contest_each.go`) | requests | submit, rejudge one, rejudge all | several statements and an HTTP call | as the dispatcher |
| contest and problem lifecycle | `contests`, participations, problem tables, the times | create, join, set, add, edit and remove problems, remove | sequences of calls across two programs and two databases | the parts of a contest go together; pages show what may be seen |
| test cases and score sets (`contest_problem.go`) | rows, sets, files | replace the list, upload, dispatch | locking reads, snapshots, a list that changes during an upload | sets fit the list; points are earned |
| file store and ppms (`lib/filesystem`, `ppms`) | GridFS, names in rows, a schedule in bolt | make, replace, delete, schedule, sweep | a commit after the schedule, a delay | named files exist; files nobody names are scheduled |
| accounts, sessions, tokens, mail (`ppweb/handler.go`, `lib/redis/redis.go`) | users, sessions, keys | sign up, confirm, log in, change a password | tokens that expire, Redis or mail that fail | confirmation is confirmation; a password is its owner's to change |
| transactions (`lib/database/database.go`) | | begin, commit, roll back | partial failure | (in each module) |
| languages of a worker, settings, administration pages, news/groups/languages tables, legacy ranking, load balancer clients | see [6](#6-what-is-left-out) | | | |

How they interact: `ppweb` calls `ppjc` (submit, contest tables) and `ppms`
(schedule) over HTTP; `ppjc` calls nobody but answers the workers; workers call
`ppjc` and read files through it; all but the workers write MySQL; `ppweb` and
`ppjc` write GridFS; `ppms` deletes from it. Nobody takes a lock across two
calls: what keeps the parts together is the order of the calls and the row
locks of MySQL.

## 2. The modules

| module | models | lines of state and actions in |
|---|---|---|
| `SubmissionStore` | the operations on a row of submissions | `lib/database/submission.go` |
| `JobSteps` | a job as `ppjc` can see it, as operators on a record | `ppjudge/main.go` |
| `JudgePipeline` | web server, Redis, `ppjc`, workers, faults | `ppweb/contest_each.go`, `ppjc/handlerv1.go`, `lib/redis/judge_queue.go`, client |
| `JobReports` | abstract specification: the reports of one job | `ppjudge/main.go` |
| `JudgeJob` | the goroutines and channels of a job | `ppjudge/main.go` |
| `JudgeRun` | directories, cgroups, containers, statuses | `ppjudge/judge_simple.go`, `judge_runCode.go`, `executor.go`, `judge.go` |
| `PPDownloader` | the file cache of a worker | `ppjudge/downloader.go` |
| `RankingBoard` | abstract specification: a ranking that counts each result at once | |
| `Ranking` | the ranking table and the handler that writes it | `lib/database/contest_ranking.go`, `lib/types/contest.go`, `ppjc/handlerv1.go` |
| `ContestTables` | what is made and dropped for a contest | `ppweb/contest_page.go`, `contest_each.go`, `lib/database/contest*.go`, `ppjc/client` |
| `ContestAccess` | who may see and do what, and when | `ppweb/contest_each.go`, `contest_page.go` |
| `TestCases` | cases, score sets, points | `lib/database/contest_problem.go`, `ppweb/contest_each.go`, `ppjc/handlerv1.go` |
| `FileStore` | files, the rows that name them, `ppms` | `lib/filesystem/mongo.go`, `lib/database/*.go`, `ppms` |
| `Accounts` | accounts, sessions, tokens, mail | `ppweb/handler.go`, `mail_template.go`, `lib/redis/redis.go` |
| `MC*` | symmetry and instances for TLC | |
| `*Proofs` | theorems, see [5](#5-what-is-proved) | |

Who uses whom: `JobSteps` extends `SubmissionStore`; `JudgePipeline`,
`JobReports` and `JudgeJob` extend `JobSteps`, so that the pipeline's jobs, the
abstract job and the job with its goroutines take the same steps. `JudgeJob`
instantiates `JobReports`, and `Ranking` instantiates `RankingBoard`, as what
they implement. `JudgePipeline` composes the components a submission passes.

Conventions. A variable marked `history` is not in the code. It records a
fault, or a situation in which the code is known not to keep a property (section
4), so that the property can be stated for everything else; the properties name
what they except. Definitions marked `mutant` are used by nothing but the
mutants. `TypeOK` documents the variables of each module; it is part of most
inductive invariants (section 5). Bounds
are constants marked `bound` and appear in guards only.

### SubmissionStore, JobSteps, JudgePipeline

`rows` is the submissions table; a row keeps what the protocol needs: status,
`jid` (the run it shows), `used_jid` (the last run handed out) and case rows.
`UpdateTestCase` and `UpdateResult` are the two transactions of the report
handlers, with the comparison of `jid` that throws old reports away (`Stale`)
and the deletion of the cases of an older run (`KeptCases`).

`JudgePipeline` has an action per handler or per step of a goroutine between
two points at which another can act: `Submit`, `SubmitFailed`, `Rejudge`,
`RejudgeList`/`RejudgeAll` (the two statements of a rejudge of a whole problem)
for `ppweb`; `HandleSubmit`, `HandleReport` for the handlers of `ppjc`;
`SenderTake`, `SenderPop`, `SenderLoad`, `SenderWrite` and their error paths,
`ReaderFinished`, `ReaderClosed` for the two goroutines of a connection; `Job*`
for a worker, out of `JobSteps`. A report is a request (`reqs`) that is served
at any time, so reports of different runs and of different goroutines of one job
arrive in any order; a goroutine goes on when its own report was answered.

A report is stored in two steps, because the code changes the progress key in Redis
in the middle of a MySQL transaction and Redis does not wait for the commit:
`ChangeKey` locks the row, compares the runs and changes the key, `HandleReport` (or
`SubmitFailed`, for the internal error of the submit handler) updates the row and
commits. In between the transaction is in `open`, and whoever wants the row with a
lock or an UPDATE waits (`Locked`): other reports, the dispatch, the rejudges. Pages
do not lock, so they can see "judging" without a key, or a verdict with one, in every
state with an open transaction. `ChangeKeyError` is the error of Redis that is only
logged; a transaction that rolls back leaves the key changed (`RolledBack`). Both put
the submission into `parted`, until the next report changes key and row.

Ten kinds of faults are actions of their own, switched by `FaultKinds`: a submit
call that fails or seems to (`submit`), the death of the web server (`web`),
Redis (`redis`), the load transaction (`load`), a broken connection and with it
the exit of the worker (`conn`), a report that is lost (`lose`), one that is
served though its sender saw an error (`detach`), a transaction that rolls back
before or after the change in Redis (`abort`), a download (`download`), and the death of
`ppjc` (`ppjc`). The code never sends anything again, so each may cost a
submission its verdict: `dropped` records which, and nothing else may.

### JobReports, JudgeJob

`JudgeJob` has the main goroutine with `judge.Run`, the downloader and the
reporter of a job, `casesChan`, `statusChan` with its capacity, the locks joined
into `releaser`, the variable `lastResultResponded` that two goroutines use
without synchronisation, and the requests in flight. `JobReports` is what `ppjc`
may rely on: cases in order, each started and then given a verdict, one total
after them. `KeepsPromise` is the refinement.

### JudgeRun

`judge.Run` itself: the directories, cgroups and containers of a job by the
names `RandomName` gives them, made in the order of the code (`SetUp`), with the
deferred calls on a stack (`defers`) that every exit unwinds, and the statuses
it puts into the channel (`out`). A name may be drawn twice. What Docker and a
program do is a choice of outcome: ended well, ended badly, could not be run. A
checker's executor that could not be made is used all the same, as in the code,
and the worker panics (`Panic`, `Die`).

### PPDownloader

`counter`, `file` and `expired` are the maps of the cache, `disk` its directory.
`Hit`, `Miss`, `Fetch`, `Register` (with `Adopt` for the loser of a race),
`Lock`, `Unlock`, `OpenFile`, `Opens`, `Close` are the sections of the mutex the
calls go through; `Expire`, `Sweep` and `RemoveFile` are the deleter. A reader
(the reporting goroutine, which compares outputs) may come after the job's
`Unlock`: nobody waits for it. `Panic` is the close of a nil file.

### Ranking, RankingBoard

`cells` and `general` are the row of a user. A report is handled in `Store` (the
transaction of the result), `ReadRow` (the snapshot `RankingUpdate` reads, and
what it computes) and `WriteRow` (its two updates and the commit), because the
code's locking read does not lock. The totals and the evaluation values are those
of `lib/types/contest.go` for each contest type, `Above` is the `ORDER BY` of
the pages. The reference is computed from the submissions table (`DerivedCell`,
`Beats`), and the abstract `RankingBoard` counts each result in one step.

### ContestTables

`contest`, `tables`, `problems`, `columns`, `rankers`, `joined` are what exists
of a contest. Each request is the sequence of steps its handler makes, each of
which may fail; a call of `ppjc` may be done or not and answered or not
(`Calls`). `CREATE TABLE` commits the transaction it is in. gorm's `Save` may
insert a row it does not find (a choice, as its documentation allows both).

### ContestAccess

`PrepareVariables` reads the contest, the participation and the clock; the rest
of a request uses what was read (`req[r].first`, `.started`, ...) while the clock
runs (`Tick`), others join, and the setting form moves the times. Time is counted
in ticks: `Margin` stands for the two minutes of the form, `Window` for the
longest a request takes from reading to deciding and from deciding to writing.
The assumption `2 * Window <= Margin` is the only one about speed.

### TestCases

`cases` and `sets` are what is committed for a problem. `LockNames` and
`CommitNames` are the transaction of the page that replaces both;
`PostUpload`, `LockCase`, `MakeFile`, `CommitUpload` the loop of the upload pages;
`ReadProblem`, `SaveProblem` the problem form, which writes the score column back;
`ReadCases`, `ReadSets`, `Judge` the dispatch (two statements, one snapshot) and
what the worker makes of it. A locking read of an empty list locks a gap, which
several requests may hold and which keeps all of them from inserting (`Waits`).

### FileStore

A slot is a column that names a file: statement, checker, related file, input or
output of a case, message, code, description. `Uses` says what the code does to
a column of each kind; the operations are `Begin`, `Make`, `HandOver` (schedule
the old file), `Commit` and the ways each fails: the program stops or a statement
fails before anything is done (`GivesUp`), the new file is not made, is made in part,
or is never finished because the deferred `Close` fails and nobody looks
(`MakeFails`, `MakePartial`, `MakeUnfinished`), a statement fails after it was made
(`StatementFails`, `StatementIgnored`), ppms is not reached (`Schedule`), and the last
statement or the commit fails when the old file is scheduled already (`CommitFails`,
with the INSERT of a submission and the DELETE of a problem). A removal from GridFS
may fail, and so may bolt (`RemoveNow`, `RemoveTaken`, `Sweep`). `queue` and `taken` are the bolt
database of `ppms` and what its loop has taken out of it. `Delay` stands for the
five minutes, `Window` for the longest a request or a reader takes;
`Delay >= 2 * Window` is assumed.

### Accounts

`account`, `pass`, `sessions` are MySQL; `tokens`, `lastSent` are keys of Redis
that expire with `Tick`; `mailbox` is what was delivered. Every form and the
confirmation link may come with any token of `known`: of any page or delivered mail,
of any user and service, used or expired. What tells them apart is the service in the
name of the key and the value under it. `TokenGetAndRemove` is two steps, `GetToken`
and `DelToken`; `TokenCheckAndRemove` is one. `Stores` says
what gorm stores for `Enabled = false` in a column whose default is true: which it
is depends on gorm, so the instance has both.

## 3. The runs

| run | module | properties | states | time |
|---|---|---|---|---|
| PipelineAll | MCJudgePipeline | IInv, SlotsConserved, NothingForgotten, CasesFitVerdict, RunsGoForward | 2.5 M | 100 s |
| PipelineLive | MCJudgePipeline | ProgressFollowsStatus, Settles, ResultKept | 713 k | 158 s |
| JudgeJob | JudgeJob | NoLockLeaks, ReportsAreTrue, Terminates, KeepsPromise | 4 k | 3 s |
| JudgeRun | MCJudgeRun | OwnPlace, NothingLeft, StatusesAddUp | 2.7 M | 43 s |
| Ranking | MCRanking | TableIsDerived, OrderFollowsRules, OnlyRejudgeLowers, IsABoard | 3.0 M | 100 s |
| Cache | PPDownloader | HeldIsThere, DiskAccounted, CounterCoversUse, UnusedIsDeleted | 1.5 M | 57 s |
| Files | MCFileStore | NamedIsThere, ReadersFindFiles, FilesAccounted | 4.9 M | 83 s |
| Tables | MCContestTables | ProblemsHaveColumns, RankedAreJoined, CreatedIsComplete, GoneIsEmpty | 3.0 M | 42 s |
| Access | ContestAccess | NobodyPeeks, NobodyCopies, SubmittersTakePart, TimesFixed | 3.7 M | 38 s |
| Accounts | MCAccounts | OneTime, Authorised, ToldCanConfirm | 5.1 M | 118 s |
| TestCases | MCTestCases | SetsFitCases, PointsAreEarned, NewestUpload | 2.6 M | 36 s |
| BugDownload | MCJudgePipeline | ResultKept (violated) | | 2 s |

What the bounds are and why they are enough:

- **PipelineAll**: two submissions, one connection with one slot (three dispatches
  meet one slot, and a slot comes back while the reports of its job are still on
  their way, so runs of a submission overlap), one case, two rejudges, two faults of
  any kind, and at most six "events" (a submission and a rejudge cost two, a fault
  one): a submission can be judged three times by runs whose reports mix, and lose
  any two things on the way. Submissions are alike (symmetry). With two slots the
  same properties hold on 5.2 million states, which takes too long for a run that is
  repeated often; `IInv` and `SlotsConserved` are proved for any number of slots.
- **PipelineLive**: one submission and two connections of one slot, so that two
  workers may judge it at the same time, one rejudge and one fault. With `MaxFaults`
  smaller than the number of connections a worker remains, without which nothing
  settles. `detach` and `ppjc` are left to PipelineAll: `ResultKept` does not hold
  with the first, and with the second nobody is left to settle anything. Downloads
  that fail are in BugDownload.
- **JudgeJob**: three cases make six statuses, against a channel of two, so
  `judge.Run` and the reporter wait for each other.
- **JudgeRun**: two jobs of either kind, three names for up to six places, two cases,
  two failures. Jobs and names are alike (symmetry).
- **Ranking**: two users, three submissions of theirs for one problem and one for
  another, so that totals of two cells and ties occur; contest types PCK (value1 and
  value2) and ICPC (sums and penalties); the contest ends before or after the last
  submission; two runs, two reports at a time, one trouble.
- **Cache**: one name (names do not meet), three jobs, so that two race while a third
  comes behind the deleter, three files, two hits.
- **Files**: a slot of any of the seven kinds, two requests of any kind, a reader,
  one failure of any kind at any step; two files make an old one and a new one. The
  second request may do anything to what the first is at. Requests are alike
  (symmetry).
- **Tables**: two requests, a user, two numbers and a limit of two, one failure: a
  creation, a removal or a change and whatever comes in between.
- **Access**: a user, an administrator and a clock of five ticks against a margin of
  two and a window of one; one request may be the setting form.
- **Accounts**: two users, two forms at a time, two tokens of two ticks, and a key of
  two ticks that holds back the next mail: the link and the key can expire one before
  the other. Users are alike, and so are requests (symmetry).
- **TestCases**: forms that lengthen and shorten the list, one with a set past its
  end and one with an empty set; an upload of two files and one of one; three rows.

`CHECK_DEADLOCK FALSE` is in every configuration: the histories are bounded, so a
run in which everything has been done stops; and a worker or a program may be gone
for good. That goroutines do not wait for each other forever is checked as liveness
(`Terminates`, `Settles`).

**Fairness.** PipelineLive: every handler of `net/http` runs to its end, the sender
and the reader of a connection and the goroutines of a job are scheduled (they are
goroutines in loops, and wait on nothing but what the guards say), a worker that
shuts down exits. Users, administrators and faults owe nothing. JudgeJob: each of the
three goroutines is scheduled and each request gets an answer or an error
(`http.Client`). Cache: time passes, the deleter's ticker ticks and its goroutine
runs; jobs owe nothing. The other runs check safety only: whatever happens in them
is started by a user.

What the properties say that a test would hardly find is told at each hazard of
`PROJECT.json`; in short:

- *IInv*, *RunsGoForward*: with any mixture of runs and faults no two dispatches share
  a run number, rows never go back to an older run, and cases of two runs never stand
  side by side. *CasesFitVerdict*: a user never sees an accepted submission with a
  failed case, nor a case twice.
- *SlotsConserved*: over every path of sender, reader and job the slots add up, while
  the connection works.
- *NothingForgotten*, *Settles*: a submission without a verdict is on its way, and it
  arrives; *ResultKept*: for good; *ProgressFollowsStatus*: with the progress key gone,
  whichever of two reports locks the row first.
- *ReportsAreTrue*, *KeepsPromise*, *Terminates*, *NoLockLeaks*: the three goroutines of a
  job together behave like the sequential job.
- *OwnPlace*, *NothingLeft*, *StatusesAddUp*: coinciding names and failing calls end in
  an error, never in a foreign directory, a container without an owner or a verdict
  too many.
- *HeldIsThere*, *CounterCoversUse*, *DiskAccounted*, *UnusedIsDeleted*: the counters keep
  the deleter from files in use, through races of two downloads.
- *TableIsDerived*, *OrderFollowsRules*, *OnlyRejudgeLowers*, *IsABoard*: the incremental
  ranking equals the one computed from the submissions, and is ordered by the rules
  of the contest type.
- *NamedIsThere*, *ReadersFindFiles*, *FilesAccounted*: files are there while somebody may
  want them, and are somebody's to remove.
- *ProblemsHaveColumns*, *RankedAreJoined*, *CreatedIsComplete*, *GoneIsEmpty*: the parts of
  a contest in two databases go together.
- *NobodyPeeks*, *NobodyCopies*, *SubmittersTakePart*, *TimesFixed*: decisions made from what
  was read a while ago are still right when they take effect.
- *OneTime*, *Authorised*, *ToldCanConfirm*: tokens of any page or mail that expire, are
  used twice or are presented where they do not belong give nobody an account, a
  session or a password that is not his; and the limit on mails locks nobody out.
- *SetsFitCases*, *PointsAreEarned*, *NewestUpload*: lists replaced while files are uploaded
  and submissions dispatched.

## 4. Where the code falls short

One disagreement has a run of its own, **BugDownload**: the download of a later case
fails while statuses of earlier cases are not yet reported. The downloader posts an
internal error (`ppjudge/main.go:458`), then a case report of the same run arrives,
which carries the same `jid` and sets the row back to judging; the total is skipped
because of `lastResultResponded` (518). The stored result is gone for good.

The others were met while modelling. Each is modelled as the code does it; where a
property would be violated by it alone, a history variable excepts exactly those
states, and the property holds for the rest.

| where | what happens | in the model |
|---|---|---|
| `ppweb/contest_each.go:1063` | a rejudge of a problem lists, then resets, then pushes: what is submitted between the first two is reset and not pushed | `dropped` in `RejudgeAll` |
| `lib/database/submission.go:485` | pages read row and key without a lock and may find "judging" without a key, or the key of a verdict, while a report is being stored | `open`, `Locked` |
| `lib/database/submission.go:546`, `:602` | an error of Redis is only logged, and a rollback leaves the key changed: they stay apart until the next report | `parted` |
| `ppjudge/main.go:576` | a file that cannot be opened is closed as nil: the worker panics | `Panic` in PPDownloader |
| `ppjudge/downloader.go:70` | a hit counts twice, `Unlock` gives back once: the file is never deleted | `leaked` |
| `ppjudge/downloader.go:118` | a call of `Download` that lasts longer than the expiry loses its file to the deleter | `slow` |
| `ppjudge/judge_runCode.go:243` | the error of the checker's `NewExecutor` is not looked at | `missing`, `Panic` in JudgeRun |
| `lib/database/contest_ranking.go:177` | `FOR UPDATE` has no effect here: two reports on a user lose an update | `raced` |
| `lib/database/contest_ranking.go:199` | "Invalid status of Jid and Sid" is reachable: a run may report twice | a trouble of `Post` |
| `lib/database/contest_ranking.go:215` | a lowered score goes into a cell that names another submission | `spoiled` by a rejudge |
| `lib/types/contest.go:94` | the setting `Penalty` is not used, a wrong answer costs a minute | the run's `Penalty = 1` |
| `lib/database/contest_problem.go:171`, `submission.go:561` | the old file is scheduled before the commit | `doomed` |
| `lib/database/contest_problem.go:546` | the DELETE of a problem may fail after its files were scheduled | `CommitFails`, `doomed` |
| `lib/filesystem/mongo.go:206` | the error of the deferred `Close`, in which GridFS finishes the file, is dropped | `MakeUnfinished`, `doomed` |
| `lib/filesystem/mongo.go:211`, `lib/database/submission.go:93` | a copy that breaks off, or an INSERT that fails, leaves a file nobody knows | `MakePartial`, `CommitFails`, `lost` |
| `lib/database/contest_problem.go:368` | the error of `Save` is dropped and the old file scheduled | `doomed` |
| `lib/database/contest_problem.go:494` | the form saves a stale row, with names of files given away | `doomed`, `lost` |
| `lib/database/contest_problem.go:659`, `submission.go:174` | names are collected when they are empty | `Uncollected`, `lost` |
| `lib/database/contest.go:172` | the description is removed at once, not after the delay, and never again if that fails | `RemoveNow`, `doomed`, `lost` |
| `ppms/remove_file.go:71` | entries leave bolt before the files leave GridFS | `lost` in `PpmsCrash` |
| `ppweb/contest_each.go:1396` | two requests may both pass the check of the limit | `Count`; no property |
| `ppweb/contest_each.go:1168` | two setting forms at once move times that have come | one element in `Editors`; `OneEditor` |
| `lib/database/submission.go:112` | `SubmissionRemove` writes to a nil pointer, submissions of a removed problem stay | `ClearSubmissions` does nothing |
| `lib/redis/redis.go:111` | `GET`, then `DEL`: a token may let two forms through | `GetToken`, `DelToken`; `twice` |
| `ppweb/mail_template.go:51` | the key "mail sent" is set before the mail is sent: who is told to look at his mail may have got none, and gets no other until the key expires | `hit` |
| `lib/database/user.go:21` | the zero value of `Enabled` may be stored as its default, true | `Stores`, `free` |

Seen and not modelled: the checker's time limit is the constant 10
(`ppjudge/judge_runCode.go:243`) and its `stdin.txt` holds a path (296); the wait for
running jobs at the end of `ppjudge` is unreachable (`main.go:620`); a pooled
connection of the queue is not closed (`lib/redis/judge_queue.go:48`); the
`TimeLimit` of a session is not compared (`lib/database/session.go:64`); the route
`[0-9+]` takes one digit (`ppweb/contest_each.go:1920`).

## 5. What is proved

TLC checks the instances above; the following hold for every value of the constants
that the named assumptions allow. All proofs are hierarchical, with one step per
action.

**JudgePipelineProofs**, which begins with lemmas on the operators of `JobSteps`:
`PipelineInv == Spec => []IInv`, under all ten faults and any number of submissions,
connections, slots, cases, rejudges. `IInv` joins types, "a dispatching sender holds a
submission", `LocksAreHeld`, `NothingBeforeSubmit`, `JidHandedOut`, `RunsUnique` and
`CasesOfRun`.
None of the last three is inductive alone: uniqueness needs that `used_jid` is ahead
of every run around (`JidHandedOut`), for the new run to be nobody else's; that needs
`used_jid` never to fall, and the only step that writes a whole row is `Submit`, so
nothing may be under way before it (`NothingBeforeSubmit`). The corollaries
`TypeCorrect`, `JidHandedOutAlways`, `RunsAlwaysUnique`, `CasesAlwaysOfRun` and the
action property `RunsOnlyForward` follow.

`SlotsAlwaysConserved`, in the same module, is for any number of slots and connections
and all faults. The set of jobs changes its elements whenever a job goes on, so the proof
counts by elements: one job gives way to one other of the same run (`GivesWaySame`),
and an answer wakes at most one, because runs are unique (`IInv`). `SlotInv` adds that
a connection that was never accepted has nothing under way, which is what `Connect`
needs to begin with all slots free.

`CasesAlwaysFit` is for all faults, too. A case of the row is a report that was sent once,
so the proof is about what a job has told (`VerdictsTold`): the reports of a run that are
stored or on their way are those the job has counted, no two about one case
(`VerdictsDiffer`), and once an accepted total of a run is out, the job is through and
all that it told of the run is accepted (`AcceptedWhole`).

`ProgressAlwaysFollows` is for all faults as well: key and row agree when no transaction is
between the two and none has parted them. The proof keeps for an open transaction what it
found under the lock (it is not older than the row) and what it wrote (the key of its
report, unless the submission is parted), so that the commit brings the row to the key;
`LocksAlwaysHeld` says that the row it found is the row it will change, because the lock
has one holder and everyone else waits. What it does not say is what pages see in
between.

`NothingEverForgotten`: a submission without a verdict is on its way to one. Who carries
it changes with every step, and one who carries an older run is worth nothing once a newer
one has reported, so `OnTheWay` names the carrier of the run the row shows: the queue, the
sender, a job that will still send its total, or the total. What can undo a verdict is a
late report of a case. `CaseAwaited` says that its sender then waits for the answer,
unless a fault took the submission off its way, and `Waits` who waits for which answer; so
when the report puts the row back to "judging" the total is still to come. The theorem
assumes that no download fails after the first case was handed over (`NCases <= 1`, or no
fault `download`): then the downloader reports the error, and the job, which has another
case to report, keeps its total to itself. That is the finding of section 4, which
`BugDownload` shows. `ResultAlwaysKept` is the action property behind it: a verdict gives
way to "judging" for a newer run only. `KeptInv` adds that whoever may still tell a case
of a run knows that its total is not out (`Unsettled`), which needs that no worker gives
up the wait for an answer (no fault `detach`), or a report of its own would overtake the
one before.

**PPDownloaderProofs**, for any finite set of jobs and any names and files:
`CounterAlwaysCoversUse`, `HeldIsAlwaysThere` and `DiskAlwaysAccounted`. `UseInv` adds
to the counters that a name which is not cached has no user, for it is registered with
the counter 0. `FileInv` adds that what is cached is on disk, under one name and not
about to be removed (`CachedOnDisk`), that a fetched file is of one job and in no entry
(`FetchedApart`, which lets the loser of a race remove its copy), and that a name
between lookup and lock is not expired unless the call was slow (`AtHand`).

**ContestAccessProofs**, under `OneEditor` (one setting form at a time) and
`2 * Window <= Margin`: `NobodyPeeksEver`, `NobodyCopiesEver`, `ListedOnceEver`,
`ButtonWorksEver`, `SubmittersTakePartEver`, `TimesAreFixed`. The invariant `AInv`
says that what the only form has read is what the row holds, and that a time which
was moved behind the back of a request is still further away than the request may
last: more than `Margin` when the form was judged, so at least `Window` when it is
written.

**AccountsProofs**, for any users, requests, tokens and faults: `SessionsAreEnabledEver`,
`AuthorisedEver`, `OneTimeEver`, `ToldCanConfirmEver`. The invariant `UInv` follows a
token from the mail to the form: a live token of a confirmation has the name of the user
whose mail it was in (`TokensAgree`), and a request that is about to enable or to change
something got there with such a token (`RequestInv`), whatever it was called with.
`OnceInv` counts: a token that is still live has let nobody through, and one that was read
has one reader, who will remove it before anybody reads it again, unless it is in `twice`.
`KeysMean` says what the key of an address means while it lives: the last mail was sent
with a link that lives at least as long, or is being sent, or the sending failed. This
is where `Life >= Interval` is needed (the defaults are 1400 minutes and 10); with a
shorter life the code tells users to follow a link that has expired.

**ScoringProofs**, on `TestCases`: `SetsFitEver`, `PointsAreEarnedEver` and `NewestUploadEver` for any
forms, uploads and faults.
`CasesInv` says that the committed sets fit the committed list, that a form which
holds the locks is legal, and that a job has list and sets of one snapshot. The lemma
`PassedIsEarned` shows that for sets that fit the worker's loop, which looks for a
failed case, gives the points of the sets all of whose cases were accepted.
`NewestUpload` is not inductive: an upload and a page of cases write rows back that they
read before. `LocksInv` adds that what the holder of the lock has read is still what is
there, and that only the gap of an empty list has several holders; `RowsInv` that ids are
the rows' own and that no file was uploaded to an id not handed out yet.

**JudgeJobProofs**, for any number of cases and any capacity of the channel of
statuses: `LocksAreGivenBack`, `ReportsTrue`, and the refinement `JobKeepsPromise`, that
the goroutines of a job are seen from `ppjc` as the abstract job of `JobReports`. Four
invariants carry it. `DownloaderInv` relates the downloader's place to the locks it
holds and to `casesChan`; `WaitingInv` says who waits for whose request; `ChannelInv`
counts: the statuses the run has made are those in the channel, those being reported and
those reported, in order; `SentInv` relates the history of reports to where the reporter
is. The refinement mapping `jobBar` is then followed step by step: a step of one
goroutine is a step of the abstract job or none. The cases of the mapping had to be
made exclusive for that: a `CASE` with two true guards is any of the two values.

**ContestTablesProofs**, for any number of requests, users and contests and any faults:
`ProblemsKeepColumns`, `RankedTakePart`, `CreationIsComplete`, `RemovalIsComplete`. The
invariant says what is there before a contest is (nothing, `Unborn`), what a request
that is under way has made by the step it is at (`WhileStanding`), that columns follow
problems but for the one between its two steps (`ColumnsFollow`), and what a removal has
taken away by each of its steps (`RemovalGoesOn`).

**FileStoreProofs**, for any number of columns, requests, readers and files, any delay of
at least twice the window and any faults: `RowsNameFiles`, `ReadersAreServed`,
`NoFileForgotten`. None of the three properties is inductive, because a file is
scheduled while the row still names it. `NamedKept` says how: then a request that holds
the row's lock is about to commit, and the age of the request and the ticks left add up
to more than the delay; `ReadKept` says that what a reader read stays for the rest of its
window; `Accounted` that the old file of a request about to commit is on its way out,
and that a file without a name is in a request's hands. Under these are `Locks` (the
locked row still has the name the request read), `OneSlot` (a name is of one column for
ever), `Fresh` (the new file is known to nobody else), `Kinds` and `Dropping`. The
constant `Slots` is assumed not to be empty, because an idle request needs some column.

**JudgeRun** (its specification is `RunSpec`), in the same module: `RunsInOwnPlace`, `LeavesNothing` and
`StatusesAlwaysAddUp`, for any number of jobs, names, cases and failures; assumed is only
that no job is called "nobody". What a job has is not a set anywhere in the code: it is
what the deferred calls will undo. `StackInv` says that while a job works these follow
from the step of `SetUp` it is at (`Calls`), that no call is deferred twice, and that
removals of containers come before those of directories. `DirsInv` says that a directory
exists exactly if some job owes its removal. Names may clash, so the argument that a step
disturbs no other job is one lemma, `OneJob`: a step touches one name, and that name's
directory is free or the job's own. From there `OwnInv` (what a working job has made is
there and its own) and `LeftInv` (what is there was made by a job that still owes its
removal, where no removal failed) follow action by action; a container made on the
leftovers of a removal that failed is excluded by Docker's own check of the name.
`StatusInv` relates the statuses told to the cases taken: two for each that is done, one
for the case at hand, and the worst of their verdicts is the one remembered.

**Ranking** (its specification is `RankingSpec`), in `ScoringProofs` too: `RankingTypes`,
`TableAlwaysDerived`, `OrderAlwaysFollows`, `ScoresFallOnRejudge` and the refinement
`TableIsABoard`, for any number of users, problems, submissions, runs, posts and reports
handled at the same time, and any number of troubles; the set of problems is finite.
`OrderAlwaysFollows` has the hypothesis `Penalty = 1`: the code counts a minute for every
wrong answer whatever the contest's setting, so for another setting the order of the pages
is not that of the rules (the instance that is checked has the same value).

None of the properties is inductive: a row is right only once its reports are through, so
the invariant says what it is on the way. `RunsInv` ties verdicts and reports to runs: a
user who is not in `spoiled` has one run and one result per submission. `ReadInv` says
that of two reports of a user who have read the row one makes a race; this alone gives
`ScoresFallOnRejudge`, because what was compared at the read is then still there at the
write. `RowInv` says of a clean user that the general column is the total of the cells
and that a report which has read holds the old cell or its own, as `Replaces` decided.
`SoundInv` has the content: the cell is the best among the submissions that are done
(posted and handled, `DoneIn`), so the write of one more takes the better of two; and the
penalty is the number of wrong answers before it, unless a result for the same cell is
stored or read and not written. The last is the point of the three steps: a report counts
the wrong answers it sees, another may be stored behind its back, but then that one will
read the row later and count again, or makes a race. All of it holds only while the
verdicts that arrived are still in the submissions table, since a late case report puts a
submission back to "judging" (`Sound`); a settled user is sound.

The totals are sums over the set of problems. The library's `SumFunction` is a recursion
on sets; the first lemmas show by the well-founded order of finite sets that it has a
solution (`IterExists`) and from there what is used of it: sums of natural numbers,
of zeros and of one number. For the order of the rules it is then enough that the sums of
the table and of the reference are over equal functions, and for the refinement that
the board's sum over the entries of a row is the sum of its scores (`EntriesSum`); a write
to the row is `Count` because the better of two entries is the one `Replaces` keeps
(`EntryCounted`), and whatever spoils a user is `GiveUp` (`RowsGivenUp`).

Only model-checked: liveness (`Settles`, `Terminates`, `UnusedIsDeleted`) and `ENABLED`,
which are out of the prover's reach. Every safety property of the passing runs is a
theorem.

## 6. What is left out

**Modelled from how the code uses it** (external): MySQL (row locks of `FOR UPDATE`,
snapshots, gap locks, lock wait timeout, the implicit commit of DDL, `AUTO_INCREMENT`,
unique keys), gorm (`Save`, defaults), GridFS, bolt, Redis, Docker and cgroups (an
outcome each), HTTP and websockets (a call may fail before, or after it was done).

**Partly modelled**: the submissions table (lists and counters for pages only read;
what they read is modelled elsewhere); the judge queue (pops nobody calls); the client
of `ppjc` (wrappers that only build a request); the contest and problem lifecycle
(pages that only read, texts of statements and checkers); transactions (connecting and
migrating).

**Not modelled**: the languages of a worker (a map replaced as a whole under a lock, of
which a job reads one entry once); settings (single Redis values; where one decides
something it is a constant or a choice); the administration pages (each form stores one
record); the tables of news, groups and languages (single statements, no relation to
other state); the legacy ranking (`ppjc/legacy`, not compiled into any program); the
load balancer clients (register an address at start-up). Templates and static files
have no state.

**Abstracted data**: texts, names, programs and outputs are model values or left out;
statuses are those the properties tell apart (in `Ranking` and `JudgeRun`, WA stands
for every wrong answer); times are ticks or the order of submissions; scores are small
numbers.

## 7. Plan

What would come next: a composition of `Ranking` with the reports of `JudgePipeline`,
which now meet in `Post` (a run reports once, or twice when a download failed); and proofs
of `RunsGoForward` and its companions for the submissions table of that composition.
