------------------------------- MODULE JudgeRun -------------------------------
(***************************************************************************)
(* judge.Run of the jobs of one worker (ppjudge/judge_simple.go,             *)
(* judge_runCode.go): the directories, cgroups and containers it makes, what  *)
(* it puts into the channel of statuses, and what it leaves behind.          *)
(*                                                                         *)
(* Names come from RandomName, which is seeded with the clock: two of one     *)
(* job, or of two jobs, may be equal.  A job of kind "simple" has one place   *)
(* to work in; one of kind "code" has three: of the code that is judged, of   *)
(* the checker, and of the data the checker is to look at.                   *)
(***************************************************************************)
EXTENDS Integers, Sequences

CONSTANTS
  Jobs, Names,
  Cases,            \* cases of the problem
  Faults,            \* what may fail: "file", "docker", "remove"
  MaxFailures        \* bound: failures

ASSUME JudgeRunAssumption ==
  /\ "nobody" \notin Jobs /\ Cases \in Nat /\ MaxFailures \in Nat
  /\ Faults \subseteq {"file", "docker", "remove"}

VARIABLES
  job,       \* job[j]: a call of Run
  dirs,      \* dirs[n]: the job that has made the directory n, and what for
  boxes,     \* boxes[n]: the job that has made the container n
  cgroups,   \* cgroups[n]: the job that has made the cgroup n
  out,       \* out[j]: the statuses put into the channel
  alive,     \* FALSE after a panic: the worker is gone
  failures,  \* history: failures so far
  kept       \* history: names whose container or cgroup could not be deleted

History == <<failures, kept>>
runState == <<job, dirs, boxes, cgroups, out, alive, History>>

Nobody == "nobody"
Free == [job |-> Nobody, role |-> "none"]
Roles == {"judged", "checker", "data"}
Verdicts == {"AC", "WA", "IE"}       \* WA stands for TLE, MLE and RE, too
JudgeStatus == [total : BOOLEAN, status : Verdicts \cup {"JG", "CE"}]

\* What Run does before the first case.
SetUp == [simple |-> << <<"mkdir", "judged">>, <<"build", "judged">>, <<"make", "judged">> >>,
          code   |-> << <<"mkdir", "data">>, <<"mkdir", "checker">>, <<"mkdir", "judged">>,
                        <<"build", "checker">>, <<"build", "judged">>,
                        <<"make", "judged">>, <<"make", "checker">> >>]

\* defers: the deferred calls, the last one first.  missing: NewExecutor has
\* failed for the checker, whose error is not looked at.
Job == [pc : {"idle", "setup", "building", "built", "recv", "exec", "check", "unwind", "panic", "end"},
        kind : {"simple", "code"}, step : 1 .. 7, name : [Roles -> Names],
        defers : Seq({"rmdir", "delete"} \X Roles), taken : 0 .. Cases,
        worst : Verdicts, missing : BOOLEAN]

RunTypeOK ==
  /\ job \in [Jobs -> Job]
  /\ dirs \in [Names -> [job : Jobs, role : Roles] \cup {Free}]
  /\ boxes \in [Names -> Jobs \cup {Nobody}] /\ cgroups \in [Names -> Jobs \cup {Nobody}]
  /\ out \in [Jobs -> Seq(JudgeStatus)] /\ alive \in BOOLEAN
  /\ failures \in 0 .. MaxFailures /\ kept \subseteq Names

RunInit ==
  /\ \E n \in Names :
       job = [j \in Jobs |-> [pc |-> "idle", kind |-> "simple", step |-> 1, name |-> [r \in Roles |-> n],
                              defers |-> <<>>, taken |-> 0, worst |-> "AC", missing |-> FALSE]]
  /\ dirs = [n \in Names |-> Free]
  /\ boxes = [n \in Names |-> Nobody] /\ cgroups = [n \in Names |-> Nobody]
  /\ out = [j \in Jobs |-> <<>>] /\ alive = TRUE /\ failures = 0 /\ kept = {}

-----------------------------------------------------------------------------
At(j, pc) == alive /\ job[j].pc = pc
Step(j) == SetUp[job[j].kind][job[j].step]
Doing(j, what) == At(j, "setup") /\ Step(j)[1] = what
Role(j) == Step(j)[2]
Place(j) == job[j].name[Role(j)]
Name(j, role) == job[j].name[role]
Makes == <<boxes, cgroups>>
Fine == UNCHANGED History
Fails(kind) == /\ kind \in Faults /\ failures < MaxFailures
               /\ failures' = failures + 1 /\ UNCHANGED kept

Goes(j, new) == job' = [job EXCEPT ![j] = new]
Sends(j, total, v) == out' = [out EXCEPT ![j] = Append(@, [total |-> total, status |-> v])]

\* The next step of SetUp, or the loop over the cases, with deferred calls d.
Advanced(j, d) ==
  IF job[j].step < Len(SetUp[job[j].kind])
  THEN [job[j] EXCEPT !.pc = "setup", !.step = @ + 1, !.defers = d \o @]
  ELSE [job[j] EXCEPT !.pc = "recv", !.defers = d \o @]

\* A total status before the first case; then the deferred calls.
Aborts(j, d, v) ==
  /\ Sends(j, TRUE, v)
  /\ Goes(j, [job[j] EXCEPT !.pc = "unwind", !.defers = d \o @])

Enter(j) ==
  /\ At(j, "idle")
  /\ \E k \in {"simple", "code"}, n \in [Roles -> Names] :
       /\ k = "simple" => \A r \in Roles : n[r] = n["judged"]
       /\ Goes(j, [job[j] EXCEPT !.pc = "setup", !.kind = k, !.name = n])
  /\ UNCHANGED <<dirs, Makes, out, alive, History>>

MkdirAll(j) ==                   \* mutant: a directory that is there will do
  /\ Doing(j, "mkdir")
  /\ dirs' = [dirs EXCEPT ![Place(j)] = [job |-> j, role |-> Role(j)]]
  /\ Goes(j, Advanced(j, << <<"rmdir", Role(j)>> >>)) /\ UNCHANGED out
  /\ UNCHANGED <<Makes, alive, History>>
\* os.Mkdir fails when the name is taken.  The directory is given its mode and
\* the source file after its removal has been deferred.
Mkdir(j) ==
  /\ Doing(j, "mkdir")
  /\ \/ /\ dirs[Place(j)] = Free
        /\ dirs' = [dirs EXCEPT ![Place(j)] = [job |-> j, role |-> Role(j)]]
        /\ \/ Goes(j, Advanced(j, << <<"rmdir", Role(j)>> >>)) /\ UNCHANGED out /\ Fine
           \/ Fails("file") /\ Aborts(j, << <<"rmdir", Role(j)>> >>, "IE")
     \/ /\ (dirs[Place(j)] # Free /\ Fine) \/ Fails("file")
        /\ Aborts(j, <<>>, "IE") /\ UNCHANGED dirs
  /\ UNCHANGED <<Makes, alive>>

-----------------------------------------------------------------------------
\* NewExecutor: the cgroup, and then the container, whose name must be free.
Made(j, n) ==
  /\ boxes[n] = Nobody /\ Fine
  /\ boxes' = [boxes EXCEPT ![n] = j] /\ cgroups' = [cgroups EXCEPT ![n] = j]
\* It has failed: cg.Delete takes the cgroup back if there was one.
NotMade(n) ==
  /\ \/ /\ (boxes[n] # Nobody /\ Fine) \/ Fails("docker")
        /\ cgroups' = [cgroups EXCEPT ![n] = Nobody]
     \/ Fails("docker") /\ UNCHANGED cgroups
  /\ UNCHANGED boxes

\* Executor.Delete: both are tried, errors are ignored by every caller.
Deleted(n) ==
  \/ /\ Fine
     /\ cgroups' = [cgroups EXCEPT ![n] = Nobody] /\ boxes' = [boxes EXCEPT ![n] = Nobody]
  \/ /\ "remove" \in Faults /\ failures < MaxFailures /\ failures' = failures + 1
     /\ kept' = kept \cup {n}
     /\ cgroups' \in {cgroups, [cgroups EXCEPT ![n] = Nobody]}
     /\ boxes' \in {boxes, [boxes EXCEPT ![n] = Nobody]}

\* A compiler is run in a container of its own, if the language has one.
Build(j) ==
  /\ Doing(j, "build")
  /\ \/ Goes(j, Advanced(j, <<>>)) /\ UNCHANGED <<Makes, out>> /\ Fine
     \/ Made(j, Place(j)) /\ Goes(j, [job[j] EXCEPT !.pc = "building"]) /\ UNCHANGED out
     \/ NotMade(Place(j)) /\ Aborts(j, <<>>, "IE")
  /\ UNCHANGED <<dirs, alive>>

BuiltKept(j) ==                  \* mutant: the container goes only after a good result
  /\ At(j, "building")
  /\ \/ Deleted(Place(j)) /\ Goes(j, [job[j] EXCEPT !.pc = "built"]) /\ UNCHANGED out
     \/ /\ Aborts(j, <<>>, IF Role(j) = "judged" THEN "CE" ELSE "IE")
        /\ UNCHANGED Makes /\ Fine
  /\ UNCHANGED <<dirs, alive>>
\* The compiler has ended; its container goes before its result is looked at.
Built(j) ==
  /\ At(j, "building")
  /\ Deleted(Place(j))
  /\ Goes(j, [job[j] EXCEPT !.pc = "built"])
  /\ UNCHANGED <<dirs, out, alive>>

\* How a program in a container has ended (Executor.Run): with exit code 0 within
\* its limits, in some other way, or it could not be run or measured.
Exited(r) == IF r = "error" THEN Fails("docker") ELSE Fine
ExecResults == {"ok", "bad", "error"}

\* The result of the compiler.
Compiled(j) ==
  /\ At(j, "built")
  /\ \E r \in ExecResults :
       /\ Exited(r)
       /\ \/ r = "ok" /\ Goes(j, Advanced(j, <<>>)) /\ UNCHANGED out
          \/ r = "bad" /\ Aborts(j, <<>>, IF Role(j) = "judged" THEN "CE" ELSE "IE")
          \/ r = "error" /\ Aborts(j, <<>>, "IE")
  /\ UNCHANGED <<dirs, Makes, alive>>

\* The container of the cases.  That of the checker is taken to be there.
Make(j) ==
  /\ Doing(j, "make")
  /\ \/ Made(j, Place(j)) /\ Goes(j, Advanced(j, << <<"delete", Role(j)>> >>)) /\ UNCHANGED out
     \/ /\ NotMade(Place(j))
        /\ IF Role(j) = "judged" THEN Aborts(j, <<>>, "IE")
           ELSE /\ Goes(j, [Advanced(j, << <<"delete", Role(j)>> >>) EXCEPT !.missing = TRUE])
                /\ UNCHANGED out
  /\ UNCHANGED <<dirs, alive>>

-----------------------------------------------------------------------------
Rank(v) == CASE v = "AC" -> 1 [] v = "WA" -> 2 [] v = "IE" -> 3
MaxStatus(a, b) == IF Rank(a) > Rank(b) THEN a ELSE b

\* A case is at hand.
Recv(j) ==
  /\ At(j, "recv") /\ job[j].taken < Cases
  /\ Goes(j, [job[j] EXCEPT !.pc = "exec", !.taken = @ + 1]) /\ Sends(j, FALSE, "JG")
  /\ UNCHANGED <<dirs, Makes, alive, History>>

\* The channel of cases is closed, after the last one or after a failed download.
TotalStatus(j) ==
  /\ At(j, "recv")
  /\ Sends(j, TRUE, job[j].worst) /\ Goes(j, [job[j] EXCEPT !.pc = "unwind"])
  /\ UNCHANGED <<dirs, Makes, alive, History>>

Judged(j, v) ==
  /\ Sends(j, FALSE, v)
  /\ Goes(j, [job[j] EXCEPT !.pc = "recv", !.worst = MaxStatus(@, v)])

\* What the checker is to see is written to the directory of the data (for the
\* input, the name of its file).
ToCheck(j) ==
  /\ Goes(j, [job[j] EXCEPT !.pc = "check"])
  /\ UNCHANGED out

\* The input is read and the judged code is run.
Exec(j) ==
  /\ At(j, "exec")
  /\ \/ Fails("file") /\ Judged(j, "IE")
     \/ \E r \in ExecResults : Exited(r) /\
          \/ r = "bad" /\ Judged(j, "WA")
          \/ r = "error" /\ Judged(j, "IE")
          \/ r = "ok" /\ job[j].kind = "simple" /\ Judged(j, "AC")
          \/ r = "ok" /\ job[j].kind = "code" /\ ToCheck(j)
  /\ UNCHANGED <<dirs, Makes, alive>>

CheckTwice(j) ==                 \* mutant: a checker that fails has a verdict, too
  /\ At(j, "check") /\ ~job[j].missing
  /\ \/ \E v \in {"AC", "WA"} : Judged(j, v)
     \/ /\ out' = [out EXCEPT ![j] = @ \o << [total |-> FALSE, status |-> "IE"], [total |-> FALSE, status |-> "AC"] >>]
        /\ Goes(j, [job[j] EXCEPT !.pc = "recv", !.worst = "IE"])
  /\ UNCHANGED <<dirs, Makes, alive, History>>
\* A checker that fails in whatever way is an internal error.
Check(j) ==
  /\ At(j, "check") /\ ~job[j].missing
  /\ \E r \in ExecResults : Exited(r) /\
       IF r = "ok" THEN \E v \in {"AC", "WA"} : Judged(j, v) ELSE Judged(j, "IE")
  /\ UNCHANGED <<dirs, Makes, alive>>

\* Run and Delete of an executor that is nil.  The deferred call of Delete, the
\* last one that was deferred, is then over, in the one case or the other.
Panic(j) ==
  /\ job[j].missing
  /\ At(j, "check") \/ At(j, "unwind")
  /\ Goes(j, [job[j] EXCEPT !.pc = "panic", !.defers = Tail(@)])
  /\ UNCHANGED <<dirs, Makes, out, alive, History>>

-----------------------------------------------------------------------------
\* The deferred calls, the last one first.
Unwind(j) ==
  /\ At(j, "panic") \/ (At(j, "unwind") /\ ~job[j].missing)
  /\ job[j].defers # <<>>
  /\ LET call == Head(job[j].defers)
         n == Name(j, call[2])
     IN \/ call[1] = "delete" /\ Deleted(n) /\ UNCHANGED dirs
        \/ call[1] = "rmdir" /\ dirs' = [dirs EXCEPT ![n] = Free] /\ UNCHANGED Makes /\ Fine
  /\ Goes(j, [job[j] EXCEPT !.defers = Tail(@)])
  /\ UNCHANGED <<out, alive>>

Return(j) ==
  /\ At(j, "unwind") /\ job[j].defers = <<>>
  /\ Goes(j, [job[j] EXCEPT !.pc = "end"])
  /\ UNCHANGED <<dirs, Makes, out, alive, History>>

\* A panic that nobody recovers ends the worker, in the middle of other jobs.
Die(j) ==
  /\ At(j, "panic") /\ job[j].defers = <<>>
  /\ alive' = FALSE /\ UNCHANGED <<job, dirs, Makes, out, History>>

RunNext ==
  \E j \in Jobs :
    \/ Enter(j) \/ Mkdir(j) \/ Build(j) \/ Built(j) \/ Compiled(j) \/ Make(j) \/ Recv(j) \/ TotalStatus(j)
    \/ Exec(j) \/ Check(j) \/ Panic(j) \/ Unwind(j) \/ Return(j) \/ Die(j)

RunSpec == RunInit /\ [][RunNext]_runState

-----------------------------------------------------------------------------
\* What is run for a job, compiler, judged code or checker, is run in a
\* container of the job, in its cgroup and on a directory made for it, though
\* the names of two jobs, or two names of one job, be the same.
OwnPlace ==
  \A j \in Jobs :
    LET Own(role) == /\ dirs[Name(j, role)] = [job |-> j, role |-> role]
                     /\ boxes[Name(j, role)] = j /\ cgroups[Name(j, role)] = j
    IN /\ At(j, "building") => Own(Role(j))
       /\ At(j, "exec") => Own("judged")
       /\ At(j, "check") /\ ~job[j].missing => Own("checker") /\ dirs[Name(j, "data")] = [job |-> j, role |-> "data"]

\* Of a job that has returned nothing is left, whatever it stumbled over, and a
\* container never outlives the directory it has mounted, where the removals
\* themselves did not fail.
NothingLeft ==
  \A n \in Names \ kept :
    /\ \A j \in Jobs : At(j, "end") => j \notin {dirs[n].job, boxes[n], cgroups[n]}
    /\ boxes[n] # Nobody => dirs[n].job = boxes[n]

Given(s) == {s[i].status : i \in 1 .. Len(s) - 1} \ {"JG"}

\* The reporting goroutine gets for each case that it begins and one verdict,
\* and at the end one total, which is the worst verdict; or an error alone.  (A job
\* that panics takes the worker with it, and its statuses.)
StatusesAddUp ==
  \A j \in {i \in Jobs : job[i].pc # "panic"} :
    LET s == out[j]
        k == Len(s)
    IN /\ \A i \in 1 .. k : s[i].total <=> (i = k /\ job[j].pc \in {"unwind", "end"})
       /\ \A i \in 1 .. k : ~s[i].total => ((s[i].status = "JG") <=> (i % 2 = 1))
       /\ job[j].pc \in {"unwind", "end"} =>
            \/ k = 1 /\ s[1].status \in {"CE", "IE"}
            \/ /\ k % 2 = 1 /\ s[k].status \in Given(s) \cup {"AC"}
               /\ \A v \in Given(s) : Rank(v) <= Rank(s[k].status)
=============================================================================
