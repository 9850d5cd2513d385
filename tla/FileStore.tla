------------------------------ MODULE FileStore ------------------------------
(***************************************************************************)
(* Files in GridFS, the MySQL rows that name them, and ppms, which deletes  *)
(* a file some minutes after it was replaced.                               *)
(*                                                                         *)
(* lib/filesystem/mongo.go makes every file under a new name and returns a  *)
(* function that schedules the old one.  Its callers lock the row, make the *)
(* file, write the row, call the function and commit, in that order.        *)
(* ppms/remove_file.go keeps the schedule in a bolt database; its loop takes *)
(* due entries out in one transaction and removes the files afterwards.     *)
(*                                                                         *)
(* A slot is a column of a row that names a file.  Time is counted in ticks: *)
(* ppms waits Delay ticks, operations and readers take Window at most.      *)
(***************************************************************************)
EXTENDS Integers, FiniteSets

CONSTANTS
  Slots,             \* columns
  Ops,               \* requests that change one
  Readers,           \* requests that read a name and then open the file
  Faults,            \* what may fail
  Delay, Window,
  MaxFiles,          \* bound: files made (UniqueFileID)
  MaxFailures        \* bound: failures

NoFile == 0
Files == 1 .. MaxFiles

\* What is done to a column of each kind.
Uses == [statement   |-> {"update", "edit", "delete", "table"},
         checker     |-> {"update", "edit", "delete", "table"},
         related     |-> {"update", "save", "delete", "table"},
         testcase    |-> {"update", "drop", "delete", "table"},
         message     |-> {"update", "result", "clear", "table"},
         code        |-> {"add", "table"},
         description |-> {"update", "remove"}]
AllKinds == UNION {Uses[k] : k \in DOMAIN Uses}

ASSUME FileStoreAssumption ==
  /\ Slots # {}
  /\ Faults \subseteq {"create", "statement", "commit", "schedule", "ppms", "gridfs"}
  /\ Window \in Nat /\ Delay \in Nat /\ Delay >= 2 * Window /\ MaxFiles \in Nat
  /\ MaxFailures \in Nat

VARIABLES
  column,   \* what kind of column a slot is: any, from the start
  rows,     \* slots whose row exists
  dropped,  \* slots whose table was dropped
  row,      \* row[s]: the committed name
  grid,     \* files in GridFS
  made,     \* names handed out by Redis
  op,       \* op[o]: the request's progress
  due,      \* names a goroutine of UpdateTestCaseNames still has to send to ppms
  queue,    \* the bolt database of ppms: names with the ticks left
  taken,    \* names the loop has deleted from bolt and not yet from GridFS
  reader,   \* reader[r]: the name it has read
  failures, \* history: failures so far
  doomed,   \* history: names in use although ppms has them or the file was never finished
  lost      \* history: files a failure or a race left with nobody to remove them

vars == <<column, rows, dropped, row, grid, made, op, due, queue, taken, reader, failures, doomed, lost>>

Op == [pc : {"idle", "seen", "open", "ready", "handed", "gone"}, kind : AllKinds,
       slot : Slots, old : 0 .. MaxFiles, new : 0 .. MaxFiles, age : 0 .. Window]
Idle == [pc |-> "idle", kind |-> "update", slot |-> CHOOSE s \in Slots : TRUE,
         old |-> NoFile, new |-> NoFile, age |-> 0]
Entry == [file : Files, left : 0 .. Delay + 1]

TypeOK ==
  /\ column \in [Slots -> DOMAIN Uses]
  /\ rows \cup dropped \subseteq Slots /\ row \in [Slots -> 0 .. made]
  /\ made \in 0 .. MaxFiles /\ grid \subseteq 1 .. made
  /\ op \in [Ops -> Op]
  /\ due \cup taken \subseteq 1 .. made /\ queue \subseteq Entry
  /\ reader \in [Readers -> [pc : {"idle", "named"}, file : 0 .. MaxFiles, age : 0 .. Window]]
  /\ failures \in 0 .. MaxFailures /\ doomed \cup lost \subseteq 1 .. made

Init ==
  /\ column \in [Slots -> DOMAIN Uses]
  /\ rows = {s \in Slots : column[s] # "code"}
  /\ row = [s \in Slots |-> NoFile]
  /\ grid = {} /\ made = 0 /\ due = {} /\ queue = {} /\ taken = {} /\ dropped = {}
  /\ failures = 0 /\ doomed = {} /\ lost = {}
  /\ op = [o \in Ops |-> Idle]
  /\ reader = [r \in Readers |-> [pc |-> "idle", file |-> NoFile, age |-> 0]]

-----------------------------------------------------------------------------
\* Operations that read the row FOR UPDATE.
Locking == {"update", "edit", "drop", "result", "clear"}
Locked(s) == \E o \in Ops : op[o].slot = s /\ op[o].kind \in Locking
                            /\ op[o].pc \in {"open", "ready", "handed"}

At(o, pc, kinds) == op[o].pc = pc /\ op[o].kind \in kinds
Goes(o, pc) == op' = [op EXCEPT ![o].pc = pc]
Ends(o) == op' = [op EXCEPT ![o] = Idle]
Store == <<column, rows, dropped, row, grid, made>>
Ppms == <<due, queue, taken>>
History == <<failures, doomed, lost>>

NoDelay(f) == IF f = NoFile THEN {} ELSE {[file |-> f, left |-> 0]}    \* mutant: due at once
\* What a call of RemoveFile adds to the schedule.
Scheduled(f) == IF f = NoFile THEN {} ELSE {[file |-> f, left |-> Delay + 1]}

Failure(kind) == kind \in Faults /\ failures < MaxFailures /\ failures' = failures + 1
Named == {row[s] : s \in rows}
ToRemove == due \cup taken \cup {e.file : e \in queue}
Doomed(f) == doomed' = doomed \cup ({f} \ {NoFile})
Lost(files) == lost' = lost \cup (files \ {NoFile})

\* The caller only logs it when ppms cannot be reached or answers 503; when
\* bolt fails ppms itself logs it and answers OK.
Schedule(f) == \/ queue' = queue \cup Scheduled(f) /\ UNCHANGED <<lost, failures>>
               \/ Failure("schedule") /\ queue' = queue /\ Lost({f})

\* The bound on files is met before a request begins, not in its middle.
Making == {"update", "edit", "result", "add"}
RoomForFile ==
  made + Cardinality({o \in Ops : op[o].pc \in {"seen", "open"} /\ op[o].kind \in Making}) < MaxFiles

\* SELECT ... FOR UPDATE of the column, or the plain SELECT of a deletion.
Begin(o, k, s) ==
  /\ op[o].pc = "idle" /\ k \in Uses[column[s]] /\ s \notin dropped
  /\ k \in Making => RoomForFile
  /\ (s \in rows) <=> (k # "add")
  /\ k \in Locking \ {"edit"} => ~Locked(s)
  /\ k = "add" => \A p \in Ops : op[p].slot = s => op[p].pc = "idle"
  /\ op' = [op EXCEPT ![o] = [pc |-> IF k \in {"edit", "save"} THEN "seen" ELSE "open", kind |-> k,
                              slot |-> s, old |-> row[s], new |-> NoFile, age |-> 0]]
  /\ UNCHANGED <<Store, Ppms, reader, History>>

\* A read of the row, a Clear, a Save or a DROP fails, or the program stops,
\* before anything was done about files.
GivesUp(o) ==
  /\ Failure("statement") /\ op[o].pc \in {"seen", "open"}
  /\ Ends(o)
  /\ UNCHANGED <<Store, Ppms, reader, doomed, lost>>

\* FileSecureUpdate: a new file under a new name.
TakesName(o) ==
  /\ At(o, "open", Making) /\ made < MaxFiles
  /\ made' = made + 1
  /\ op' = [op EXCEPT ![o].pc = IF op[o].kind = "add" THEN "handed" ELSE "ready", ![o].new = made']
  /\ UNCHANGED <<column, rows, dropped, row, Ppms, reader>>
Make(o) == TakesName(o) /\ grid' = grid \cup {made'} /\ UNCHANGED History

\* The deferred Close, where GridFS finishes the file, fails and nobody looks:
\* the request goes on with a name under which there is no file.
MakeUnfinished(o) ==
  /\ TakesName(o) /\ Failure("create")
  /\ Doomed(made') /\ UNCHANGED <<grid, lost>>

\* It fails: the transaction ends, but SubmissionUpdateResult and SubmissionAdd
\* go on with an empty name and without scheduling the old file.
MakeFails(o) ==
  /\ Failure("create")
  /\ \/ At(o, "open", {"update", "edit"}) /\ Ends(o) /\ lost' = lost
     \/ At(o, "open", {"result", "add"}) /\ Goes(o, "handed") /\ Lost({op[o].old})
  /\ UNCHANGED <<Store, Ppms, reader, doomed>>

\* The copy breaks off, and the deferred Close stores what has come so far.
MakePartial(o) ==
  /\ Failure("create") /\ made < MaxFiles
  /\ made' = made + 1 /\ grid' = grid \cup {made'}
  /\ \/ At(o, "open", {"update", "edit"}) /\ Ends(o) /\ Lost({made'})
     \/ At(o, "open", {"result", "add"}) /\ Goes(o, "handed") /\ Lost({made', op[o].old})
  /\ UNCHANGED <<column, rows, dropped, row, Ppms, reader, doomed>>

\* The UPDATE fails, or the program stops, before anything is scheduled: the new
\* file stays.
StatementFails(o) ==
  /\ Failure("statement") /\ At(o, "ready", Locking)
  /\ Ends(o) /\ Lost({op[o].new})
  /\ UNCHANGED <<Store, Ppms, reader, doomed>>

\* UpdateTestCase does not look at the error of Save: the old file is scheduled
\* and the transaction commits without the new name.
StatementIgnored(o) ==
  /\ Failure("statement") /\ At(o, "ready", {"update"}) /\ column[op[o].slot] = "testcase"
  /\ queue' = queue \cup Scheduled(op[o].old)
  /\ Ends(o) /\ Doomed(op[o].old) /\ Lost({op[o].new})
  /\ UNCHANGED <<Store, due, taken, reader>>

HandOverNew(o) ==                \* mutant: the new file is scheduled
  /\ At(o, "ready", {"update", "edit", "result"}) \/ At(o, "open", {"clear", "delete"})
  /\ Schedule(op[o].new)
  /\ Goes(o, "handed")
  /\ UNCHANGED <<Store, due, taken, reader, doomed>>
\* The old file is scheduled: suc(), or RemoveLater of SubmissionUpdateTestCase
\* and of ContestProblemDelete, both before the row changes.
HandOver(o) ==
  /\ At(o, "ready", {"update", "edit", "result"}) \/ At(o, "open", {"clear", "delete"})
  /\ Schedule(op[o].old)
  /\ Goes(o, "handed")
  /\ UNCHANGED <<Store, due, taken, reader, doomed>>

\* UpdateTestCaseNames leaves it to a goroutine.
HandOverLater(o) ==
  /\ At(o, "open", {"drop"})
  /\ due' = due \cup ({op[o].old} \ {NoFile})
  /\ Goes(o, "handed")
  /\ UNCHANGED <<Store, queue, taken, reader, History>>
SendDue(f) ==
  /\ f \in due
  /\ due' = due \ {f}
  /\ Schedule(f)
  /\ UNCHANGED <<Store, op, taken, reader, doomed>>

CommitOld(o) ==                  \* mutant: the row keeps the name
  /\ At(o, "handed", Locking \cup {"add"})
  /\ rows' = rows \cup {op[o].slot}
  /\ Ends(o)
  /\ UNCHANGED <<column, dropped, row, grid, made, Ppms, reader, History>>
Commit(o) ==
  /\ At(o, "handed", Locking \cup {"add"})
  /\ rows' = rows \cup {op[o].slot}
  /\ row' = [row EXCEPT ![op[o].slot] = op[o].new]
  /\ Ends(o)
  /\ UNCHANGED <<column, dropped, grid, made, Ppms, reader, History>>

\* The last statement (the UPDATE of SubmissionUpdateTestCase, the INSERT of
\* SubmissionAdd, the DELETE of ContestProblemDelete) or the commit fails: the
\* row keeps the old name, whose file was scheduled before, and the new file
\* stays.
CommitFails(o) ==
  /\ Failure("commit") /\ At(o, "handed", Locking \cup {"add", "delete"})
  /\ Ends(o) /\ Doomed(op[o].old) /\ Lost({op[o].new})
  /\ UNCHANGED <<Store, Ppms, reader>>

\* ContestProblemUpdate: Save writes every column as it was read, or inserts
\* the row again; a name it brings back is that of a scheduled file, and the
\* file it takes from the row is forgotten.  An edit goes on with
\* UpdateStatement and UpdateChecker; the related files have no such call.
Save(o) ==
  LET s == op[o].slot
      stale == s \notin rows \/ row[s] # op[o].old
  IN /\ At(o, "seen", {"edit", "save"}) /\ ~Locked(s) /\ s \notin dropped
     /\ rows' = rows \cup {s}
     /\ row' = [row EXCEPT ![s] = op[o].old]
     /\ IF op[o].kind = "save" THEN Ends(o) ELSE Goes(o, "open")
     /\ IF stale THEN Doomed(op[o].old) /\ Lost({row[s]} \cap Named) ELSE UNCHANGED <<doomed, lost>>
     /\ UNCHANGED <<failures, column, dropped, grid, made, Ppms, reader>>

\* There is no table any more: an error.
SaveFails(o) ==
  /\ At(o, "seen", {"edit", "save"}) /\ op[o].slot \in dropped
  /\ Ends(o)
  /\ UNCHANGED <<Store, Ppms, reader, History>>

\* The row goes with a name that changed since the deletion read it.
RowGoes(o) ==
  /\ rows' = rows \ {op[o].slot}
  /\ Lost(({row[op[o].slot]} \cap Named) \ {op[o].old})

\* DELETE of the problem's row, after its files were scheduled.
DeleteRow(o) ==
  /\ At(o, "handed", {"delete"}) /\ ~Locked(op[o].slot)
  /\ RowGoes(o)
  /\ Ends(o)
  /\ UNCHANGED <<column, dropped, row, grid, made, Ppms, reader, failures, doomed>>

\* ContestDelete and the two RemoveAllWithTable delete the row or the tables
\* first.
DropRow(o) ==
  /\ At(o, "open", {"remove", "table"}) /\ ~Locked(op[o].slot)
  /\ RowGoes(o)
  /\ dropped' = dropped \cup {op[o].slot}
  /\ Goes(o, "gone")
  /\ UNCHANGED <<column, row, grid, made, Ppms, reader, failures, doomed>>

\* The contest's description is removed at once; when that fails, nobody tries
\* again.
RemoveNow(o) ==
  /\ At(o, "gone", {"remove"})
  /\ \/ grid' = grid \ {op[o].old} /\ Doomed(op[o].old) /\ UNCHANGED <<failures, lost>>
     \/ Failure("gridfs") /\ Lost({op[o].old}) /\ UNCHANGED <<grid, doomed>>
  /\ Ends(o)
  /\ UNCHANGED <<column, rows, dropped, row, made, Ppms, reader>>

\* Checkers and messages are collected when their name is empty.  A query of the
\* names that failed, which is only logged, has the effect of a failing call.
Uncollected == {"checker", "message"}
ScheduleDropped(o) ==
  /\ At(o, "gone", {"table"})
  /\ IF column[op[o].slot] \in Uncollected THEN Lost({op[o].old}) /\ UNCHANGED <<queue, failures>>
                                           ELSE Schedule(op[o].old)
  /\ Ends(o)
  /\ UNCHANGED <<Store, due, taken, reader, doomed>>

-----------------------------------------------------------------------------
(***************************************************************************)
(* Readers: pages, and ppjc serving /file_download to the workers.          *)
(***************************************************************************)
ReadName(r, s) ==
  /\ reader[r].pc = "idle" /\ s \in rows /\ row[s] # NoFile
  /\ reader' = [reader EXCEPT ![r] = [pc |-> "named", file |-> row[s], age |-> 0]]
  /\ UNCHANGED <<Store, op, Ppms, History>>

OpenOnly(r) ==
  /\ reader[r].pc = "named"
  /\ reader' = [reader EXCEPT ![r] = [pc |-> "idle", file |-> NoFile, age |-> 0]]
  /\ UNCHANGED <<Store, op, Ppms, History>>

(***************************************************************************)
(* ppms.                                                                    *)
(***************************************************************************)
Expired == {e \in queue : e.left = 0}

\* The bolt transaction of the loop: the key of an entry is later than every
\* key of the second it expires in, so the loop takes it a second later.  When
\* bolt fails the entries stay, and the loop removes the files all the same.
Sweep ==
  /\ taken = {} /\ Expired # {}
  /\ \/ queue' = queue \ Expired /\ UNCHANGED failures
     \/ Failure("ppms") /\ UNCHANGED queue
  /\ taken' = {e.file : e \in Expired}
  /\ UNCHANGED <<Store, op, due, reader, doomed, lost>>

RemoveTaken(f) ==
  /\ f \in taken
  /\ taken' = taken \ {f}
  /\ \/ grid' = grid \ {f} /\ UNCHANGED <<lost, failures>>
     \/ Failure("gridfs") /\ UNCHANGED grid /\ Lost({f})
  /\ UNCHANGED <<column, rows, dropped, row, made, op, due, queue, reader, doomed>>

\* ppms stops between the two: on a signal main exits without waiting for the
\* loop's group.  (Had the loop come round, it would find the closed channel
\* again and again: the second Done of the one added panics.)
PpmsCrash == /\ Failure("ppms") /\ taken # {}
             /\ taken' = {} /\ Lost(taken)
             /\ UNCHANGED <<Store, op, due, queue, reader, doomed>>

Tick ==
  /\ \A o \in Ops : op[o].pc # "idle" => op[o].age < Window
  /\ \A r \in Readers : reader[r].pc = "named" => reader[r].age < Window
  /\ \E e \in queue : e.left > 0
  /\ queue' = {[e EXCEPT !.left = IF @ = 0 THEN 0 ELSE @ - 1] : e \in queue}
  /\ op' = [o \in Ops |-> IF op[o].pc = "idle" THEN op[o] ELSE [op[o] EXCEPT !.age = @ + 1]]
  /\ reader' = [r \in Readers |-> IF reader[r].pc = "idle" THEN reader[r]
                                  ELSE [reader[r] EXCEPT !.age = @ + 1]]
  /\ UNCHANGED <<Store, due, taken, History>>

Step(o) == \/ Make(o) \/ HandOver(o) \/ HandOverLater(o) \/ Commit(o) \/ Save(o) \/ SaveFails(o)
           \/ DeleteRow(o) \/ DropRow(o) \/ RemoveNow(o) \/ ScheduleDropped(o)
Fails(o) == \/ GivesUp(o) \/ MakeUnfinished(o) \/ MakeFails(o) \/ MakePartial(o)
            \/ StatementFails(o) \/ StatementIgnored(o) \/ CommitFails(o)

Next ==
  \/ \E o \in Ops : \/ \E k \in AllKinds, s \in Slots : Begin(o, k, s)
                    \/ Step(o) \/ Fails(o)
  \/ \E f \in Files : SendDue(f) \/ RemoveTaken(f)
  \/ \E r \in Readers : OpenOnly(r) \/ \E s \in Slots : ReadName(r, s)
  \/ Sweep \/ PpmsCrash \/ Tick

Spec == Init /\ [][Next]_vars

-----------------------------------------------------------------------------
HeldByOps == UNION {{op[o].old, op[o].new} : o \in {o \in Ops : op[o].pc # "idle"}}

\* The file a committed row names is in GridFS, whatever requests overlap.  The
\* ways to a name without its file: a row that keeps the name after its file was
\* scheduled (the last statement or the commit failed, also the DELETE of a
\* problem; the ignored error of UpdateTestCase; the Save of a stale row), a
\* description that an overlapping request still names, and a file GridFS
\* could not finish.
NamedIsThere == Named \ {NoFile} \subseteq grid \cup doomed

\* Who has read a name from a row finds the file, although another request may
\* have replaced it meanwhile: that is what the delay is for.  The same names
\* are excepted, and the description of a contest that was deleted meanwhile.
ReadersFindFiles ==
  \A r \in Readers : reader[r].pc = "named" => reader[r].file \in grid \cup doomed

\* Every file is named by a row, in the hands of a request, or will be removed,
\* unless its request failed after it was made (or half made), the call that
\* schedules or removes it failed, ppms stopped with it, a stale row replaced
\* its name, or it is a checker or a message of a dropped table.
FilesAccounted == grid \subseteq Named \cup HeldByOps \cup ToRemove \cup lost
=============================================================================
