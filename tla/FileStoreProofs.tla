--------------------------- MODULE FileStoreProofs ---------------------------
(***************************************************************************)
(* Proofs about FileStore, for every number of columns, requests, readers   *)
(* and files, every delay of ppms that is at least twice the time a request *)
(* takes, and every set of faults: a committed row names a file that is     *)
(* there, who has read a name finds the file, and no file is forgotten.     *)
(*                                                                         *)
(* The argument is about time.  A file is scheduled while the row still     *)
(* names it, by a request that is about to commit; the request is at most   *)
(* Window old when it does, so the entry still has Delay + 1 - Window ticks *)
(* left when the last reader can have read the name, and that reader needs  *)
(* Window of them.                                                          *)
(***************************************************************************)
EXTENDS FileStore, TLAPS

USE FileStoreAssumption DEF FileStoreAssumption

\* The names in use were handed out before.
Within ==
  /\ \A o \in Ops : op[o].old <= made /\ op[o].new <= made
  /\ \A e \in queue : e.file <= made

\* The request has the lock of its row.
Holds(o) == op[o].kind \in Locking /\ op[o].pc \in {"open", "ready", "handed"}

\* What a request may be doing to its column at which point.  The column of a
\* submission that is being added has no row, and nobody else works on it.
Kinds ==
  \A o \in Ops :
    /\ op[o].pc # "idle" => op[o].kind \in Uses[column[op[o].slot]]
    /\ op[o].pc = "idle" => op[o] = Idle
    /\ op[o].pc = "gone" => op[o].slot \in dropped
    /\ op[o].new # NoFile => op[o].kind \in Making /\ op[o].pc \in {"ready", "handed"}
    /\ op[o].kind = "add" =>
         /\ op[o].slot \notin rows \cup dropped /\ op[o].old = NoFile
         /\ \A p \in Ops \ {o} : op[p].slot = op[o].slot => op[p].pc = "idle"

\* A dropped table has no row, and a code column without a row has no name.
Dropping ==
  /\ rows \cap dropped = {}
  /\ \A s \in Slots \ (rows \cup dropped) : column[s] = "code" => row[s] = NoFile

\* Who has the lock of a row is alone in that, and what it read is still there.
Locks ==
  \A o \in Ops : Holds(o) =>
    /\ op[o].slot \in rows /\ op[o].old = row[op[o].slot]
    /\ \A p \in Ops : Holds(p) /\ op[p].slot = op[o].slot => p = o

\* A file belongs to one column for ever.
OneSlot ==
  /\ \A s, t \in Slots : row[s] = row[t] /\ row[s] # NoFile => s = t
  /\ \A o \in Ops, s \in Slots : op[o].old = row[s] /\ row[s] # NoFile => op[o].slot = s
  /\ \A o, p \in Ops : op[o].old = op[p].old /\ op[o].old # NoFile => op[o].slot = op[p].slot

\* The file a request has made is in GridFS unless it could not be finished, it
\* is not on its way out, and nobody else knows it.
Fresh ==
  \A o \in Ops : op[o].new # NoFile =>
    /\ op[o].new \in (grid \cup doomed) \ ToRemove
    /\ \A s \in Slots : row[s] # op[o].new
    /\ \A p \in Ops : /\ op[p].old # op[o].new
                      /\ op[p].new = op[o].new => p = o

\* The file a row names may be scheduled already, but then by a request that is
\* about to commit, and for longer than that request can take.
HandedBy(s, f) == {o \in Ops : op[o].pc = "handed" /\ op[o].slot = s /\ op[o].old = f}
SlotKept(s) ==
  row[s] # NoFile /\ row[s] \notin doomed =>
    /\ row[s] \in grid \ taken
    /\ row[s] \in due => HandedBy(s, row[s]) # {}
    /\ \A e \in queue : e.file = row[s] =>
         \E o \in HandedBy(s, row[s]) : e.left + op[o].age >= Delay + 1
NamedKept == \A s \in rows : SlotKept(s)

\* The file a reader is about to open is there for at least as long as it needs.
ReadKept ==
  \A r \in Readers : reader[r].pc = "named" /\ reader[r].file \notin doomed =>
    /\ reader[r].file \in grid \ taken
    /\ \A e \in queue : e.file = reader[r].file => e.left + reader[r].age + Window >= Delay + 1

\* A file is named, on its way out, known to be lost, or in the hands of the
\* request that made it or that dropped its row; and the old file of a request
\* that is about to commit is on its way out.
Tracked == ToRemove \cup lost
InHand(f) == \E o \in Ops : op[o].new = f \/ (op[o].pc = "gone" /\ op[o].old = f)
Accounted ==
  /\ \A f \in grid : f \in Named \cup Tracked \/ InHand(f)
  /\ \A o \in Ops : op[o].pc = "handed" /\ op[o].old \in grid => op[o].old \in Tracked

IInv == TypeOK /\ Within /\ Kinds /\ Dropping /\ Locks /\ OneSlot /\ Fresh /\ NamedKept /\ ReadKept
        /\ Accounted

-----------------------------------------------------------------------------
(***************************************************************************)
(* What the steps of a request do to its record, field by field.            *)
(***************************************************************************)

\* The record of a request that is not running is a record of a request.
LEMMA IdleIsOp == Idle \in Op
  BY DEF Idle, Op, AllKinds, Uses, NoFile

\* A request ends: its record is the idle one, the others keep theirs.
LEMMA OneEnds ==
  ASSUME op \in [Ops -> Op], NEW o \in Ops, Ends(o)
  PROVE  /\ op' \in [Ops -> Op]
         /\ op'[o].pc = "idle" /\ op'[o].kind = "update" /\ op'[o] = Idle
         /\ op'[o].old = 0 /\ op'[o].new = 0
         /\ \A p \in Ops \ {o} : op'[p] = op[p]
<1>1. op'[o] = Idle /\ op' \in [Ops -> Op] /\ \A p \in Ops \ {o} : op'[p] = op[p]
  BY IdleIsOp DEF Ends
<1>2. Idle.pc = "idle" /\ Idle.kind = "update" /\ Idle.old = 0 /\ Idle.new = 0
  BY DEF Idle, NoFile
<1>. QED  BY <1>1, <1>2

\* A request goes on: only the point it is at changes.
LEMMA OneGoes ==
  ASSUME op \in [Ops -> Op], NEW o \in Ops, NEW pc \in {"open", "ready", "handed", "gone"}, Goes(o, pc)
  PROVE  /\ op' \in [Ops -> Op]
         /\ op'[o].pc = pc
         /\ \A p \in Ops : /\ op'[p].kind = op[p].kind /\ op'[p].slot = op[p].slot
                           /\ op'[p].old = op[p].old /\ op'[p].new = op[p].new
                           /\ op'[p].age = op[p].age
         /\ \A p \in Ops \ {o} : op'[p] = op[p]
  BY DEF Goes, Op

\* Time passes: the running requests grow older and change in nothing else.
LEMMA TickOps ==
  ASSUME op \in [Ops -> Op], Tick
  PROVE  /\ op' \in [Ops -> Op]
         /\ \A o \in Ops :
              /\ op'[o].pc = op[o].pc
              /\ op'[o].kind = op[o].kind
              /\ op'[o].slot = op[o].slot
              /\ op'[o].old = op[o].old
              /\ op'[o].new = op[o].new
              /\ op[o].pc = "idle" => op'[o] = op[o]
              /\ op[o].pc # "idle" => op'[o].age = op[o].age + 1
<1>1. SUFFICES ASSUME NEW o \in Ops
      PROVE  /\ op'[o] \in Op
             /\ op'[o].pc = op[o].pc
             /\ op'[o].kind = op[o].kind
             /\ op'[o].slot = op[o].slot
             /\ op'[o].old = op[o].old
             /\ op'[o].new = op[o].new
             /\ op[o].pc = "idle" => op'[o] = op[o]
             /\ op[o].pc # "idle" => op'[o].age = op[o].age + 1
  <2>1. op' = [o_1 \in Ops |-> op'[o_1]]
    BY DEF Tick
  <2>. QED  BY <2>1
<1>2. CASE op[o].pc = "idle"
  BY <1>2 DEF Tick
<1>3. CASE op[o].pc # "idle"
  <2>1. op'[o] = [op[o] EXCEPT !.age = @ + 1]
    BY <1>3 DEF Tick
  <2>2. op[o].age < Window /\ op[o] \in Op
    BY <1>3 DEF Tick
  <2>. QED  BY <1>3, <2>1, <2>2 DEF Op
<1>. QED  BY <1>2, <1>3

\* Time passes: every entry of ppms stays, with a tick less.
LEMMA TickQueue ==
  ASSUME queue \subseteq Entry, Tick
  PROVE  /\ queue' \subseteq Entry
         /\ \A e \in queue' : \E d \in queue :
              d.file = e.file /\ ((d.left = 0 /\ e.left = 0) \/ e.left = d.left - 1)
         /\ \A d \in queue : \E e \in queue' : e.file = d.file
<1>. DEFINE Down(e) == [e EXCEPT !.left = IF @ = 0 THEN 0 ELSE @ - 1]
<1>1. queue' = {Down(e) : e \in queue}
  BY DEF Tick
<1>2. ASSUME NEW d \in Entry
      PROVE  /\ Down(d) \in Entry
             /\ Down(d).file = d.file
             /\ (d.left = 0 /\ Down(d).left = 0) \/ Down(d).left = d.left - 1
  BY DEF Entry
<1>. HIDE DEF Down
<1>. QED  BY <1>1, <1>2


-----------------------------------------------------------------------------
(***************************************************************************)
(* Types.                                                                   *)
(***************************************************************************)

\* Records of requests stay records of requests.
LEMMA OpsStep ==
  ASSUME TypeOK, Within, Kinds, Next
  PROVE  op' \in [Ops -> Op]
<1>. USE IdleIsOp, OneEnds, OneGoes
<1>0. op \in [Ops -> Op]
  BY DEF TypeOK
<1>1. ASSUME NEW o \in Ops, NEW k \in AllKinds, NEW s \in Slots, Begin(o, k, s)
      PROVE  op' \in [Ops -> Op]
  <2>1. row[s] \in 0 .. MaxFiles /\ k \in AllKinds
    BY DEF TypeOK
  <2>2. PICK pc \in {"seen", "open"} :
          op' = [op EXCEPT ![o] = [pc |-> pc, kind |-> k, slot |-> s, old |-> row[s], new |-> NoFile, age |-> 0]]
    BY <1>1 DEF Begin
  <2>3. [pc |-> pc, kind |-> k, slot |-> s, old |-> row[s], new |-> NoFile, age |-> 0] \in Op
    BY <2>1 DEF Op, NoFile
  <2>. QED  BY <1>0, <2>2, <2>3
<1>2. ASSUME NEW o \in Ops, TakesName(o)
      PROVE  op' \in [Ops -> Op]
  <2>1. PICK pc \in {"handed", "ready"} : op' = [op EXCEPT ![o].pc = pc, ![o].new = made + 1]
    <3>1. CASE op[o].kind = "add"
      BY <1>2, <3>1 DEF TakesName
    <3>2. CASE op[o].kind # "add"
      BY <1>2, <3>2 DEF TakesName
    <3>. QED  BY <3>1, <3>2
  <2>2. made + 1 \in 0 .. MaxFiles
    BY <1>2 DEF TakesName, TypeOK
  <2>3. [op[o] EXCEPT !.pc = pc, !.new = made + 1] \in Op
    <3>1. ASSUME NEW e \in Op
          PROVE  [e EXCEPT !.pc = pc, !.new = made + 1] \in Op
      BY <2>2 DEF Op
    <3>. QED  BY <1>0, <3>1
  <2>4. op' = [op EXCEPT ![o] = [op[o] EXCEPT !.pc = pc, !.new = made + 1]]
    BY <1>0, <2>1 DEF Op
  <2>. QED  BY <1>0, <2>3, <2>4
<1>3. ASSUME NEW o \in Ops, MakeFails(o) \/ MakePartial(o)
      PROVE  op' \in [Ops -> Op]
  BY <1>0, <1>3 DEF MakeFails, MakePartial
<1>4. ASSUME NEW o \in Ops, \/ GivesUp(o) \/ StatementFails(o) \/ StatementIgnored(o) \/ Commit(o)
                            \/ CommitFails(o) \/ SaveFails(o) \/ DeleteRow(o) \/ RemoveNow(o)
                            \/ ScheduleDropped(o)
      PROVE  op' \in [Ops -> Op]
  BY <1>0, <1>4 DEF GivesUp, StatementFails, StatementIgnored, Commit, CommitFails, SaveFails,
     DeleteRow,
                    RemoveNow, ScheduleDropped
<1>5. ASSUME NEW o \in Ops, HandOver(o) \/ HandOverLater(o) \/ DropRow(o)
      PROVE  op' \in [Ops -> Op]
  BY <1>0, <1>5 DEF HandOver, HandOverLater, DropRow
<1>6. ASSUME NEW o \in Ops, Save(o)
      PROVE  op' \in [Ops -> Op]
  BY <1>0, <1>6 DEF Save
<1>7. CASE Tick
  BY <1>0, <1>7, TickOps
<1>8. CASE \/ \E f \in Files : SendDue(f) \/ RemoveTaken(f)
           \/ \E r \in Readers : OpenOnly(r) \/ \E s \in Slots : ReadName(r, s)
           \/ Sweep \/ PpmsCrash
  BY <1>0, <1>8 DEF SendDue, RemoveTaken, OpenOnly, ReadName, Sweep, PpmsCrash
<1>. QED  BY <1>1, <1>2, <1>3, <1>4, <1>5, <1>6, <1>7, <1>8 DEF Next, Step, Fails, Make,
            MakeUnfinished

\* Every step keeps the types, and names stay within those handed out.
LEMMA TypeStep ==
  ASSUME TypeOK, Within, Kinds, Next
  PROVE  TypeOK' /\ Within'
<1>. DEFINE Rest ==
       /\ rows \cup dropped \subseteq Slots /\ row \in [Slots -> 0 .. made]
       /\ made \in 0 .. MaxFiles /\ grid \subseteq 1 .. made
       /\ due \cup taken \subseteq 1 .. made /\ queue \subseteq Entry
       /\ failures \in 0 .. MaxFailures /\ doomed \cup lost \subseteq 1 .. made
       /\ Within
<1>0. op' \in [Ops -> Op]
  BY OpsStep
<1>0a. op \in [Ops -> Op]
  BY DEF TypeOK
<1>1. ASSUME NEW o \in Ops, NEW k \in AllKinds, NEW s \in Slots, Begin(o, k, s)
      PROVE  Rest'
  BY <1>1 DEF Begin, History, NoFile, Ppms, Store, TypeOK, Within
<1>2. ASSUME NEW o \in Ops, Make(o)
      PROVE  Rest'
  BY <1>2 DEF Make, TakesName, At, History, Ppms, TypeOK, Within, Op, Idle
<1>2a. ASSUME NEW o \in Ops, MakeUnfinished(o)
      PROVE  Rest'
  BY <1>2a DEF MakeUnfinished, TakesName, Failure, Doomed, At, History, Ppms, TypeOK, Within, Op, Idle
<1>3. ASSUME NEW o \in Ops, MakeFails(o)
      PROVE  Rest'
  <2>1. op[o].old \in 0 .. made
    BY DEF TypeOK, Within, Op
  <2>2. failures' \in 0 .. MaxFailures /\ UNCHANGED <<Store, Ppms, reader, doomed>>
    BY <1>3 DEF MakeFails, Failure, TypeOK
  <2>3. lost' = lost \/ lost' = lost \cup ({op[o].old} \ {0})
    BY <1>3 DEF MakeFails, Lost, NoFile
  <2>5. \A p \in Ops : op'[p].old \in {op[p].old, 0} /\ op'[p].new \in {op[p].new, 0}
    <3>1. CASE Ends(o)
      BY <1>0a, <3>1, OneEnds DEF Idle, NoFile
    <3>2. CASE Goes(o, "handed")
      BY <1>0a, <3>2, OneGoes
    <3>. QED  BY <1>3, <3>1, <3>2 DEF MakeFails
  <2>4. Within'
    BY <2>2, <2>5 DEF TypeOK, Within, Store, Ppms
  <2>. QED  BY <2>1, <2>2, <2>3, <2>4 DEF TypeOK, Store, Ppms
<1>3a. ASSUME NEW o \in Ops, MakePartial(o)
      PROVE  Rest'
  <2>1. op[o].old \in 0 .. made /\ made \in Nat
    BY DEF TypeOK, Within, Op
  <2>2. /\ failures' \in 0 .. MaxFailures /\ made' = made + 1 /\ made + 1 \in 0 .. MaxFiles
        /\ grid' = grid \cup {made + 1}
        /\ UNCHANGED <<column, rows, dropped, row, Ppms, reader, doomed>>
    BY <1>3a DEF MakePartial, Failure, TypeOK
  <2>3. lost' \subseteq lost \cup {made + 1} \cup ({op[o].old} \ {0})
    BY <1>3a, <2>2 DEF MakePartial, Lost, NoFile
  <2>5. \A p \in Ops : op'[p].old \in {op[p].old, 0} /\ op'[p].new \in {op[p].new, 0}
    <3>1. CASE Ends(o)
      BY <1>0a, <3>1, OneEnds DEF Idle, NoFile
    <3>2. CASE Goes(o, "handed")
      BY <1>0a, <3>2, OneGoes
    <3>. QED  BY <1>3a, <3>1, <3>2 DEF MakePartial
  <2>4. Within'
    BY <1>0a, <2>1, <2>2, <2>5 DEF TypeOK, Within, Ppms, Op, Entry, Files
  <2>. QED  BY <2>1, <2>2, <2>3, <2>4 DEF TypeOK, Ppms
<1>4. ASSUME NEW o \in Ops, StatementFails(o)
      PROVE  Rest'
  BY <1>4 DEF StatementFails, At, Ends, Failure, Lost, Ppms, Store, NoFile, TypeOK, Within, Op, Idle
<1>4a. ASSUME NEW o \in Ops, GivesUp(o)
      PROVE  Rest'
  BY <1>4a DEF GivesUp, At, Ends, Failure, Lost, Ppms, Store, NoFile, TypeOK, Within, Op, Idle
<1>5. ASSUME NEW o \in Ops, StatementIgnored(o)
      PROVE  Rest'
  BY <1>5 DEF StatementIgnored, At, Doomed, Ends, Failure, Lost, Scheduled, Store, NoFile, TypeOK,
     Within, Op, Idle, Entry, Files
<1>6. ASSUME NEW o \in Ops, HandOver(o)
      PROVE  Rest'
  BY <1>6 DEF HandOver, At, Goes, Schedule, Store, Failure, Lost, Scheduled, NoFile, TypeOK, Within,
     Op, Idle, Entry, Files
<1>7. ASSUME NEW o \in Ops, HandOverLater(o)
      PROVE  Rest'
  BY <1>7 DEF HandOverLater, At, Goes, History, NoFile, Store, TypeOK, Within, Op, Idle
<1>8. ASSUME NEW o \in Ops, Commit(o)
      PROVE  Rest'
  BY <1>8 DEF Commit, At, Ends, History, Ppms, TypeOK, Within, Op, Idle, Entry, NoFile, Files
<1>9. ASSUME NEW o \in Ops, CommitFails(o)
      PROVE  Rest'
  BY <1>9 DEF CommitFails, At, Doomed, Ends, Failure, Lost, Ppms, Store, NoFile, TypeOK, Within, Op,
     Idle
<1>10. ASSUME NEW o \in Ops, Save(o)
      PROVE  Rest'
  BY <1>10 DEF Save, At, Doomed, Ends, Goes, Lost, Named, Ppms, NoFile, TypeOK, Within, Op, Idle
<1>11. ASSUME NEW o \in Ops, SaveFails(o)
      PROVE  Rest'
  BY <1>11 DEF SaveFails, At, Ends, History, Ppms, Store, TypeOK, Within, Op, Idle, Entry, NoFile,
     Files
<1>12. ASSUME NEW o \in Ops, DeleteRow(o)
      PROVE  Rest'
  BY <1>12 DEF DeleteRow, At, Ends, Ppms, RowGoes, Lost, Named, NoFile, TypeOK, Within, Op, Idle
<1>13. ASSUME NEW o \in Ops, DropRow(o)
      PROVE  Rest'
  BY <1>13 DEF DropRow, At, Goes, Ppms, RowGoes, Lost, Named, NoFile, TypeOK, Within, Op, Idle
<1>14. ASSUME NEW o \in Ops, RemoveNow(o)
      PROVE  Rest'
  <2>1. op[o].old \in 0 .. made
    BY DEF TypeOK, Within, Op
  <2>3. \A p \in Ops : op'[p].old \in {op[p].old, 0} /\ op'[p].new \in {op[p].new, 0}
    BY <1>0a, <1>14, OneEnds DEF RemoveNow, Idle, NoFile
  <2>2. Within'
    BY <1>14, <2>3 DEF RemoveNow, TypeOK, Within, Ppms
  <2>4. /\ doomed' \cup lost' \subseteq 1 .. made /\ failures' \in 0 .. MaxFailures
        /\ grid' \subseteq 1 .. made
    <3>1. CASE UNCHANGED <<failures, lost>> /\ Doomed(op[o].old) /\ grid' \subseteq grid
      BY <2>1, <3>1 DEF Doomed, NoFile, TypeOK
    <3>2. CASE Failure("gridfs") /\ Lost({op[o].old}) /\ UNCHANGED <<grid, doomed>>
      BY <2>1, <3>2 DEF Lost, Failure, NoFile, TypeOK
    <3>. QED  BY <1>14, <3>1, <3>2 DEF RemoveNow
  <2>. QED  BY <1>14, <2>2, <2>4 DEF RemoveNow, TypeOK, Ppms
<1>15. ASSUME NEW o \in Ops, ScheduleDropped(o)
      PROVE  Rest'
  BY <1>15 DEF ScheduleDropped, At, Ends, Lost, Schedule, Store, Uncollected, NoFile, Failure,
     Scheduled, TypeOK, Within, Op, Idle, Entry, Files
<1>16. ASSUME NEW f \in Files, SendDue(f)
      PROVE  Rest'
  BY <1>16 DEF SendDue, Schedule, Store, Failure, Lost, Scheduled, NoFile, TypeOK, Within, Op, Entry
<1>17. ASSUME NEW f \in Files, RemoveTaken(f)
      PROVE  Rest'
  <2>1. f \in 1 .. made
    BY <1>17 DEF RemoveTaken, TypeOK
  <2>2. CASE grid' = grid \ {f} /\ UNCHANGED <<lost, failures>>
    BY <1>17, <2>2 DEF RemoveTaken, TypeOK, Within
  <2>3. CASE Failure("gridfs") /\ UNCHANGED grid /\ Lost({f})
    BY <1>17, <2>1, <2>3 DEF RemoveTaken, Failure, Lost, NoFile, TypeOK, Within
  <2>. QED  BY <1>17, <2>2, <2>3 DEF RemoveTaken
<1>18. ASSUME Sweep
      PROVE  Rest'
  BY <1>18 DEF Sweep, Expired, Failure, History, Store, TypeOK, Within, Op, Entry, Files
<1>19. ASSUME PpmsCrash
      PROVE  Rest'
  BY <1>19 DEF PpmsCrash, Failure, Lost, Store, NoFile, TypeOK, Within
<1>20. ASSUME Tick
      PROVE  Rest'
  BY <1>20, TickOps, TickQueue DEF Tick, Store, Ppms, History, TypeOK, Within
<1>21. ASSUME NEW r \in Readers, OpenOnly(r) \/ \E s \in Slots : ReadName(r, s)
      PROVE  Rest'
  <2>1. UNCHANGED <<rows, dropped, row, grid, made, op, due, queue, taken, failures, doomed, lost>>
    BY <1>21 DEF OpenOnly, ReadName, Store, Ppms, History
  <2>. QED  BY <2>1 DEF TypeOK, Within
<1>22. column' \in [Slots -> DOMAIN Uses]
  BY ZenonT(40) DEF Next, Step, Fails, TypeOK, Store, Begin, Make, TakesName, MakeUnfinished,
     MakeFails, MakePartial, GivesUp, StatementFails, StatementIgnored,
     HandOver, HandOverLater, Commit, CommitFails, Save, SaveFails, DeleteRow, DropRow, RemoveNow,
     ScheduleDropped, SendDue, RemoveTaken, OpenOnly, ReadName, Sweep, PpmsCrash, Tick
<1>23. reader' \in [Readers -> [pc : {"idle", "named"}, file : 0 .. MaxFiles, age : 0 .. Window]]
  <2>0. CASE reader' = reader
    BY <2>0 DEF TypeOK
  <2>1. ASSUME NEW r \in Readers, OpenOnly(r) \/ \E s \in Slots : ReadName(r, s)
        PROVE  reader' \in [Readers -> [pc : {"idle", "named"}, file : 0 .. MaxFiles, age : 0 .. Window]]
    BY <2>1 DEF OpenOnly, ReadName, TypeOK, NoFile
  <2>2. CASE Tick
    BY <2>2 DEF Tick, TypeOK
  <2>. QED  BY <2>0, <2>1, <2>2, ZenonT(40) DEF Next, Step, Fails, Begin, Make, TakesName,
              MakeUnfinished, MakeFails, MakePartial, GivesUp, StatementFails,
               StatementIgnored, HandOver, HandOverLater, Commit, CommitFails, Save, SaveFails,
               DeleteRow, DropRow, RemoveNow, ScheduleDropped, SendDue, RemoveTaken, Sweep,
               PpmsCrash
<1>. QED  BY <1>0, <1>1, <1>2, <1>2a, <1>3, <1>3a, <1>4, <1>4a, <1>5, <1>6, <1>7, <1>8, <1>9,
            <1>10, <1>11, <1>12, <1>13,
             <1>14, <1>15, <1>16, <1>17, <1>18, <1>19, <1>20, <1>21, <1>22, <1>23 DEF Next, Step,
             Fails, TypeOK

-----------------------------------------------------------------------------
(***************************************************************************)
(* Who works on which column.                                               *)
(***************************************************************************)

\* A file is made: the request has its name, which is new.
LEMMA OneMakes ==
  ASSUME op \in [Ops -> Op], NEW o \in Ops, Make(o) \/ MakeUnfinished(o)
  PROVE  /\ op[o].pc = "open" /\ op[o].kind \in Making
         /\ op'[o].pc \in {"ready", "handed"} /\ op'[o].new = made + 1
         /\ op[o].kind # "add" => op'[o].pc = "ready"
         /\ \A p \in Ops : /\ op'[p].kind = op[p].kind /\ op'[p].slot = op[p].slot
                           /\ op'[p].old = op[p].old
         /\ \A p \in Ops \ {o} : op'[p] = op[p]
<1>0. TakesName(o)
  BY DEF Make, MakeUnfinished
<1>1. CASE op[o].kind = "add"
  BY <1>0, <1>1 DEF TakesName, At, Op
<1>2. CASE op[o].kind # "add"
  BY <1>0, <1>2 DEF TakesName, At, Op
<1>. QED  BY <1>1, <1>2

\* Readers, ppms and the goroutine that sends a name leave rows and requests
\* alone.
LEMMA OthersKeep ==
  ASSUME \/ \E f \in Files : SendDue(f) \/ RemoveTaken(f)
         \/ \E r \in Readers : OpenOnly(r) \/ \E s \in Slots : ReadName(r, s)
         \/ Sweep \/ PpmsCrash
  PROVE  UNCHANGED <<column, rows, dropped, row, op>>
  BY DEF SendDue, RemoveTaken, OpenOnly, ReadName, Sweep, PpmsCrash, Store

\* Every step keeps Kinds: each request does to its column what that column is
\* for.
LEMMA KindsStep ==
  ASSUME TypeOK, Kinds, Dropping, Locks, Next
  PROVE  Kinds'
<1>0. op \in [Ops -> Op]
  BY DEF TypeOK
<1>1. ASSUME NEW o \in Ops, NEW k \in AllKinds, NEW t \in Slots, Begin(o, k, t)
      PROVE  Kinds'
  BY <1>1 DEF Begin, History, Locked, Locking, Making, Ppms, Store, Uses, Kinds, Op, Idle, TypeOK,
     Dropping, Locks
<1>2. ASSUME NEW o \in Ops, Make(o)
      PROVE  Kinds'
  <2>1. UNCHANGED <<column, rows, dropped>>
    BY <1>2 DEF Make, TakesName
  <2>2. ASSUME NEW p \in Ops, p # o
        PROVE  op'[p] = op[p]
    BY <1>0, <1>2, <2>2, OneMakes
  <2>3. \A p \in Ops : (op'[p].pc = "idle") <=> (op[p].pc = "idle")
    BY <1>0, <1>2, OneMakes
  <2>4. \A p \in Ops : op'[p].kind = op[p].kind /\ op'[p].slot = op[p].slot /\ op'[p].old = op[p].old
    BY <1>0, <1>2, OneMakes
  <2>5. op'[o].pc \in {"ready", "handed"} /\ op[o].kind \in Making
    BY <1>0, <1>2, OneMakes
  <2>6. op[o].pc # "gone" /\ op'[o].pc # "gone"
    BY <1>0, <1>2, <2>5, OneMakes
  <2>. QED  BY <2>1, <2>2, <2>3, <2>4, <2>5, <2>6 DEF Kinds
<1>2a. ASSUME NEW o \in Ops, MakeUnfinished(o)
      PROVE  Kinds'
  <2>1. UNCHANGED <<column, rows, dropped>>
    BY <1>2a DEF MakeUnfinished, TakesName, Failure, Doomed
  <2>2. ASSUME NEW p \in Ops, p # o
        PROVE  op'[p] = op[p]
    BY <1>0, <1>2a, <2>2, OneMakes
  <2>3. \A p \in Ops : (op'[p].pc = "idle") <=> (op[p].pc = "idle")
    BY <1>0, <1>2a, OneMakes
  <2>4. \A p \in Ops : op'[p].kind = op[p].kind /\ op'[p].slot = op[p].slot /\ op'[p].old = op[p].old
    BY <1>0, <1>2a, OneMakes
  <2>5. op'[o].pc \in {"ready", "handed"} /\ op[o].kind \in Making
    BY <1>0, <1>2a, OneMakes
  <2>6. op[o].pc # "gone" /\ op'[o].pc # "gone"
    BY <1>0, <1>2a, <2>5, OneMakes
  <2>. QED  BY <2>1, <2>2, <2>3, <2>4, <2>5, <2>6 DEF Kinds
<1>3. ASSUME NEW o \in Ops, MakeFails(o)
      PROVE  Kinds'
  <2>1. CASE Ends(o)
    BY <1>0, <1>3, <2>1, OneEnds DEF MakeFails, Kinds, At, Store, NoFile
  <2>2. CASE Goes(o, "handed")
    BY <1>0, <1>3, <2>2, OneGoes DEF MakeFails, Kinds, At, Store, NoFile
  <2>. QED  BY <1>3, <2>1, <2>2 DEF MakeFails
<1>3a. ASSUME NEW o \in Ops, MakePartial(o)
      PROVE  Kinds'
  <2>1. CASE Ends(o)
    BY <1>0, <1>3a, <2>1, OneEnds DEF MakePartial, Kinds, At, Store, NoFile
  <2>2. CASE Goes(o, "handed")
    BY <1>0, <1>3a, <2>2, OneGoes DEF MakePartial, Kinds, At, Store, NoFile
  <2>. QED  BY <1>3a, <2>1, <2>2 DEF MakePartial
<1>4. ASSUME NEW o \in Ops, StatementFails(o)
      PROVE  Kinds'
  BY <1>4 DEF StatementFails, At, Ends, Failure, Locking, Lost, Ppms, Store, Kinds, Making, Uses,
     Op, Idle
<1>4a. ASSUME NEW o \in Ops, GivesUp(o)
      PROVE  Kinds'
  BY <1>4a DEF GivesUp, At, Ends, Failure, Locking, Lost, Ppms, Store, Kinds, Making, Uses,
     Op, Idle
<1>5. ASSUME NEW o \in Ops, StatementIgnored(o)
      PROVE  Kinds'
  BY <1>5 DEF StatementIgnored, At, Doomed, Ends, Failure, Lost, Store, Kinds, Making, Uses, Op,
     Idle
<1>6. ASSUME NEW o \in Ops, HandOver(o)
      PROVE  Kinds'
  BY <1>6 DEF HandOver, At, Goes, Schedule, Store, Failure, Lost, Kinds, Making, Uses
<1>7. ASSUME NEW o \in Ops, HandOverLater(o)
      PROVE  Kinds'
  BY <1>7 DEF HandOverLater, At, Goes, History, Store, Kinds, Making, Uses
<1>8. ASSUME NEW o \in Ops, Commit(o)
      PROVE  Kinds'
  BY <1>8 DEF Commit, At, Ends, History, Locking, Ppms, Kinds, Making, Uses, Op, Idle, TypeOK,
     Dropping, Locks
<1>9. ASSUME NEW o \in Ops, CommitFails(o)
      PROVE  Kinds'
  BY <1>9 DEF CommitFails, At, Doomed, Ends, Failure, Locking, Lost, Ppms, Store, Kinds, Making,
     Uses, Op, Idle
<1>10. ASSUME NEW o \in Ops, Save(o)
      PROVE  Kinds'
  <2>1. CASE Ends(o)
    BY <1>0, <1>10, <2>1, OneEnds DEF Save, Kinds, At, Locked, Locking, NoFile
  <2>2. CASE Goes(o, "open")
    BY <1>0, <1>10, <2>2, OneGoes DEF Save, Kinds, At, Locked, Locking, NoFile
  <2>. QED  BY <1>10, <2>1, <2>2 DEF Save
<1>11. ASSUME NEW o \in Ops, SaveFails(o)
      PROVE  Kinds'
  BY <1>11 DEF SaveFails, At, Ends, History, Ppms, Store, Kinds, Making, Uses, Op, Idle
<1>12. ASSUME NEW o \in Ops, DeleteRow(o)
      PROVE  Kinds'
  BY <1>12 DEF DeleteRow, At, Ends, Locked, Ppms, RowGoes, Locking, Lost, Kinds, Making, Uses, Op,
     Idle
<1>13. ASSUME NEW o \in Ops, DropRow(o)
      PROVE  Kinds'
  BY <1>13 DEF DropRow, At, Goes, Locked, Ppms, RowGoes, Locking, Lost, Kinds, Making, Uses
<1>14. ASSUME NEW o \in Ops, RemoveNow(o)
      PROVE  Kinds'
  BY <1>14 DEF RemoveNow, At, Doomed, Ends, Ppms, Kinds, Making, Uses, Op, Idle
<1>15. ASSUME NEW o \in Ops, ScheduleDropped(o)
      PROVE  Kinds'
  BY <1>15 DEF ScheduleDropped, At, Ends, Lost, Schedule, Store, Failure, Kinds, Making, Uses, Op,
     Idle
<1>16. CASE UNCHANGED <<column, rows, dropped, row, op>>
  BY <1>16 DEF Kinds
<1>17. ASSUME Tick
      PROVE  Kinds'
  BY <1>0, <1>17, TickOps DEF Tick, Kinds, Store
<1>. QED  BY <1>1, <1>2, <1>2a, <1>3, <1>3a, <1>4, <1>4a, <1>5, <1>6, <1>7, <1>8, <1>9, <1>10,
            <1>11, <1>12, <1>13,
             <1>14, <1>15, <1>16, <1>17, OthersKeep DEF Next, Step, Fails

\* Every step keeps OneSlot: names do not move between columns.
LEMMA OneSlotStep ==
  ASSUME TypeOK, OneSlot, Fresh, Next
  PROVE  OneSlot'
<1>0. op \in [Ops -> Op]
  BY DEF TypeOK
<1>1. ASSUME NEW o \in Ops, NEW k \in AllKinds, NEW t \in Slots, Begin(o, k, t)
      PROVE  OneSlot'
  BY <1>1 DEF Begin, History, Locking, Making, Ppms, Store, OneSlot
<1>2. ASSUME NEW o \in Ops, Make(o)
      PROVE  OneSlot'
  BY <1>2 DEF Make, TakesName, At, History, Making, Ppms, OneSlot, Op, Idle, TypeOK, Fresh
<1>2a. ASSUME NEW o \in Ops, MakeUnfinished(o)
      PROVE  OneSlot'
  BY <1>2a DEF MakeUnfinished, TakesName, Failure, Doomed, At, History, Making, Ppms, OneSlot, Op,
     Idle, TypeOK, Fresh
<1>3. ASSUME NEW o \in Ops, MakeFails(o)
      PROVE  OneSlot'
  <2>1. CASE Ends(o)
    BY <1>0, <1>3, <2>1, OneEnds DEF MakeFails, OneSlot, Store, NoFile
  <2>2. CASE Goes(o, "handed")
    BY <1>0, <1>3, <2>2, OneGoes DEF MakeFails, OneSlot, Store, NoFile
  <2>. QED  BY <1>3, <2>1, <2>2 DEF MakeFails
<1>3a. ASSUME NEW o \in Ops, MakePartial(o)
      PROVE  OneSlot'
  <2>1. CASE Ends(o)
    BY <1>0, <1>3a, <2>1, OneEnds DEF MakePartial, OneSlot, Store, NoFile
  <2>2. CASE Goes(o, "handed")
    BY <1>0, <1>3a, <2>2, OneGoes DEF MakePartial, OneSlot, Store, NoFile
  <2>. QED  BY <1>3a, <2>1, <2>2 DEF MakePartial
<1>4. ASSUME NEW o \in Ops, StatementFails(o)
      PROVE  OneSlot'
  BY <1>4 DEF StatementFails, At, Ends, Failure, Locking, Lost, Ppms, Store, OneSlot, Op, Idle
<1>4a. ASSUME NEW o \in Ops, GivesUp(o)
      PROVE  OneSlot'
  BY <1>4a DEF GivesUp, At, Ends, Failure, Locking, Lost, Ppms, Store, OneSlot, Op, Idle
<1>5. ASSUME NEW o \in Ops, StatementIgnored(o)
      PROVE  OneSlot'
  BY <1>5 DEF StatementIgnored, At, Doomed, Ends, Failure, Lost, Store, OneSlot, Op, Idle
<1>6. ASSUME NEW o \in Ops, HandOver(o)
      PROVE  OneSlot'
  BY <1>6 DEF HandOver, At, Goes, Schedule, Store, Failure, Lost, OneSlot
<1>7. ASSUME NEW o \in Ops, HandOverLater(o)
      PROVE  OneSlot'
  BY <1>7 DEF HandOverLater, At, Goes, History, Store, OneSlot
<1>8. ASSUME NEW o \in Ops, Commit(o)
      PROVE  OneSlot'
  BY <1>8 DEF Commit, At, Ends, History, Locking, Ppms, OneSlot, Op, Idle, TypeOK, Fresh
<1>9. ASSUME NEW o \in Ops, CommitFails(o)
      PROVE  OneSlot'
  BY <1>9 DEF CommitFails, At, Doomed, Ends, Failure, Locking, Lost, Ppms, Store, OneSlot, Op, Idle
<1>10. ASSUME NEW o \in Ops, Save(o)
      PROVE  OneSlot'
  <2>1. CASE Ends(o)
    BY <1>0, <1>10, <2>1, OneEnds DEF Save, OneSlot, NoFile, TypeOK
  <2>2. CASE Goes(o, "open")
    BY <1>0, <1>10, <2>2, OneGoes DEF Save, OneSlot, NoFile, TypeOK
  <2>. QED  BY <1>10, <2>1, <2>2 DEF Save
<1>11. ASSUME NEW o \in Ops, SaveFails(o)
      PROVE  OneSlot'
  BY <1>11 DEF SaveFails, At, Ends, History, Ppms, Store, OneSlot, Op, Idle
<1>12. ASSUME NEW o \in Ops, DeleteRow(o)
      PROVE  OneSlot'
  BY <1>12 DEF DeleteRow, At, Ends, Ppms, RowGoes, Lost, OneSlot, Op, Idle
<1>13. ASSUME NEW o \in Ops, DropRow(o)
      PROVE  OneSlot'
  BY <1>13 DEF DropRow, At, Goes, Ppms, RowGoes, Lost, OneSlot
<1>14. ASSUME NEW o \in Ops, RemoveNow(o)
      PROVE  OneSlot'
  BY <1>14 DEF RemoveNow, At, Doomed, Ends, Ppms, OneSlot, Op, Idle
<1>15. ASSUME NEW o \in Ops, ScheduleDropped(o)
      PROVE  OneSlot'
  BY <1>15 DEF ScheduleDropped, At, Ends, Lost, Schedule, Store, Failure, OneSlot, Op, Idle
<1>16. CASE UNCHANGED <<column, rows, dropped, row, op>>
  BY <1>16 DEF OneSlot
<1>17. ASSUME Tick
      PROVE  OneSlot'
  BY <1>17 DEF Tick, History, Store, OneSlot
<1>. QED  BY <1>1, <1>2, <1>2a, <1>3, <1>3a, <1>4, <1>4a, <1>5, <1>6, <1>7, <1>8, <1>9, <1>10,
            <1>11, <1>12, <1>13,
             <1>14, <1>15, <1>16, <1>17, OthersKeep DEF Next, Step, Fails

-----------------------------------------------------------------------------
(***************************************************************************)
(* The files that rows name.                                                *)
(***************************************************************************)

\* A step that leaves the row, its file and the requests about to commit alone
\* keeps SlotKept.
LEMMA KeptFrame ==
  ASSUME TypeOK, NEW s \in Slots, SlotKept(s), row'[s] = row[s],
         doomed \subseteq doomed', row[s] \notin due' \ due,
         row[s] \in grid \ taken => row[s] \in grid' \ taken',
         \A e \in queue' : e.file = row[s] => e \in queue,
         \A p \in HandedBy(s, row[s]) : op'[p] = op[p]
  PROVE  SlotKept(s)'
<1>1. HandedBy(s, row[s]) \subseteq HandedBy(s, row[s])'
  BY DEF HandedBy
<1>. QED  BY <1>1 DEF SlotKept, HandedBy

\* Every step keeps NamedKept, the heart of the argument: the row a file is
\* taken from changes in time.
LEMMA NamedStep ==
  ASSUME TypeOK, Within, Kinds, Dropping, Locks, OneSlot, Fresh, NamedKept, Next
  PROVE  NamedKept'
<1>0. op \in [Ops -> Op]
  BY DEF TypeOK
<1>00. rows' \subseteq Slots
  BY TypeStep DEF TypeOK
<1>1. ASSUME NEW o \in Ops, NEW k \in AllKinds, NEW t \in Slots, Begin(o, k, t)
      PROVE  NamedKept'
  <2>0. SUFFICES ASSUME NEW s \in rows', s \in Slots
                 PROVE  SlotKept(s)'
    BY <1>00 DEF NamedKept
  <2>1. \A p \in Ops : op[p].pc = "handed" => op'[p] = op[p]
    BY <1>0, <1>1 DEF Begin, At
  <2>2. s \in rows /\ SlotKept(s) /\ UNCHANGED <<row, due, taken, queue, doomed>> /\ grid \subseteq grid'
    BY <1>1, <2>0 DEF Begin, NamedKept, Store, Ppms, History
  <2>. QED  BY <2>0, <2>1, <2>2, KeptFrame DEF HandedBy
<1>2. ASSUME NEW o \in Ops, Make(o)
      PROVE  NamedKept'
  <2>0. SUFFICES ASSUME NEW s \in rows', s \in Slots
                 PROVE  SlotKept(s)'
    BY <1>00 DEF NamedKept
  <2>1. \A p \in Ops : op[p].pc = "handed" => op'[p] = op[p]
    BY <1>0, <1>2, OneMakes DEF Make, TakesName, At
  <2>2. s \in rows /\ SlotKept(s) /\ UNCHANGED <<row, due, taken, queue, doomed>> /\ grid \subseteq grid'
    BY <1>2, <2>0 DEF Make, TakesName, NamedKept, Store, Ppms, History
  <2>. QED  BY <2>0, <2>1, <2>2, KeptFrame DEF HandedBy
<1>2a. ASSUME NEW o \in Ops, MakeUnfinished(o)
      PROVE  NamedKept'
  <2>0. SUFFICES ASSUME NEW s \in rows', s \in Slots
                 PROVE  SlotKept(s)'
    BY <1>00 DEF NamedKept
  <2>1. \A p \in Ops : op[p].pc = "handed" => op'[p] = op[p]
    BY <1>0, <1>2a, OneMakes DEF MakeUnfinished, TakesName, Failure, Doomed, At
  <2>2. /\ s \in rows /\ SlotKept(s) /\ UNCHANGED <<row, due, taken, queue, grid>>
        /\ doomed \subseteq doomed'
    BY <1>2a, <2>0 DEF MakeUnfinished, TakesName, Doomed, NamedKept, Ppms
  <2>. QED  BY <2>0, <2>1, <2>2, KeptFrame DEF HandedBy
<1>3. ASSUME NEW o \in Ops, MakeFails(o)
      PROVE  NamedKept'
  <2>0. SUFFICES ASSUME NEW s \in rows', s \in Slots
                 PROVE  SlotKept(s)'
    BY <1>00 DEF NamedKept
  <2>1. \A p \in Ops : op[p].pc = "handed" => op'[p] = op[p]
    BY <1>0, <1>3, OneEnds, OneGoes DEF MakeFails, At
  <2>2. s \in rows /\ SlotKept(s) /\ UNCHANGED <<row, due, taken, queue, doomed>> /\ grid \subseteq grid'
    BY <1>3, <2>0 DEF MakeFails, NamedKept, Store, Ppms, History
  <2>. QED  BY <2>0, <2>1, <2>2, KeptFrame DEF HandedBy
<1>3a. ASSUME NEW o \in Ops, MakePartial(o)
      PROVE  NamedKept'
  <2>0. SUFFICES ASSUME NEW s \in rows', s \in Slots
                 PROVE  SlotKept(s)'
    BY <1>00 DEF NamedKept
  <2>1. \A p \in Ops : op[p].pc = "handed" => op'[p] = op[p]
    BY <1>0, <1>3a, OneEnds, OneGoes DEF MakePartial, At
  <2>2. s \in rows /\ SlotKept(s) /\ UNCHANGED <<row, due, taken, queue, doomed>> /\ grid \subseteq grid'
    BY <1>3a, <2>0 DEF MakePartial, NamedKept, Store, Ppms, History
  <2>. QED  BY <2>0, <2>1, <2>2, KeptFrame DEF HandedBy
<1>4. ASSUME NEW o \in Ops, StatementFails(o)
      PROVE  NamedKept'
  <2>0. SUFFICES ASSUME NEW s \in rows', s \in Slots
                 PROVE  SlotKept(s)'
    BY <1>00 DEF NamedKept
  <2>1. \A p \in Ops : op[p].pc = "handed" => op'[p] = op[p]
    BY <1>0, <1>4, OneEnds DEF StatementFails, At
  <2>2. s \in rows /\ SlotKept(s) /\ UNCHANGED <<row, due, taken, queue, doomed>> /\ grid \subseteq grid'
    BY <1>4, <2>0 DEF StatementFails, NamedKept, Store, Ppms, History
  <2>. QED  BY <2>0, <2>1, <2>2, KeptFrame DEF HandedBy
<1>4a. ASSUME NEW o \in Ops, GivesUp(o)
      PROVE  NamedKept'
  <2>0. SUFFICES ASSUME NEW s \in rows', s \in Slots
                 PROVE  SlotKept(s)'
    BY <1>00 DEF NamedKept
  <2>1. \A p \in Ops : op[p].pc = "handed" => op'[p] = op[p]
    BY <1>0, <1>4a, OneEnds DEF GivesUp, At
  <2>2. s \in rows /\ SlotKept(s) /\ UNCHANGED <<row, due, taken, queue, doomed>> /\ grid \subseteq grid'
    BY <1>4a, <2>0 DEF GivesUp, NamedKept, Store, Ppms, History
  <2>. QED  BY <2>0, <2>1, <2>2, KeptFrame DEF HandedBy
<1>5. ASSUME NEW o \in Ops, StatementIgnored(o)
      PROVE  NamedKept'
  <2>0. SUFFICES ASSUME NEW s \in rows', s \in Slots
                 PROVE  SlotKept(s)'
    BY <1>00 DEF NamedKept
  <2>1. \A p \in Ops : op[p].pc = "handed" => op'[p] = op[p]
    BY <1>0, <1>5, OneEnds DEF StatementIgnored, At
  <2>2. s \in rows /\ SlotKept(s) /\ UNCHANGED <<row, due, taken, grid>>
    BY <1>5, <2>0 DEF StatementIgnored, NamedKept, Store
  <2>3. queue' = queue \cup Scheduled(op[o].old) /\ doomed' = doomed \cup ({op[o].old} \ {NoFile})
    BY <1>5 DEF StatementIgnored, Doomed
  <2>4. CASE op[o].old = row[s]
    BY <2>2, <2>3, <2>4 DEF SlotKept
  <2>5. CASE op[o].old # row[s]
    BY <2>0, <2>1, <2>2, <2>3, <2>5, KeptFrame DEF HandedBy, Scheduled
  <2>. QED  BY <2>4, <2>5
<1>6. ASSUME NEW o \in Ops, HandOver(o)
      PROVE  NamedKept'
  <2>0. SUFFICES ASSUME NEW s \in rows', s \in Slots
                 PROVE  SlotKept(s)'
    BY <1>00 DEF NamedKept
  <2>1. UNCHANGED <<rows, row, grid, taken, due, doomed>> /\ s \in rows /\ SlotKept(s)
    BY <1>6, <2>0 DEF HandOver, Store, NamedKept
  <2>2. /\ op'[o].pc = "handed"
        /\ \A p \in Ops : op'[p].slot = op[p].slot /\ op'[p].old = op[p].old /\ op'[p].age = op[p].age
    BY <1>0, <1>6, OneGoes DEF HandOver
  <2>3. HandedBy(s, row[s]) \subseteq HandedBy(s, row[s])'
    BY <1>0, <1>6, <2>1, OneGoes DEF HandOver, HandedBy
  <2>4. queue' \subseteq queue \cup Scheduled(op[o].old)
    BY <1>6 DEF HandOver, Schedule
  <2>5. ASSUME row[s] # NoFile, NEW e \in Scheduled(op[o].old), e.file = row[s]
        PROVE  o \in HandedBy(s, row[s])' /\ e.left = Delay + 1 /\ op'[o].age \in 0 .. Window
    <3>1. op[o].old = row[s] /\ e.left = Delay + 1
      BY <2>5 DEF Scheduled, NoFile
    <3>2. op[o].slot = s
      BY <2>0, <2>5, <3>1 DEF OneSlot
    <3>3. op[o].age \in 0 .. Window
      BY <1>0 DEF Op
    <3>. QED  BY <2>1, <2>2, <3>1, <3>2, <3>3 DEF HandedBy
  <2>6. ASSUME row[s] # NoFile, row[s] \notin doomed, NEW e \in queue', e.file = row[s]
        PROVE  \E p \in HandedBy(s, row[s])' : e.left + op'[p].age >= Delay + 1
    <3>1. CASE e \in queue
      BY <2>1, <2>2, <2>3, <2>6, <3>1 DEF SlotKept, HandedBy
    <3>2. CASE e \in Scheduled(op[o].old)
      <4>1. o \in HandedBy(s, row[s])' /\ e.left = Delay + 1 /\ op'[o].age \in 0 .. Window
        BY <2>5, <2>6, <3>2
      <4>2. e.left + op'[o].age >= Delay + 1
        BY <4>1
      <4>. QED  BY <4>1, <4>2
    <3>. QED  BY <2>4, <2>6, <3>1, <3>2
  <2>. QED  BY <2>1, <2>3, <2>6 DEF SlotKept
<1>7. ASSUME NEW o \in Ops, HandOverLater(o)
      PROVE  NamedKept'
  <2>0. SUFFICES ASSUME NEW s \in rows', s \in Slots
                 PROVE  SlotKept(s)'
    BY <1>00 DEF NamedKept
  <2>1. UNCHANGED <<rows, row, grid, taken, queue, doomed>> /\ s \in rows /\ SlotKept(s)
    BY <1>7, <2>0 DEF HandOverLater, Store, History, NamedKept
  <2>2. due' = due \cup ({op[o].old} \ {NoFile})
    BY <1>7 DEF HandOverLater
  <2>3. /\ op'[o].pc = "handed"
        /\ \A p \in Ops : op'[p].slot = op[p].slot /\ op'[p].old = op[p].old /\ op'[p].age = op[p].age
    BY <1>0, <1>7, OneGoes DEF HandOverLater
  <2>4. HandedBy(s, row[s]) \subseteq HandedBy(s, row[s])'
    BY <1>0, <1>7, <2>1, OneGoes DEF HandOverLater, HandedBy
  <2>5. ASSUME row[s] # NoFile, row[s] = op[o].old
        PROVE  o \in HandedBy(s, row[s])'
    <3>1. op[o].slot = s
      BY <2>0, <2>5 DEF OneSlot
    <3>. QED  BY <2>1, <2>3, <2>5, <3>1 DEF HandedBy
  <2>6. \A p \in HandedBy(s, row[s]) : op'[p].age = op[p].age
    BY <2>3 DEF HandedBy
  <2>. QED  BY <2>1, <2>2, <2>4, <2>5, <2>6 DEF SlotKept
<1>8. ASSUME NEW o \in Ops, Commit(o)
      PROVE  NamedKept'
  <2>0. SUFFICES ASSUME NEW s \in rows', s \in Slots
                 PROVE  SlotKept(s)'
    BY <1>00 DEF NamedKept
  <2>1. UNCHANGED <<grid, taken, due, queue, doomed>>
    BY <1>8 DEF Commit, Ppms, History
  <2>2. rows' = rows \cup {op[o].slot} /\ row' = [row EXCEPT ![op[o].slot] = op[o].new]
    BY <1>8 DEF Commit
  <2>3. CASE s = op[o].slot
    <3>1. row'[s] = op[o].new
      BY <2>0, <2>2, <2>3 DEF TypeOK
    <3>2. op[o].new # NoFile => op[o].new \in (grid \cup doomed) \ ToRemove
      BY DEF Fresh
    <3>. QED  BY <2>1, <3>1, <3>2 DEF SlotKept, ToRemove
  <2>4. CASE s # op[o].slot
    <3>1. row'[s] = row[s] /\ SlotKept(s)
      BY <2>0, <2>2, <2>4 DEF TypeOK, NamedKept
    <3>2. \A p \in HandedBy(s, row[s]) : op'[p] = op[p]
      BY <1>0, <1>8, <2>4, OneEnds DEF Commit, HandedBy
    <3>. QED  BY <2>0, <2>1, <3>1, <3>2, KeptFrame
  <2>. QED  BY <2>3, <2>4
<1>9. ASSUME NEW o \in Ops, CommitFails(o)
      PROVE  NamedKept'
  <2>0. SUFFICES ASSUME NEW s \in rows', s \in Slots
                 PROVE  SlotKept(s)'
    BY <1>00 DEF NamedKept
  <2>1. UNCHANGED <<row, grid, taken, due, queue>> /\ s \in rows /\ SlotKept(s)
    BY <1>9, <2>0 DEF CommitFails, Store, Ppms, NamedKept
  <2>2. doomed' = doomed \cup ({op[o].old} \ {NoFile})
    BY <1>9 DEF CommitFails, Doomed
  <2>3. CASE row[s] = op[o].old
    BY <2>1, <2>2, <2>3 DEF SlotKept
  <2>4. CASE row[s] # op[o].old
    <3>2. \A p \in HandedBy(s, row[s]) : op'[p] = op[p]
      BY <1>0, <1>9, <2>4, OneEnds DEF CommitFails, HandedBy
    <3>. QED  BY <2>0, <2>1, <2>2, <3>2, KeptFrame
  <2>. QED  BY <2>3, <2>4
<1>10. ASSUME NEW o \in Ops, Save(o)
      PROVE  NamedKept'
  <2>0. SUFFICES ASSUME NEW s \in rows', s \in Slots
                 PROVE  SlotKept(s)'
    BY <1>00 DEF NamedKept
  <2>1. \A p \in Ops : op[p].pc = "handed" => op'[p] = op[p]
    BY <1>0, <1>10, OneEnds, OneGoes DEF Save, At
  <2>2. UNCHANGED <<grid, taken, due, queue>> /\ doomed \subseteq doomed'
    BY <1>10 DEF Save, Ppms, Doomed
  <2>3. rows' = rows \cup {op[o].slot} /\ row' = [row EXCEPT ![op[o].slot] = op[o].old]
    BY <1>10 DEF Save
  <2>4. CASE s \in rows /\ row'[s] = row[s]
    BY <2>0, <2>1, <2>2, <2>4, KeptFrame DEF HandedBy, NamedKept
  <2>5. CASE s \notin rows \/ row'[s] # row[s]
    <3>1. s = op[o].slot /\ row'[s] = op[o].old
      BY <2>0, <2>3, <2>5 DEF TypeOK
    <3>2. doomed' = doomed \cup ({op[o].old} \ {NoFile})
      BY <1>10, <2>5, <3>1 DEF Save, Doomed
    <3>. QED  BY <3>1, <3>2 DEF SlotKept
  <2>. QED  BY <2>4, <2>5
<1>11. ASSUME NEW o \in Ops, SaveFails(o)
      PROVE  NamedKept'
  <2>0. SUFFICES ASSUME NEW s \in rows', s \in Slots
                 PROVE  SlotKept(s)'
    BY <1>00 DEF NamedKept
  <2>1. \A p \in Ops : op[p].pc = "handed" => op'[p] = op[p]
    BY <1>0, <1>11, OneEnds DEF SaveFails, At
  <2>2. s \in rows /\ SlotKept(s) /\ UNCHANGED <<row, due, taken, queue, doomed>> /\ grid \subseteq grid'
    BY <1>11, <2>0 DEF SaveFails, NamedKept, Store, Ppms, History
  <2>. QED  BY <2>0, <2>1, <2>2, KeptFrame DEF HandedBy
<1>12. ASSUME NEW o \in Ops, DeleteRow(o)
      PROVE  NamedKept'
  <2>0. SUFFICES ASSUME NEW s \in rows', s \in Slots
                 PROVE  SlotKept(s)'
    BY <1>00 DEF NamedKept
  <2>1. UNCHANGED <<row, grid, taken, due, queue, doomed>>
    BY <1>12 DEF DeleteRow, Ppms
  <2>2. s \in rows /\ s # op[o].slot /\ SlotKept(s)
    BY <1>12, <2>0 DEF DeleteRow, RowGoes, NamedKept
  <2>3. \A p \in HandedBy(s, row[s]) : op'[p] = op[p]
    BY <1>0, <1>12, <2>2, OneEnds DEF DeleteRow, HandedBy
  <2>. QED  BY <2>0, <2>1, <2>2, <2>3, KeptFrame
<1>13. ASSUME NEW o \in Ops, DropRow(o)
      PROVE  NamedKept'
  <2>0. SUFFICES ASSUME NEW s \in rows', s \in Slots
                 PROVE  SlotKept(s)'
    BY <1>00 DEF NamedKept
  <2>1. UNCHANGED <<row, grid, taken, due, queue, doomed>>
    BY <1>13 DEF DropRow, Ppms
  <2>2. s \in rows /\ s # op[o].slot /\ SlotKept(s)
    BY <1>13, <2>0 DEF DropRow, RowGoes, NamedKept
  <2>3. \A p \in HandedBy(s, row[s]) : op'[p] = op[p]
    BY <1>0, <1>13, <2>2, OneGoes DEF DropRow, HandedBy
  <2>. QED  BY <2>0, <2>1, <2>2, <2>3, KeptFrame
<1>14. ASSUME NEW o \in Ops, RemoveNow(o)
      PROVE  NamedKept'
  <2>0. SUFFICES ASSUME NEW s \in rows', s \in Slots
                 PROVE  SlotKept(s)'
    BY <1>00 DEF NamedKept
  <2>1. \A p \in Ops : op[p].pc = "handed" => op'[p] = op[p]
    BY <1>0, <1>14, OneEnds DEF RemoveNow, At
  <2>2. UNCHANGED <<row, taken, due, queue>> /\ s \in rows /\ SlotKept(s)
    BY <1>14, <2>0 DEF RemoveNow, Ppms, NamedKept
  <2>3. \/ grid' = grid \ {op[o].old} /\ doomed' = doomed \cup ({op[o].old} \ {NoFile})
        \/ grid' = grid /\ doomed' = doomed
    BY <1>14 DEF RemoveNow, Doomed
  <2>4. CASE op[o].old = row[s] /\ grid' # grid
    BY <2>2, <2>3, <2>4 DEF SlotKept
  <2>5. CASE op[o].old # row[s] \/ grid' = grid
    BY <2>0, <2>1, <2>2, <2>3, <2>5, KeptFrame DEF HandedBy
  <2>. QED  BY <2>4, <2>5
<1>15. ASSUME NEW o \in Ops, ScheduleDropped(o)
      PROVE  NamedKept'
  <2>0. SUFFICES ASSUME NEW s \in rows', s \in Slots
                 PROVE  SlotKept(s)'
    BY <1>00 DEF NamedKept
  <2>1. \A p \in Ops : op[p].pc = "handed" => op'[p] = op[p]
    BY <1>0, <1>15, OneEnds DEF ScheduleDropped, At
  <2>2. UNCHANGED <<row, grid, taken, due, doomed>> /\ s \in rows /\ SlotKept(s)
    BY <1>15, <2>0 DEF ScheduleDropped, Store, NamedKept
  <2>3. queue' \subseteq queue \cup Scheduled(op[o].old)
    BY <1>15 DEF ScheduleDropped, Schedule
  <2>4. s # op[o].slot
    BY <1>15, <2>2 DEF ScheduleDropped, At, Kinds, Dropping
  <2>5. \A e \in queue' : e.file = row[s] => e \in queue
    BY <2>0, <2>3, <2>4 DEF Scheduled, OneSlot
  <2>. QED  BY <2>0, <2>1, <2>2, <2>5, KeptFrame DEF HandedBy
<1>16. ASSUME NEW f \in Files, SendDue(f)
      PROVE  NamedKept'
  <2>0. SUFFICES ASSUME NEW s \in rows', s \in Slots
                 PROVE  SlotKept(s)'
    BY <1>00 DEF NamedKept
  <2>1. UNCHANGED <<op, rows, row, grid, taken, doomed>> /\ s \in rows /\ SlotKept(s) /\ f \in due
    BY <1>16, <2>0 DEF SendDue, Store, NamedKept
  <2>2. due' \subseteq due /\ queue' \subseteq queue \cup Scheduled(f)
    BY <1>16 DEF SendDue, Schedule
  <2>3. HandedBy(s, row[s])' = HandedBy(s, row[s])
    BY <2>1 DEF HandedBy
  <2>4. ASSUME row[s] # NoFile, row[s] \notin doomed, NEW e \in Scheduled(f), e.file = row[s]
        PROVE  \E p \in HandedBy(s, row[s]) : e.left + op[p].age >= Delay + 1
    <3>1. row[s] = f /\ e.left = Delay + 1
      BY <2>4 DEF Scheduled
    <3>2. PICK p \in HandedBy(s, row[s]) : TRUE
      BY <2>1, <2>4, <3>1 DEF SlotKept
    <3>3. op[p].age \in 0 .. Window
      BY <1>0 DEF HandedBy, Op
    <3>4. e.left + op[p].age >= Delay + 1
      BY <3>1, <3>3
    <3>. QED  BY <3>4
  <2>. QED  BY <2>1, <2>2, <2>3, <2>4 DEF SlotKept
<1>17. ASSUME NEW f \in Files, RemoveTaken(f)
      PROVE  NamedKept'
  <2>0. SUFFICES ASSUME NEW s \in rows', s \in Slots
                 PROVE  SlotKept(s)'
    BY <1>00 DEF NamedKept
  <2>1. UNCHANGED <<row, op, due, queue, doomed>> /\ s \in rows /\ SlotKept(s)
    BY <1>17, <2>0 DEF RemoveTaken, NamedKept
  <2>2. f \in taken /\ taken' \subseteq taken /\ grid \ {f} \subseteq grid'
    BY <1>17 DEF RemoveTaken
  <2>. QED  BY <2>0, <2>1, <2>2, KeptFrame
<1>18. ASSUME NEW r \in Readers, OpenOnly(r)
      PROVE  NamedKept'
  BY <1>18 DEF OpenOnly, Store, Ppms, History, NamedKept, SlotKept, HandedBy
<1>19. ASSUME NEW r \in Readers, NEW t \in Slots, ReadName(r, t)
      PROVE  NamedKept'
  BY <1>19 DEF ReadName, Store, Ppms, History, NamedKept, SlotKept, HandedBy
<1>20. ASSUME Sweep
      PROVE  NamedKept'
  <2>0. SUFFICES ASSUME NEW s \in rows', s \in Slots
                 PROVE  SlotKept(s)'
    BY <1>00 DEF NamedKept
  <2>1. UNCHANGED <<row, grid, op, due, doomed>> /\ s \in rows /\ SlotKept(s)
    BY <1>20, <2>0 DEF Sweep, Store, History, NamedKept
  <2>2. queue' \subseteq queue /\ taken' = {e.file : e \in Expired}
    BY <1>20 DEF Sweep
  <2>3. ASSUME row[s] # NoFile, row[s] \notin doomed, NEW e \in queue, e.left = 0, e.file = row[s]
        PROVE  FALSE
    <3>1. PICK p \in HandedBy(s, row[s]) : e.left + op[p].age >= Delay + 1
      BY <2>1, <2>3 DEF SlotKept
    <3>2. op[p].age \in 0 .. Window
      BY <1>0 DEF HandedBy, Op
    <3>. QED  BY <2>3, <3>1, <3>2
  <2>4. row[s] # NoFile /\ row[s] \notin doomed => row[s] \notin taken'
    BY <2>2, <2>3 DEF Expired
  <2>. QED  BY <2>1, <2>2, <2>4 DEF SlotKept, HandedBy
<1>21. ASSUME PpmsCrash
      PROVE  NamedKept'
  <2>0. SUFFICES ASSUME NEW s \in rows', s \in Slots
                 PROVE  SlotKept(s)'
    BY <1>00 DEF NamedKept
  <2>1. UNCHANGED <<row, grid, op, due, queue, doomed>> /\ s \in rows /\ SlotKept(s) /\ taken' = {}
    BY <1>21, <2>0 DEF PpmsCrash, Store, NamedKept
  <2>. QED  BY <2>0, <2>1, KeptFrame
<1>22. ASSUME Tick
      PROVE  NamedKept'
  <2>0. SUFFICES ASSUME NEW s \in rows', s \in Slots
                 PROVE  SlotKept(s)'
    BY <1>00 DEF NamedKept
  <2>1. UNCHANGED <<rows, row, grid, taken, due, doomed>> /\ s \in rows /\ SlotKept(s)
    BY <1>22, <2>0 DEF Tick, Store, History, NamedKept
  <2>2. HandedBy(s, row[s])' = HandedBy(s, row[s])
    BY <1>0, <1>22, <2>1, TickOps DEF HandedBy
  <2>3. ASSUME row[s] # NoFile, row[s] \notin doomed, NEW e \in queue', e.file = row[s]
        PROVE  \E p \in HandedBy(s, row[s]) : e.left + op'[p].age >= Delay + 1
    <3>1. queue \subseteq Entry
      BY DEF TypeOK
    <3>2. PICK d \in queue : d.file = e.file /\ ((d.left = 0 /\ e.left = 0) \/ e.left = d.left - 1)
      BY <1>22, <2>3, <3>1, TickQueue
    <3>3. PICK p \in HandedBy(s, row[s]) : d.left + op[p].age >= Delay + 1
      BY <2>1, <2>3, <3>2 DEF SlotKept
    <3>4. p \in Ops /\ op[p].pc = "handed" /\ op[p].age \in 0 .. Window /\ d.left \in Nat
      BY <1>0, <3>1 DEF HandedBy, Op, Entry
    <3>5. op'[p].age = op[p].age + 1
      BY <1>0, <1>22, <3>4, TickOps
    <3>6. d.left # 0
      BY <3>3, <3>4
    <3>7. e.left + op'[p].age >= Delay + 1
      BY <3>2, <3>3, <3>4, <3>5, <3>6
    <3>. QED  BY <3>7
  <2>. QED  BY <2>1, <2>2, <2>3 DEF SlotKept
<1>. QED  BY <1>1, <1>2, <1>2a, <1>3, <1>3a, <1>4, <1>4a, <1>5, <1>6, <1>7, <1>8, <1>9, <1>10,
            <1>11, <1>12, <1>13,
             <1>14, <1>15, <1>16, <1>17, <1>18, <1>19, <1>20, <1>21, <1>22 DEF Next, Step, Fails

-----------------------------------------------------------------------------
(***************************************************************************)
(* Rows, locks, new files and readers.                                      *)
(***************************************************************************)

\* Every step keeps Dropping.
LEMMA DroppingStep ==
  ASSUME TypeOK, Kinds, Dropping, Locks, Next
  PROVE  Dropping'
<1>0. op \in [Ops -> Op]
  BY DEF TypeOK
<1>1. ASSUME NEW o \in Ops, NEW k \in AllKinds, NEW t \in Slots, Begin(o, k, t)
      PROVE  Dropping'
  BY <1>1 DEF Begin, History, Locking, Making, Ppms, Store, Uses, Dropping
<1>2. ASSUME NEW o \in Ops, Make(o)
      PROVE  Dropping'
  BY <1>2 DEF Make, TakesName, At, History, Making, Ppms, Dropping
<1>2a. ASSUME NEW o \in Ops, MakeUnfinished(o)
      PROVE  Dropping'
  BY <1>2a DEF MakeUnfinished, TakesName, Failure, Doomed, At, History, Making, Ppms, Dropping
<1>3. ASSUME NEW o \in Ops, MakeFails(o)
      PROVE  Dropping'
  BY <1>3 DEF MakeFails, At, Ends, Failure, Goes, Lost, Ppms, Store, Dropping
<1>3a. ASSUME NEW o \in Ops, MakePartial(o)
      PROVE  Dropping'
  BY <1>3a DEF MakePartial, At, Ends, Failure, Goes, Lost, Ppms, Store, Dropping
<1>4. ASSUME NEW o \in Ops, StatementFails(o)
      PROVE  Dropping'
  BY <1>4 DEF StatementFails, At, Ends, Failure, Locking, Lost, Ppms, Store, Dropping
<1>4a. ASSUME NEW o \in Ops, GivesUp(o)
      PROVE  Dropping'
  BY <1>4a DEF GivesUp, At, Ends, Failure, Locking, Lost, Ppms, Store, Dropping
<1>5. ASSUME NEW o \in Ops, StatementIgnored(o)
      PROVE  Dropping'
  BY <1>5 DEF StatementIgnored, At, Doomed, Ends, Failure, Lost, Store, Dropping
<1>6. ASSUME NEW o \in Ops, HandOver(o)
      PROVE  Dropping'
  BY <1>6 DEF HandOver, At, Goes, Schedule, Store, Failure, Lost, Dropping
<1>7. ASSUME NEW o \in Ops, HandOverLater(o)
      PROVE  Dropping'
  BY <1>7 DEF HandOverLater, At, Goes, History, Store, Dropping
<1>8. ASSUME NEW o \in Ops, Commit(o)
      PROVE  Dropping'
  BY <1>8 DEF Commit, At, Ends, History, Locking, Ppms, Dropping, Op, Idle, TypeOK, Kinds, Locks,
     Uses, Making, Holds
<1>9. ASSUME NEW o \in Ops, CommitFails(o)
      PROVE  Dropping'
  BY <1>9 DEF CommitFails, At, Doomed, Ends, Failure, Locking, Lost, Ppms, Store, Dropping
<1>10. ASSUME NEW o \in Ops, Save(o)
      PROVE  Dropping'
  BY <1>10 DEF Save, At, Doomed, Ends, Goes, Lost, Ppms, Dropping
<1>11. ASSUME NEW o \in Ops, SaveFails(o)
      PROVE  Dropping'
  BY <1>11 DEF SaveFails, At, Ends, History, Ppms, Store, Dropping
<1>12. ASSUME NEW o \in Ops, DeleteRow(o)
      PROVE  Dropping'
  BY <1>12 DEF DeleteRow, At, Ends, Ppms, RowGoes, Lost, Dropping, Op, Idle, TypeOK, Kinds, Locks,
     Uses, Making, Holds, Locking
<1>13. ASSUME NEW o \in Ops, DropRow(o)
      PROVE  Dropping'
  BY <1>13 DEF DropRow, At, Goes, Ppms, RowGoes, Lost, Dropping
<1>14. ASSUME NEW o \in Ops, RemoveNow(o)
      PROVE  Dropping'
  BY <1>14 DEF RemoveNow, At, Doomed, Ends, Ppms, Dropping
<1>15. ASSUME NEW o \in Ops, ScheduleDropped(o)
      PROVE  Dropping'
  BY <1>15 DEF ScheduleDropped, At, Ends, Lost, Schedule, Store, Failure, Dropping
<1>16. CASE UNCHANGED <<column, rows, dropped, row, op>>
  BY <1>16 DEF Dropping
<1>17. ASSUME Tick
      PROVE  Dropping'
  BY <1>17 DEF Tick, History, Store, Dropping
<1>. QED  BY <1>1, <1>2, <1>2a, <1>3, <1>3a, <1>4, <1>4a, <1>5, <1>6, <1>7, <1>8, <1>9, <1>10,
            <1>11, <1>12, <1>13,
             <1>14, <1>15, <1>16, <1>17, OthersKeep DEF Next, Step, Fails

\* Every step keeps Locks: SELECT ... FOR UPDATE keeps the others away until
\* the commit.
LEMMA LocksStep ==
  ASSUME TypeOK, Kinds, Locks, Next
  PROVE  Locks'
<1>0. op \in [Ops -> Op]
  BY DEF TypeOK
<1>1. ASSUME NEW o \in Ops, NEW k \in AllKinds, NEW t \in Slots, Begin(o, k, t)
      PROVE  Locks'
  BY <1>1 DEF Begin, History, Locked, Locking, Making, Ppms, Store, Locks, Holds
<1>2. ASSUME NEW o \in Ops, Make(o)
      PROVE  Locks'
  <2>1. UNCHANGED <<rows, row>> /\ \A p \in Ops : op'[p].slot = op[p].slot /\ op'[p].old = op[p].old
    BY <1>0, <1>2, OneMakes DEF Make, TakesName
  <2>2. \A p \in Ops : Holds(p)' => Holds(p)
    BY <1>0, <1>2, OneMakes DEF Holds
  <2>. QED  BY <2>1, <2>2 DEF Locks
<1>2a. ASSUME NEW o \in Ops, MakeUnfinished(o)
      PROVE  Locks'
  <2>1. UNCHANGED <<rows, row>> /\ \A p \in Ops : op'[p].slot = op[p].slot /\ op'[p].old = op[p].old
    BY <1>0, <1>2a, OneMakes DEF MakeUnfinished, TakesName, Failure, Doomed
  <2>2. \A p \in Ops : Holds(p)' => Holds(p)
    BY <1>0, <1>2a, OneMakes DEF Holds
  <2>. QED  BY <2>1, <2>2 DEF Locks
<1>3. ASSUME NEW o \in Ops, MakeFails(o)
      PROVE  Locks'
  <2>1. UNCHANGED <<rows, row>>
    BY <1>3 DEF MakeFails, Store
  <2>2. CASE Ends(o)
    BY <1>0, <2>1, <2>2, OneEnds DEF Locks, Holds
  <2>3. CASE Goes(o, "handed")
    <3>1. \A p \in Ops : Holds(p)' => Holds(p)
      BY <1>0, <1>3, <2>3, OneGoes DEF MakeFails, At, Holds
    <3>. QED  BY <1>0, <2>1, <2>3, <3>1, OneGoes DEF Locks
  <2>. QED  BY <1>3, <2>2, <2>3 DEF MakeFails
<1>3a. ASSUME NEW o \in Ops, MakePartial(o)
      PROVE  Locks'
  <2>1. UNCHANGED <<rows, row>>
    BY <1>3a DEF MakePartial, Store
  <2>2. CASE Ends(o)
    BY <1>0, <2>1, <2>2, OneEnds DEF Locks, Holds
  <2>3. CASE Goes(o, "handed")
    <3>1. \A p \in Ops : Holds(p)' => Holds(p)
      BY <1>0, <1>3a, <2>3, OneGoes DEF MakePartial, At, Holds
    <3>. QED  BY <1>0, <2>1, <2>3, <3>1, OneGoes DEF Locks
  <2>. QED  BY <1>3a, <2>2, <2>3 DEF MakePartial
<1>4. ASSUME NEW o \in Ops, StatementFails(o)
      PROVE  Locks'
  BY <1>4 DEF StatementFails, At, Ends, Failure, Locking, Lost, Ppms, Store, Locks, Holds, Op, Idle
<1>4a. ASSUME NEW o \in Ops, GivesUp(o)
      PROVE  Locks'
  BY <1>4a DEF GivesUp, At, Ends, Failure, Locking, Lost, Ppms, Store, Locks, Holds, Op, Idle
<1>5. ASSUME NEW o \in Ops, StatementIgnored(o)
      PROVE  Locks'
  BY <1>5 DEF StatementIgnored, At, Doomed, Ends, Failure, Lost, Store, Locks, Holds, Locking, Op,
     Idle
<1>6. ASSUME NEW o \in Ops, HandOver(o)
      PROVE  Locks'
  BY <1>6 DEF HandOver, At, Goes, Schedule, Store, Failure, Lost, Locks, Holds, Locking
<1>7. ASSUME NEW o \in Ops, HandOverLater(o)
      PROVE  Locks'
  BY <1>7 DEF HandOverLater, At, Goes, History, Store, Locks, Holds, Locking
<1>8. ASSUME NEW o \in Ops, Commit(o)
      PROVE  Locks'
  <2>1. rows' = rows \cup {op[o].slot} /\ row' = [row EXCEPT ![op[o].slot] = op[o].new]
    BY <1>8 DEF Commit
  <2>2. \A p \in Ops : Holds(p)' => p # o /\ op'[p] = op[p] /\ Holds(p)
    BY <1>0, <1>8, OneEnds DEF Commit, Holds
  <2>3. \A p \in Ops \ {o} : Holds(p) => op[p].slot # op[o].slot
    BY <1>8 DEF Commit, At, Holds, Locks, Kinds
  <2>4. \A p \in Ops : Holds(p)' => row'[op[p].slot] = row[op[p].slot]
    BY <2>1, <2>2, <2>3 DEF TypeOK
  <2>. QED  BY <2>1, <2>2, <2>4 DEF Locks
<1>9. ASSUME NEW o \in Ops, CommitFails(o)
      PROVE  Locks'
  BY <1>9 DEF CommitFails, At, Doomed, Ends, Failure, Locking, Lost, Ppms, Store, Locks, Holds, Op,
     Idle
<1>10. ASSUME NEW o \in Ops, Save(o)
      PROVE  Locks'
  <2>1. rows' = rows \cup {op[o].slot} /\ row' = [row EXCEPT ![op[o].slot] = op[o].old]
    BY <1>10 DEF Save
  <2>2. \A p \in Ops \ {o} : Holds(p)' => op'[p] = op[p] /\ Holds(p)
    BY <1>0, <1>10, OneEnds, OneGoes DEF Save, Holds
  <2>3. \A p \in Ops : Holds(p) => op[p].slot # op[o].slot
    BY <1>10 DEF Save, Locked, Holds
  <2>4. \A p \in Ops \ {o} : Holds(p)' => row'[op[p].slot] = row[op[p].slot] /\ op[p].slot # op[o].slot
    BY <2>1, <2>2, <2>3 DEF TypeOK
  <2>5. Holds(o)' => op'[o].slot = op[o].slot /\ op'[o].old = op[o].old
    BY <1>0, <1>10, OneEnds, OneGoes DEF Save, Holds
  <2>6. row'[op[o].slot] = op[o].old
    BY <1>0, <2>1 DEF TypeOK, Op
  <2>. QED  BY <2>1, <2>2, <2>4, <2>5, <2>6 DEF Locks
<1>11. ASSUME NEW o \in Ops, SaveFails(o)
      PROVE  Locks'
  BY <1>11 DEF SaveFails, At, Ends, History, Ppms, Store, Locks, Holds, Locking, Op, Idle
<1>12. ASSUME NEW o \in Ops, DeleteRow(o)
      PROVE  Locks'
  BY <1>12 DEF DeleteRow, At, Ends, Locked, Ppms, RowGoes, Locking, Lost, Locks, Holds, Op, Idle
<1>13. ASSUME NEW o \in Ops, DropRow(o)
      PROVE  Locks'
  BY <1>13 DEF DropRow, At, Goes, Locked, Ppms, RowGoes, Locking, Lost, Locks, Holds
<1>14. ASSUME NEW o \in Ops, RemoveNow(o)
      PROVE  Locks'
  BY <1>14 DEF RemoveNow, At, Doomed, Ends, Ppms, Locks, Holds, Locking, Op, Idle
<1>15. ASSUME NEW o \in Ops, ScheduleDropped(o)
      PROVE  Locks'
  BY <1>15 DEF ScheduleDropped, At, Ends, Lost, Schedule, Store, Failure, Locks, Holds, Locking, Op,
     Idle
<1>16. CASE UNCHANGED <<column, rows, dropped, row, op>>
  BY <1>16 DEF Locks, Holds
<1>17. ASSUME Tick
      PROVE  Locks'
  BY <1>17 DEF Tick, History, Store, Locks, Holds, Locking
<1>. QED  BY <1>1, <1>2, <1>2a, <1>3, <1>3a, <1>4, <1>4a, <1>5, <1>6, <1>7, <1>8, <1>9, <1>10,
            <1>11, <1>12, <1>13,
             <1>14, <1>15, <1>16, <1>17, OthersKeep DEF Next, Step, Fails

\* Every step keeps Fresh: names from UniqueFileID are not given out twice.
LEMMA FreshStep ==
  ASSUME TypeOK, Within, Kinds, Fresh, Next
  PROVE  Fresh'
<1>0. op \in [Ops -> Op]
  BY DEF TypeOK
<1>1. ASSUME NEW o \in Ops, NEW k \in AllKinds, NEW t \in Slots, Begin(o, k, t)
      PROVE  Fresh'
  BY <1>1 DEF Begin, History, Locking, Making, NoFile, Ppms, Store, Fresh, ToRemove
<1>2. ASSUME NEW o \in Ops, Make(o)
      PROVE  Fresh'
  BY <1>2 DEF Make, TakesName, At, History, Making, Ppms, Fresh, NoFile, ToRemove, Op, Idle,
     TypeOK, Within,
     Kinds, Entry
<1>2a. ASSUME NEW o \in Ops, MakeUnfinished(o)
      PROVE  Fresh'
  BY <1>2a DEF MakeUnfinished, TakesName, Failure, Doomed, At, History, Making, Ppms, Fresh,
     NoFile, ToRemove, Op, Idle, TypeOK, Within,
     Kinds, Entry
<1>3. ASSUME NEW o \in Ops, MakeFails(o)
      PROVE  Fresh'
  BY <1>3 DEF MakeFails, At, Ends, Failure, Goes, Lost, Ppms, Store, NoFile, Fresh, ToRemove, Op,
     Idle, TypeOK, Within, Kinds, Entry, Making
<1>3a. ASSUME NEW o \in Ops, MakePartial(o)
      PROVE  Fresh'
  BY <1>3a DEF MakePartial, At, Ends, Failure, Goes, Lost, Ppms, Store, NoFile, Fresh, ToRemove, Op,
     Idle, TypeOK, Within, Kinds, Entry, Making
<1>4. ASSUME NEW o \in Ops, StatementFails(o)
      PROVE  Fresh'
  BY <1>4 DEF StatementFails, At, Ends, Failure, Locking, Lost, Ppms, Store, NoFile, Fresh,
     ToRemove, Op, Idle
<1>4a. ASSUME NEW o \in Ops, GivesUp(o)
      PROVE  Fresh'
  BY <1>4a DEF GivesUp, At, Ends, Failure, Locking, Lost, Ppms, Store, NoFile, Fresh,
     ToRemove, Op, Idle
<1>5. ASSUME NEW o \in Ops, StatementIgnored(o)
      PROVE  Fresh'
  BY <1>5 DEF StatementIgnored, At, Doomed, Ends, Failure, Lost, Scheduled, Store, NoFile, Fresh,
     ToRemove, Op, Idle
<1>6. ASSUME NEW o \in Ops, HandOver(o)
      PROVE  Fresh'
  BY <1>6 DEF HandOver, At, Goes, Schedule, Store, Failure, Lost, Scheduled, NoFile, Fresh, ToRemove
<1>7. ASSUME NEW o \in Ops, HandOverLater(o)
      PROVE  Fresh'
  BY <1>7 DEF HandOverLater, At, Goes, History, NoFile, Store, Fresh, ToRemove
<1>8. ASSUME NEW o \in Ops, Commit(o)
      PROVE  Fresh'
  BY <1>8 DEF Commit, At, Ends, History, Locking, Ppms, Fresh, NoFile, ToRemove, Op, Idle, TypeOK,
     Within, Kinds, Entry
<1>9. ASSUME NEW o \in Ops, CommitFails(o)
      PROVE  Fresh'
  BY <1>9 DEF CommitFails, At, Doomed, Ends, Failure, Locking, Lost, Ppms, Store, NoFile, Fresh,
     ToRemove, Op, Idle
<1>10. ASSUME NEW o \in Ops, Save(o)
      PROVE  Fresh'
  BY <1>10, SMTT(30) DEF Save, At, Doomed, Ends, Goes, Lost, Ppms, NoFile, Fresh, ToRemove, Op,
     Idle, TypeOK,
     Within, Kinds, Entry
<1>11. ASSUME NEW o \in Ops, SaveFails(o)
      PROVE  Fresh'
  BY <1>11 DEF SaveFails, At, Ends, History, Ppms, Store, Fresh, NoFile, ToRemove, Op, Idle
<1>12. ASSUME NEW o \in Ops, DeleteRow(o)
      PROVE  Fresh'
  BY <1>12 DEF DeleteRow, At, Ends, Ppms, RowGoes, Lost, NoFile, Fresh, ToRemove, Op, Idle
<1>13. ASSUME NEW o \in Ops, DropRow(o)
      PROVE  Fresh'
  BY <1>13 DEF DropRow, At, Goes, Ppms, RowGoes, Lost, NoFile, Fresh, ToRemove
<1>14. ASSUME NEW o \in Ops, RemoveNow(o)
      PROVE  Fresh'
  BY <1>14 DEF RemoveNow, At, Doomed, Ends, Ppms, NoFile, Fresh, ToRemove, Op, Idle
<1>15. ASSUME NEW o \in Ops, ScheduleDropped(o)
      PROVE  Fresh'
  BY <1>15 DEF ScheduleDropped, At, Ends, Lost, Schedule, Store, NoFile, Failure, Scheduled, Fresh,
     ToRemove, Op, Idle
<1>16. ASSUME NEW f \in Files, SendDue(f)
      PROVE  Fresh'
  BY <1>16 DEF SendDue, Schedule, Store, Failure, Lost, Scheduled, NoFile, Fresh, ToRemove
<1>17. ASSUME NEW f \in Files, RemoveTaken(f)
      PROVE  Fresh'
  BY <1>17 DEF RemoveTaken, Failure, Lost, NoFile, Fresh, ToRemove
<1>18. ASSUME NEW r \in Readers, OpenOnly(r)
      PROVE  Fresh'
  BY <1>18 DEF OpenOnly, History, NoFile, Ppms, Store, Fresh, ToRemove
<1>19. ASSUME NEW r \in Readers, NEW t \in Slots, ReadName(r, t)
      PROVE  Fresh'
  BY <1>19 DEF ReadName, History, NoFile, Ppms, Store, Fresh, ToRemove
<1>20. ASSUME Sweep
      PROVE  Fresh'
  BY <1>20 DEF Sweep, Expired, History, Store, Fresh, NoFile, ToRemove
<1>21. ASSUME PpmsCrash
      PROVE  Fresh'
  BY <1>21 DEF PpmsCrash, Failure, Lost, Store, NoFile, Fresh, ToRemove
<1>22. ASSUME Tick
      PROVE  Fresh'
  BY <1>22 DEF Tick, History, Store, Fresh, NoFile, ToRemove, Op, Idle, TypeOK, Within, Kinds, Entry
<1>. QED  BY <1>1, <1>2, <1>2a, <1>3, <1>3a, <1>4, <1>4a, <1>5, <1>6, <1>7, <1>8, <1>9, <1>10,
            <1>11, <1>12, <1>13,
             <1>14, <1>15, <1>16, <1>17, <1>18, <1>19, <1>20, <1>21, <1>22 DEF Next, Step, Fails

\* Every step keeps ReadKept: what was in the row when it was read stays for
\* Delay - Window ticks.
LEMMA ReadStep ==
  ASSUME TypeOK, Within, NamedKept, ReadKept, Next
  PROVE  ReadKept'
<1>0. op \in [Ops -> Op]
  BY DEF TypeOK
<1>1. ASSUME NEW o \in Ops, NEW k \in AllKinds, NEW t \in Slots, Begin(o, k, t)
      PROVE  ReadKept'
  BY <1>1 DEF Begin, History, Locking, Making, NoFile, Ppms, Store, ReadKept
<1>2. ASSUME NEW o \in Ops, Make(o)
      PROVE  ReadKept'
  BY <1>2 DEF Make, TakesName, At, History, Making, Ppms, ReadKept
<1>2a. ASSUME NEW o \in Ops, MakeUnfinished(o)
      PROVE  ReadKept'
  BY <1>2a DEF MakeUnfinished, TakesName, Failure, Doomed, At, History, Making, Ppms, ReadKept
<1>3. ASSUME NEW o \in Ops, MakeFails(o)
      PROVE  ReadKept'
  BY <1>3 DEF MakeFails, At, Ends, Failure, Goes, Lost, Ppms, Store, NoFile, ReadKept
<1>3a. ASSUME NEW o \in Ops, MakePartial(o)
      PROVE  ReadKept'
  BY <1>3a DEF MakePartial, At, Ends, Failure, Goes, Lost, Ppms, Store, NoFile, ReadKept
<1>4. ASSUME NEW o \in Ops, StatementFails(o)
      PROVE  ReadKept'
  BY <1>4 DEF StatementFails, At, Ends, Failure, Locking, Lost, Ppms, Store, NoFile, ReadKept
<1>4a. ASSUME NEW o \in Ops, GivesUp(o)
      PROVE  ReadKept'
  BY <1>4a DEF GivesUp, At, Ends, Failure, Locking, Lost, Ppms, Store, NoFile, ReadKept
<1>5. ASSUME NEW o \in Ops, StatementIgnored(o)
      PROVE  ReadKept'
  BY <1>5 DEF StatementIgnored, At, Doomed, Ends, Failure, Lost, Scheduled, Store, NoFile, ReadKept
<1>6. ASSUME NEW o \in Ops, HandOver(o)
      PROVE  ReadKept'
  BY <1>6 DEF HandOver, At, Goes, Schedule, Store, Failure, Lost, Scheduled, NoFile, ReadKept, Op,
     Idle, TypeOK, Within, NamedKept, Entry
<1>7. ASSUME NEW o \in Ops, HandOverLater(o)
      PROVE  ReadKept'
  BY <1>7 DEF HandOverLater, At, Goes, History, NoFile, Store, ReadKept
<1>8. ASSUME NEW o \in Ops, Commit(o)
      PROVE  ReadKept'
  BY <1>8 DEF Commit, At, Ends, History, Locking, Ppms, ReadKept
<1>9. ASSUME NEW o \in Ops, CommitFails(o)
      PROVE  ReadKept'
  BY <1>9 DEF CommitFails, At, Doomed, Ends, Failure, Locking, Lost, Ppms, Store, NoFile, ReadKept
<1>10. ASSUME NEW o \in Ops, Save(o)
      PROVE  ReadKept'
  BY <1>10 DEF Save, At, Doomed, Ends, Goes, Lost, Ppms, NoFile, ReadKept
<1>11. ASSUME NEW o \in Ops, SaveFails(o)
      PROVE  ReadKept'
  BY <1>11 DEF SaveFails, At, Ends, History, Ppms, Store, ReadKept
<1>12. ASSUME NEW o \in Ops, DeleteRow(o)
      PROVE  ReadKept'
  BY <1>12 DEF DeleteRow, At, Ends, Ppms, RowGoes, Lost, NoFile, ReadKept
<1>13. ASSUME NEW o \in Ops, DropRow(o)
      PROVE  ReadKept'
  BY <1>13 DEF DropRow, At, Goes, Ppms, RowGoes, Lost, NoFile, ReadKept
<1>14. ASSUME NEW o \in Ops, RemoveNow(o)
      PROVE  ReadKept'
  BY <1>14 DEF RemoveNow, At, Doomed, Ends, Ppms, NoFile, ReadKept, Op, Idle, TypeOK, Within,
     NamedKept, Entry
<1>15. ASSUME NEW o \in Ops, ScheduleDropped(o)
      PROVE  ReadKept'
  BY <1>15 DEF ScheduleDropped, At, Ends, Lost, Schedule, Store, NoFile, Failure, Scheduled,
     ReadKept, Op, Idle, TypeOK, Within, NamedKept, Entry
<1>16. ASSUME NEW f \in Files, SendDue(f)
      PROVE  ReadKept'
  BY <1>16 DEF SendDue, Schedule, Store, Failure, Lost, Scheduled, NoFile, ReadKept, Op, Idle,
     TypeOK, Within, NamedKept, Entry
<1>17. ASSUME NEW f \in Files, RemoveTaken(f)
      PROVE  ReadKept'
  BY <1>17 DEF RemoveTaken, Failure, Lost, NoFile, ReadKept
<1>18. ASSUME NEW r \in Readers, OpenOnly(r)
      PROVE  ReadKept'
  BY <1>18 DEF OpenOnly, History, NoFile, Ppms, Store, ReadKept
<1>19. ASSUME NEW r \in Readers, NEW t \in Slots, ReadName(r, t)
      PROVE  ReadKept'
  BY <1>19 DEF ReadName, History, NoFile, Ppms, Store, ReadKept, Op, Idle, TypeOK, Within,
     NamedKept, Entry, SlotKept, HandedBy
<1>20. ASSUME Sweep
      PROVE  ReadKept'
  BY <1>20 DEF Sweep, Expired, History, Store, ReadKept, Op, Idle, TypeOK, Within, NamedKept, Entry
<1>21. ASSUME PpmsCrash
      PROVE  ReadKept'
  BY <1>21 DEF PpmsCrash, Failure, Lost, Store, NoFile, ReadKept
<1>22. ASSUME Tick
      PROVE  ReadKept'
  BY <1>22 DEF Tick, History, Store, ReadKept, Op, Idle, TypeOK, Within, NamedKept, Entry
<1>. QED  BY <1>1, <1>2, <1>2a, <1>3, <1>3a, <1>4, <1>4a, <1>5, <1>6, <1>7, <1>8, <1>9, <1>10,
            <1>11, <1>12, <1>13,
             <1>14, <1>15, <1>16, <1>17, <1>18, <1>19, <1>20, <1>21, <1>22 DEF Next, Step, Fails

-----------------------------------------------------------------------------
(***************************************************************************)
(* No file is forgotten.                                                    *)
(***************************************************************************)

\* A file handed to RemoveFile is scheduled, or lost when ppms cannot be
\* reached.
LEMMA ScheduleTracks ==
  ASSUME NEW f, f # 0, Schedule(f)
  PROVE  f \in Tracked'
<1>1. CASE queue' = queue \cup Scheduled(f)
  <2>1. [file |-> f, left |-> Delay + 1] \in queue'
    BY <1>1 DEF Scheduled, NoFile
  <2>. QED  BY <2>1 DEF Tracked, ToRemove
<1>2. CASE Lost({f})
  BY <1>2 DEF Lost, NoFile, Tracked
<1>. QED  BY <1>1, <1>2 DEF Schedule

\* A file on its way out stays on it until it is gone.
LEMMA TrackedStep ==
  ASSUME TypeOK, Next
  PROVE  Tracked \cap grid' \subseteq Tracked'
<1>0. op \in [Ops -> Op]
  BY DEF TypeOK
<1>1. ASSUME NEW o \in Ops, NEW k \in AllKinds, NEW t \in Slots, Begin(o, k, t)
      PROVE  Tracked \cap grid' \subseteq Tracked'
  BY <1>1 DEF Begin, Store, Ppms, History, Lost, Schedule, Tracked, ToRemove
<1>2. ASSUME NEW o \in Ops, Make(o)
      PROVE  Tracked \cap grid' \subseteq Tracked'
  BY <1>2 DEF Make, TakesName, Store, Ppms, History, Lost, Schedule, Tracked, ToRemove
<1>2a. ASSUME NEW o \in Ops, MakeUnfinished(o)
      PROVE  Tracked \cap grid' \subseteq Tracked'
  BY <1>2a DEF MakeUnfinished, TakesName, Failure, Doomed, Store, Ppms, History, Lost, Schedule,
     Tracked, ToRemove
<1>3. ASSUME NEW o \in Ops, MakeFails(o)
      PROVE  Tracked \cap grid' \subseteq Tracked'
  BY <1>3 DEF MakeFails, Store, Ppms, History, Lost, Schedule, Tracked, ToRemove
<1>3a. ASSUME NEW o \in Ops, MakePartial(o)
      PROVE  Tracked \cap grid' \subseteq Tracked'
  BY <1>3a DEF MakePartial, Store, Ppms, History, Lost, Schedule, Tracked, ToRemove
<1>4. ASSUME NEW o \in Ops, StatementFails(o)
      PROVE  Tracked \cap grid' \subseteq Tracked'
  BY <1>4 DEF StatementFails, Store, Ppms, History, Lost, Schedule, Tracked, ToRemove
<1>4a. ASSUME NEW o \in Ops, GivesUp(o)
      PROVE  Tracked \cap grid' \subseteq Tracked'
  BY <1>4a DEF GivesUp, Store, Ppms, History, Lost, Schedule, Tracked, ToRemove
<1>5. ASSUME NEW o \in Ops, StatementIgnored(o)
      PROVE  Tracked \cap grid' \subseteq Tracked'
  BY <1>5 DEF StatementIgnored, Store, Ppms, History, Lost, Schedule, Tracked, ToRemove
<1>6. ASSUME NEW o \in Ops, HandOver(o)
      PROVE  Tracked \cap grid' \subseteq Tracked'
  BY <1>6 DEF HandOver, Store, Ppms, History, Lost, Schedule, Tracked, ToRemove
<1>7. ASSUME NEW o \in Ops, HandOverLater(o)
      PROVE  Tracked \cap grid' \subseteq Tracked'
  BY <1>7 DEF HandOverLater, Store, Ppms, History, Lost, Schedule, Tracked, ToRemove
<1>8. ASSUME NEW o \in Ops, Commit(o)
      PROVE  Tracked \cap grid' \subseteq Tracked'
  BY <1>8 DEF Commit, Store, Ppms, History, Lost, Schedule, Tracked, ToRemove
<1>9. ASSUME NEW o \in Ops, CommitFails(o)
      PROVE  Tracked \cap grid' \subseteq Tracked'
  BY <1>9 DEF CommitFails, Store, Ppms, History, Lost, Schedule, Tracked, ToRemove
<1>10. ASSUME NEW o \in Ops, Save(o)
      PROVE  Tracked \cap grid' \subseteq Tracked'
  BY <1>10 DEF Save, Store, Ppms, History, Lost, Schedule, Tracked, ToRemove
<1>11. ASSUME NEW o \in Ops, SaveFails(o)
      PROVE  Tracked \cap grid' \subseteq Tracked'
  BY <1>11 DEF SaveFails, Store, Ppms, History, Lost, Schedule, Tracked, ToRemove
<1>12. ASSUME NEW o \in Ops, DeleteRow(o)
      PROVE  Tracked \cap grid' \subseteq Tracked'
  BY <1>12 DEF DeleteRow, Store, Ppms, History, Lost, Schedule, Tracked, ToRemove, RowGoes
<1>13. ASSUME NEW o \in Ops, DropRow(o)
      PROVE  Tracked \cap grid' \subseteq Tracked'
  BY <1>13 DEF DropRow, Store, Ppms, History, Lost, Schedule, Tracked, ToRemove, RowGoes
<1>14. ASSUME NEW o \in Ops, RemoveNow(o)
      PROVE  Tracked \cap grid' \subseteq Tracked'
  BY <1>14 DEF RemoveNow, Store, Ppms, History, Lost, Schedule, Tracked, ToRemove
<1>15. ASSUME NEW o \in Ops, ScheduleDropped(o)
      PROVE  Tracked \cap grid' \subseteq Tracked'
  BY <1>15 DEF ScheduleDropped, Store, Ppms, History, Lost, Schedule, Tracked, ToRemove
<1>16. ASSUME NEW f \in Files, SendDue(f)
      PROVE  Tracked \cap grid' \subseteq Tracked'
  <2>1. f # NoFile
    BY DEF Files, NoFile
  <2>2. f \in Tracked'
    BY <1>16, <2>1, ScheduleTracks DEF SendDue, NoFile
  <2>3. UNCHANGED taken /\ due' = due \ {f} /\ queue \subseteq queue' /\ lost \subseteq lost'
    BY <1>16 DEF SendDue, Schedule, Lost
  <2>. QED  BY <2>2, <2>3 DEF Tracked, ToRemove
<1>17. ASSUME NEW f \in Files, RemoveTaken(f)
      PROVE  Tracked \cap grid' \subseteq Tracked'
  <2>1. f # NoFile
    BY DEF Files, NoFile
  <2>2. f \notin grid' \/ f \in lost'
    BY <1>17, <2>1 DEF RemoveTaken, Lost
  <2>3. UNCHANGED <<due, queue>> /\ taken' = taken \ {f} /\ lost \subseteq lost'
    BY <1>17 DEF RemoveTaken, Lost
  <2>. QED  BY <2>2, <2>3 DEF Tracked, ToRemove
<1>18. ASSUME NEW r \in Readers, OpenOnly(r)
      PROVE  Tracked \cap grid' \subseteq Tracked'
  BY <1>18 DEF OpenOnly, Store, Ppms, History, Lost, Schedule, Tracked, ToRemove
<1>19. ASSUME NEW r \in Readers, NEW t \in Slots, ReadName(r, t)
      PROVE  Tracked \cap grid' \subseteq Tracked'
  BY <1>19 DEF ReadName, Store, Ppms, History, Lost, Schedule, Tracked, ToRemove
<1>20. ASSUME Sweep
      PROVE  Tracked \cap grid' \subseteq Tracked'
  BY <1>20 DEF Sweep, Store, History, Expired, Tracked, ToRemove
<1>21. ASSUME PpmsCrash
      PROVE  Tracked \cap grid' \subseteq Tracked'
  <2>1. taken \subseteq lost' /\ lost \subseteq lost'
    BY <1>21 DEF PpmsCrash, Lost, NoFile, TypeOK
  <2>. QED  BY <1>21, <2>1 DEF PpmsCrash, Tracked, ToRemove
<1>22. ASSUME Tick
      PROVE  Tracked \cap grid' \subseteq Tracked'
  <2>1. queue \subseteq Entry
    BY DEF TypeOK
  <2>2. \A d \in queue : \E e \in queue' : e.file = d.file
    BY <1>22, <2>1, TickQueue
  <2>3. UNCHANGED <<due, taken, lost>>
    BY <1>22 DEF Tick, History
  <2>. QED  BY <2>2, <2>3 DEF Tracked, ToRemove
<1>. QED  BY <1>1, <1>2, <1>2a, <1>3, <1>3a, <1>4, <1>4a, <1>5, <1>6, <1>7, <1>8, <1>9, <1>10,
            <1>11, <1>12, <1>13,
             <1>14, <1>15, <1>16, <1>17, <1>18, <1>19, <1>20, <1>21, <1>22 DEF Next, Step, Fails

\* Every step keeps Accounted: no file is dropped on the way.
LEMMA AccountedStep ==
  ASSUME TypeOK, Within, Kinds, Locks, Accounted, Next
  PROVE  Accounted'
<1>0. op \in [Ops -> Op]
  BY DEF TypeOK
<1>00. /\ \A p \in Ops : op[p].new # 0 => op[p].kind \in Making /\ op[p].pc \in {"ready", "handed"}
       /\ 0 \notin grid
       /\ \A f \in grid : f \in Named \cup Tracked \/ InHand(f)
       /\ \A p \in Ops : op[p].pc = "handed" /\ op[p].old \in grid => op[p].old \in Tracked
       /\ Tracked \cap grid' \subseteq Tracked'
  BY <1>0, TrackedStep DEF Kinds, NoFile, TypeOK, Accounted
<1>1. ASSUME NEW o \in Ops, NEW k \in AllKinds, NEW t \in Slots, Begin(o, k, t)
      PROVE  Accounted'
  <2>1. ASSUME NEW f \in grid'
        PROVE  f \in (Named \cup Tracked)' \/ InHand(f)'
    BY <1>0, <1>00, <1>1, <2>1 DEF Begin, InHand, Named, Store
  <2>2. ASSUME NEW p \in Ops, op'[p].pc = "handed", op'[p].old \in grid'
        PROVE  op'[p].old \in Tracked'
    BY <1>0, <1>00, <1>1, <2>2 DEF Begin, Store
  <2>. QED  BY <2>1, <2>2 DEF Accounted
<1>2. ASSUME NEW o \in Ops, Make(o)
      PROVE  Accounted'
  <2>0. /\ grid' = grid \cup {made'} /\ op'[o].new = made' /\ UNCHANGED <<rows, row>>
        /\ op[o].pc = "open" /\ op'[o].pc \in {"ready", "handed"}
        /\ \A p \in Ops : op'[p].old = op[p].old /\ op[p].old # made'
        /\ \A p \in Ops \ {o} : op'[p] = op[p]
    <3>1. made' = made + 1 /\ \A p \in Ops : op[p].old # made + 1
      BY <1>0, <1>2 DEF Make, TakesName, Op, Within, TypeOK
    <3>2. grid' = grid \cup {made'} /\ UNCHANGED <<rows, row>>
      BY <1>2 DEF Make, TakesName
    <3>3. /\ op[o].pc = "open" /\ op'[o].pc \in {"ready", "handed"} /\ op'[o].new = made + 1
          /\ \A p \in Ops : op'[p].old = op[p].old
          /\ \A p \in Ops \ {o} : op'[p] = op[p]
      BY <1>0, <1>2, OneMakes
    <3>. QED  BY <3>1, <3>2, <3>3
  <2>1. ASSUME NEW f \in grid'
        PROVE  f \in (Named \cup Tracked)' \/ InHand(f)'
    BY <1>00, <2>0, <2>1 DEF InHand, Named
  <2>2. ASSUME NEW p \in Ops, op'[p].pc = "handed", op'[p].old \in grid'
        PROVE  op'[p].old \in Tracked'
    <3>1. op'[p].old = op[p].old /\ op[p].old \in grid
      BY <2>0, <2>2
    <3>2. p # o
      BY <1>0, <1>00, <1>2, <2>2, <3>1, OneMakes DEF Kinds, NoFile
    <3>. QED  BY <1>00, <2>0, <2>2, <3>1, <3>2
  <2>. QED  BY <2>1, <2>2 DEF Accounted
<1>2a. ASSUME NEW o \in Ops, MakeUnfinished(o)
      PROVE  Accounted'
  <2>0. /\ grid' = grid /\ op'[o].new = made' /\ UNCHANGED <<rows, row>>
        /\ op[o].pc = "open" /\ op'[o].pc \in {"ready", "handed"}
        /\ \A p \in Ops : op'[p].old = op[p].old /\ op[p].old # made'
        /\ \A p \in Ops \ {o} : op'[p] = op[p]
    <3>1. made' = made + 1 /\ \A p \in Ops : op[p].old # made + 1
      BY <1>0, <1>2a DEF MakeUnfinished, TakesName, Failure, Doomed, Op, Within, TypeOK
    <3>2. grid' = grid /\ UNCHANGED <<rows, row>>
      BY <1>2a DEF MakeUnfinished, TakesName, Failure, Doomed
    <3>3. /\ op[o].pc = "open" /\ op'[o].pc \in {"ready", "handed"} /\ op'[o].new = made + 1
          /\ \A p \in Ops : op'[p].old = op[p].old
          /\ \A p \in Ops \ {o} : op'[p] = op[p]
      BY <1>0, <1>2a, OneMakes
    <3>. QED  BY <3>1, <3>2, <3>3
  <2>1. ASSUME NEW f \in grid'
        PROVE  f \in (Named \cup Tracked)' \/ InHand(f)'
    BY <1>00, <2>0, <2>1 DEF InHand, Named
  <2>2. ASSUME NEW p \in Ops, op'[p].pc = "handed", op'[p].old \in grid'
        PROVE  op'[p].old \in Tracked'
    <3>1. op'[p].old = op[p].old /\ op[p].old \in grid
      BY <2>0, <2>2
    <3>2. p # o
      BY <1>0, <1>00, <1>2a, <2>2, <3>1, OneMakes DEF Kinds, NoFile
    <3>. QED  BY <1>00, <2>0, <2>2, <3>1, <3>2
  <2>. QED  BY <2>1, <2>2 DEF Accounted
<1>3. ASSUME NEW o \in Ops, MakeFails(o)
      PROVE  Accounted'
  <2>1. ASSUME NEW f \in grid'
        PROVE  f \in (Named \cup Tracked)' \/ InHand(f)'
    BY <1>0, <1>00, <1>3, <2>1, OneEnds, OneGoes DEF MakeFails, At, InHand, Named, Store
  <2>2. ASSUME NEW p \in Ops, op'[p].pc = "handed", op'[p].old \in grid'
        PROVE  op'[p].old \in Tracked'
    BY <1>0, <1>00, <1>3, <2>2, OneEnds, OneGoes DEF MakeFails, Lost, NoFile, Store, Tracked
  <2>. QED  BY <2>1, <2>2 DEF Accounted
<1>3a. ASSUME NEW o \in Ops, MakePartial(o)
      PROVE  Accounted'
  <2>1. ASSUME NEW f \in grid'
        PROVE  f \in (Named \cup Tracked)' \/ InHand(f)'
    <3>1. f \in grid \/ f \in lost'
      BY <1>3a, <2>1 DEF MakePartial, Lost, NoFile, TypeOK
    <3>2. CASE f \in grid
      BY <1>0, <1>00, <1>3a, <2>1, <3>2, OneEnds, OneGoes DEF MakePartial, At, InHand, Named
    <3>. QED  BY <3>1, <3>2 DEF Tracked
  <2>2. ASSUME NEW p \in Ops, op'[p].pc = "handed", op'[p].old \in grid'
        PROVE  op'[p].old \in Tracked'
    <3>1. op'[p].old \in grid \/ op'[p].old \in lost'
      BY <1>3a, <2>2 DEF MakePartial, Lost, NoFile, TypeOK
    <3>2. CASE op'[p].old \in grid
      BY <1>0, <1>00, <1>3a, <2>2, <3>2, OneEnds, OneGoes DEF MakePartial, Lost, NoFile, Tracked
    <3>. QED  BY <3>1, <3>2 DEF Tracked
  <2>. QED  BY <2>1, <2>2 DEF Accounted
<1>4. ASSUME NEW o \in Ops, StatementFails(o)
      PROVE  Accounted'
  <2>1. ASSUME NEW f \in grid'
        PROVE  f \in (Named \cup Tracked)' \/ InHand(f)'
    BY <1>0, <1>00, <1>4, <2>1, OneEnds, OneGoes DEF StatementFails, Lost, NoFile, At, InHand,
       Named, Store, Tracked
  <2>2. ASSUME NEW p \in Ops, op'[p].pc = "handed", op'[p].old \in grid'
        PROVE  op'[p].old \in Tracked'
    BY <1>0, <1>00, <1>4, <2>2, OneEnds, OneGoes DEF StatementFails, Store
  <2>. QED  BY <2>1, <2>2 DEF Accounted
<1>4a. ASSUME NEW o \in Ops, GivesUp(o)
      PROVE  Accounted'
  <2>1. ASSUME NEW f \in grid'
        PROVE  f \in (Named \cup Tracked)' \/ InHand(f)'
    BY <1>0, <1>00, <1>4a, <2>1, OneEnds, OneGoes DEF GivesUp, Lost, NoFile, At, InHand,
       Named, Store, Tracked
  <2>2. ASSUME NEW p \in Ops, op'[p].pc = "handed", op'[p].old \in grid'
        PROVE  op'[p].old \in Tracked'
    BY <1>0, <1>00, <1>4a, <2>2, OneEnds, OneGoes DEF GivesUp, Store
  <2>. QED  BY <2>1, <2>2 DEF Accounted
<1>5. ASSUME NEW o \in Ops, StatementIgnored(o)
      PROVE  Accounted'
  <2>1. ASSUME NEW f \in grid'
        PROVE  f \in (Named \cup Tracked)' \/ InHand(f)'
    BY <1>0, <1>00, <1>5, <2>1, OneEnds, OneGoes DEF StatementIgnored, Lost, NoFile, At, InHand,
       Named, Store, Tracked
  <2>2. ASSUME NEW p \in Ops, op'[p].pc = "handed", op'[p].old \in grid'
        PROVE  op'[p].old \in Tracked'
    BY <1>0, <1>00, <1>5, <2>2, OneEnds, OneGoes DEF StatementIgnored, Store
  <2>. QED  BY <2>1, <2>2 DEF Accounted
<1>6. ASSUME NEW o \in Ops, HandOver(o)
      PROVE  Accounted'
  <2>1. ASSUME NEW f \in grid'
        PROVE  f \in (Named \cup Tracked)' \/ InHand(f)'
    BY <1>0, <1>00, <1>6, <2>1, OneEnds, OneGoes DEF HandOver, At, InHand, Named, Store
  <2>2. ASSUME NEW p \in Ops, op'[p].pc = "handed", op'[p].old \in grid'
        PROVE  op'[p].old \in Tracked'
    <3>1. op'[p].old = op[p].old /\ op[p].old \in grid /\ op[p].old # 0
      BY <1>0, <1>00, <1>6, <2>2, OneGoes DEF HandOver, Store
    <3>2. op[o].old # 0 => op[o].old \in Tracked'
      BY <1>6, ScheduleTracks DEF HandOver
    <3>3. p # o => op[p].pc = "handed"
      BY <1>0, <1>6, <2>2, OneGoes DEF HandOver
    <3>. QED  BY <1>00, <2>2, <3>1, <3>2, <3>3
  <2>. QED  BY <2>1, <2>2 DEF Accounted
<1>7. ASSUME NEW o \in Ops, HandOverLater(o)
      PROVE  Accounted'
  <2>1. ASSUME NEW f \in grid'
        PROVE  f \in (Named \cup Tracked)' \/ InHand(f)'
    BY <1>0, <1>00, <1>7, <2>1, OneEnds, OneGoes DEF HandOverLater, At, InHand, Named, Store
  <2>2. ASSUME NEW p \in Ops, op'[p].pc = "handed", op'[p].old \in grid'
        PROVE  op'[p].old \in Tracked'
    <3>1. op'[p].old = op[p].old /\ op[p].old \in grid /\ op[p].old # 0
      BY <1>0, <1>00, <1>7, <2>2, OneGoes DEF HandOverLater, Store
    <3>2. op[o].old # 0 => op[o].old \in Tracked'
      BY <1>7 DEF HandOverLater, NoFile, Tracked, ToRemove
    <3>3. p # o => op[p].pc = "handed"
      BY <1>0, <1>7, <2>2, OneGoes DEF HandOverLater
    <3>. QED  BY <1>00, <2>2, <3>1, <3>2, <3>3
  <2>. QED  BY <2>1, <2>2 DEF Accounted
<1>8. ASSUME NEW o \in Ops, Commit(o)
      PROVE  Accounted'
  <2>1. ASSUME NEW f \in grid'
        PROVE  f \in (Named \cup Tracked)' \/ InHand(f)'
    <3>1. f \in grid /\ rows' = rows \cup {op[o].slot} /\ row' = [row EXCEPT ![op[o].slot] = op[o].new]
      BY <1>8, <2>1 DEF Commit
    <3>2. op[o].slot \in Slots /\ row \in [Slots -> 0 .. made] /\ rows \subseteq Slots
      BY <1>0 DEF TypeOK, Op
    <3>3. CASE f = op[o].new
      BY <3>1, <3>2, <3>3 DEF Named
    <3>4. CASE f # op[o].new /\ InHand(f)
      BY <1>0, <1>8, <3>4, OneEnds DEF Commit, At, InHand
    <3>5. ASSUME NEW s \in rows, f = row[s]
          PROVE  f \in (Named \cup Tracked)'
      <4>1. CASE s = op[o].slot
        <5>1. op[o].pc = "handed" /\ op[o].old = f
          BY <1>8, <3>5, <4>1 DEF Commit, At, Kinds, Locks, Holds
        <5>. QED  BY <1>00, <2>1, <3>1, <5>1
      <4>2. CASE s # op[o].slot
        BY <3>1, <3>2, <3>5, <4>2 DEF Named
      <4>. QED  BY <4>1, <4>2
    <3>. QED  BY <1>00, <2>1, <3>1, <3>3, <3>4, <3>5 DEF Named
  <2>2. ASSUME NEW p \in Ops, op'[p].pc = "handed", op'[p].old \in grid'
        PROVE  op'[p].old \in Tracked'
    BY <1>0, <1>00, <1>8, <2>2, OneEnds DEF Commit
  <2>. QED  BY <2>1, <2>2 DEF Accounted
<1>9. ASSUME NEW o \in Ops, CommitFails(o)
      PROVE  Accounted'
  <2>1. ASSUME NEW f \in grid'
        PROVE  f \in (Named \cup Tracked)' \/ InHand(f)'
    BY <1>0, <1>00, <1>9, <2>1, OneEnds, OneGoes DEF CommitFails, Lost, NoFile, At, InHand, Named,
       Store, Tracked
  <2>2. ASSUME NEW p \in Ops, op'[p].pc = "handed", op'[p].old \in grid'
        PROVE  op'[p].old \in Tracked'
    BY <1>0, <1>00, <1>9, <2>2, OneEnds, OneGoes DEF CommitFails, Store
  <2>. QED  BY <2>1, <2>2 DEF Accounted
<1>10. ASSUME NEW o \in Ops, Save(o)
      PROVE  Accounted'
  <2>1. ASSUME NEW f \in grid'
        PROVE  f \in (Named \cup Tracked)' \/ InHand(f)'
    <3>1. f \in grid /\ rows' = rows \cup {op[o].slot} /\ row' = [row EXCEPT ![op[o].slot] = op[o].old]
      BY <1>10, <2>1 DEF Save
    <3>2. op[o].slot \in Slots /\ row \in [Slots -> 0 .. made] /\ rows \subseteq Slots
      BY <1>0 DEF TypeOK, Op
    <3>3. CASE InHand(f)
      <4>1. \A p \in Ops : op'[p].new = op[p].new \/ op[p].new = 0
        BY <1>0, <1>00, <1>10, OneEnds, OneGoes DEF Save, At
      <4>2. \A p \in Ops : op[p].pc = "gone" => op'[p] = op[p]
        BY <1>0, <1>10, OneEnds, OneGoes DEF Save, At
      <4>. QED  BY <1>00, <3>1, <3>3, <4>1, <4>2 DEF InHand
    <3>4. ASSUME NEW s \in rows, f = row[s]
          PROVE  f \in (Named \cup Tracked)'
      <4>1. CASE s = op[o].slot /\ f # op[o].old
        BY <1>00, <1>10, <3>1, <3>4, <4>1 DEF Save, Lost, Named, NoFile, Tracked
      <4>2. CASE s # op[o].slot \/ f = op[o].old
        BY <3>1, <3>2, <3>4, <4>2 DEF Named
      <4>. QED  BY <4>1, <4>2
    <3>. QED  BY <1>00, <2>1, <3>1, <3>3, <3>4 DEF Named
  <2>2. ASSUME NEW p \in Ops, op'[p].pc = "handed", op'[p].old \in grid'
        PROVE  op'[p].old \in Tracked'
    BY <1>0, <1>00, <1>10, <2>2, OneEnds, OneGoes DEF Save
  <2>. QED  BY <2>1, <2>2 DEF Accounted
<1>11. ASSUME NEW o \in Ops, SaveFails(o)
      PROVE  Accounted'
  <2>1. ASSUME NEW f \in grid'
        PROVE  f \in (Named \cup Tracked)' \/ InHand(f)'
    BY <1>0, <1>00, <1>11, <2>1, OneEnds, OneGoes DEF SaveFails, At, InHand, Named, Store
  <2>2. ASSUME NEW p \in Ops, op'[p].pc = "handed", op'[p].old \in grid'
        PROVE  op'[p].old \in Tracked'
    BY <1>0, <1>00, <1>11, <2>2, OneEnds, OneGoes DEF SaveFails, Store
  <2>. QED  BY <2>1, <2>2 DEF Accounted
<1>12. ASSUME NEW o \in Ops, DeleteRow(o)
      PROVE  Accounted'
  <2>1. ASSUME NEW f \in grid'
        PROVE  f \in (Named \cup Tracked)' \/ InHand(f)'
    <3>1. f \in grid /\ rows' = rows \ {op[o].slot} /\ UNCHANGED row
      BY <1>12, <2>1 DEF DeleteRow, RowGoes
    <3>2. CASE InHand(f)
      <4>1. \A p \in Ops : op'[p].new = op[p].new \/ op[p].new = 0
        BY <1>0, <1>00, <1>12, OneEnds DEF DeleteRow, At, Making
      <4>2. \A p \in Ops : op[p].pc = "gone" => op'[p] = op[p]
        BY <1>0, <1>12, OneEnds DEF DeleteRow, At
      <4>. QED  BY <1>00, <3>1, <3>2, <4>1, <4>2 DEF InHand
    <3>3. ASSUME NEW s \in rows, f = row[s]
          PROVE  f \in (Named \cup Tracked)' \/ InHand(f)'
      <4>1. CASE s = op[o].slot /\ f # op[o].old
        BY <1>00, <1>12, <3>1, <3>3, <4>1 DEF DeleteRow, RowGoes, Lost, Named, NoFile, Tracked
      <4>2. CASE f = op[o].old
        BY <1>00, <1>12, <2>1, <3>1, <4>2 DEF DeleteRow, At
      <4>3. CASE s # op[o].slot
        BY <3>1, <3>3, <4>3 DEF Named
      <4>. QED  BY <4>1, <4>2, <4>3
    <3>. QED  BY <1>00, <2>1, <3>1, <3>2, <3>3 DEF Named
  <2>2. ASSUME NEW p \in Ops, op'[p].pc = "handed", op'[p].old \in grid'
        PROVE  op'[p].old \in Tracked'
    BY <1>0, <1>00, <1>12, <2>2, OneEnds DEF DeleteRow
  <2>. QED  BY <2>1, <2>2 DEF Accounted
<1>13. ASSUME NEW o \in Ops, DropRow(o)
      PROVE  Accounted'
  <2>1. ASSUME NEW f \in grid'
        PROVE  f \in (Named \cup Tracked)' \/ InHand(f)'
    <3>1. f \in grid /\ rows' = rows \ {op[o].slot} /\ UNCHANGED row
      BY <1>13, <2>1 DEF DropRow, RowGoes
    <3>2. CASE InHand(f)
      <4>1. \A p \in Ops : op'[p].new = op[p].new \/ op[p].new = 0
        BY <1>0, <1>00, <1>13, OneGoes DEF DropRow, At, Making
      <4>2. \A p \in Ops : op[p].pc = "gone" => op'[p] = op[p]
        BY <1>0, <1>13, OneGoes DEF DropRow, At
      <4>. QED  BY <1>00, <3>1, <3>2, <4>1, <4>2 DEF InHand
    <3>3. ASSUME NEW s \in rows, f = row[s]
          PROVE  f \in (Named \cup Tracked)' \/ InHand(f)'
      <4>1. CASE s = op[o].slot /\ f # op[o].old
        BY <1>00, <1>13, <3>1, <3>3, <4>1 DEF DropRow, RowGoes, Lost, Named, NoFile, Tracked
      <4>2. CASE f = op[o].old
        BY <1>0, <1>13, <4>2, OneGoes DEF DropRow, InHand
      <4>3. CASE s # op[o].slot
        BY <3>1, <3>3, <4>3 DEF Named
      <4>. QED  BY <4>1, <4>2, <4>3
    <3>. QED  BY <1>00, <2>1, <3>1, <3>2, <3>3 DEF Named
  <2>2. ASSUME NEW p \in Ops, op'[p].pc = "handed", op'[p].old \in grid'
        PROVE  op'[p].old \in Tracked'
    BY <1>0, <1>00, <1>13, <2>2, OneGoes DEF DropRow
  <2>. QED  BY <2>1, <2>2 DEF Accounted
<1>14. ASSUME NEW o \in Ops, RemoveNow(o)
      PROVE  Accounted'
  <2>1. ASSUME NEW f \in grid'
        PROVE  f \in (Named \cup Tracked)' \/ InHand(f)'
    <3>1. f \in grid /\ UNCHANGED <<rows, row>> /\ (f # op[o].old \/ f \in lost')
      BY <1>00, <1>14, <2>1 DEF RemoveNow, Lost, NoFile
    <3>. QED  BY <1>0, <1>00, <1>14, <2>1, <3>1, OneEnds DEF RemoveNow, At, InHand, Named, Tracked
  <2>2. ASSUME NEW p \in Ops, op'[p].pc = "handed", op'[p].old \in grid'
        PROVE  op'[p].old \in Tracked'
    BY <1>0, <1>00, <1>14, <2>2, OneEnds DEF RemoveNow
  <2>. QED  BY <2>1, <2>2 DEF Accounted
<1>15. ASSUME NEW o \in Ops, ScheduleDropped(o)
      PROVE  Accounted'
  <2>1. ASSUME NEW f \in grid'
        PROVE  f \in (Named \cup Tracked)' \/ InHand(f)'
    <3>1. op[o].old # 0 => op[o].old \in Tracked'
      <4>1. CASE Lost({op[o].old})
        BY <4>1 DEF Lost, NoFile, Tracked
      <4>2. CASE Schedule(op[o].old)
        BY <4>2, ScheduleTracks
      <4>. QED  BY <1>15, <4>1, <4>2 DEF ScheduleDropped
    <3>2. \A p \in Ops \ {o} : op'[p] = op[p]
      BY <1>0, <1>15, OneEnds DEF ScheduleDropped
    <3>3. op[o].new = 0
      BY <1>00, <1>15 DEF ScheduleDropped, At
    <3>. QED  BY <1>00, <1>15, <2>1, <3>1, <3>2, <3>3 DEF ScheduleDropped, InHand, Named, Store
  <2>2. ASSUME NEW p \in Ops, op'[p].pc = "handed", op'[p].old \in grid'
        PROVE  op'[p].old \in Tracked'
    BY <1>0, <1>00, <1>15, <2>2, OneEnds DEF ScheduleDropped, Store
  <2>. QED  BY <2>1, <2>2 DEF Accounted
<1>16. ASSUME NEW f \in Files, SendDue(f)
      PROVE  Accounted'
  <2>1. ASSUME NEW g \in grid'
        PROVE  g \in (Named \cup Tracked)' \/ InHand(g)'
    BY <1>00, <1>16, <2>1 DEF SendDue, InHand, Named, Store
  <2>2. ASSUME NEW p \in Ops, op'[p].pc = "handed", op'[p].old \in grid'
        PROVE  op'[p].old \in Tracked'
    BY <1>00, <1>16, <2>2 DEF SendDue, Store
  <2>. QED  BY <2>1, <2>2 DEF Accounted
<1>17. ASSUME NEW f \in Files, RemoveTaken(f)
      PROVE  Accounted'
  <2>1. ASSUME NEW g \in grid'
        PROVE  g \in (Named \cup Tracked)' \/ InHand(g)'
    BY <1>00, <1>17, <2>1 DEF RemoveTaken, InHand, Named
  <2>2. ASSUME NEW p \in Ops, op'[p].pc = "handed", op'[p].old \in grid'
        PROVE  op'[p].old \in Tracked'
    BY <1>00, <1>17, <2>2 DEF RemoveTaken
  <2>. QED  BY <2>1, <2>2 DEF Accounted
<1>18. ASSUME NEW r \in Readers, OpenOnly(r)
      PROVE  Accounted'
  <2>1. ASSUME NEW f \in grid'
        PROVE  f \in (Named \cup Tracked)' \/ InHand(f)'
    BY <1>00, <1>18, <2>1 DEF OpenOnly, InHand, Named, Store
  <2>2. ASSUME NEW p \in Ops, op'[p].pc = "handed", op'[p].old \in grid'
        PROVE  op'[p].old \in Tracked'
    BY <1>00, <1>18, <2>2 DEF OpenOnly, Store
  <2>. QED  BY <2>1, <2>2 DEF Accounted
<1>19. ASSUME NEW r \in Readers, NEW t \in Slots, ReadName(r, t)
      PROVE  Accounted'
  <2>1. ASSUME NEW f \in grid'
        PROVE  f \in (Named \cup Tracked)' \/ InHand(f)'
    BY <1>00, <1>19, <2>1 DEF ReadName, InHand, Named, Store
  <2>2. ASSUME NEW p \in Ops, op'[p].pc = "handed", op'[p].old \in grid'
        PROVE  op'[p].old \in Tracked'
    BY <1>00, <1>19, <2>2 DEF ReadName, Store
  <2>. QED  BY <2>1, <2>2 DEF Accounted
<1>20. ASSUME Sweep
      PROVE  Accounted'
  <2>1. ASSUME NEW f \in grid'
        PROVE  f \in (Named \cup Tracked)' \/ InHand(f)'
    BY <1>00, <1>20, <2>1 DEF Sweep, InHand, Named, Store
  <2>2. ASSUME NEW p \in Ops, op'[p].pc = "handed", op'[p].old \in grid'
        PROVE  op'[p].old \in Tracked'
    BY <1>00, <1>20, <2>2 DEF Sweep, Store
  <2>. QED  BY <2>1, <2>2 DEF Accounted
<1>21. ASSUME PpmsCrash
      PROVE  Accounted'
  <2>1. ASSUME NEW f \in grid'
        PROVE  f \in (Named \cup Tracked)' \/ InHand(f)'
    BY <1>00, <1>21, <2>1 DEF PpmsCrash, InHand, Named, Store
  <2>2. ASSUME NEW p \in Ops, op'[p].pc = "handed", op'[p].old \in grid'
        PROVE  op'[p].old \in Tracked'
    BY <1>00, <1>21, <2>2 DEF PpmsCrash, Store
  <2>. QED  BY <2>1, <2>2 DEF Accounted
<1>22. ASSUME Tick
      PROVE  Accounted'
  <2>1. ASSUME NEW f \in grid'
        PROVE  f \in (Named \cup Tracked)' \/ InHand(f)'
    BY <1>0, <1>00, <1>22, <2>1, TickOps DEF Tick, InHand, Named, Store
  <2>2. ASSUME NEW p \in Ops, op'[p].pc = "handed", op'[p].old \in grid'
        PROVE  op'[p].old \in Tracked'
    BY <1>0, <1>00, <1>22, <2>2, TickOps DEF Tick, Store
  <2>. QED  BY <2>1, <2>2 DEF Accounted
<1>. QED  BY <1>1, <1>2, <1>2a, <1>3, <1>3a, <1>4, <1>4a, <1>5, <1>6, <1>7, <1>8, <1>9, <1>10,
            <1>11, <1>12, <1>13,
             <1>14, <1>15, <1>16, <1>17, <1>18, <1>19, <1>20, <1>21, <1>22 DEF Next, Step, Fails

-----------------------------------------------------------------------------
(***************************************************************************)
(* The theorems.                                                            *)
(***************************************************************************)

\* At the start nothing names a file and nobody works on one.
LEMMA InitIInv ==
  Init => IInv
<1>. SUFFICES ASSUME Init
              PROVE  IInv
  OBVIOUS
<1>1. \A o \in Ops : /\ op[o] = Idle /\ op[o].pc = "idle" /\ op[o].kind = "update"
                     /\ op[o].old = 0 /\ op[o].new = 0
  BY DEF Init, Idle, NoFile
<1>2. TypeOK
  BY IdleIsOp DEF Init, TypeOK, NoFile
<1>3. Within /\ Kinds /\ Dropping /\ Locks /\ OneSlot /\ Fresh
  BY <1>1 DEF Init, Within, Kinds, Dropping, Locks, Holds, OneSlot, Fresh, NoFile
<1>4. NamedKept /\ ReadKept /\ Accounted
  BY <1>1 DEF Init, NamedKept, SlotKept, ReadKept, Accounted, NoFile
<1>. QED  BY <1>2, <1>3, <1>4 DEF IInv

\* The invariant is inductive.
LEMMA NextIInv ==
  IInv /\ [Next]_vars => IInv'
<1>1. ASSUME IInv, Next
      PROVE  IInv'
  <2>. TypeOK /\ Within /\ Kinds /\ Dropping /\ Locks /\ OneSlot /\ Fresh /\ NamedKept /\ ReadKept
       /\ Accounted
    BY <1>1 DEF IInv
  <2>1. TypeOK' /\ Within'
    BY <1>1, TypeStep
  <2>2. Kinds' /\ Dropping' /\ Locks'
    BY <1>1, KindsStep, DroppingStep, LocksStep
  <2>3. OneSlot' /\ Fresh'
    BY <1>1, OneSlotStep, FreshStep
  <2>4. NamedKept' /\ ReadKept'
    BY <1>1, NamedStep, ReadStep
  <2>5. Accounted'
    BY <1>1, AccountedStep
  <2>. QED  BY <2>1, <2>2, <2>3, <2>4, <2>5 DEF IInv
<1>2. ASSUME IInv, UNCHANGED vars
      PROVE  IInv'
  BY <1>2 DEF IInv, vars, TypeOK, Within, Kinds, Dropping, Locks, Holds, OneSlot, Fresh, NamedKept,
              SlotKept, HandedBy, ReadKept, Accounted, Named, Tracked, InHand, ToRemove
<1>. QED  BY <1>1, <1>2

\* The invariant holds in every reachable state.
LEMMA AlwaysIInv ==
  Spec => []IInv
  BY InitIInv, NextIInv, PTL DEF Spec

\* The state of the file store always has its type.
THEOREM TypeCorrect ==
  Spec => []TypeOK
<1>1. IInv => TypeOK
  BY DEF IInv
<1>. QED  BY <1>1, AlwaysIInv, PTL

\* A committed row names a file that is in GridFS, however many requests change
\* however many columns at once and whatever fails: only the ways NamedIsThere
\* lists lead to a row with the name of a file that is not there, and each of
\* them is a step that puts the name into doomed.
THEOREM RowsNameFiles ==
  Spec => []NamedIsThere
<1>1. IInv => NamedIsThere
  BY DEF IInv, NamedKept, SlotKept, NamedIsThere, Named
<1>. QED  BY <1>1, AlwaysIInv, PTL

\* Who has read a name from a row finds the file: the delay of ppms is long
\* enough for every overlap of requests and readers.
THEOREM ReadersAreServed ==
  Spec => []ReadersFindFiles
<1>1. IInv => ReadersFindFiles
  BY DEF IInv, ReadKept, ReadersFindFiles
<1>. QED  BY <1>1, AlwaysIInv, PTL

\* No file is left behind: it is named, in the hands of a request or will be
\* removed, unless a step FilesAccounted lists took it off the way.
THEOREM NoFileForgotten ==
  Spec => []FilesAccounted
<1>1. ASSUME IInv
      PROVE  FilesAccounted
  <2>1. \A f \in grid : f \in Named \cup Tracked \/ InHand(f)
    BY <1>1 DEF IInv, Accounted
  <2>2. 0 \notin grid /\ \A o \in Ops : op[o].pc = "idle" => op[o].new = 0
    BY <1>1 DEF IInv, TypeOK, Kinds, NoFile
  <2>3. ASSUME NEW f \in grid, InHand(f)
        PROVE  f \in HeldByOps
    <3>1. PICK o \in Ops : op[o].new = f \/ (op[o].pc = "gone" /\ op[o].old = f)
      BY <2>3 DEF InHand
    <3>2. op[o].pc # "idle"
      BY <2>2, <3>1
    <3>. QED  BY <3>1, <3>2 DEF HeldByOps
  <2>. QED  BY <2>1, <2>3 DEF FilesAccounted, Tracked
<1>. QED  BY <1>1, AlwaysIInv, PTL
=============================================================================
