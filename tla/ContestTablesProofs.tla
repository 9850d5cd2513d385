------------------------- MODULE ContestTablesProofs -------------------------
(***************************************************************************)
(* The parts of a contest stay together: the proof that ContestTables keeps *)
(* ProblemsHaveColumns, RankedAreJoined, CreatedIsComplete and GoneIsEmpty,  *)
(* for any number of requests, users, problems and failures.                 *)
(*                                                                         *)
(* The four invariants speak of the moments at which nobody is at work; what *)
(* makes them inductive is what a request in the middle of its work still    *)
(* owes.  Requests take two dozen kinds of steps, few of which change any    *)
(* one variable or lead to any one place: the lemmas Writers, Arrivals and   *)
(* Departures say which, once.                                               *)
(***************************************************************************)
EXTENDS ContestTables, TLAPS

USE ContestTablesAssumption DEF ContestTablesAssumption

\* What the steps of a request have to work with.
Typed ==
  /\ TypeOK
  /\ \A r \in Requests :
       /\ req[r].pid <= lastPid
       /\ req[r].pc \in {"enrol", "rank"} => req[r].user \in Users
       /\ req[r].pc \in {"count", "lookup", "add", "save"} => req[r].pidx \in Pidxs
       /\ req[r].pc \in {"find", "column", "undo", "save", "delete", "drop"} => req[r].pid # 0
  /\ \A p \in problems : p.pid <= lastPid

\* Until its row is committed a contest has nothing, and only its creator knows it.
Unborn ==
  /\ contest = "absent" => creation = "none" /\ \A r \in Requests : At(r, "idle")
  /\ creation = "none" => contest = "absent"
  /\ contest \in {"absent", "inserted"} =>
       /\ rankers = {} /\ joined = {} /\ problems = {} /\ outcome = "none" /\ upset = {}
       /\ \A r \in Requests : req[r].pc \in {"idle", "submissions"}
  /\ \A r \in Requests : At(r, "submissions") => contest = "inserted"
  /\ \A r, s \in Requests : At(r, "submissions") /\ At(s, "submissions") => r = s

Removing == {"unranking", "unproblems", "unsubmissions", "unjoin"}

\* The contest is not being removed, and was not.
Standing == contest \in {"inserted", "there"} /\ upset \cap {"remove", "revived"} = {}

\* While it stands its tables are made one after the other, and those who are
\* ranked, or are going to be, take part.
WhileStanding ==
  Standing =>
    /\ \A r \in Requests : req[r].pc \notin Removing
    /\ rankers \subseteq joined
    /\ \A r \in Requests : At(r, "rank") => req[r].user \in joined
    /\ creation = "ok" => "ranking" \in tables
    /\ \A r \in Requests : req[r].pc \in {"problems", "await"} => "submissions" \in tables
    /\ \A r \in Requests : At(r, "await") => "problems" \in tables
    /\ outcome = "ok" => tables = Tables

\* A column goes after its problem.
ColumnsFollow ==
  /\ "revived" \notin upset => \A r \in Requests : At(r, "drop") => Row(req[r].pid) = {}
  /\ Standing /\ "undo" \notin upset => \A p \in problems : p.pid \in columns \/ Adding(p.pid)

\* What is left of a removed contest is what a removal at work has yet to reach.
SomeAt(pcs) == \E r \in Requests : req[r].pc \in pcs
RemovalGoesOn ==
  /\ "ranking" \notin tables => rankers = {}
  /\ contest = "gone" /\ upset \cap {"left", "remove", "late", "revived"} = {} =>
       /\ "ranking" \in tables => SomeAt({"unranking"})
       /\ "problems" \in tables \/ problems # {} => SomeAt({"unranking", "unproblems"})
       /\ "submissions" \in tables => SomeAt({"unranking", "unproblems", "unsubmissions"})
       /\ joined # {} => SomeAt(Removing)

IInv == Typed /\ Unborn /\ WhileStanding /\ ColumnsFollow /\ RemovalGoesOn

-----------------------------------------------------------------------------
(* Where requests go. *)

Moved(r, pc) ==
  /\ req' \in [Requests -> Request]
  /\ \A s \in Requests \ {r} : req'[s] = req[s]
  /\ req'[r].pc = pc
Same(r) ==
  /\ req'[r].kind = req[r].kind /\ req'[r].pid = req[r].pid
  /\ req'[r].pidx = req[r].pidx /\ req'[r].user = req[r].user

\* A step to the next pc leaves the rest of the request and the other requests.
LEMMA GoesMoves ==
  ASSUME TypeOK, NEW r \in Requests, NEW pc \in Steps, Goes(r, pc)
  PROVE  Moved(r, pc) /\ Same(r)
  BY DEF TypeOK, Goes, Moved, Same, Request

\* So does the end of a request ...
LEMMA EndsMoves ==
  ASSUME TypeOK, NEW r \in Requests, Ends(r)
  PROVE  Moved(r, "idle") /\ req'[r].pid = 0
  BY DEF TypeOK, Ends, Moved, Request, Idle, Steps

\* ... and its beginning.
LEMMA OpensMoves ==
  ASSUME TypeOK, NEW r \in Requests, NEW pc \in Steps, NEW k \in AllKinds,
         NEW x \in Pidxs \cup {0}, NEW u \in Users \cup {"nobody"}, Opens(r, pc, k, x, u)
  PROVE  /\ Moved(r, pc) /\ At(r, "idle")
         /\ req'[r].kind = k /\ req'[r].pid = 0 /\ req'[r].pidx = x /\ req'[r].user = u
  BY DEF TypeOK, Opens, Moved, Request, At

\* The page of a request decides where it begins.
LEMMA Begins ==
  ASSUME TypeOK, NEW r \in Requests, Begin(r) \/ InsertContest(r)
  PROVE  /\ \E pc \in {"submissions", "enrol", "count", "lookup", "update", "uncontest"} :
              Moved(r, pc)
         /\ At(r, "idle") /\ req'[r].pid = 0
         /\ req'[r].pc = "enrol" => req'[r].user \in Users
         /\ req'[r].pc \in {"count", "lookup"} => req'[r].pidx \in Pidxs
         /\ req'[r].pc = "submissions" => InsertContest(r)
         /\ req'[r].pc # "submissions" => Begin(r)
<1>. DEFINE Opened(pc, x, u) == /\ Moved(r, pc) /\ At(r, "idle") /\ req'[r].pid = 0
                                /\ req'[r].pidx = x /\ req'[r].user = u
<1>0. ASSUME NEW pc \in Steps, NEW k \in AllKinds, NEW x \in Pidxs \cup {0},
             NEW u \in Users \cup {"nobody"}, Opens(r, pc, k, x, u)
      PROVE  Opened(pc, x, u)
  BY <1>0, OpensMoves
<1>1. CASE InsertContest(r)
  <2>1. Opened("submissions", 0, "nobody")
    BY <1>0, <1>1 DEF InsertContest, Steps, AllKinds
  <2>. QED  BY <1>1, <2>1 DEF Moved
<1>2. CASE Begin(r) /\ JoinPage(r)
  <2>1. PICK u \in Users : Opens(r, "enrol", "join", 0, u)
    BY <1>2 DEF JoinPage
  <2>2. Opened("enrol", 0, u)
    BY <1>0, <2>1 DEF Steps, AllKinds
  <2>. QED  BY <1>2, <2>2 DEF Moved
<1>3. CASE Begin(r) /\ (NewProblemPage(r) \/ EditProblemPage(r))
  <2>1. PICK x \in Pidxs, k \in {"problem", "edit"} : Opens(r, "count", k, x, "nobody")
    BY <1>3 DEF NewProblemPage, EditProblemPage
  <2>2. Opened("count", x, "nobody")
    BY <1>0, <2>1 DEF Steps, AllKinds
  <2>. QED  BY <1>3, <2>2 DEF Moved
<1>4. CASE Begin(r) /\ (RemoveProblemPage(r) \/ SubmitPage(r))
  <2>1. PICK x \in Pidxs, k \in {"unproblem", "submit"} : Opens(r, "lookup", k, x, "nobody")
    BY <1>4 DEF RemoveProblemPage, SubmitPage
  <2>2. Opened("lookup", x, "nobody")
    BY <1>0, <2>1 DEF Steps, AllKinds
  <2>. QED  BY <1>4, <2>2 DEF Moved
<1>5. CASE Begin(r) /\ (SettingPage(r) \/ RemovePage(r))
  <2>1. PICK pc \in {"update", "uncontest"}, k \in {"setting", "remove"} : Opens(r, pc, k, 0, "nobody")
    BY <1>5 DEF SettingPage, RemovePage
  <2>2. Opened(pc, 0, "nobody")
    BY <1>0, <2>1, SMTT(30) DEF Steps, AllKinds
  <2>. QED  BY <1>5, <2>2 DEF Moved
<1>. QED  BY <1>1, <1>2, <1>3, <1>4, <1>5 DEF Begin

\* A problem that was looked up is one there is.
LEMMA LookUpMoves ==
  ASSUME TypeOK, NEW r \in Requests, LookUp(r)
  PROVE  \/ Ends(r)
         \/ /\ \E pc \in {"save", "store", "delete"} : Moved(r, pc)
            /\ \E p \in problems : req'[r].pid = p.pid
            /\ req'[r].pidx \in Pidxs
<1>. DEFINE pc == CASE req[r].kind = "edit" -> "save"
                    [] req[r].kind = "submit" -> "store"
                    [] OTHER -> "delete"
            To(p, x) == req' = [req EXCEPT ![r].pid = p.pid,
                                           ![r].pidx = IF req[r].kind = "edit" THEN x ELSE p.pidx,
                                           ![r].pc = pc]
<1>1. Ends(r) \/ \E p \in problems, x \in Pidxs : To(p, x)
  BY DEF LookUp, Holding
<1>2. pc \in {"save", "store", "delete"}
  OBVIOUS
<1>3. req[r] \in Request
  BY DEF TypeOK
<1>. HIDE DEF pc
<1>4. ASSUME NEW p \in problems, NEW x \in Pidxs, To(p, x)
      PROVE  /\ Moved(r, pc) /\ req'[r].pid = p.pid
             /\ req'[r].pidx \in Pidxs
  <2>1. p.pid \in Pids /\ p.pidx \in Pidxs
    BY DEF TypeOK, Problems
  <2>. DEFINE new == [pc |-> pc, kind |-> req[r].kind, pid |-> p.pid,
                      pidx |-> IF req[r].kind = "edit" THEN x ELSE p.pidx, user |-> req[r].user]
  <2>2. /\ DOMAIN req' = Requests
        /\ \A s \in Requests : req'[s] = IF s = r THEN new ELSE req[s]
    <3>1. /\ DOMAIN req' = Requests
          /\ \A s \in Requests : s # r => req'[s] = req[s]
      BY <1>4 DEF TypeOK
    <3>2. req'[r] = new
      BY <1>3, <1>4 DEF Request, TypeOK
    <3>. QED  BY <3>1, <3>2
  <2>3. p.pid \in 0 .. MaxPid
    BY <2>1 DEF Pids
  <2>4. new \in Request
    <3>1. pc \in Steps
      BY <1>2 DEF Steps
    <3>2. (IF req[r].kind = "edit" THEN x ELSE p.pidx) \in Pidxs \cup {0}
      BY <2>1
    <3>. QED  BY <1>3, <2>3, <3>1, <3>2 DEF Request
  <2>5. req' \in [Requests -> Request]
    BY <1>4, <2>2, <2>4 DEF TypeOK
  <2>. QED  BY <2>1, <2>2, <2>5 DEF Moved
<1>. QED  BY <1>1, <1>2, <1>4, ZenonT(40)

\* A problem that was added has the next pid.
LEMMA AddMoves ==
  ASSUME TypeOK, NEW r \in Requests, AddProblem(r)
  PROVE  \/ Ends(r) /\ problems' = problems
         \/ /\ Moved(r, "find") /\ req'[r].pid = lastPid + 1 /\ lastPid' = lastPid + 1
            /\ problems' = problems \cup {[pid |-> lastPid + 1, pidx |-> req[r].pidx]}
<1>1. CASE Ends(r) /\ UNCHANGED problems
  BY <1>1
<1>2. CASE /\ lastPid < MaxPid /\ lastPid' = lastPid + 1
           /\ req' = [req EXCEPT ![r].pc = "find", ![r].pid = lastPid + 1]
           /\ problems' = problems \cup {[pid |-> lastPid + 1, pidx |-> req[r].pidx]}
  <2>1. req[r] \in Request /\ lastPid + 1 \in 0 .. MaxPid
    BY <1>2 DEF TypeOK
  <2>2. Moved(r, "find") /\ req'[r].pid = lastPid + 1
    BY <1>2, <2>1 DEF TypeOK, Moved, Request, Steps
  <2>. QED  BY <1>2, <2>2
<1>. QED  BY <1>1, <1>2 DEF AddProblem

Acts(r) == InsertContest(r) \/ Begin(r) \/ Work(r)

\* Every step is of one request, which goes on, or of none.
LEMMA ActsMoves ==
  ASSUME TypeOK, NEW r \in Requests, Acts(r)
  PROVE  \E pc : Moved(r, pc)
<1>1. CASE Work(r) /\ ~LookUp(r) /\ ~AddProblem(r)
  <2>1. Ends(r) \/ \E pc \in Steps : Goes(r, pc)
    BY <1>1 DEF Work, CreateSubmissions, CreateProblems, AwaitRanking, Enrol, Rank, Count,
       FindAdded, AddColumn, UndoAdd, SaveProblem, DeleteProblem, DropColumn, ClearSubmissions,
       StoreSubmission, UpdateContest, DeleteContest, DropRanking, DropProblems,
       DropSubmissions, RemoveJoined, Steps
  <2>. QED  BY <2>1, GoesMoves, EndsMoves
<1>. QED  BY <1>1, Begins, LookUpMoves, AddMoves, EndsMoves DEF Acts

\* A step is taken by one request, at most.
LEMMA OneActs ==
  ASSUME TypeOK, Next
  PROVE  /\ req' \in [Requests -> Request]
         /\ \A r \in Requests : req'[r] = req[r] \/ Acts(r)
<1>1. CASE Tick \/ PpjcNew
  BY <1>1 DEF Tick, PpjcNew, TypeOK
<1>2. ASSUME NEW r \in Requests, Acts(r)
      PROVE  /\ req' \in [Requests -> Request]
             /\ \A s \in Requests : req'[s] = req[s] \/ Acts(s)
  BY <1>2, ActsMoves DEF Moved
<1>. QED  BY <1>1, <1>2 DEF Next, Acts

\* What brings a request where it then is.
LEMMA Arrivals ==
  ASSUME TypeOK, NEW r \in Requests, Acts(r)
  PROVE  LET to == req'[r].pc IN
         /\ to = "submissions" => InsertContest(r)
         /\ to = "problems" => CreateSubmissions(r)
         /\ to = "await" => CreateProblems(r)
         /\ to \in {"enrol", "count"} => Begin(r)
         /\ to = "lookup" => Begin(r) \/ Count(r)
         /\ to = "rank" => Enrol(r)
         /\ to = "add" => Count(r)
         /\ to = "find" => AddProblem(r)
         /\ to = "column" => FindAdded(r)
         /\ to = "undo" => AddColumn(r)
         /\ to \in {"save", "delete"} => LookUp(r)
         /\ to = "drop" => DeleteProblem(r)
         /\ to = "unranking" => DeleteContest(r)
         /\ to = "unproblems" => DropRanking(r)
         /\ to = "unsubmissions" => DropProblems(r)
         /\ to = "unjoin" => DropSubmissions(r)
<1>1. Ends(r) => req'[r].pc = "idle"
  BY EndsMoves DEF Moved
<1>2. \A pc \in Steps : Goes(r, pc) => req'[r].pc = pc
  BY GoesMoves DEF Moved
<1>3. AddProblem(r) => req'[r].pc \in {"find", "idle"}
  BY <1>1, AddMoves DEF Moved
<1>4. LookUp(r) => req'[r].pc \in {"save", "store", "delete", "idle"}
  BY <1>1, LookUpMoves DEF Moved
<1>5. Begin(r) \/ InsertContest(r) =>
        /\ req'[r].pc \in {"submissions", "enrol", "count", "lookup", "update", "uncontest"}
        /\ req'[r].pc = "submissions" => InsertContest(r)
        /\ req'[r].pc # "submissions" => Begin(r)
  BY Begins DEF Moved
<1>. HIDE DEF Goes, Ends
<1>6. CASE Work(r)
  BY <1>1, <1>2, <1>3, <1>4, <1>6, SMTT(30) DEF Work, CreateSubmissions, CreateProblems, AwaitRanking, Enrol,
     Rank, Count, FindAdded, AddColumn, UndoAdd, SaveProblem, DeleteProblem, DropColumn,
     ClearSubmissions, StoreSubmission, UpdateContest, DeleteContest, DropRanking,
     DropProblems, DropSubmissions, RemoveJoined, Steps
<1>. QED  BY <1>5, <1>6 DEF Acts

\* Where it was before says what it does.
LEMMA Departures ==
  ASSUME TypeOK, NEW r \in Requests, Acts(r)
  PROVE  /\ At(r, "submissions") => CreateSubmissions(r)
         /\ At(r, "find") => FindAdded(r)
         /\ At(r, "column") => AddColumn(r)
         /\ At(r, "undo") => UndoAdd(r)
         /\ At(r, "unranking") => DropRanking(r)
         /\ At(r, "unproblems") => DropProblems(r)
         /\ At(r, "unsubmissions") => DropSubmissions(r)
         /\ At(r, "unjoin") => RemoveJoined(r)
  BY Begins DEF Acts, At, Work, CreateSubmissions, CreateProblems, AwaitRanking, Enrol, Rank, Count,
     AddProblem, FindAdded, AddColumn, UndoAdd, LookUp, SaveProblem, DeleteProblem, DropColumn,
     ClearSubmissions, StoreSubmission, UpdateContest, DeleteContest, DropRanking,
     DropProblems, DropSubmissions, RemoveJoined

-----------------------------------------------------------------------------
(* Who writes what. *)

\* Each variable is changed by a few kinds of steps.
LEMMA Writers ==
  ASSUME Next
  PROVE  /\ contest' = contest \/ \E r \in Requests :
              InsertContest(r) \/ CreateSubmissions(r) \/ UpdateContest(r) \/ DeleteContest(r)
         /\ joined' = joined \/ \E r \in Requests : Enrol(r) \/ RemoveJoined(r)
         /\ rankers' = rankers \/ \E r \in Requests : Rank(r) \/ DropRanking(r)
         /\ problems' = problems \/ \E r \in Requests :
              AddProblem(r) \/ UndoAdd(r) \/ SaveProblem(r) \/ DeleteProblem(r) \/ DropProblems(r)
         /\ lastPid' = lastPid \/ \E r \in Requests : AddProblem(r)
         /\ columns' = columns \/ \E r \in Requests : AddColumn(r) \/ DropColumn(r) \/ DropRanking(r)
         /\ tables' = tables \/ PpjcNew \/ \E r \in Requests :
              \/ CreateSubmissions(r) \/ CreateProblems(r) \/ StoreSubmission(r)
              \/ DropRanking(r) \/ DropProblems(r) \/ DropSubmissions(r)
         /\ creation' = creation \/ PpjcNew \/ \E r \in Requests : InsertContest(r)
         /\ outcome' = outcome \/ \E r \in Requests :
              CreateSubmissions(r) \/ CreateProblems(r) \/ AwaitRanking(r)
         /\ phase' = phase \/ Tick
<1>. USE DEF Next, Work, Tick, PpjcNew, CreateSubmissions, CreateProblems, AwaitRanking, Enrol,
         Rank, Count, AddProblem, FindAdded, AddColumn, UndoAdd, LookUp, SaveProblem,
         DeleteProblem, DropColumn, ClearSubmissions, StoreSubmission, UpdateContest,
         DeleteContest, DropRanking, DropProblems, DropSubmissions, RemoveJoined,
         InsertContest, Begin, own, ranking, History, RestP, Rest
<1>1. contest' = contest \/ \E r \in Requests :
        InsertContest(r) \/ CreateSubmissions(r) \/ UpdateContest(r) \/ DeleteContest(r)
  OBVIOUS
<1>2. joined' = joined \/ \E r \in Requests : Enrol(r) \/ RemoveJoined(r)
  OBVIOUS
<1>3. rankers' = rankers \/ \E r \in Requests : Rank(r) \/ DropRanking(r)
  OBVIOUS
<1>4. problems' = problems \/ \E r \in Requests :
        AddProblem(r) \/ UndoAdd(r) \/ SaveProblem(r) \/ DeleteProblem(r) \/ DropProblems(r)
  OBVIOUS
<1>5. lastPid' = lastPid \/ \E r \in Requests : AddProblem(r)
  OBVIOUS
<1>6. columns' = columns \/ \E r \in Requests : AddColumn(r) \/ DropColumn(r) \/ DropRanking(r)
  BY DEF RankingUserAdd
<1>7. tables' = tables \/ PpjcNew \/ \E r \in Requests :
        \/ CreateSubmissions(r) \/ CreateProblems(r) \/ StoreSubmission(r)
        \/ DropRanking(r) \/ DropProblems(r) \/ DropSubmissions(r)
  OBVIOUS
<1>8. creation' = creation \/ PpjcNew \/ \E r \in Requests : InsertContest(r)
  OBVIOUS
<1>9. outcome' = outcome \/ \E r \in Requests :
        CreateSubmissions(r) \/ CreateProblems(r) \/ AwaitRanking(r)
  OBVIOUS
<1>10. phase' = phase \/ Tick
  OBVIOUS
<1>. QED  BY <1>1, <1>2, <1>3, <1>4, <1>5, <1>6, <1>7, <1>8, <1>9, <1>10, Zenon

\* The history only grows, within its bounds.
LEMMA HistoryGrows ==
  ASSUME TypeOK, Next
  PROVE  failures' \in 0 .. MaxFailures /\ upset' \subseteq Upsets /\ upset \subseteq upset'
<1>. DEFINE Ok == failures' \in 0 .. MaxFailures
            Up == upset' \subseteq Upsets /\ upset \subseteq upset'
<1>1. /\ UNCHANGED failures => Ok
      /\ UNCHANGED upset => Up
  BY DEF TypeOK
<1>2. \A k : Fails(k) => Ok
  BY DEF Fails, TypeOK
<1>3. /\ Fine => Ok /\ Up
      /\ MysqlFails => Ok /\ Up
      /\ UNCHANGED History => Ok /\ Up
  BY <1>1, <1>2 DEF Fine, MysqlFails, History
<1>4. \A c, d, o : Calls(c, d, o) => Ok
  BY <1>1, <1>2 DEF Calls
<1>5. \A e \in SUBSET Upsets : Upset(e) => Up
  BY DEF Upset, TypeOK
<1>6. /\ \A a : (IF a THEN {} ELSE {"unranked"}) \in SUBSET Upsets
      /\ \A a : (IF a THEN {"left"} ELSE {}) \in SUBSET Upsets
      /\ \A a : (IF a THEN {"revived"} ELSE {}) \in SUBSET Upsets
      /\ Late \in SUBSET Upsets
      /\ {"undo"} \in SUBSET Upsets /\ {"left"} \in SUBSET Upsets /\ {"remove"} \in SUBSET Upsets
  BY DEF Upsets, Late
<1>. HIDE DEF Ok, Up
<1>7. ASSUME Tick \/ PpjcNew PROVE Ok /\ Up
  <2>1. Ok
    BY <1>1, <1>3, <1>4, <1>7 DEF Tick, PpjcNew
  <2>2. Up
    BY <1>1, <1>3, <1>5, <1>6, <1>7 DEF Tick, PpjcNew
  <2>. QED  BY <2>1, <2>2
<1>8. ASSUME NEW r \in Requests,
             \/ InsertContest(r) \/ Begin(r) \/ CreateSubmissions(r) \/ CreateProblems(r)
             \/ AwaitRanking(r) \/ Enrol(r) \/ Rank(r)
      PROVE  Ok /\ Up
  <2>. USE DEF InsertContest, Begin, CreateSubmissions, CreateProblems, AwaitRanking, Enrol, Rank,
               RestP, Rest
  <2>1. Ok
    BY <1>1, <1>2, <1>3, <1>4, <1>8
  <2>2. Up
    BY <1>1, <1>3, <1>5, <1>6, <1>8
  <2>. QED  BY <2>1, <2>2
<1>9. ASSUME NEW r \in Requests,
             \/ Count(r) \/ AddProblem(r) \/ FindAdded(r) \/ AddColumn(r) \/ UndoAdd(r)
             \/ LookUp(r) \/ SaveProblem(r) \/ DeleteProblem(r) \/ DropColumn(r)
      PROVE  Ok /\ Up
  <2>. USE DEF Count, AddProblem, FindAdded, AddColumn, UndoAdd, LookUp, SaveProblem,
               DeleteProblem, DropColumn, RestP, Rest
  <2>1. Ok
    BY <1>1, <1>2, <1>3, <1>4, <1>9
  <2>2. Up
    BY <1>1, <1>3, <1>5, <1>6, <1>9
  <2>. QED  BY <2>1, <2>2
<1>10. ASSUME NEW r \in Requests,
             \/ ClearSubmissions(r) \/ StoreSubmission(r) \/ UpdateContest(r) \/ DeleteContest(r)
             \/ DropRanking(r) \/ DropProblems(r) \/ DropSubmissions(r) \/ RemoveJoined(r)
      PROVE  Ok /\ Up
  <2>. USE DEF ClearSubmissions, StoreSubmission, UpdateContest, DeleteContest, DropRanking,
               DropProblems, DropSubmissions, RemoveJoined, RestP, Rest
  <2>1. Ok
    BY <1>1, <1>2, <1>3, <1>4, <1>10
  <2>2. Up
    BY <1>1, <1>3, <1>5, <1>6, <1>10
  <2>. QED  BY <2>1, <2>2
<1>11. Ok /\ Up
  BY <1>7, <1>8, <1>9, <1>10 DEF Next, Work
<1>. QED  BY <1>11 DEF Ok, Up

-----------------------------------------------------------------------------
(* The types. *)

\* Every step writes records the next one can work with.
LEMMA TypedStep ==
  ASSUME Typed, Next
  PROVE  Typed'
<1>. USE DEF At
<1>0. TypeOK
  BY DEF Typed
<1>1. /\ contest' \in {"absent", "inserted", "there", "gone"}
      /\ phase' \in {"before", "running", "finished"}
  BY <1>0, Writers DEF TypeOK, InsertContest, CreateSubmissions, UpdateContest, DeleteContest, Tick
<1>2. /\ creation' \in {"none", "called", "ok", "failed"}
      /\ outcome' \in {"none", "ok", "error"}
  BY <1>0, Writers DEF TypeOK, InsertContest, PpjcNew, CreateSubmissions, CreateProblems, AwaitRanking
<1>3. tables' \subseteq Tables
  BY <1>0, Writers DEF TypeOK, Tables, PpjcNew, CreateSubmissions, CreateProblems, StoreSubmission,
     DropRanking, DropProblems, DropSubmissions, RankingAutoMigrate, RankingDelete
<1>4. /\ joined' \subseteq Users
      /\ rankers' \subseteq Users
  <2>1. ASSUME NEW r \in Requests, Enrol(r) \/ RemoveJoined(r) PROVE joined' \subseteq Users
    BY <2>1 DEF Typed, TypeOK, Enrol, RemoveJoined
  <2>2. ASSUME NEW r \in Requests, Rank(r) PROVE rankers' \subseteq Users
    BY <2>2 DEF Typed, TypeOK, Rank, RankingUserAdd
  <2>3. ASSUME NEW r \in Requests, DropRanking(r) PROVE rankers' \subseteq Users
    BY <2>3 DEF Typed, TypeOK, DropRanking, RankingDelete, ranking
  <2>. QED  BY <1>0, <2>1, <2>2, <2>3, Writers DEF TypeOK
<1>5. \A r \in Requests : req[r] \in Request /\ req[r].pid \in 0 .. lastPid
  BY DEF Typed, TypeOK, Request
<1>6. lastPid' \in 0 .. MaxPid /\ lastPid' >= lastPid
  <2>1. lastPid' = lastPid \/ (lastPid < MaxPid /\ lastPid' = lastPid + 1)
    BY Writers DEF AddProblem
  <2>2. lastPid \in 0 .. MaxPid
    BY <1>0 DEF TypeOK
  <2>3. lastPid \in Int /\ 0 <= lastPid /\ lastPid <= MaxPid /\ MaxPid \in Int
    BY <2>2
  <2>. QED  BY <2>1, <2>3
<1>7. /\ problems' \subseteq Problems
      /\ \A p \in problems' : p.pid <= lastPid'
  <2>1. ASSUME NEW r \in Requests, AddProblem(r)
        PROVE  \A p \in problems' : p \in Problems /\ p.pid <= lastPid'
    <3>1. req[r].pidx \in Pidxs /\ lastPid \in 0 .. MaxPid
      BY <2>1 DEF AddProblem, Typed, TypeOK
    <3>2. problems' = problems \/ /\ lastPid < MaxPid /\ lastPid' = lastPid + 1
                                  /\ problems' = problems \cup {[pid |-> lastPid + 1, pidx |-> req[r].pidx]}
      BY <2>1 DEF AddProblem
    <3>. QED  BY <1>6, <3>1, <3>2 DEF Typed, TypeOK, Problems, Pids
  <2>2. ASSUME NEW r \in Requests, SaveProblem(r)
        PROVE  \A p \in problems' : p \in Problems /\ p.pid <= lastPid'
    <3>1. req[r].pidx \in Pidxs /\ req[r].pid \in 1 .. lastPid /\ lastPid' = lastPid
      BY <1>5, <2>2 DEF SaveProblem, RestP, Typed
    <3>2. \A p \in problems' : p \in problems \/ p = [pid |-> req[r].pid, pidx |-> req[r].pidx]
      BY <2>2 DEF SaveProblem
    <3>. QED  BY <3>1, <3>2 DEF Typed, TypeOK, Problems, Pids
  <2>3. ASSUME NEW r \in Requests, UndoAdd(r) \/ DeleteProblem(r) \/ DropProblems(r)
        PROVE  problems' \subseteq problems /\ lastPid' = lastPid
    BY <2>3 DEF UndoAdd, DeleteProblem, DropProblems, RestP
  <2>. QED  BY <1>6, <2>1, <2>2, <2>3, Writers DEF Typed, TypeOK
<1>8. columns' \subseteq Pids
  <2>1. ASSUME NEW r \in Requests, AddColumn(r) PROVE columns' \subseteq Pids
    <3>1. req[r].pid \in Pids
      BY <1>5, <2>1 DEF AddColumn, Typed, TypeOK, Pids
    <3>. QED  BY <2>1, <3>1 DEF AddColumn, RankingProblemAdd, Typed, TypeOK
  <2>2. ASSUME NEW r \in Requests, DropColumn(r) \/ DropRanking(r) PROVE columns' \subseteq Pids
    BY <2>2 DEF DropColumn, DropRanking, RankingProblemDelete, RankingDelete, ranking, Typed, TypeOK
  <2>. QED  BY <2>1, <2>2, Writers DEF Typed, TypeOK
<1>9. ASSUME NEW r \in Requests
      PROVE  /\ req'[r].pid <= lastPid'
             /\ req'[r].pc \in {"enrol", "rank"} => req'[r].user \in Users
             /\ req'[r].pc \in {"count", "lookup", "add", "save"} => req'[r].pidx \in Pidxs
             /\ req'[r].pc \in {"find", "column", "undo", "save", "delete", "drop"} => req'[r].pid # 0
  <2>1. CASE req'[r] = req[r]
    BY <1>5, <1>6, <2>1 DEF Typed, TypeOK
  <2>2. CASE Begin(r) \/ InsertContest(r)
    BY <1>0, <1>6, <2>2, Begins DEF Moved
  <2>3. CASE Ends(r)
    BY <1>0, <1>6, <2>3, EndsMoves DEF Moved
  <2>4. CASE AddProblem(r)
    BY <1>0, <1>6, <2>3, <2>4, AddMoves DEF Moved, TypeOK
  <2>5. CASE LookUp(r)
    <3>1. \A p \in problems : p.pid # 0 /\ p.pid <= lastPid' /\ p.pid \in Nat
      BY <1>6 DEF Typed, TypeOK, Problems, Pids
    <3>. QED  BY <1>0, <2>3, <2>5, <3>1, LookUpMoves DEF Moved
  <2>6. CASE Work(r) /\ ~Begin(r) /\ ~Ends(r) /\ ~AddProblem(r) /\ ~LookUp(r)
    <3>1. \E pc \in Steps : Goes(r, pc)
      BY <2>6 DEF Work, CreateSubmissions, CreateProblems, AwaitRanking, Enrol, Rank, Count,
         FindAdded, AddColumn, UndoAdd, SaveProblem, DeleteProblem, DropColumn, ClearSubmissions,
         StoreSubmission, UpdateContest, DeleteContest, DropRanking, DropProblems,
         DropSubmissions, RemoveJoined, Steps
    <3>2. Same(r)
      BY <1>0, <3>1, GoesMoves
    <3>3. /\ req'[r].pc = "rank" => At(r, "enrol")
          /\ req'[r].pc = "add" => At(r, "count")
          /\ req'[r].pc = "lookup" => At(r, "count")
          /\ req'[r].pc = "column" => At(r, "find")
          /\ req'[r].pc = "undo" => At(r, "column")
          /\ req'[r].pc = "drop" => At(r, "delete")
          /\ req'[r].pc \notin {"enrol", "count", "find", "save", "delete"}
      BY <1>0, <2>2, <2>6, Arrivals DEF Acts, Enrol, Count, FindAdded, AddColumn, DeleteProblem
    <3>. QED  BY <1>5, <1>6, <3>2, <3>3 DEF Same, Typed, TypeOK
  <2>. QED  BY <1>0, <2>1, <2>2, <2>3, <2>4, <2>5, <2>6, OneActs DEF Acts
<1>10. TypeOK'
  BY <1>0, <1>1, <1>2, <1>3, <1>4, <1>6, <1>7, <1>8, OneActs, HistoryGrows DEF TypeOK
<1>. QED  BY <1>7, <1>9, <1>10 DEF Typed

-----------------------------------------------------------------------------
(* Before the row is committed. *)

\* No step gives a contest anything before its row is committed.
LEMMA UnbornStep ==
  ASSUME Typed, Unborn, Next
  PROVE  Unborn'
<1>. USE DEF At
<1>0. TypeOK
  BY DEF Typed
<1>1. CASE Tick
  BY <1>1 DEF Tick, own, ranking, History, Unborn
<1>2. CASE PpjcNew
  <2>1. contest # "absent" /\ UNCHANGED <<own, rankers, req, outcome>>
    BY <1>2 DEF PpjcNew, Unborn, ranking
  <2>2. contest # "gone" => upset' = upset
    BY <1>2 DEF PpjcNew, Upset, Late
  <2>3. creation' # "none"
    BY <1>2 DEF PpjcNew
  <2>. QED  BY <2>1, <2>2, <2>3 DEF Unborn, own
<1>3. ASSUME NEW r \in Requests, InsertContest(r)
      PROVE  Unborn'
  <2>1. /\ contest = "absent" /\ contest' = "inserted" /\ creation' = "called"
        /\ UNCHANGED <<problems, joined, rankers, outcome, upset>>
    BY <1>3 DEF InsertContest, ranking, History
  <2>2. Moved(r, "submissions")
    BY <1>0, <1>3, OpensMoves DEF InsertContest, Steps, AllKinds
  <2>. QED  BY <2>1, <2>2 DEF Unborn, Moved
<1>4. ASSUME NEW r \in Requests, Begin(r) \/ Work(r)
      PROVE  Unborn'
  <2>1. contest' \notin {"absent", "inserted"}
    <3>1. CASE Begin(r)
      BY <3>1 DEF Begin, own
    <3>2. CASE Work(r)
      <4>1. CASE At(r, "submissions")
        BY <1>0, <3>2, <4>1, Departures DEF Acts, CreateSubmissions
      <4>2. CASE ~At(r, "submissions")
        <5>1. contest \notin {"absent", "inserted"}
          BY <3>2, <4>2 DEF Unborn, Work, CreateProblems, AwaitRanking, Enrol, Rank, Count, AddProblem,
             FindAdded, AddColumn, UndoAdd, LookUp, SaveProblem, DeleteProblem, DropColumn,
             ClearSubmissions, StoreSubmission, UpdateContest, DeleteContest, DropRanking,
             DropProblems, DropSubmissions, RemoveJoined, CreateSubmissions
        <5>. QED  BY <1>0, <5>1, Writers DEF InsertContest, CreateSubmissions, UpdateContest,
                  DeleteContest, TypeOK
      <4>. QED  BY <4>1, <4>2
    <3>. QED  BY <1>4, <3>1, <3>2
  <2>2. creation' # "none"
    <3>1. contest # "absent"
      BY <1>4 DEF Unborn, Begin, Work, CreateSubmissions, CreateProblems, AwaitRanking, Enrol,
         Rank, Count, AddProblem, FindAdded, AddColumn, UndoAdd, LookUp, SaveProblem,
         DeleteProblem, DropColumn, ClearSubmissions, StoreSubmission, UpdateContest,
         DeleteContest, DropRanking, DropProblems, DropSubmissions, RemoveJoined
    <3>. QED  BY <3>1, Writers DEF Unborn, PpjcNew, InsertContest
  <2>3. \A s \in Requests : ~At(s, "submissions")'
    <3>1. ~InsertContest(r)
      BY <2>1, Zenon DEF InsertContest
    <3>2. req'[r].pc # "submissions"
      BY <1>0, <1>4, <3>1, Arrivals DEF Acts
    <3>3. ASSUME NEW s \in Requests, s # r PROVE req'[s] = req[s]
      BY <1>0, <1>4, <3>3, ActsMoves DEF Acts, Moved
    <3>4. ASSUME NEW s \in Requests, s # r PROVE req[s].pc # "submissions"
      BY <1>4, <3>4 DEF Unborn, Begin, Work, CreateSubmissions, CreateProblems, AwaitRanking, Enrol,
         Rank, Count, AddProblem, FindAdded, AddColumn, UndoAdd, LookUp, SaveProblem,
         DeleteProblem, DropColumn, ClearSubmissions, StoreSubmission, UpdateContest,
         DeleteContest, DropRanking, DropProblems, DropSubmissions, RemoveJoined
    <3>. QED  BY <3>2, <3>3, <3>4
  <2>. QED  BY <2>1, <2>2, <2>3 DEF Unborn
<1>. QED  BY <1>1, <1>2, <1>3, <1>4 DEF Next

-----------------------------------------------------------------------------
(* While the contest stands. *)

\* A contest that stands stood before, or was created just now.
LEMMA StoodBefore ==
  ASSUME TypeOK, Unborn, Next, Standing'
  PROVE  Standing \/ \E r \in Requests : InsertContest(r)
<1>1. upset \subseteq upset'
  BY HistoryGrows
<1>2. ASSUME NEW r \in Requests, UpdateContest(r) PROVE contest' = contest
  BY <1>2 DEF UpdateContest, Upset, Standing
<1>3. ASSUME NEW r \in Requests, CreateSubmissions(r) PROVE contest = "inserted"
  BY <1>3 DEF CreateSubmissions, Unborn
<1>4. ASSUME NEW r \in Requests, DeleteContest(r) PROVE contest' = contest
  BY <1>4 DEF DeleteContest, Standing
<1>. QED  BY <1>1, <1>2, <1>3, <1>4, Writers DEF Standing

\* While it stands nobody removes anything from it.
LEMMA NothingTaken ==
  ASSUME TypeOK, WhileStanding, Standing, Next
  PROVE  /\ \A r \in Requests : ~(DropRanking(r) \/ DropProblems(r) \/ DropSubmissions(r) \/ RemoveJoined(r))
         /\ tables \subseteq tables' /\ joined \subseteq joined'
<1>1. \A r \in Requests : ~(DropRanking(r) \/ DropProblems(r) \/ DropSubmissions(r) \/ RemoveJoined(r))
  BY DEF WhileStanding, Removing, At, DropRanking, DropProblems, DropSubmissions, RemoveJoined
<1>2. tables \subseteq tables'
  BY <1>1, Writers DEF PpjcNew, CreateSubmissions, CreateProblems, StoreSubmission, RankingAutoMigrate
<1>3. joined \subseteq joined'
  BY <1>1, Writers DEF Enrol
<1>. QED  BY <1>1, <1>2, <1>3

\* No step breaks what holds while the contest stands.
LEMMA StandingStep ==
  ASSUME Typed, Unborn, WhileStanding, Next
  PROVE  WhileStanding'
<1>. USE DEF At
<1>0. TypeOK
  BY DEF Typed
<1>. SUFFICES ASSUME Standing' PROVE WhileStanding'
  BY DEF WhileStanding
<1>1. CASE \E r \in Requests : InsertContest(r)
  <2>1. /\ rankers' = {} /\ creation' = "called" /\ outcome' = "none"
    BY <1>1 DEF InsertContest, Unborn, ranking
  <2>2. \A s \in Requests : req'[s].pc \in {"idle", "submissions"}
    BY <1>0, <1>1, OpensMoves DEF InsertContest, Unborn, Moved, Steps, AllKinds
  <2>. QED  BY <2>1, <2>2 DEF WhileStanding, Removing
<1>2. CASE Standing
  <2>0. /\ tables \subseteq tables' /\ joined \subseteq joined'
    BY <1>0, <1>2, NothingTaken
  <2>1. \A r \in Requests : req'[r].pc \notin Removing
    <3>1. ASSUME NEW r \in Requests, DeleteContest(r) PROVE FALSE
      BY <3>1 DEF DeleteContest, Upset, Standing
    <3>2. ASSUME NEW r \in Requests PROVE req'[r].pc \notin Removing
      BY <1>0, <1>2, <3>1, NothingTaken, OneActs, Arrivals DEF WhileStanding, Removing
    <3>. QED  BY <3>2
  <2>2. rankers' \subseteq joined'
    BY <1>0, <1>2, <2>0, NothingTaken, Writers DEF WhileStanding, Rank, RankingUserAdd
  <2>3. ASSUME NEW r \in Requests, req'[r].pc = "rank" PROVE req'[r].user \in joined'
    <3>1. CASE req'[r] = req[r]
      BY <1>2, <2>0, <2>3, <3>1 DEF WhileStanding
    <3>2. CASE Enrol(r)
      <4>1. Goes(r, "rank") /\ joined' = joined \cup {req[r].user}
        BY <1>0, <2>3, <3>2, EndsMoves DEF Enrol, Moved
      <4>. QED  BY <1>0, <4>1, GoesMoves DEF Same, Steps
    <3>. QED  BY <1>0, <2>3, <3>1, <3>2, OneActs, Arrivals
  <2>4. creation' = "ok" => "ranking" \in tables'
    BY <1>2, <2>0, Writers DEF WhileStanding, PpjcNew, Calls, RankingAutoMigrate, InsertContest
  <2>5. ASSUME NEW r \in Requests, req'[r].pc \in {"problems", "await"}
        PROVE  "submissions" \in tables'
    <3>1. CASE req'[r] = req[r]
      BY <1>2, <2>0, <2>5, <3>1 DEF WhileStanding
    <3>2. CASE CreateSubmissions(r)
      BY <1>0, <2>5, <3>2, EndsMoves DEF CreateSubmissions, Moved
    <3>3. CASE CreateProblems(r)
      BY <1>2, <2>0, <3>3 DEF CreateProblems, WhileStanding
    <3>. QED  BY <1>0, <2>5, <3>1, <3>2, <3>3, OneActs, Arrivals
  <2>6. ASSUME NEW r \in Requests, req'[r].pc = "await"
        PROVE  "problems" \in tables'
    <3>1. CASE req'[r] = req[r]
      BY <1>2, <2>0, <2>6, <3>1 DEF WhileStanding
    <3>2. CASE CreateProblems(r)
      BY <1>0, <2>6, <3>2, EndsMoves DEF CreateProblems, Moved
    <3>. QED  BY <1>0, <2>6, <3>1, <3>2, OneActs, Arrivals
  <2>7. ASSUME outcome' = "ok" PROVE tables' = Tables
    <3>0. tables' \subseteq Tables
      BY TypedStep DEF Typed, TypeOK
    <3>1. CASE outcome' = outcome
      BY <1>2, <2>0, <2>7, <3>0, <3>1 DEF WhileStanding
    <3>2. ASSUME NEW r \in Requests, AwaitRanking(r) PROVE Tables \subseteq tables'
      <4>1. creation = "ok"
        BY <1>0, <1>2, <2>7, <3>2 DEF AwaitRanking, Unborn, Standing, TypeOK
      <4>. QED  BY <1>2, <2>0, <3>2, <4>1 DEF AwaitRanking, WhileStanding, Tables
    <3>3. ASSUME NEW r \in Requests, CreateSubmissions(r) \/ CreateProblems(r)
          PROVE  outcome' = outcome
      BY <2>7, <3>3 DEF CreateSubmissions, CreateProblems
    <3>. QED  BY <3>0, <3>1, <3>2, <3>3, Writers
  <2>. QED  BY <2>1, <2>2, <2>3, <2>4, <2>5, <2>6, <2>7 DEF WhileStanding
<1>. QED  BY <1>0, <1>1, <1>2, StoodBefore

-----------------------------------------------------------------------------
(* Problems and their columns. *)

\* The pids of the problems are those of before, unless a row was revived or
\* the problem is being added.
LEMMA PidsStay ==
  ASSUME Typed, Next, "revived" \notin upset', NEW p \in problems'
  PROVE  \/ \E q \in problems : q.pid = p.pid
         \/ /\ \E r \in Requests : Moved(r, "find") /\ req'[r].pid = p.pid
            /\ p.pid = lastPid + 1
<1>0. TypeOK
  BY DEF Typed
<1>1. ASSUME NEW r \in Requests, AddProblem(r), p \notin problems
      PROVE  Moved(r, "find") /\ req'[r].pid = p.pid /\ p.pid = lastPid + 1
  BY <1>0, <1>1, AddMoves
<1>2. ASSUME NEW r \in Requests, SaveProblem(r), p \notin problems
      PROVE  \E q \in problems : q.pid = p.pid
  <2>1. p.pid = req[r].pid /\ Row(req[r].pid) # {}
    BY <1>2 DEF SaveProblem, Upset
  <2>. QED  BY <2>1 DEF Row
<1>3. ASSUME NEW r \in Requests, UndoAdd(r) \/ DeleteProblem(r) \/ DropProblems(r)
      PROVE  p \in problems
  BY <1>3 DEF UndoAdd, DeleteProblem, DropProblems
<1>. QED  BY <1>1, <1>2, <1>3, Writers

\* No step leaves a problem that stands without its column.
LEMMA ColumnsStep ==
  ASSUME Typed, Unborn, WhileStanding, ColumnsFollow, Next
  PROVE  ColumnsFollow'
<1>. USE DEF At
<1>. DEFINE Added(n) == \E r \in Requests : /\ req'[r].pid = n
                                             /\ req'[r].pc \in {"find", "column", "undo"}
<1>0. TypeOK /\ upset \subseteq upset'
  BY HistoryGrows DEF Typed
<1>1. ASSUME "revived" \notin upset', NEW r \in Requests, req'[r].pc = "drop"
      PROVE  \A p \in problems' : p.pid # req'[r].pid
  <2>1. CASE req'[r] = req[r]
    <3>1. \A q \in problems : q.pid # req[r].pid
      BY <1>0, <1>1, <2>1 DEF ColumnsFollow, Row
    <3>2. req[r].pid <= lastPid /\ req[r].pid \in Nat /\ lastPid \in Nat
      BY DEF Typed, TypeOK, Request
    <3>. QED  BY <1>1, <2>1, <3>1, <3>2, PidsStay DEF Row
  <2>2. CASE DeleteProblem(r)
    <3>1. problems' = problems \ Row(req[r].pid) /\ Goes(r, "drop")
      BY <1>0, <1>1, <2>2, EndsMoves DEF DeleteProblem, Moved
    <3>2. req'[r].pid = req[r].pid
      BY <1>0, <3>1, GoesMoves DEF Same, Steps
    <3>. QED  BY <3>1, <3>2 DEF Row
  <2>. QED  BY <1>0, <1>1, <2>1, <2>2, OneActs, Arrivals
<1>2. ASSUME Standing', "undo" \notin upset', NEW p \in problems'
      PROVE  p.pid \in columns' \/ Added(p.pid)
  <2>1. CASE \E r \in Requests : InsertContest(r)
    BY <2>1 DEF InsertContest, Unborn
  <2>2. CASE Standing
    <3>0. "revived" \notin upset'
      BY <1>2 DEF Standing
    <3>1. CASE \E r \in Requests : Moved(r, "find") /\ req'[r].pid = p.pid
      BY <3>1 DEF Moved
    <3>2. ASSUME NEW q \in problems, q.pid = p.pid
          PROVE  p.pid \in columns' \/ Added(p.pid)
      <4>1. CASE p.pid \in columns
        <5>1. ASSUME NEW r \in Requests, DropColumn(r) PROVE req[r].pid # p.pid
          BY <1>0, <3>0, <3>2, <5>1 DEF DropColumn, ColumnsFollow, Row
        <5>2. \A r \in Requests : ~DropRanking(r)
          BY <1>0, <2>2, NothingTaken
        <5>. QED  BY <4>1, <5>1, <5>2, Writers
                  DEF AddColumn, DropColumn, RankingProblemAdd, RankingProblemDelete
      <4>2. ASSUME NEW r \in Requests, req[r].pid = p.pid, req[r].pc \in {"find", "column", "undo"}
            PROVE  p.pid \in columns' \/ Added(p.pid)
        <5>1. CASE req'[r] = req[r]
          BY <4>2, <5>1
        <5>2. CASE FindAdded(r)
          <6>1. Row(req[r].pid) # {}
            BY <3>2, <4>2 DEF Row
          <6>2. Goes(r, "column")
            BY <1>2, <5>2, <6>1 DEF FindAdded, Upset
          <6>. QED  BY <1>0, <4>2, <6>2, GoesMoves DEF Moved, Same, Steps
        <5>3. CASE AddColumn(r)
          <6>1. p.pid \in columns' \/ Goes(r, "undo")
            BY <4>2, <5>3 DEF AddColumn, Calls, RankingProblemAdd
          <6>. QED  BY <1>0, <4>2, <6>1, GoesMoves DEF Moved, Same, Steps
        <5>4. CASE UndoAdd(r)
          BY <1>2, <4>2, <5>4 DEF UndoAdd, Upset, Row
        <5>. QED  BY <1>0, <4>2, <5>1, <5>2, <5>3, <5>4, OneActs, Departures
      <4>. QED  BY <1>0, <1>2, <2>2, <3>2, <4>1, <4>2 DEF ColumnsFollow, Adding
    <3>. QED  BY <3>0, <3>1, <3>2, PidsStay
  <2>. QED  BY <1>0, <1>2, <2>1, <2>2, StoodBefore
<1>3. "revived" \notin upset' => (\A r \in Requests : At(r, "drop") => Row(req[r].pid) = {})'
  BY <1>1 DEF Row
<1>4. (Standing /\ "undo" \notin upset => \A p \in problems : p.pid \in columns \/ Adding(p.pid))'
  BY <1>2 DEF Adding
<1>. QED  BY <1>3, <1>4 DEF ColumnsFollow

-----------------------------------------------------------------------------
(* What a removal leaves. *)

\* No step leaves something of a removed contest that no removal is going to reach.
LEMMA RemovalStep ==
  ASSUME Typed, Unborn, RemovalGoesOn, Next
  PROVE  RemovalGoesOn'
<1>. USE DEF At
<1>0. TypeOK /\ upset \subseteq upset'
  BY HistoryGrows DEF Typed
<1>1. "ranking" \notin tables' => rankers' = {}
  <2>1. ASSUME NEW r \in Requests, DropRanking(r) PROVE "ranking" \notin tables' => rankers' = {}
    BY <2>1 DEF DropRanking, RankingDelete, RemovalGoesOn, ranking
  <2>2. ASSUME NEW r \in Requests, Rank(r) PROVE "ranking" \notin tables' => rankers' = {}
    BY <2>2 DEF Rank, Calls, RemovalGoesOn
  <2>. QED  BY <2>1, <2>2, Writers DEF RemovalGoesOn, PpjcNew, CreateSubmissions, CreateProblems,
              StoreSubmission, DropProblems, DropSubmissions, RankingAutoMigrate
<1>2. ASSUME contest' = "gone", upset' \cap {"left", "remove", "late", "revived"} = {}
      PROVE  /\ "ranking" \in tables' => SomeAt({"unranking"})'
             /\ "problems" \in tables' \/ problems' # {} => SomeAt({"unranking", "unproblems"})'
             /\ "submissions" \in tables' => SomeAt({"unranking", "unproblems", "unsubmissions"})'
             /\ joined' # {} => SomeAt(Removing)'
  <2>0. upset \cap {"left", "remove", "late", "revived"} = {}
    BY <1>0, <1>2
  <2>1. ASSUME NEW r \in Requests, DeleteContest(r) PROVE req'[r].pc = "unranking"
    BY <1>0, <2>1, GoesMoves DEF DeleteContest, Moved, Steps
  <2>2. CASE \E r \in Requests : DeleteContest(r)
    BY <2>1, <2>2 DEF SomeAt, Removing
  <2>3. CASE contest = "gone"
    <3>1. ASSUME NEW r \in Requests, DropRanking(r)
          PROVE  req'[r].pc = "unproblems" /\ "ranking" \notin tables'
      <4>1. "ranking" \notin tables'
        BY <1>2, <3>1 DEF DropRanking, RankingDelete, Upset
      <4>. QED  BY <1>0, <3>1, <4>1, GoesMoves DEF DropRanking, Moved, Steps
    <3>2. ASSUME NEW r \in Requests, DropProblems(r)
          PROVE  req'[r].pc = "unsubmissions" /\ "problems" \notin tables' /\ problems' = {}
      <4>1. "problems" \notin tables' /\ problems' = {}
        BY <1>2, <3>2 DEF DropProblems, Upset
      <4>. QED  BY <1>0, <3>2, <4>1, GoesMoves DEF DropProblems, Moved, Steps
    <3>3. ASSUME NEW r \in Requests, DropSubmissions(r)
          PROVE  req'[r].pc = "unjoin" /\ "submissions" \notin tables'
      <4>1. "submissions" \notin tables'
        BY <1>2, <3>3 DEF DropSubmissions, Upset
      <4>. QED  BY <1>0, <3>3, <4>1, GoesMoves DEF DropSubmissions, Moved, Steps
    <3>4. ASSUME NEW r \in Requests, RemoveJoined(r) PROVE joined' = {}
      BY <1>2, <3>4 DEF RemoveJoined, Upset
    <3>5. /\ tables' \subseteq tables
          /\ joined' \subseteq joined
          /\ problems' # {} => problems # {}
      <4>1. ~PpjcNew \/ tables' = tables
        BY <1>2, <2>3 DEF PpjcNew, Upset, Late
      <4>2. ASSUME NEW r \in Requests PROVE ~CreateSubmissions(r)
        BY <2>3 DEF CreateSubmissions, Unborn
      <4>3. ASSUME NEW r \in Requests, CreateProblems(r) \/ StoreSubmission(r) PROVE tables' = tables
        BY <1>2, <2>3, <4>3 DEF CreateProblems, StoreSubmission, Upset, Late
      <4>4. ASSUME NEW r \in Requests, Enrol(r) PROVE joined' = joined
        BY <1>2, <2>3, <4>4 DEF Enrol, Upset, Late
      <4>5. ASSUME NEW r \in Requests, AddProblem(r) PROVE problems' = problems
        BY <1>2, <2>3, <4>5 DEF AddProblem, Upset, Late
      <4>6. ASSUME NEW r \in Requests, SaveProblem(r) PROVE problems' # {} => problems # {}
        BY <1>2, <4>6 DEF SaveProblem, Upset, Row
      <4>7. tables' \subseteq tables
        BY <4>1, <4>2, <4>3, Writers DEF DropRanking, DropProblems, DropSubmissions, RankingDelete
      <4>8. joined' \subseteq joined
        BY <4>4, Writers DEF RemoveJoined
      <4>9. problems' # {} => problems # {}
        BY <4>5, <4>6, Writers DEF UndoAdd, DeleteProblem, DropProblems
      <4>. QED  BY <4>7, <4>8, <4>9
    <3>6. /\ "ranking" \in tables => SomeAt({"unranking"})
          /\ "problems" \in tables \/ problems # {} => SomeAt({"unranking", "unproblems"})
          /\ "submissions" \in tables => SomeAt({"unranking", "unproblems", "unsubmissions"})
          /\ joined # {} => SomeAt(Removing)
      BY <2>0, <2>3 DEF RemovalGoesOn
    <3>7. \A r \in Requests : req[r].pc \in Removing =>
            req'[r] = req[r] \/ DropRanking(r) \/ DropProblems(r) \/ DropSubmissions(r) \/ RemoveJoined(r)
      BY <1>0, OneActs, Departures DEF Removing
    <3>. USE DEF SomeAt, Removing
    <3>8. "ranking" \in tables' => SomeAt({"unranking"})'
      BY <3>1, <3>5, <3>6, <3>7 DEF DropProblems, DropSubmissions, RemoveJoined
    <3>9. "problems" \in tables' \/ problems' # {} => SomeAt({"unranking", "unproblems"})'
      BY <3>1, <3>2, <3>5, <3>6, <3>7 DEF DropSubmissions, RemoveJoined
    <3>10. "submissions" \in tables' => SomeAt({"unranking", "unproblems", "unsubmissions"})'
      BY <3>1, <3>2, <3>3, <3>5, <3>6, <3>7 DEF RemoveJoined
    <3>11. joined' # {} => SomeAt(Removing)'
      BY <3>1, <3>2, <3>3, <3>4, <3>5, <3>6, <3>7
    <3>. QED  BY <3>8, <3>9, <3>10, <3>11
  <2>4. CASE contest # "gone" /\ \A r \in Requests : ~DeleteContest(r)
    <3>1. ASSUME NEW r \in Requests, CreateSubmissions(r) \/ InsertContest(r) \/ UpdateContest(r)
          PROVE  contest' # "gone"
      BY <1>2, <2>4, <3>1 DEF CreateSubmissions, InsertContest, UpdateContest, Upset
    <3>. QED  BY <1>2, <2>4, <3>1, Writers
  <2>. QED  BY <2>2, <2>3, <2>4
<1>. QED  BY <1>1, <1>2 DEF RemovalGoesOn

-----------------------------------------------------------------------------
(* The theorems. *)

\* At the start there is no contest.
LEMMA InitIInv == Init => IInv
  BY DEF Init, IInv, Typed, TypeOK, Unborn, WhileStanding, Standing, ColumnsFollow, RemovalGoesOn,
     SomeAt, Removing, At, Idle, Request, Steps, Tables, Upsets, Problems

\* The parts of the invariant, each kept with the help of those before it.
LEMMA NextIInv == IInv /\ [Next]_vars => IInv'
<1>1. ASSUME IInv, Next PROVE IInv'
  BY <1>1, TypedStep, UnbornStep, StandingStep, ColumnsStep, RemovalStep DEF IInv
<1>2. ASSUME IInv, UNCHANGED vars PROVE IInv'
  BY <1>2 DEF IInv, vars, Typed, TypeOK, Unborn, WhileStanding, Standing, ColumnsFollow,
     RemovalGoesOn, SomeAt, At, Row, Adding
<1>. QED  BY <1>1, <1>2

\* So the invariant always holds.
LEMMA SpecIInv == Spec => []IInv
  BY InitIInv, NextIInv, PTL DEF Spec

\* TypeOK, for any requests: no step of one writes a row, a column or a request
\* record that the code could not read back.
THEOREM TypeCorrect == Spec => []TypeOK
<1>1. IInv => TypeOK
  BY DEF IInv, Typed
<1>. QED  BY <1>1, SpecIInv, PTL

\* ProblemsHaveColumns: a problem has its column in the ranking table unless the
\* request that makes it (ContestProblemAdd and its call of ppjc) is still at it.
THEOREM ProblemsKeepColumns == Spec => []ProblemsHaveColumns
<1>1. IInv => ProblemsHaveColumns
  BY DEF IInv, ColumnsFollow, ProblemsHaveColumns, Standing
<1>. QED  BY <1>1, SpecIInv, PTL

\* RankedAreJoined: /join inserts the participation before it asks ppjc for the
\* row of the ranking, so the ranking shows nobody who does not take part.
THEOREM RankedTakePart == Spec => []RankedAreJoined
<1>1. IInv => RankedAreJoined
  BY DEF IInv, WhileStanding, RankedAreJoined, Standing
<1>. QED  BY <1>1, SpecIInv, PTL

\* CreatedIsComplete: ContestAdd answers only when ppjc has, so the creator who is
\* told that the contest is there has all its tables.
THEOREM CreationIsComplete == Spec => []CreatedIsComplete
<1>1. IInv => CreatedIsComplete
  BY DEF IInv, WhileStanding, CreatedIsComplete, Standing
<1>. QED  BY <1>1, SpecIInv, PTL

\* GoneIsEmpty: when every request has ended, a removal has left nothing, unless
\* one of its steps failed or another request made something behind its back.
THEOREM RemovalIsComplete == Spec => []GoneIsEmpty
<1>1. IInv => GoneIsEmpty
  BY DEF IInv, Typed, TypeOK, Tables, RemovalGoesOn, GoneIsEmpty, SomeAt, Quiet, Removing, At
<1>. QED  BY <1>1, SpecIInv, PTL
=============================================================================
