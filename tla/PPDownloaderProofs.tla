-------------------------- MODULE PPDownloaderProofs --------------------------
(***************************************************************************)
(* The reference counts of the file cache of a worker, for any number of    *)
(* jobs, names, files and cache hits: a name that is cached has at least as *)
(* many references as jobs hold it or read its file, and a name that is not *)
(* cached has no user.  The second half makes the invariant inductive: a    *)
(* name that comes to be registered, with no reference, has nobody who      *)
(* could give one back.                                                     *)
(***************************************************************************)
EXTENDS PPDownloader, FiniteSetTheorems, TLAPS

\* What the proof needs to know of the types.
Shapes ==
  /\ DOMAIN counter \subseteq Names /\ counter \in [DOMAIN counter -> Int]
  /\ \A u \in Users : job[u].name \in Names
  /\ DOMAIN job = Users /\ DOMAIN reader = Users
  /\ \A u \in Users : DOMAIN job[u] = {"pc", "name", "path"}

Used(n) == Cardinality(Holders(n)) + Cardinality(Readers(n))

Covered(n) ==
  /\ n \in Cached => counter[n] >= Used(n)
  /\ n \notin Cached => Holders(n) = {} /\ Readers(n) = {}

UseInv == Shapes /\ \A n \in Names : Covered(n)

\* The users of a name are finitely many, before a step and after it.
LEMMA UsersFinite ==
  ASSUME NEW n
  PROVE  /\ IsFiniteSet(Holders(n)) /\ IsFiniteSet(Readers(n))
         /\ Cardinality(Holders(n)) \in Nat /\ Cardinality(Readers(n)) \in Nat
         /\ Used(n) \in Nat /\ Used(n)' \in Nat
<1>1. ASSUME NEW T \in SUBSET Users PROVE IsFiniteSet(T) /\ Cardinality(T) \in Nat
  BY PPDownloaderAssumption, FS_Subset, FS_CardinalityType DEF PPDownloaderAssumption
<1>2. Holders(n) \in SUBSET Users /\ Readers(n) \in SUBSET Users
  BY DEF Holders, Readers
<1>3. Holders(n)' \in SUBSET Users /\ Readers(n)' \in SUBSET Users
  BY DEF Holders, Readers
<1>. QED  BY <1>1, <1>2, <1>3 DEF Used

\* counter[n] += k changes the count of n only.
LEMMA PlusType ==
  ASSUME Shapes, NEW n, NEW k \in Int, counter' = Plus(counter, n, k)
  PROVE  /\ DOMAIN counter' = Cached \cup {n}
         /\ counter' \in [Cached \cup {n} -> Int]
         /\ \A x \in Cached : /\ counter[x] \in Int
                              /\ counter'[x] = IF x = n THEN counter[x] + k
                                                        ELSE counter[x]
         /\ n \notin Cached => counter'[n] = k
<1>1. \A x \in Cached : counter[x] \in Int
  BY DEF Shapes, Cached
<1>2. DOMAIN counter' = Cached \cup {n}
  BY DEF Plus, Cached
<1>3. \A x \in Cached : counter'[x] = IF x = n THEN counter[x] + k ELSE counter[x]
  BY <1>1 DEF Plus, Cached
<1>4. n \notin Cached => counter'[n] = k
  BY DEF Plus, Cached
<1>5. counter' \in [Cached \cup {n} -> Int]
  BY <1>1 DEF Plus, Cached
<1>. QED  BY <1>1, <1>2, <1>3, <1>4, <1>5

-----------------------------------------------------------------------------
(* How the users of a name change. *)

\* Job u goes on without taking or giving back a lock, or its name.
LEMMA JobAside ==
  ASSUME Shapes, NEW u \in Users, NEW n,
         \A v \in Users \ {u} : job'[v] = job[v] /\ reader'[v] = reader[v],
         job[u].pc # "held" /\ job'[u].pc # "held",
         \/ job'[u].name = job[u].name /\ reader'[u] = reader[u]
         \/ reader[u] = "none" /\ reader'[u] = "none"
  PROVE  Holders(n)' = Holders(n) /\ Readers(n)' = Readers(n)
  BY DEF Holders, Readers

\* One user more, one user less.
LEMMA OneMore ==
  ASSUME NEW S, NEW T, IsFiniteSet(S), NEW u, u \notin S, T = S \cup {u}
  PROVE  Cardinality(T) = Cardinality(S) + 1
  BY FS_AddElement, FS_CardinalityType

\* A finite set without one of its elements.
LEMMA OneLess ==
  ASSUME NEW S, NEW T, IsFiniteSet(S), NEW u \in S, T = S \ {u}
  PROVE  Cardinality(T) = Cardinality(S) - 1
  BY FS_RemoveElement, FS_CardinalityType

-----------------------------------------------------------------------------
(* The steps. *)

\* The steps that leave the counters alone.
Quiet(u) ==
  \/ FetchFails(u) \/ CopyFails(u) \/ Fetch(u) \/ Judged(u) \/ Opens(u)
  \/ \E n \in Names : Miss(u, n)

\* Hit and Miss begin with a name, the other steps of a job keep it.
LEMMA QuietStep ==
  ASSUME UseInv, NEW u \in Users, Quiet(u)
  PROVE  UseInv'
<1>1. counter' = counter
  BY DEF Quiet, FetchFails, CopyFails, Fetch, Judged, Opens, Miss, Maps, Panic
<1>2. \A v \in Users \ {u} : job'[v] = job[v] /\ reader'[v] = reader[v]
  BY DEF Quiet, FetchFails, CopyFails, Fetch, Judged, Opens, Miss, Panic, UseInv, Shapes
<1>3. /\ DOMAIN job' = Users /\ DOMAIN reader' = Users
      /\ DOMAIN job'[u] = {"pc", "name", "path"} /\ job'[u].name \in Names
  BY DEF Quiet, FetchFails, CopyFails, Fetch, Judged, Opens, Miss, Panic, UseInv, Shapes
<1>4. Shapes'
  BY <1>1, <1>2, <1>3 DEF Shapes, UseInv
<1>5. ASSUME NEW n \in Names
      PROVE  Holders(n)' = Holders(n) /\ Readers(n)' = Readers(n)
  <2>1. CASE FetchFails(u) \/ CopyFails(u) \/ Fetch(u)
    BY <1>2, <2>1, JobAside DEF FetchFails, CopyFails, Fetch, UseInv, Shapes
  <2>2. CASE \E m \in Names : Miss(u, m)
    BY <1>2, <2>2, JobAside DEF Miss, CanStart, UseInv, Shapes
  <2>3. CASE Judged(u)
    BY <1>2, <2>3 DEF Judged, UseInv, Shapes, Holders, Readers
  <2>4. CASE Opens(u)
    BY <1>2, <2>4 DEF Opens, Panic, UseInv, Shapes, Holders, Readers
  <2>. QED  BY <2>1, <2>2, <2>3, <2>4 DEF Quiet
<1>6. \A n \in Names : Covered(n)'
  BY <1>1, <1>5 DEF UseInv, Covered, Used, Cached
<1>. QED  BY <1>4, <1>6 DEF UseInv

\* A step of job u that counts k references of the name m it has, and has at
\* most k users of m more.
Counts(u, m, k) ==
  /\ m \in Cached /\ counter' = Plus(counter, m, k)
  /\ \A n \in Names \ {m} : Holders(n)' = Holders(n) /\ Readers(n)' = Readers(n)
  /\ Used(m)' <= Used(m) + k
  /\ DOMAIN job' = Users /\ DOMAIN reader' = Users
  /\ \A v \in Users \ {u} : job'[v] = job[v]
  /\ DOMAIN job'[u] = {"pc", "name", "path"} /\ job'[u].name \in Names

\* Such a step keeps the counter ahead of the users.
LEMMA CountsStep ==
  ASSUME UseInv, NEW u \in Users, NEW m \in Names, NEW k \in Int, Counts(u, m, k)
  PROVE  UseInv'
<1>1. /\ DOMAIN counter' = Cached \cup {m}
      /\ counter' \in [Cached \cup {m} -> Int]
      /\ \A x \in Cached : /\ counter[x] \in Int
                           /\ counter'[x] = IF x = m THEN counter[x] + k
                                                     ELSE counter[x]
  <2>1. Shapes /\ counter' = Plus(counter, m, k)
    BY DEF UseInv, Counts
  <2>. QED  BY <2>1, PlusType, Zenon
<1>2. Cached \cup {m} = Cached
  BY DEF Counts
<1>3. Cached' = Cached
  BY <1>1, <1>2 DEF Cached
<1>4. Shapes'
  BY <1>1, <1>2 DEF Counts, UseInv, Shapes, Cached
<1>5. ASSUME NEW n \in Names PROVE Covered(n)'
  <2>1. Covered(n) /\ Used(n) \in Int /\ Used(n)' \in Int
    BY UsersFinite DEF UseInv, Used
  <2>2. CASE n = m
    BY <1>1, <1>3, <2>1, <2>2 DEF Counts, Covered
  <2>3. CASE n # m
    <3>1. Holders(n)' = Holders(n) /\ Readers(n)' = Readers(n) /\ Used(n)' = Used(n)
      BY <2>3 DEF Counts, Used
    <3>. QED  BY <1>1, <1>3, <2>1, <2>3, <3>1 DEF Covered
  <2>. QED  BY <2>2, <2>3
<1>. QED  BY <1>4, <1>5 DEF UseInv

\* A cache hit counts a reference that nobody gives back.
LEMMA HitStep ==
  ASSUME UseInv, NEW u \in Users, NEW m \in Names, Hit(u, m)
  PROVE  UseInv'
<1>1. \A n : Holders(n)' = Holders(n) /\ Readers(n)' = Readers(n)
  BY JobAside DEF Hit, CanStart, UseInv, Shapes
<1>2. Used(m) \in Nat /\ Used(m)' = Used(m)
  BY <1>1, UsersFinite DEF Used
<1>3. Counts(u, m, 1)
  BY <1>1, <1>2 DEF Counts, Hit, UseInv, Shapes
<1>. QED  BY <1>3, CountsStep

\* The first to register a name finds no user of it; the others find it cached.
LEMMA RegisterStep ==
  ASSUME UseInv, NEW u \in Users, Register(u)
  PROVE  UseInv'
<1> DEFINE m == job[u].name
<1>1. /\ \A v \in Users \ {u} : job'[v] = job[v] /\ reader'[v] = reader[v]
      /\ job'[u].name = m /\ reader'[u] = reader[u]
      /\ job[u].pc = "fetched" /\ job'[u].pc = "located"
      /\ DOMAIN job'[u] = {"pc", "name", "path"}
      /\ DOMAIN job' = Users /\ DOMAIN reader' = Users
  BY DEF Register, RegisterFirst, Adopt, UseInv, Shapes
<1>2. \A n : Holders(n)' = Holders(n) /\ Readers(n)' = Readers(n)
  BY <1>1, JobAside DEF UseInv
<1>3. \A n \in Names : Used(n)' = Used(n)
  BY <1>2 DEF Used
<1>4. m \in Names
  BY DEF UseInv, Shapes
<1>5. CASE RegisterFirst(u)
  <2>1. counter' = Plus(counter, m, 0) /\ m \notin Cached
    BY <1>5 DEF RegisterFirst
  <2>0. Shapes /\ 0 \in Int
    BY DEF UseInv
  <2>2. /\ DOMAIN counter' = Cached \cup {m}
        /\ counter' \in [Cached \cup {m} -> Int]
        /\ \A x \in Cached : /\ counter[x] \in Int
                             /\ counter'[x] = IF x = m THEN counter[x] + 0
                                                       ELSE counter[x]
        /\ counter'[m] = 0
    BY <2>0, <2>1, PlusType, Zenon
  <2>3. Shapes'
    BY <1>1, <1>4, <2>2 DEF UseInv, Shapes, Cached
  <2>4. Used(m) = 0
    <3>1. Holders(m) = {} /\ Readers(m) = {}
      BY <1>4, <2>1 DEF UseInv, Covered
    <3>. QED  BY <3>1, FS_EmptySet DEF Used
  <2>5. \A x \in Cached : x # m /\ counter'[x] = counter[x]
    BY <2>1, <2>2
  <2>6. \A n \in Names : Covered(n)'
    BY <1>2, <1>3, <2>2, <2>4, <2>5 DEF UseInv, Covered, Cached
  <2>. QED  BY <2>3, <2>6 DEF UseInv
<1>6. CASE Adopt(u)
  <2>1. counter' = counter
    BY <1>6 DEF Adopt, Maps
  <2>2. Shapes'
    BY <1>1, <1>4, <2>1 DEF UseInv, Shapes
  <2>3. \A n \in Names : Covered(n)'
    BY <1>2, <1>3, <2>1 DEF UseInv, Covered, Cached
  <2>. QED  BY <2>2, <2>3 DEF UseInv
<1>. QED  BY <1>5, <1>6 DEF Register

\* A lock is a reference and a holder, or there is neither.
LEMMA LockStep ==
  ASSUME UseInv, NEW u \in Users, Lock(u)
  PROVE  UseInv'
<1> DEFINE m == job[u].name
<1>1. /\ m \in Names /\ reader' = reader /\ job[u].pc = "located"
      /\ \A v \in Users \ {u} : job'[v] = job[v]
      /\ job'[u].name = m /\ DOMAIN job'[u] = {"pc", "name", "path"}
      /\ DOMAIN job' = Users
  BY DEF Lock, UseInv, Shapes
<1>2. CASE m \notin Cached
  <2>1. counter' = counter /\ job'[u].pc = "done"
    BY <1>2 DEF Lock, UseInv, Shapes
  <2>2. \A n : Holders(n)' = Holders(n) /\ Readers(n)' = Readers(n)
    BY <1>1, <2>1, JobAside DEF UseInv
  <2>3. Shapes'
    BY <1>1, <2>1 DEF UseInv, Shapes
  <2>4. \A n \in Names : Covered(n)'
    BY <2>1, <2>2 DEF UseInv, Covered, Used, Cached
  <2>. QED  BY <2>3, <2>4 DEF UseInv
<1>3. CASE m \in Cached
  <2>1. counter' = Plus(counter, m, 1) /\ job'[u].pc = "held"
    BY <1>3 DEF Lock, UseInv, Shapes
  <2>2. \A n \in Names \ {m} : Holders(n)' = Holders(n) /\ Readers(n)' = Readers(n)
    BY <1>1, <2>1 DEF Holders, Readers
  <2>3. /\ Holders(m)' = Holders(m) \cup {u} /\ u \notin Holders(m)
        /\ Readers(m)' = Readers(m)
    BY <1>1, <2>1 DEF Holders, Readers
  <2>4. Cardinality(Holders(m)') = Cardinality(Holders(m)) + 1
    BY <2>3, UsersFinite, OneMore
  <2>5. Used(m)' <= Used(m) + 1
    BY <2>3, <2>4, UsersFinite DEF Used
  <2>6. Counts(u, m, 1)
    BY <1>1, <1>3, <2>1, <2>2, <2>5 DEF Counts, UseInv, Shapes
  <2>. QED  BY <1>1, <2>6, CountsStep
<1>. QED  BY <1>2, <1>3

\* Unlock gives back the reference of its lock.
LEMMA UnlockStep ==
  ASSUME UseInv, NEW u \in Users, Unlock(u)
  PROVE  UseInv'
<1> DEFINE m == job[u].name
<1>1. /\ m \in Names /\ reader' = reader /\ job[u].pc = "held"
      /\ \A v \in Users \ {u} : job'[v] = job[v]
      /\ job'[u].name = m /\ DOMAIN job'[u] = {"pc", "name", "path"}
      /\ DOMAIN job' = Users /\ job'[u].pc = "done"
      /\ counter' = Plus(counter, m, -1)
  BY DEF Unlock, UseInv, Shapes
<1>2. u \in Holders(m)
  BY <1>1 DEF Holders
<1>3. m \in Cached
  BY <1>1, <1>2 DEF UseInv, Covered
<1>4. \A n \in Names \ {m} : Holders(n)' = Holders(n) /\ Readers(n)' = Readers(n)
  BY <1>1 DEF Holders, Readers
<1>5. Holders(m)' = Holders(m) \ {u} /\ Readers(m)' = Readers(m)
  BY <1>1 DEF Holders, Readers
<1>6. Cardinality(Holders(m)') = Cardinality(Holders(m)) - 1
  BY <1>2, <1>5, UsersFinite, OneLess
<1>7. Used(m)' <= Used(m) + (-1)
  BY <1>5, <1>6, UsersFinite DEF Used
<1>8. Counts(u, m, -1)
  BY <1>1, <1>3, <1>4, <1>7 DEF Counts, UseInv, Shapes
<1>. QED  BY <1>1, <1>8, CountsStep

\* OpenFile counts its reference in the section that looks the name up; without
\* an entry the worker panics and nothing is counted.
LEMMA OpenFileStep ==
  ASSUME UseInv, NEW u \in Users, OpenFile(u)
  PROVE  UseInv'
<1> DEFINE m == job[u].name
<1>1. m \in Names
  BY DEF UseInv, Shapes
<1>2. CASE m \notin Cached
  <2>1. UNCHANGED <<counter, job, reader>>
    BY <1>2 DEF OpenFile, Panic, Maps
  <2>. QED  BY <2>1 DEF UseInv, Shapes, Covered, Used, Cached, Holders, Readers
<1>3. CASE m \in Cached
  <2>1. /\ counter' = Plus(counter, m, 1)
        /\ reader[u] = "due" /\ reader' = [reader EXCEPT ![u] = "opening"]
        /\ job' = [job EXCEPT ![u].path = file[m]]
    BY <1>3 DEF OpenFile
  <2>2. /\ \A v \in Users \ {u} : job'[v] = job[v] /\ reader'[v] = reader[v]
        /\ job'[u].name = m /\ job'[u].pc = job[u].pc /\ reader'[u] = "opening"
        /\ DOMAIN job'[u] = {"pc", "name", "path"}
        /\ DOMAIN job' = Users /\ DOMAIN reader' = Users
    BY <2>1 DEF UseInv, Shapes
  <2>3. \A n \in Names \ {m} : Holders(n)' = Holders(n) /\ Readers(n)' = Readers(n)
    BY <2>2 DEF Holders, Readers
  <2>4. /\ Readers(m)' = Readers(m) \cup {u} /\ u \notin Readers(m)
        /\ Holders(m)' = Holders(m)
    BY <2>1, <2>2 DEF Holders, Readers
  <2>5. Cardinality(Readers(m)') = Cardinality(Readers(m)) + 1
    BY <2>4, UsersFinite, OneMore
  <2>6. Used(m)' <= Used(m) + 1
    BY <2>4, <2>5, UsersFinite DEF Used
  <2>7. Counts(u, m, 1)
    BY <1>1, <1>3, <2>1, <2>2, <2>3, <2>6 DEF Counts
  <2>. QED  BY <1>1, <2>7, CountsStep
<1>. QED  BY <1>2, <1>3

\* Close gives back the reference of its OpenFile.
LEMMA CloseStep ==
  ASSUME UseInv, NEW u \in Users, Close(u)
  PROVE  UseInv'
<1> DEFINE m == job[u].name
<1>1. /\ m \in Names /\ job' = job /\ DOMAIN job[u] = {"pc", "name", "path"}
      /\ \A v \in Users \ {u} : reader'[v] = reader[v]
      /\ reader[u] = "open" /\ reader'[u] = "none"
      /\ DOMAIN job' = Users /\ DOMAIN reader' = Users
      /\ counter' = Plus(counter, m, -1)
  BY DEF Close, UseInv, Shapes
<1>2. u \in Readers(m)
  BY <1>1 DEF Readers
<1>3. m \in Cached
  BY <1>1, <1>2 DEF UseInv, Covered
<1>4. \A n \in Names \ {m} : Holders(n)' = Holders(n) /\ Readers(n)' = Readers(n)
  BY <1>1 DEF Holders, Readers
<1>5. Readers(m)' = Readers(m) \ {u} /\ Holders(m)' = Holders(m)
  BY <1>1 DEF Holders, Readers
<1>6. Cardinality(Readers(m)') = Cardinality(Readers(m)) - 1
  BY <1>2, <1>5, UsersFinite, OneLess
<1>7. Used(m)' <= Used(m) + (-1)
  BY <1>5, <1>6, UsersFinite DEF Used
<1>8. Counts(u, m, -1)
  BY <1>1, <1>3, <1>4, <1>7 DEF Counts
<1>. QED  BY <1>1, <1>8, CountsStep

\* The deleter forgets names whose counter is 0, which have no user.
LEMMA SweepStep ==
  ASSUME UseInv, Sweep
  PROVE  UseInv'
<1>1. counter' = Restrict(counter, Cached \ Targets) /\ job' = job /\ reader' = reader
  BY DEF Sweep
<1>2. /\ Cached' = Cached \ Targets
      /\ counter' \in [Cached \ Targets -> Int]
      /\ \A x \in Cached \ Targets : counter'[x] = counter[x]
  BY <1>1 DEF Restrict, Cached, UseInv, Shapes
<1>3. Shapes'
  BY <1>1, <1>2 DEF UseInv, Shapes, Cached
<1>4. \A n : Holders(n)' = Holders(n) /\ Readers(n)' = Readers(n) /\ Used(n)' = Used(n)
  BY <1>1 DEF Holders, Readers, Used
<1>5. ASSUME NEW n \in Names PROVE Covered(n)'
  <2>1. CASE n \in Cached /\ n \in Targets
    <3>1. counter[n] = 0 /\ Covered(n)
      BY <2>1 DEF Targets, UseInv
    <3>2. Cardinality(Holders(n)) = 0 /\ Cardinality(Readers(n)) = 0
      BY <2>1, <3>1, UsersFinite DEF Covered, Used
    <3>3. Holders(n) = {} /\ Readers(n) = {}
      BY <3>2, UsersFinite, FS_EmptySet
    <3>. QED  BY <1>2, <1>4, <2>1, <3>3 DEF Covered
  <2>2. CASE ~(n \in Cached /\ n \in Targets)
    BY <1>2, <1>4, <2>2 DEF Covered, UseInv
  <2>. QED  BY <2>1, <2>2
<1>. QED  BY <1>3, <1>5 DEF UseInv

\* A worker begins with an empty cache that nobody uses.
LEMMA UseInit == Init => UseInv
<1> SUFFICES ASSUME Init PROVE UseInv
  OBVIOUS
<1>1. /\ counter = [n \in {} |-> 0] /\ reader = [u \in Users |-> "none"]
      /\ \E n \in Names : job = [u \in Users |-> [pc |-> "idle", name |-> n, path |-> 0]]
  BY DEF Init, Empty
<1>2. Shapes
  BY <1>1 DEF Shapes
<1>3. \A n \in Names : Holders(n) = {} /\ Readers(n) = {} /\ n \notin Cached
  BY <1>1 DEF Holders, Readers, Cached
<1>. QED  BY <1>2, <1>3 DEF UseInv, Covered

\* So does one that is started again.
LEMMA RestartStep ==
  ASSUME UseInv, Restart
  PROVE  UseInv'
<1>1. /\ counter' = [n \in {} |-> 0] /\ reader' = [u \in Users |-> "none"]
      /\ job' = [u \in Users |-> [job[u] EXCEPT !.pc = "idle", !.path = 0]]
  BY DEF Restart
<1>2. Shapes'
  BY <1>1 DEF UseInv, Shapes
<1>3. \A n \in Names : Holders(n)' = {} /\ Readers(n)' = {} /\ n \notin Cached'
  BY <1>1 DEF Holders, Readers, Cached, UseInv, Shapes
<1>. QED  BY <1>2, <1>3 DEF UseInv, Covered

\* Every step keeps the counters ahead of the users: one case per action.
LEMMA UseStep == UseInv /\ [Next]_vars => UseInv'
<1> SUFFICES ASSUME UseInv, [Next]_vars PROVE UseInv'
  OBVIOUS
<1>1. ASSUME NEW u \in Users,
             \/ \E n \in Names : Hit(u, n) \/ Miss(u, n)
             \/ FetchFails(u) \/ CopyFails(u) \/ Fetch(u) \/ Register(u)
             \/ Lock(u) \/ Unlock(u) \/ Judged(u) \/ OpenFile(u) \/ Opens(u)
             \/ Close(u)
      PROVE  UseInv'
  BY <1>1, QuietStep, HitStep, RegisterStep, LockStep, UnlockStep, OpenFileStep,
    CloseStep DEF Quiet
<1>2. CASE UNCHANGED <<counter, job, reader>>
  BY <1>2 DEF UseInv, Shapes, Covered, Used, Cached, Holders, Readers
<1>3. CASE \E n \in Names : Expire(n)
  BY <1>2, <1>3 DEF Expire
<1>4. CASE \E f \in Files : RemoveFile(f)
  BY <1>2, <1>4 DEF RemoveFile, Maps
<1>5. CASE UNCHANGED vars
  BY <1>2, <1>5 DEF vars
<1>. QED  BY <1>1, <1>3, <1>4, <1>5, SweepStep, RestartStep DEF Next

\* Whatever the jobs and the deleter do in whatever order, an entry of the cache
\* that somebody holds or reads has a reference for each of them, so the
\* deleter never takes it.
THEOREM CounterAlwaysCoversUse == Spec => []CounterCoversUse
<1>1. UseInv => CounterCoversUse
  BY DEF UseInv, Covered, Used, CounterCoversUse
<1>. QED  BY <1>1, UseInit, UseStep, PTL DEF Spec

-----------------------------------------------------------------------------
(***************************************************************************)
(* The files.  What is cached is in the directory and not about to be       *)
(* removed, a file that was fetched is its job's own until it is            *)
(* registered, and a job that has located a file keeps its entry: the       *)
(* expiry cannot have passed (AtHand) or the job is counted (UseInv).       *)
(***************************************************************************)
FileTypes ==
  /\ file \in [Cached -> Int] /\ made \in Nat /\ expired \subseteq Cached
  /\ DOMAIN disk \subseteq 1 .. made /\ doomed \subseteq DOMAIN disk
  /\ \A u \in Users : job[u].path \in Int
  /\ \A u \in Users : reader[u] # "none" => job[u].pc \in {"held", "done"}

CachedOnDisk ==
  \A n \in Cached : file[n] \in DOMAIN disk \ doomed /\ disk[file[n]] = n

Fetched(u) == job[u].pc = "fetched"
FetchedApart ==
  \A u \in Users : Fetched(u) =>
    /\ job[u].path \in DOMAIN disk \ doomed /\ disk[job[u].path] = job[u].name
    /\ \A n \in Cached : file[n] # job[u].path
    /\ \A v \in Users \ {u} : Fetched(v) => job[v].path # job[u].path

Located ==
  \A u \in Users : job[u].pc \in {"located", "held"} /\ job[u].name \notin slow =>
    job[u].name \in Cached /\ file[job[u].name] = job[u].path

AtHand == \A n \in Names : InDownload(n) /\ n \notin slow => n \notin expired

FileInv == FileTypes /\ CachedOnDisk /\ FetchedApart /\ Located /\ AtHand /\ DiskAccounted

\* A worker begins with an empty directory.
LEMMA FileInitially == Init => FileInv
<1> SUFFICES ASSUME Init PROVE FileInv
  OBVIOUS
<1>1. /\ counter = [n \in {} |-> 0] /\ file = [n \in {} |-> 0] /\ expired = {}
      /\ disk = [f \in {} |-> 0] /\ doomed = {} /\ made = 0 /\ slow = {}
      /\ reader = [u \in Users |-> "none"]
      /\ \E n \in Names : job = [u \in Users |-> [pc |-> "idle", name |-> n, path |-> 0]]
  BY DEF Init, Empty
<1>2. Cached = {} /\ DOMAIN disk = {}
  BY <1>1 DEF Cached
<1>3. \A u \in Users : job[u].pc = "idle" /\ job[u].path = 0
  BY <1>1
<1>. QED
  BY <1>1, <1>2, <1>3 DEF FileInv, FileTypes, CachedOnDisk, FetchedApart, Fetched,
    Located, AtHand, InDownload, DiskAccounted

\* Job u takes its lock, ends, or has its reader go on: it keeps its name and
\* path, and nothing else has to do with files.
Calm(u) ==
  /\ UNCHANGED <<file, made, expired, disk, doomed, broken, slow>>
  /\ Cached' = Cached
  /\ \A v \in Users \ {u} : job'[v] = job[v] /\ reader'[v] = reader[v]
  /\ job'[u].name = job[u].name /\ job'[u].path = job[u].path
  /\ \/ job'[u].pc = job[u].pc
     \/ job[u].pc = "located" /\ job'[u].pc = "held"
     \/ job[u].pc # "fetched" /\ job'[u].pc = "done"
  /\ reader'[u] # "none" => job'[u].pc \in {"held", "done"}

\* A step of a user who gets and gives no file keeps the invariant of the files.
LEMMA CalmFiles ==
  ASSUME FileInv, NEW u \in Users, Calm(u)
  PROVE  FileInv'
<1>1. \A v \in Users : /\ job'[v].name = job[v].name /\ job'[v].path = job[v].path
                       /\ \/ job'[v].pc = job[v].pc
                          \/ job[v].pc = "located" /\ job'[v].pc = "held"
                          \/ job[v].pc # "fetched" /\ job'[v].pc = "done"
  BY DEF Calm
<1>2. FileTypes'
  BY <1>1 DEF Calm, FileInv, FileTypes
<1>3. CachedOnDisk' /\ FetchedApart'
  BY <1>1 DEF Calm, FileInv, CachedOnDisk, FetchedApart, Fetched
<1>4. Located' /\ AtHand'
  BY <1>1 DEF Calm, FileInv, Located, AtHand, InDownload
<1>5. DiskAccounted'
  <2>1. \A v \in Users : job[v].pc = "fetched" =>
           job'[v].pc = "fetched" /\ job'[v].path = job[v].path
    BY <1>1
  <2>. QED  BY <2>1 DEF Calm, FileInv, DiskAccounted, Range
<1>. QED  BY <1>2, <1>3, <1>4, <1>5 DEF FileInv

\* These steps are calm; an Unlock or a Close finds its name cached.
LEMMA CalmSteps ==
  ASSUME UseInv, FileInv, NEW u \in Users,
         \/ FetchFails(u) \/ Lock(u) \/ Unlock(u) \/ Judged(u) \/ Opens(u) \/ Close(u)
  PROVE  Calm(u)
<1> USE DEF Maps, Disk, History
<1>1. /\ DOMAIN job = Users /\ DOMAIN reader = Users
      /\ DOMAIN job[u] = {"pc", "name", "path"}
      /\ reader[u] # "none" => job[u].pc \in {"held", "done"}
  BY DEF UseInv, Shapes, FileInv, FileTypes
<1>2. CASE FetchFails(u)
  BY <1>1, <1>2 DEF FetchFails, Calm, Cached
<1>3. CASE Judged(u)
  BY <1>1, <1>3 DEF Judged, Calm, Cached
<1>4. CASE Opens(u)
  BY <1>1, <1>4 DEF Opens, Panic, Calm, Cached
<1>5. CASE Lock(u)
  <2>1. Cached' = Cached
    BY <1>5 DEF Lock, Plus, Cached
  <2>. QED  BY <1>1, <1>5, <2>1 DEF Lock, Calm
<1>6. CASE Unlock(u)
  <2>1. job[u].name \in Cached
    BY <1>6 DEF Unlock, UseInv, Shapes, Covered, Holders
  <2>2. Cached' = Cached
    BY <1>6, <2>1 DEF Unlock, Plus, Cached
  <2>. QED  BY <1>1, <1>6, <2>2 DEF Unlock, Calm
<1>7. CASE Close(u)
  <2>1. job[u].name \in Cached
    BY <1>7 DEF Close, UseInv, Shapes, Covered, Readers
  <2>2. Cached' = Cached
    BY <1>7, <2>1 DEF Close, Plus, Cached
  <2>. QED  BY <1>1, <1>7, <2>2 DEF Close, Calm
<1>. QED  BY <1>2, <1>3, <1>4, <1>5, <1>6, <1>7

\* A step that touches none of this.
LEMMA NothingMoves ==
  ASSUME FileInv, UNCHANGED <<Maps, Disk, job, reader, slow>>
  PROVE  FileInv'
<1>1. UNCHANGED <<counter, file, expired, made, disk, broken, doomed, job, reader, slow>>
  BY DEF Maps, Disk
<1>2. FileTypes' /\ CachedOnDisk' /\ FetchedApart'
  BY <1>1 DEF FileInv, FileTypes, CachedOnDisk, FetchedApart, Fetched, Cached
<1>3. Located' /\ AtHand' /\ DiskAccounted'
  BY <1>1 DEF FileInv, Located, AtHand, InDownload, DiskAccounted, Cached
<1>. QED  BY <1>2, <1>3 DEF FileInv

\* A lookup answers with the path of the name, which has just been used.
LEMMA HitFiles ==
  ASSUME UseInv, FileInv, NEW u \in Users, NEW n \in Names, Hit(u, n)
  PROVE  FileInv'
<1> USE DEF Disk
<1>1. /\ UNCHANGED <<file, made, disk, broken, doomed, slow>> /\ reader' = reader
      /\ n \in Cached /\ expired' = expired \ {n} /\ reader[u] = "none"
      /\ \A v \in Users \ {u} : job'[v] = job[v]
      /\ job'[u] = [pc |-> "located", name |-> n, path |-> file[n]]
      /\ job[u].pc \in {"idle", "done"}
  BY DEF Hit, CanStart, UseInv, Shapes
<1>2. Cached' = Cached
  BY DEF Hit, Plus, Cached
<1>3. FileTypes'
  BY <1>1, <1>2 DEF FileInv, FileTypes
<1>4. CachedOnDisk' /\ FetchedApart'
  BY <1>1, <1>2 DEF FileInv, CachedOnDisk, FetchedApart, Fetched
<1>5. Located'
  BY <1>1, <1>2 DEF FileInv, Located
<1>6. AtHand'
  BY <1>1 DEF FileInv, AtHand, InDownload
<1>7. DiskAccounted'
  BY <1>1 DEF FileInv, DiskAccounted, Range
<1>. QED  BY <1>3, <1>4, <1>5, <1>6, <1>7 DEF FileInv

\* A name that is looked up in vain is not expired: it is not there.
LEMMA MissFiles ==
  ASSUME UseInv, FileInv, NEW u \in Users, NEW n \in Names, Miss(u, n)
  PROVE  FileInv'
<1> USE DEF Disk, Maps, History
<1>1. /\ UNCHANGED <<file, made, disk, broken, doomed, slow, expired>> /\ reader' = reader
      /\ n \notin Cached /\ Cached' = Cached /\ reader[u] = "none"
      /\ \A v \in Users \ {u} : job'[v] = job[v]
      /\ job'[u] = [pc |-> "missed", name |-> n, path |-> 0]
      /\ job[u].pc \in {"idle", "done"}
  BY DEF Miss, CanStart, UseInv, Shapes, Cached
<1>2. FileTypes'
  BY <1>1 DEF FileInv, FileTypes
<1>3. CachedOnDisk' /\ FetchedApart'
  BY <1>1 DEF FileInv, CachedOnDisk, FetchedApart, Fetched
<1>4. Located'
  BY <1>1 DEF FileInv, Located
<1>5. AtHand'
  BY <1>1 DEF FileInv, FileTypes, AtHand, InDownload
<1>6. DiskAccounted'
  BY <1>1 DEF FileInv, DiskAccounted, Range
<1>. QED  BY <1>2, <1>3, <1>4, <1>5, <1>6 DEF FileInv

\* A new file, whole or broken off, has a number nothing else has.
LEMMA FetchFiles ==
  ASSUME UseInv, FileInv, NEW u \in Users, Fetch(u) \/ CopyFails(u)
  PROVE  FileInv'
<1> USE DEF Maps, History
<1>1. /\ UNCHANGED <<file, doomed, slow, expired>> /\ reader' = reader
      /\ Cached' = Cached /\ made' = made + 1 /\ job[u].pc = "missed"
      /\ broken \subseteq broken'
      /\ DOMAIN disk' = DOMAIN disk \cup {made'} /\ disk'[made'] = job[u].name
      /\ \A f \in DOMAIN disk : f # made' => disk'[f] = disk[f]
      /\ \A v \in Users \ {u} : job'[v] = job[v]
  BY DEF Fetch, CopyFails, UseInv, Shapes, Cached
<1>2. /\ job'[u].name = job[u].name
      /\ \/ job'[u].pc = "fetched" /\ job'[u].path = made'
         \/ /\ job'[u].pc = "done" /\ job'[u].path = job[u].path
            /\ made' \in broken'
  BY DEF Fetch, CopyFails, UseInv, Shapes
<1>3. made' \notin DOMAIN disk /\ made' \in Int /\ reader[u] = "none"
  BY <1>1 DEF FileInv, FileTypes
<1>4. \A v \in Users : /\ job'[v].name = job[v].name
                       /\ job[v].pc = "fetched" =>
                            job'[v].pc = "fetched" /\ job'[v].path = job[v].path
  BY <1>1, <1>2
<1>5. FileTypes'
  BY <1>1, <1>2, <1>3 DEF FileInv, FileTypes
<1>6. CachedOnDisk'
  BY <1>1, <1>3 DEF FileInv, CachedOnDisk
<1>7. FetchedApart'
  <2>1. ASSUME NEW v \in Users, v # u, job'[v].pc = "fetched"
        PROVE  job'[v].path # made' /\ job[v] = job'[v]
    BY <1>1, <1>3, <2>1 DEF FileInv, FetchedApart, Fetched
  <2>2. \A n \in Cached : file[n] # made'
    BY <1>3 DEF FileInv, CachedOnDisk
  <2>3. made' \notin doomed
    BY <1>3 DEF FileInv, FileTypes
  <2>4. ASSUME NEW v \in Users, v # u, job'[v].pc = "fetched"
        PROVE  /\ job'[v].path \in DOMAIN disk' \ doomed'
               /\ disk'[job'[v].path] = job'[v].name
               /\ \A n \in Cached' : file'[n] # job'[v].path
               /\ \A w \in Users \ {v} : job'[w].pc = "fetched" => job'[w].path # job'[v].path
    BY <1>1, <1>2, <2>1, <2>4 DEF FileInv, FetchedApart, Fetched
  <2>5. ASSUME job'[u].pc = "fetched"
        PROVE  /\ job'[u].path \in DOMAIN disk' \ doomed'
               /\ disk'[job'[u].path] = job'[u].name
               /\ \A n \in Cached' : file'[n] # job'[u].path
               /\ \A w \in Users \ {u} : job'[w].pc = "fetched" => job'[w].path # job'[u].path
    BY <1>1, <1>2, <2>1, <2>2, <2>3, <2>5
  <2>. QED  BY <2>4, <2>5 DEF FetchedApart, Fetched
<1>8. Located'
  BY <1>1, <1>2 DEF FileInv, Located
<1>9. AtHand'
  <2>1. \A n : InDownload(n)' => InDownload(n)
    BY <1>1, <1>2 DEF InDownload
  <2>. QED  BY <1>1, <2>1 DEF FileInv, AtHand
<1>10. DiskAccounted'
  BY <1>1, <1>2, <1>4 DEF FileInv, DiskAccounted, Range
<1>. QED  BY <1>5, <1>6, <1>7, <1>8, <1>9, <1>10 DEF FileInv

\* The first to register a name gives its file away to the cache.
LEMMA RegisterFiles ==
  ASSUME UseInv, FileInv, NEW u \in Users, Register(u), RegisterFirst(u)
  PROVE  FileInv'
<1> DEFINE m == job[u].name
<1>1. /\ UNCHANGED <<disk, made, broken, doomed, slow, expired>> /\ reader' = reader
      /\ \A v \in Users \ {u} : job'[v] = job[v]
      /\ job[u].pc = "fetched" /\ job'[u].pc = "located"
      /\ job'[u].name = m /\ job'[u].path = job[u].path
      /\ m \notin Cached
  BY DEF Register, RegisterFirst, UseInv, Shapes, History
<1>2. Cached' = Cached \cup {m}
  BY DEF RegisterFirst, Plus, Cached
<1>3. /\ file' \in [Cached \cup {m} -> Int] /\ file'[m] = job[u].path
      /\ \A n \in Cached : file'[n] = file[n]
  BY <1>1 DEF RegisterFirst, Plus, FileInv, FileTypes
<1>4. reader[u] = "none" /\ job[u].path \in DOMAIN disk \ doomed
      /\ disk[job[u].path] = m
  BY <1>1 DEF FileInv, FileTypes, FetchedApart, Fetched
<1>5. FileTypes'
  BY <1>1, <1>2, <1>3, <1>4 DEF FileInv, FileTypes
<1>6. CachedOnDisk'
  BY <1>1, <1>2, <1>3, <1>4 DEF FileInv, CachedOnDisk
<1>7. FetchedApart'
  BY <1>1, <1>2, <1>3 DEF FileInv, FetchedApart, Fetched
<1>8. Located'
  BY <1>1, <1>2, <1>3 DEF FileInv, Located
<1>9. AtHand'
  BY <1>1 DEF FileInv, AtHand, InDownload
<1>10. DiskAccounted'
  <2>1. \A f \in Range(file) \cup {job[u].path} : f \in Range(file')
    BY <1>2, <1>3 DEF Range, FileInv, FileTypes
  <2>. QED  BY <1>1, <2>1 DEF FileInv, DiskAccounted
<1>. QED  BY <1>5, <1>6, <1>7, <1>8, <1>9, <1>10 DEF FileInv

\* The others remove their own file, which no entry names.
LEMMA AdoptFiles ==
  ASSUME UseInv, FileInv, NEW u \in Users, Register(u), Adopt(u)
  PROVE  FileInv'
<1> DEFINE m == job[u].name
<1>1. /\ UNCHANGED <<file, made, broken, doomed, slow, expired>> /\ reader' = reader
      /\ \A v \in Users \ {u} : job'[v] = job[v]
      /\ job[u].pc = "fetched" /\ job'[u].pc = "located"
      /\ job'[u].name = m /\ job'[u].path = file[m]
      /\ m \in Cached /\ Cached' = Cached
  BY DEF Register, Adopt, Maps, UseInv, Shapes, Cached, History
<1>2. /\ DOMAIN disk' = DOMAIN disk \ {job[u].path}
      /\ \A f \in DOMAIN disk' : disk'[f] = disk[f]
  BY DEF Adopt, Restrict
<1>3. /\ reader[u] = "none" /\ job[u].path \notin doomed
      /\ \A n \in Cached : file[n] # job[u].path
      /\ \A v \in Users \ {u} : Fetched(v) => job[v].path # job[u].path
  BY <1>1 DEF FileInv, FileTypes, FetchedApart, Fetched
<1>4. FileTypes'
  BY <1>1, <1>2, <1>3 DEF FileInv, FileTypes
<1>5. CachedOnDisk'
  BY <1>1, <1>2, <1>3 DEF FileInv, CachedOnDisk
<1>6. FetchedApart'
  BY <1>1, <1>2, <1>3 DEF FileInv, FetchedApart, Fetched
<1>7. Located'
  BY <1>1 DEF FileInv, Located
<1>8. AtHand'
  BY <1>1 DEF FileInv, AtHand, InDownload
<1>9. DiskAccounted'
  BY <1>1, <1>2 DEF FileInv, DiskAccounted, Range
<1>. QED  BY <1>4, <1>5, <1>6, <1>7, <1>8, <1>9 DEF FileInv

\* OpenFile takes the path the cache has now.
LEMMA OpenFileFiles ==
  ASSUME UseInv, FileInv, NEW u \in Users, OpenFile(u)
  PROVE  FileInv'
<1> DEFINE m == job[u].name
<1> USE DEF History
<1>1. CASE m \notin Cached
  BY <1>1, NothingMoves DEF OpenFile, Panic
<1>2. CASE m \in Cached
  <2>1. /\ UNCHANGED <<file, disk, made, broken, doomed, slow, expired>>
        /\ \A v \in Users \ {u} : job'[v] = job[v] /\ reader'[v] = reader[v]
        /\ job'[u].pc = job[u].pc /\ job'[u].name = m /\ job'[u].path = file[m]
        /\ reader[u] = "due"
    BY <1>2 DEF OpenFile, UseInv, Shapes, Disk
  <2>2. Cached' = Cached
    BY <1>2 DEF OpenFile, Plus, Cached
  <2>3. job[u].pc \in {"held", "done"}
    BY <2>1 DEF FileInv, FileTypes
  <2>4. FileTypes'
    BY <1>2, <2>1, <2>2, <2>3 DEF FileInv, FileTypes
  <2>5. CachedOnDisk' /\ FetchedApart'
    BY <2>1, <2>2, <2>3 DEF FileInv, CachedOnDisk, FetchedApart, Fetched
  <2>6. Located' /\ AtHand'
    BY <1>2, <2>1, <2>2, <2>3 DEF FileInv, Located, AtHand, InDownload
  <2>7. DiskAccounted'
    BY <2>1, <2>3 DEF FileInv, DiskAccounted, Range
  <2>. QED  BY <2>4, <2>5, <2>6, <2>7 DEF FileInv
<1>. QED  BY <1>1, <1>2

\* A name that expires while somebody looks it up is put down as slow.
LEMMA ExpireFiles ==
  ASSUME UseInv, FileInv, NEW n \in Names, Expire(n)
  PROVE  FileInv'
<1> USE DEF Disk
<1>1. /\ UNCHANGED <<file, disk, made, broken, doomed, job, reader>> /\ Cached' = Cached
      /\ expired' = expired \cup {n} /\ slow' = slow \cup {m \in {n} : InDownload(m)}
      /\ n \in Cached
  BY DEF Expire, Cached
<1>2. FileTypes' /\ CachedOnDisk' /\ FetchedApart' /\ Located'
  BY <1>1 DEF FileInv, FileTypes, CachedOnDisk, FetchedApart, Fetched, Located
<1>3. \A m : InDownload(m)' = InDownload(m)
  BY <1>1 DEF InDownload
<1>4. AtHand'
  BY <1>1, <1>3 DEF FileInv, AtHand
<1>5. DiskAccounted'
  BY <1>1 DEF FileInv, DiskAccounted
<1>. QED  BY <1>2, <1>4, <1>5 DEF FileInv

\* The deleter takes no entry of a job that has located it and was not slow.
LEMMA SweepFiles ==
  ASSUME UseInv, FileInv, Sweep
  PROVE  FileInv'
<1> USE DEF History
<1>1. /\ UNCHANGED <<disk, made, broken, job, reader, slow>> /\ doomed = {}
      /\ doomed' = {file[n] : n \in Targets} /\ expired' = expired \ Targets
      /\ file' = Restrict(file, Cached \ Targets)
  BY DEF Sweep
<1>2. Cached' = Cached \ Targets /\ Targets \subseteq Cached
  BY DEF Sweep, Restrict, Cached, Targets, FileInv, FileTypes
<1>3. /\ file' \in [Cached \ Targets -> Int]
      /\ \A n \in Cached \ Targets : file'[n] = file[n]
  BY <1>1 DEF Restrict, FileInv, FileTypes
<1>4. doomed' \subseteq DOMAIN disk
  BY <1>1, <1>2 DEF FileInv, CachedOnDisk
<1>5. FileTypes'
  BY <1>1, <1>2, <1>3, <1>4 DEF FileInv, FileTypes
<1>6. CachedOnDisk'
  BY <1>1, <1>2, <1>3 DEF FileInv, CachedOnDisk
<1>7. FetchedApart'
  BY <1>1, <1>2, <1>3 DEF FileInv, FetchedApart, Fetched
<1>8. ASSUME NEW u \in Users, job[u].pc \in {"located", "held"}, job[u].name \notin slow
      PROVE  job[u].name \notin Targets
  <2>1. job[u].name \in Names
    BY DEF UseInv, Shapes
  <2>2. CASE job[u].pc = "located"
    BY <1>8, <2>1, <2>2 DEF FileInv, AtHand, InDownload, Targets
  <2>3. CASE job[u].pc = "held"
    <3>1. Holders(job[u].name) # {}
      BY <2>3 DEF Holders
    <3>2. Cardinality(Holders(job[u].name)) # 0
      BY <3>1, UsersFinite, FS_EmptySet
    <3>3. Used(job[u].name) > 0
      BY <3>2, UsersFinite DEF Used
    <3>4. job[u].name \in Cached => counter[job[u].name] # 0
      BY <2>1, <3>3, UsersFinite DEF UseInv, Covered, Shapes, Cached
    <3>. QED  BY <1>2, <3>4 DEF Targets
  <2>. QED  BY <1>8, <2>2, <2>3
<1>9. Located'
  BY <1>1, <1>2, <1>3, <1>8 DEF FileInv, Located
<1>10. AtHand'
  BY <1>1 DEF FileInv, AtHand, InDownload
<1>11. DiskAccounted'
  <2>1. \A f \in Range(file) : f \in Range(file') \cup doomed'
    BY <1>1, <1>2, <1>3 DEF Range, FileInv, FileTypes
  <2>. QED  BY <1>1, <2>1 DEF FileInv, DiskAccounted
<1>. QED  BY <1>5, <1>6, <1>7, <1>9, <1>10, <1>11 DEF FileInv

\* What is removed is nobody's.
LEMMA RemoveFiles ==
  ASSUME UseInv, FileInv, NEW f \in Files, RemoveFile(f)
  PROVE  FileInv'
<1> USE DEF Maps, History
<1>1. /\ UNCHANGED <<file, expired, made, broken, job, reader, slow>> /\ Cached' = Cached
      /\ f \in doomed /\ doomed' = doomed \ {f}
      /\ DOMAIN disk' = DOMAIN disk \ {f}
      /\ \A g \in DOMAIN disk' : disk'[g] = disk[g]
  BY DEF RemoveFile, Restrict, Cached
<1>2. FileTypes' /\ CachedOnDisk'
  BY <1>1 DEF FileInv, FileTypes, CachedOnDisk
<1>3. FetchedApart'
  BY <1>1 DEF FileInv, FetchedApart, Fetched
<1>4. Located' /\ AtHand' /\ DiskAccounted'
  BY <1>1 DEF FileInv, Located, AtHand, InDownload, DiskAccounted
<1>. QED  BY <1>2, <1>3, <1>4 DEF FileInv

\* A worker that is started again empties its directory.
LEMMA RestartFiles ==
  ASSUME UseInv, FileInv, Restart
  PROVE  FileInv'
<1>1. /\ counter' = [n \in {} |-> 0] /\ file' = [n \in {} |-> 0] /\ expired' = {}
      /\ disk' = [g \in {} |-> 0] /\ doomed' = {} /\ made' = made
      /\ reader' = [u \in Users |-> "none"]
      /\ job' = [u \in Users |-> [job[u] EXCEPT !.pc = "idle", !.path = 0]]
  BY DEF Restart
<1>2. Cached' = {} /\ DOMAIN disk' = {}
  BY <1>1 DEF Cached
<1>3. \A u \in Users : job'[u].pc = "idle" /\ job'[u].path = 0
  BY <1>1 DEF UseInv, Shapes
<1>4. made \in Nat
  BY DEF FileInv, FileTypes
<1>5. FileTypes'
  <2>1. file' \in [{} -> Int]
    BY <1>1
  <2>2. expired' = {} /\ doomed' = {} /\ made' \in Nat
    BY <1>1, <1>4
  <2>3. \A u \in Users : reader'[u] = "none"
    BY <1>1
  <2>. QED  BY <1>2, <1>3, <2>1, <2>2, <2>3 DEF FileTypes
<1>6. CachedOnDisk' /\ FetchedApart'
  BY <1>2, <1>3 DEF CachedOnDisk, FetchedApart, Fetched
<1>7. Located' /\ AtHand' /\ DiskAccounted'
  BY <1>2, <1>3 DEF Located, AtHand, InDownload, DiskAccounted
<1>. QED  BY <1>5, <1>6, <1>7 DEF FileInv

\* Every step keeps the files in order: one case per action.
LEMMA FileStep == UseInv /\ FileInv /\ [Next]_vars => FileInv'
<1> SUFFICES ASSUME UseInv, FileInv, [Next]_vars PROVE FileInv'
  OBVIOUS
<1>1. ASSUME NEW u \in Users,
             \/ FetchFails(u) \/ Lock(u) \/ Unlock(u) \/ Judged(u) \/ Opens(u) \/ Close(u)
      PROVE  FileInv'
  BY <1>1, CalmSteps, CalmFiles
<1>2. ASSUME NEW u \in Users, Register(u) PROVE FileInv'
  BY <1>2, RegisterFiles, AdoptFiles DEF Register
<1>3. ASSUME NEW u \in Users,
             \/ \E n \in Names : Hit(u, n) \/ Miss(u, n)
             \/ CopyFails(u) \/ Fetch(u) \/ OpenFile(u)
      PROVE  FileInv'
  BY <1>3, HitFiles, MissFiles, FetchFiles, OpenFileFiles
<1>4. CASE UNCHANGED vars
  BY <1>4, NothingMoves DEF vars, Maps, Disk, History
<1>. QED
  BY <1>1, <1>2, <1>3, <1>4, ExpireFiles, SweepFiles, RemoveFiles, RestartFiles DEF Next

\* The cache is sound for any number of jobs and files: Spec keeps UseInv and
\* FileInv together.
LEMMA CacheInv == Spec => [](UseInv /\ FileInv)
  BY UseInit, UseStep, FileInitially, FileStep, PTL DEF Spec

\* A job that holds a lock has the path the cache has, and the file is there
\* with what was asked for, however downloads of the name race each other and
\* the deleter, unless the expiry passed within a call of Download.
THEOREM HeldIsAlwaysThere == Spec => []HeldIsThere
<1>1. UseInv /\ FileInv => HeldIsThere
  BY DEF FileInv, Located, CachedOnDisk, HeldIsThere
<1>. QED  BY <1>1, CacheInv, PTL

\* Races of downloads leave no file behind that nobody is going to remove.
THEOREM DiskAlwaysAccounted == Spec => []DiskAccounted
<1>1. UseInv /\ FileInv => DiskAccounted
  BY DEF FileInv
<1>. QED  BY <1>1, CacheInv, PTL
=============================================================================
