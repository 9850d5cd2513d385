----------------------------- MODULE PPDownloader -----------------------------
(***************************************************************************)
(* The file cache of a worker (ppjudge/downloader.go).  The jobs download   *)
(* test cases, checkers and sources through it; a file that nobody has a    *)
(* reference to and nobody looked up for half an hour is deleted.           *)
(*                                                                         *)
(* The maps are read and written under a mutex, but Download, OpenFile and  *)
(* the deleter each enter it several times: every section is a step.        *)
(* encodeFileName gives one key per category and name, a member of Names.   *)
(***************************************************************************)
EXTENDS Integers, FiniteSets, Functions

CONSTANTS
  Names,     \* encoded names
  Users,     \* jobs of the worker that use one file each at a time
  MaxFiles,  \* bound: files made (fileNameCounter)
  MaxHits,   \* bound: downloads answered from the cache
  MayFail    \* may downloads, copies and opens fail?

Files == 1 .. MaxFiles

ASSUME PPDownloaderAssumption ==
  /\ IsFiniteSet(Users)
  /\ MaxFiles \in Nat /\ MaxHits \in Nat /\ MayFail \in BOOLEAN

VARIABLES
  counter,  \* counter[n]: the references counted of a cached name
  file,     \* encodedNameToFileName
  expired,  \* cached names whose lastUpdateTime is older than the expiry
  made,     \* fileNameCounter
  disk,     \* disk[f]: what the file f in the directory holds
  broken,   \* files whose copy failed: they are in no map
  doomed,   \* files the deleter has taken out of the maps and not yet removed
  job,      \* job[u]: where u is in Download and with which file
  reader,   \* reader[u]: the reporting goroutine of u, which reads the file
  hits,     \* cache hits so far
  alive,    \* FALSE after a panic
  slow,     \* history: names whose expiry passed during a call of Download
  leaked    \* history: names with a reference of a cache hit, never given back

vars == <<counter, file, expired, made, disk, broken, doomed, job, reader, hits, alive,
          slow, leaked>>

Cached == DOMAIN counter

\* pc: missed (no entry, downloading), fetched (the copy is on disk), located
\* (path known, NewLocker comes next), held (locked), done (unlocked).
Job == [pc : {"idle", "missed", "fetched", "located", "held", "done"},
        name : Names, path : 0 .. MaxFiles]

TypeOK ==
  /\ \E S \in SUBSET Names : counter \in [S -> -1 .. 4 * Cardinality(Users) + MaxHits]
  /\ file \in [Cached -> Files] /\ expired \subseteq Cached
  /\ made \in 0 .. MaxFiles
  /\ DOMAIN disk \subseteq 1 .. made /\ Range(disk) \subseteq Names
  /\ broken \subseteq Files /\ doomed \subseteq Files
  /\ job \in [Users -> Job]
  /\ reader \in [Users -> {"none", "due", "opening", "open"}]
  /\ hits \in 0 .. MaxHits /\ alive \in BOOLEAN
  /\ slow \cup leaked \subseteq Names

\* NewPPDownloader: the directory is emptied, so a restart begins here too.
Empty == /\ counter = [n \in {} |-> 0] /\ file = [n \in {} |-> 0] /\ expired = {}
         /\ disk = [f \in {} |-> 0] /\ broken = {} /\ doomed = {} /\ alive = TRUE
         /\ \E n \in Names : job = [u \in Users |-> [pc |-> "idle", name |-> n, path |-> 0]]
         /\ reader = [u \in Users |-> "none"] /\ slow = {} /\ leaked = {}
Init == Empty /\ made = 0 /\ hits = 0

Maps == <<counter, file, expired>>
Disk == <<made, disk, broken, doomed>>
History == <<slow, leaked>>

\* m[n] += k of a Go map: a missing entry counts as 0 and comes to exist.
Plus(m, n, k) == [x \in DOMAIN m \cup {n} |-> (IF x \in DOMAIN m THEN m[x] ELSE 0)
                                              + (IF x = n THEN k ELSE 0)]

-----------------------------------------------------------------------------
CanStart(u) == alive /\ job[u].pc \in {"idle", "done"} /\ reader[u] = "none"

\* Download finds the name: it counts a reference here and another in NewLocker.
Hit(u, n) ==
  /\ CanStart(u) /\ n \in Cached /\ hits < MaxHits
  /\ hits' = hits + 1
  /\ counter' = Plus(counter, n, 1)
  /\ expired' = expired \ {n}
  /\ job' = [job EXCEPT ![u] = [pc |-> "located", name |-> n, path |-> file[n]]]
  /\ leaked' = leaked \cup {n}
  /\ UNCHANGED <<file, Disk, reader, alive, slow>>

Miss(u, n) ==
  /\ CanStart(u) /\ n \notin Cached
  /\ job' = [job EXCEPT ![u] = [pc |-> "missed", name |-> n, path |-> 0]]
  /\ UNCHANGED <<Maps, Disk, reader, hits, alive, History>>

\* FileDownload or os.Create fails: the job ends with an internal error.
FetchFails(u) ==
  /\ alive /\ MayFail /\ job[u].pc = "missed"
  /\ job' = [job EXCEPT ![u].pc = "done"]
  /\ UNCHANGED <<Maps, Disk, reader, hits, alive, History>>

\* io.Copy fails: what it wrote so far stays in the directory.
CopyFails(u) ==
  /\ alive /\ MayFail /\ job[u].pc = "missed" /\ made < MaxFiles
  /\ made' = made + 1
  /\ disk' = [f \in DOMAIN disk \cup {made'} |-> IF f = made' THEN job[u].name ELSE disk[f]]
  /\ broken' = broken \cup {made'}
  /\ job' = [job EXCEPT ![u].pc = "done"]
  /\ UNCHANGED <<Maps, doomed, reader, hits, alive, History>>

Fetch(u) ==
  /\ alive /\ job[u].pc = "missed" /\ made < MaxFiles
  /\ made' = made + 1
  /\ disk' = [f \in DOMAIN disk \cup {made'} |-> IF f = made' THEN job[u].name ELSE disk[f]]
  /\ job' = [job EXCEPT ![u].pc = "fetched", ![u].path = made']
  /\ UNCHANGED <<Maps, broken, doomed, reader, hits, alive, History>>

RegisterFirst(u) ==
  LET n == job[u].name
  IN /\ n \notin Cached
     /\ counter' = Plus(counter, n, 0)
     /\ file' = Plus(file, n, job[u].path)
     /\ job' = [job EXCEPT ![u].pc = "located"]
     /\ UNCHANGED <<disk, expired>>

AdoptKeepingOwn(u) ==            \* mutant: the loser keeps the path it removed
  /\ job[u].name \in Cached
  /\ disk' = Restrict(disk, DOMAIN disk \ {job[u].path})
  /\ job' = [job EXCEPT ![u].pc = "located"]
  /\ UNCHANGED Maps
AdoptLeavingOwn(u) ==            \* mutant: the loser's file is not removed
  /\ job[u].name \in Cached
  /\ job' = [job EXCEPT ![u].pc = "located", ![u].path = file[job[u].name]]
  /\ UNCHANGED <<Maps, disk>>
\* Another job has registered the name: this one removes its own file.
Adopt(u) ==
  /\ job[u].name \in Cached
  /\ disk' = Restrict(disk, DOMAIN disk \ {job[u].path})
  /\ job' = [job EXCEPT ![u].pc = "located", ![u].path = file[job[u].name]]
  /\ UNCHANGED Maps

Register(u) == /\ alive /\ job[u].pc = "fetched"
               /\ RegisterFirst(u) \/ Adopt(u)
               /\ UNCHANGED <<made, broken, doomed, reader, hits, alive, History>>

\* NewLocker, which fails when the deleter was here since.
Lock(u) ==
  LET n == job[u].name
  IN /\ alive /\ job[u].pc = "located"
     /\ \/ /\ n \in Cached
           /\ counter' = Plus(counter, n, 1)
           /\ job' = [job EXCEPT ![u].pc = "held"]
        \/ /\ n \notin Cached
           /\ job' = [job EXCEPT ![u].pc = "done"]
           /\ UNCHANGED counter
     /\ UNCHANGED <<file, expired, Disk, reader, hits, alive, History>>

\* PPLocker.Unlock, by the deferred releaser of the job.
Unlock(u) ==
  /\ alive /\ job[u].pc = "held"
  /\ counter' = Plus(counter, job[u].name, -1)
  /\ job' = [job EXCEPT ![u].pc = "done"]
  /\ UNCHANGED <<file, expired, Disk, reader, hits, alive, History>>

\* The result of a case reaches the reporting goroutine, which compares it
\* with the expected output; it may get to it after the job's Unlock.
Judged(u) ==
  /\ alive /\ job[u].pc = "held" /\ reader[u] = "none"
  /\ reader' = [reader EXCEPT ![u] = "due"]
  /\ UNCHANGED <<Maps, Disk, job, hits, alive, History>>

\* OpenFile counts its reference and then opens the file.  When it fails the
\* caller closes the nil file it got: the worker panics.
Panic == alive' = FALSE /\ UNCHANGED <<Maps, Disk, job, reader, hits, History>>

OpenFile(u) ==
  LET n == job[u].name
  IN /\ alive /\ reader[u] = "due"
     /\ \/ n \notin Cached /\ Panic
        \/ /\ n \in Cached
           /\ counter' = Plus(counter, n, 1)
           /\ reader' = [reader EXCEPT ![u] = "opening"]
           /\ job' = [job EXCEPT ![u].path = file[n]]
           /\ UNCHANGED <<file, expired, Disk, hits, alive, History>>

Opens(u) ==
  /\ alive /\ reader[u] = "opening"
  /\ \/ (MayFail \/ job[u].path \notin DOMAIN disk) /\ Panic
     \/ /\ job[u].path \in DOMAIN disk
        /\ reader' = [reader EXCEPT ![u] = "open"]
        /\ UNCHANGED <<Maps, Disk, job, hits, alive, History>>

CloseKeeping(u) ==               \* mutant: the reference is not given back
  /\ alive /\ reader[u] = "open"
  /\ reader' = [reader EXCEPT ![u] = "none"]
  /\ UNCHANGED <<Maps, Disk, job, hits, alive, History>>
\* PPFile.Close
Close(u) ==
  /\ alive /\ reader[u] = "open"
  /\ counter' = Plus(counter, job[u].name, -1)
  /\ reader' = [reader EXCEPT ![u] = "none"]
  /\ UNCHANGED <<file, expired, Disk, job, hits, alive, History>>

-----------------------------------------------------------------------------
(***************************************************************************)
(* The deleter.                                                             *)
(***************************************************************************)
InDownload(n) == \E u \in Users : job[u].name = n /\ job[u].pc \in {"missed", "fetched", "located"}

\* Half an hour has passed since the name was looked up or registered.
Expire(n) ==
  /\ alive /\ n \in Cached \ expired
  /\ expired' = expired \cup {n}
  /\ slow' = slow \cup {m \in {n} : InDownload(m)}
  /\ UNCHANGED <<counter, file, Disk, job, reader, hits, alive, leaked>>

AnyExpired == expired             \* mutant: the references are not looked at
Targets == {n \in expired : counter[n] = 0}

Sweep ==
  /\ alive /\ doomed = {} /\ Targets # {}
  /\ doomed' = {file[n] : n \in Targets}
  /\ counter' = Restrict(counter, Cached \ Targets)
  /\ file' = Restrict(file, Cached \ Targets)
  /\ expired' = expired \ Targets
  /\ UNCHANGED <<made, disk, broken, job, reader, hits, alive, History>>

RemoveFile(f) ==
  /\ alive /\ f \in doomed
  /\ doomed' = doomed \ {f}
  /\ disk' = Restrict(disk, DOMAIN disk \ {f})
  /\ UNCHANGED <<Maps, made, broken, job, reader, hits, alive, History>>

\* The worker is started again; the bounds go on counting.
Restart ==
  /\ ~alive
  /\ counter' = [n \in {} |-> 0] /\ file' = [n \in {} |-> 0] /\ expired' = {}
  /\ disk' = [f \in {} |-> 0] /\ broken' = {} /\ doomed' = {} /\ alive' = TRUE
  /\ job' = [u \in Users |-> [job[u] EXCEPT !.pc = "idle", !.path = 0]]
  /\ reader' = [u \in Users |-> "none"]
  /\ slow' = {} /\ leaked' = {}
  /\ UNCHANGED <<made, hits>>

Next ==
  \/ \E u \in Users : \/ \E n \in Names : Hit(u, n) \/ Miss(u, n)
                      \/ FetchFails(u) \/ CopyFails(u) \/ Fetch(u)
                      \/ Register(u) \/ Lock(u) \/ Unlock(u)
                      \/ Judged(u) \/ OpenFile(u) \/ Opens(u) \/ Close(u)
  \/ \E n \in Names : Expire(n)
  \/ Sweep
  \/ \E f \in Files : RemoveFile(f)
  \/ Restart

Spec == Init /\ [][Next]_vars

\* Time passes, and the ticker and the deleter are goroutines of their own.
Fairness == /\ \A n \in Names : WF_vars(Expire(n))
            /\ WF_vars(Sweep)
            /\ \A f \in Files : WF_vars(RemoveFile(f))
FairSpec == Spec /\ Fairness

-----------------------------------------------------------------------------
Holders(n) == {u \in Users : job[u].name = n /\ job[u].pc = "held"}
Readers(n) == {u \in Users : job[u].name = n /\ reader[u] \in {"opening", "open"}}

\* The counter of a name is at least the references jobs and readers have:
\* the deleter never takes an entry that somebody uses.
CounterCoversUse ==
  \A n \in Names :
    Holders(n) \cup Readers(n) # {} =>
      n \in Cached /\ counter[n] >= Cardinality(Holders(n)) + Cardinality(Readers(n))

\* A job that holds a lock has the path every other job gets for the name,
\* and the file is there with what was asked for, also when two jobs downloaded
\* it at once and one adopted the file of the other: unless a call of Download
\* once took longer than the expiry.
HeldIsThere ==
  alive => \A u \in Users : job[u].pc = "held" /\ job[u].name \notin slow =>
    LET n == job[u].name
    IN /\ n \in Cached /\ file[n] = job[u].path
       /\ job[u].path \in DOMAIN disk /\ disk[job[u].path] = n

\* Every file in the directory is cached, about to be registered or removed,
\* or the rest of a failed copy: races of downloads leave none behind.
DiskAccounted ==
  \A f \in DOMAIN disk :
    \/ f \in Range(file) \cup doomed \cup broken
    \/ \E u \in Users : job[u].pc = "fetched" /\ job[u].path = f

\* A file no job uses any more is deleted in the end, unless it was once
\* answered from the cache.
InUse(n) == \E u \in Users : job[u].name = n /\ (job[u].pc \notin {"idle", "done"} \/ reader[u] # "none")
UnusedIsDeleted ==
  \A n \in Names : []( []~InUse(n) => <>(n \notin Cached \/ n \in leaked \/ ~alive) )
=============================================================================
