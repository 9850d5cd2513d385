---------------------------- MODULE ContestAccess ----------------------------
(***************************************************************************)
(* Who may see and do what in a contest, and when.                          *)
(*                                                                         *)
(* ppweb reads the contest's row, the participation and the clock at the    *)
(* start of a request (PrepareVariables, contest_each.go) and decides from   *)
(* what it read; meanwhile the clock runs, users join, and an administrator  *)
(* may move the start and the finish (/management/setting).                  *)
(*                                                                         *)
(* Time is counted in ticks.  A form refuses to move a time that is at most   *)
(* Margin ticks away (two minutes in the code).  A request takes at most      *)
(* Window ticks from reading the row to deciding, and a form as much from     *)
(* deciding to writing.                                                     *)
(***************************************************************************)
EXTENDS Integers, FiniteSets

CONSTANTS
  Users, Admins,     \* users; administrators of the contest
  Requests, Editors, \* requests, and those of them that may be a setting form
  Margin, Window,
  MaxTime            \* bound of the clock and of the times chosen

ASSUME ContestAccessAssumption ==
  /\ Admins \subseteq Users /\ Editors \subseteq Requests
  /\ Margin \in Nat /\ Window \in Nat /\ 2 * Window <= Margin /\ MaxTime \in Nat

Times == 0 .. MaxTime
Pages == {"top", "problem", "submission", "submissions", "join", "submit", "setting"}
All == "all"         \* no user is chosen in the list of submissions

VARIABLES
  now,               \* the clock
  start, finish,     \* the contest's row
  joined,            \* users with a participation
  handed,            \* users who have submitted
  req                \* req[r]: a request and what it has read

vars == <<now, start, finish, joined, handed, req>>

\* owner: whose submissions are asked for.  first, last: start and finish as
\* they were read; newStart, newFinish: as the form wants them.
Request == [pc : {"idle", "read", "work", "shown", "write"},
            page : Pages, user : Users, owner : Users \cup {All},
            first : Times, last : Times, newStart : Times, newFinish : Times,
            joined : BOOLEAN, started : BOOLEAN, finished : BOOLEAN, age : 0 .. Window]

TypeOK ==
  /\ now \in Times /\ start \in Times /\ finish \in Times
  /\ joined \subseteq Users /\ handed \subseteq Users
  /\ req \in [Requests -> Request]

\* newContestHandler: the times a contest begins with.
Creatable(s, f) == s < f /\ s >= now

Idle(u) == [pc |-> "idle", page |-> "problem", user |-> u, owner |-> All,
            first |-> 0, last |-> 0, newStart |-> 0, newFinish |-> 0,
            joined |-> FALSE, started |-> FALSE, finished |-> FALSE, age |-> 0]

Init ==
  /\ now = 0 /\ start \in Times /\ finish \in Times /\ Creatable(start, finish)
  /\ joined = {} /\ handed = {}
  /\ \E u \in Users : req = [r \in Requests |-> Idle(u)]

-----------------------------------------------------------------------------
At(r, pc) == req[r].pc = pc
IsAdmin(r) == req[r].user \in Admins
Ends(r) == req' = [req EXCEPT ![r] = Idle(req[r].user)]
Contest == <<start, finish>>

Timed == {"read", "write"}
Tick ==
  /\ now < MaxTime
  /\ \A r \in Requests : req[r].pc \in Timed => req[r].age < Window
  /\ now' = now + 1
  /\ req' = [r \in Requests |-> [req[r] EXCEPT !.age = IF req[r].pc \in Timed THEN @ + 1 ELSE @]]
  /\ UNCHANGED <<Contest, joined, handed>>

\* ContestFind.
ReadContest(r) ==
  /\ At(r, "idle")
  /\ \E u \in Users, p \in Pages, o \in Users \cup {All} :
       /\ p = "setting" => r \in Editors
       /\ p \notin {"submission", "submissions"} => o = All
       /\ p = "submission" => o \in handed
       /\ req' = [req EXCEPT ![r] = [Idle(u) EXCEPT !.pc = "read", !.page = p, !.owner = o,
                                                    !.first = start, !.last = finish]]
  /\ UNCHANGED <<now, Contest, joined, handed>>

\* What is known from time t on.  Only the form looks at the times again.
Kept(r, t) == IF req[r].page = "setting" THEN t ELSE 0
Prepared(r, t) ==
  [pc |-> "work", page |-> req[r].page, user |-> req[r].user, owner |-> req[r].owner,
   first |-> Kept(r, req[r].first), last |-> Kept(r, req[r].last), newStart |-> 0, newFinish |-> 0,
   joined |-> req[r].user \in joined, started |-> req[r].first <= t, finished |-> req[r].last <= t,
   age |-> 0]

ReadEarly(r) ==               \* mutant: a contest is started a tick early
  /\ At(r, "read")
  /\ req' = [req EXCEPT ![r] = Prepared(r, now + 1)]
  /\ UNCHANGED <<now, Contest, joined, handed>>
\* ContestParticipationCheck and the clock.
ReadParticipation(r) ==
  /\ At(r, "read")
  /\ req' = [req EXCEPT ![r] = Prepared(r, now)]
  /\ UNCHANGED <<now, Contest, joined, handed>>

Accessible(r) == (req[r].joined /\ req[r].started) \/ req[r].finished \/ IsAdmin(r)

\* The contest's page, which offers to join it.
ShowsTop(r) == req[r].page = "top"
JoinButton(r) == ~(req[r].finished \/ req[r].joined \/ IsAdmin(r))
\* /problems/, /problems/{pidx}, /related_files/, /ranking.
ShowsProblems(r) == req[r].page = "problem" /\ Accessible(r)
\* /submissions/: the list.
ShowsList(r) ==
  /\ req[r].page = "submissions" /\ Accessible(r)
  /\ req[r].finished \/ IsAdmin(r) \/ req[r].owner = req[r].user
ShowsSubmissionToAll(r) ==       \* mutant: like the list, but for Accessible alone
  req[r].page = "submission" /\ Accessible(r)
ShowsSubmission(r) ==
  /\ req[r].page = "submission"
  /\ IsAdmin(r) \/ req[r].owner = req[r].user \/ req[r].finished

Show(r) ==
  /\ At(r, "work") /\ (ShowsTop(r) \/ ShowsProblems(r) \/ ShowsList(r) \/ ShowsSubmission(r))
  /\ req' = [req EXCEPT ![r].pc = "shown"]
  /\ UNCHANGED <<now, Contest, joined, handed>>

\* /join.
Join(r) ==
  /\ At(r, "work") /\ req[r].page = "join" /\ ~Accessible(r)
  /\ joined' = joined \cup {req[r].user}
  /\ Ends(r)
  /\ UNCHANGED <<now, Contest, handed>>

SubmitAnyway(r) ==               \* mutant: only the start is looked at
  /\ At(r, "work") /\ req[r].page = "submit" /\ (req[r].started \/ Accessible(r))
  /\ handed' = handed \cup {req[r].user}
  /\ Ends(r)
  /\ UNCHANGED <<now, Contest, joined>>
\* POST /submit.
Submit(r) ==
  /\ At(r, "work") /\ req[r].page = "submit" /\ Accessible(r)
  /\ handed' = handed \cup {req[r].user}
  /\ Ends(r)
  /\ UNCHANGED <<now, Contest, joined>>

MovableAlways(old, new) == new = old \/ new >= now    \* mutant: no two minutes
\* A time may be moved while it is more than Margin away, and not to the past.
Movable(old, new) == new = old \/ (old > now + Margin /\ new >= now)

\* POST /management/setting: the form is judged by the row that was read.
CheckSetting(r) ==
  /\ At(r, "work") /\ req[r].page = "setting" /\ IsAdmin(r)
  /\ \E s \in Times, f \in Times :
       /\ Movable(req[r].first, s) /\ Movable(req[r].last, f) /\ s < f
       /\ req' = [req EXCEPT ![r] = [@ EXCEPT !.pc = "write", !.newStart = s, !.newFinish = f]]
  /\ UNCHANGED <<now, Contest, joined, handed>>

\* ContestUpdate writes every column of the form.
WriteSetting(r) ==
  /\ At(r, "write")
  /\ start' = req[r].newStart /\ finish' = req[r].newFinish
  /\ Ends(r)
  /\ UNCHANGED <<now, joined, handed>>

\* The page has been sent, or was refused with a redirection, 400 or 403.
Finish(r) ==
  /\ At(r, "work") \/ At(r, "shown")
  /\ Ends(r)
  /\ UNCHANGED <<now, Contest, joined, handed>>

\* The lists of /contests/: the running ones, /coming and /closed.
OnList(l) == \/ l = "running" /\ start <= now /\ finish > now
             \/ l = "coming" /\ start > now
             \/ l = "closed" /\ finish <= now

Next ==
  \/ Tick
  \/ \E r \in Requests :
       \/ ReadContest(r) \/ ReadParticipation(r) \/ Show(r) \/ Join(r) \/ Submit(r)
       \/ CheckSetting(r) \/ WriteSetting(r) \/ Finish(r)

Spec == Init /\ [][Next]_vars

-----------------------------------------------------------------------------
\* While a page of problems is sent to somebody who is no administrator, the
\* contest has started, by the row as it is now.
NobodyPeeks ==
  \A r \in Requests : At(r, "shown") /\ req[r].page = "problem" /\ ~IsAdmin(r) => start <= now

\* While somebody else's submission is sent to a user who is no administrator,
\* the contest is over, by the row as it is now.
NobodyCopies ==
  \A r \in Requests :
    At(r, "shown") /\ req[r].page \in {"submission", "submissions"} /\ req[r].owner # req[r].user /\ ~IsAdmin(r)
      => finish <= now

\* Every contest is on one of the three lists, and on no other.
ListedOnce == Cardinality({l \in {"running", "coming", "closed"} : OnList(l)}) = 1

\* Who is offered to join is let in: the request that follows is refused only
\* when the contest has ended since, or he has joined in between.
ButtonWorks ==
  \A r, q \in Requests :
    /\ At(r, "shown") /\ req[r].page = "top" /\ JoinButton(r)
    /\ At(q, "work") /\ req[q].page = "join" /\ req[q].user = req[r].user /\ ~req[q].finished
    => ~Accessible(q) \/ req[q].user \in joined

\* A submission to a running contest is a participant's or an administrator's.
SubmittersTakePart ==
  [][\A u \in handed' \ handed :
       u \in joined \/ u \in Admins \/ finish <= now]_vars

\* A contest that has started or finished does not get other times: what was
\* shown is not to be hidden again, and a rank is not to change.
TimesFixed ==
  [][(start' # start => now < start) /\ (finish' # finish => now < finish)]_vars
=============================================================================
