------------------------- MODULE ContestAccessProofs -------------------------
(***************************************************************************)
(* What ContestAccess guarantees when one setting form is at work at a      *)
(* time, for any number of users and requests, any clock and any window that *)
(* is at most half the margin.                                              *)
(*                                                                         *)
(* The argument: a form moves a time only when it was more than Margin away  *)
(* when it was judged, so more than Margin - Window >= Window away when it is *)
(* written; a page that read the old time less than Window ago still finds   *)
(* it in the future when it looks at the clock.                             *)
(***************************************************************************)
EXTENDS ContestAccess, FiniteSetTheorems, TLAPS

OneEditor == \A r, q \in Editors : r = q

(***************************************************************************)
(* The inductive invariant.                                                 *)
(***************************************************************************)
\* A time that was read and has been changed since is out of reach.
StillAhead(r) ==
  At(r, "read") =>
    /\ req[r].first # start => now + Window < req[r].first + req[r].age
    /\ req[r].last # finish => now + Window < req[r].last + req[r].age

\* What the only form has read is what the row holds.
FormIsCurrent(r) ==
  req[r].page = "setting" /\ req[r].pc # "idle" =>
    /\ r \in Editors
    /\ req[r].first = start /\ req[r].last = finish

\* A form that will be written has been judged at most age ticks ago.
FormIsJudged(r) ==
  At(r, "write") =>
    /\ req[r].page = "setting" /\ req[r].newStart < req[r].newFinish
    /\ req[r].newStart # req[r].first => now + Margin < req[r].first + req[r].age
    /\ req[r].newFinish # req[r].last => now + Margin < req[r].last + req[r].age

\* A window is open while a page has read or a form is to be written.
Ageless(r) == req[r].pc \notin Timed => req[r].age = 0

\* What a page has found out stays true.
KnowsTruth(r) ==
  req[r].pc \in {"work", "shown"} =>
    /\ req[r].joined => req[r].user \in joined
    /\ req[r].started => start <= now
    /\ req[r].finished => finish <= now

ShownIsAllowed(r) ==
  At(r, "shown") =>
    /\ req[r].page = "problem" => Accessible(r)
    /\ req[r].page \in {"submission", "submissions"} =>
         req[r].finished \/ IsAdmin(r) \/ req[r].owner = req[r].user

RequestInv(r) ==
  /\ StillAhead(r) /\ FormIsCurrent(r) /\ FormIsJudged(r)
  /\ Ageless(r) /\ KnowsTruth(r) /\ ShownIsAllowed(r)

AInv == TypeOK /\ start < finish /\ \A r \in Requests : RequestInv(r)

-----------------------------------------------------------------------------
\* A request that is not there is well formed.
LEMMA IdleType ==
  ASSUME NEW u \in Users
  PROVE  Idle(u) \in Request
<1>1. 0 \in Times /\ 0 \in 0 .. Window /\ "problem" \in Pages /\ All \in Users \cup {All}
  BY ContestAccessAssumption DEF ContestAccessAssumption, Times, Pages
<1> QED
  BY <1>1 DEF Idle, Request

\* At the start nothing has been handed out.
LEMMA InitInv == Init => AInv
<1> SUFFICES ASSUME Init PROVE AInv
  OBVIOUS
<1> USE ContestAccessAssumption DEF ContestAccessAssumption
<1>1. start < finish /\ start \in Times /\ finish \in Times /\ now = 0 /\ joined = {} /\ handed = {}
  BY DEF Init, Creatable
<1>2. PICK u \in Users : req = [r \in Requests |-> Idle(u)]
  BY DEF Init
<1>3. req \in [Requests -> Request]
  BY <1>2, IdleType
<1>4. TypeOK
  BY <1>1, <1>3 DEF TypeOK, Times
<1>5. \A r \in Requests : RequestInv(r)
  BY <1>2 DEF RequestInv, StillAhead, FormIsCurrent, FormIsJudged, Ageless, KnowsTruth,
              ShownIsAllowed, At, Timed, Idle
<1> QED
  BY <1>1, <1>4, <1>5 DEF AInv

\* A request that does not move keeps its part of the invariant while the row
\* and the clock stay and nobody leaves.
LEMMA Bystander ==
  ASSUME NEW q \in Requests, RequestInv(q), req'[q] = req[q],
         now' = now, start' = start, finish' = finish, joined \subseteq joined'
  PROVE  RequestInv(q)'
BY DEF RequestInv, StillAhead, FormIsCurrent, FormIsJudged, Ageless, KnowsTruth,
       ShownIsAllowed, At, Accessible, IsAdmin

\* A request that has ended satisfies its part.
LEMMA EndedInv ==
  ASSUME NEW r \in Requests, req \in [Requests -> Request], Ends(r)
  PROVE  RequestInv(r)' /\ \A q \in Requests \ {r} : req'[q] = req[q]
BY DEF Ends, Idle, RequestInv, StillAhead, FormIsCurrent, FormIsJudged, Ageless,
   KnowsTruth, ShownIsAllowed, At, Timed

\* A request that ends leaves well-formed requests.
LEMMA EndsType ==
  ASSUME NEW r \in Requests, req \in [Requests -> Request], Ends(r)
  PROVE  req' \in [Requests -> Request]
<1>1. req[r].user \in Users
  BY DEF Request
<1> QED
  BY <1>1, IdleType DEF Ends

-----------------------------------------------------------------------------
\* Every step keeps the invariant, when one form is at work at a time.
LEMMA StepInv ==
  ASSUME OneEditor, AInv, [Next]_vars
  PROVE  AInv'
<1> USE ContestAccessAssumption DEF ContestAccessAssumption
<1>1. CASE Tick
  <2>1. req' = [r \in Requests |-> [req[r] EXCEPT !.age = IF req[r].pc \in Timed THEN @ + 1 ELSE @]]
    BY <1>1 DEF Tick
  <2>2. \A r \in Requests : req[r] \in Request
    BY DEF AInv, TypeOK
  <2>3. TypeOK'
    <3>1. \A r \in Requests : req'[r] \in Request
      BY <1>1, <2>1, <2>2 DEF Tick, Request, Timed, AInv, RequestInv, Ageless
    <3> QED
      BY <1>1, <2>1, <3>1 DEF Tick, TypeOK, AInv, Contest, Times
  <2>4. ASSUME NEW r \in Requests PROVE RequestInv(r)'
    <3>1. RequestInv(r) /\ req[r] \in Request /\ now \in Nat /\ now' = now + 1
      BY <1>1, <2>2 DEF AInv, TypeOK, Times, Tick
    <3>2. /\ req'[r] = [req[r] EXCEPT !.age = IF req[r].pc \in Timed THEN @ + 1 ELSE @]
          /\ start' = start /\ finish' = finish /\ joined' = joined
      BY <1>1, <2>1 DEF Tick, Contest
    <3>3. start \in Nat /\ finish \in Nat
      BY DEF AInv, TypeOK, Times
    <3> QED
      BY <3>1, <3>2, <3>3 DEF RequestInv, StillAhead, FormIsCurrent, FormIsJudged, Ageless,
         KnowsTruth, ShownIsAllowed, At, Accessible, IsAdmin, Timed, Request, Times
  <2> QED
    BY <1>1, <2>3, <2>4 DEF AInv, Tick, Contest
<1>2. ASSUME NEW r \in Requests, ReadContest(r) PROVE AInv'
  <2>1. PICK u \in Users, p \in Pages, o \in Users \cup {All} :
          /\ p = "setting" => r \in Editors
          /\ req' = [req EXCEPT ![r] = [Idle(u) EXCEPT !.pc = "read", !.page = p, !.owner = o,
                                                       !.first = start, !.last = finish]]
    BY <1>2, Zenon DEF ReadContest
  <2>2. req[r] \in Request /\ req[r].age = 0 /\ req \in [Requests -> Request]
    BY <1>2 DEF AInv, TypeOK, RequestInv, Ageless, ReadContest, At, Timed
  <2>3. req'[r] \in Request /\ \A q \in Requests \ {r} : req'[q] = req[q]
    BY <2>1, <2>2, IdleType DEF Request, AInv, TypeOK
  <2>4. UNCHANGED <<now, start, finish, joined, handed>>
    BY <1>2 DEF ReadContest, Contest
  <2>5. TypeOK'
    BY <2>1, <2>2, <2>3, <2>4 DEF AInv, TypeOK
  <2>6. RequestInv(r)'
    BY <2>1, <2>2, <2>4 DEF RequestInv, StillAhead, FormIsCurrent, FormIsJudged, Ageless,
       KnowsTruth, ShownIsAllowed, At, Timed, Idle
  <2> QED
    BY <2>3, <2>4, <2>5, <2>6, Bystander DEF AInv
<1>3. ASSUME NEW r \in Requests, ReadParticipation(r) PROVE AInv'
  <2>1. req' = [req EXCEPT ![r] = Prepared(r, now)]
    BY <1>3 DEF ReadParticipation
  <2>2. req[r] \in Request /\ req \in [Requests -> Request] /\ RequestInv(r) /\ At(r, "read")
    BY <1>3 DEF AInv, TypeOK, ReadParticipation
  <2>3. req'[r] \in Request /\ \A q \in Requests \ {r} : req'[q] = req[q]
    <3>1. \A t \in Times : Kept(r, t) \in Times
      BY DEF Kept, Times
    <3>2. Prepared(r, now) \in Request
      BY <2>2, <3>1 DEF Prepared, Request, Times
    <3> QED
      BY <2>1, <2>2, <3>2
  <2>4. UNCHANGED <<now, start, finish, joined, handed>>
    BY <1>3 DEF ReadParticipation, Contest
  <2>5. TypeOK'
    BY <2>1, <2>2, <2>3, <2>4 DEF AInv, TypeOK
  <2>6. /\ req'[r].pc = "work" /\ req'[r].page = req[r].page /\ req'[r].user = req[r].user
        /\ req'[r].age = 0
        /\ req'[r].joined <=> req[r].user \in joined
        /\ req'[r].started <=> req[r].first <= now
        /\ req'[r].finished <=> req[r].last <= now
        /\ req[r].page = "setting" => req'[r].first = req[r].first /\ req'[r].last = req[r].last
    BY <2>1, <2>2 DEF Prepared, Kept
  <2>7. now \in Nat /\ start \in Nat /\ finish \in Nat /\ req[r].first \in Nat /\ req[r].last \in Nat
        /\ req[r].age \in Nat /\ req[r].age <= Window
    BY <2>2 DEF AInv, TypeOK, Times, Request
  <2>8. (req[r].first <= now => start <= now) /\ (req[r].last <= now => finish <= now)
    BY <2>2, <2>7 DEF RequestInv, StillAhead
  <2>9. RequestInv(r)'
    BY <2>2, <2>4, <2>6, <2>8 DEF RequestInv, StillAhead, FormIsCurrent, FormIsJudged, Ageless,
       KnowsTruth, ShownIsAllowed, At, Timed
  <2> QED
    BY <2>3, <2>4, <2>5, <2>9, Bystander DEF AInv
<1>4. ASSUME NEW r \in Requests, Show(r) PROVE AInv'
  <2>1. req' = [req EXCEPT ![r].pc = "shown"] /\ req[r] \in Request /\ req \in [Requests -> Request]
    BY <1>4 DEF Show, AInv, TypeOK
  <2>2. req'[r] = [req[r] EXCEPT !.pc = "shown"] /\ \A q \in Requests \ {r} : req'[q] = req[q]
    BY <2>1
  <2>3. UNCHANGED <<now, start, finish, joined, handed>>
    BY <1>4 DEF Show, Contest
  <2>4. TypeOK'
    BY <2>1, <2>2, <2>3 DEF AInv, TypeOK, Request
  <2>5. RequestInv(r)'
    BY <1>4, <2>1, <2>2, <2>3 DEF Show, ShowsTop, ShowsProblems, ShowsList, ShowsSubmission, AInv,
       RequestInv, StillAhead, FormIsCurrent, FormIsJudged, Ageless, KnowsTruth, ShownIsAllowed,
       At, Timed, Accessible, IsAdmin, Request
  <2> QED
    BY <2>2, <2>3, <2>4, <2>5, Bystander DEF AInv
<1>5. ASSUME NEW r \in Requests, Join(r) \/ Submit(r) \/ Finish(r) PROVE AInv'
  <2>1. Ends(r) /\ UNCHANGED <<now, start, finish>> /\ joined \subseteq joined'
    BY <1>5 DEF Join, Submit, Finish, Contest
  <2>2. joined' \subseteq Users /\ handed' \subseteq Users
    BY <1>5 DEF Join, Submit, Finish, AInv, TypeOK, Request
  <2>3. req' \in [Requests -> Request]
    BY <2>1, EndsType DEF AInv, TypeOK
  <2>4. RequestInv(r)' /\ \A q \in Requests \ {r} : req'[q] = req[q]
    BY <2>1, EndedInv DEF AInv, TypeOK
  <2> QED
    BY <2>1, <2>2, <2>3, <2>4, Bystander DEF AInv, TypeOK
<1>6. ASSUME NEW r \in Requests, CheckSetting(r) PROVE AInv'
  <2>1. PICK s \in Times, f \in Times :
          /\ Movable(req[r].first, s) /\ Movable(req[r].last, f) /\ s < f
          /\ req' = [req EXCEPT ![r] = [@ EXCEPT !.pc = "write", !.newStart = s, !.newFinish = f]]
    BY <1>6 DEF CheckSetting
  <2>2. req[r] \in Request /\ req \in [Requests -> Request] /\ RequestInv(r)
        /\ At(r, "work") /\ req[r].page = "setting"
    BY <1>6 DEF CheckSetting, AInv, TypeOK
  <2>3. /\ req'[r] = [req[r] EXCEPT !.pc = "write", !.newStart = s, !.newFinish = f]
        /\ \A q \in Requests \ {r} : req'[q] = req[q]
    BY <2>1, <2>2
  <2>4. UNCHANGED <<now, start, finish, joined, handed>>
    BY <1>6 DEF CheckSetting, Contest
  <2>5. TypeOK'
    BY <2>1, <2>2, <2>3, <2>4 DEF AInv, TypeOK, Request
  <2>6. now \in Nat /\ req[r].first \in Nat /\ req[r].last \in Nat /\ req[r].age = 0
    BY <2>2 DEF AInv, TypeOK, Times, Request, RequestInv, Ageless, At, Timed
  <2>7. RequestInv(r)'
    BY <2>1, <2>2, <2>3, <2>4, <2>6 DEF Movable, Request,
       RequestInv, StillAhead, FormIsCurrent, FormIsJudged, Ageless, KnowsTruth, ShownIsAllowed,
       At, Timed
  <2> QED
    BY <2>3, <2>4, <2>5, <2>7, Bystander DEF AInv
<1>7. ASSUME NEW r \in Requests, WriteSetting(r) PROVE AInv'
  <2>1. /\ At(r, "write") /\ RequestInv(r) /\ req[r] \in Request /\ req \in [Requests -> Request]
        /\ start' = req[r].newStart /\ finish' = req[r].newFinish /\ Ends(r)
        /\ UNCHANGED <<now, joined, handed>>
    BY <1>7 DEF WriteSetting, AInv, TypeOK
  <2>2. /\ r \in Editors /\ req[r].first = start /\ req[r].last = finish
        /\ start' < finish'
        /\ start' # start => now + Margin < start + req[r].age
        /\ finish' # finish => now + Margin < finish + req[r].age
    BY <2>1 DEF RequestInv, FormIsCurrent, FormIsJudged, At
  <2>3. now \in Nat /\ start \in Nat /\ finish \in Nat /\ req[r].age \in Nat /\ req[r].age <= Window
    BY <2>1 DEF AInv, TypeOK, Times, Request
  <2>4. (start' # start => now + Window < start) /\ (finish' # finish => now + Window < finish)
    BY <2>2, <2>3
  <2>5. req' \in [Requests -> Request]
    BY <2>1, EndsType
  <2>6. RequestInv(r)' /\ \A q \in Requests \ {r} : req'[q] = req[q]
    BY <2>1, EndedInv
  <2>7. TypeOK'
    BY <2>1, <2>5 DEF AInv, TypeOK, Request
  <2>8. ASSUME NEW q \in Requests \ {r} PROVE RequestInv(q)'
    <3>1. req'[q] = req[q] /\ RequestInv(q) /\ req[q] \in Request /\ joined' = joined /\ now' = now
      BY <2>1, <2>6 DEF AInv, TypeOK
    <3>2. ~(req[q].page = "setting" /\ req[q].pc # "idle")
      BY <2>2, <3>1 DEF OneEditor, RequestInv, FormIsCurrent
    <3>3. req[q].first \in Nat /\ req[q].last \in Nat /\ req[q].age \in Nat
      BY <3>1 DEF Request, Times
    <3>4. (start <= now => start' <= now) /\ (finish <= now => finish' <= now)
      BY <2>3, <2>4
    <3>5. StillAhead(q)'
      BY <2>3, <2>4, <3>1, <3>3 DEF RequestInv, StillAhead, At
    <3>6. KnowsTruth(q)'
      BY <3>1, <3>4 DEF RequestInv, KnowsTruth
    <3> QED
      BY <3>1, <3>2, <3>5, <3>6 DEF RequestInv, FormIsCurrent, FormIsJudged, Ageless,
         ShownIsAllowed, At, Accessible, IsAdmin
  <2> QED
    BY <2>2, <2>6, <2>7, <2>8 DEF AInv
<1>8. CASE UNCHANGED vars
  <2>1. req' = req /\ now' = now /\ start' = start /\ finish' = finish /\ joined' = joined
        /\ handed' = handed
    BY <1>8 DEF vars
  <2> QED
    BY <2>1, Bystander DEF AInv, TypeOK
<1> QED
  BY <1>1, <1>2, <1>3, <1>4, <1>5, <1>6, <1>7, <1>8 DEF Next

-----------------------------------------------------------------------------
\* The invariant holds in every behaviour.
THEOREM AccessInv == OneEditor => (Spec => []AInv)
<1> SUFFICES ASSUME OneEditor PROVE Spec => []AInv
  OBVIOUS
<1>1. AInv /\ [Next]_vars => AInv'
  BY StepInv
<1> QED
  BY InitInv, <1>1, PTL DEF Spec

\* Every variable has its type.
THEOREM AccessTypes == OneEditor => (Spec => []TypeOK)
<1>1. AInv => TypeOK
  BY DEF AInv
<1> QED
  BY AccessInv, <1>1, PTL

\* Nobody but an administrator is sent a problem of a contest that has not
\* started by the row as it is then, though it be moved while the page is made.
THEOREM NobodyPeeksEver == OneEditor => (Spec => []NobodyPeeks)
<1>1. ASSUME AInv PROVE NobodyPeeks
  <2> SUFFICES ASSUME NEW r \in Requests, At(r, "shown"), req[r].page = "problem", ~IsAdmin(r)
               PROVE  start <= now
    BY DEF NobodyPeeks
  <2>1. Accessible(r) /\ KnowsTruth(r)
    BY <1>1 DEF AInv, RequestInv, ShownIsAllowed
  <2>2. start <= now \/ finish <= now
    BY <2>1 DEF Accessible, KnowsTruth, At
  <2>3. start \in Nat /\ finish \in Nat /\ now \in Nat /\ start < finish
    BY <1>1 DEF AInv, TypeOK, Times
  <2> QED
    BY <2>2, <2>3
<1> QED
  BY AccessInv, <1>1, PTL

\* Nobody but an administrator is sent a submission of another user before the
\* contest is over by the row as it is then.
THEOREM NobodyCopiesEver == OneEditor => (Spec => []NobodyCopies)
<1>1. AInv => NobodyCopies
  BY DEF AInv, NobodyCopies, RequestInv, ShownIsAllowed, KnowsTruth, At
<1> QED
  BY AccessInv, <1>1, PTL

\* A contest is on one of the three lists.
THEOREM ListedOnceEver == OneEditor => (Spec => []ListedOnce)
<1>1. ASSUME AInv PROVE ListedOnce
  <2>1. start \in Nat /\ finish \in Nat /\ now \in Nat /\ start < finish
    BY <1>1 DEF AInv, TypeOK, Times
  <2> DEFINE L == {k \in {"running", "coming", "closed"} : OnList(k)}
  <2>2. L = {"running"} \/ L = {"coming"} \/ L = {"closed"}
    <3>1. CASE start > now
      BY <2>1, <3>1 DEF OnList
    <3>2. CASE start <= now /\ finish > now
      BY <2>1, <3>2 DEF OnList
    <3>3. CASE finish <= now
      BY <2>1, <3>3 DEF OnList
    <3> QED
      BY <2>1, <3>1, <3>2, <3>3
  <2> QED
    BY <2>2, FS_Singleton DEF ListedOnce
<1> QED
  BY AccessInv, <1>1, PTL

\* Who is offered to join is let in, unless the contest is over or he is in.
THEOREM ButtonWorksEver == OneEditor => (Spec => []ButtonWorks)
<1>1. AInv => ButtonWorks
  BY DEF AInv, ButtonWorks, RequestInv, KnowsTruth, At, Accessible, JoinButton, IsAdmin
<1> QED
  BY AccessInv, <1>1, PTL

\* Who hands in takes part, is an administrator, or the contest is over.
THEOREM SubmittersTakePartEver == OneEditor => (Spec => SubmittersTakePart)
<1>1. ASSUME AInv, Next, NEW u \in handed' \ handed
      PROVE  u \in joined \/ u \in Admins \/ finish <= now
  <2>1. PICK r \in Requests : Submit(r)
    BY <1>1 DEF Next, Tick, ReadContest, ReadParticipation, Show, Join, CheckSetting, WriteSetting, Finish
  <2>2. u = req[r].user /\ Accessible(r) /\ KnowsTruth(r) /\ At(r, "work")
    BY <1>1, <2>1 DEF Submit, AInv, RequestInv
  <2> QED
    BY <2>2 DEF Accessible, KnowsTruth, At, IsAdmin
<1>2. AInv /\ [Next]_vars => [\A u \in handed' \ handed :
                                u \in joined \/ u \in Admins \/ finish <= now]_vars
  BY <1>1
<1> QED
  BY AccessInv, <1>2, PTL DEF Spec, SubmittersTakePart

\* With one setting form at a time, a time that has come is not moved.
THEOREM TimesAreFixed == OneEditor => (Spec => TimesFixed)
<1>1. ASSUME AInv, Next
      PROVE  (start' # start => now < start) /\ (finish' # finish => now < finish)
  <2>1. CASE \E r \in Requests : WriteSetting(r)
    <3>1. PICK r \in Requests : WriteSetting(r)
      BY <2>1
    <3>2. RequestInv(r) /\ req[r] \in Request /\ now \in Nat /\ start \in Nat /\ finish \in Nat
      BY <1>1 DEF AInv, TypeOK, Times
    <3>3. req[r].age \in Nat /\ req[r].age <= Window
      BY <3>2, ContestAccessAssumption DEF Request, ContestAccessAssumption
    <3>4. /\ req[r].newStart # start => now + Margin < start + req[r].age
          /\ req[r].newFinish # finish => now + Margin < finish + req[r].age
      BY <3>1, <3>2 DEF WriteSetting, RequestInv, FormIsCurrent, FormIsJudged, At
    <3> QED
      BY <3>1, <3>2, <3>3, <3>4, ContestAccessAssumption DEF WriteSetting, ContestAccessAssumption
  <2>2. CASE ~\E r \in Requests : WriteSetting(r)
    BY <1>1, <2>2 DEF Next, Tick, ReadContest, ReadParticipation, Show, Join, Submit, CheckSetting,
       Finish, Contest
  <2> QED
    BY <2>1, <2>2
<1>2. AInv /\ [Next]_vars =>
        [(start' # start => now < start) /\ (finish' # finish => now < finish)]_vars
  BY <1>1
<1> QED
  BY AccessInv, <1>2, PTL DEF Spec, TimesFixed

=============================================================================
