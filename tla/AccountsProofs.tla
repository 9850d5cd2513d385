--------------------------- MODULE AccountsProofs ---------------------------
(***************************************************************************)
(* What Accounts guarantees for any number of users and requests, any life   *)
(* of tokens, and whatever fails.                                           *)
(***************************************************************************)
EXTENDS Accounts, TLAPS

(***************************************************************************)
(* The inductive invariant.                                                 *)
(***************************************************************************)
\* A token is one of a kind, and one that went out by mail is of the user whose
\* address it went to.
TokensAgree ==
  /\ (\A t \in tokens : t.id <= made) /\ (\A i \in known : i <= made)
  /\ \A s, t \in tokens : s.id = t.id => s.service = t.service /\ s.value = t.value
  /\ \A t \in tokens : t.service = "mail_conf" =>
       t.value \in Users /\ (t.id \in known => Delivered(t.id, t.value))

\* What a handler holds of a token stays true of it until the handler removes it.
RequestInv(r) ==
  /\ req[r].pc \notin {"idle", "get", "del", "enable"} => req[r].user \in Users
  /\ At(r, "session") => account[req[r].user] = "enabled"
  /\ req[r].kind \in {"signup", "confirm", "password"} => req[r].id \in known
  /\ req[r].kind = "password" => req[r].user \in Users
  /\ At(r, "check") => req[r].kind = "signup"
  /\ At(r, "get") => req[r].kind \in {"confirm", "password"}
  /\ At(r, "del") =>
       /\ req[r].kind \in {"confirm", "password"}
       /\ \A t \in tokens : t.id = req[r].id => t.service = Service(r) /\ t.value = req[r].value
       /\ req[r].kind = "confirm" => req[r].value \in Users /\ Delivered(req[r].id, req[r].value)
  /\ At(r, "enable") => req[r].value \in Users /\ Delivered(req[r].id, req[r].value)
  /\ At(r, "update") => req[r].value = req[r].user

SessionsAreEnabled == \A u \in sessions : account[u] = "enabled"

\* A user is enabled only when none had to confirm, by the default of the column,
\* or after a mail reached his address.
EnabledWasMailed == \A u \in Users : account[u] = "enabled" => u \in free \/ Mailed(u)

UInv == /\ TypeOK /\ TokensAgree /\ SessionsAreEnabled /\ EnabledWasMailed
        /\ \A r \in Requests : RequestInv(r)

-----------------------------------------------------------------------------
\* The invariant holds at the start.
LEMMA InitInv == Init => UInv
<1> SUFFICES ASSUME Init PROVE UInv
  OBVIOUS
<1>1. Idle \in Request
  BY AccountsAssumption DEF AccountsAssumption, Idle, Request
<1>2. TypeOK
  BY <1>1, AccountsAssumption DEF AccountsAssumption, Init, TypeOK, Passwords
<1>3. \A r \in Requests : RequestInv(r)
  BY DEF Init, Idle, RequestInv, At
<1> QED
  BY <1>2, <1>3 DEF Init, UInv, TokensAgree, SessionsAreEnabled, EnabledWasMailed

\* No mail is lost, no account disabled, and a token is an old one or has a new id.
Grows ==
  /\ mailbox \subseteq mailbox' /\ known \subseteq known'
  /\ \A u \in Users : account[u] = "enabled" => account'[u] = "enabled"
  /\ \A t \in tokens' :
       \/ t.id = made + 1
       \/ \E s \in tokens : s.id = t.id /\ s.service = t.service /\ s.value = t.value

\* A request that does not move keeps its part.
LEMMA Bystander ==
  ASSUME UInv, NEW q \in Requests, req'[q] = req[q], Grows
  PROVE  RequestInv(q)'
<1> DEFINE i == req[q].id
<1>1. RequestInv(q)
  BY DEF UInv
<1>2. \A u : Delivered(i, u) => Delivered(i, u)'
  BY DEF Delivered, Grows
<1>3. i \in known => i <= made /\ i # made + 1
  <2>1. made \in 0 .. MaxToken /\ known \subseteq Ids /\ MaxToken \in Nat
    BY AccountsAssumption DEF AccountsAssumption, UInv, TypeOK
  <2>2. i \in known => i <= made /\ i \in Ids
    BY <2>1 DEF UInv, TokensAgree
  <2> QED
    BY <2>1, <2>2 DEF Ids
<1>4. At(q, "del") => \A t \in tokens' : t.id = i => t.service = Service(q) /\ t.value = req[q].value
  BY <1>1, <1>3 DEF RequestInv, Grows
<1>5. At(q, "del")' => \A t \in tokens' : t.id = req[q].id' => t.service = Service(q)' /\ t.value = req[q].value'
  BY <1>4 DEF At, Service
<1>6. At(q, "session") => account'[req[q].user] = "enabled"
  BY <1>1 DEF RequestInv, Grows, At
<1> QED
  BY <1>1, <1>2, <1>5, <1>6 DEF RequestInv, Grows, At, Delivered

\* How a handler goes on.
LEMMA GoesType ==
  ASSUME NEW r \in Requests, NEW pc \in {"idle", "check", "add", "session", "mail", "register",
                                         "send", "told", "get", "del", "enable", "update"},
         req \in [Requests -> Request], Goes(r, pc)
  PROVE  /\ req' \in [Requests -> Request] /\ \A q \in Requests \ {r} : req'[q] = req[q]
         /\ req'[r] = [req[r] EXCEPT !.pc = pc] /\ req[r] \in Request
BY DEF Goes, Request

\* A request that ends leaves its place idle, and the others as they are.
LEMMA EndsType ==
  ASSUME NEW r \in Requests, req \in [Requests -> Request], Ends(r)
  PROVE  /\ req' \in [Requests -> Request] /\ \A q \in Requests \ {r} : req'[q] = req[q]
         /\ RequestInv(r)' /\ req'[r] = Idle
<1>1. Idle \in Request
  BY AccountsAssumption DEF AccountsAssumption, Idle, Request
<1> QED
  BY <1>1 DEF Ends, RequestInv, At, Idle

\* A request that opens is well formed, and the others stay as they are.
LEMMA OpensType ==
  ASSUME NEW r \in Requests, NEW k \in {"signup", "login", "confirm", "password"},
         NEW pc \in {"check", "session", "mail", "get"}, NEW u \in Users \cup {Nobody},
         NEW i \in 0 .. MaxToken, req \in [Requests -> Request], Opens(r, k, pc, u, i)
  PROVE  /\ req' \in [Requests -> Request] /\ \A q \in Requests \ {r} : req'[q] = req[q]
         /\ req'[r] = [pc |-> pc, kind |-> k, user |-> u, id |-> i, value |-> Nobody]
BY DEF Opens, Request

\* Counting a form that was let through.
LEMMA LetsType ==
  ASSUME NEW r \in Requests, uses \in [Ids -> 0 .. 2], Lets(r)
  PROVE  uses' \in [Ids -> 0 .. 2]
<1> DEFINE i == req[r].id
           n == IF uses[i] < 2 THEN uses[i] + 1 ELSE 2
<1>1. uses' = [uses EXCEPT ![i] = n]
  BY DEF Lets
<1>2. i \in Ids => n \in 0 .. 2
  OBVIOUS
<1> HIDE DEF i, n
<1> QED
  BY <1>1, <1>2

\* A handler's step that touches nothing but its own place, tokens it removes
\* and what is counted.
LEMMA OwnStep ==
  ASSUME UInv, NEW r \in Requests, req' \in [Requests -> Request],
         \A q \in Requests \ {r} : req'[q] = req[q], RequestInv(r)',
         UNCHANGED <<account, pass, free, sessions, made, mailbox, known>>,
         tokens' \subseteq tokens, lastSent' \in [Users -> 0 .. Interval], uses' \in [Ids -> 0 .. 2],
         twice' \subseteq Ids, hit' \subseteq Users
  PROVE  UInv'
<1>1. TypeOK' /\ TokensAgree'
  BY DEF UInv, TypeOK, TokensAgree, Delivered
<1>2. SessionsAreEnabled' /\ EnabledWasMailed'
  BY DEF UInv, SessionsAreEnabled, EnabledWasMailed, Mailed
<1>3. Grows
  BY DEF Grows
<1>4. \A q \in Requests : RequestInv(q)'
  BY <1>3, Bystander
<1> QED
  BY <1>1, <1>2, <1>4 DEF UInv

\* A new token, shown on a page or put into a mail.
LEMMA RegisterAgrees ==
  ASSUME UInv, NEW s \in Services, NEW v \in Users \cup {Nobody}, NEW stored \in BOOLEAN,
         Register(s, v, stored), UNCHANGED account, s = "mail_conf" => v \in Users,
         \/ mailbox' = mailbox /\ known' = known
         \/ mailbox' = mailbox /\ known' = known \cup {made + 1} /\ s # "mail_conf"
         \/ v \in Users /\ mailbox' = mailbox \cup {[id |-> made + 1, user |-> v]}
            /\ known' = known \cup {made + 1}
  PROVE  /\ TokensAgree' /\ tokens' \subseteq Token /\ made' \in 0 .. MaxToken /\ known' \subseteq Ids
         /\ mailbox' \subseteq [id : Ids, user : Users] /\ Grows
<1> USE AccountsAssumption DEF AccountsAssumption
<1> DEFINE t == [id |-> made + 1, service |-> s, value |-> v, left |-> Life]
           m == [id |-> made + 1, user |-> v]
<1>1. made \in 0 .. MaxToken /\ made < MaxToken /\ made' = made + 1
      /\ tokens \subseteq Token /\ mailbox \subseteq [id : Ids, user : Users] /\ known \subseteq Ids
  BY DEF Register, UInv, TypeOK
<1>2. tokens' \subseteq tokens \cup {t}
  BY DEF Register
<1>3. made + 1 \in Ids /\ made' \in 0 .. MaxToken
  BY <1>1 DEF Ids
<1>4. t \in Token /\ t.id = made + 1 /\ t.value = v /\ t.service = s
  BY <1>3 DEF Token
<1>5. m.id = made + 1 /\ m.user = v /\ (v \in Users => m \in [id : Ids, user : Users])
  BY <1>3
<1>6. \A x \in tokens : x.id \in Int /\ x.id <= made
  BY <1>1 DEF UInv, TokensAgree, Token, Ids
<1>7. \A i \in known : i \in Int /\ i <= made
  BY <1>1 DEF UInv, TokensAgree, Ids
<1>8. known \subseteq known' /\ known' \subseteq known \cup {made + 1} /\ mailbox \subseteq mailbox'
      /\ (mailbox' = mailbox \/ (v \in Users /\ mailbox' = mailbox \cup {m}))
  OBVIOUS
<1>9. s = "mail_conf" /\ made + 1 \in known' => m \in mailbox'
  BY <1>1, <1>7
<1> HIDE DEF t, m
<1>10. mailbox' \subseteq [id : Ids, user : Users] /\ known' \subseteq Ids
  BY <1>1, <1>3, <1>5, <1>8
<1>11. \A x \in tokens' : x \in tokens \/ x = t
  BY <1>2
<1>12. \A x, y \in tokens' : x.id = y.id => x.service = y.service /\ x.value = y.value
  <2> SUFFICES ASSUME NEW x \in tokens', NEW y \in tokens', x.id = y.id
               PROVE  x.service = y.service /\ x.value = y.value
    OBVIOUS
  <2>1. CASE x \in tokens /\ y \in tokens
    BY <2>1 DEF UInv, TokensAgree
  <2>2. CASE x \notin tokens \/ y \notin tokens
    BY <1>1, <1>4, <1>6, <1>11, <2>2
  <2> QED
    BY <2>1, <2>2
<1>13. ASSUME NEW x \in tokens', x.service = "mail_conf"
       PROVE  x.value \in Users /\ (x.id \in known' => Delivered(x.id, x.value)')
  <2>1. CASE x \in tokens
    <3>1. x.id \in known' => x.id \in known
      BY <1>1, <1>6, <1>8, <2>1
    <3> QED
      BY <1>8, <1>13, <2>1, <3>1 DEF UInv, TokensAgree, Delivered
  <2>2. CASE x = t
    BY <1>4, <1>5, <1>9, <1>13, <2>2 DEF Delivered
  <2> QED
    BY <1>11, <2>1, <2>2
<1>14. (\A x \in tokens' : x.id <= made') /\ (\A i \in known' : i <= made')
  BY <1>1, <1>4, <1>6, <1>7, <1>8, <1>11
<1>15. TokensAgree'
  BY <1>12, <1>13, <1>14 DEF TokensAgree
<1>16. tokens' \subseteq Token
  BY <1>1, <1>4, <1>11
<1>17. Grows
  BY <1>4, <1>8, <1>11 DEF Grows
<1> QED
  BY <1>3, <1>10, <1>15, <1>16, <1>17

-----------------------------------------------------------------------------
\* Every step keeps the invariant.
LEMMA StepInv ==
  ASSUME UInv, [Next]_vars
  PROVE  UInv'
<1> USE AccountsAssumption DEF AccountsAssumption
<1>t. /\ req \in [Requests -> Request] /\ uses \in [Ids -> 0 .. 2] /\ tokens \subseteq Token
      /\ lastSent \in [Users -> 0 .. Interval] /\ account \in [Users -> {"none", "disabled", "enabled"}]
      /\ pass \in [Users -> Passwords] /\ free \subseteq Users /\ sessions \subseteq Users
      /\ made \in 0 .. MaxToken /\ mailbox \subseteq [id : Ids, user : Users]
      /\ known \subseteq Ids /\ twice \subseteq Ids /\ hit \subseteq Users
      /\ \A i \in known : i \in 0 .. MaxToken
  BY DEF UInv, TypeOK, Ids
<1>1. CASE Tick
  <2>1. UNCHANGED <<account, pass, free, sessions, made, mailbox, known, uses, twice, hit, req>>
    BY <1>1 DEF Tick, Users_, Mail, Forms
  <2>2. \A u \in Users : lastSent'[u] \in 0 .. Interval
    BY <1>1, <1>t DEF Tick
  <2>3. lastSent' \in [Users -> 0 .. Interval]
    BY <1>1, <2>2 DEF Tick
  <2>4. \A x \in tokens' : \E t \in tokens : x = [t EXCEPT !.left = t.left - 1] /\ t.left > 1
    BY <1>1 DEF Tick
  <2>5. \A x \in tokens' : x \in Token /\ \E t \in tokens : x.id = t.id /\ x.service = t.service /\ x.value = t.value
    BY <1>t, <2>4 DEF Token
  <2>6. TypeOK' /\ TokensAgree'
    BY <1>t, <2>1, <2>3, <2>5 DEF UInv, TypeOK, TokensAgree, Delivered
  <2>8. Grows
    BY <2>1, <2>5 DEF Grows
  <2>7. SessionsAreEnabled' /\ EnabledWasMailed'
    BY <2>1 DEF UInv, SessionsAreEnabled, EnabledWasMailed, Mailed
  <2> QED
    BY <2>1, <2>6, <2>7, <2>8, Bystander DEF UInv
<1>2. CASE OpenPage
  <2>1. UNCHANGED <<account, pass, free, sessions, lastSent, mailbox, uses, twice, hit, req>>
        /\ known' = known \cup {made + 1}
    BY <1>2 DEF OpenPage, Users_, Forms
  <2>2. \E s \in Services \ {"mail_conf"}, v \in Users \cup {Nobody}, stored \in BOOLEAN : Register(s, v, stored)
    BY <1>2, <1>t DEF OpenPage, Services
  <2>3. TokensAgree' /\ tokens' \subseteq Token /\ made' \in 0 .. MaxToken /\ known' \subseteq Ids /\ Grows
    BY <2>1, <2>2, RegisterAgrees
  <2>4. TypeOK'
    BY <1>t, <2>1, <2>3 DEF TypeOK
  <2>5. SessionsAreEnabled' /\ EnabledWasMailed'
    BY <2>1 DEF UInv, SessionsAreEnabled, EnabledWasMailed, Mailed
  <2> QED
    BY <2>1, <2>3, <2>4, <2>5, Bystander DEF UInv
<1>3. ASSUME NEW u \in Users, Logout(u) PROVE UInv'
  <2>1. UNCHANGED <<account, pass, free, tokens, made, lastSent, mailbox, known, uses, twice, hit, req>> /\ sessions' \subseteq sessions
    BY <1>3 DEF Logout, Users_, Redis, Mail, Forms
  <2>2. TypeOK' /\ TokensAgree'
    BY <1>t, <2>1 DEF UInv, TypeOK, TokensAgree, Delivered
  <2>3. SessionsAreEnabled' /\ EnabledWasMailed'
    BY <2>1 DEF UInv, SessionsAreEnabled, EnabledWasMailed, Mailed
  <2>4. Grows
    BY <2>1 DEF Grows
  <2> QED
    BY <2>1, <2>2, <2>3, <2>4, Bystander DEF UInv
<1>4. ASSUME NEW r \in Requests, Signup(r) PROVE UInv'
  <2>1. PICK u \in Users, i \in known : Opens(r, "signup", "check", u, i)
    BY <1>4 DEF Signup
  <2>2. i \in 0 .. MaxToken
    BY <1>t
  <2>3. UNCHANGED <<account, pass, free, sessions, tokens, made, lastSent, mailbox, known, uses, twice, hit>>
    BY <1>4 DEF Signup, Users_, Redis, Mail, Forms
  <2>4. req' \in [Requests -> Request] /\ (\A q \in Requests \ {r} : req'[q] = req[q])
        /\ req'[r] = [pc |-> "check", kind |-> "signup", user |-> u, id |-> i, value |-> Nobody]
    BY <1>t, <2>1, <2>2, OpensType
  <2>5. RequestInv(r)'
    BY <2>3, <2>4 DEF RequestInv, At
  <2> QED
    BY <1>t, <2>3, <2>4, <2>5, OwnStep
<1>5. ASSUME NEW r \in Requests, Login(r) PROVE UInv'
  <2>1. PICK u \in Users :
          Opens(r, "login", IF account[u] = "enabled" THEN "session" ELSE "mail", u, 0)
    BY <1>5 DEF Login
  <2>2. UNCHANGED <<account, pass, free, sessions, tokens, made, lastSent, mailbox, known, uses, twice, hit>>
    BY <1>5 DEF Login, Users_, Redis, Mail, Forms
  <2>3. req' \in [Requests -> Request] /\ (\A q \in Requests \ {r} : req'[q] = req[q])
        /\ req'[r] = [pc |-> IF account[u] = "enabled" THEN "session" ELSE "mail",
                      kind |-> "login", user |-> u, id |-> 0, value |-> Nobody]
    BY <1>t, <2>1, OpensType
  <2>4. RequestInv(r)'
    BY <2>2, <2>3 DEF RequestInv, At
  <2> QED
    BY <1>t, <2>2, <2>3, <2>4, OwnStep
<1>6. ASSUME NEW r \in Requests, Confirm(r) PROVE UInv'
  <2>1. PICK i \in known : Opens(r, "confirm", "get", Nobody, i)
    BY <1>6 DEF Confirm
  <2>2. UNCHANGED <<account, pass, free, sessions, tokens, made, lastSent, mailbox, known, uses, twice, hit>>
    BY <1>6 DEF Confirm, Users_, Redis, Mail, Forms
  <2>3. req' \in [Requests -> Request] /\ (\A q \in Requests \ {r} : req'[q] = req[q])
        /\ req'[r] = [pc |-> "get", kind |-> "confirm", user |-> Nobody, id |-> i, value |-> Nobody]
    BY <1>t, <2>1, OpensType
  <2>4. RequestInv(r)'
    BY <2>2, <2>3 DEF RequestInv, At
  <2> QED
    BY <1>t, <2>2, <2>3, <2>4, OwnStep
<1>7. ASSUME NEW r \in Requests, Password(r) PROVE UInv'
  <2>1. PICK u \in sessions, i \in known : Opens(r, "password", "get", u, i)
    BY <1>7 DEF Password
  <2>2. UNCHANGED <<account, pass, free, sessions, tokens, made, lastSent, mailbox, known, uses, twice, hit>>
    BY <1>7 DEF Password, Users_, Redis, Mail, Forms
  <2>3. u \in Users /\ i \in 0 .. MaxToken
    BY <1>t
  <2>4. req' \in [Requests -> Request] /\ (\A q \in Requests \ {r} : req'[q] = req[q])
        /\ req'[r] = [pc |-> "get", kind |-> "password", user |-> u, id |-> i, value |-> Nobody]
    BY <1>t, <2>1, <2>3, OpensType
  <2>5. RequestInv(r)'
    BY <2>2, <2>3, <2>4 DEF RequestInv, At
  <2> QED
    BY <1>t, <2>2, <2>4, <2>5, OwnStep
<1>8. ASSUME NEW r \in Requests, CheckSignup(r) PROVE UInv'
  <2>1. UNCHANGED <<account, pass, free, sessions, made, lastSent, mailbox, known, hit>> /\ tokens' \subseteq tokens
    BY <1>8 DEF CheckSignup, Users_, Mail
  <2>2. uses' \in [Ids -> 0 .. 2] /\ twice' \subseteq Ids
    <3>1. CASE Lets(r)
      <4>1. uses' \in [Ids -> 0 .. 2]
        BY <1>t, <3>1, LetsType
      <4>2. req[r].id \in Ids
        BY <1>8, <1>t DEF CheckSignup, UInv, RequestInv, At, Request
      <4> QED
        BY <1>8, <1>t, <4>1, <4>2 DEF CheckSignup, Excuses, Forms
    <3>2. CASE UNCHANGED <<uses, twice>>
      BY <1>t, <3>2
    <3> QED
      BY <1>8, <3>1, <3>2 DEF CheckSignup, Forms
  <2>3. At(r, "check") /\ RequestInv(r) /\ (Goes(r, "add") \/ Ends(r))
    BY <1>8 DEF CheckSignup, Filled, UInv
  <2>4. CASE Goes(r, "add")
    <3>1. req' \in [Requests -> Request] /\ (\A q \in Requests \ {r} : req'[q] = req[q])
          /\ req'[r] = [req[r] EXCEPT !.pc = "add"] /\ req[r] \in Request
      BY <1>t, <2>4, GoesType
    <3>2. RequestInv(r)'
      BY <2>1, <2>3, <3>1 DEF RequestInv, At, Request, Delivered
    <3> QED
      BY <1>t, <2>1, <2>2, <3>1, <3>2, OwnStep
  <2>5. CASE Ends(r)
    BY <1>t, <2>1, <2>2, <2>5, EndsType, OwnStep
  <2> QED
    BY <2>3, <2>4, <2>5
<1>9. ASSUME NEW r \in Requests, AddUser(r) PROVE UInv'
  <2>1. UNCHANGED <<pass, sessions, tokens, made, lastSent, mailbox, known, uses, twice, hit>> /\ At(r, "add")
        /\ RequestInv(r) /\ req[r].user \in Users
    BY <1>9 DEF AddUser, Redis, Mail, Forms, UInv, RequestInv, At
  <2>2. CASE account[req[r].user] # "none" /\ Ends(r) /\ UNCHANGED <<account, free>>
    BY <1>t, <2>1, <2>2, EndsType, OwnStep
  <2>3. ASSUME NEW c \in Certify, NEW how \in Stores,
               /\ account[req[r].user] = "none"
               /\ account' = [account EXCEPT ![req[r].user] = Stored(~c, how)]
               /\ free' = IF c /\ how = "given" THEN free ELSE free \cup {req[r].user}
               /\ Goes(r, IF c THEN "mail" ELSE "session")
        PROVE  UInv'
    <3> DEFINE u == req[r].user
    <3>1. req' \in [Requests -> Request] /\ (\A q \in Requests \ {r} : req'[q] = req[q])
          /\ req'[r] = [req[r] EXCEPT !.pc = IF c THEN "mail" ELSE "session"] /\ req[r] \in Request
      BY <1>t, <2>3, GoesType
    <3>2. /\ Stored(~c, how) \in {"disabled", "enabled"} /\ (~c => Stored(~c, how) = "enabled")
          /\ (c /\ how = "given" => Stored(~c, how) = "disabled")
      BY DEF Stored
    <3>3. account'[u] = Stored(~c, how) /\ \A x \in Users \ {u} : account'[x] = account[x]
      BY <1>t, <2>1, <2>3
    <3>4. account' \in [Users -> {"none", "disabled", "enabled"}] /\ free' \subseteq Users
      BY <1>t, <2>1, <2>3, <3>2
    <3>5. TypeOK' /\ TokensAgree'
      BY <1>t, <2>1, <3>1, <3>4 DEF UInv, TypeOK, TokensAgree, Delivered
    <3>6. \A x \in Users : account[x] = "enabled" => account'[x] = "enabled"
      BY <2>3, <3>3
    <3>7. SessionsAreEnabled'
      BY <1>t, <2>1, <3>6 DEF UInv, SessionsAreEnabled
    <3>8. EnabledWasMailed'
      BY <1>t, <2>1, <2>3, <3>2, <3>3 DEF UInv, EnabledWasMailed, Mailed
    <3>9. RequestInv(r)'
      BY <2>1, <3>1, <3>2, <3>3 DEF RequestInv, At, Request, Delivered
    <3>10. Grows
      BY <2>1, <3>6 DEF Grows
    <3> QED
      BY <2>1, <3>1, <3>5, <3>7, <3>8, <3>9, <3>10, Bystander DEF UInv
  <2> QED
    BY <1>9, <2>2, <2>3 DEF AddUser
<1>10. ASSUME NEW r \in Requests, AddSession(r) PROVE UInv'
  <2>1. UNCHANGED <<account, pass, free, tokens, made, lastSent, mailbox, known, uses, twice, hit>> /\ Ends(r)
        /\ sessions' = sessions \cup {req[r].user} /\ req[r].user \in Users
        /\ account[req[r].user] = "enabled"
    BY <1>10 DEF AddSession, Users_, Redis, Mail, Forms, UInv, RequestInv, At
  <2>2. req' \in [Requests -> Request] /\ (\A q \in Requests \ {r} : req'[q] = req[q]) /\ RequestInv(r)'
    BY <1>t, <2>1, EndsType
  <2>3. TypeOK' /\ TokensAgree'
    BY <1>t, <2>1, <2>2 DEF UInv, TypeOK, TokensAgree, Delivered
  <2>4. SessionsAreEnabled' /\ EnabledWasMailed'
    BY <2>1 DEF UInv, SessionsAreEnabled, EnabledWasMailed, Mailed
  <2>5. Grows
    BY <2>1 DEF Grows
  <2> QED
    BY <2>1, <2>2, <2>3, <2>4, <2>5, Bystander DEF UInv
<1>11. ASSUME NEW r \in Requests, MailCheck(r) \/ MailRegister(r) \/ Read(r) PROVE UInv'
  <2>1. UNCHANGED <<account, pass, free, sessions, tokens, made, mailbox, known, uses, twice, hit>>
        /\ RequestInv(r) /\ req[r].pc \in {"mail", "register", "told"}
    BY <1>11 DEF MailCheck, MailRegister, Read, Users_, Redis, Mail, Forms, UInv, At
  <2>2. lastSent' \in [Users -> 0 .. Interval]
    BY <1>11, <1>t DEF MailCheck, MailRegister, Read, Redis
  <2>3. Ends(r) \/ \E pc \in {"told", "register", "send"} : Goes(r, pc)
    BY <1>11 DEF MailCheck, MailRegister, Read
  <2>4. CASE Ends(r)
    BY <1>t, <2>1, <2>2, <2>4, EndsType, OwnStep
  <2>5. ASSUME NEW pc \in {"told", "register", "send"}, Goes(r, pc) PROVE UInv'
    <3>1. req' \in [Requests -> Request] /\ (\A q \in Requests \ {r} : req'[q] = req[q])
          /\ req'[r] = [req[r] EXCEPT !.pc = pc] /\ req[r] \in Request
      BY <1>t, <2>5, GoesType
    <3>2. RequestInv(r)'
      BY <2>1, <3>1 DEF RequestInv, At, Request, Delivered
    <3> QED
      BY <1>t, <2>1, <2>2, <3>1, <3>2, OwnStep
  <2> QED
    BY <2>3, <2>4, <2>5
<1>12. ASSUME NEW r \in Requests, MailSend(r) PROVE UInv'
  <2>1. UNCHANGED <<account, pass, free, sessions, lastSent, uses, twice>> /\ Ends(r) /\ req[r].user \in Users
    BY <1>12 DEF MailSend, Users_, Forms, UInv, RequestInv, At
  <2>2. req' \in [Requests -> Request] /\ (\A q \in Requests \ {r} : req'[q] = req[q]) /\ RequestInv(r)'
    BY <1>t, <2>1, EndsType
  <2>3. hit' \subseteq Users
    BY <1>12, <1>t, <2>1 DEF MailSend
  <2>4. CASE UNCHANGED <<tokens, made, mailbox, known>>
    BY <1>t, <2>1, <2>2, <2>3, <2>4, OwnStep
  <2>5. ASSUME NEW stored \in BOOLEAN, NEW sent \in BOOLEAN, Register("mail_conf", req[r].user, stored),
               mailbox' = IF sent THEN mailbox \cup {[id |-> made + 1, user |-> req[r].user]} ELSE mailbox,
               known' = IF sent THEN known \cup {made + 1} ELSE known
        PROVE  UInv'
    <3>1. /\ TokensAgree' /\ tokens' \subseteq Token /\ made' \in 0 .. MaxToken /\ known' \subseteq Ids
          /\ mailbox' \subseteq [id : Ids, user : Users] /\ Grows
      BY <2>1, <2>5, RegisterAgrees DEF Services
    <3>2. TypeOK'
      BY <1>t, <2>1, <2>2, <2>3, <3>1 DEF TypeOK
    <3>3. SessionsAreEnabled' /\ EnabledWasMailed'
      BY <2>1, <3>1 DEF UInv, SessionsAreEnabled, EnabledWasMailed, Mailed, Grows
    <3> QED
      BY <2>2, <3>1, <3>2, <3>3, Bystander DEF UInv
  <2> QED
    BY <1>12, <2>4, <2>5 DEF MailSend
<1>13. ASSUME NEW r \in Requests, GetToken(r) PROVE UInv'
  <2>1. UNCHANGED <<account, pass, free, sessions, tokens, made, lastSent, mailbox, known, uses, hit>>
        /\ RequestInv(r) /\ At(r, "get")
    BY <1>13 DEF GetToken, Users_, Redis, Mail, UInv
  <2>2. req[r].id \in known /\ req[r].kind \in {"confirm", "password"}
    BY <2>1 DEF RequestInv
  <2>3. twice' \subseteq Ids
    BY <1>13, <1>t, <2>2 DEF GetToken, Excuses
  <2>4. CASE Ends(r)
    BY <1>t, <2>1, <2>3, <2>4, EndsType, OwnStep
  <2>5. ASSUME NEW t \in Live(req[r].id, Service(r)),
               req' = [req EXCEPT ![r] = [@ EXCEPT !.pc = "del", !.value = t.value]]
        PROVE  UInv'
    <3>1. t \in tokens /\ t \in Token /\ t.id = req[r].id /\ t.service = Service(r)
      BY <1>t, <2>5 DEF Live
    <3>2. req[r] \in Request /\ req'[r] = [req[r] EXCEPT !.pc = "del", !.value = t.value]
          /\ \A q \in Requests \ {r} : req'[q] = req[q]
      BY <1>t, <2>5
    <3>3. req' \in [Requests -> Request]
      <4>1. req'[r] \in Request
        BY <3>1, <3>2 DEF Request, Token
      <4> QED
        BY <1>t, <2>5, <4>1
    <3>4. req'[r].kind = req[r].kind /\ req'[r].id = req[r].id /\ req'[r].user = req[r].user
          /\ req'[r].pc = "del" /\ req'[r].value = t.value
      BY <3>2 DEF Request
    <3>5. \A x \in tokens : x.id = t.id => x.service = t.service /\ x.value = t.value
      BY <3>1 DEF UInv, TokensAgree
    <3>6. req[r].kind = "confirm" => t.value \in Users /\ Delivered(t.id, t.value)
      BY <2>2, <3>1 DEF UInv, TokensAgree, Service
    <3>7. RequestInv(r)'
      BY <2>1, <2>2, <3>1, <3>4, <3>5, <3>6 DEF RequestInv, At, Delivered, Service
    <3> QED
      BY <1>t, <2>1, <2>3, <3>2, <3>3, <3>7, OwnStep
  <2> QED
    BY <1>13, <2>4, <2>5 DEF GetToken
<1>14. ASSUME NEW r \in Requests, DelToken(r) PROVE UInv'
  <2>1. UNCHANGED <<account, pass, free, sessions, made, lastSent, mailbox, known, hit>> /\ tokens' \subseteq tokens
        /\ RequestInv(r) /\ At(r, "del") /\ Lets(r)
    BY <1>14 DEF DelToken, Users_, Mail, UInv
  <2>2. uses' \in [Ids -> 0 .. 2] /\ twice' \subseteq Ids
    <3>1. uses' \in [Ids -> 0 .. 2]
      BY <1>t, <2>1, LetsType
    <3>2. req[r].id \in Ids
      BY <1>t, <2>1 DEF RequestInv
    <3> QED
      BY <1>14, <1>t, <3>1, <3>2 DEF DelToken, Excuses
  <2>3. CASE Ends(r)
    BY <1>t, <2>1, <2>2, <2>3, EndsType, OwnStep
  <2>4. CASE req[r].kind = "confirm" /\ Goes(r, "enable")
    <3>1. req' \in [Requests -> Request] /\ (\A q \in Requests \ {r} : req'[q] = req[q])
          /\ req'[r] = [req[r] EXCEPT !.pc = "enable"] /\ req[r] \in Request
      BY <1>t, <2>4, GoesType
    <3>2. RequestInv(r)'
      BY <2>1, <2>4, <3>1 DEF RequestInv, At, Request, Delivered
    <3> QED
      BY <1>t, <2>1, <2>2, <3>1, <3>2, OwnStep
  <2>5. CASE req[r].kind = "password" /\ req[r].value = req[r].user /\ Goes(r, "update")
    <3>1. req' \in [Requests -> Request] /\ (\A q \in Requests \ {r} : req'[q] = req[q])
          /\ req'[r] = [req[r] EXCEPT !.pc = "update"] /\ req[r] \in Request
      BY <1>t, <2>5, GoesType
    <3>2. RequestInv(r)'
      BY <2>1, <2>5, <3>1 DEF RequestInv, At, Request, Delivered
    <3> QED
      BY <1>t, <2>1, <2>2, <3>1, <3>2, OwnStep
  <2> QED
    BY <1>14, <2>3, <2>4, <2>5 DEF DelToken
<1>15. ASSUME NEW r \in Requests, Enable(r) PROVE UInv'
  <2>1. UNCHANGED <<pass, free, sessions, tokens, made, lastSent, mailbox, known, uses, twice, hit>> /\ Ends(r)
        /\ account' = [account EXCEPT ![req[r].value] = "enabled"]
        /\ req[r].value \in Users /\ Mailed(req[r].value)
    BY <1>15 DEF Enable, Redis, Mail, Forms, UInv, RequestInv, At, Delivered, Mailed
  <2>2. req' \in [Requests -> Request] /\ (\A q \in Requests \ {r} : req'[q] = req[q]) /\ RequestInv(r)'
    BY <1>t, <2>1, EndsType
  <2>3. TypeOK' /\ TokensAgree'
    BY <1>t, <2>1, <2>2 DEF UInv, TypeOK, TokensAgree, Delivered
  <2>4. \A x \in Users : account'[x] = IF x = req[r].value THEN "enabled" ELSE account[x]
    BY <1>t, <2>1
  <2>5. SessionsAreEnabled' /\ EnabledWasMailed'
    BY <1>t, <2>1, <2>4 DEF UInv, SessionsAreEnabled, EnabledWasMailed, Mailed
  <2>6. Grows
    BY <2>1, <2>4 DEF Grows
  <2> QED
    BY <2>2, <2>3, <2>5, <2>6, Bystander DEF UInv
<1>16. ASSUME NEW r \in Requests, UpdatePassword(r) PROVE UInv'
  <2>1. UNCHANGED <<account, free, sessions, tokens, made, lastSent, mailbox, known, uses, twice, hit>> /\ Ends(r)
        /\ \E p \in Passwords : pass' = [pass EXCEPT ![req[r].value] = p]
    BY <1>16 DEF UpdatePassword, Redis, Mail, Forms
  <2>2. req' \in [Requests -> Request] /\ (\A q \in Requests \ {r} : req'[q] = req[q]) /\ RequestInv(r)'
    BY <1>t, <2>1, EndsType
  <2>3. pass' \in [Users -> Passwords]
    BY <1>t, <2>1, ZenonT(40)
  <2>4. TypeOK' /\ TokensAgree'
    BY <1>t, <2>1, <2>2, <2>3 DEF UInv, TypeOK, TokensAgree, Delivered
  <2>5. SessionsAreEnabled' /\ EnabledWasMailed'
    BY <2>1 DEF UInv, SessionsAreEnabled, EnabledWasMailed, Mailed
  <2>6. Grows
    BY <2>1 DEF Grows
  <2> QED
    BY <2>2, <2>4, <2>5, <2>6, Bystander DEF UInv
<1>17. ASSUME NEW r \in Requests, StatementFails(r) PROVE UInv'
  <2>1. UNCHANGED <<account, pass, free, sessions, tokens, made, lastSent, mailbox, known, uses, twice>>
        /\ Ends(r) /\ hit' \subseteq Users
    BY <1>17, <1>t DEF StatementFails, Users_, Redis, Forms
  <2> QED
    BY <1>t, <2>1, EndsType, OwnStep
<1>18. CASE UNCHANGED vars
  <2>1. UNCHANGED <<account, pass, free, sessions, tokens, made, lastSent, mailbox, known, uses, twice, hit, req>>
    BY <1>18 DEF vars
  <2>2. TypeOK' /\ TokensAgree'
    BY <2>1 DEF UInv, TypeOK, TokensAgree, Delivered
  <2>3. SessionsAreEnabled' /\ EnabledWasMailed'
    BY <2>1 DEF UInv, SessionsAreEnabled, EnabledWasMailed, Mailed
  <2>4. Grows
    BY <2>1 DEF Grows
  <2> QED
    BY <2>1, <2>2, <2>3, <2>4, Bystander DEF UInv
<1> QED
  BY <1>1, <1>2, <1>3, <1>4, <1>5, <1>6, <1>7, <1>8, <1>9, <1>10, <1>11, <1>12, <1>13, <1>14,
     <1>15, <1>16, <1>17, <1>18 DEF Next

\* The invariant holds in every behaviour.
THEOREM AccountsInv == Spec => []UInv
<1>1. UInv /\ [Next]_vars => UInv'
  BY StepInv
<1> QED
  BY InitInv, <1>1, PTL DEF Spec

\* Every variable has its type.
THEOREM AccountsTypes == Spec => []TypeOK
<1>1. UInv => TypeOK
  BY DEF UInv
<1> QED
  BY AccountsInv, <1>1, PTL

\* Whoever has a session is enabled, by whatever way he got it.
THEOREM SessionsAreEnabledEver == Spec => []SessionsAreEnabled
<1>1. UInv => SessionsAreEnabled
  BY DEF UInv
<1> QED
  BY AccountsInv, <1>1, PTL

\* An account that was disabled is enabled by a link that was delivered to its
\* address, a password changes by a form of its owner, and who has a session is
\* confirmed, whatever tokens the forms come with and whatever fails.
THEOREM AuthorisedEver == Spec => Authorised
<1>1. UInv' => SessionsAreConfirmed'
  BY DEF UInv, TypeOK, SessionsAreEnabled, EnabledWasMailed, SessionsAreConfirmed
<1>2. ASSUME UInv, Next, NEW u \in Users, pass'[u] # pass[u]
      PROVE  \E r \in Requests : At(r, "update") /\ req[r].user = u
  <2>1. PICK r \in Requests : UpdatePassword(r)
    BY <1>2 DEF Next, Tick, OpenPage, Logout, StatementFails, Signup, CheckSignup, AddUser, AddSession, Login,
       MailCheck, MailRegister, MailSend, Read, Confirm, Password, GetToken, DelToken, Enable, Users_
  <2>2. At(r, "update") /\ req[r].value = req[r].user
    BY <1>2, <2>1 DEF UpdatePassword, UInv, RequestInv
  <2>3. u = req[r].value
    BY <1>2, <2>1 DEF UpdatePassword, UInv, TypeOK
  <2> QED
    BY <2>2, <2>3
<1>3. ASSUME UInv, Next, NEW u \in Users, account[u] = "disabled", account'[u] = "enabled"
      PROVE  \E r \in Requests : At(r, "enable") /\ Delivered(req[r].id, u)
  <2>1. account \in [Users -> {"none", "disabled", "enabled"}]
    BY <1>3 DEF UInv, TypeOK
  <2>2. \A r \in Requests : ~AddUser(r)
    BY <1>3, <2>1 DEF AddUser
  <2>3. PICK r \in Requests : Enable(r)
    BY <1>3, <2>2 DEF Next, Tick, OpenPage, Logout, StatementFails, Signup, CheckSignup, AddSession, Login,
       MailCheck, MailRegister, MailSend, Read, Confirm, Password, GetToken, DelToken, UpdatePassword, Users_
  <2>4. u = req[r].value
    BY <1>3, <2>1, <2>3 DEF Enable
  <2> QED
    BY <1>3, <2>3, <2>4 DEF Enable, UInv, RequestInv
<1>4. UInv /\ UInv' /\ [Next]_vars =>
        [/\ SessionsAreConfirmed'
         /\ \A u \in Users :
              /\ account[u] = "disabled" /\ account'[u] = "enabled" =>
                   \E r \in Requests : At(r, "enable") /\ Delivered(req[r].id, u)
              /\ pass'[u] # pass[u] =>
                   \E r \in Requests : At(r, "update") /\ req[r].user = u]_vars
  BY <1>1, <1>2, <1>3
<1> QED
  BY AccountsInv, <1>4, PTL DEF Spec, Authorised

-----------------------------------------------------------------------------
(***************************************************************************)
(* How requests and tokens move.                                            *)
(***************************************************************************)
\* A step of one handler.
Moves(r) ==
  \/ StatementFails(r) \/ Signup(r) \/ CheckSignup(r) \/ AddUser(r) \/ AddSession(r) \/ Login(r)
  \/ MailCheck(r) \/ MailRegister(r) \/ MailSend(r) \/ Read(r)
  \/ Confirm(r) \/ Password(r) \/ GetToken(r) \/ DelToken(r) \/ Enable(r) \/ UpdatePassword(r)

\* A step of one request leaves the others as they are.
LEMMA OthersStay ==
  ASSUME req \in [Requests -> Request], NEW r \in Requests, NEW q \in Requests, r # q, Moves(r)
  PROVE  req'[q] = req[q]
<1>1. CASE CheckSignup(r) \/ AddUser(r) \/ AddSession(r) \/ MailCheck(r) \/ MailRegister(r)
  BY <1>1 DEF CheckSignup, Filled, AddUser, AddSession, MailCheck, MailRegister, Goes, Ends
<1>2. CASE MailSend(r) \/ Read(r) \/ DelToken(r) \/ Enable(r) \/ UpdatePassword(r) \/ StatementFails(r)
  BY <1>2 DEF MailSend, Read, DelToken, Enable, UpdatePassword, StatementFails, Goes, Ends
<1>3. CASE Login(r) \/ Signup(r)
  BY <1>3 DEF Login, Signup, Opens
<1>4. CASE Confirm(r) \/ Password(r)
  BY <1>4 DEF Confirm, Password, Opens
<1>5. CASE GetToken(r)
  BY <1>5 DEF GetToken, Ends
<1> QED
  BY <1>1, <1>2, <1>3, <1>4, <1>5 DEF Moves

\* Where a request goes that moves: only MailCheck goes to the page that says
\* that the mail was sent, and only GetToken to the removal of a token.
LEMMA WhereTo ==
  ASSUME req \in [Requests -> Request], NEW r \in Requests, Moves(r)
  PROVE  /\ ~MailCheck(r) => ~At(r, "told")'
         /\ ~GetToken(r) => ~At(r, "del")'
<1>r. req[r] \in Request
  OBVIOUS
<1> DEFINE Steps == {"add", "mail", "session", "register", "send", "enable", "update"}
<1>1. Ends(r) => ~At(r, "told")' /\ ~At(r, "del")'
  BY DEF Ends, Idle, At
<1>2. ASSUME NEW pc \in Steps \cup {"told"}, Goes(r, pc) PROVE req'[r].pc = pc
  BY <1>r, <1>2 DEF Goes, Request
<1>3. CASE CheckSignup(r) \/ AddUser(r) \/ AddSession(r) \/ StatementFails(r)
  BY <1>1, <1>2, <1>3 DEF CheckSignup, Filled, AddUser, AddSession, StatementFails, At
<1>4. CASE MailRegister(r) \/ MailSend(r) \/ Read(r) \/ DelToken(r) \/ Enable(r) \/ UpdatePassword(r)
  BY <1>1, <1>2, <1>4 DEF MailRegister, MailSend, Read, DelToken, Enable, UpdatePassword, At
<1>5. CASE MailCheck(r)
  BY <1>1, <1>2, <1>5 DEF MailCheck, At
<1>6. CASE Signup(r) \/ Login(r)
  BY <1>6 DEF Signup, Login, Opens, At
<1>7. CASE Confirm(r) \/ Password(r)
  BY <1>7 DEF Confirm, Password, Opens, At
<1>8. CASE GetToken(r)
  <2>1. ASSUME NEW t \in tokens, req' = [req EXCEPT ![r] = [@ EXCEPT !.pc = "del", !.value = t.value]]
        PROVE  ~At(r, "told")'
    BY <1>r, <2>1 DEF Request, At
  <2> QED
    BY <1>1, <1>8, <2>1 DEF GetToken, Live
<1> QED
  BY <1>3, <1>4, <1>5, <1>6, <1>7, <1>8 DEF Moves

\* A step is one of a handler, or leaves the requests alone.
LEMMA WhoMoves ==
  ASSUME [Next]_vars
  PROVE  \/ \E r \in Requests : Moves(r)
         \/ (Tick \/ OpenPage \/ (\E u \in Users : Logout(u)) \/ UNCHANGED vars) /\ UNCHANGED <<req, uses, twice, hit>>
BY DEF Next, Moves, Tick, OpenPage, Logout, vars, Mail, Forms

-----------------------------------------------------------------------------
(***************************************************************************)
(* One-time tokens.                                                         *)
(***************************************************************************)
Holds(r, i) == At(r, "del") /\ req[r].id = i

\* A token that is there, or that one handler has read, has let nobody through.
OnceInv ==
  /\ \A i \in Ids : i > made => uses[i] = 0
  /\ \A i \in Ids \ twice :
       /\ uses[i] <= 1
       /\ \A t \in tokens : t.id = i => uses[i] = 0
       /\ \A r \in Requests : Holds(r, i) => uses[i] = 0
       /\ \A q, r \in Requests : Holds(q, i) /\ Holds(r, i) => q = r

\* It stays so when no form is let through and no handler reads a token.
LEMMA OnceFrame ==
  ASSUME UInv, OnceInv, uses' = uses, twice' = twice,
         \A q \in Requests, i \in Ids : Holds(q, i)' => Holds(q, i),
         \/ made' = made /\ \A t \in tokens' : \E s \in tokens : s.id = t.id
         \/ /\ made' = made + 1 /\ made + 1 \in Ids
            /\ \A t \in tokens' : t \in tokens \/ t.id = made + 1
  PROVE  OnceInv'
<1>1. made \in Int /\ made' >= made /\ made' \in Int
  BY AccountsAssumption DEF AccountsAssumption, UInv, TypeOK
<1>2. \A i \in Ids : i > made' => uses[i] = 0
  BY <1>1 DEF OnceInv, Ids
<1>3. ASSUME NEW i \in Ids \ twice, NEW t \in tokens', t.id = i PROVE uses[i] = 0
  <2>1. CASE \E s \in tokens : s.id = t.id
    BY <1>3, <2>1 DEF OnceInv
  <2>2. CASE t.id = made + 1
    BY <1>1, <1>3, <2>2 DEF OnceInv, Ids
  <2> QED
    BY <2>1, <2>2
<1> QED
  BY <1>2, <1>3 DEF OnceInv

\* Every step keeps it.
LEMMA OnceStep ==
  ASSUME UInv, OnceInv, [Next]_vars
  PROVE  OnceInv'
<1>t. /\ req \in [Requests -> Request] /\ uses \in [Ids -> 0 .. 2] /\ tokens \subseteq Token
      /\ made \in 0 .. MaxToken /\ known \subseteq Ids /\ \A r \in Requests : RequestInv(r)
  BY DEF UInv, TypeOK
<1>1. CASE (Tick \/ OpenPage \/ (\E u \in Users : Logout(u)) \/ UNCHANGED vars) /\ UNCHANGED <<req, uses, twice, hit>>
  <2>1. \A q \in Requests, i \in Ids : Holds(q, i)' => Holds(q, i)
    BY <1>1 DEF Holds, At
  <2>2. CASE Tick
    <3>1. \A x \in tokens' : \E t \in tokens : x = [t EXCEPT !.left = t.left - 1]
      BY <2>2 DEF Tick
    <3>2. \A x \in tokens' : \E t \in tokens : t.id = x.id
      BY <1>t, <3>1 DEF Token
    <3> QED
      BY <1>1, <2>1, <2>2, <3>2, OnceFrame DEF Tick
  <2>3. CASE OpenPage
    <3>1. made' = made + 1 /\ made < MaxToken
          /\ \A t \in tokens' : t \in tokens \/ t.id = made + 1
      BY <2>3 DEF OpenPage, Register
    <3>2. made + 1 \in Ids
      BY <1>t, <3>1, AccountsAssumption DEF AccountsAssumption, Ids
    <3> QED
      BY <1>1, <2>1, <3>1, <3>2, OnceFrame
  <2>4. CASE UNCHANGED <<tokens, made>>
    BY <1>1, <2>1, <2>4, OnceFrame
  <2> QED
    BY <1>1, <2>2, <2>3, <2>4 DEF Logout, vars, Redis
<1>2. ASSUME NEW r \in Requests, Moves(r) PROVE OnceInv'
  <2>1. \A q \in Requests \ {r}, i \in Ids : Holds(q, i)' <=> Holds(q, i)
    BY <1>t, <1>2, OthersStay DEF Holds, At
  <2>2. ~GetToken(r) => \A i \in Ids : ~Holds(r, i)'
    BY <1>t, <1>2, WhereTo DEF Holds
  <2>3. CASE CheckSignup(r)
    <3>1. At(r, "check") /\ req[r].id \in Ids /\ made' = made
      BY <1>t, <2>3 DEF CheckSignup, RequestInv
    <3>2. \A q \in Requests, i \in Ids : Holds(q, i)' => Holds(q, i)
      BY <2>1, <2>2, <2>3, <3>1 DEF CheckSignup, GetToken, At
    <3>3. CASE UNCHANGED <<tokens, Forms>>
      BY <3>1, <3>2, <3>3, OnceFrame DEF Forms
    <3>i. PICK i : i = req[r].id
      OBVIOUS
    <3>4. CASE Lets(r) /\ Excuses(r) /\ UNCHANGED tokens
      <4>1. \A k \in Ids \ {i} : uses'[k] = uses[k]
        BY <3>i, <1>t, <3>4 DEF Lets
      <4>2. \A k \in Ids \ twice' : k # i /\ k \notin twice
        BY <3>i, <3>4 DEF Excuses
      <4>3. i <= made /\ made \in Int /\ i \in Int
        BY <3>i, <1>t, <3>1, AccountsAssumption DEF AccountsAssumption, RequestInv, UInv, TokensAgree, Ids
      <4>4. \A k \in Ids : k > made' => uses'[k] = 0
        BY <3>i, <3>1, <4>1, <4>3 DEF OnceInv, Ids
      <4>5. ASSUME NEW k \in Ids \ twice'
            PROVE  /\ uses'[k] <= 1
                   /\ \A t \in tokens' : t.id = k => uses'[k] = 0
                   /\ \A q \in Requests : Holds(q, k)' => uses'[k] = 0
                   /\ \A q, p \in Requests : Holds(q, k)' /\ Holds(p, k)' => q = p
        BY <3>i, <3>2, <3>4, <4>1, <4>2 DEF OnceInv
      <4> QED
        BY <3>i, <4>4, <4>5 DEF OnceInv
    <3>5. CASE /\ Live(i, "signup") # {} /\ tokens' = tokens \ Live(i, "signup")
               /\ Lets(r) /\ UNCHANGED twice
      <4>1. PICK t \in tokens : t.id = i /\ t.service = "signup"
        BY <3>i, <3>5 DEF Live
      <4>2. \A k \in Ids \ {i} : uses'[k] = uses[k]
        BY <3>i, <1>t, <3>5 DEF Lets
      <4>3. i \notin twice => uses[i] = 0
        BY <3>i, <3>1, <4>1 DEF OnceInv
      <4>4. i \notin twice => uses'[i] = 1
        BY <3>i, <1>t, <3>1, <3>5, <4>3 DEF Lets
      <4>5. \A x \in tokens' : x \in tokens /\ x.id # i
        BY <3>i, <3>5, <4>1 DEF Live, UInv, TokensAgree
      <4>6. \A q \in Requests : ~Holds(q, i)'
        <5> SUFFICES ASSUME NEW q \in Requests, Holds(q, i)' PROVE FALSE
          OBVIOUS
        <5>1. Holds(q, i)
          BY <3>i, <3>1, <3>2
        <5>2. Service(q) = "signup"
          BY <3>i, <1>t, <4>1, <5>1 DEF Holds, RequestInv
        <5> QED
          BY <3>i, <5>2 DEF Service
      <4>7. i <= made /\ made \in Int /\ i \in Int
        BY <3>i, <1>t, <3>1, AccountsAssumption DEF AccountsAssumption, RequestInv, UInv, TokensAgree, Ids
      <4>8. \A k \in Ids : k > made' => uses'[k] = 0
        BY <3>i, <3>1, <4>2, <4>7 DEF OnceInv, Ids
      <4>9. ASSUME NEW k \in Ids \ twice', k # i
            PROVE  /\ uses'[k] <= 1
                   /\ \A x \in tokens' : x.id = k => uses'[k] = 0
                   /\ \A q \in Requests : Holds(q, k)' => uses'[k] = 0
                   /\ \A q, p \in Requests : Holds(q, k)' /\ Holds(p, k)' => q = p
        BY <3>i, <3>2, <3>5, <4>2, <4>5, <4>9 DEF OnceInv
      <4>10. ASSUME i \in Ids \ twice'
             PROVE  /\ uses'[i] <= 1
                    /\ \A x \in tokens' : x.id = i => uses'[i] = 0
                    /\ \A q \in Requests : Holds(q, i)' => uses'[i] = 0
                    /\ \A q, p \in Requests : Holds(q, i)' /\ Holds(p, i)' => q = p
        BY <3>i, <3>5, <4>4, <4>5, <4>6, <4>10
      <4>11. ASSUME NEW k \in Ids \ twice'
             PROVE  /\ uses'[k] <= 1
                    /\ \A x \in tokens' : x.id = k => uses'[k] = 0
                    /\ \A q \in Requests : Holds(q, k)' => uses'[k] = 0
                    /\ \A q, p \in Requests : Holds(q, k)' /\ Holds(p, k)' => q = p
        <5>1. CASE k = i
          BY <3>i, <4>10, <5>1
        <5>2. CASE k # i
          BY <3>i, <4>9, <5>2
        <5> QED
          BY <3>i, <5>1, <5>2
      <4> QED
        BY <3>i, <4>8, <4>11 DEF OnceInv
    <3> QED
      BY <3>i, <2>3, <3>3, <3>4, <3>5 DEF CheckSignup
  <2>4. CASE DelToken(r)
    <3>i. PICK i : i = req[r].id
      OBVIOUS
    <3>1. At(r, "del") /\ i \in Ids /\ made' = made /\ Lets(r)
      BY <3>i, <1>t, <2>4 DEF DelToken, RequestInv
    <3>2. \A q \in Requests, k \in Ids : Holds(q, k)' => Holds(q, k) /\ q # r
      BY <3>i, <2>1, <2>2, <2>4, <3>1 DEF DelToken, GetToken, At
    <3>3. \A k \in Ids \ {i} : uses'[k] = uses[k]
      BY <3>i, <1>t, <3>1 DEF Lets
    <3>4. i <= made /\ made \in Int /\ i \in Int
      BY <3>i, <1>t, <3>1, AccountsAssumption DEF AccountsAssumption, RequestInv, UInv, TokensAgree, Ids
    <3>5. \A k \in Ids : k > made' => uses'[k] = 0
      BY <3>i, <3>1, <3>3, <3>4 DEF OnceInv, Ids
    <3>6. tokens' \subseteq tokens /\ \A k \in Ids \ twice' : k \notin twice
      BY <3>i, <2>4 DEF DelToken, Excuses
    <3>7. i \notin twice => uses'[i] = 1
      <4>1. i \notin twice => uses[i] = 0
        BY <3>i, <3>1 DEF OnceInv, Holds
      <4> QED
        BY <3>i, <1>t, <3>1, <4>1 DEF Lets
    <3>8. i \notin twice' => \A t \in tokens' : t.id # i
      <4>1. i \notin twice' => tokens' = tokens \ Live(i, Service(r))
        BY <3>i, <2>4 DEF DelToken, Excuses
      <4> QED
        BY <3>i, <1>t, <3>1, <4>1 DEF Live, RequestInv
    <3>9. i \notin twice => \A q \in Requests : ~Holds(q, i)'
      <4> SUFFICES ASSUME i \notin twice, NEW q \in Requests, Holds(q, i)' PROVE FALSE
        OBVIOUS
      <4>1. Holds(q, i) /\ q # r /\ Holds(r, i)
        BY <3>i, <3>1, <3>2 DEF Holds
      <4> QED
        BY <3>i, <3>1, <4>1 DEF OnceInv
    <3>10. ASSUME NEW k \in Ids \ twice', k # i
           PROVE  /\ uses'[k] <= 1
                  /\ \A x \in tokens' : x.id = k => uses'[k] = 0
                  /\ \A q \in Requests : Holds(q, k)' => uses'[k] = 0
                  /\ \A q, p \in Requests : Holds(q, k)' /\ Holds(p, k)' => q = p
      BY <3>i, <3>2, <3>3, <3>6, <3>10 DEF OnceInv
    <3>11. ASSUME i \in Ids \ twice'
           PROVE  /\ uses'[i] <= 1
                  /\ \A x \in tokens' : x.id = i => uses'[i] = 0
                  /\ \A q \in Requests : Holds(q, i)' => uses'[i] = 0
                  /\ \A q, p \in Requests : Holds(q, i)' /\ Holds(p, i)' => q = p
      BY <3>i, <3>6, <3>7, <3>8, <3>9, <3>11
    <3>12. ASSUME NEW k \in Ids \ twice'
           PROVE  /\ uses'[k] <= 1
                  /\ \A x \in tokens' : x.id = k => uses'[k] = 0
                  /\ \A q \in Requests : Holds(q, k)' => uses'[k] = 0
                  /\ \A q, p \in Requests : Holds(q, k)' /\ Holds(p, k)' => q = p
      <4>1. CASE k = i
        BY <3>i, <3>11, <4>1
      <4>2. CASE k # i
        BY <3>i, <3>10, <4>2
      <4> QED
        BY <3>i, <4>1, <4>2
    <3> QED
      BY <3>i, <3>5, <3>12 DEF OnceInv
  <2>5. CASE GetToken(r)
    <3> DEFINE i == req[r].id
    <3>1. At(r, "get") /\ i \in Ids /\ UNCHANGED <<tokens, made, uses>>
      BY <1>t, <2>5 DEF GetToken, Redis, RequestInv
    <3>2. CASE Ends(r) /\ UNCHANGED twice
      <4>1. \A q \in Requests, k \in Ids : Holds(q, k)' => Holds(q, k)
        BY <1>t, <2>1, <3>2 DEF Ends, Idle, Holds, At
      <4> QED
        BY <3>1, <3>2, <4>1, OnceFrame
    <3>3. ASSUME NEW t \in Live(i, Service(r)),
                 req' = [req EXCEPT ![r] = [@ EXCEPT !.pc = "del", !.value = t.value]],
                 IF \E q \in Requests : At(q, "del") /\ req[q].id = i
                   THEN Excuses(r) ELSE UNCHANGED twice
          PROVE  OnceInv'
      <4>1. t \in tokens /\ t.id = i
        BY <3>3 DEF Live
      <4>2. req'[r].id = i
        BY <1>t, <3>3 DEF Request
      <4>3. \A k \in Ids \ twice' : k \notin twice
            /\ (k = i => \A q \in Requests : ~Holds(q, i))
        BY <3>3 DEF Excuses, Holds
      <4>4. \A q \in Requests, k \in Ids : Holds(q, k)' => Holds(q, k) \/ (q = r /\ k = i)
        BY <2>1, <4>2 DEF Holds
      <4> HIDE DEF i
      <4>5. ASSUME NEW k \in Ids \ twice'
            PROVE  /\ uses[k] <= 1
                   /\ \A x \in tokens : x.id = k => uses[k] = 0
                   /\ \A q \in Requests : Holds(q, k)' => uses[k] = 0
                   /\ \A q, p \in Requests : Holds(q, k)' /\ Holds(p, k)' => q = p
        BY <4>1, <4>3, <4>4, <4>5 DEF OnceInv
      <4> QED
        BY <3>1, <4>5 DEF OnceInv
    <3> QED
      BY <2>5, <3>2, <3>3 DEF GetToken
  <2>6. CASE MailSend(r)
    <3>1. uses' = uses /\ twice' = twice /\ \A q \in Requests, i \in Ids : Holds(q, i)' => Holds(q, i)
      BY <2>1, <2>2, <2>6 DEF MailSend, Forms, GetToken, At
    <3>2. CASE UNCHANGED <<tokens, made>>
      BY <3>1, <3>2, OnceFrame
    <3>3. ASSUME NEW stored \in BOOLEAN, Register("mail_conf", req[r].user, stored) PROVE OnceInv'
      <4>1. made' = made + 1 /\ made < MaxToken
            /\ \A t \in tokens' : t \in tokens \/ t.id = made + 1
        BY <3>3 DEF Register
      <4>2. made + 1 \in Ids
        BY <1>t, <4>1, AccountsAssumption DEF AccountsAssumption, Ids
      <4> QED
        BY <3>1, <4>1, <4>2, OnceFrame
    <3> QED
      BY <2>6, <3>2, <3>3 DEF MailSend
  <2>7. CASE \/ StatementFails(r) \/ Signup(r) \/ AddUser(r) \/ AddSession(r) \/ Login(r) \/ MailCheck(r)
             \/ MailRegister(r) \/ Read(r) \/ Confirm(r) \/ Password(r) \/ Enable(r) \/ UpdatePassword(r)
    <3>1. UNCHANGED <<tokens, made, uses, twice>>
      BY <2>7 DEF StatementFails, Signup, AddUser, AddSession, Login, MailCheck, MailRegister, Read, Confirm,
         Password, Enable, UpdatePassword, Redis, Forms
    <3>2. CASE GetToken(r)
      BY <2>5, <3>2
    <3>3. CASE ~GetToken(r)
      <4>1. \A q \in Requests, i \in Ids : Holds(q, i)' => Holds(q, i)
        BY <2>1, <2>2, <3>3
      <4> QED
        BY <3>1, <4>1, OnceFrame
    <3> QED
      BY <3>2, <3>3
  <2> QED
    BY <1>2, <2>3, <2>4, <2>5, <2>6, <2>7 DEF Moves
<1> QED
  BY <1>1, <1>2, WhoMoves

\* A token of any service lets one form through, however requests, expirations
\* and failures go, unless two handlers read it before one removed it or Redis
\* failed to remove it.
THEOREM OneTimeEver == Spec => []OneTime
<1>1. Init => OnceInv
  BY DEF Init, OnceInv, Holds, Idle, At, Ids
<1>2. UInv /\ OnceInv /\ [Next]_vars => OnceInv'
  BY OnceStep
<1>3. OnceInv => OneTime
  BY DEF OnceInv, OneTime
<1> QED
  BY AccountsInv, <1>1, <1>2, <1>3, PTL DEF Spec

-----------------------------------------------------------------------------
(***************************************************************************)
(* What the login page says of the mail.                                    *)
(***************************************************************************)
\* A link to u works at least as long as the key of his address lives.
Outlives(u) ==
  \E t \in tokens : /\ t.service = "mail_conf" /\ t.value = u /\ Delivered(t.id, u)
                    /\ t.left >= lastSent[u]

Sending(q, u) == At(q, "send") /\ req[q].user = u
Enabling(q, u) == At(q, "enable") /\ req[q].value = u

Answered(u) ==
  \/ account[u] = "enabled" \/ u \in hit \/ Outlives(u)
  \/ \E q \in Requests : Sending(q, u) \/ Enabling(q, u)

\* The key of an address means that its user can confirm.
KeysMean == \A u \in Users : lastSent[u] > 0 => Answered(u)

\* No step loses a mail or disables an account.
LEMMA StepGrows ==
  ASSUME UInv, [Next]_vars
  PROVE  /\ mailbox \subseteq mailbox' /\ known \subseteq known'
         /\ \A u \in Users : account[u] = "enabled" => account'[u] = "enabled"
<1>t. account \in [Users -> {"none", "disabled", "enabled"}]
  BY DEF UInv, TypeOK
<1>1. mailbox \subseteq mailbox' /\ known \subseteq known'
  BY DEF Next, vars, Tick, OpenPage, Logout, StatementFails, Signup, CheckSignup, AddUser, AddSession, Login,
     MailCheck, MailRegister, MailSend, Read, Confirm, Password, GetToken, DelToken, Enable, UpdatePassword, Mail
<1>2. ASSUME NEW r \in Requests, AddUser(r), NEW u \in Users, account[u] = "enabled"
      PROVE  account'[u] = "enabled"
  BY <1>t, <1>2 DEF AddUser
<1>3. ASSUME NEW r \in Requests, Enable(r), NEW u \in Users, account[u] = "enabled"
      PROVE  account'[u] = "enabled"
  BY <1>t, <1>3 DEF Enable
<1>4. UNCHANGED account \/ \E r \in Requests : AddUser(r) \/ Enable(r)
  BY DEF Next, vars, Tick, OpenPage, Logout, StatementFails, Signup, CheckSignup, AddSession, Login, MailCheck,
     MailRegister, MailSend, Read, Confirm, Password, GetToken, DelToken, UpdatePassword, Users_
<1> QED
  BY <1>1, <1>2, <1>3, <1>4

\* Every step keeps that, when links outlive the keys.
LEMMA KeysStep ==
  ASSUME Life >= Interval, UInv, KeysMean, [Next]_vars, NEW u \in Users, lastSent'[u] > 0
  PROVE  Answered(u)'
<1> USE AccountsAssumption DEF AccountsAssumption
<1>t. /\ req \in [Requests -> Request] /\ lastSent \in [Users -> 0 .. Interval] /\ tokens \subseteq Token
      /\ account \in [Users -> {"none", "disabled", "enabled"}] /\ \A r \in Requests : RequestInv(r)
      /\ made \in 0 .. MaxToken
  BY DEF UInv, TypeOK
<1>g. /\ mailbox \subseteq mailbox'
      /\ account[u] = "enabled" => account'[u] = "enabled"
      /\ \A i : Delivered(i, u) => Delivered(i, u)'
  BY StepGrows DEF Delivered
\* A frame for the steps that keep tokens of mails.
<1>f. ASSUME Answered(u), u \in hit => u \in hit', lastSent'[u] = lastSent[u],
             \A q \in Requests : (Sending(q, u) => Sending(q, u)') /\ (Enabling(q, u) => Enabling(q, u)'),
             \A t \in tokens : t.service = "mail_conf" /\ t.value = u => t \in tokens'
      PROVE  Answered(u)'
  <2>1. CASE Outlives(u)
    <3>1. PICK t \in tokens : /\ t.service = "mail_conf" /\ t.value = u /\ Delivered(t.id, u)
                              /\ t.left >= lastSent[u]
      BY <2>1 DEF Outlives
    <3>2. t \in tokens' /\ Delivered(t.id, u)'
      BY <1>f, <1>g, <3>1
    <3> QED
      BY <1>f, <3>1, <3>2 DEF Answered, Outlives
  <2>2. CASE \E q \in Requests : Sending(q, u) \/ Enabling(q, u)
    BY <1>f, <2>2 DEF Answered
  <2>3. CASE account[u] = "enabled" \/ u \in hit
    BY <1>f, <1>g, <2>3 DEF Answered
  <2> QED
    BY <1>f, <2>1, <2>2, <2>3 DEF Answered
<1>1. CASE (Tick \/ OpenPage \/ (\E v \in Users : Logout(v)) \/ UNCHANGED vars) /\ UNCHANGED <<req, uses, twice, hit>>
  <2>1. \A q \in Requests : (Sending(q, u) => Sending(q, u)') /\ (Enabling(q, u) => Enabling(q, u)')
    BY <1>1 DEF Sending, Enabling, At
  <2>2. CASE Tick
    <3>1. lastSent[u] > 1 /\ lastSent'[u] = lastSent[u] - 1 /\ lastSent[u] \in Int
      BY <1>t, <2>2 DEF Tick
    <3>2. Answered(u)
      BY <3>1 DEF KeysMean
    <3>3. CASE Outlives(u)
      <4>1. PICK t \in tokens : /\ t.service = "mail_conf" /\ t.value = u /\ Delivered(t.id, u)
                                /\ t.left >= lastSent[u]
        BY <3>3 DEF Outlives
      <4>2. t \in Token /\ t.left \in Int /\ t.left > 1
        BY <1>t, <3>1, <4>1 DEF Token
      <4>3. PICK x : x = [t EXCEPT !.left = t.left - 1]
        OBVIOUS
      <4>4. x \in tokens'
        BY <2>2, <4>1, <4>2, <4>3 DEF Tick
      <4>5. x.id = t.id /\ x.service = t.service /\ x.value = t.value /\ x.left = t.left - 1
        BY <4>2, <4>3 DEF Token
      <4>6. x.left >= lastSent'[u]
        BY <3>1, <4>1, <4>2, <4>5
      <4>7. Delivered(x.id, u)'
        BY <1>g, <4>1, <4>5
      <4> QED
        BY <4>1, <4>4, <4>5, <4>6, <4>7 DEF Answered, Outlives
    <3>4. CASE ~Outlives(u)
      BY <1>1, <1>g, <2>1, <3>2, <3>4 DEF Answered
    <3> QED
      BY <3>3, <3>4
  <2>3. CASE UNCHANGED lastSent /\ tokens \subseteq tokens'
    BY <1>1, <1>f, <2>1, <2>3 DEF KeysMean
  <2>4. OpenPage => tokens \subseteq tokens' /\ UNCHANGED lastSent
    BY DEF OpenPage, Register
  <2> QED
    BY <1>1, <2>2, <2>3, <2>4 DEF Logout, vars, Redis
<1>2. ASSUME NEW r \in Requests, Moves(r) PROVE Answered(u)'
  <2>1. \A q \in Requests \ {r} : /\ Sending(q, u) => Sending(q, u)'
                                  /\ Enabling(q, u) => Enabling(q, u)'
    BY <1>t, <1>2, OthersStay DEF Sending, Enabling, At
  <2>r. req[r] \in Request
    BY <1>t
  <2>2. CASE MailRegister(r)
    <3>1. UNCHANGED <<tokens, hit>> /\ At(r, "register") /\ req[r].user \in Users
      BY <1>t, <2>2 DEF MailRegister, Mail, RequestInv, At
    <3>2. CASE lastSent' = [lastSent EXCEPT ![req[r].user] = Interval] /\ Goes(r, "send") /\ req[r].user = u
      <4>1. req'[r].pc = "send" /\ req'[r].user = req[r].user
        BY <1>t, <2>r, <3>2 DEF Goes, Request
      <4> QED
        BY <3>2, <4>1 DEF Answered, Sending, At
    <3>3. CASE lastSent'[u] = lastSent[u]
      BY <1>f, <2>1, <3>1, <3>3 DEF KeysMean, Sending, Enabling, At
    <3> QED
      BY <1>t, <2>2, <3>1, <3>2, <3>3 DEF MailRegister
  <2>3. CASE MailSend(r)
    <3>1. At(r, "send") /\ UNCHANGED lastSent
      BY <2>3 DEF MailSend
    <3>2. Answered(u)
      BY <3>1 DEF KeysMean
    <3>3. CASE req[r].user # u
      <4>1. tokens \subseteq tokens' /\ (u \in hit => u \in hit')
        BY <2>3, <3>3 DEF MailSend, Register
      <4>2. ~Sending(r, u) /\ ~Enabling(r, u)
        BY <3>1, <3>3 DEF Sending, Enabling, At
      <4> QED
        BY <1>f, <2>1, <3>1, <3>2, <4>1, <4>2
    <3>4. CASE req[r].user = u
      <4>1. CASE u \in hit'
        BY <4>1 DEF Answered
      <4>2. CASE u \notin hit'
        <5>1. /\ Register("mail_conf", u, TRUE)
              /\ mailbox' = mailbox \cup {[id |-> made + 1, user |-> u]}
          BY <2>3, <3>4, <4>2 DEF MailSend
        <5>2. PICK t : t = [id |-> made + 1, service |-> "mail_conf", value |-> u, left |-> Life]
          OBVIOUS
        <5>3. t \in tokens' /\ t.id = made + 1 /\ t.service = "mail_conf" /\ t.value = u /\ t.left = Life
          BY <5>1, <5>2 DEF Register
        <5>4. PICK m : m = [id |-> made + 1, user |-> u]
          OBVIOUS
        <5>5. m \in mailbox' /\ m.id = made + 1 /\ m.user = u
          BY <5>1, <5>4
        <5>6. Delivered(t.id, u)'
          BY <5>3, <5>5 DEF Delivered
        <5>7. lastSent'[u] <= Life
          BY <1>t, <3>1
        <5> QED
          BY <5>3, <5>6, <5>7 DEF Answered, Outlives
      <4> QED
        BY <4>1, <4>2
    <3> QED
      BY <3>3, <3>4
  <2>4. CASE DelToken(r)
    <3>1. At(r, "del") /\ UNCHANGED <<lastSent, hit>>
      BY <2>4 DEF DelToken, Mail
    <3>2. Answered(u)
      BY <3>1 DEF KeysMean
    <3>3. ~Sending(r, u) /\ ~Enabling(r, u)
      BY <3>1 DEF Sending, Enabling, At
    <3>4. CASE \A t \in tokens : t.service = "mail_conf" /\ t.value = u => t \in tokens'
      BY <1>f, <2>1, <3>1, <3>2, <3>3, <3>4
    <3>5. ASSUME NEW t \in tokens, t.service = "mail_conf", t.value = u, t \notin tokens'
          PROVE  Answered(u)'
      <4>1. t.id = req[r].id /\ Service(r) = "mail_conf"
        BY <2>4, <3>5 DEF DelToken, Live
      <4>2. req[r].kind = "confirm" /\ req[r].value = u
        BY <1>t, <3>1, <3>5, <4>1 DEF RequestInv, Service
      <4>3. Goes(r, "enable")
        BY <2>4, <4>2 DEF DelToken
      <4>4. req'[r].pc = "enable" /\ req'[r].value = u
        BY <1>t, <2>r, <4>2, <4>3 DEF Goes, Request
      <4> QED
        BY <4>4 DEF Answered, Enabling, At
    <3> QED
      BY <3>4, <3>5
  <2>5. CASE Enable(r)
    <3>1. At(r, "enable") /\ UNCHANGED <<lastSent, hit, tokens>> /\ account' = [account EXCEPT ![req[r].value] = "enabled"]
      BY <2>5 DEF Enable, Redis, Mail
    <3>2. CASE req[r].value = u
      BY <1>t, <3>1, <3>2 DEF Answered
    <3>3. CASE req[r].value # u
      BY <1>f, <2>1, <3>1, <3>3 DEF KeysMean, Sending, Enabling, At
    <3> QED
      BY <3>2, <3>3
  <2>6. CASE StatementFails(r)
    <3>1. UNCHANGED <<lastSent, tokens>> /\ hit \subseteq hit' /\ req[r].pc # "send"
      BY <2>6 DEF StatementFails, Redis
    <3>2. CASE Enabling(r, u)
      BY <2>6, <3>2 DEF StatementFails, Enabling, Answered
    <3>3. CASE ~Enabling(r, u)
      BY <1>f, <2>1, <3>1, <3>3 DEF KeysMean, Sending, At
    <3> QED
      BY <3>2, <3>3
  <2>7. CASE \/ Signup(r) \/ CheckSignup(r) \/ AddUser(r) \/ AddSession(r) \/ Login(r) \/ MailCheck(r) \/ Read(r)
             \/ Confirm(r) \/ Password(r) \/ GetToken(r) \/ UpdatePassword(r)
    <3>1. UNCHANGED <<lastSent, hit>> /\ req[r].pc # "send" /\ req[r].pc # "enable"
      BY <2>7 DEF Signup, CheckSignup, AddUser, AddSession, Login, MailCheck, Read, Confirm, Password, GetToken,
         UpdatePassword, Redis, Mail, At, Opens
    <3>2. \A t \in tokens : t.service = "mail_conf" => t \in tokens'
      BY <2>7 DEF Signup, CheckSignup, AddUser, AddSession, Login, MailCheck, Read, Confirm, Password, GetToken,
         UpdatePassword, Redis, Live
    <3> QED
      BY <1>f, <2>1, <3>1, <3>2 DEF KeysMean, Sending, Enabling, At
  <2> QED
    BY <1>2, <2>2, <2>3, <2>4, <2>5, <2>6, <2>7 DEF Moves
<1> QED
  BY <1>1, <1>2, WhoMoves

\* Whatever fails for others: who is told by the login form to look at his mail
\* can confirm, unless the last sending or the enabling failed for him, provided
\* links live at least as long as the keys that hold back another mail.
THEOREM ToldCanConfirmEver == Life >= Interval => (Spec => ToldCanConfirm)
<1> SUFFICES ASSUME Life >= Interval PROVE Spec => ToldCanConfirm
  OBVIOUS
<1>1. Init => KeysMean
  BY DEF Init, KeysMean
<1>2. UInv /\ KeysMean /\ [Next]_vars => KeysMean'
  BY KeysStep DEF KeysMean
<1>3. ASSUME UInv, KeysMean, [Next]_vars, NEW r \in Requests, ~At(r, "told"), At(r, "told")'
      PROVE  CanConfirm(req[r].user) \/ req[r].user \in hit
  <2>t. req \in [Requests -> Request] /\ req[r] \in Request
    BY <1>3 DEF UInv, TypeOK
  <2>1. req'[r] # req[r]
    BY <1>3 DEF At
  <2>2. Moves(r)
    <3>1. PICK q \in Requests : Moves(q)
      BY <1>3, <2>1, WhoMoves
    <3> QED
      BY <2>1, <2>t, <3>1, OthersStay
  <2>3. MailCheck(r)
    BY <1>3, <2>2, <2>t, WhereTo
  <2>4. ~Ends(r) /\ ~Goes(r, "register")
    BY <1>3, <2>t DEF Ends, Idle, Goes, Request, At
  <2>5. lastSent[req[r].user] > 0 /\ req[r].user \in Users
    BY <1>3, <2>3, <2>4 DEF MailCheck, UInv, RequestInv, At
  <2>6. Answered(req[r].user)
    BY <1>3, <2>5 DEF KeysMean
  <2> QED
    BY <2>6 DEF Answered, Outlives, Sending, Enabling, CanConfirm
<1>4. UInv /\ KeysMean /\ [Next]_vars =>
        [\A r \in Requests : ~At(r, "told") /\ At(r, "told")' =>
           CanConfirm(req[r].user) \/ req[r].user \in hit]_vars
  BY <1>3
<1> QED
  BY AccountsInv, <1>1, <1>2, <1>4, PTL DEF Spec, ToldCanConfirm
=============================================================================
