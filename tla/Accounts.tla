------------------------------ MODULE Accounts ------------------------------
(***************************************************************************)
(* Accounts, sessions and one-time tokens: ppweb/handler.go (/signup/,       *)
(* /signup/account_confirm, /login, /logout, /userinfo/update_password),     *)
(* mail_template.go, lib/redis/redis.go and the tables users and sessions.   *)
(*                                                                         *)
(* A token is a key of Redis with an expiration.  A page that is shown, and  *)
(* every form that is answered, registers a new one: OpenPage stands for     *)
(* both.  A user has one browser, and reads his own mail.  A token is 32     *)
(* random bytes: forms come with tokens of pages that were shown or of mails *)
(* that were delivered, of whatever service and of whomever, or with old     *)
(* ones.                                                                    *)
(***************************************************************************)
EXTENDS Integers

CONSTANTS
  Users, Requests,
  MaxToken,          \* bound: tokens made
  Life, Interval,    \* ticks until a token expires, and between two mails
  Certify,           \* what the setting CertificationWithEmail may be
  Stores,            \* what gorm stores for Enabled = false: the value "given", or the
                     \* column's "default" as it does for a blank field that has one
  Kinds,             \* the forms of this instance
  Faults             \* what may fail: "mail", "redis", "mysql"

ASSUME AccountsAssumption ==
  /\ MaxToken \in Nat /\ Life \in Nat \ {0} /\ Interval \in Nat \ {0}
  /\ Certify \subseteq BOOLEAN /\ Stores \subseteq {"given", "default"}
  /\ Kinds \subseteq {"signup", "login", "confirm", "password"} /\ Faults \subseteq {"mail", "redis", "mysql"}

Ids == 1 .. MaxToken
Nobody == "nobody"
Passwords == {0, 1}

VARIABLES
  account,   \* account[u]: no row of users, disabled, enabled
  pass,      \* pass[u]: the password
  free,      \* history: users who signed up while no confirmation was asked for, or
             \* whose row was stored with the default
  sessions,  \* users whose browser has a session
  tokens,    \* keys token_<service>_... of Redis
  made,      \* tokens made
  lastSent,  \* lastSent[u]: ticks left of the key mail_ls of the user's address
  mailbox,   \* confirmations delivered
  known,     \* tokens of pages and of delivered mails
  uses,      \* uses[i]: forms let through with token i, counted up to 2
  twice,     \* history: tokens two handlers have read at once, or whose removal failed
  hit,       \* history: users whose last mail or whose enabling failed
  req        \* req[r]: a form and how far its handler is

vars == <<account, pass, free, sessions, tokens, made, lastSent, mailbox, known, uses, twice, hit, req>>

Services == {"signup", "mail_conf", "update_password"}
Token == [id : Ids, service : Services, value : Users \cup {Nobody}, left : 1 .. Life]
Request == [pc : {"idle", "check", "add", "session", "mail", "register", "send", "told",
                  "get", "del", "enable", "update"},
            kind : {"none", "signup", "login", "confirm", "password"},
            user : Users \cup {Nobody}, id : 0 .. MaxToken, value : Users \cup {Nobody}]
Idle == [pc |-> "idle", kind |-> "none", user |-> Nobody, id |-> 0, value |-> Nobody]

TypeOK ==
  /\ account \in [Users -> {"none", "disabled", "enabled"}] /\ pass \in [Users -> Passwords]
  /\ free \subseteq Users /\ sessions \subseteq Users
  /\ tokens \subseteq Token /\ made \in 0 .. MaxToken
  /\ lastSent \in [Users -> 0 .. Interval]
  /\ mailbox \subseteq [id : Ids, user : Users] /\ known \subseteq Ids
  /\ uses \in [Ids -> 0 .. 2] /\ twice \subseteq Ids /\ hit \subseteq Users
  /\ req \in [Requests -> Request]

Init ==
  /\ account = [u \in Users |-> "none"] /\ pass = [u \in Users |-> 0]
  /\ free = {} /\ sessions = {} /\ tokens = {} /\ made = 0
  /\ lastSent = [u \in Users |-> 0] /\ mailbox = {} /\ known = {}
  /\ uses = [i \in Ids |-> 0] /\ twice = {} /\ hit = {}
  /\ req = [r \in Requests |-> Idle]

-----------------------------------------------------------------------------
At(r, pc) == req[r].pc = pc
Goes(r, pc) == req' = [req EXCEPT ![r].pc = pc]
Ends(r) == req' = [req EXCEPT ![r] = Idle]
Opens(r, k, pc, u, i) ==
  /\ At(r, "idle") /\ k \in Kinds
  /\ req' = [req EXCEPT ![r] = [pc |-> pc, kind |-> k, user |-> u, id |-> i, value |-> Nobody]]

Users_ == <<account, pass, free>>
Redis == <<tokens, made, lastSent>>
Mail == <<mailbox, known, hit>>
Forms == <<uses, twice>>             \* what forms have done with tokens
Live(i, s) == {t \in tokens : t.id = i /\ t.service = s}

Lets(r) == uses' = [uses EXCEPT ![req[r].id] = IF @ < 2 THEN @ + 1 ELSE 2]
Excuses(r) == twice' = twice \cup {req[r].id}

RegisterBrief(s, v, stored) ==   \* mutant: with the expiration of another setting
  /\ made < MaxToken /\ made' = made + 1
  /\ stored \/ "redis" \in Faults
  /\ tokens' = IF stored
       THEN tokens \cup {[id |-> made + 1, service |-> s, value |-> v, left |-> 1]} ELSE tokens
\* TokenGenerateAndRegisterWithValue; ids are as good as unique.  The reply to
\* SETEX is read when the connection is closed, and thrown away.
Register(s, v, stored) ==
  /\ made < MaxToken /\ made' = made + 1
  /\ stored \/ "redis" \in Faults
  /\ tokens' = IF stored
       THEN tokens \cup {[id |-> made + 1, service |-> s, value |-> v, left |-> Life]} ELSE tokens

\* Keys expire.
Tick ==
  /\ tokens' = {[t EXCEPT !.left = @ - 1] : t \in {t \in tokens : t.left > 1}}
  /\ lastSent' = [u \in Users |-> IF lastSent[u] > 0 THEN lastSent[u] - 1 ELSE 0]
  /\ UNCHANGED <<Users_, sessions, made, Mail, Forms, req>>

\* A page with a token: of the signup form, or of the password form of a user.
OpenPage ==
  /\ \E stored \in BOOLEAN :
       \/ "signup" \in Kinds /\ Register("signup", Nobody, stored)
       \/ "password" \in Kinds /\ \E u \in sessions : Register("update_password", u, stored)
  /\ known' = known \cup {made + 1}
  /\ UNCHANGED <<Users_, sessions, lastSent, mailbox, hit, Forms, req>>

-----------------------------------------------------------------------------
\* A statement of MySQL fails: the form ends with an error.  Whose link was
\* used up by a confirmation that fails so is not enabled.
StatementFails(r) ==
  /\ "mysql" \in Faults /\ req[r].pc \in {"add", "session", "enable", "update"} /\ Ends(r)
  /\ hit' = IF At(r, "enable") THEN hit \cup ({req[r].value} \cap Users) ELSE hit
  /\ UNCHANGED <<Users_, sessions, Redis, mailbox, known, Forms>>

\* POST /signup/ for the account of u with token i.
Signup(r) ==
  /\ \E u \in Users \ sessions, i \in known : Opens(r, "signup", "check", u, i)
  /\ UNCHANGED <<Users_, sessions, Redis, Mail, Forms>>

Filled(r) == Goes(r, "add") \/ Ends(r)      \* a form with other errors is shown again

\* TokenCheckAndRemove is one DEL; when Redis fails the handler logs it and goes on.
CheckSignup(r) ==
  /\ At(r, "check")
  /\ \/ /\ Live(req[r].id, "signup") # {}
        /\ tokens' = tokens \ Live(req[r].id, "signup")
        /\ Lets(r) /\ Filled(r) /\ UNCHANGED twice
     \/ Live(req[r].id, "signup") = {} /\ Ends(r) /\ UNCHANGED <<tokens, Forms>>
     \/ "redis" \in Faults /\ Lets(r) /\ Excuses(r) /\ Filled(r) /\ UNCHANGED tokens
  /\ UNCHANGED <<Users_, sessions, made, lastSent, Mail>>

\* What gorm's Create stores: a zero value with a default may be left out.
Stored(enabled, how) == IF enabled \/ how = "default" THEN "enabled" ELSE "disabled"

\* UserAdd: the id, the name and the address are unique.
AddUser(r) ==
  /\ At(r, "add")
  /\ \/ \E c \in Certify, how \in Stores :
          /\ account[req[r].user] = "none"
          /\ account' = [account EXCEPT ![req[r].user] = Stored(~c, how)]
          /\ free' = IF c /\ how = "given" THEN free ELSE free \cup {req[r].user}
          /\ Goes(r, IF c THEN "mail" ELSE "session")
     \/ account[req[r].user] # "none" /\ Ends(r) /\ UNCHANGED <<account, free>>
  /\ UNCHANGED <<pass, sessions, Redis, Mail, Forms>>

\* SessionAdd.
AddSession(r) ==
  /\ At(r, "session")
  /\ sessions' = sessions \cup {req[r].user}
  /\ Ends(r)
  /\ UNCHANGED <<Users_, Redis, Mail, Forms>>

\* POST /login with the right password; others end in the form again.
Login(r) ==
  /\ \E u \in Users, p \in Passwords :
       /\ account[u] # "none" /\ pass[u] = p
       /\ Opens(r, "login", IF account[u] = "enabled" THEN "session" ELSE "mail", u, 0)
  /\ UNCHANGED <<Users_, sessions, Redis, Mail, Forms>>

Logout(u) ==
  /\ sessions' = sessions \ {u} /\ u \in sessions
  /\ UNCHANGED <<Users_, Redis, Mail, Forms, req>>

-----------------------------------------------------------------------------
\* MailSendConfirmUser: nothing is sent while the key of the address lives, an
\* error of EXISTS does not count.  Only the login form says that it was sent.
MailCheck(r) ==
  /\ At(r, "mail")
  /\ \/ lastSent[req[r].user] > 0 /\ IF req[r].kind = "login" THEN Goes(r, "told") ELSE Ends(r)
     \/ (lastSent[req[r].user] = 0 \/ "redis" \in Faults) /\ Goes(r, "register")
  /\ UNCHANGED <<Users_, sessions, Redis, Mail, Forms>>

\* The interval and the expiration are settings, read from Redis first.
MailRegister(r) ==
  /\ At(r, "register")
  /\ \/ lastSent' = [lastSent EXCEPT ![req[r].user] = Interval] /\ Goes(r, "send")
     \/ "redis" \in Faults /\ (Goes(r, "send") \/ Ends(r)) /\ UNCHANGED lastSent
  /\ UNCHANGED <<Users_, sessions, tokens, made, Mail, Forms>>

\* PublicHost, the token, and then the mail with it.
MailSend(r) ==
  /\ At(r, "send") /\ Ends(r)
  /\ \/ \E stored, sent \in BOOLEAN :
          /\ Register("mail_conf", req[r].user, stored)
          /\ sent \/ "mail" \in Faults
          /\ mailbox' = IF sent THEN mailbox \cup {[id |-> made + 1, user |-> req[r].user]} ELSE mailbox
          /\ known' = IF sent THEN known \cup {made + 1} ELSE known
          /\ hit' = IF stored /\ sent THEN hit \ {req[r].user} ELSE hit \cup {req[r].user}
     \/ "redis" \in Faults /\ hit' = hit \cup {req[r].user} /\ UNCHANGED <<tokens, made, mailbox, known>>
  /\ UNCHANGED <<Users_, sessions, lastSent, Forms>>

\* The page that says that the mail was sent.
Read(r) ==
  /\ At(r, "told") /\ Ends(r)
  /\ UNCHANGED <<Users_, sessions, Redis, Mail, Forms>>

-----------------------------------------------------------------------------
\* GET /signup/account_confirm: of anybody, who need not be logged in, with a
\* token of a mail, of another page, or of somebody else's.
Confirm(r) ==
  /\ \E i \in known : Opens(r, "confirm", "get", Nobody, i)
  /\ UNCHANGED <<Users_, sessions, Redis, Mail, Forms>>

\* POST /userinfo/update_password of a user with a session, with such a token.
Password(r) ==
  /\ \E u \in sessions, i \in known : Opens(r, "password", "get", u, i)
  /\ UNCHANGED <<Users_, sessions, Redis, Mail, Forms>>

Service(r) == IF req[r].kind = "confirm" THEN "mail_conf" ELSE "update_password"

\* TokenGetAndRemove: GET ...
GetToken(r) ==
  /\ At(r, "get")
  /\ \/ /\ \E t \in Live(req[r].id, Service(r)) :
             req' = [req EXCEPT ![r] = [@ EXCEPT !.pc = "del", !.value = t.value]]
        /\ IF \E q \in Requests : At(q, "del") /\ req[q].id = req[r].id
             THEN Excuses(r) ELSE UNCHANGED twice
     \/ (Live(req[r].id, Service(r)) = {} \/ "redis" \in Faults) /\ Ends(r) /\ UNCHANGED twice
  /\ UNCHANGED <<Users_, sessions, Redis, Mail, uses>>

DelTokenFor(r) ==                \* mutant: whose token it is is not looked at
  /\ At(r, "del") /\ Lets(r)
  /\ tokens' = tokens \ Live(req[r].id, Service(r))
  /\ Goes(r, IF req[r].kind = "confirm" THEN "enable" ELSE "update")
  /\ UNCHANGED <<Users_, sessions, made, lastSent, Mail, twice>>
DelTokenKept(r) ==               \* mutant: the token is read, and stays
  /\ At(r, "del") /\ Lets(r)
  /\ \/ req[r].kind = "confirm" /\ Goes(r, "enable")
     \/ req[r].kind = "password" /\ req[r].value = req[r].user /\ Goes(r, "update")
     \/ req[r].kind = "password" /\ Ends(r)
  /\ UNCHANGED <<Users_, sessions, Redis, Mail, twice>>
\* ... and DEL; its failure is logged.  A password is changed by its owner only,
\* and two passwords that differ end in the form again.
DelToken(r) ==
  /\ At(r, "del") /\ Lets(r)
  /\ \/ tokens' = tokens \ Live(req[r].id, Service(r)) /\ UNCHANGED twice
     \/ "redis" \in Faults /\ Excuses(r) /\ UNCHANGED tokens
  /\ \/ req[r].kind = "confirm" /\ Goes(r, "enable")
     \/ req[r].kind = "password" /\ req[r].value = req[r].user /\ Goes(r, "update")
     \/ req[r].kind = "password" /\ Ends(r)
  /\ UNCHANGED <<Users_, sessions, made, lastSent, Mail>>

\* UserUpdateEnabled.
Enable(r) ==
  /\ At(r, "enable") /\ Ends(r)
  /\ account' = [account EXCEPT ![req[r].value] = "enabled"]
  /\ UNCHANGED <<pass, free, sessions, Redis, Mail, Forms>>

\* UserUpdatePassword; the sessions stay.
UpdatePassword(r) ==
  /\ At(r, "update") /\ Ends(r)
  /\ \E p \in Passwords : pass' = [pass EXCEPT ![req[r].value] = p]
  /\ UNCHANGED <<account, free, sessions, Redis, Mail, Forms>>

Next ==
  \/ Tick \/ OpenPage \/ \E u \in Users : Logout(u)
  \/ \E r \in Requests :
       \/ StatementFails(r) \/ Signup(r) \/ CheckSignup(r) \/ AddUser(r) \/ AddSession(r) \/ Login(r)
       \/ MailCheck(r) \/ MailRegister(r) \/ MailSend(r) \/ Read(r)
       \/ Confirm(r) \/ Password(r) \/ GetToken(r) \/ DelToken(r) \/ Enable(r) \/ UpdatePassword(r)

Spec == Init /\ [][Next]_vars

-----------------------------------------------------------------------------
Delivered(i, u) == \E m \in mailbox : m.id = i /\ m.user = u
Mailed(u) == \E m \in mailbox : m.user = u

\* A session is an enabled user's, who was enabled when he signed up because none
\* had to confirm, or by the default of the column, or whose address got a mail.
SessionsAreConfirmed ==
  \A u \in sessions : account[u] = "enabled" /\ (u \in free \/ Mailed(u))

\* What is done to an account was asked for with what belongs to it: a disabled
\* account is enabled by a link that was delivered to its address, whatever tokens
\* /signup/account_confirm is called with, and a password is changed by a form of
\* its owner, whatever page of whomever the token was on; who gets a session is
\* confirmed by then.
Authorised ==
  [][/\ SessionsAreConfirmed'
     /\ \A u \in Users :
          /\ account[u] = "disabled" /\ account'[u] = "enabled" =>
               \E r \in Requests : At(r, "enable") /\ Delivered(req[r].id, u)
          /\ pass'[u] # pass[u] =>
               \E r \in Requests : At(r, "update") /\ req[r].user = u]_vars

\* A token lets one form through ("one-time token", as the pages call it), unless
\* two handlers had read it before one of them removed it, or Redis failed.
OneTime == \A i \in Ids : uses[i] <= 1 \/ i \in twice

\* The user has a link that works, or it is being sent or followed, or he needs none.
CanConfirm(u) ==
  \/ account[u] = "enabled"
  \/ \E t \in tokens : t.service = "mail_conf" /\ t.value = u /\ Delivered(t.id, u)
  \/ \E q \in Requests :
       \/ At(q, "send") /\ req[q].user = u
       \/ At(q, "enable") /\ req[q].value = u

\* Who is told by the login form to look at the mail he was sent can confirm: the
\* key of the address, which holds back a second mail, does not outlive the link
\* of the first, unless the last sending, or the enabling, failed for this user.
ToldCanConfirm ==
  [][\A r \in Requests : ~At(r, "told") /\ At(r, "told")' =>
       CanConfirm(req[r].user) \/ req[r].user \in hit]_vars
=============================================================================
