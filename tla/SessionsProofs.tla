---------------------------- MODULE SessionsProofs ----------------------------
(* Theorems about Sessions, for any addresses, passwords, number of requests, *)
(* lifetime of a token, with or without Redis and under any faults.           *)
EXTENDS Sessions, TLAPS

-----------------------------------------------------------------------------
(* The inductive invariant behind type correctness: what a request holds at   *)
(* each of its labels.                                                        *)

StoreOK ==
    /\ users \in [Emails -> Accounts \cup {None}]
    /\ connected \in BOOLEAN
    /\ blacklist \subseteq [token : Tokens, until : Nat \cup {Forever}]
    /\ now \in 0 .. MaxTime
    /\ issued \subseteq Tokens /\ loggedOut \subseteq issued

SlotsOK ==
    /\ pc \in [Requests -> Labels]
    /\ job \in [Requests -> Jobs \cup {None}]
    /\ account \in [Requests -> Accounts \cup {None}]
    /\ minted \in [Requests -> Tokens \cup {None}]
    /\ ttl \in [Requests -> (1 .. Lifetime) \cup {None}]
    /\ answer \in [Requests -> Answers \cup {None}]
    /\ arrived \in [Requests -> Accounts \cup {None}]

\* The endpoints that take a step, and the fields of the job they have filled in.
JobOK(l, j) ==
    /\ l = "insert" => j.op = "Register"
    /\ l \in {"select", "sign"} => j.op = "Login"
    /\ l = "publish" => j.op \in {"Register", "Login"}
    /\ l \in {"insert", "select", "sign", "publish"} => j.email \in Emails /\ j.password \in Passwords
    /\ l \in {"insert", "publish"} /\ j.op = "Register" => j.role \in AskedRoles
    /\ l \in {"ttl", "set"} => j.op = "Logout"
    /\ l = "import" => j.op = "Import" /\ j.token.role = "manager"
    /\ l \in {"ttl", "set", "import"} => j.token \in issued

RequestOK(r) ==
    /\ pc[r] # "idle" => job[r] \in Jobs /\ JobOK(pc[r], job[r])
    /\ pc[r] = "sign" => account[r] \in Accounts
    /\ pc[r] = "set" => ttl[r] \in 1 .. Lifetime
    /\ minted[r] # None => pc[r] = "publish" /\ job[r].op = "Login"

\* No token outlives the lifetime counted from now.
TokensExpire ==
    /\ \A k \in issued : k.exp <= now + Lifetime
    /\ \A r \in Requests : minted[r] # None => minted[r].exp <= now + Lifetime

TypeInv == StoreOK /\ SlotsOK /\ TokensExpire /\ \A r \in Requests : RequestOK(r)

LEMMA InitTypes == Init => TypeInv
  BY AdminAssumption, LifetimeAssumption
     DEF Init, TypeInv, StoreOK, SlotsOK, TokensExpire, RequestOK, Labels, Accounts, Roles

-----------------------------------------------------------------------------
(* What one request's step leaves alone.                                      *)

Step(r) == Handle(r) \/ Serve(r) \/ DbFails(r)

LEMMA OthersUntouched ==
  ASSUME SlotsOK, NEW r \in Requests, Step(r), NEW q \in Requests, q # r
  PROVE  /\ pc'[q] = pc[q] /\ job'[q] = job[q] /\ account'[q] = account[q] /\ minted'[q] = minted[q]
         /\ ttl'[q] = ttl[q] /\ answer'[q] = answer[q] /\ arrived'[q] = arrived[q]
<1> USE DEF SlotsOK, Goto, Answer, Local
<1>1. CASE Handle(r)
  BY <1>1 DEF Handle, HandleRegister, HandleLogin, HandleMe, HandleLogout, BulkImportUsers,
     Unauthorized, Begin, Refuse, Receive
<1>2. CASE DbFails(r)  BY <1>2 DEF DbFails
<1>3. CASE CreateUser(r)  BY <1>3 DEF CreateUser
<1>4. CASE GetUserByEmail(r)  BY <1>4 DEF GetUserByEmail
<1>5. CASE Login(r)  BY <1>5 DEF Login
<1>6. CASE PublishEvent(r)  BY <1>6 DEF PublishEvent
<1>7. CASE BlacklistToken(r)  BY <1>7 DEF BlacklistToken
<1>8. CASE SetBlacklist(r)  BY <1>8 DEF SetBlacklist, SetAnswered
<1>9. CASE ImportRow(r) \/ ImportEnds(r)  BY <1>9 DEF ImportRow, ImportEnds
<1>10. CASE Respond(r)  BY <1>10 DEF Respond
<1> QED  BY <1>1, <1>2, <1>3, <1>4, <1>5, <1>6, <1>7, <1>8, <1>9, <1>10 DEF Step, Serve

\* Nobody's step moves the clock, takes a token back or restarts the server.
LEMMA OnlyGrows ==
  ASSUME NEW r \in Requests, Step(r)
  PROVE  now' = now /\ connected' = connected /\ issued \subseteq issued'
<1> USE DEF Local
<1>1. CASE Handle(r)
  BY <1>1 DEF Handle, HandleRegister, HandleLogin, HandleMe, HandleLogout, BulkImportUsers,
     Unauthorized, Begin, Refuse, Receive
<1>2. CASE DbFails(r)  BY <1>2 DEF DbFails
<1>3. CASE CreateUser(r) \/ GetUserByEmail(r) \/ Login(r) \/ PublishEvent(r)
  BY <1>3 DEF CreateUser, GetUserByEmail, Login, PublishEvent, Hand
<1>4. CASE BlacklistToken(r) \/ SetBlacklist(r) \/ ImportRow(r) \/ ImportEnds(r) \/ Respond(r)
  BY <1>4 DEF BlacklistToken, SetBlacklist, ImportRow, ImportEnds, Respond
<1> QED  BY <1>1, <1>2, <1>3, <1>4 DEF Step, Serve

-----------------------------------------------------------------------------
(* Types.                                                                     *)

\* It is enough to look at the tables and at the request that moves.
LEMMA OwnSlot ==
  ASSUME TypeInv, NEW r \in Requests, Step(r), StoreOK', SlotsOK', RequestOK(r)',
         \A k \in issued' : k.exp <= now + Lifetime,
         minted'[r] # None => minted'[r].exp <= now + Lifetime
  PROVE  TypeInv'
<1>1. SlotsOK /\ TokensExpire /\ \A q \in Requests : RequestOK(q)  BY DEF TypeInv
<1>2. now' = now /\ issued \subseteq issued'  BY OnlyGrows
<1>3. ASSUME NEW q \in Requests, q # r
      PROVE  RequestOK(q)' /\ minted'[q] = minted[q]
  <2>1. /\ pc'[q] = pc[q] /\ job'[q] = job[q] /\ account'[q] = account[q] /\ minted'[q] = minted[q]
        /\ ttl'[q] = ttl[q]
    BY <1>1, <1>3, OthersUntouched
  <2>2. RequestOK(q)  BY <1>1
  <2> QED  BY <1>2, <2>1, <2>2 DEF RequestOK, JobOK
<1>4. \A q \in Requests : RequestOK(q)'  BY <1>3
<1>5. TokensExpire'
  BY <1>1, <1>2, <1>3 DEF TokensExpire
<1> QED  BY <1>4, <1>5 DEF TypeInv

LEMMA BeginTypes ==
  ASSUME TypeInv, NEW r \in Requests, Step(r), pc[r] = "idle", NEW j \in Jobs, NEW l \in Labels,
         l \in {"insert", "select", "ttl", "import"}, JobOK(l, j), Begin(r, j, l)
  PROVE  TypeInv'
<1>1. StoreOK /\ SlotsOK /\ TokensExpire /\ RequestOK(r)  BY DEF TypeInv
<1>2. StoreOK' /\ issued' = issued  BY <1>1 DEF Begin, Receive, StoreOK
<1>3. j.op = "Login" /\ j.email # None => j.email \in Emails  BY DEF Jobs
<1>4. SlotsOK'  BY <1>1, <1>3 DEF Begin, Receive, Goto, SlotsOK, StoreOK
<1>5. RequestOK(r)' /\ minted'[r] = None
  BY <1>1 DEF Begin, Receive, Goto, SlotsOK, RequestOK, JobOK
<1> QED  BY <1>1, <1>2, <1>4, <1>5, OwnSlot DEF TokensExpire

LEMMA RefuseTypes ==
  ASSUME TypeInv, NEW r \in Requests, Step(r), pc[r] = "idle", NEW j \in Jobs, NEW a \in Answers,
         Refuse(r, j, a)
  PROVE  TypeInv'
<1>1. StoreOK /\ SlotsOK /\ TokensExpire /\ RequestOK(r)  BY DEF TypeInv
<1>2. StoreOK' /\ issued' = issued  BY <1>1 DEF Refuse, Receive, StoreOK
<1>3. j.op = "Login" /\ j.email # None => j.email \in Emails  BY DEF Jobs
<1>4. SlotsOK'  BY <1>1, <1>3 DEF Refuse, Receive, Answer, SlotsOK, StoreOK, Labels
<1>5. RequestOK(r)' /\ minted'[r] = None
  BY <1>1 DEF Refuse, Receive, Answer, SlotsOK, RequestOK, JobOK
<1> QED  BY <1>1, <1>2, <1>4, <1>5, OwnSlot DEF TokensExpire

LEMMA HandleTypes ==
  ASSUME TypeInv, NEW r \in Requests, Handle(r)  PROVE TypeInv'
<1> USE DEF Job, Jobs, AskedRoles, Labels, Answers, JobOK
<1>0. Step(r) /\ issued \subseteq Tokens  BY DEF Step, TypeInv, StoreOK
<1>u. ASSUME NEW op \in {"Me", "Logout", "Import"}, pc[r] = "idle", Unauthorized(r, op)  PROVE TypeInv'
  BY <1>0, <1>u, RefuseTypes DEF Unauthorized
<1>1. CASE HandleRegister(r)  BY <1>0, <1>1, BeginTypes, RefuseTypes DEF HandleRegister
<1>2. CASE HandleLogin(r)  BY <1>0, <1>2, BeginTypes, RefuseTypes DEF HandleLogin
<1>3. CASE HandleMe(r)  BY <1>0, <1>u, <1>3, RefuseTypes DEF HandleMe
<1>4. CASE HandleLogout(r)  BY <1>0, <1>u, <1>4, BeginTypes DEF HandleLogout
<1>5. CASE BulkImportUsers(r)
  <2>1. \A k \in issued : k.role \in MayImport => k.role = "manager"
    BY <1>0 DEF Tokens, Roles, MayImport
  <2> QED  BY <1>0, <1>u, <1>5, <2>1, BeginTypes, RefuseTypes DEF BulkImportUsers
<1> QED  BY <1>1, <1>2, <1>3, <1>4, <1>5 DEF Handle

\* Unix() never rounds up.
LEMMA WholeSecondsBound ==
  ASSUME NEW t \in Nat  PROVE WholeSeconds(t) \in 0 .. t
<1>1. Second \in Nat \ {0}  BY LifetimeAssumption
<1>2. t % Second \in Nat /\ t % Second <= t  BY <1>1
<1> QED  BY <1>2 DEF WholeSeconds

LEMMA RegisterLoginTypes ==
  ASSUME TypeInv, NEW r \in Requests,
         CreateUser(r) \/ GetUserByEmail(r) \/ Login(r) \/ PublishEvent(r) \/ DbFails(r)
  PROVE  TypeInv'
<1>0. StoreOK /\ SlotsOK /\ TokensExpire /\ RequestOK(r) /\ Step(r)  BY DEF TypeInv, Step, Serve
<1>a. GetUserByEmail(r) => /\ pc[r] = "select" /\ job[r].email \in Emails
                           /\ users[job[r].email] \in Accounts \cup {None}
  <2>1. GetUserByEmail(r) => pc[r] = "select"  BY DEF GetUserByEmail
  <2>2. pc[r] = "select" => job[r].email \in Emails  BY <1>0 DEF RequestOK, JobOK
  <2> QED  BY <1>0, <2>1, <2>2 DEF StoreOK
<1> USE <1>0, OwnSlot, LifetimeAssumption, NoneAssumption
        DEF StoreOK, SlotsOK, RequestOK, TokensExpire, JobOK, Labels, Answers, Goto, Answer, Local
<1>1. CASE CreateUser(r)
  <2>1. pc[r] = "insert" /\ job[r].email \in Emails /\ job[r].password \in Passwords
    BY <1>1 DEF CreateUser
  <2>2. NewAccount(job[r].password, job[r].role) \in Accounts
    BY <2>1 DEF NewAccount, GrantedRole, Accounts, Roles
  <2> QED  BY <1>1, <2>1, <2>2 DEF CreateUser
<1>2. CASE GetUserByEmail(r)
  <2>1. minted[r] = None  BY <1>2, <1>a
  <2>2. StoreOK' /\ issued' = issued /\ minted' = minted  BY <1>2 DEF GetUserByEmail
  <2>3. SlotsOK' /\ RequestOK(r)'  BY <1>2, <1>a, <2>1 DEF GetUserByEmail
  <2> QED  BY <2>1, <2>2, <2>3
<1>3. CASE Login(r)
  <2>1. pc[r] = "sign" /\ job[r].email \in Emails /\ account[r].role \in Roles
    BY <1>3 DEF Login, Accounts
  <2>2. NewToken(r) \in Tokens /\ NewToken(r).exp <= now + Lifetime
    <3>1. WholeSeconds(now + Lifetime) \in 0 .. (now + Lifetime)  BY WholeSecondsBound
    <3> QED  BY <2>1, <3>1 DEF NewToken, Tokens, Times
  <2>3. StoreOK' /\ SlotsOK' /\ RequestOK(r)'  BY <1>3, <2>1, <2>2 DEF Login, Hand
  <2>4. /\ \A k \in issued' : k.exp <= now + Lifetime
        /\ minted'[r] # None => minted'[r].exp <= now + Lifetime
    BY <1>3, <2>1, <2>2 DEF Login, Hand
  <2> QED  BY <2>3, <2>4
<1>4. CASE PublishEvent(r)
  BY <1>4 DEF PublishEvent, Hand
<1>5. CASE DbFails(r)  BY <1>5 DEF DbFails
<1> QED  BY <1>1, <1>2, <1>3, <1>4, <1>5

LEMMA LogoutImportTypes ==
  ASSUME TypeInv, NEW r \in Requests,
         BlacklistToken(r) \/ SetBlacklist(r) \/ ImportRow(r) \/ ImportEnds(r) \/ Respond(r)
  PROVE  TypeInv'
<1>0. StoreOK /\ SlotsOK /\ TokensExpire /\ RequestOK(r) /\ Step(r)  BY DEF TypeInv, Step, Serve
<1> USE <1>0, OwnSlot, LifetimeAssumption, NoneAssumption
        DEF StoreOK, SlotsOK, RequestOK, TokensExpire, JobOK, Labels, Answers, Goto, Answer, Local
<1>1. CASE BlacklistToken(r)
  <2>1. job[r].token \in issued /\ job[r].token.exp \in Nat /\ job[r].token.exp <= now + Lifetime
    BY <1>1 DEF BlacklistToken, Tokens, Times
  <2>2. TimeLeft(job[r].token) # 0 => TimeLeft(job[r].token) \in 1 .. Lifetime
    BY <2>1 DEF TimeLeft
  <2> QED  BY <1>1, <2>1, <2>2 DEF BlacklistToken, LoggedOut
<1>2. CASE SetBlacklist(r)
  <2>1. job[r].token \in issued /\ job[r].token \in Tokens /\ ttl[r] \in 1 .. Lifetime
    BY <1>2 DEF SetBlacklist
  <2>2. blacklist' \subseteq [token : Tokens, until : Nat \cup {Forever}]
    <3>1. \A t \in Deadlines(ttl[r]) : t \in Nat  BY <2>1 DEF Deadlines, Millis
    <3> QED  BY <1>2, <2>1, <3>1 DEF SetBlacklist, StoreKey
  <2> QED  BY <1>2, <2>1, <2>2 DEF SetBlacklist, SetAnswered, LoggedOut
<1>3. CASE ImportRow(r)
  <2>1. \A p \in Passwords, g \in AskedRoles : NewAccount(p, g) \in Accounts
    BY DEF NewAccount, GrantedRole, Accounts, Roles
  <2> QED  BY <1>3, <2>1 DEF ImportRow
<1>4. CASE ImportEnds(r)  BY <1>4 DEF ImportEnds
<1>5. CASE Respond(r)  BY <1>5 DEF Respond
<1> QED  BY <1>1, <1>2, <1>3, <1>4, <1>5

LEMMA EnvironmentTypes == TypeInv /\ (Tick \/ Crash \/ UNCHANGED vars) => TypeInv'
<1> SUFFICES ASSUME TypeInv, Tick \/ Crash \/ UNCHANGED vars  PROVE TypeInv'  OBVIOUS
<1> USE LifetimeAssumption
        DEF TypeInv, StoreOK, SlotsOK, TokensExpire, RequestOK, JobOK, Labels
<1>1. CASE Tick
  <2>1. \A k \in Tokens : k.exp \in Nat  BY DEF Tokens, Times
  <2> QED  BY <1>1, <2>1 DEF Tick, server
<1>2. CASE Crash  BY <1>2 DEF Crash
<1>3. CASE UNCHANGED vars  BY <1>3 DEF vars, server
<1> QED  BY <1>1, <1>2, <1>3

LEMMA NextTypes == TypeInv /\ [Next]_vars => TypeInv'
<1> SUFFICES ASSUME TypeInv, [Next]_vars  PROVE TypeInv'  OBVIOUS
<1>1. ASSUME NEW r \in Requests, Step(r)  PROVE TypeInv'
  BY <1>1, HandleTypes, RegisterLoginTypes, LogoutImportTypes DEF Step, Serve
<1> QED  BY <1>1, EnvironmentTypes DEF Next, Step

LEMMA TypeInvHolds == Spec => []TypeInv
<1> QED  BY InitTypes, NextTypes, PTL DEF Spec

\* The table, the Redis keys, the tokens and the requests keep their types; in
\* particular no token, and no key's time to live, exceeds the lifetime.
THEOREM TypeSafe == Spec => []TypeOK
<1>1. TypeInv => TypeOK  BY DEF TypeInv, StoreOK, SlotsOK, TypeOK
<1> QED  BY <1>1, TypeInvHolds, PTL

-----------------------------------------------------------------------------
(* Accounts: once a row is there it never changes, so what a request has read *)
(* or written about an account is still true when it answers.                 *)

RequestKnows(r) ==
    LET row == users[job[r].email] IN
    /\ pc[r] = "sign" => account[r] = row
    /\ pc[r] = "publish" /\ job[r].op = "Register" => row = NewAccount(job[r].password, job[r].role)
    /\ pc[r] = "publish" /\ job[r].op = "Login" => row # None /\ row.password = job[r].password
    /\ minted[r] # None => minted[r].user = job[r].email /\ minted[r].role = row.role
    /\ pc[r] # "idle" /\ arrived[r] # None => job[r].email # None /\ arrived[r] = row
    /\ pc[r] = "done" /\ job[r].email # None /\ job[r].op = "Register" /\ answer[r] = "OK" => row # None

AccountsInv == TokensMatchAccounts /\ AnswersTellTheTruth /\ \A r \in Requests : RequestKnows(r)

LEMMA NewAccountsExist ==
  ASSUME NEW p \in Passwords, NEW g \in AskedRoles
  PROVE  NewAccount(p, g) \in Accounts /\ NewAccount(p, g) # None
  BY NoneAssumption DEF NewAccount, GrantedRole, Accounts, Roles

LEMMA AccountsStay ==
  ASSUME TypeInv, NEW r \in Requests, Step(r), NEW e \in Emails, users[e] # None
  PROVE  users'[e] = users[e]
<1>0. StoreOK  BY DEF TypeInv
<1> USE <1>0 DEF StoreOK, Local
<1>1. CASE CreateUser(r)  BY <1>1 DEF CreateUser
<1>2. CASE ImportRow(r)  BY <1>2 DEF ImportRow
<1>3. CASE Handle(r)
  BY <1>3 DEF Handle, HandleRegister, HandleLogin, HandleMe, HandleLogout, BulkImportUsers,
     Unauthorized, Begin, Refuse, Receive
<1>4. CASE GetUserByEmail(r) \/ Login(r) \/ PublishEvent(r) \/ DbFails(r)
  BY <1>4 DEF GetUserByEmail, Login, PublishEvent, DbFails
<1>5. CASE BlacklistToken(r) \/ SetBlacklist(r) \/ ImportEnds(r) \/ Respond(r)
  BY <1>5 DEF BlacklistToken, SetBlacklist, ImportEnds, Respond
<1> QED  BY <1>1, <1>2, <1>3, <1>4, <1>5 DEF Step, Serve

\* The clause of AnswersTellTheTruth about one request.
AnswerTrue(r) ==
    pc[r] = "done" /\ job[r].email # None =>
        LET row == users[job[r].email] IN
        /\ job[r].op = "Register" /\ answer[r] = "OK" => row = NewAccount(job[r].password, job[r].role)
        /\ job[r].op = "Login" /\ answer[r] = "OK" => row # None /\ row.password = job[r].password
        /\ job[r].op = "Login" /\ answer[r] = "Unauthorized" =>
             arrived[r] = None \/ arrived[r].password # job[r].password

LEMMA InitAccounts == Init => AccountsInv
  BY DEF Init, AccountsInv, TokensMatchAccounts, AnswersTellTheTruth, RequestKnows

\* It is enough to look at the new tokens and at the request that moves.
LEMMA OwnAccount ==
  ASSUME TypeInv, TypeInv', AccountsInv, NEW r \in Requests, Step(r),
         \A k \in issued' \ issued : users'[k.user] # None /\ users'[k.user].role = k.role,
         RequestKnows(r)', AnswerTrue(r)'
  PROVE  AccountsInv'
<1>1. StoreOK /\ SlotsOK /\ \A q \in Requests : RequestOK(q)  BY DEF TypeInv
<1>2. TokensMatchAccounts'
  <2>1. ASSUME NEW k \in issued  PROVE users'[k.user] = users[k.user]
    BY <1>1, AccountsStay DEF AccountsInv, TokensMatchAccounts, StoreOK, Tokens
  <2> QED  BY <2>1 DEF AccountsInv, TokensMatchAccounts
<1>3. ASSUME NEW q \in Requests, q # r  PROVE RequestKnows(q)' /\ AnswerTrue(q)'
  <2>1. /\ pc'[q] = pc[q] /\ job'[q] = job[q] /\ account'[q] = account[q] /\ minted'[q] = minted[q]
        /\ answer'[q] = answer[q] /\ arrived'[q] = arrived[q]
    BY <1>1, <1>3, OthersUntouched
  <2>2. RequestOK(q) /\ RequestKnows(q) /\ AnswerTrue(q)
    BY <1>1 DEF AccountsInv, AnswersTellTheTruth, AnswerTrue
  <2>3. CASE pc[q] = "idle"  BY <2>1, <2>2, <2>3 DEF RequestKnows, AnswerTrue, RequestOK
  <2>4. CASE pc[q] # "idle" /\ job[q].email = None
    BY <2>1, <2>2, <2>4, NoneAssumption DEF RequestKnows, AnswerTrue, RequestOK, JobOK
  <2>5. CASE pc[q] # "idle" /\ job[q].email # None
    <3>1. job[q].email \in Emails  BY <2>2, <2>5 DEF RequestOK, Jobs
    <3>2. users[job[q].email] # None => users'[job[q].email] = users[job[q].email]
      BY <3>1, AccountsStay
    <3> QED  BY <2>1, <2>2, <2>5, <3>1, <3>2, NewAccountsExist, NoneAssumption
         DEF RequestKnows, AnswerTrue, RequestOK, JobOK
  <2> QED  BY <2>3, <2>4, <2>5
<1>4. \A q \in Requests : RequestKnows(q)' /\ AnswerTrue(q)'  BY <1>3
<1>5. AnswersTellTheTruth'  BY <1>4 DEF AnswersTellTheTruth, AnswerTrue
<1> QED  BY <1>2, <1>4, <1>5 DEF AccountsInv

LEMMA RegisterAccounts ==
  ASSUME TypeInv, TypeInv', AccountsInv, NEW r \in Requests,
         CreateUser(r) \/ GetUserByEmail(r) \/ Login(r) \/ PublishEvent(r) \/ DbFails(r)
  PROVE  AccountsInv'
<1>0. /\ StoreOK /\ SlotsOK /\ RequestOK(r) /\ RequestKnows(r) /\ Step(r)
      /\ AnswerTrue(r) /\ TokensMatchAccounts
  BY DEF TypeInv, AccountsInv, AnswersTellTheTruth, AnswerTrue, Step, Serve
<1> USE <1>0, OwnAccount, NoneAssumption
        DEF StoreOK, SlotsOK, RequestOK, RequestKnows, AnswerTrue, JobOK, Goto, Answer, Local
<1>1. CASE CreateUser(r)
  <2>1. pc[r] = "insert" /\ job[r].op = "Register" /\ job[r].email \in Emails /\ minted[r] = None
    BY <1>1 DEF CreateUser
  <2>2. job[r].password \in Passwords /\ job[r].role \in AskedRoles  BY <2>1
  <2>3. NewAccount(job[r].password, job[r].role) # None  BY <2>2, NewAccountsExist
  <2>4. CASE users[job[r].email] = None  BY <1>1, <2>1, <2>3, <2>4 DEF CreateUser
  <2>5. CASE users[job[r].email] # None  BY <1>1, <2>1, <2>5 DEF CreateUser
  <2> QED  BY <2>4, <2>5
<1>2. CASE GetUserByEmail(r)
  <2>1. pc[r] = "select" /\ job[r].op = "Login" /\ job[r].email \in Emails /\ minted[r] = None
    BY <1>2 DEF GetUserByEmail
  <2> QED  BY <1>2, <2>1 DEF GetUserByEmail
<1>3. CASE Login(r)
  <2>1. pc[r] = "sign" /\ job[r].op = "Login" /\ job[r].email \in Emails /\ minted[r] = None
    BY <1>3 DEF Login
  <2>2. account[r] = users[job[r].email] /\ users[job[r].email] # None  BY <2>1
  <2> QED  BY <1>3, <2>1, <2>2 DEF Login, NewToken, Hand
<1>4. CASE PublishEvent(r)
  <2>1. pc[r] = "publish" /\ job[r].op \in {"Register", "Login"} /\ job[r].email \in Emails
    BY <1>4 DEF PublishEvent
  <2>2. minted[r] # None => job[r].op = "Login"  BY <2>1
  <2>3. job[r].op = "Register" => NewAccount(job[r].password, job[r].role) # None
    BY <2>1, NewAccountsExist
  <2> QED  BY <1>4, <2>1, <2>2, <2>3 DEF PublishEvent, Hand
<1>5. CASE DbFails(r)  BY <1>5 DEF DbFails
<1> QED  BY <1>1, <1>2, <1>3, <1>4, <1>5

LEMMA OtherAccounts ==
  ASSUME TypeInv, TypeInv', AccountsInv, NEW r \in Requests,
         Handle(r) \/ BlacklistToken(r) \/ SetBlacklist(r) \/ ImportRow(r) \/ ImportEnds(r) \/ Respond(r)
  PROVE  AccountsInv'
<1>0. /\ StoreOK /\ SlotsOK /\ RequestOK(r) /\ RequestKnows(r) /\ Step(r)
      /\ AnswerTrue(r) /\ TokensMatchAccounts
  BY DEF TypeInv, AccountsInv, AnswersTellTheTruth, AnswerTrue, Step, Serve
<1> USE <1>0, OwnAccount, NoneAssumption
        DEF StoreOK, SlotsOK, RequestOK, RequestKnows, AnswerTrue, JobOK, Goto, Answer, Local
<1>1. CASE Handle(r)
  <2>1. pc[r] = "idle"
    BY <1>1 DEF Handle, HandleRegister, HandleLogin, HandleMe, HandleLogout, BulkImportUsers
  <2>2. minted[r] = None  BY <2>1
  <2>3. ASSUME NEW j \in Jobs, NEW l \in {"insert", "select", "ttl", "import"}, Begin(r, j, l)
        PROVE  AccountsInv'
    BY <2>1, <2>2, <2>3 DEF Begin, Receive
  <2>4. ASSUME NEW j \in Jobs, NEW a \in Answers, Refuse(r, j, a), j.email = None
        PROVE  AccountsInv'
    BY <2>1, <2>2, <2>4 DEF Refuse, Receive
  <2> USE DEF Job, Jobs, AskedRoles, Answers
  <2>u. ASSUME NEW op \in {"Me", "Logout", "Import"}, Unauthorized(r, op)  PROVE AccountsInv'
    BY <2>u, <2>4 DEF Unauthorized
  <2>5. CASE HandleRegister(r) \/ HandleLogin(r)  BY <2>3, <2>4, <2>5 DEF HandleRegister, HandleLogin
  <2>6. CASE HandleMe(r) \/ HandleLogout(r)  BY <2>3, <2>4, <2>u, <2>6 DEF HandleMe, HandleLogout
  <2>7. CASE BulkImportUsers(r)  BY <2>3, <2>4, <2>u, <2>7 DEF BulkImportUsers
  <2> QED  BY <1>1, <2>5, <2>6, <2>7 DEF Handle
<1>2. CASE BlacklistToken(r)  BY <1>2 DEF BlacklistToken
<1>3. CASE SetBlacklist(r)  BY <1>3 DEF SetBlacklist, SetAnswered
<1>4. CASE ImportRow(r)  BY <1>4 DEF ImportRow
<1>5. CASE ImportEnds(r)  BY <1>5 DEF ImportEnds
<1>6. CASE Respond(r)  BY <1>6 DEF Respond
<1> QED  BY <1>1, <1>2, <1>3, <1>4, <1>5, <1>6

LEMMA NextAccounts == TypeInv /\ AccountsInv /\ [Next]_vars => AccountsInv'
<1> SUFFICES ASSUME TypeInv, AccountsInv, [Next]_vars  PROVE AccountsInv'  OBVIOUS
<1>0. TypeInv'  BY NextTypes
<1>1. ASSUME NEW r \in Requests, Step(r)  PROVE AccountsInv'
  BY <1>0, <1>1, RegisterAccounts, OtherAccounts DEF Step, Serve
<1>2. CASE Tick \/ Crash \/ UNCHANGED vars
  BY <1>2 DEF Tick, Crash, vars, server, AccountsInv, TokensMatchAccounts, AnswersTellTheTruth, RequestKnows
<1> QED  BY <1>1, <1>2 DEF Next, Step

LEMMA AccountsInvHolds == Spec => [](TypeInv /\ AccountsInv)
<1> QED  BY InitTypes, InitAccounts, NextTypes, NextAccounts, PTL DEF Spec

\* The claims of every token in circulation are those of the account's row,
\* whatever registrations, imports, failures and restarts come between: the
\* middleware need not ask the database (auth/service.go, Login).
THEOREM TokensAlwaysMatchAccounts == Spec => []TokensMatchAccounts
<1>1. AccountsInv => TokensMatchAccounts  BY DEF AccountsInv
<1> QED  BY <1>1, AccountsInvHolds, PTL

\* Every import that gets past the middleware runs for a manager's account.
THEOREM ImportersAreAlwaysManagers == Spec => []ImportersAreManagers
<1>1. TypeInv /\ AccountsInv => ImportersAreManagers
  BY DEF TypeInv, RequestOK, JobOK, AccountsInv, TokensMatchAccounts, ImportersAreManagers
<1> QED  BY <1>1, AccountsInvHolds, PTL

\* What registration and login answer is true of the account when they answer,
\* with any number of clients after one address.
THEOREM AnswersAlwaysTellTheTruth == Spec => []AnswersTellTheTruth
<1>1. AccountsInv => AnswersTellTheTruth  BY DEF AccountsInv
<1> QED  BY <1>1, AccountsInvHolds, PTL

-----------------------------------------------------------------------------
(* The blacklist: the time to live a logout has computed reaches at least to  *)
(* the end of the token, however late the SET is sent; cut to milliseconds,   *)
(* it misses the last one at most.                                            *)

Covers(key, k) == key.token = k /\ key.until + 1 >= k.exp
ReachesTheEnd(r) == pc[r] = "set" => now + ttl[r] >= job[r].token.exp

BlacklistInv ==
    /\ BlacklistEntriesExpire
    /\ \A k \in loggedOut : Accepts(k) /\ (now + 1 < k.exp => \E key \in blacklist : Covers(key, k))
    /\ \A r \in Requests : ReachesTheEnd(r)

LEMMA InitBlacklist == Init => BlacklistInv
  BY DEF Init, BlacklistInv, BlacklistEntriesExpire, ReachesTheEnd

LEMMA LogoutBlacklist ==
  ASSUME TypeInv, BlacklistInv, NEW r \in Requests, BlacklistToken(r) \/ SetBlacklist(r)
  PROVE  BlacklistInv'
<1>0. StoreOK /\ SlotsOK /\ RequestOK(r) /\ Step(r) /\ TokensExpire  BY DEF TypeInv, Step, Serve
<1>1. now \in Nat /\ now' = now /\ \A k \in Tokens : k.exp \in Nat
  BY <1>0, LifetimeAssumption, OnlyGrows DEF StoreOK, Tokens, Times
<1>2. pc[r] \in {"ttl", "set"} /\ job[r].token \in issued /\ job[r].token \in Tokens
  BY <1>0 DEF BlacklistToken, SetBlacklist, RequestOK, JobOK, StoreOK
<1>3. ASSUME NEW q \in Requests, q # r  PROVE ReachesTheEnd(q)'
  <2>1. pc'[q] = pc[q] /\ job'[q] = job[q] /\ ttl'[q] = ttl[q]  BY <1>0, <1>3, OthersUntouched
  <2> QED  BY <1>1, <2>1 DEF BlacklistInv, ReachesTheEnd
<1>4. CASE BlacklistToken(r)
  <2>1. TimeLeft(job[r].token) = 0 => ~Accepts(job[r].token)
    BY <1>1, <1>2 DEF TimeLeft, Accepts
  <2>2. loggedOut' = loggedOut /\ blacklist' = blacklist
    BY <1>4, <2>1 DEF BlacklistToken, LoggedOut
  <2>3. TimeLeft(job[r].token) # 0 => now + TimeLeft(job[r].token) >= job[r].token.exp
    BY <1>1, <1>2 DEF TimeLeft
  <2>4. ReachesTheEnd(r)'
    BY <1>0, <1>1, <1>4, <2>3 DEF BlacklistToken, SlotsOK, ReachesTheEnd, Goto, Answer
  <2> QED  BY <1>1, <1>3, <2>2, <2>4 DEF BlacklistInv, BlacklistEntriesExpire, Accepts
<1>5. CASE SetBlacklist(r)
  <2> DEFINE k == job[r].token
  <2>1. ttl[r] \in Nat \ {0} /\ now + ttl[r] >= k.exp
    BY <1>0, <1>5, LifetimeAssumption DEF SetBlacklist, RequestOK, BlacklistInv, ReachesTheEnd
  <2>2. \A t \in Deadlines(ttl[r]) : t \in Nat /\ t + 1 >= k.exp
    BY <1>1, <1>2, <2>1 DEF Deadlines, Millis
  <2>3. ReachesTheEnd(r)'
    BY <1>0, <1>1, <1>5, <2>1 DEF SetBlacklist, SetAnswered, SlotsOK, ReachesTheEnd, Answer
  <2>4. \A m \in loggedOut' : m \in loggedOut \/ (m = k /\ Accepts(k))
    BY <1>5 DEF SetBlacklist, LoggedOut
  <2>5. CASE StoreKey(r)
    <3>1. PICK t \in Deadlines(ttl[r]) :
            blacklist' = {key \in blacklist : key.token # k} \cup {[token |-> k, until |-> t]}
      BY <2>5 DEF StoreKey
    <3> DEFINE new == [token |-> k, until |-> t]
    <3>2. Covers(new, k) /\ new.until # Forever  BY <2>2, NoneAssumption DEF Covers
    <3>3. BlacklistEntriesExpire'  BY <3>1, <3>2 DEF BlacklistInv, BlacklistEntriesExpire
    <3>4. ASSUME NEW m \in loggedOut'
          PROVE  Accepts(m) /\ (now + 1 < m.exp => \E key \in blacklist' : Covers(key, m))
      <4>1. CASE m = k  BY <2>4, <3>1, <3>2, <4>1 DEF BlacklistInv
      <4>2. CASE m # k
        <5>1. m \in loggedOut  BY <2>4, <4>2
        <5>2. SUFFICES ASSUME now + 1 < m.exp  PROVE \E key \in blacklist' : Covers(key, m)
          BY <5>1 DEF BlacklistInv
        <5>3. PICK key \in blacklist : Covers(key, m)  BY <5>1, <5>2 DEF BlacklistInv
        <5>4. key \in blacklist'  BY <3>1, <4>2, <5>3 DEF Covers
        <5> QED  BY <5>3, <5>4
      <4> QED  BY <4>1, <4>2
    <3> QED  BY <1>1, <1>3, <2>3, <3>3, <3>4 DEF BlacklistInv, Accepts, Covers
  <2>6. CASE ~StoreKey(r)
    <3>1. blacklist' = blacklist /\ loggedOut' = loggedOut  BY <1>5, <2>6 DEF SetBlacklist
    <3> QED  BY <1>1, <1>3, <2>3, <3>1 DEF BlacklistInv, BlacklistEntriesExpire, Accepts, Covers
  <2> QED  BY <2>5, <2>6
<1> QED  BY <1>4, <1>5

LEMMA OtherBlacklist ==
  ASSUME TypeInv, BlacklistInv, NEW r \in Requests, Step(r), ~BlacklistToken(r), ~SetBlacklist(r)
  PROVE  BlacklistInv'
<1>0. SlotsOK /\ now' = now  BY OnlyGrows DEF TypeInv
<1>1. blacklist' = blacklist /\ loggedOut' = loggedOut /\ pc'[r] # "set"
  <2> USE <1>0 DEF Local, SlotsOK, Goto, Answer
  <2>1. CASE Handle(r)
    BY <2>1 DEF Handle, HandleRegister, HandleLogin, HandleMe, HandleLogout, BulkImportUsers,
       Unauthorized, Begin, Refuse, Receive
  <2>2. CASE CreateUser(r) \/ GetUserByEmail(r) \/ Login(r) \/ PublishEvent(r) \/ DbFails(r)
    BY <2>2 DEF CreateUser, GetUserByEmail, Login, PublishEvent, DbFails
  <2>3. CASE ImportRow(r) \/ ImportEnds(r) \/ Respond(r)
    BY <2>3 DEF ImportRow, ImportEnds, Respond
  <2> QED  BY <2>1, <2>2, <2>3 DEF Step, Serve
<1>2. ASSUME NEW q \in Requests  PROVE ReachesTheEnd(q)'
  <2>1. q # r => pc'[q] = pc[q] /\ job'[q] = job[q] /\ ttl'[q] = ttl[q]  BY <1>0, OthersUntouched
  <2> QED  BY <1>0, <1>1, <2>1 DEF BlacklistInv, ReachesTheEnd
<1> QED  BY <1>0, <1>1, <1>2 DEF BlacklistInv, BlacklistEntriesExpire, Accepts, Covers

LEMMA NextBlacklist == TypeInv /\ BlacklistInv /\ [Next]_vars => BlacklistInv'
<1> SUFFICES ASSUME TypeInv, BlacklistInv, [Next]_vars  PROVE BlacklistInv'  OBVIOUS
<1>1. ASSUME NEW r \in Requests, Step(r)  PROVE BlacklistInv'
  BY <1>1, LogoutBlacklist, OtherBlacklist
<1>2. CASE Tick
  <2>0. /\ now \in Nat /\ now' = now + 1 /\ loggedOut \subseteq Tokens
        /\ blacklist \subseteq [token : Tokens, until : Nat \cup {Forever}]
        /\ \A k \in Tokens : k.exp \in Nat
        /\ \A r \in Requests : pc[r] = "set" => ttl[r] \in Nat /\ job[r].token \in Tokens
    BY <1>2, LifetimeAssumption DEF Tick, TypeInv, StoreOK, RequestOK, JobOK, Tokens, Times
  <2>1. BlacklistEntriesExpire'  BY <1>2 DEF Tick, BlacklistInv, BlacklistEntriesExpire
  <2>2. ASSUME NEW k \in loggedOut'
        PROVE  Accepts(k)' /\ (now' + 1 < k.exp => \E key \in blacklist' : Covers(key, k))
    <3>1. k \in loggedOut /\ k.exp \in Nat /\ k.exp > now + 1  BY <1>2, <2>0, <2>2 DEF Tick
    <3>2. Accepts(k)'  BY <2>0, <3>1 DEF Accepts
    <3>3. SUFFICES ASSUME now + 2 < k.exp  PROVE \E key \in blacklist' : Covers(key, k)
      BY <2>0, <3>1, <3>2
    <3>4. PICK key \in blacklist : Covers(key, k)  BY <2>0, <3>1, <3>3 DEF BlacklistInv
    <3>5. key.until \in Nat  BY <2>0 DEF BlacklistInv, BlacklistEntriesExpire
    <3>6. key \in blacklist'  BY <1>2, <2>0, <3>1, <3>3, <3>4, <3>5 DEF Tick, Covers
    <3> QED  BY <3>4, <3>6
  <2>3. \A r \in Requests : ReachesTheEnd(r)'
    BY <1>2, <2>0 DEF Tick, server, BlacklistInv, ReachesTheEnd
  <2> QED  BY <2>1, <2>2, <2>3 DEF BlacklistInv, Covers
<1>3. CASE Crash \/ UNCHANGED vars
  BY <1>3 DEF Crash, vars, server, BlacklistInv, BlacklistEntriesExpire, ReachesTheEnd, Accepts, Covers
<1> QED  BY <1>1, <1>2, <1>3 DEF Next, Step

LEMMA BlacklistInvHolds == Spec => []BlacklistInv
<1> QED  BY InitTypes, InitBlacklist, NextTypes, NextBlacklist, PTL DEF Spec

\* A logout answered OK stays recorded until the last millisecond of its token,
\* however long the SET takes, however often it is sent, and whichever other
\* logouts of the token are under way (auth/service.go, BlacklistToken).
THEOREM BlacklistAlwaysCoversToken == Spec => []BlacklistCoversToken
<1>1. BlacklistInv => BlacklistCoversToken  BY DEF BlacklistInv, BlacklistCoversToken, Covers
<1> QED  BY <1>1, BlacklistInvHolds, PTL

\* No key of the blacklist is stored without a time to live.
THEOREM BlacklistEntriesAlwaysExpire == Spec => []BlacklistEntriesExpire
<1>1. BlacklistInv => BlacklistEntriesExpire  BY DEF BlacklistInv
<1> QED  BY <1>1, BlacklistInvHolds, PTL
=============================================================================
