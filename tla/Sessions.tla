------------------------------ MODULE Sessions ------------------------------
(***************************************************************************)
(* Accounts and sessions: registration, login, logout and the middleware   *)
(* in front of /api (internal/auth, internal/middleware), over the table   *)
(* users and the Redis keys blacklist:<token>.                             *)
(*                                                                         *)
(* An account is named by its e-mail address, which is UNIQUE; rows are    *)
(* never changed or deleted, so the address stands for the id as well.  A  *)
(* JWT is its claims: the signature is deterministic, so two logins of one *)
(* account whose tokens end in the same second get the same token.  Time   *)
(* is a counter of milliseconds shared by the server and Redis.            *)
(***************************************************************************)
EXTENDS Naturals, FiniteSets

CONSTANTS
    Emails,      \* addresses
    Passwords,
    Admin, AdminPassword,   \* the account that the schema seeds
    Requests,    \* requests in flight at the same time (bounds concurrency)
    Lifetime,    \* the 72 hours of a token, in milliseconds
    Second,      \* the milliseconds in a second
    MaxTime,     \* bound on the clock
    MaxTokens,   \* nobody logs in any more when so many tokens have been issued
    Faults,      \* the failures that may strike
    Forever,     \* the deadline of a Redis key without a time to live
    None         \* no row, no key, JSON absent field

Roles == {"manager", "member"}                \* users.system_role
AskedRoles == Roles \cup {"main_manager"}     \* what the registration form accepts
Answers == {"OK", "Validation", "Unauthorized", "Forbidden", "Duplicate", "Internal"}
Accounts == [password : Passwords, role : Roles]
Times == 0 .. (MaxTime + Lifetime)
Tokens == [user : Emails, role : Roles, exp : Times]
Labels == {"idle", "insert", "select", "sign", "publish", "ttl", "set", "import", "done"}

ASSUME LifetimeAssumption ==
    /\ Lifetime \in Nat /\ MaxTime \in Nat /\ MaxTokens \in Nat
    /\ Second \in 1 .. Lifetime
ASSUME FaultsAssumption == Faults \subseteq {"db", "redis", "crash"}
ASSUME NoneAssumption ==
    /\ None \notin Emails \cup Passwords \cup AskedRoles \cup Answers \cup Nat \cup {Forever}
    /\ None \notin Accounts \cup Tokens
    /\ Forever \notin Nat

ASSUME AdminAssumption == Admin \in Emails /\ AdminPassword \in Passwords

VARIABLES
    users,       \* users[e]: password (hash) and role of the row, None if there is none
    connected,   \* the server started with a Redis connection
    blacklist,   \* Redis blacklist:<token>: the keys there are, and when each expires
    now,         \* the time
    issued,      \* tokens clients have been given
    pc, job,     \* what the request does next, and what it asks for
    account,     \* the row a login has read
    minted,      \* the token a login has signed and not yet answered
    ttl,         \* time to live computed by a logout
    answer,      \* the response, once decided
    arrived,     \* history: the account a login names, as it was when the request arrived
    loggedOut    \* history: tokens whose logout was answered OK and that have not expired

server == <<pc, job, account, minted, ttl, answer, arrived>>
vars == <<users, connected, blacklist, now, issued, server, loggedOut>>

Jobs == [op : {"Register", "Login", "Me", "Logout", "Import"}, email : Emails \cup {None},
         password : Passwords \cup {None}, role : AskedRoles \cup {None}, token : Tokens \cup {None}]

Init ==
    /\ users = [e \in Emails |-> IF e = Admin THEN [password |-> AdminPassword, role |-> "manager"] ELSE None]
    /\ connected \in BOOLEAN
    /\ blacklist = {}
    /\ now = 0
    /\ issued = {}
    /\ pc = [r \in Requests |-> "idle"]
    /\ job = [r \in Requests |-> None]
    /\ account = [r \in Requests |-> None]
    /\ minted = [r \in Requests |-> None]
    /\ ttl = [r \in Requests |-> None]
    /\ answer = [r \in Requests |-> None]
    /\ arrived = [r \in Requests |-> None]
    /\ loggedOut = {}

-----------------------------------------------------------------------------
(* Moves of one request.                                                   *)

Goto(r, l) == pc' = [pc EXCEPT ![r] = l] /\ UNCHANGED answer
Answer(r, a) == pc' = [pc EXCEPT ![r] = "done"] /\ answer' = [answer EXCEPT ![r] = a]

Job(op, e, p, role, k) == [op |-> op, email |-> e, password |-> p, role |-> role, token |-> k]

Receive(r, j) ==
    /\ job' = [job EXCEPT ![r] = j]
    /\ arrived' = [arrived EXCEPT ![r] = IF j.op = "Login" /\ j.email # None THEN users[j.email] ELSE None]
    /\ UNCHANGED <<users, connected, blacklist, now, issued, account, minted, ttl, loggedOut>>

Begin(r, j, l) == Receive(r, j) /\ Goto(r, l)
Refuse(r, j, a) == Receive(r, j) /\ Answer(r, a)

-----------------------------------------------------------------------------
(* The handlers and the middleware.                                        *)

HandleRegister(r) ==
    /\ pc[r] = "idle"
    /\ \/ Refuse(r, Job("Register", None, None, None, None), "Validation")
       \/ Refuse(r, Job("Register", None, None, None, None), "Internal")   \* too long for bcrypt
       \/ \E e \in Emails, p \in Passwords, g \in AskedRoles :
            Begin(r, Job("Register", e, p, g, None), "insert")

HandleLogin(r) ==
    /\ pc[r] = "idle" /\ Cardinality(issued) < MaxTokens
    /\ \/ Refuse(r, Job("Login", None, None, None, None), "Validation")
       \/ \E e \in Emails, p \in Passwords : Begin(r, Job("Login", e, p, None, None), "select")

\* RequireAuth looks at the token and the clock, and at nothing else.
Accepts(k) == now < k.exp

\* A header that is missing, malformed or signed by somebody else, or an expired token.
Unauthorized(r, op) ==
    \/ Refuse(r, Job(op, None, None, None, None), "Unauthorized")
    \/ \E k \in issued : ~Accepts(k) /\ Refuse(r, Job(op, None, None, None, k), "Unauthorized")

HandleMe(r) ==
    /\ pc[r] = "idle"
    /\ \/ Unauthorized(r, "Me")
       \/ \E k \in issued : Accepts(k) /\ Refuse(r, Job("Me", None, None, None, k), "OK")

HandleLogout(r) ==
    /\ pc[r] = "idle"
    /\ \/ Unauthorized(r, "Logout")
       \/ \E k \in issued : Accepts(k) /\ Begin(r, Job("Logout", None, None, None, k), "ttl")

\* Mutant: whoever has a token may import.
BulkImportUsers_AnyRole(r) ==
    \E k \in issued : pc[r] = "idle" /\ Accepts(k) /\ Begin(r, Job("Import", None, None, None, k), "import")

MayImport == {"manager", "main_manager"}

BulkImportUsers(r) ==
    /\ pc[r] = "idle"
    /\ \/ Unauthorized(r, "Import")
       \/ \E k \in issued : LET j == Job("Import", None, None, None, k) IN
            /\ Accepts(k)
            /\ \/ k.role \notin MayImport /\ Refuse(r, j, "Forbidden")
               \/ k.role \in MayImport /\ Refuse(r, j, "Validation")  \* no usable file in the form
               \/ k.role \in MayImport /\ Refuse(r, j, "Internal")    \* the file cannot be opened
               \/ k.role \in MayImport /\ Begin(r, j, "import")

-----------------------------------------------------------------------------
(* Register and Login.                                                     *)

Local == UNCHANGED <<connected, blacklist, now, job, ttl, arrived, loggedOut>>

\* Mutant: the role is stored as asked.
GrantedRole_AsAsked(asked) == asked

\* "Enforce role rules: only allow manager, default others to member".
GrantedRole(asked) == IF asked = "manager" THEN "manager" ELSE "member"
NewAccount(p, asked) == [password |-> p, role |-> GrantedRole(asked)]

\* Mutant: INSERT .. ON DUPLICATE KEY UPDATE.
CreateUser_Upsert(r) ==
    LET e == job[r].email IN
    /\ pc[r] = "insert"
    /\ users' = [users EXCEPT ![e] = NewAccount(job[r].password, job[r].role)]
    /\ IF connected THEN Goto(r, "publish") ELSE Answer(r, "OK")
    /\ UNCHANGED <<issued, account, minted>> /\ Local

\* One INSERT.  With a failing connection it may have been executed unnoticed.
CreateUser(r) ==
    LET e == job[r].email IN
    /\ pc[r] = "insert"
    /\ \/ /\ users[e] = None
          /\ users' = [users EXCEPT ![e] = NewAccount(job[r].password, job[r].role)]
          /\ \/ connected /\ Goto(r, "publish")
             \/ ~connected /\ Answer(r, "OK")
             \/ "db" \in Faults /\ Answer(r, "Internal")
       \/ users[e] # None /\ Answer(r, "Duplicate") /\ UNCHANGED users
    /\ UNCHANGED <<issued, account, minted>> /\ Local

GetUserByEmail(r) ==
    LET row == users[job[r].email] IN
    /\ pc[r] = "select"
    /\ \/ row = None /\ Answer(r, "Unauthorized") /\ UNCHANGED account
       \/ row # None /\ Goto(r, "sign") /\ account' = [account EXCEPT ![r] = row]
    /\ UNCHANGED <<users, issued, minted>> /\ Local

\* The claim exp counts whole seconds: Unix() drops the rest.
WholeSeconds(t) == t - (t % Second)

NewToken(r) ==
    [user |-> job[r].email, role |-> account[r].role, exp |-> WholeSeconds(now + Lifetime)]

\* The client has the token when the answer is on its way.
Hand(k) == issued' = issued \cup {k}

\* Mutant: the password is not compared with the hash.
Login_NoCompare(r) ==
    /\ pc[r] = "sign"
    /\ IF connected THEN /\ Goto(r, "publish")
                         /\ minted' = [minted EXCEPT ![r] = NewToken(r)]
                         /\ UNCHANGED issued
                    ELSE Answer(r, "OK") /\ Hand(NewToken(r)) /\ UNCHANGED minted
    /\ account' = [account EXCEPT ![r] = None]
    /\ UNCHANGED users /\ Local

Login(r) ==
    /\ pc[r] = "sign"
    /\ \/ /\ account[r].password # job[r].password
          /\ Answer(r, "Unauthorized") /\ UNCHANGED <<issued, minted>>
       \/ /\ account[r].password = job[r].password /\ connected
          /\ Goto(r, "publish")
          /\ minted' = [minted EXCEPT ![r] = NewToken(r)]
          /\ UNCHANGED issued
       \/ /\ account[r].password = job[r].password /\ ~connected
          /\ Answer(r, "OK") /\ Hand(NewToken(r)) /\ UNCHANGED minted
    /\ account' = [account EXCEPT ![r] = None]
    /\ UNCHANGED users /\ Local

\* The audit event of a registration or a login: lost or not, the answer is OK.
PublishEvent(r) ==
    /\ pc[r] = "publish"
    /\ Answer(r, "OK")
    /\ IF minted[r] # None THEN Hand(minted[r]) ELSE UNCHANGED issued
    /\ minted' = [minted EXCEPT ![r] = None]
    /\ UNCHANGED <<users, account>> /\ Local

-----------------------------------------------------------------------------
(* Logout.                                                                 *)

\* Mutant: the time left in whole seconds.
TimeLeft_Seconds(k) == IF k.exp > now THEN WholeSeconds(k.exp - now) ELSE 0

\* time.Until, with a begun millisecond counted in; what is negative counts as 0.
TimeLeft(k) == IF k.exp > now THEN k.exp - now ELSE 0

LoggedOut(k) == loggedOut' = IF Accepts(k) THEN loggedOut \cup {k} ELSE loggedOut

\* Mutant: ttl < 0 instead of ttl <= 0.
BlacklistToken_OffByOne(r) ==
    /\ pc[r] = "ttl"
    /\ Goto(r, "set") /\ ttl' = [ttl EXCEPT ![r] = TimeLeft(job[r].token)]
    /\ UNCHANGED <<users, connected, blacklist, now, issued, job, account, minted, arrived, loggedOut>>

\* "Token is already expired, no need to waste Redis memory".
BlacklistToken(r) ==
    LET left == TimeLeft(job[r].token) IN
    /\ pc[r] = "ttl"
    /\ \/ left = 0 /\ Answer(r, "OK") /\ LoggedOut(job[r].token) /\ UNCHANGED ttl
       \/ left # 0 /\ Goto(r, "set") /\ ttl' = [ttl EXCEPT ![r] = left] /\ UNCHANGED loggedOut
    /\ UNCHANGED <<users, connected, blacklist, now, issued, job, account, minted, arrived>>

\* go-redis sends whole milliseconds, at least one: what was begun of the last
\* one is cut off.
Millis(duration) == {duration} \cup (IF duration > 1 THEN {duration - 1} ELSE {})

\* It sends no expiry with a duration that is not positive.
Deadlines(duration) == IF duration > 0 THEN {now + d : d \in Millis(duration)} ELSE {Forever}

StoreKey(r) ==
    \E t \in Deadlines(ttl[r]) :
      blacklist' = {key \in blacklist : key.token # job[r].token} \cup {[token |-> job[r].token, until |-> t]}

SetAnswered(r, a) == Answer(r, a) /\ ttl' = [ttl EXCEPT ![r] = None]

\* SET blacklist:<token>.  Without a connection the client is nil: the call
\* panics, and gin's Recovery answers 500.  Redis may execute a SET whose reply
\* is lost; go-redis sends it again, and again with the time to live it had.
SetBlacklist(r) ==
    /\ pc[r] = "set"
    /\ \/ connected /\ StoreKey(r) /\ SetAnswered(r, "OK") /\ LoggedOut(job[r].token)
       \/ /\ connected /\ "redis" \in Faults /\ StoreKey(r)
          /\ SetAnswered(r, "Internal") \/ UNCHANGED <<pc, answer, ttl>>
          /\ UNCHANGED loggedOut
       \/ /\ ~connected \/ "redis" \in Faults
          /\ SetAnswered(r, "Internal") /\ UNCHANGED <<blacklist, loggedOut>>
    /\ UNCHANGED <<users, connected, now, issued, job, account, minted, arrived>>

-----------------------------------------------------------------------------
(* The import, of which BulkImport has the detail: rows are registered one *)
(* by one, with the rules of Register.                                     *)

ImportRow(r) ==
    /\ pc[r] = "import"
    /\ \E e \in Emails, p \in Passwords, g \in AskedRoles :
         users[e] = None /\ users' = [users EXCEPT ![e] = NewAccount(p, g)]
    /\ UNCHANGED <<pc, answer, issued, account, minted>> /\ Local

ImportEnds(r) ==
    /\ pc[r] = "import"
    /\ Answer(r, "OK")
    /\ UNCHANGED <<users, issued, account, minted>> /\ Local

Respond(r) ==
    /\ pc[r] = "done"
    /\ pc' = [pc EXCEPT ![r] = "idle"]
    /\ job' = [job EXCEPT ![r] = None]
    /\ answer' = [answer EXCEPT ![r] = None]
    /\ arrived' = [arrived EXCEPT ![r] = None]
    /\ UNCHANGED <<users, connected, blacklist, now, issued, account, minted, ttl, loggedOut>>

-----------------------------------------------------------------------------
(* The environment.                                                        *)

\* A statement that fails and changed nothing.
DbFails(r) ==
    /\ "db" \in Faults
    /\ pc[r] \in {"insert", "select"}
    /\ Answer(r, "Internal")
    /\ UNCHANGED <<users, issued, account, minted>> /\ Local

\* Time passes; Redis drops the keys whose time has come.
Tick ==
    /\ now < MaxTime
    /\ now' = now + 1
    /\ blacklist' = {key \in blacklist : key.until = Forever \/ key.until > now + 1}
    /\ loggedOut' = {k \in loggedOut : k.exp > now + 1}
    /\ UNCHANGED <<users, connected, issued, server>>

\* The server dies and is started again, with or without Redis.
Crash ==
    /\ "crash" \in Faults
    /\ connected' \in BOOLEAN
    /\ pc' = [r \in Requests |-> "idle"]
    /\ job' = [r \in Requests |-> None]
    /\ account' = [r \in Requests |-> None]
    /\ minted' = [r \in Requests |-> None]
    /\ ttl' = [r \in Requests |-> None]
    /\ answer' = [r \in Requests |-> None]
    /\ arrived' = [r \in Requests |-> None]
    /\ UNCHANGED <<users, blacklist, now, issued, loggedOut>>

Handle(r) == HandleRegister(r) \/ HandleLogin(r) \/ HandleMe(r) \/ HandleLogout(r) \/ BulkImportUsers(r)

Serve(r) ==
    \/ CreateUser(r) \/ GetUserByEmail(r) \/ Login(r) \/ PublishEvent(r)
    \/ BlacklistToken(r) \/ SetBlacklist(r) \/ ImportRow(r) \/ ImportEnds(r) \/ Respond(r)

Next == (\E r \in Requests : Handle(r) \/ Serve(r) \/ DbFails(r)) \/ Tick \/ Crash

Spec == Init /\ [][Next]_vars

-----------------------------------------------------------------------------
(* Properties.                                                             *)

\* Types of the table, the Redis keys, the tokens and the requests.
TypeOK ==
    /\ users \in [Emails -> Accounts \cup {None}]
    /\ connected \in BOOLEAN
    /\ blacklist \subseteq [token : Tokens, until : Nat \cup {Forever}]
    /\ now \in 0 .. MaxTime
    /\ issued \subseteq Tokens /\ loggedOut \subseteq issued
    /\ pc \in [Requests -> Labels]
    /\ job \in [Requests -> Jobs \cup {None}]
    /\ account \in [Requests -> Accounts \cup {None}]
    /\ minted \in [Requests -> Tokens \cup {None}]
    /\ ttl \in [Requests -> (1 .. Lifetime) \cup {None}]
    /\ answer \in [Requests -> Answers \cup {None}]
    /\ arrived \in [Requests -> Accounts \cup {None}]

\* The middleware trusts the claims of a token without asking the database:
\* it may, as every token in circulation speaks for an account that exists and
\* has the role the token says, whoever registers, imports or crashes meanwhile.
TokensMatchAccounts ==
    \A k \in issued : users[k.user] # None /\ users[k.user].role = k.role

\* Users are imported only on behalf of an account that is a manager's.
ImportersAreManagers ==
    \A r \in Requests : pc[r] = "import" => users[job[r].token.user].role = "manager"

\* A registration answered OK made the account as it was asked, and the account
\* is still that one, whoever else wanted the address; a login is answered OK
\* only with the password of the account, and Unauthorized only if there was no
\* such account, with that password, when it arrived.
AnswersTellTheTruth ==
    \A r \in Requests : pc[r] = "done" /\ job[r].email # None =>
        LET row == users[job[r].email] IN
        /\ job[r].op = "Register" /\ answer[r] = "OK" => row = NewAccount(job[r].password, job[r].role)
        /\ job[r].op = "Login" /\ answer[r] = "OK" => row # None /\ row.password = job[r].password
        /\ job[r].op = "Login" /\ answer[r] = "Unauthorized" =>
             arrived[r] = None \/ arrived[r].password # job[r].password

\* A logout answered OK is recorded until the last millisecond of the token: the
\* time to live is computed before the SET is sent, perhaps more than once, and
\* cut to whole milliseconds, so the key may outlive the token by the delay and
\* falls short of it by one millisecond at most (auth/service.go:325-336).
BlacklistCoversToken ==
    \A k \in loggedOut : now + 1 < k.exp => \E key \in blacklist : key.token = k

\* Every key of the blacklist goes away by itself: a logout that reaches the
\* service in the very millisecond its token expires must not store a key without a
\* time to live.
BlacklistEntriesExpire == \A key \in blacklist : key.until # Forever

\* Logout: "Invalidates the user's current bearer token server-side."  A token
\* that was logged out is not accepted again.
LogoutInvalidates ==
    [][\A r \in Requests : pc[r] = "idle" /\ pc'[r] # "idle" /\ job'[r].token \in loggedOut
         => answer'[r] = "Unauthorized"]_vars
=============================================================================
