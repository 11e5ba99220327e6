---------------------------- MODULE TeamService ----------------------------
(***************************************************************************)
(* The team half of the API: handlers, service and repository of           *)
(* internal/team, the two SQL tables they share and the two families of    *)
(* Redis keys in front of them.                                            *)
(*                                                                         *)
(* Every HTTP request is served by a goroutine of its own; the goroutines  *)
(* share nothing but the database and Redis.  A request is a slot r of     *)
(* Requests with a program counter, and one step of the specification is   *)
(* one SQL statement (or one transaction) or one Redis command: what       *)
(* another request may do between two calls of a handler, it may do here   *)
(* between two steps.                                                      *)
(***************************************************************************)
EXTENDS Naturals, FiniteSets

CONSTANTS
    UserIds,    \* user ids a client may name
    Users,      \* the ids that have a row in users
    Managers,   \* the users whose token carries system_role manager
    TeamIds,    \* ids AUTO_INCREMENT may hand out (bounds the teams created)
    Names,      \* team names that pass validation
    Requests,   \* requests in flight at the same time (bounds concurrency)
    Ops,        \* the endpoints clients of this instance call
    Redis,      \* TRUE iff the server started with a Redis connection
    Faults,     \* the failures that may strike
    None        \* SQL no row, Redis no key, JSON absent field

AllOps == { "CreateTeam", "GetTeamByID", "GetTeamsByUserID", "UpdateTeam", "DeleteTeam",
            "AddMember", "RemoveMember", "UpdateMemberRole" }
Roles == {"member", "manager", "main_manager"}
Privileged == {"manager", "main_manager"}
Answers == {"OK", "Validation", "Forbidden", "NotFound", "Conflict", "Internal"}
Labels == { "idle", "lookup", "row", "members", "fill", "listLookup", "listRows", "listFill",
            "role", "target", "write", "evict", "publish", "done" }

ASSUME UsersAssumption == Managers \subseteq Users /\ Users \subseteq UserIds
ASSUME OpsAssumption == Ops \subseteq AllOps
ASSUME ModesAssumption == Redis \in BOOLEAN /\ Faults \subseteq {"db", "redis", "crash"}
ASSUME NoneAssumption ==
    None \notin UserIds \cup TeamIds \cup Names \cup Roles \cup Answers \cup AllOps

VARIABLES
    teamName,   \* teams: teamName[t] is the name in row t, None if there is no row
    role,       \* team_members: role[t][u], None if u has no row for t
    issued,     \* ids AUTO_INCREMENT has handed out
    teamCache,  \* Redis team:<t>
    listCache,  \* Redis teams:user:<u>
    pc,         \* what the request does next
    job,        \* what the request asks for
    loaded,     \* the team (or the list) a cache miss is reading from the tables
    answer,     \* the response, once decided
    effect,     \* history: the request changed the tables
    published,  \* history: the request published its audit event
    heldRoles   \* history: roles the requester has had in the team since the request began

tables == <<teamName, role, issued>>
caches == <<teamCache, listCache>>
vars == <<teamName, role, issued, teamCache, listCache,
          pc, job, loaded, answer, effect, published, heldRoles>>

NoMembers == [u \in UserIds |-> None]
TeamValues == [name : Names, roles : [UserIds -> Roles \cup {None}]]
ListValues == [TeamIds -> Names \cup {None}]
Jobs == [op : AllOps, who : Users, team : TeamIds \cup {None}, target : UserIds \cup {None},
         name : Names \cup {None}, newRole : Roles \cup {None}]

Exists(t) == teamName[t] # None
Mutates(op) == op \notin {"GetTeamByID", "GetTeamsByUserID"}

\* What a fresh SELECT would put under the two keys.
TeamRow(t) == IF Exists(t) THEN [name |-> teamName[t], roles |-> role[t]] ELSE None
ListRows(u) == [t \in TeamIds |-> IF role[t][u] # None THEN teamName[t] ELSE None]

-----------------------------------------------------------------------------
Init ==
    /\ teamName = [t \in TeamIds |-> None]
    /\ role = [t \in TeamIds |-> NoMembers]
    /\ issued = {}
    /\ teamCache = [t \in TeamIds |-> None]
    /\ listCache = [u \in UserIds |-> None]
    /\ pc = [r \in Requests |-> "idle"]
    /\ job = [r \in Requests |-> None]
    /\ loaded = [r \in Requests |-> None]
    /\ answer = [r \in Requests |-> None]
    /\ effect = [r \in Requests |-> FALSE]
    /\ published = [r \in Requests |-> FALSE]
    /\ heldRoles = [r \in Requests |-> {}]

-----------------------------------------------------------------------------
(* Moves of one request.                                                   *)

Goto(r, l) == pc' = [pc EXCEPT ![r] = l] /\ UNCHANGED answer
Answer(r, a) == pc' = [pc EXCEPT ![r] = "done"] /\ answer' = [answer EXCEPT ![r] = a]

\* Without Redis the cache and audit helpers return at once.
FirstRead == IF Redis THEN "lookup" ELSE "row"
FirstList == IF Redis THEN "listLookup" ELSE "listRows"

Job(op, who, t, u, n, newRole) ==
    [op |-> op, who |-> who, team |-> t, target |-> u, name |-> n, newRole |-> newRole]

Receive(r, j) ==
    /\ pc[r] = "idle"
    /\ j.op \in Ops
    /\ job' = [job EXCEPT ![r] = j]
    /\ UNCHANGED <<tables, caches, loaded, effect, published>>

Begin(r, j, l) == Receive(r, j) /\ Goto(r, l)
Refuse(r, j, a) == Receive(r, j) /\ Answer(r, a)

\* A path, body or id that parsing or validation rejects.
Malformed(r, op, who) == Refuse(r, Job(op, who, None, None, None, None), "Validation")

-----------------------------------------------------------------------------
(* The handlers: validation, and the checks made before anything is read.  *)

\* Bound: a create is accepted while an unused id is left for each one in flight.
IdLeft == Cardinality({q \in Requests : pc[q] = "write" /\ job[q].op = "CreateTeam"})
              < Cardinality(TeamIds \ issued)

\* The role test is on the token, so a demoted account keeps it until expiry.
HandleCreateTeam(r) == \E who \in Users, n \in Names :
    LET j == Job("CreateTeam", who, None, None, n, None) IN
    \/ Malformed(r, "CreateTeam", who)
    \/ who \notin Managers /\ Refuse(r, j, "Forbidden")
    \/ who \in Managers /\ IdLeft /\ Begin(r, j, "write")

\* Any user with a token may read any team: there is no membership check.
HandleGetTeamByID(r) == \E who \in Users, t \in TeamIds :
    \/ Malformed(r, "GetTeamByID", who)
    \/ Begin(r, Job("GetTeamByID", who, t, None, None, None), FirstRead)

HandleGetTeamsByUserID(r) == \E who \in Users, u \in UserIds :
    \/ Malformed(r, "GetTeamsByUserID", who)
    \/ Begin(r, Job("GetTeamsByUserID", who, None, u, None, None), FirstList)

HandleUpdateTeam(r) == \E who \in Users, t \in TeamIds, n \in Names :
    \/ Malformed(r, "UpdateTeam", who)
    \/ Begin(r, Job("UpdateTeam", who, t, None, n, None), FirstRead)

HandleDeleteTeam(r) == \E who \in Users, t \in TeamIds :
    \/ Malformed(r, "DeleteTeam", who)
    \/ Begin(r, Job("DeleteTeam", who, t, None, None, None), FirstRead)

HandleAddMember(r) == \E who \in Users, t \in TeamIds, u \in UserIds :
    \/ Malformed(r, "AddMember", who)
    \/ u = who /\ Refuse(r, Job("AddMember", who, t, u, None, None), "Validation")
    \/ u # who /\ Begin(r, Job("AddMember", who, t, u, None, None), FirstRead)

\* Nothing compares target and requester: a manager may remove anybody, also himself.
HandleRemoveMember(r) == \E who \in Users, t \in TeamIds, u \in UserIds :
    \/ Malformed(r, "RemoveMember", who)
    \/ Begin(r, Job("RemoveMember", who, t, u, None, None), FirstRead)

HandleUpdateMemberRole(r) == \E who \in Users, t \in TeamIds, u \in UserIds, g \in Roles :
    \/ Malformed(r, "UpdateMemberRole", who)
    \/ Begin(r, Job("UpdateMemberRole", who, t, u, None, g), FirstRead)

-----------------------------------------------------------------------------
(* GetTeamByID and GetTeamsByUserID: Redis first, then the tables, then    *)
(* the cache.  Every mutation of an existing team starts with GetTeamByID  *)
(* and so both trusts the cached copy and refills it.                      *)

Found(r) == IF job[r].op = "GetTeamByID" THEN Answer(r, "OK") ELSE Goto(r, "role")

Reading == UNCHANGED <<tables, job, effect, published>>

LookupTeam(r) ==
    /\ pc[r] = "lookup"
    /\ \/ teamCache[job[r].team] # None /\ Found(r)
       \/ (teamCache[job[r].team] = None \/ "redis" \in Faults) /\ Goto(r, "row")
    /\ Reading /\ UNCHANGED <<caches, loaded>>

\* Mutant: Members is left nil instead of being made before the second query.
SelectTeam_NilMembers(r) ==
    LET t == job[r].team IN
    /\ pc[r] = "row"
    /\ \/ /\ Exists(t)
          /\ loaded' = [loaded EXCEPT ![r] = [name |-> teamName[t], roles |-> None]]
          /\ Goto(r, "members")
       \/ ~Exists(t) /\ Answer(r, "NotFound") /\ UNCHANGED loaded
    /\ Reading /\ UNCHANGED caches

SelectTeam(r) ==
    LET t == job[r].team IN
    /\ pc[r] = "row"
    /\ \/ /\ Exists(t)
          /\ loaded' = [loaded EXCEPT ![r] = [name |-> teamName[t], roles |-> NoMembers]]
          /\ Goto(r, "members")
       \/ ~Exists(t) /\ Answer(r, "NotFound") /\ UNCHANGED loaded
    /\ Reading /\ UNCHANGED caches

\* A second statement: the members may be those of a later moment than the name.
SelectMembers(r) ==
    /\ pc[r] = "members"
    /\ IF Redis
         THEN /\ loaded' = [loaded EXCEPT ![r] = [loaded[r] EXCEPT !.roles = role[job[r].team]]]
              /\ Goto(r, "fill")
         ELSE loaded' = [loaded EXCEPT ![r] = None] /\ Found(r)
    /\ Reading /\ UNCHANGED caches

FillTeam(r) ==
    /\ pc[r] = "fill"
    /\ \/ teamCache' = [teamCache EXCEPT ![job[r].team] = loaded[r]]
       \/ "redis" \in Faults /\ UNCHANGED teamCache
    /\ loaded' = [loaded EXCEPT ![r] = None]
    /\ Found(r)
    /\ Reading /\ UNCHANGED listCache

LookupList(r) ==
    /\ pc[r] = "listLookup"
    /\ \/ listCache[job[r].target] # None /\ Answer(r, "OK")
       \/ (listCache[job[r].target] = None \/ "redis" \in Faults) /\ Goto(r, "listRows")
    /\ Reading /\ UNCHANGED <<caches, loaded>>

SelectList(r) ==
    /\ pc[r] = "listRows"
    /\ IF Redis THEN loaded' = [loaded EXCEPT ![r] = ListRows(job[r].target)] /\ Goto(r, "listFill")
                ELSE Answer(r, "OK") /\ UNCHANGED loaded
    /\ Reading /\ UNCHANGED caches

FillList(r) ==
    /\ pc[r] = "listFill"
    /\ \/ listCache' = [listCache EXCEPT ![job[r].target] = loaded[r]]
       \/ "redis" \in Faults /\ UNCHANGED listCache
    /\ loaded' = [loaded EXCEPT ![r] = None]
    /\ Answer(r, "OK")
    /\ Reading /\ UNCHANGED teamCache

-----------------------------------------------------------------------------
(* The service's authorisation: GetTeamRole on the table, never the cache. *)

Authorise(r, op, allowed, next) ==
    LET own == role[job[r].team][job[r].who] IN
    /\ pc[r] = "role"
    /\ job[r].op = op
    /\ \/ own \in allowed /\ Goto(r, next)
       \/ own \notin allowed /\ Answer(r, "Forbidden")
    /\ Reading /\ UNCHANGED <<caches, loaded>>

\* Mutant: "requester is a manager" is tested where "is the main_manager" is meant.
AuthoriseUpdateMemberRole_AnyManager(r) == Authorise(r, "UpdateMemberRole", Privileged, "target")

\* Mutant: it is enough to have a role at all.
AuthoriseRemoveMember_AnyMember(r) == Authorise(r, "RemoveMember", Roles, "write")

AuthoriseUpdateTeam(r) == Authorise(r, "UpdateTeam", Privileged, "write")
AuthoriseDeleteTeam(r) == Authorise(r, "DeleteTeam", {"main_manager"}, "write")
AuthoriseAddMember(r) == Authorise(r, "AddMember", Privileged, "target")
AuthoriseRemoveMember(r) == Authorise(r, "RemoveMember", Privileged, "write")
AuthoriseUpdateMemberRole(r) == Authorise(r, "UpdateMemberRole", {"main_manager"}, "target")

UserExists(r) ==
    /\ pc[r] = "target"
    /\ job[r].op = "AddMember"
    /\ \/ job[r].target \in Users /\ Goto(r, "write")
       \/ job[r].target \notin Users /\ Answer(r, "NotFound")
    /\ Reading /\ UNCHANGED <<caches, loaded>>

\* Mutant: the target's role is not compared with main_manager.
CheckTargetRole_AnyRole(r) ==
    LET now == role[job[r].team][job[r].target] IN
    /\ pc[r] = "target"
    /\ job[r].op = "UpdateMemberRole"
    /\ \/ now = None /\ Answer(r, "NotFound")
       \/ now # None /\ Goto(r, "write")
    /\ Reading /\ UNCHANGED <<caches, loaded>>

\* "Prevent main_manager from being changed": decided here, written one statement later.
CheckTargetRole(r) ==
    LET now == role[job[r].team][job[r].target] IN
    /\ pc[r] = "target"
    /\ job[r].op = "UpdateMemberRole"
    /\ \/ now = None /\ Answer(r, "NotFound")
       \/ now = "main_manager" /\ Answer(r, "Forbidden")
       \/ now \notin {None, "main_manager"} /\ Goto(r, "write")
    /\ Reading /\ UNCHANGED <<caches, loaded>>

-----------------------------------------------------------------------------
(* The repository's writes.  rowsAffected counts CHANGED rows (the DSN     *)
(* does not set clientFoundRows), so writing the value already there looks *)
(* like a missing row; the service turns both into Internal.               *)

Writing(r, op) == pc[r] = "write" /\ job[r].op = op /\ UNCHANGED <<caches, loaded, published>>

\* The statement took effect; with a failing connection the caller may not learn it.
Committed(r) ==
    /\ effect' = [effect EXCEPT ![r] = TRUE]
    /\ \/ Redis /\ Goto(r, "evict")
       \/ ~Redis /\ Answer(r, "OK")
       \/ "db" \in Faults /\ Answer(r, "Internal")

Rejected(r, a) == Answer(r, a) /\ UNCHANGED <<tables, job, effect>>

\* One transaction: the team row and its main_manager's row appear together.
CreateTeam(r) ==
    /\ Writing(r, "CreateTeam")
    /\ \E t \in TeamIds \ issued :
        /\ issued' = issued \cup {t}
        /\ teamName' = [teamName EXCEPT ![t] = job[r].name]
        /\ role' = [role EXCEPT ![t][job[r].who] = "main_manager"]
        /\ job' = [job EXCEPT ![r].team = t]
    /\ Committed(r)

UpdateTeam(r) ==
    LET t == job[r].team IN
    /\ Writing(r, "UpdateTeam")
    /\ \/ /\ teamName[t] \notin {None, job[r].name}
          /\ teamName' = [teamName EXCEPT ![t] = job[r].name]
          /\ UNCHANGED <<role, issued, job>>
          /\ Committed(r)
       \/ teamName[t] \in {None, job[r].name} /\ Rejected(r, "Internal")

\* Mutant: the DELETE is repeated until it finds a row.
DeleteTeam_UntilRow(r) ==
    LET t == job[r].team IN
    /\ Writing(r, "DeleteTeam")
    /\ Exists(t)
    /\ teamName' = [teamName EXCEPT ![t] = None]
    /\ role' = [role EXCEPT ![t] = NoMembers]
    /\ UNCHANGED <<issued, job>>
    /\ Committed(r)

\* Mutant: the members are deleted first, in a statement of their own.
DeleteTeam_MembersFirst(r) ==
    LET t == job[r].team IN
    /\ Writing(r, "DeleteTeam")
    /\ \/ /\ Exists(t) /\ role[t] # NoMembers
          /\ role' = [role EXCEPT ![t] = NoMembers]
          /\ UNCHANGED <<teamName, issued, job, pc, answer, effect>>
       \/ /\ Exists(t) /\ role[t] = NoMembers
          /\ teamName' = [teamName EXCEPT ![t] = None]
          /\ UNCHANGED <<role, issued, job>>
          /\ Committed(r)
       \/ ~Exists(t) /\ Rejected(r, "Internal")

\* ON DELETE CASCADE takes the team's members with it.
DeleteTeam(r) ==
    LET t == job[r].team IN
    /\ Writing(r, "DeleteTeam")
    /\ \/ /\ Exists(t)
          /\ teamName' = [teamName EXCEPT ![t] = None]
          /\ role' = [role EXCEPT ![t] = NoMembers]
          /\ UNCHANGED <<issued, job>>
          /\ Committed(r)
       \/ ~Exists(t) /\ Rejected(r, "Internal")

\* Mutant: the table without its foreign key.
AddMember_NoForeignKey(r) ==
    LET t == job[r].team u == job[r].target IN
    /\ Writing(r, "AddMember")
    /\ \/ /\ role[t][u] = None
          /\ role' = [role EXCEPT ![t][u] = "member"]
          /\ UNCHANGED <<teamName, issued, job>>
          /\ Committed(r)
       \/ role[t][u] # None /\ Rejected(r, "Conflict")

\* A missing team is a foreign-key error, an existing row a duplicate-key error.
AddMember(r) ==
    LET t == job[r].team u == job[r].target IN
    /\ Writing(r, "AddMember")
    /\ \/ /\ Exists(t) /\ u \in Users /\ role[t][u] = None
          /\ role' = [role EXCEPT ![t][u] = "member"]
          /\ UNCHANGED <<teamName, issued, job>>
          /\ Committed(r)
       \/ Exists(t) /\ role[t][u] # None /\ Rejected(r, "Conflict")
       \/ ~(Exists(t) /\ u \in Users) /\ Rejected(r, "Internal")

\* Mutant: rowsAffected is not looked at.
RemoveMember_IgnoresCount(r) ==
    LET t == job[r].team u == job[r].target IN
    /\ Writing(r, "RemoveMember")
    /\ \/ /\ role[t][u] # None
          /\ role' = [role EXCEPT ![t][u] = None]
          /\ UNCHANGED <<teamName, issued, job>>
          /\ Committed(r)
       \/ role[t][u] = None /\ Rejected(r, "OK")

RemoveMember(r) ==
    LET t == job[r].team u == job[r].target IN
    /\ Writing(r, "RemoveMember")
    /\ \/ /\ role[t][u] # None
          /\ role' = [role EXCEPT ![t][u] = None]
          /\ UNCHANGED <<teamName, issued, job>>
          /\ Committed(r)
       \/ role[t][u] = None /\ Rejected(r, "Internal")

UpdateMemberRole(r) ==
    LET t == job[r].team u == job[r].target IN
    /\ Writing(r, "UpdateMemberRole")
    /\ \/ /\ role[t][u] \notin {None, job[r].newRole}
          /\ role' = [role EXCEPT ![t][u] = job[r].newRole]
          /\ UNCHANGED <<teamName, issued, job>>
          /\ Committed(r)
       \/ role[t][u] \in {None, job[r].newRole} /\ Rejected(r, "Internal")

-----------------------------------------------------------------------------
(* After the write: one DEL of all the keys, then the audit event.  A      *)
(* failed DEL is logged and the request goes on to answer OK.              *)

\* Mutants: the requester's list is evicted, not the target's; team:<t> is left.
StaleLists_Requester(j) == {j.who}

Evict_ListsOnly(r) ==
    /\ pc[r] = "evict"
    /\ listCache' = [listCache EXCEPT ![job[r].who] = None]
    /\ Goto(r, "publish")
    /\ UNCHANGED <<tables, teamCache, job, loaded, effect, published>>

\* The lists each write evicts.  A rename and a deletion evict none, although
\* both change what every member's list should show.
StaleLists(j) ==
    CASE j.op = "CreateTeam" -> {j.who}
      [] j.op \in {"AddMember", "RemoveMember", "UpdateMemberRole"} -> {j.target}
      [] OTHER -> {}

Evict(r) ==
    /\ pc[r] = "evict"
    /\ \/ /\ teamCache' = [teamCache EXCEPT ![job[r].team] = None]
          /\ listCache' = [u \in UserIds |-> IF u \in StaleLists(job[r]) THEN None ELSE listCache[u]]
       \/ "redis" \in Faults /\ UNCHANGED caches
    /\ Goto(r, "publish")
    /\ UNCHANGED <<tables, job, loaded, effect, published>>

PublishEvent(r) ==
    /\ pc[r] = "publish"
    /\ \/ published' = [published EXCEPT ![r] = TRUE]
       \/ "redis" \in Faults /\ UNCHANGED published
    /\ Answer(r, "OK")
    /\ UNCHANGED <<tables, caches, job, loaded, effect>>

\* The response is written and the goroutine ends; the slot is free again.
Respond(r) ==
    /\ pc[r] = "done"
    /\ pc' = [pc EXCEPT ![r] = "idle"]
    /\ job' = [job EXCEPT ![r] = None]
    /\ answer' = [answer EXCEPT ![r] = None]
    /\ effect' = [effect EXCEPT ![r] = FALSE]
    /\ published' = [published EXCEPT ![r] = FALSE]
    /\ UNCHANGED <<tables, caches, loaded>>

-----------------------------------------------------------------------------
(* The environment.                                                        *)

\* A statement that returns an error (connection lost, client gone: the
\* request's context cancels it) and changed nothing; for one that did, see
\* Committed.
DbFails(r) ==
    /\ "db" \in Faults
    /\ pc[r] \in {"row", "members", "listRows", "role", "target", "write"}
    /\ loaded' = [loaded EXCEPT ![r] = None]
    /\ Answer(r, "Internal")
    /\ Reading /\ UNCHANGED caches

\* Mutant: SET without a time to live.
ExpireTeam_NoTTL(t) == t \notin TeamIds /\ UNCHANGED vars

\* Keys live 15 minutes.
ExpireTeam(t) ==
    /\ teamCache[t] # None
    /\ teamCache' = [teamCache EXCEPT ![t] = None]
    /\ UNCHANGED <<tables, listCache, pc, job, loaded, answer, effect, published>>

ExpireList(u) ==
    /\ listCache[u] # None
    /\ listCache' = [listCache EXCEPT ![u] = None]
    /\ UNCHANGED <<tables, teamCache, pc, job, loaded, answer, effect, published>>

\* The server dies: goroutines go, tables and Redis stay.
Crash ==
    /\ "crash" \in Faults
    /\ \E r \in Requests : pc[r] # "idle"
    /\ pc' = [r \in Requests |-> "idle"]
    /\ job' = [r \in Requests |-> None]
    /\ loaded' = [r \in Requests |-> None]
    /\ answer' = [r \in Requests |-> None]
    /\ effect' = [r \in Requests |-> FALSE]
    /\ published' = [r \in Requests |-> FALSE]
    /\ UNCHANGED <<tables, caches>>

-----------------------------------------------------------------------------
Handle(r) ==
    \/ HandleCreateTeam(r) \/ HandleGetTeamByID(r) \/ HandleGetTeamsByUserID(r)
    \/ HandleUpdateTeam(r) \/ HandleDeleteTeam(r) \/ HandleAddMember(r)
    \/ HandleRemoveMember(r) \/ HandleUpdateMemberRole(r)

Serve(r) ==
    \/ LookupTeam(r) \/ SelectTeam(r) \/ SelectMembers(r) \/ FillTeam(r)
    \/ LookupList(r) \/ SelectList(r) \/ FillList(r)
    \/ AuthoriseUpdateTeam(r) \/ AuthoriseDeleteTeam(r) \/ AuthoriseAddMember(r)
    \/ AuthoriseRemoveMember(r) \/ AuthoriseUpdateMemberRole(r)
    \/ UserExists(r) \/ CheckTargetRole(r)
    \/ CreateTeam(r) \/ UpdateTeam(r) \/ DeleteTeam(r)
    \/ AddMember(r) \/ RemoveMember(r) \/ UpdateMemberRole(r)
    \/ Evict(r) \/ PublishEvent(r) \/ Respond(r)

\* History: the roles the requester has held in the team it wants to change,
\* from the request's arrival to its write.
Deciding(r) == /\ pc[r] \in {"lookup", "row", "members", "fill", "role", "target", "write"}
               /\ job[r].op \notin {"CreateTeam", "GetTeamByID"}

RecordRoles ==
    heldRoles' = [r \in Requests |->
        IF Deciding(r)' THEN heldRoles[r] \cup {role'[job'[r].team][job'[r].who]} ELSE {}]

ServerStep(r) == (Handle(r) \/ Serve(r) \/ DbFails(r)) /\ RecordRoles
CacheStep == ((\E t \in TeamIds : ExpireTeam(t)) \/ (\E u \in UserIds : ExpireList(u))) /\ RecordRoles
CrashStep == Crash /\ RecordRoles

Next == (\E r \in Requests : ServerStep(r)) \/ CacheStep \/ CrashStep

Spec == Init /\ [][Next]_vars

\* A goroutine that can run is eventually run and every statement and command
\* eventually returns; Redis eventually expires a key.  Nobody has to call.
FairSpec ==
    /\ Spec
    /\ \A r \in Requests : WF_vars(Serve(r) /\ RecordRoles)
    /\ \A t \in TeamIds : WF_vars(ExpireTeam(t) /\ RecordRoles)
    /\ \A u \in UserIds : WF_vars(ExpireList(u) /\ RecordRoles)

-----------------------------------------------------------------------------
(* Properties.                                                             *)

\* Types of all the state: rows, cache entries, requests and histories.
TypeOK ==
    /\ teamName \in [TeamIds -> Names \cup {None}]
    /\ role \in [TeamIds -> [UserIds -> Roles \cup {None}]]
    /\ issued \subseteq TeamIds
    /\ teamCache \in [TeamIds -> TeamValues \cup {None}]
    /\ listCache \in [UserIds -> ListValues \cup {None}]
    /\ pc \in [Requests -> Labels]
    /\ job \in [Requests -> Jobs \cup {None}]
    /\ loaded \in [Requests -> ListValues \cup TeamValues \cup {None}]
    /\ answer \in [Requests -> Answers \cup {None}]
    /\ effect \in [Requests -> BOOLEAN]
    /\ published \in [Requests -> BOOLEAN]
    /\ heldRoles \in [Requests -> SUBSET (Roles \cup {None})]

\* A membership row always belongs to a team that exists and to a registered
\* user, whatever AddMember and UpdateMemberRole race with DeleteTeam; and a
\* team that exists has an id that will not be handed out again.
RowsIntegrity ==
    \A t \in TeamIds :
        /\ Exists(t) => t \in issued
        /\ \A u \in UserIds : role[t][u] # None => Exists(t) /\ u \in Users

Entitled(t, op, allowed) ==
    \E r \in Requests : /\ pc[r] = "write" /\ job[r].op = op /\ job[r].team = t
                        /\ heldRoles[r] \cap allowed # {}

\* No right is ever exercised that its holder did not have: every change of an
\* existing team's rows is the write of a request whose requester held, at some
\* moment since that request arrived, the role its endpoint demands.  (Not at
\* the moment of the write: the role is read one statement earlier.)  The roles
\* are those of the service (team/service.go 140, 190, 243, 307, 360).  The
\* documentation of the handlers says otherwise of two of them: it allows "a
\* manager" to delete a team and to change roles (team/handler.go 291, 454), and
\* the service refuses all but the main_manager.
RightsBehindChange(t) ==
    /\ Exists(t) /\ Exists(t)' /\ teamName'[t] # teamName[t]
         => Entitled(t, "UpdateTeam", Privileged)
    /\ Exists(t) /\ ~Exists(t)' => Entitled(t, "DeleteTeam", {"main_manager"})
    /\ Exists(t) /\ Exists(t)' => \A u \in UserIds : role'[t][u] # role[t][u] =>
         CASE role[t][u] = None -> role'[t][u] = "member" /\ Entitled(t, "AddMember", Privileged)
           [] role'[t][u] = None -> Entitled(t, "RemoveMember", Privileged)
           [] OTHER -> Entitled(t, "UpdateMemberRole", {"main_manager"})
RightsBehindChanges == [][\A t \in TeamIds : RightsBehindChange(t)]_vars

\* What the client is told is what happened: OK means the change was made (and,
\* with a working Redis, announced to the audit trail), a refusal means it was
\* not, and no audit event announces a change that was not made.  Internal is
\* ambiguous only when the connection to the database can fail.
AnswerMatchesEffect ==
    \A r \in Requests : pc[r] = "done" =>
        /\ answer[r] = "OK" /\ Mutates(job[r].op) => effect[r]
        /\ answer[r] = "OK" /\ Mutates(job[r].op) /\ Redis /\ "redis" \notin Faults => published[r]
        /\ answer[r] \notin {"OK", "Internal"} => ~effect[r]
        /\ answer[r] = "Internal" /\ "db" \notin Faults => ~effect[r]
        /\ published[r] => effect[r] /\ answer[r] = "OK"

Headless(t) == Exists(t) /\ \A u \in UserIds : role[t][u] # "main_manager"
OwnerActing(t) ==
    \E r \in Requests : /\ pc[r] \in {"target", "write"}
                        /\ job[r].op \in {"DeleteTeam", "UpdateMemberRole"}
                        /\ job[r].team = t

\* RemoveMember lets any manager take out the main_manager, and nothing brings
\* one back: a team without one, and without a main_manager's request already
\* past its check, stays so for ever; nobody can delete it or change a role.
HeadlessTeamIsStuck ==
    [][\A t \in TeamIds : Headless(t) /\ ~OwnerActing(t) => Headless(t)' /\ ~OwnerActing(t)']_vars

\* "Prevent main_manager from being changed" (service.go): a main_manager's row
\* may disappear but never turns into another role.
MainManagerProtected ==
    [][\A t \in TeamIds, u \in UserIds :
         role[t][u] = "main_manager" => role'[t][u] \in {"main_manager", None}]_vars

Quiet == \A r \in Requests : pc[r] \in {"idle", "done"}

\* Cache-aside discipline, team:<t>: between requests the entry is absent or
\* what the tables hold.
TeamCacheCoherent == Quiet => \A t \in TeamIds : teamCache[t] \in {None, TeamRow(t)}

\* Cache-aside discipline, teams:user:<u>: of the teams that exist, the cached
\* list of a user holds exactly those he is a member of.  (Not the names, and
\* not only those: a rename and a deletion leave the members' lists alone.)
ListMembershipCoherent ==
    Quiet => \A u \in UserIds : listCache[u] # None =>
        \A t \in TeamIds : Exists(t) => (listCache[u][t] # None <=> role[t][u] # None)

Stage(l) == CASE l \in {"target", "write"} -> "granted"
              [] l \in {"evict", "publish"} -> "made"
              [] l = "done" -> "answered"
              [] l = "idle" -> "idle"
              [] OTHER -> "asked"

Directory == INSTANCE TeamDirectory WITH
    directory <- [t \in TeamIds |-> [name |-> teamName[t], roles |-> role[t]]],
    used <- issued,
    request <- [r \in Requests |->
        [job |-> job[r], stage |-> Stage(pc[r]), made |-> effect[r], answer |-> answer[r]]]

\* All the statements, cache fills and evictions of a request come to a grant
\* at one moment, in which the requester holds the role, and one change of the
\* directory, or none; and the answer tells which.
ImplementsDirectory == Directory!Spec

\* Every request is answered: no state of the tables, the caches or the other
\* requests leaves a handler without a next step.
EveryRequestAnswered == \A r \in Requests : pc[r] # "idle" ~> pc[r] = "idle"

\* Staleness is bounded: whatever race, fault or crash left a cache entry
\* different from the tables, it goes away (by eviction or by its TTL).
StaleEntriesGoAway ==
    /\ \A t \in TeamIds : teamCache[t] \notin {None, TeamRow(t)} ~> teamCache[t] \in {None, TeamRow(t)}
    /\ \A u \in UserIds : listCache[u] \notin {None, ListRows(u)} ~> listCache[u] \in {None, ListRows(u)}
=============================================================================
