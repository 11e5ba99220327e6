--------------------------- MODULE TeamDirectory ---------------------------
(***************************************************************************)
(* What the team half of the API promises, without statements, caches or   *)
(* roles read in advance: a directory of teams in which every request is   *)
(* granted at one moment and made at one moment, and is told what became   *)
(* of it.  The two moments are not the same one: between them somebody     *)
(* else's request may be made, and the requester may lose his role.        *)
(* TeamService implements it.                                              *)
(***************************************************************************)
CONSTANTS UserIds, Users, Managers, TeamIds, Names, Requests, None

Roles == {"member", "manager", "main_manager"}
Reads == {"GetTeamByID", "GetTeamsByUserID"}
Operations == Reads \cup {"CreateTeam", "UpdateTeam", "DeleteTeam", "AddMember", "RemoveMember", "UpdateMemberRole"}
Refusals == {"Validation", "Forbidden", "NotFound", "Conflict", "Internal"}

\* What a client asks for; what an operation does not need is None.
Jobs == [op : Operations, who : Users, team : TeamIds \cup {None}, target : UserIds \cup {None},
         name : Names \cup {None}, newRole : Roles \cup {None}]

VARIABLES
    directory,   \* directory[t]: name and members of team t; the name is None if there is no team
    used,        \* ids that have named a team
    request      \* request[r]: what is asked, how far it got, whether it was made, the answer

vars == <<directory, used, request>>

Nothing == [name |-> None, roles |-> [u \in UserIds |-> None]]
Entry(j, stage, made, answer) == [job |-> j, stage |-> stage, made |-> made, answer |-> answer]
Idle == Entry(None, "idle", FALSE, None)

Init ==
    /\ directory = [t \in TeamIds |-> Nothing]
    /\ used = {}
    /\ request = [r \in Requests |-> Idle]

Moves(r, entry) == request' = [request EXCEPT ![r] = entry]
At(r, stage) == request[r].stage = stage
Exists(t) == directory[t].name # None

\* The role an operation demands of the requester.
Demands(op) ==
    CASE op \in {"UpdateTeam", "AddMember", "RemoveMember"} -> {"manager", "main_manager"}
      [] op \in {"DeleteTeam", "UpdateMemberRole"} -> {"main_manager"}
      [] OTHER -> {}

HoldsRole(j) ==
    /\ j.team \in TeamIds /\ Exists(j.team)
    /\ directory[j.team].roles[j.who] \in Demands(j.op)
Member(t, u) == Exists(t) /\ directory[t].roles[u] # None

\* A request arrives.  A manager's may create a team; a wrong one is refused at once.
Call(r) ==
    /\ At(r, "idle")
    /\ LET j == request'[r].job IN
         /\ j \in Jobs
         /\ \/ j.op # "CreateTeam" /\ Moves(r, Entry(j, "asked", FALSE, None))
            \/ j.op = "CreateTeam" /\ j.who \in Managers /\ Moves(r, Entry(j, "granted", FALSE, None))
            \/ \E a \in Refusals : Moves(r, Entry(j, "answered", FALSE, a))
    /\ UNCHANGED <<directory, used>>

Grant(r) ==
    /\ At(r, "asked")
    /\ HoldsRole(request[r].job)
    /\ Moves(r, Entry(request[r].job, "granted", FALSE, None))
    /\ UNCHANGED <<directory, used>>

Read(r) ==
    /\ At(r, "asked")
    /\ request[r].job.op \in Reads
    /\ Moves(r, Entry(request[r].job, "answered", FALSE, "OK"))
    /\ UNCHANGED <<directory, used>>

\* Refused: nothing was made, and nothing will be.
Refuse(r) ==
    /\ At(r, "asked") \/ At(r, "granted")
    /\ \E a \in Refusals : Moves(r, Entry(request[r].job, "answered", FALSE, a))
    /\ UNCHANGED <<directory, used>>

\* The request is made.  Internal: the connection broke and the client does not know.
Made(r, j) ==
    \/ Moves(r, Entry(j, "made", TRUE, None))
    \/ \E a \in {"OK", "Internal"} : Moves(r, Entry(j, "answered", TRUE, a))

Founded(j) == [name |-> j.name, roles |-> [u \in UserIds |-> IF u = j.who THEN "main_manager" ELSE None]]

Create(r, j) == \E t \in TeamIds \ used :
    /\ j.op = "CreateTeam"
    /\ used' = used \cup {t}
    /\ directory' = [directory EXCEPT ![t] = Founded(j)]
    /\ Made(r, [j EXCEPT !.team = t])

Rename(j) ==
    /\ j.op = "UpdateTeam" /\ Exists(j.team)
    /\ directory' = [directory EXCEPT ![j.team].name = j.name]

Delete(j) ==
    /\ j.op = "DeleteTeam" /\ Exists(j.team)
    /\ directory' = [directory EXCEPT ![j.team] = Nothing]

SetRole(j, g) == directory' = [directory EXCEPT ![j.team].roles[j.target] = g]

Add(j) ==
    /\ j.op = "AddMember" /\ j.target \in Users
    /\ Exists(j.team) /\ ~Member(j.team, j.target)
    /\ SetRole(j, "member")

Remove(j) == j.op = "RemoveMember" /\ Member(j.team, j.target) /\ SetRole(j, None)

ChangeRole(j) == j.op = "UpdateMemberRole" /\ Member(j.team, j.target) /\ SetRole(j, j.newRole)

Make(r) ==
    /\ At(r, "granted")
    /\ LET j == request[r].job IN
         \/ Create(r, j)
         \/ (Rename(j) \/ Delete(j) \/ Add(j) \/ Remove(j) \/ ChangeRole(j)) /\ UNCHANGED used /\ Made(r, j)

Answer(r) ==
    /\ At(r, "made")
    /\ Moves(r, Entry(request[r].job, "answered", TRUE, "OK"))
    /\ UNCHANGED <<directory, used>>

Return(r) == At(r, "answered") /\ Moves(r, Idle) /\ UNCHANGED <<directory, used>>

\* The server dies: what was made stays, and nobody is told.
Lose == request' = [r \in Requests |-> Idle] /\ UNCHANGED <<directory, used>>

Next ==
    \/ \E r \in Requests : Call(r) \/ Grant(r) \/ Read(r) \/ Refuse(r) \/ Make(r) \/ Answer(r) \/ Return(r)
    \/ Lose

Spec == Init /\ [][Next]_vars
=============================================================================
