-------------------------- MODULE TeamServiceProofs --------------------------
(* Theorems about TeamService, for any users, teams, names, number of         *)
(* requests, set of endpoints, with or without Redis and under any faults.    *)
EXTENDS TeamService, TLAPS

-----------------------------------------------------------------------------
(* The inductive invariant behind type correctness: a request carries the     *)
(* fields that the step it is about to take will read.                        *)

TeamReads == {"lookup", "row", "members", "fill"}
ListReads == {"listLookup", "listRows", "listFill"}
OnTarget == {"AddMember", "RemoveMember", "UpdateMemberRole"}
OnTeam == {"UpdateTeam", "DeleteTeam"} \cup OnTarget

TablesOK ==
    /\ teamName \in [TeamIds -> Names \cup {None}]
    /\ role \in [TeamIds -> [UserIds -> Roles \cup {None}]]
    /\ issued \subseteq TeamIds

CachesOK ==
    /\ teamCache \in [TeamIds -> TeamValues \cup {None}]
    /\ listCache \in [UserIds -> ListValues \cup {None}]

FlagsOK ==
    /\ answer \in [Requests -> Answers \cup {None}]
    /\ effect \in [Requests -> BOOLEAN]
    /\ published \in [Requests -> BOOLEAN]

\* The job has what its endpoint needs.
JobOK(j) ==
    /\ j.op \in OnTeam \cup {"GetTeamByID"} => j.team \in TeamIds
    /\ j.op \in OnTarget \cup {"GetTeamsByUserID"} => j.target \in UserIds
    /\ j.op \in {"CreateTeam", "UpdateTeam"} => j.name \in Names
    /\ j.op = "UpdateMemberRole" => j.newRole \in Roles

\* The endpoint is one that takes this step.
PlaceOK(l, op) ==
    /\ l \in TeamReads => op \in OnTeam \cup {"GetTeamByID"}
    /\ l \in ListReads => op = "GetTeamsByUserID"
    /\ l = "role" => op \in OnTeam
    /\ l = "target" => op \in {"AddMember", "UpdateMemberRole"}
    /\ l \in {"write", "evict", "publish"} => op \in OnTeam \cup {"CreateTeam"}

RequestOK(r) ==
    /\ pc[r] # "idle" => job[r] \in Jobs
    /\ pc[r] \notin {"idle", "done"} => JobOK(job[r]) /\ PlaceOK(pc[r], job[r].op)
    /\ pc[r] = "evict" => job[r].team \in TeamIds
    /\ pc[r] \in {"members", "fill"} => loaded[r] \in TeamValues
    /\ pc[r] = "listFill" => loaded[r] \in ListValues

RequestsOK ==
    /\ pc \in [Requests -> Labels]
    /\ job \in [Requests -> Jobs \cup {None}]
    /\ loaded \in [Requests -> TeamValues \cup ListValues \cup {None}]
    /\ \A r \in Requests : RequestOK(r)

TypeInv == TablesOK /\ CachesOK /\ FlagsOK /\ RequestsOK
               /\ heldRoles \in [Requests -> SUBSET (Roles \cup {None})]

-----------------------------------------------------------------------------
LEMMA InitTypeInv == Init => TypeInv
  BY DEF Init, TypeInv, TablesOK, CachesOK, FlagsOK, RequestsOK, RequestOK, NoMembers, Labels

-----------------------------------------------------------------------------
(* What a step leaves alone stays well typed.                                 *)

CoreOK == TablesOK /\ CachesOK /\ FlagsOK /\ RequestsOK

\* An arriving request that is taken up.
LEMMA BeginTypes ==
  ASSUME CoreOK, NEW r \in Requests, NEW j \in Jobs, NEW l \in Labels,
         l \notin {"idle", "done", "members", "fill", "listFill", "evict"},
         JobOK(j), PlaceOK(l, j.op), Begin(r, j, l)
  PROVE  CoreOK'
<1>1. TablesOK' /\ CachesOK' /\ FlagsOK'
  BY DEF CoreOK, Begin, Receive, Goto, tables, caches, TablesOK, CachesOK, FlagsOK
<1>2. /\ pc' = [pc EXCEPT ![r] = l] /\ job' = [job EXCEPT ![r] = j] /\ loaded' = loaded
      /\ RequestsOK
  BY DEF CoreOK, Begin, Receive, Goto
<1>3. \A q \in Requests : RequestOK(q)'
  <2> TAKE q \in Requests
  <2>1. CASE q = r  BY <1>2, <2>1 DEF RequestsOK, RequestOK, JobOK, PlaceOK
  <2>2. CASE q # r  BY <1>2, <2>2 DEF RequestsOK, RequestOK, JobOK, PlaceOK
  <2> QED  BY <2>1, <2>2
<1> QED  BY <1>1, <1>2, <1>3 DEF RequestsOK, CoreOK

\* An arriving request that is refused without reading anything.
LEMMA RefuseTypes ==
  ASSUME CoreOK, NEW r \in Requests, NEW j \in Jobs, NEW a \in Answers, Refuse(r, j, a)
  PROVE  CoreOK'
<1>1. TablesOK' /\ CachesOK' /\ FlagsOK'
  BY DEF CoreOK, Refuse, Receive, Answer, tables, caches, TablesOK, CachesOK, FlagsOK
<1>2. /\ pc' = [pc EXCEPT ![r] = "done"] /\ job' = [job EXCEPT ![r] = j] /\ loaded' = loaded
      /\ RequestsOK
  BY DEF CoreOK, Refuse, Receive, Answer
<1>3. \A q \in Requests : RequestOK(q)'
  <2> TAKE q \in Requests
  <2>1. CASE q = r  BY <1>2, <2>1 DEF RequestsOK, RequestOK
  <2>2. CASE q # r  BY <1>2, <2>2 DEF RequestsOK, RequestOK
  <2> QED  BY <2>1, <2>2
<1> QED  BY <1>1, <1>2, <1>3 DEF RequestsOK, CoreOK, Labels

LEMMA HandleTypes ==
  ASSUME CoreOK, NEW r \in Requests, Handle(r)
  PROVE  CoreOK'
<1> USE DEF Job, Jobs, AllOps, JobOK, PlaceOK, OnTeam, OnTarget, TeamReads, ListReads, Labels, Answers,
            FirstRead, FirstList
<1>0. Users \subseteq UserIds  BY UsersAssumption
<1>m. ASSUME NEW op \in AllOps, NEW who \in Users, Malformed(r, op, who)  PROVE CoreOK'
  BY <1>m, RefuseTypes DEF Malformed
<1>1. CASE HandleCreateTeam(r)
  BY <1>1, <1>m, BeginTypes, RefuseTypes DEF HandleCreateTeam
<1>2. CASE HandleGetTeamByID(r)
  BY <1>2, <1>m, BeginTypes DEF HandleGetTeamByID
<1>3. CASE HandleGetTeamsByUserID(r)
  BY <1>3, <1>m, BeginTypes DEF HandleGetTeamsByUserID
<1>4. CASE HandleUpdateTeam(r)
  BY <1>4, <1>m, BeginTypes DEF HandleUpdateTeam
<1>5. CASE HandleDeleteTeam(r)
  BY <1>5, <1>m, BeginTypes DEF HandleDeleteTeam
<1>6. CASE HandleAddMember(r)
  BY <1>6, <1>m, BeginTypes, RefuseTypes DEF HandleAddMember
<1>7. CASE HandleRemoveMember(r)
  BY <1>7, <1>m, BeginTypes DEF HandleRemoveMember
<1>8. CASE HandleUpdateMemberRole(r)
  BY <1>8, <1>m, BeginTypes DEF HandleUpdateMemberRole, Roles
<1> QED  BY <1>1, <1>2, <1>3, <1>4, <1>5, <1>6, <1>7, <1>8 DEF Handle

-----------------------------------------------------------------------------
(* Steps of a request already taken up.                                       *)

\* A step that only moves the request on, to a label its endpoint may be at.
LEMMA GotoTypes ==
  ASSUME CoreOK, NEW r \in Requests, NEW l \in Labels, pc[r] \notin {"idle", "done"},
         l \notin {"idle", "members", "fill", "listFill"},
         l = "evict" => job[r].team \in TeamIds, PlaceOK(l, job[r].op),
         pc' = [pc EXCEPT ![r] = l], UNCHANGED job,
         loaded' \in [Requests -> TeamValues \cup ListValues \cup {None}],
         \A q \in Requests : q # r => loaded'[q] = loaded[q]
  PROVE  RequestsOK'
<1>1. \A q \in Requests : RequestOK(q)'
  <2> TAKE q \in Requests
  <2>1. CASE q = r  BY <2>1 DEF CoreOK, RequestsOK, RequestOK, JobOK, PlaceOK
  <2>2. CASE q # r  BY <2>2 DEF CoreOK, RequestsOK, RequestOK, JobOK, PlaceOK
  <2> QED  BY <2>1, <2>2
<1> QED  BY <1>1 DEF CoreOK, RequestsOK

\* Reading the team through the cache ends in the answer or the role check.
LEMMA FoundTypes ==
  ASSUME CoreOK, NEW r \in Requests, pc[r] \in TeamReads, Found(r), UNCHANGED job,
         loaded' \in [Requests -> TeamValues \cup ListValues \cup {None}],
         \A q \in Requests : q # r => loaded'[q] = loaded[q]
  PROVE  RequestsOK' /\ answer' \in [Requests -> Answers \cup {None}]
<1> USE DEF TeamReads, Labels, OnTeam, OnTarget, PlaceOK, Answers
<1>0. job[r].op \in OnTeam \cup {"GetTeamByID"}  BY DEF CoreOK, RequestsOK, RequestOK
<1>1. CASE job[r].op = "GetTeamByID"
  BY <1>1, GotoTypes DEF Found, Answer, CoreOK, FlagsOK, ListReads
<1>2. CASE job[r].op # "GetTeamByID"
  BY <1>0, <1>2, GotoTypes DEF Found, Goto, CoreOK, FlagsOK, ListReads
<1> QED  BY <1>1, <1>2

LEMMA LookupTeamTypes ==
  ASSUME CoreOK, NEW r \in Requests, LookupTeam(r)  PROVE CoreOK'
<1>1. TablesOK' /\ CachesOK' /\ effect' = effect /\ published' = published
  BY DEF LookupTeam, Reading, tables, caches, CoreOK, TablesOK, CachesOK
<1>2. RequestsOK' /\ answer' \in [Requests -> Answers \cup {None}]
  <2>1. CASE Found(r)
    BY <2>1, FoundTypes DEF LookupTeam, Reading, TeamReads, CoreOK, RequestsOK
  <2>2. CASE Goto(r, "row")
    BY <2>2, GotoTypes DEF LookupTeam, Reading, Goto, TeamReads, ListReads, PlaceOK, Labels,
                           CoreOK, FlagsOK, RequestsOK, RequestOK
  <2> QED  BY <2>1, <2>2 DEF LookupTeam
<1> QED  BY <1>1, <1>2 DEF CoreOK, FlagsOK

LEMMA SelectTeamTypes ==
  ASSUME CoreOK, NEW r \in Requests, SelectTeam(r)  PROVE CoreOK'
<1> DEFINE t == job[r].team
<1>0. pc[r] = "row" /\ t \in TeamIds /\ RequestsOK /\ FlagsOK /\ TablesOK
  BY DEF SelectTeam, CoreOK, RequestsOK, RequestOK, JobOK, PlaceOK, TeamReads
<1>1. TablesOK' /\ CachesOK' /\ effect' = effect /\ published' = published /\ job' = job
  BY DEF SelectTeam, Reading, tables, caches, CoreOK, TablesOK, CachesOK
<1>2. RequestsOK' /\ answer' \in [Requests -> Answers \cup {None}]
  <2>1. CASE Exists(t)
    <3>1. /\ loaded' = [loaded EXCEPT ![r] = [name |-> teamName[t], roles |-> NoMembers]]
          /\ pc' = [pc EXCEPT ![r] = "members"] /\ answer' = answer
      BY <2>1 DEF SelectTeam, Goto
    <3>2. [name |-> teamName[t], roles |-> NoMembers] \in TeamValues
      BY <1>0, <2>1 DEF Exists, TablesOK, TeamValues, NoMembers
    <3>3. \A q \in Requests : RequestOK(q)'
      BY <1>0, <1>1, <3>1, <3>2 DEF RequestsOK, RequestOK, JobOK, PlaceOK, TeamReads, ListReads
    <3> QED  BY <1>0, <1>1, <3>1, <3>2, <3>3 DEF RequestsOK, FlagsOK, Labels
  <2>2. CASE ~Exists(t)
    BY <1>0, <1>1, <2>2, GotoTypes DEF SelectTeam, Answer, PlaceOK, TeamReads, ListReads, Labels,
                                       Answers, FlagsOK, RequestsOK
  <2> QED  BY <2>1, <2>2
<1> QED  BY <1>0, <1>1, <1>2 DEF CoreOK, FlagsOK

LEMMA SelectMembersTypes ==
  ASSUME CoreOK, NEW r \in Requests, SelectMembers(r)  PROVE CoreOK'
<1> DEFINE t == job[r].team
<1>0. /\ pc[r] = "members" /\ t \in TeamIds /\ loaded[r] \in TeamValues
      /\ RequestsOK /\ FlagsOK /\ TablesOK
  BY DEF SelectMembers, CoreOK, RequestsOK, RequestOK, JobOK, PlaceOK, TeamReads
<1>1. TablesOK' /\ CachesOK' /\ effect' = effect /\ published' = published /\ job' = job
  BY DEF SelectMembers, Reading, tables, caches, CoreOK, TablesOK, CachesOK
<1>2. RequestsOK' /\ answer' \in [Requests -> Answers \cup {None}]
  <2>1. CASE Redis
    <3>1. /\ loaded' = [loaded EXCEPT ![r] = [loaded[r] EXCEPT !.roles = role[t]]]
          /\ pc' = [pc EXCEPT ![r] = "fill"] /\ answer' = answer
      BY <2>1 DEF SelectMembers, Goto
    <3>2. [loaded[r] EXCEPT !.roles = role[t]] \in TeamValues
      BY <1>0 DEF TablesOK, TeamValues
    <3>3. \A q \in Requests : RequestOK(q)'
      BY <1>0, <1>1, <3>1, <3>2 DEF RequestsOK, RequestOK, JobOK, PlaceOK, TeamReads, ListReads
    <3> QED  BY <1>0, <1>1, <3>1, <3>2, <3>3 DEF RequestsOK, FlagsOK, Labels
  <2>2. CASE ~Redis
    BY <1>0, <1>1, <2>2, FoundTypes DEF SelectMembers, TeamReads, RequestsOK
  <2> QED  BY <2>1, <2>2
<1> QED  BY <1>0, <1>1, <1>2 DEF CoreOK, FlagsOK

LEMMA FillTeamTypes ==
  ASSUME CoreOK, NEW r \in Requests, FillTeam(r)  PROVE CoreOK'
<1>0. /\ pc[r] = "fill" /\ job[r].team \in TeamIds /\ loaded[r] \in TeamValues
      /\ RequestsOK /\ FlagsOK /\ CachesOK
  BY DEF FillTeam, CoreOK, RequestsOK, RequestOK, JobOK, PlaceOK, TeamReads
<1>1. TablesOK' /\ CachesOK' /\ effect' = effect /\ published' = published /\ job' = job
  BY <1>0 DEF FillTeam, Reading, tables, CoreOK, TablesOK, CachesOK
<1>2. RequestsOK' /\ answer' \in [Requests -> Answers \cup {None}]
  BY <1>0, <1>1, FoundTypes DEF FillTeam, TeamReads, RequestsOK
<1> QED  BY <1>0, <1>1, <1>2 DEF CoreOK, FlagsOK


LEMMA ListTypes ==
  ASSUME CoreOK, NEW r \in Requests, LookupList(r) \/ SelectList(r) \/ FillList(r)
  PROVE  CoreOK'
<1> USE DEF PlaceOK, TeamReads, ListReads, Labels, Answers, Goto, Answer
<1>0. /\ pc[r] \in ListReads /\ job[r].target \in UserIds /\ job[r].op = "GetTeamsByUserID"
      /\ pc[r] = "listFill" => loaded[r] \in ListValues
      /\ RequestsOK /\ FlagsOK /\ TablesOK /\ CachesOK
  BY DEF LookupList, SelectList, FillList, CoreOK, RequestsOK, RequestOK, JobOK
<1>1. TablesOK' /\ CachesOK' /\ effect' = effect /\ published' = published /\ job' = job
  BY <1>0 DEF LookupList, SelectList, FillList, Reading, tables, caches, TablesOK, CachesOK
<1>2. RequestsOK' /\ answer' \in [Requests -> Answers \cup {None}]
  <2>1. CASE LookupList(r)
    BY <1>0, <1>1, <2>1, GotoTypes DEF LookupList, FlagsOK, RequestsOK
  <2>2. CASE SelectList(r) /\ Redis
    <3>1. /\ loaded' = [loaded EXCEPT ![r] = ListRows(job[r].target)]
          /\ pc' = [pc EXCEPT ![r] = "listFill"] /\ answer' = answer
      BY <2>2 DEF SelectList
    <3>2. ListRows(job[r].target) \in ListValues
      BY <1>0 DEF TablesOK, ListValues, ListRows
    <3>3. \A q \in Requests : RequestOK(q)'
      BY <1>0, <1>1, <3>1, <3>2 DEF RequestsOK, RequestOK, JobOK
    <3> QED  BY <1>0, <1>1, <3>1, <3>2, <3>3 DEF RequestsOK, FlagsOK
  <2>3. CASE SelectList(r) /\ ~Redis
    BY <1>0, <1>1, <2>3, GotoTypes DEF SelectList, FlagsOK, RequestsOK
  <2>4. CASE FillList(r)
    BY <1>0, <1>1, <2>4, GotoTypes DEF FillList, FlagsOK, RequestsOK
  <2> QED  BY <2>1, <2>2, <2>3, <2>4
<1> QED  BY <1>0, <1>1, <1>2 DEF CoreOK, FlagsOK

Check(r) ==
    \/ AuthoriseUpdateTeam(r) \/ AuthoriseDeleteTeam(r) \/ AuthoriseAddMember(r)
    \/ AuthoriseRemoveMember(r) \/ AuthoriseUpdateMemberRole(r)
    \/ UserExists(r) \/ CheckTargetRole(r)

\* The checks read the tables and change nothing but the request's place.
LEMMA CheckMoves ==
  ASSUME CoreOK, NEW r \in Requests, Check(r)
  PROVE  /\ pc[r] \in {"role", "target"} /\ job[r].op \in OnTeam
         /\ UNCHANGED <<teamName, role, issued, teamCache, listCache, job, loaded, effect, published>>
         /\ \/ Goto(r, "write")
            \/ Goto(r, "target") /\ job[r].op \in {"AddMember", "UpdateMemberRole"}
            \/ \E a \in Answers : Answer(r, a)
<1> USE DEF Reading, tables, caches, OnTeam, OnTarget, Answers
<1>1. CASE AuthoriseUpdateTeam(r)  BY <1>1 DEF AuthoriseUpdateTeam, Authorise
<1>2. CASE AuthoriseDeleteTeam(r)  BY <1>2 DEF AuthoriseDeleteTeam, Authorise
<1>3. CASE AuthoriseAddMember(r)  BY <1>3 DEF AuthoriseAddMember, Authorise
<1>4. CASE AuthoriseRemoveMember(r)  BY <1>4 DEF AuthoriseRemoveMember, Authorise
<1>5. CASE AuthoriseUpdateMemberRole(r)  BY <1>5 DEF AuthoriseUpdateMemberRole, Authorise
<1>6. CASE UserExists(r)  BY <1>6 DEF UserExists
<1>7. CASE CheckTargetRole(r)  BY <1>7 DEF CheckTargetRole
<1> QED  BY <1>1, <1>2, <1>3, <1>4, <1>5, <1>6, <1>7 DEF Check

LEMMA CheckTypes ==
  ASSUME CoreOK, NEW r \in Requests, Check(r)  PROVE CoreOK'
<1>0. /\ pc[r] \in {"role", "target"} /\ job[r].op \in OnTeam
      /\ UNCHANGED <<teamName, role, issued, teamCache, listCache, job, loaded, effect, published>>
      /\ \/ Goto(r, "write")
         \/ Goto(r, "target") /\ job[r].op \in {"AddMember", "UpdateMemberRole"}
         \/ \E a \in Answers : Answer(r, a)
  BY CheckMoves
<1>1. TablesOK' /\ CachesOK'  BY <1>0 DEF CoreOK, TablesOK, CachesOK
<1>2. CASE Goto(r, "write")
  BY <1>0, <1>1, <1>2, GotoTypes
     DEF Goto, PlaceOK, TeamReads, ListReads, Labels, CoreOK, FlagsOK, RequestsOK
<1>3. CASE Goto(r, "target") /\ job[r].op \in {"AddMember", "UpdateMemberRole"}
  BY <1>0, <1>1, <1>3, GotoTypes
     DEF Goto, PlaceOK, TeamReads, ListReads, Labels, CoreOK, FlagsOK, RequestsOK
<1>4. ASSUME NEW a \in Answers, Answer(r, a)  PROVE CoreOK'
  BY <1>0, <1>1, <1>4, GotoTypes
     DEF Answer, PlaceOK, TeamReads, ListReads, Labels, CoreOK, FlagsOK, RequestsOK
<1> QED  BY <1>0, <1>2, <1>3, <1>4

-----------------------------------------------------------------------------
(* Writes.                                                                    *)

Write(r) == \/ CreateTeam(r) \/ UpdateTeam(r) \/ DeleteTeam(r)
            \/ AddMember(r) \/ RemoveMember(r) \/ UpdateMemberRole(r)

\* A write leaves the caches alone, and either commits or changes nothing.
LEMMA WriteMoves ==
  ASSUME CoreOK, NEW r \in Requests, Write(r)
  PROVE  /\ pc[r] = "write" /\ job[r].op \in OnTeam \cup {"CreateTeam"}
         /\ UNCHANGED <<teamCache, listCache, loaded, published>>
         /\ \/ Committed(r) /\ (job' = job \/ \E t \in TeamIds : job' = [job EXCEPT ![r].team = t])
            \/ \E a \in Answers : Rejected(r, a)
         /\ Committed(r) => job'[r].team \in TeamIds
         /\ TablesOK'
<1> USE DEF Writing, caches, OnTeam, OnTarget, Answers, Roles
<1>0. pc[r] = "write" => job[r] \in Jobs /\ JobOK(job[r])
  BY DEF CoreOK, RequestsOK, RequestOK
<1>1. CASE CreateTeam(r)
  <2>1. PICK t \in TeamIds \ issued :
          /\ issued' = issued \cup {t}
          /\ teamName' = [teamName EXCEPT ![t] = job[r].name]
          /\ role' = [role EXCEPT ![t][job[r].who] = "main_manager"]
          /\ job' = [job EXCEPT ![r].team = t]
    BY <1>1 DEF CreateTeam
  <2>2. job[r].who \in UserIds /\ job[r].name \in Names
    BY <1>0, <1>1, UsersAssumption DEF CreateTeam, Jobs, JobOK
  <2>3. job'[r].team = t
    BY <1>0, <1>1, <2>1 DEF CreateTeam, CoreOK, RequestsOK, Jobs
  <2>4. TablesOK'  BY <2>1, <2>2 DEF CoreOK, TablesOK
  <2> QED  BY <1>1, <2>1, <2>3, <2>4 DEF CreateTeam
<1>2. CASE UpdateTeam(r)
  BY <1>0, <1>2 DEF UpdateTeam, Rejected, tables, CoreOK, TablesOK, JobOK
<1>3. CASE DeleteTeam(r)
  BY <1>0, <1>3 DEF DeleteTeam, Rejected, tables, CoreOK, TablesOK, JobOK, NoMembers
<1>4. CASE AddMember(r)
  <2>1. job[r].team \in TeamIds /\ job[r].target \in UserIds
    BY <1>0, <1>4 DEF AddMember, JobOK
  <2>2. CASE Rejected(r, "Conflict") \/ Rejected(r, "Internal")
    BY <2>1, <2>2, <1>4 DEF AddMember, Rejected, tables, CoreOK, TablesOK
  <2>3. CASE /\ role' = [role EXCEPT ![job[r].team][job[r].target] = "member"]
             /\ UNCHANGED <<teamName, issued, job>>
             /\ Committed(r)
    BY <2>1, <2>3, <1>4 DEF AddMember, CoreOK, TablesOK
  <2> QED  BY <1>4, <2>2, <2>3 DEF AddMember
<1>5. CASE RemoveMember(r)
  BY <1>0, <1>5 DEF RemoveMember, Rejected, tables, CoreOK, TablesOK, JobOK
<1>6. CASE UpdateMemberRole(r)
  <2> DEFINE t == job[r].team  u == job[r].target
  <2>1. t \in TeamIds /\ u \in UserIds /\ job[r].newRole \in Roles
    BY <1>0, <1>6 DEF UpdateMemberRole, JobOK
  <2>2. /\ teamName' = teamName /\ issued' = issued /\ job' = job
        /\ role' = role \/ role' = [role EXCEPT ![t][u] = job[r].newRole]
    BY <1>6 DEF UpdateMemberRole, Rejected, tables
  <2>3. TablesOK'  BY <2>1, <2>2 DEF CoreOK, TablesOK
  <2> QED  BY <1>6, <2>1, <2>2, <2>3 DEF UpdateMemberRole
<1> QED  BY <1>1, <1>2, <1>3, <1>4, <1>5, <1>6 DEF Write

LEMMA WriteTypes ==
  ASSUME CoreOK, NEW r \in Requests, Write(r)  PROVE CoreOK'
<1>0. /\ pc[r] = "write" /\ job[r].op \in OnTeam \cup {"CreateTeam"}
      /\ UNCHANGED <<teamCache, listCache, loaded, published>>
      /\ \/ Committed(r) /\ (job' = job \/ \E t \in TeamIds : job' = [job EXCEPT ![r].team = t])
         \/ \E a \in Answers : Rejected(r, a)
      /\ Committed(r) => job'[r].team \in TeamIds
      /\ TablesOK'
  BY WriteMoves
<1>1. CachesOK'  BY <1>0 DEF CoreOK, CachesOK
<1>2. FlagsOK'
  BY <1>0 DEF CoreOK, FlagsOK, Committed, Rejected, Goto, Answer, Answers
<1>3. ASSUME NEW a \in Answers, Rejected(r, a)  PROVE RequestsOK'
  BY <1>0, <1>3, GotoTypes
     DEF Rejected, Answer, PlaceOK, TeamReads, ListReads, Labels, CoreOK, RequestsOK
<1>4. CASE Committed(r) /\ (job' = job \/ \E t \in TeamIds : job' = [job EXCEPT ![r].team = t])
  <2>1. job[r] \in Jobs /\ JobOK(job[r])  BY <1>0 DEF CoreOK, RequestsOK, RequestOK
  <2>2. /\ job' \in [Requests -> Jobs \cup {None}]
        /\ job'[r] \in Jobs /\ JobOK(job'[r]) /\ job'[r].op = job[r].op
        /\ \A q \in Requests : q # r => job'[q] = job[q]
    BY <1>4, <2>1 DEF CoreOK, RequestsOK, Jobs, JobOK
  <2>3. PICK l \in {"evict", "done"} : pc' = [pc EXCEPT ![r] = l]
    BY <1>4 DEF Committed, Goto, Answer
  <2>4. \A q \in Requests : RequestOK(q)'
    <3> TAKE q \in Requests
    <3>1. CASE q = r
      BY <1>0, <1>4, <2>2, <2>3, <3>1
         DEF CoreOK, RequestsOK, RequestOK, PlaceOK, TeamReads, ListReads
    <3>2. CASE q # r
      BY <1>0, <2>2, <2>3, <3>2 DEF CoreOK, RequestsOK, RequestOK, JobOK, PlaceOK
    <3> QED  BY <3>1, <3>2
  <2> QED  BY <1>0, <1>1, <1>2, <2>2, <2>3, <2>4 DEF CoreOK, RequestsOK, Labels
<1> QED  BY <1>0, <1>1, <1>2, <1>3, <1>4 DEF CoreOK

-----------------------------------------------------------------------------
(* After the write, and the environment.                                      *)

LEMMA EvictTypes ==
  ASSUME CoreOK, NEW r \in Requests, Evict(r)  PROVE CoreOK'
<1>1. TablesOK' /\ CachesOK' /\ FlagsOK'
  BY DEF Evict, Goto, tables, caches, CoreOK, TablesOK, CachesOK, FlagsOK
<1>2. RequestsOK'
  BY GotoTypes DEF Evict, Goto, PlaceOK, TeamReads, ListReads, Labels, CoreOK, RequestsOK, RequestOK
<1> QED  BY <1>1, <1>2 DEF CoreOK

LEMMA PublishTypes ==
  ASSUME CoreOK, NEW r \in Requests, PublishEvent(r)  PROVE CoreOK'
<1>1. TablesOK' /\ CachesOK' /\ FlagsOK'
  BY DEF PublishEvent, Answer, Answers, tables, caches, CoreOK, TablesOK, CachesOK, FlagsOK
<1>2. RequestsOK'
  BY GotoTypes DEF PublishEvent, Answer, PlaceOK, TeamReads, ListReads, Labels, CoreOK, RequestsOK
<1> QED  BY <1>1, <1>2 DEF CoreOK

LEMMA RespondTypes ==
  ASSUME CoreOK, NEW r \in Requests, Respond(r)  PROVE CoreOK'
<1>1. TablesOK' /\ CachesOK' /\ FlagsOK'
  BY DEF Respond, tables, caches, CoreOK, TablesOK, CachesOK, FlagsOK
<1>2. \A q \in Requests : RequestOK(q)'
  BY DEF Respond, CoreOK, RequestsOK, RequestOK
<1> QED  BY <1>1, <1>2 DEF Respond, CoreOK, RequestsOK, Labels

LEMMA DbFailsTypes ==
  ASSUME CoreOK, NEW r \in Requests, DbFails(r)  PROVE CoreOK'
<1>1. TablesOK' /\ CachesOK' /\ FlagsOK'
  BY DEF DbFails, Reading, Answer, Answers, tables, caches, CoreOK, TablesOK, CachesOK, FlagsOK
<1>2. RequestsOK'
  BY GotoTypes DEF DbFails, Reading, Answer, PlaceOK, TeamReads, ListReads, Labels, CoreOK, RequestsOK
<1> QED  BY <1>1, <1>2 DEF CoreOK

LEMMA ExpireTypes ==
  ASSUME CoreOK, (\E t \in TeamIds : ExpireTeam(t)) \/ (\E u \in UserIds : ExpireList(u))
  PROVE  CoreOK'
<1>1. /\ UNCHANGED <<teamName, role, issued, pc, job, loaded, answer, effect, published>>
      /\ CachesOK'
  BY DEF ExpireTeam, ExpireList, tables, CoreOK, CachesOK
<1> QED  BY <1>1 DEF CoreOK, TablesOK, FlagsOK, RequestsOK, RequestOK

LEMMA CrashTypes ==
  ASSUME CoreOK, Crash  PROVE CoreOK'
BY DEF Crash, tables, caches, CoreOK, TablesOK, CachesOK, FlagsOK, RequestsOK, RequestOK, Labels

-----------------------------------------------------------------------------
LEMMA NextCore == CoreOK /\ [Next]_vars => CoreOK' 
<1> SUFFICES ASSUME CoreOK, [Next]_vars  PROVE CoreOK'
  OBVIOUS
<1>1. CASE UNCHANGED vars
  BY <1>1 DEF vars, CoreOK, TablesOK, CachesOK, FlagsOK, RequestsOK, RequestOK
<1>2. ASSUME NEW r \in Requests, Serve(r)  PROVE CoreOK'
  BY <1>2, LookupTeamTypes, SelectTeamTypes, SelectMembersTypes, FillTeamTypes, ListTypes,
     CheckTypes, WriteTypes, EvictTypes, PublishTypes, RespondTypes
     DEF Serve, Check, Write
<1>3. CASE \E r \in Requests : ServerStep(r)
  BY <1>2, <1>3, HandleTypes, DbFailsTypes DEF ServerStep
<1>4. CASE CacheStep
  BY <1>4, ExpireTypes DEF CacheStep
<1>5. CASE CrashStep
  BY <1>5, CrashTypes DEF CrashStep
<1> QED  BY <1>1, <1>3, <1>4, <1>5 DEF Next

\* heldRoles collects roles read off role, for requests that name a team.
LEMMA NextHeld ==
  ASSUME CoreOK, CoreOK', heldRoles \in [Requests -> SUBSET (Roles \cup {None})], [Next]_vars
  PROVE  heldRoles' \in [Requests -> SUBSET (Roles \cup {None})]
<1>1. CASE UNCHANGED vars  BY <1>1 DEF vars
<1>2. CASE RecordRoles
  <2>1. ASSUME NEW r \in Requests, Deciding(r)'
        PROVE  role'[job'[r].team][job'[r].who] \in Roles \cup {None}
    <3>1. job'[r] \in Jobs /\ JobOK(job'[r]) /\ PlaceOK(pc'[r], job'[r].op)
      BY <2>1 DEF CoreOK, RequestsOK, RequestOK, Deciding
    <3>2. job'[r].op \in OnTeam
      BY <2>1, <3>1 DEF Deciding, PlaceOK, TeamReads, OnTeam, OnTarget
    <3>3. job'[r].team \in TeamIds /\ job'[r].who \in UserIds
      BY <3>1, <3>2, UsersAssumption DEF JobOK, Jobs
    <3> QED  BY <3>3 DEF CoreOK, TablesOK
  <2> QED  BY <1>2, <2>1 DEF RecordRoles
<1> QED  BY <1>1, <1>2 DEF Next, ServerStep, CacheStep, CrashStep

\* Every variable keeps its type, and every request carries the fields that its
\* next step reads: no handler ever indexes a table by an absent field.
THEOREM TypeCorrect == Spec => []TypeInv
<1>1. TypeInv /\ [Next]_vars => TypeInv'
  BY NextCore, NextHeld DEF TypeInv, CoreOK
<1> QED  BY InitTypeInv, <1>1, PTL DEF Spec

\* TypeOK, the invariant the runs check.
THEOREM TypeSafe == Spec => []TypeOK
<1>1. TypeInv => TypeOK
  BY DEF TypeInv, TablesOK, CachesOK, FlagsOK, RequestsOK, TypeOK
<1> QED  BY TypeCorrect, <1>1, PTL

-----------------------------------------------------------------------------
(* Only writes touch the tables.                                              *)

LEMMA TablesChange ==
  ASSUME CoreOK, [Next]_vars
  PROVE  UNCHANGED <<teamName, role, issued>> \/ \E r \in Requests : Write(r)
<1> USE DEF tables, Reading
<1>1. CASE UNCHANGED vars  BY <1>1 DEF vars
<1>2. ASSUME NEW r \in Requests, Handle(r)  PROVE UNCHANGED <<teamName, role, issued>>
  BY <1>2 DEF Handle, HandleCreateTeam, HandleGetTeamByID, HandleGetTeamsByUserID, HandleUpdateTeam,
     HandleDeleteTeam, HandleAddMember, HandleRemoveMember, HandleUpdateMemberRole,
     Malformed, Begin, Refuse, Receive
<1>3. ASSUME NEW r \in Requests, Serve(r), ~Write(r)  PROVE UNCHANGED <<teamName, role, issued>>
  <2>1. CASE Check(r)  BY <2>1, CheckMoves
  <2>2. CASE LookupTeam(r) \/ SelectTeam(r) \/ SelectMembers(r) \/ FillTeam(r)
    BY <2>2 DEF LookupTeam, SelectTeam, SelectMembers, FillTeam
  <2>3. CASE LookupList(r) \/ SelectList(r) \/ FillList(r)
    BY <2>3 DEF LookupList, SelectList, FillList
  <2>4. CASE Evict(r) \/ PublishEvent(r) \/ Respond(r)
    BY <2>4 DEF Evict, PublishEvent, Respond
  <2> QED  BY <1>3, <2>1, <2>2, <2>3, <2>4 DEF Serve, Check, Write
<1>4. CASE \E r \in Requests : DbFails(r)  BY <1>4 DEF DbFails
<1>5. CASE CacheStep  BY <1>5 DEF CacheStep, ExpireTeam, ExpireList
<1>6. CASE CrashStep  BY <1>6 DEF CrashStep, Crash
<1> QED  BY <1>1, <1>2, <1>3, <1>4, <1>5, <1>6 DEF Next, ServerStep

\* What a write does to the row of any team t.
WriteEffect(r, t) ==
    LET j == job[r] IN
    \/ UNCHANGED <<teamName[t], role[t]>> /\ (t \in issued => t \in issued')
    \/ j.op = "CreateTeam" /\ t \notin issued /\ t \in issued' /\ teamName'[t] \in Names
         /\ role'[t] = [role[t] EXCEPT ![j.who] = "main_manager"]
    \/ /\ j.op \in OnTeam /\ j.team = t /\ issued' = issued
       /\ \/ j.op = "UpdateTeam" /\ Exists(t) /\ teamName'[t] \in Names /\ role'[t] = role[t]
          \/ j.op = "DeleteTeam" /\ Exists(t) /\ teamName'[t] = None /\ role'[t] = NoMembers
          \/ j.op = "AddMember" /\ Exists(t) /\ teamName'[t] = teamName[t] /\ j.target \in Users
               /\ role[t][j.target] = None /\ role'[t] = [role[t] EXCEPT ![j.target] = "member"]
          \/ j.op = "RemoveMember" /\ teamName'[t] = teamName[t]
               /\ role'[t] = [role[t] EXCEPT ![j.target] = None]
          \/ j.op = "UpdateMemberRole" /\ teamName'[t] = teamName[t]
               /\ role[t][j.target] # None /\ j.newRole \in Roles
               /\ role'[t] = [role[t] EXCEPT ![j.target] = j.newRole]

LEMMA WriteEffects ==
  ASSUME CoreOK, NEW r \in Requests, Write(r), NEW t \in TeamIds
  PROVE  pc[r] = "write" /\ WriteEffect(r, t)
<1> DEFINE j == job[r]
<1>0. pc[r] = "write" /\ j \in Jobs /\ JobOK(j) /\ TablesOK
  BY WriteMoves DEF CoreOK, RequestsOK, RequestOK
<1> USE DEF Writing, Rejected, tables, OnTeam, OnTarget, TablesOK, WriteEffect
<1>1. CASE CreateTeam(r)
  <2>1. PICK n \in TeamIds \ issued :
          /\ issued' = issued \cup {n}
          /\ teamName' = [teamName EXCEPT ![n] = j.name]
          /\ role' = [role EXCEPT ![n][j.who] = "main_manager"]
    BY <1>1 DEF CreateTeam
  <2>2. j.op = "CreateTeam" /\ j.name \in Names  BY <1>0, <1>1 DEF CreateTeam, JobOK
  <2>3. CASE n = t  BY <1>0, <2>1, <2>2, <2>3
  <2>4. CASE n # t  BY <1>0, <2>1, <2>4
  <2> QED  BY <1>0, <2>3, <2>4
<1>2. CASE UpdateTeam(r)
  BY <1>0, <1>2 DEF UpdateTeam, JobOK, Exists
<1>3. CASE DeleteTeam(r)
  BY <1>0, <1>3 DEF DeleteTeam, JobOK
<1>4. CASE AddMember(r)
  BY <1>0, <1>4 DEF AddMember, JobOK
<1>5. CASE RemoveMember(r)
  BY <1>0, <1>5 DEF RemoveMember, JobOK
<1>6. CASE UpdateMemberRole(r)
  BY <1>0, <1>6 DEF UpdateMemberRole, JobOK
<1> QED  BY <1>1, <1>2, <1>3, <1>4, <1>5, <1>6 DEF Write

-----------------------------------------------------------------------------
(* Rows.                                                                      *)

LEMMA NextRows ==
  ASSUME CoreOK, RowsIntegrity, [Next]_vars  PROVE RowsIntegrity'
<1>1. CASE UNCHANGED <<teamName, role, issued>>  BY <1>1 DEF RowsIntegrity, Exists
<1>2. ASSUME NEW r \in Requests, Write(r)  PROVE RowsIntegrity'
  <2>1. ASSUME NEW t \in TeamIds
        PROVE  /\ Exists(t)' => t \in issued'
               /\ \A u \in UserIds : role'[t][u] # None => Exists(t)' /\ u \in Users
    <3>1. WriteEffect(r, t)  BY <1>2, WriteEffects
    <3>2. pc[r] = "write" /\ job[r] \in Jobs /\ job[r].who \in Users
      BY <1>2, WriteMoves DEF CoreOK, RequestsOK, RequestOK, Jobs
    <3>3. role[t] \in [UserIds -> Roles \cup {None}]  BY DEF CoreOK, TablesOK
    <3>4. None \notin Names  BY NoneAssumption
    <3> QED  BY <3>1, <3>2, <3>3, <3>4 DEF WriteEffect, RowsIntegrity, Exists, NoMembers
  <2> QED  BY <2>1 DEF RowsIntegrity
<1> QED  BY <1>1, <1>2, TablesChange

\* A membership row never outlives its team or belongs to an unknown user,
\* however AddMember, UpdateMemberRole and DeleteTeam interleave.
THEOREM RowsSafe == Spec => []RowsIntegrity
<1>1. Init => RowsIntegrity  BY DEF Init, RowsIntegrity, Exists, NoMembers
<1>2. TypeInv /\ RowsIntegrity /\ [Next]_vars => RowsIntegrity'
  BY NextRows DEF TypeInv, CoreOK
<1> QED  BY <1>1, <1>2, TypeCorrect, PTL DEF Spec

-----------------------------------------------------------------------------
(* Authority.  A request past its role check remembers, in heldRoles, a role  *)
(* that entitles it; the check is the only way in.                            *)

Needed(op) == IF op \in {"DeleteTeam", "UpdateMemberRole"} THEN {"main_manager"} ELSE Privileged
PastCheck(r) == pc[r] \in {"target", "write"} /\ job[r].op \in OnTeam
HeldInv == \A r \in Requests : PastCheck(r) => heldRoles[r] \cap Needed(job[r].op) # {}

\* A step of another request leaves a request's place, job, answer and history alone.
LEMMA OthersUntouched ==
  ASSUME CoreOK, NEW r \in Requests, Handle(r) \/ Serve(r) \/ DbFails(r),
         NEW q \in Requests, q # r
  PROVE  /\ pc'[q] = pc[q] /\ job'[q] = job[q] /\ answer'[q] = answer[q]
         /\ effect'[q] = effect[q] /\ published'[q] = published[q]
<1> USE DEF FlagsOK
<1>1. CASE Handle(r)
  BY <1>1 DEF CoreOK, RequestsOK, Handle, HandleCreateTeam, HandleGetTeamByID, HandleGetTeamsByUserID,
     HandleUpdateTeam, HandleDeleteTeam, HandleAddMember, HandleRemoveMember, HandleUpdateMemberRole,
     Malformed, Begin, Refuse, Receive, Goto, Answer
<1>2. CASE DbFails(r)  BY <1>2 DEF DbFails, Reading, Answer, CoreOK, RequestsOK
<1>3. CASE Check(r)  BY <1>3, CheckMoves DEF Goto, Answer, CoreOK, RequestsOK
<1>4. CASE Write(r)
  BY <1>4, WriteMoves DEF Committed, Rejected, Goto, Answer, CoreOK, RequestsOK
<1>5. CASE LookupTeam(r) \/ SelectTeam(r) \/ SelectMembers(r) \/ FillTeam(r)
  BY <1>5 DEF LookupTeam, SelectTeam, SelectMembers, FillTeam, Found, Reading, Goto, Answer,
              CoreOK, RequestsOK
<1>6. CASE LookupList(r) \/ SelectList(r) \/ FillList(r)
  BY <1>6 DEF LookupList, SelectList, FillList, Reading, Goto, Answer, CoreOK, RequestsOK
<1>7. CASE Evict(r) \/ PublishEvent(r) \/ Respond(r)
  BY <1>7 DEF Evict, PublishEvent, Respond, Goto, Answer, CoreOK, RequestsOK
<1> QED  BY <1>1, <1>2, <1>3, <1>4, <1>5, <1>6, <1>7 DEF Serve, Check, Write

\* The role that lets a request past its check.
LEMMA CheckAdmits ==
  ASSUME CoreOK, NEW r \in Requests, Check(r), PastCheck(r)'
  PROVE  /\ job' = job /\ role' = role
         /\ PastCheck(r) \/ role[job[r].team][job[r].who] \in Needed(job[r].op)
<1>0. /\ pc[r] \in {"role", "target"} /\ job[r].op \in OnTeam /\ job' = job /\ role' = role
      /\ pc[r] = "target" => PastCheck(r)
  BY CheckMoves DEF PastCheck
<1>1. CASE UserExists(r) \/ CheckTargetRole(r)  BY <1>0, <1>1 DEF UserExists, CheckTargetRole
<1>2. ASSUME NEW op, NEW allowed, NEW l, Authorise(r, op, allowed, l)
      PROVE  job[r].op = op /\ role[job[r].team][job[r].who] \in allowed
  BY <1>2 DEF Authorise, Answer, PastCheck, CoreOK, RequestsOK
<1> QED  BY <1>0, <1>1, <1>2 DEF Check, AuthoriseUpdateTeam, AuthoriseDeleteTeam, AuthoriseAddMember,
            AuthoriseRemoveMember, AuthoriseUpdateMemberRole, Needed

\* Whoever is past the check after a step was past it before, or has just been
\* admitted by a role read off the table, which that step did not change.
LEMMA Arrival ==
  ASSUME CoreOK, [Next]_vars, NEW q \in Requests, PastCheck(q)'
  PROVE  /\ job'[q] = job[q]
         /\ \/ PastCheck(q)
            \/ role' = role /\ role[job[q].team][job[q].who] \in Needed(job[q].op)
<1> USE DEF PastCheck
<1>1. CASE UNCHANGED vars  BY <1>1 DEF vars
<1>2. ASSUME NEW r \in Requests, Handle(r) \/ Serve(r) \/ DbFails(r), q # r  PROVE PastCheck(q) /\ job'[q] = job[q]
  BY <1>2, OthersUntouched
<1>3. ASSUME Handle(q)  PROVE FALSE
  BY <1>3 DEF CoreOK, RequestsOK, Handle, HandleCreateTeam, HandleGetTeamByID, HandleGetTeamsByUserID,
     HandleUpdateTeam, HandleDeleteTeam, HandleAddMember, HandleRemoveMember, HandleUpdateMemberRole,
     Malformed, Begin, Refuse, Receive, Goto, Answer, FirstRead, FirstList, Job, OnTeam, OnTarget
<1>4. ASSUME DbFails(q)  PROVE FALSE
  BY <1>4 DEF DbFails, Answer, CoreOK, RequestsOK
<1>5. ASSUME Write(q)  PROVE FALSE
  BY <1>5, WriteMoves DEF Committed, Rejected, Goto, Answer, CoreOK, RequestsOK
<1>6. ASSUME LookupTeam(q) \/ SelectTeam(q) \/ SelectMembers(q) \/ FillTeam(q)  PROVE FALSE
  BY <1>6 DEF LookupTeam, SelectTeam, SelectMembers, FillTeam, Found, Goto, Answer, CoreOK, RequestsOK
<1>7. ASSUME LookupList(q) \/ SelectList(q) \/ FillList(q)  PROVE FALSE
  BY <1>7 DEF LookupList, SelectList, FillList, Goto, Answer, CoreOK, RequestsOK
<1>8. ASSUME Evict(q) \/ PublishEvent(q) \/ Respond(q)  PROVE FALSE
  BY <1>8 DEF Evict, PublishEvent, Respond, Goto, Answer, CoreOK, RequestsOK
<1>9. CASE CacheStep  BY <1>9 DEF CacheStep, ExpireTeam, ExpireList
<1>10. CASE CrashStep  BY <1>10 DEF CrashStep, Crash
<1>11. CASE Serve(q)
  BY <1>5, <1>6, <1>7, <1>8, <1>11, CheckAdmits DEF Serve, Check, Write
<1> QED  BY <1>1, <1>2, <1>3, <1>4, <1>9, <1>10, <1>11 DEF Next, ServerStep

LEMMA NextHeldInv ==
  ASSUME CoreOK, HeldInv, [Next]_vars  PROVE HeldInv'
<1>1. CASE UNCHANGED vars  BY <1>1 DEF vars, HeldInv, PastCheck
<1>2. CASE RecordRoles
  <2>1. ASSUME NEW q \in Requests, PastCheck(q)'
        PROVE  heldRoles'[q] \cap Needed(job'[q].op) # {}
    <3>1. /\ job'[q] = job[q]
          /\ \/ PastCheck(q)
             \/ role' = role /\ role[job[q].team][job[q].who] \in Needed(job[q].op)
      BY <2>1, Arrival
    <3>2. heldRoles'[q] = heldRoles[q] \cup {role'[job'[q].team][job'[q].who]}
      BY <1>2, <2>1 DEF RecordRoles, Deciding, PastCheck, OnTeam, OnTarget
    <3> QED  BY <3>1, <3>2 DEF HeldInv
  <2> QED  BY <2>1 DEF HeldInv, Needed, PastCheck
<1> QED  BY <1>1, <1>2 DEF Next, ServerStep, CacheStep, CrashStep

LEMMA HeldAlways == Spec => []HeldInv
<1>1. Init => HeldInv  BY DEF Init, HeldInv, PastCheck
<1>2. TypeInv /\ HeldInv /\ [Next]_vars => HeldInv'
  BY NextHeldInv DEF TypeInv, CoreOK
<1> QED  BY <1>1, <1>2, TypeCorrect, PTL DEF Spec

\* Every change of an existing team is the write of a request whose requester
\* held the role its endpoint demands at some moment since it arrived.
THEOREM RightsTheorem == Spec => RightsBehindChanges
<1>1. ASSUME CoreOK, RowsIntegrity, HeldInv, [Next]_vars, NEW t \in TeamIds
      PROVE  RightsBehindChange(t)
  <2>1. CASE UNCHANGED <<teamName, role, issued>>
    BY <2>1 DEF RightsBehindChange, Exists
  <2>2. ASSUME NEW r \in Requests, Write(r)  PROVE RightsBehindChange(t)
    <3>1. pc[r] = "write" /\ WriteEffect(r, t)  BY <1>1, <2>2, WriteEffects
    <3>2. job[r].op \in OnTeam => heldRoles[r] \cap Needed(job[r].op) # {}
      BY <1>1, <3>1 DEF HeldInv, PastCheck
    <3>3. ASSUME job[r].op \in OnTeam, job[r].team = t
          PROVE  Entitled(t, job[r].op, Needed(job[r].op))
      BY <3>1, <3>2, <3>3 DEF Entitled
    <3>4. role[t] \in [UserIds -> Roles \cup {None}] /\ None \notin Names \cup Roles
      BY <1>1, NoneAssumption DEF CoreOK, TablesOK
    <3>5. Exists(t) => t \in issued  BY <1>1 DEF RowsIntegrity
    <3> QED  BY <3>1, <3>3, <3>4, <3>5
             DEF WriteEffect, RightsBehindChange, Exists, Needed, OnTeam, OnTarget, Roles, NoMembers
  <2> QED  BY <1>1, <2>1, <2>2, TablesChange
<1>2. TypeInv /\ RowsIntegrity /\ HeldInv /\ [Next]_vars
        => [\A t \in TeamIds : RightsBehindChange(t)]_vars
  BY <1>1 DEF TypeInv, CoreOK
<1> QED  BY <1>2, TypeCorrect, RowsSafe, HeldAlways, PTL DEF Spec, RightsBehindChanges

-----------------------------------------------------------------------------
(* Answers.  Until it is answered a request has made its change exactly when  *)
(* it is past its write.                                                      *)

AnswerOK(r) ==
    /\ answer[r] = "OK" /\ Mutates(job[r].op) => effect[r]
    /\ answer[r] = "OK" /\ Mutates(job[r].op) /\ Redis /\ "redis" \notin Faults => published[r]
    /\ answer[r] \notin {"OK", "Internal"} => ~effect[r]
    /\ answer[r] = "Internal" /\ "db" \notin Faults => ~effect[r]
    /\ published[r] => effect[r] /\ answer[r] = "OK"

EffectOK(r) ==
    /\ pc[r] \in {"evict", "publish"} => effect[r] = TRUE
    /\ pc[r] \notin {"evict", "publish", "done"} => effect[r] = FALSE
    /\ pc[r] # "done" => published[r] = FALSE
    /\ pc[r] = "done" => AnswerOK(r)

EffectInv == \A r \in Requests : EffectOK(r)

LEMMA ServerEffect ==
  ASSUME CoreOK, EffectInv, NEW r \in Requests, Handle(r) \/ Serve(r) \/ DbFails(r)
  PROVE  EffectOK(r)'
<1>0. /\ RequestsOK /\ FlagsOK /\ RequestOK(r) /\ EffectOK(r)
  BY DEF CoreOK, RequestsOK, EffectInv
<1> USE <1>0 DEF EffectOK, AnswerOK, RequestsOK, FlagsOK
<1>1. CASE Handle(r)
  <2>1. ASSUME NEW j, NEW l, l \notin {"evict", "publish", "done"}, Begin(r, j, l)  PROVE EffectOK(r)'
    BY <2>1 DEF Begin, Receive, Goto
  <2>2. ASSUME NEW j, NEW a \in Answers \ {"OK", "Internal"}, Refuse(r, j, a)  PROVE EffectOK(r)'
    <3>1. pc[r] = "idle" /\ pc'[r] = "done" /\ answer'[r] = a /\ effect' = effect /\ published' = published
      BY <2>2 DEF Refuse, Receive, Answer
    <3> QED  BY <3>1
  <2>3. ASSUME NEW op, NEW who, Malformed(r, op, who)  PROVE EffectOK(r)'
    BY <2>2, <2>3 DEF Malformed, Answers
  <2> USE DEF FirstRead, FirstList, Answers
  <2> HIDE DEF EffectOK
  <2> QED  BY <1>1, <2>1, <2>2, <2>3 DEF Handle, HandleCreateTeam, HandleGetTeamByID,
              HandleGetTeamsByUserID, HandleUpdateTeam, HandleDeleteTeam, HandleAddMember,
              HandleRemoveMember, HandleUpdateMemberRole
<1>2. CASE DbFails(r)  BY <1>2 DEF DbFails, Reading, Answer
<1>3. CASE Check(r)
  <2>1. /\ pc[r] \in {"role", "target"} /\ UNCHANGED <<job, effect, published>>
        /\ \/ Goto(r, "write") \/ Goto(r, "target")
           \/ \E a \in Answers : Answer(r, a) /\ a # "OK"
    BY <1>3 DEF Check, AuthoriseUpdateTeam, AuthoriseDeleteTeam, AuthoriseAddMember, Answers,
       AuthoriseRemoveMember, AuthoriseUpdateMemberRole, Authorise, UserExists, CheckTargetRole, Reading
  <2> QED  BY <2>1 DEF Goto, Answer
<1>4. CASE Write(r)
  <2>1. /\ pc[r] = "write" /\ UNCHANGED published
        /\ \/ Committed(r)
           \/ \E a \in Answers : Rejected(r, a) /\ a # "OK"
    BY <1>4 DEF Write, CreateTeam, UpdateTeam, DeleteTeam, AddMember, RemoveMember,
       UpdateMemberRole, Writing, Answers
  <2>2. CASE Committed(r)
    BY <2>1, <2>2 DEF Committed, Goto, Answer
  <2>3. CASE \E a \in Answers : Rejected(r, a) /\ a # "OK"
    BY <2>1, <2>3 DEF Rejected, Answer
  <2> QED  BY <2>1, <2>2, <2>3
<1>5. CASE LookupTeam(r) \/ SelectTeam(r) \/ SelectMembers(r) \/ FillTeam(r)
  BY <1>5 DEF LookupTeam, SelectTeam, SelectMembers, FillTeam, Found, Reading, Goto, Answer, Mutates
<1>6. CASE LookupList(r) \/ SelectList(r) \/ FillList(r)
  <2>1. job[r].op = "GetTeamsByUserID"
    BY <1>6 DEF LookupList, SelectList, FillList, RequestOK, PlaceOK, ListReads
  <2> QED  BY <1>6, <2>1 DEF LookupList, SelectList, FillList, Reading, Goto, Answer, Mutates
<1>7. CASE Evict(r)  BY <1>7 DEF Evict, Goto
<1>8. CASE PublishEvent(r)  BY <1>8 DEF PublishEvent, Answer
<1>9. CASE Respond(r)  BY <1>9 DEF Respond
<1> QED  BY <1>1, <1>2, <1>3, <1>4, <1>5, <1>6, <1>7, <1>8, <1>9 DEF Serve, Check, Write

LEMMA NextEffect ==
  ASSUME CoreOK, EffectInv, [Next]_vars  PROVE EffectInv'
<1> USE DEF EffectInv
<1>1. CASE UNCHANGED vars  BY <1>1 DEF vars, EffectOK, AnswerOK
<1>2. ASSUME NEW r \in Requests, Handle(r) \/ Serve(r) \/ DbFails(r)  PROVE EffectInv'
  <2>1. ASSUME NEW q \in Requests, q # r  PROVE EffectOK(q)'
    BY <1>2, <2>1, OthersUntouched DEF EffectOK, AnswerOK
  <2> QED  BY <1>2, <2>1, ServerEffect
<1>3. CASE CacheStep
  BY <1>3 DEF CacheStep, ExpireTeam, ExpireList, EffectOK, AnswerOK
<1>4. CASE CrashStep
  BY <1>4 DEF CrashStep, Crash, EffectOK, AnswerOK
<1> QED  BY <1>1, <1>2, <1>3, <1>4 DEF Next, ServerStep

\* What the client is told, and what the audit trail is told, is what happened.
THEOREM AnswersTheorem == Spec => []AnswerMatchesEffect
<1>1. Init => EffectInv  BY DEF Init, EffectInv, EffectOK
<1>2. TypeInv /\ EffectInv /\ [Next]_vars => EffectInv'
  BY NextEffect DEF TypeInv, CoreOK
<1>3. EffectInv => AnswerMatchesEffect
  BY DEF EffectInv, EffectOK, AnswerOK, AnswerMatchesEffect
<1> QED  BY <1>1, <1>2, <1>3, TypeCorrect, PTL DEF Spec

-----------------------------------------------------------------------------
(* Teams without a main_manager.                                              *)

\* Once the last main_manager is gone, and none of his requests is past its
\* check, the team can neither be deleted nor get a main_manager again.
THEOREM HeadlessTheorem == Spec => HeadlessTeamIsStuck
<1>1. ASSUME CoreOK, RowsIntegrity, [Next]_vars, NEW t \in TeamIds, Headless(t), ~OwnerActing(t)
      PROVE  Headless(t)' /\ ~OwnerActing(t)'
  <2>1. Headless(t)'
    <3>1. CASE UNCHANGED <<teamName, role, issued>>
      BY <1>1, <3>1 DEF Headless, Exists
    <3>2. ASSUME NEW r \in Requests, Write(r)  PROVE Headless(t)'
      <4>1. pc[r] = "write" /\ WriteEffect(r, t)  BY <1>1, <3>2, WriteEffects
      <4>2. ~(job[r].op \in {"DeleteTeam", "UpdateMemberRole"} /\ job[r].team = t)
        BY <1>1, <4>1 DEF OwnerActing
      <4>3. role[t] \in [UserIds -> Roles \cup {None}] /\ None \notin Names \cup Roles
        BY <1>1, NoneAssumption DEF CoreOK, TablesOK
      <4>4. t \in issued  BY <1>1 DEF RowsIntegrity, Headless
      <4> QED  BY <1>1, <4>1, <4>2, <4>3, <4>4
               DEF WriteEffect, Headless, Exists, OnTeam, OnTarget, Roles
    <3> QED  BY <1>1, <3>1, <3>2, TablesChange
  <2>2. ASSUME NEW q \in Requests, pc'[q] \in {"target", "write"}, job'[q].team = t,
               job'[q].op \in {"DeleteTeam", "UpdateMemberRole"}
        PROVE  FALSE
    <3>1. PastCheck(q)'  BY <2>2 DEF PastCheck, OnTeam, OnTarget
    <3>2. /\ job'[q] = job[q]
          /\ PastCheck(q) \/ role[job[q].team][job[q].who] \in Needed(job[q].op)
      BY <1>1, <3>1, Arrival
    <3>3. ~PastCheck(q)  BY <1>1, <2>2, <3>2 DEF PastCheck, OwnerActing
    <3>4. job[q].who \in UserIds
      BY <1>1, <2>2, <3>1, <3>2, NextCore, UsersAssumption
         DEF CoreOK, RequestsOK, RequestOK, Jobs
    <3> QED  BY <1>1, <2>2, <3>2, <3>3, <3>4 DEF Needed, Headless
  <2> QED  BY <2>1, <2>2 DEF OwnerActing
<1>2. TypeInv /\ RowsIntegrity /\ [Next]_vars
        => [\A t \in TeamIds : Headless(t) /\ ~OwnerActing(t) => Headless(t)' /\ ~OwnerActing(t)']_vars
  BY <1>1 DEF TypeInv, CoreOK
<1> QED  BY <1>2, TypeCorrect, RowsSafe, PTL DEF Spec, HeadlessTeamIsStuck

=============================================================================
