------------------------ MODULE TeamDirectoryProofs ------------------------
(* TeamService implements TeamDirectory, for any users, teams, names, number  *)
(* of requests, set of endpoints, with or without Redis and under any faults. *)
EXTENDS TeamServiceProofs

-----------------------------------------------------------------------------
(* Nothing is answered before the end.                                        *)

SilentInv == \A r \in Requests : pc[r] # "done" => answer[r] = None

\* A move keeps a request silent or ends it.
LEMMA ServerSilent ==
  ASSUME CoreOK, SilentInv, NEW r \in Requests, Handle(r) \/ Serve(r) \/ DbFails(r)
  PROVE  pc'[r] # "done" => answer'[r] = None
<1>0. RequestsOK /\ FlagsOK /\ (pc[r] # "done" => answer[r] = None)
  BY DEF CoreOK, SilentInv
<1> USE <1>0 DEF RequestsOK, FlagsOK, Goto, Answer
<1>1. CASE Handle(r)
  BY <1>1 DEF Handle, HandleCreateTeam, HandleGetTeamByID, HandleGetTeamsByUserID, HandleUpdateTeam,
     HandleDeleteTeam, HandleAddMember, HandleRemoveMember, HandleUpdateMemberRole,
     Malformed, Begin, Refuse, Receive
<1>2. CASE DbFails(r)  BY <1>2 DEF DbFails
<1>3. CASE Check(r)  BY <1>3, CheckMoves
<1>4. CASE Write(r)  BY <1>4, WriteMoves DEF Committed, Rejected
<1>5. CASE LookupTeam(r) \/ SelectTeam(r) \/ SelectMembers(r) \/ FillTeam(r)
  BY <1>5 DEF LookupTeam, SelectTeam, SelectMembers, FillTeam, Found
<1>6. CASE LookupList(r) \/ SelectList(r) \/ FillList(r)
  BY <1>6 DEF LookupList, SelectList, FillList
<1>7. CASE Evict(r) \/ PublishEvent(r) \/ Respond(r)
  BY <1>7 DEF Evict, PublishEvent, Respond
<1> QED  BY <1>1, <1>2, <1>3, <1>4, <1>5, <1>6, <1>7 DEF Serve, Check, Write

LEMMA NextSilent ==
  ASSUME CoreOK, SilentInv, [Next]_vars  PROVE SilentInv'
<1> USE DEF SilentInv
<1>1. CASE UNCHANGED vars  BY <1>1 DEF vars
<1>2. ASSUME NEW r \in Requests, Handle(r) \/ Serve(r) \/ DbFails(r)  PROVE SilentInv'
  <2>1. ASSUME NEW q \in Requests, q # r  PROVE (pc[q] # "done" => answer[q] = None)'
    BY <1>2, <2>1, OthersUntouched
  <2> QED  BY <1>2, <2>1, ServerSilent
<1>3. CASE CacheStep  BY <1>3 DEF CacheStep, ExpireTeam, ExpireList
<1>4. CASE CrashStep  BY <1>4 DEF CrashStep, Crash
<1> QED  BY <1>1, <1>2, <1>3, <1>4 DEF Next, ServerStep

-----------------------------------------------------------------------------
(* What a step of one request does to the abstract state.                     *)

Acts(r) == Handle(r) \/ Serve(r) \/ DbFails(r)

LEMMA SameJobs == Jobs = Directory!Jobs
  BY DEF Jobs, AllOps, Roles, Directory!Jobs, Directory!Operations, Directory!Reads, Directory!Roles

\* The abstract request is replaced, the others stay.
LEMMA OneMoves ==
  ASSUME CoreOK, NEW r \in Requests, Acts(r)
  PROVE  Directory!Moves(r, Directory!Entry(job'[r], Stage(pc'[r]), effect'[r], answer'[r]))
<1>1. \A q \in Requests : q # r =>
        /\ pc'[q] = pc[q] /\ job'[q] = job[q] /\ answer'[q] = answer[q] /\ effect'[q] = effect[q]
  BY OthersUntouched DEF Acts
<1> QED  BY <1>1 DEF Directory!Moves, Directory!Entry

\* A step the abstract directory does not see.
LEMMA Stutters ==
  ASSUME CoreOK, NEW r \in Requests, Acts(r), UNCHANGED <<teamName, role, issued>>,
         job'[r] = job[r], Stage(pc'[r]) = Stage(pc[r]), effect'[r] = effect[r], answer'[r] = answer[r]
  PROVE  UNCHANGED Directory!vars
<1>1. \A q \in Requests :
        /\ Stage(pc'[q]) = Stage(pc[q]) /\ job'[q] = job[q] /\ answer'[q] = answer[q] /\ effect'[q] = effect[q]
  BY OthersUntouched DEF Acts
<1> QED  BY <1>1 DEF Directory!vars

\* The abstract request of r after a step, spelled out.
LEMMA MovesTo ==
  ASSUME CoreOK, NEW r \in Requests, Acts(r), NEW j, NEW st, NEW m, NEW a,
         job'[r] = j, Stage(pc'[r]) = st, effect'[r] = m, answer'[r] = a
  PROVE  Directory!Moves(r, Directory!Entry(j, st, m, a))
  BY OneMoves DEF Directory!Moves, Directory!Entry

\* A request that is turned down before its write.
LEMMA Refused ==
  ASSUME CoreOK, NEW r \in Requests, Acts(r), UNCHANGED <<teamName, role, issued>>,
         Stage(pc[r]) \in {"asked", "granted"}, job'[r] = job[r], pc'[r] = "done",
         effect'[r] = FALSE, answer'[r] \in Directory!Refusals
  PROVE  Directory!Refuse(r)
<1>1. Stage(pc'[r]) = "answered"  BY DEF Stage
<1>2. Directory!Moves(r, Directory!Entry(job[r], "answered", FALSE, answer'[r]))
  BY <1>1, MovesTo DEF Directory!Moves, Directory!Entry
<1>3. Directory!At(r, "asked") \/ Directory!At(r, "granted")  BY DEF Directory!At
<1> QED  BY <1>2, <1>3 DEF Directory!Refuse, Directory!Moves, Directory!Entry, Directory!At

-----------------------------------------------------------------------------
(* The steps of a request, one by one.                                        *)

LEMMA Asks ==
  ASSUME CoreOK, EffectInv, SilentInv, NEW r \in Requests, Handle(r),
         NEW j \in Jobs, NEW l \in Labels, Begin(r, j, l),
         \/ Stage(l) = "asked" /\ j.op # "CreateTeam"
         \/ l = "write" /\ j.op = "CreateTeam" /\ j.who \in Managers
  PROVE  Directory!Call(r)
<1>1. /\ pc[r] = "idle" /\ effect[r] = FALSE /\ answer[r] = None
      /\ pc'[r] = l /\ job'[r] = j /\ effect'[r] = FALSE /\ answer'[r] = None
      /\ UNCHANGED <<teamName, role, issued>>
  BY DEF Begin, Receive, Goto, CoreOK, RequestsOK, FlagsOK, EffectInv, EffectOK, SilentInv, tables
<1>2. Directory!Moves(r, Directory!Entry(j, Stage(l), FALSE, None))
  BY <1>1, MovesTo DEF Acts, Directory!Moves, Directory!Entry
<1>3. l = "write" => Stage(l) = "granted"  BY DEF Stage
<1>4. Stage(pc[r]) = "idle"  BY <1>1 DEF Stage
<1> QED  BY <1>1, <1>2, <1>3, <1>4, SameJobs
         DEF Directory!Call, Directory!Moves, Directory!Entry, Directory!At

LEMMA AsksInVain ==
  ASSUME CoreOK, EffectInv, SilentInv, NEW r \in Requests, Handle(r),
         NEW j \in Jobs, NEW a \in Directory!Refusals, Refuse(r, j, a)
  PROVE  Directory!Call(r)
<1>1. /\ pc[r] = "idle" /\ effect[r] = FALSE
      /\ pc'[r] = "done" /\ job'[r] = j /\ effect'[r] = FALSE /\ answer'[r] = a
      /\ UNCHANGED <<teamName, role, issued>>
  BY DEF Refuse, Receive, Answer, CoreOK, RequestsOK, FlagsOK, EffectInv, EffectOK, tables
<1>2. Stage(pc[r]) = "idle" /\ Stage(pc'[r]) = "answered"  BY <1>1 DEF Stage
<1>3. Directory!Moves(r, Directory!Entry(j, "answered", FALSE, a))
  BY <1>1, <1>2, MovesTo DEF Acts, Directory!Moves, Directory!Entry
<1> QED  BY <1>1, <1>2, <1>3, SameJobs
         DEF Directory!Call, Directory!Moves, Directory!Entry, Directory!At

LEMMA HandleCalls ==
  ASSUME CoreOK, EffectInv, SilentInv, NEW r \in Requests, Handle(r)
  PROVE  Directory!Call(r)
<1> USE DEF Job, Jobs, AllOps, Labels, Directory!Refusals, FirstRead, FirstList
<1>0. Users \subseteq UserIds  BY UsersAssumption
<1>1. /\ Stage("lookup") = "asked" /\ Stage("row") = "asked"
      /\ Stage("listLookup") = "asked" /\ Stage("listRows") = "asked"
  BY DEF Stage
<1>m. ASSUME NEW op \in AllOps, NEW who \in Users, Malformed(r, op, who)  PROVE Directory!Call(r)
  BY <1>m, AsksInVain DEF Malformed
<1>2. CASE HandleCreateTeam(r)
  BY <1>2, <1>m, Asks, AsksInVain DEF HandleCreateTeam
<1>3. CASE HandleGetTeamByID(r)
  BY <1>1, <1>3, <1>m, Asks DEF HandleGetTeamByID
<1>4. CASE HandleGetTeamsByUserID(r)
  BY <1>1, <1>4, <1>m, Asks DEF HandleGetTeamsByUserID
<1>5. CASE HandleUpdateTeam(r)
  BY <1>1, <1>5, <1>m, Asks DEF HandleUpdateTeam
<1>6. CASE HandleDeleteTeam(r)
  BY <1>1, <1>6, <1>m, Asks DEF HandleDeleteTeam
<1>7. CASE HandleAddMember(r)
  BY <1>0, <1>1, <1>7, <1>m, Asks, AsksInVain DEF HandleAddMember
<1>8. CASE HandleRemoveMember(r)
  BY <1>1, <1>8, <1>m, Asks DEF HandleRemoveMember
<1>9. CASE HandleUpdateMemberRole(r)
  BY <1>1, <1>9, <1>m, Asks DEF HandleUpdateMemberRole
<1> QED  BY <1>2, <1>3, <1>4, <1>5, <1>6, <1>7, <1>8, <1>9 DEF Handle

LEMMA ReadDone ==
  ASSUME CoreOK, NEW r \in Requests, Acts(r), UNCHANGED <<teamName, role, issued>>,
         Stage(pc[r]) = "asked", job'[r] = job[r], job[r].op \in Directory!Reads,
         pc'[r] = "done", effect'[r] = FALSE, answer'[r] = "OK"
  PROVE  Directory!Read(r)
<1>1. Stage(pc'[r]) = "answered"  BY DEF Stage
<1>2. Directory!Moves(r, Directory!Entry(job[r], "answered", FALSE, "OK"))
  BY <1>1, MovesTo DEF Directory!Moves, Directory!Entry
<1> QED  BY <1>2 DEF Directory!Read, Directory!Moves, Directory!Entry, Directory!At

\* The abstract step of a request that has not been granted or answered.
Unseen(r) == UNCHANGED Directory!vars \/ Directory!Read(r) \/ Directory!Refuse(r)

LEMMA TeamReadSim ==
  ASSUME CoreOK, EffectInv, SilentInv, NEW r \in Requests,
         LookupTeam(r) \/ SelectTeam(r) \/ SelectMembers(r) \/ FillTeam(r)
  PROVE  Unseen(r)
<1>1. /\ pc[r] \in TeamReads /\ effect[r] = FALSE /\ answer[r] = None /\ Acts(r)
      /\ UNCHANGED <<teamName, role, issued, job, effect>>
      /\ pc \in [Requests -> Labels] /\ answer \in [Requests -> Answers \cup {None}]
  BY DEF LookupTeam, SelectTeam, SelectMembers, FillTeam, Reading, tables, TeamReads, Acts, Serve,
     CoreOK, RequestsOK, FlagsOK, EffectInv, EffectOK, SilentInv
<1>2. Stage(pc[r]) = "asked"  BY <1>1 DEF Stage, TeamReads
<1>3. ASSUME NEW l \in {"row", "members", "fill", "role"}, Goto(r, l)  PROVE Unseen(r)
  <2>1. pc'[r] = l /\ answer'[r] = None  BY <1>1, <1>3 DEF Goto
  <2>2. Stage(pc'[r]) = "asked"  BY <2>1 DEF Stage
  <2> QED  BY <1>1, <1>2, <2>1, <2>2, Stutters DEF Unseen
<1>4. ASSUME Answer(r, "NotFound")  PROVE Unseen(r)
  <2>1. pc'[r] = "done" /\ answer'[r] = "NotFound"  BY <1>1, <1>4 DEF Answer
  <2> QED  BY <1>1, <1>2, <2>1, Refused DEF Unseen, Directory!Refusals
<1>5. ASSUME Found(r)  PROVE Unseen(r)
  <2>1. CASE job[r].op = "GetTeamByID"
    <3>1. pc'[r] = "done" /\ answer'[r] = "OK"  BY <1>1, <1>5, <2>1 DEF Found, Answer
    <3> QED  BY <1>1, <1>2, <2>1, <3>1, ReadDone DEF Unseen, Directory!Reads
  <2>2. CASE job[r].op # "GetTeamByID"  BY <1>3, <1>5, <2>2 DEF Found
  <2> QED  BY <2>1, <2>2
<1> QED  BY <1>3, <1>4, <1>5 DEF LookupTeam, SelectTeam, SelectMembers, FillTeam

LEMMA ListReadSim ==
  ASSUME CoreOK, EffectInv, SilentInv, NEW r \in Requests,
         LookupList(r) \/ SelectList(r) \/ FillList(r)
  PROVE  Unseen(r)
<1>1. /\ pc[r] \in ListReads /\ effect[r] = FALSE /\ answer[r] = None /\ Acts(r)
      /\ UNCHANGED <<teamName, role, issued, job, effect>>
      /\ job[r].op = "GetTeamsByUserID"
      /\ pc \in [Requests -> Labels] /\ answer \in [Requests -> Answers \cup {None}]
  BY DEF LookupList, SelectList, FillList, Reading, tables, ListReads, Acts, Serve, PlaceOK,
     CoreOK, RequestsOK, RequestOK, FlagsOK, EffectInv, EffectOK, SilentInv
<1>2. Stage(pc[r]) = "asked"  BY <1>1 DEF Stage, ListReads
<1>3. ASSUME NEW l \in {"listRows", "listFill"}, Goto(r, l)  PROVE Unseen(r)
  <2>1. pc'[r] = l /\ answer'[r] = None  BY <1>1, <1>3 DEF Goto
  <2>2. Stage(pc'[r]) = "asked"  BY <2>1 DEF Stage
  <2> QED  BY <1>1, <1>2, <2>1, <2>2, Stutters DEF Unseen
<1>4. ASSUME Answer(r, "OK")  PROVE Unseen(r)
  <2>1. pc'[r] = "done" /\ answer'[r] = "OK"  BY <1>1, <1>4 DEF Answer
  <2> QED  BY <1>1, <1>2, <2>1, ReadDone DEF Unseen, Directory!Reads
<1> QED  BY <1>3, <1>4 DEF LookupList, SelectList, FillList

\* The role check is the moment of the grant.
LEMMA AuthoriseSim ==
  ASSUME CoreOK, RowsIntegrity, EffectInv, SilentInv, NEW r \in Requests, Check(r), NEW op \in OnTeam,
         NEW l \in {"target", "write"}, Authorise(r, op, Directory!Demands(op), l)
  PROVE  Directory!Grant(r) \/ Directory!Refuse(r)
<1> DEFINE own == role[job[r].team][job[r].who]
<1>1. /\ pc[r] = "role" /\ effect[r] = FALSE /\ answer[r] = None /\ job[r].op = op /\ Acts(r)
      /\ UNCHANGED <<teamName, role, issued, job, effect>>
      /\ pc \in [Requests -> Labels] /\ answer \in [Requests -> Answers \cup {None}]
  BY DEF Authorise, Reading, tables, Acts, Serve, Check,
     CoreOK, RequestsOK, FlagsOK, EffectInv, EffectOK, SilentInv
<1>2. Stage(pc[r]) = "asked"  BY <1>1 DEF Stage
<1>3. CASE own \in Directory!Demands(op) /\ Goto(r, l)
  <2>1. pc'[r] = l /\ answer'[r] = None  BY <1>1, <1>3 DEF Goto
  <2>2. Stage(pc'[r]) = "granted"  BY <2>1 DEF Stage
  <2>3. Directory!Moves(r, Directory!Entry(job[r], "granted", FALSE, None))
    BY <1>1, <2>1, <2>2, MovesTo DEF Directory!Moves, Directory!Entry
  <2>4. /\ job[r].team \in TeamIds /\ job[r].who \in UserIds
    BY <1>1, UsersAssumption DEF CoreOK, RequestsOK, RequestOK, JobOK, Jobs
  <2>5. own # None
    BY <1>3, NoneAssumption DEF Directory!Demands, Roles
  <2>6. Exists(job[r].team)  BY <2>4, <2>5 DEF RowsIntegrity
  <2> QED  BY <1>1, <1>2, <1>3, <2>3, <2>4, <2>6
           DEF Directory!Grant, Directory!HoldsRole, Directory!Exists, Exists,
               Directory!Moves, Directory!Entry, Directory!At
<1>4. CASE Answer(r, "Forbidden")
  <2>1. pc'[r] = "done" /\ answer'[r] = "Forbidden"  BY <1>1, <1>4 DEF Answer
  <2> QED  BY <1>1, <1>2, <2>1, Refused DEF Directory!Refusals
<1> QED  BY <1>3, <1>4 DEF Authorise

LEMMA TargetSim ==
  ASSUME CoreOK, EffectInv, SilentInv, NEW r \in Requests, UserExists(r) \/ CheckTargetRole(r)
  PROVE  Unseen(r)
<1>1. /\ pc[r] = "target" /\ effect[r] = FALSE /\ answer[r] = None /\ Acts(r)
      /\ UNCHANGED <<teamName, role, issued, job, effect>>
      /\ pc \in [Requests -> Labels] /\ answer \in [Requests -> Answers \cup {None}]
  BY DEF UserExists, CheckTargetRole, Reading, tables, Acts, Serve,
     CoreOK, RequestsOK, FlagsOK, EffectInv, EffectOK, SilentInv
<1>2. Stage(pc[r]) = "granted"  BY <1>1 DEF Stage
<1>3. ASSUME Goto(r, "write")  PROVE Unseen(r)
  <2>1. pc'[r] = "write" /\ answer'[r] = None  BY <1>1, <1>3 DEF Goto
  <2>2. Stage(pc'[r]) = "granted"  BY <2>1 DEF Stage
  <2> QED  BY <1>1, <1>2, <2>1, <2>2, Stutters DEF Unseen
<1>4. ASSUME NEW a \in {"NotFound", "Forbidden"}, Answer(r, a)  PROVE Unseen(r)
  <2>1. pc'[r] = "done" /\ answer'[r] = a  BY <1>1, <1>4 DEF Answer
  <2> QED  BY <1>1, <1>2, <2>1, Refused DEF Unseen, Directory!Refusals
<1> QED  BY <1>3, <1>4 DEF UserExists, CheckTargetRole

LEMMA CheckSim ==
  ASSUME CoreOK, RowsIntegrity, EffectInv, SilentInv, NEW r \in Requests, Check(r)
  PROVE  Unseen(r) \/ Directory!Grant(r)
<1> USE DEF Directory!Demands, Privileged, OnTeam, OnTarget
<1>1. CASE AuthoriseUpdateTeam(r)  BY <1>1, AuthoriseSim DEF AuthoriseUpdateTeam, Unseen
<1>2. CASE AuthoriseDeleteTeam(r)  BY <1>2, AuthoriseSim DEF AuthoriseDeleteTeam, Unseen
<1>3. CASE AuthoriseAddMember(r)  BY <1>3, AuthoriseSim DEF AuthoriseAddMember, Unseen
<1>4. CASE AuthoriseRemoveMember(r)  BY <1>4, AuthoriseSim DEF AuthoriseRemoveMember, Unseen
<1>5. CASE AuthoriseUpdateMemberRole(r)  BY <1>5, AuthoriseSim DEF AuthoriseUpdateMemberRole, Unseen
<1> QED  BY <1>1, <1>2, <1>3, <1>4, <1>5, TargetSim DEF Check

-----------------------------------------------------------------------------
(* Writes: the one moment at which the request is made.                       *)

\* Committed, with the job as the write leaves it: the abstract request is made.
LEMMA CommittedIsMade ==
  ASSUME CoreOK, SilentInv, NEW r \in Requests, Write(r), Committed(r), NEW j, job'[r] = j
  PROVE  Directory!Made(r, j)
<1>1. pc[r] = "write" /\ answer[r] = None /\ effect'[r] = TRUE /\ Acts(r)
      /\ pc \in [Requests -> Labels] /\ answer \in [Requests -> Answers \cup {None}]
  BY WriteMoves DEF Committed, CoreOK, RequestsOK, FlagsOK, SilentInv, Acts, Serve, Write
<1>2. CASE Goto(r, "evict")
  <2>1. pc'[r] = "evict" /\ answer'[r] = None  BY <1>1, <1>2 DEF Goto
  <2>2. Stage(pc'[r]) = "made"  BY <2>1 DEF Stage
  <2>3. Directory!Moves(r, Directory!Entry(j, "made", TRUE, None))
    BY <1>1, <2>1, <2>2, MovesTo, ZenonT(40) DEF Directory!Moves, Directory!Entry
  <2> QED  BY <2>3 DEF Directory!Made
<1>3. ASSUME NEW a \in {"OK", "Internal"}, Answer(r, a)  PROVE Directory!Made(r, j)
  <2>1. pc'[r] = "done" /\ answer'[r] = a  BY <1>1, <1>3 DEF Answer
  <2>2. Stage(pc'[r]) = "answered"  BY <2>1 DEF Stage
  <2>3. Directory!Moves(r, Directory!Entry(j, "answered", TRUE, a))
    BY <1>1, <2>1, <2>2, MovesTo, ZenonT(40) DEF Directory!Moves, Directory!Entry
  <2> QED  BY <2>3 DEF Directory!Made
<1> QED  BY <1>2, <1>3 DEF Committed

LEMMA RejectedIsRefused ==
  ASSUME CoreOK, EffectInv, NEW r \in Requests, Write(r),
         NEW a \in {"Conflict", "Internal"}, Rejected(r, a)
  PROVE  Directory!Refuse(r)
<1>1. /\ pc[r] = "write" /\ effect'[r] = FALSE /\ job'[r] = job[r] /\ Acts(r)
      /\ UNCHANGED <<teamName, role, issued>>
      /\ pc'[r] = "done" /\ answer'[r] = a
  BY WriteMoves DEF Rejected, Answer, tables, CoreOK, RequestsOK, FlagsOK, EffectInv, EffectOK,
     Acts, Serve, Write
<1>2. Stage(pc[r]) = "granted"  BY <1>1 DEF Stage
<1> QED  BY <1>1, <1>2, Refused DEF Directory!Refusals

\* A write that changes an existing team is one of the directory's.
LEMMA ChangeIsMade ==
  ASSUME CoreOK, SilentInv, NEW r \in Requests, Write(r), Committed(r), job' = job, issued' = issued,
         \/ Directory!Rename(job[r]) \/ Directory!Delete(job[r]) \/ Directory!Add(job[r])
         \/ Directory!Remove(job[r]) \/ Directory!ChangeRole(job[r])
  PROVE  Directory!Make(r)
<1>1. pc[r] = "write"  BY WriteMoves
<1>2. Stage(pc[r]) = "granted"  BY <1>1 DEF Stage
<1>3. Directory!Made(r, job[r])  BY CommittedIsMade
<1> QED  BY <1>2, <1>3 DEF Directory!Make, Directory!At, Directory!Made, Directory!Moves, Directory!Entry,
     Directory!Rename, Directory!Delete, Directory!Add, Directory!Remove, Directory!ChangeRole,
     Directory!SetRole, Directory!Exists, Directory!Member

LEMMA CreateSim ==
  ASSUME CoreOK, RowsIntegrity, EffectInv, SilentInv, NEW r \in Requests, CreateTeam(r)
  PROVE  Directory!Make(r)
<1> DEFINE j == job[r]
<1>1. PICK t \in TeamIds \ issued :
          /\ issued' = issued \cup {t}
          /\ teamName' = [teamName EXCEPT ![t] = j.name]
          /\ role' = [role EXCEPT ![t][j.who] = "main_manager"]
          /\ job' = [job EXCEPT ![r].team = t]
  BY DEF CreateTeam
<1>2. /\ pc[r] = "write" /\ j \in Jobs /\ j.op = "CreateTeam" /\ j.who \in UserIds /\ Write(r)
      /\ Committed(r) /\ TablesOK /\ job \in [Requests -> Jobs \cup {None}]
  BY UsersAssumption DEF CreateTeam, Writing, CoreOK, RequestsOK, RequestOK, Jobs, Write
<1>3. role[t] = NoMembers
  <2>1. \A u \in UserIds : role[t][u] = None  BY <1>1 DEF RowsIntegrity
  <2> QED  BY <1>2, <2>1 DEF TablesOK, NoMembers
<1>4. role'[t] = [u \in UserIds |-> IF u = j.who THEN "main_manager" ELSE None]
  BY <1>1, <1>2, <1>3 DEF TablesOK, NoMembers
<1>5. /\ teamName'[t] = j.name
      /\ \A s \in TeamIds : s # t => teamName'[s] = teamName[s] /\ role'[s] = role[s]
  BY <1>1, <1>2 DEF TablesOK
<1>6. job'[r] = [j EXCEPT !.team = t]  BY <1>1, <1>2
<1>7. Directory!Made(r, [j EXCEPT !.team = t])  BY <1>2, <1>6, CommittedIsMade
<1>8. Directory!Create(r, j)
  BY <1>1, <1>2, <1>4, <1>5, <1>7, ZenonT(40) DEF Directory!Create, Directory!Founded
<1>9. Stage(pc[r]) = "granted"  BY <1>2 DEF Stage
<1> QED  BY <1>8, <1>9, ZenonT(40) DEF Directory!Make, Directory!At, Directory!Create, Directory!Made,
     Directory!Moves, Directory!Entry

\* The other writes either change the tables as the directory does, or nothing.
LEMMA ChangeSim ==
  ASSUME CoreOK, RowsIntegrity, EffectInv, SilentInv, NEW r \in Requests, Write(r), ~CreateTeam(r)
  PROVE  Directory!Make(r) \/ Directory!Refuse(r)
<1> DEFINE j == job[r]  t == job[r].team  u == job[r].target
<1>1. /\ pc[r] = "write" /\ j \in Jobs /\ JobOK(j) /\ TablesOK
  BY WriteMoves DEF CoreOK, RequestsOK, RequestOK
<1>r. ASSUME NEW a \in {"Conflict", "Internal"}, Rejected(r, a)  PROVE Directory!Refuse(r)
  BY <1>r, RejectedIsRefused
<1>c. ASSUME Committed(r), UNCHANGED <<issued, job>>,
             \/ Directory!Rename(job[r]) \/ Directory!Delete(job[r]) \/ Directory!Add(job[r])
             \/ Directory!Remove(job[r]) \/ Directory!ChangeRole(job[r])
      PROVE  Directory!Make(r)
  BY <1>c, ChangeIsMade
<1> USE DEF Writing, TablesOK, JobOK, OnTeam, OnTarget, Directory!Exists, Exists
<1>2. CASE UpdateTeam(r)
  <2>1. CASE Rejected(r, "Internal")  BY <1>r, <2>1
  <2>2. CASE /\ teamName[t] \notin {None, j.name} /\ teamName' = [teamName EXCEPT ![t] = j.name]
             /\ UNCHANGED <<role, issued, job>> /\ Committed(r)
    <3>1. Directory!Rename(j)  BY <1>1, <1>2, <2>2 DEF Directory!Rename, UpdateTeam
    <3> QED  BY <1>c, <2>2, <3>1
  <2> QED  BY <1>2, <2>1, <2>2 DEF UpdateTeam
<1>3. CASE DeleteTeam(r)
  <2>1. CASE Rejected(r, "Internal")  BY <1>r, <2>1
  <2>2. CASE /\ Exists(t) /\ teamName' = [teamName EXCEPT ![t] = None]
             /\ role' = [role EXCEPT ![t] = NoMembers]
             /\ UNCHANGED <<issued, job>> /\ Committed(r)
    <3>1. Directory!Delete(j)
      BY <1>1, <1>3, <2>2 DEF Directory!Delete, Directory!Nothing, NoMembers, DeleteTeam
    <3> QED  BY <1>c, <2>2, <3>1
  <2> QED  BY <1>3, <2>1, <2>2 DEF DeleteTeam
<1>4. CASE AddMember(r)
  <2>1. CASE \E a \in {"Conflict", "Internal"} : Rejected(r, a)  BY <1>r, <2>1
  <2>2. CASE /\ Exists(t) /\ u \in Users /\ role[t][u] = None
             /\ role' = [role EXCEPT ![t][u] = "member"]
             /\ UNCHANGED <<teamName, issued, job>> /\ Committed(r)
    <3>1. Directory!Add(j)
      BY <1>1, <1>4, <2>2 DEF Directory!Add, Directory!Member, Directory!SetRole, AddMember
    <3> QED  BY <1>c, <2>2, <3>1
  <2> QED  BY <1>4, <2>1, <2>2 DEF AddMember
<1>5. CASE RemoveMember(r)
  <2>1. CASE Rejected(r, "Internal")  BY <1>r, <2>1
  <2>2. CASE /\ role[t][u] # None /\ role' = [role EXCEPT ![t][u] = None]
             /\ UNCHANGED <<teamName, issued, job>> /\ Committed(r)
    <3>1. j.op = "RemoveMember" /\ t \in TeamIds /\ u \in UserIds  BY <1>1, <1>5 DEF RemoveMember
    <3>2. Exists(t)  BY <2>2, <3>1 DEF RowsIntegrity
    <3>3. Directory!Remove(j)
      BY <1>1, <2>2, <3>1, <3>2 DEF Directory!Remove, Directory!Member, Directory!SetRole
    <3> QED  BY <1>c, <2>2, <3>3
  <2> QED  BY <1>5, <2>1, <2>2 DEF RemoveMember
<1>6. CASE UpdateMemberRole(r)
  <2>1. CASE Rejected(r, "Internal")  BY <1>r, <2>1
  <2>2. CASE /\ role[t][u] \notin {None, j.newRole} /\ role' = [role EXCEPT ![t][u] = j.newRole]
             /\ UNCHANGED <<teamName, issued, job>> /\ Committed(r)
    <3>1. j.op = "UpdateMemberRole" /\ t \in TeamIds /\ u \in UserIds  BY <1>1, <1>6 DEF UpdateMemberRole
    <3>2. Exists(t)  BY <2>2, <3>1 DEF RowsIntegrity
    <3>3. Directory!ChangeRole(j)
      BY <1>1, <2>2, <3>1, <3>2 DEF Directory!ChangeRole, Directory!Member, Directory!SetRole
    <3> QED  BY <1>c, <2>2, <3>3
  <2> QED  BY <1>6, <2>1, <2>2 DEF UpdateMemberRole
<1> QED  BY <1>2, <1>3, <1>4, <1>5, <1>6 DEF Write

-----------------------------------------------------------------------------
(* After the write, and the environment.                                      *)

LEMMA EvictSim ==
  ASSUME CoreOK, NEW r \in Requests, Evict(r)  PROVE UNCHANGED Directory!vars
<1>1. /\ pc[r] = "evict" /\ pc'[r] = "publish" /\ Acts(r)
      /\ UNCHANGED <<teamName, role, issued, job, effect, answer>>
  BY DEF Evict, Goto, tables, Acts, Serve, CoreOK, RequestsOK
<1>2. Stage(pc[r]) = "made" /\ Stage(pc'[r]) = "made"  BY <1>1 DEF Stage
<1> QED  BY <1>1, <1>2, Stutters

LEMMA PublishSim ==
  ASSUME CoreOK, EffectInv, NEW r \in Requests, PublishEvent(r)  PROVE Directory!Answer(r)
<1>1. /\ pc[r] = "publish" /\ pc'[r] = "done" /\ answer'[r] = "OK" /\ effect'[r] = TRUE /\ Acts(r)
      /\ UNCHANGED <<teamName, role, issued, job>>
  BY DEF PublishEvent, Answer, tables, Acts, Serve, CoreOK, RequestsOK, FlagsOK, EffectInv, EffectOK
<1>2. Stage(pc[r]) = "made" /\ Stage(pc'[r]) = "answered"  BY <1>1 DEF Stage
<1>3. Directory!Moves(r, Directory!Entry(job[r], "answered", TRUE, "OK"))
  BY <1>1, <1>2, MovesTo DEF Directory!Moves, Directory!Entry
<1> QED  BY <1>1, <1>2, <1>3
         DEF Directory!Answer, Directory!Moves, Directory!Entry, Directory!At

LEMMA RespondSim ==
  ASSUME CoreOK, NEW r \in Requests, Respond(r)  PROVE Directory!Return(r)
<1>1. /\ pc[r] = "done" /\ pc'[r] = "idle" /\ answer'[r] = None /\ effect'[r] = FALSE /\ job'[r] = None
      /\ UNCHANGED <<teamName, role, issued>> /\ Acts(r)
  BY DEF Respond, tables, Acts, Serve, CoreOK, RequestsOK, FlagsOK
<1>2. Stage(pc[r]) = "answered" /\ Stage(pc'[r]) = "idle"  BY <1>1 DEF Stage
<1>3. Directory!Moves(r, Directory!Idle)
  BY <1>1, <1>2, MovesTo DEF Directory!Moves, Directory!Entry, Directory!Idle
<1> QED  BY <1>1, <1>2, <1>3 DEF Directory!Return, Directory!At

LEMMA DbFailsSim ==
  ASSUME CoreOK, EffectInv, NEW r \in Requests, DbFails(r)  PROVE Directory!Refuse(r)
<1>1. /\ pc[r] \in {"row", "members", "listRows", "role", "target", "write"}
      /\ pc'[r] = "done" /\ answer'[r] = "Internal" /\ effect'[r] = FALSE /\ Acts(r)
      /\ UNCHANGED <<teamName, role, issued, job>>
  BY DEF DbFails, Answer, Reading, tables, Acts, CoreOK, RequestsOK, FlagsOK, EffectInv, EffectOK
<1>2. Stage(pc[r]) \in {"asked", "granted"}  BY <1>1 DEF Stage
<1> QED  BY <1>1, <1>2, Refused DEF Directory!Refusals

LEMMA CrashSim ==
  ASSUME Crash  PROVE Directory!Lose
<1>1. Stage("idle") = "idle"  BY DEF Stage
<1> QED  BY <1>1 DEF Crash, tables, Directory!Lose, Directory!Idle, Directory!Entry

-----------------------------------------------------------------------------
LEMMA NextSim ==
  ASSUME CoreOK, RowsIntegrity, EffectInv, SilentInv, [Next]_vars
  PROVE  [Directory!Next]_(Directory!vars)
<1>1. CASE UNCHANGED vars  BY <1>1 DEF vars, Directory!vars
<1>2. ASSUME NEW r \in Requests, Handle(r) \/ Serve(r) \/ DbFails(r)
      PROVE  [Directory!Next]_(Directory!vars)
  <2>1. CASE Handle(r)  BY <2>1, HandleCalls DEF Directory!Next
  <2>2. CASE DbFails(r)  BY <2>2, DbFailsSim DEF Directory!Next
  <2>3. CASE Check(r)  BY <2>3, CheckSim DEF Unseen, Directory!Next
  <2>4. CASE Write(r)  BY <2>4, CreateSim, ChangeSim DEF Directory!Next
  <2>5. CASE LookupTeam(r) \/ SelectTeam(r) \/ SelectMembers(r) \/ FillTeam(r)
    BY <2>5, TeamReadSim DEF Unseen, Directory!Next
  <2>6. CASE LookupList(r) \/ SelectList(r) \/ FillList(r)
    BY <2>6, ListReadSim DEF Unseen, Directory!Next
  <2>7. CASE Evict(r) \/ PublishEvent(r) \/ Respond(r)
    BY <2>7, EvictSim, PublishSim, RespondSim DEF Directory!Next
  <2> QED  BY <1>2, <2>1, <2>2, <2>3, <2>4, <2>5, <2>6, <2>7 DEF Serve, Check, Write
<1>3. CASE CacheStep
  BY <1>3 DEF CacheStep, ExpireTeam, ExpireList, tables, Directory!vars
<1>4. CASE CrashStep  BY <1>4, CrashSim DEF CrashStep, Directory!Next
<1> QED  BY <1>1, <1>2, <1>3, <1>4 DEF Next, ServerStep

\* The statements, cache fills and evictions of all requests, in whatever order
\* they interleave and wherever they fail, amount to a directory in which every
\* request is granted and made at one moment each, and is told what became of it.
THEOREM DirectoryTheorem == Spec => ImplementsDirectory
<1>1. Init => EffectInv /\ SilentInv  BY DEF Init, EffectInv, EffectOK, SilentInv
<1>2. TypeInv /\ EffectInv /\ SilentInv /\ [Next]_vars => EffectInv' /\ SilentInv'
  BY NextEffect, NextSilent DEF TypeInv, CoreOK
<1>3. Init => Directory!Init
  <2>1. Stage("idle") = "idle"  BY DEF Stage
  <2> QED  BY <2>1 DEF Init, Directory!Init, Directory!Nothing, Directory!Idle, Directory!Entry, NoMembers
<1>4. TypeInv /\ RowsIntegrity /\ EffectInv /\ SilentInv /\ [Next]_vars => [Directory!Next]_(Directory!vars)
  BY NextSim DEF TypeInv, CoreOK
<1> QED  BY <1>1, <1>2, <1>3, <1>4, TypeCorrect, RowsSafe, PTL DEF Spec, ImplementsDirectory, Directory!Spec
=============================================================================
