--------------------------- MODULE TeamCacheProofs ---------------------------
(* Theorems about TeamService as one client sees it, who waits for each answer *)
(* before the next request, for any users, teams, names and endpoints: as long *)
(* as nothing fails the caches agree with the tables between his requests, and *)
(* whatever fails a main_manager keeps his role.                               *)
EXTENDS TeamServiceProofs

OneAtATime == \A q, r \in Requests : q = r

-----------------------------------------------------------------------------
(* Between a write and its eviction the keys it is about to evict may be      *)
(* wrong, and no others; what a request has read for a key is still there     *)
(* when it is stored.                                                         *)

TeamPending(t) == \E r \in Requests : pc[r] = "evict" /\ job[r].team = t
ListPending(u) == \E r \in Requests : pc[r] = "evict" /\ u \in StaleLists(job[r])

TeamRight(t) == teamCache[t] \in {None, TeamRow(t)}
ListRight(u) == listCache[u] # None => \A t \in TeamIds :
    /\ listCache[u][t] # None => t \in issued
    /\ Exists(t) => (listCache[u][t] # None <=> role[t][u] # None)

LoadedRight(r) ==
    LET j == job[r] IN
    /\ pc[r] = "members" => Exists(j.team) /\ loaded[r] = [name |-> teamName[j.team], roles |-> NoMembers]
    /\ pc[r] = "fill" => Redis /\ loaded[r] = TeamRow(j.team)
    /\ pc[r] = "listFill" => Redis /\ loaded[r] = ListRows(j.target)

Unused == (\A t \in TeamIds : teamCache[t] = None) /\ (\A u \in UserIds : listCache[u] = None)

CacheInv ==
    /\ Redis \/ Unused
    /\ \A t \in TeamIds : TeamPending(t) \/ TeamRight(t)
    /\ \A u \in UserIds : ListPending(u) \/ ListRight(u)
    /\ \A r \in Requests : LoadedRight(r)

-----------------------------------------------------------------------------
LEMMA InitCache == Init => CacheInv
BY DEF Init, CacheInv, Unused, TeamRight, ListRight, LoadedRight

\* A move that neither writes, nor stores, nor evicts.
LEMMA QuietMove ==
  ASSUME OneAtATime, CacheInv, NEW r \in Requests,
         UNCHANGED <<teamName, role, issued, teamCache, listCache>>, pc[r] # "evict", LoadedRight(r)'
  PROVE  CacheInv'
<1>1. \A q \in Requests : q = r  BY DEF OneAtATime
<1>2. /\ \A t \in TeamIds : TeamRight(t)'
      /\ \A u \in UserIds : ListRight(u)'
  BY <1>1 DEF CacheInv, TeamPending, ListPending, TeamRight, TeamRow, ListRight, Exists
<1> QED  BY <1>1, <1>2 DEF CacheInv, Unused

LEMMA HandleCache ==
  ASSUME OneAtATime, TypeInv, CacheInv, NEW r \in Requests, Handle(r)  PROVE CacheInv'
<1>0. pc \in [Requests -> Labels] /\ job \in [Requests -> Jobs \cup {None}]  BY DEF TypeInv, RequestsOK
<1>1. ASSUME NEW j, NEW l, Begin(r, j, l),
             l \in {FirstRead, FirstList} \/ (l = "write" /\ j.op = "CreateTeam")
      PROVE  CacheInv'
  <2>1. pc[r] = "idle" /\ pc'[r] = l /\ job'[r] = j /\ UNCHANGED <<tables, caches>>
    BY <1>0, <1>1 DEF Begin, Receive, Goto
  <2>2. LoadedRight(r)'  BY <1>1, <2>1 DEF LoadedRight, FirstRead, FirstList
  <2> QED  BY <2>1, <2>2, QuietMove DEF tables, caches
<1>2. ASSUME NEW j, NEW a, Refuse(r, j, a)  PROVE CacheInv'
  <2>1. pc[r] = "idle" /\ pc'[r] = "done" /\ UNCHANGED <<tables, caches>>
    BY <1>0, <1>2 DEF Refuse, Receive, Answer
  <2>2. LoadedRight(r)'  BY <2>1 DEF LoadedRight
  <2> QED  BY <2>1, <2>2, QuietMove DEF tables, caches
<1> QED
  BY <1>1, <1>2 DEF Handle, HandleCreateTeam, HandleGetTeamByID, HandleGetTeamsByUserID, HandleUpdateTeam,
     HandleDeleteTeam, HandleAddMember, HandleRemoveMember, HandleUpdateMemberRole, Malformed, Job

\* What is read is what is there, and what is stored is what was read.
LEMMA ReadCache ==
  ASSUME OneAtATime, TypeInv, RowsIntegrity, CacheInv, NEW r \in Requests,
         \/ LookupTeam(r) \/ SelectTeam(r) \/ SelectMembers(r) \/ FillTeam(r)
         \/ LookupList(r) \/ SelectList(r) \/ FillList(r)
  PROVE  CacheInv'
<1>0. /\ CoreOK /\ LoadedRight(r) /\ RequestOK(r) /\ \A q \in Requests : q = r
      /\ pc[r] \in TeamReads \cup ListReads
      /\ pc[r] \in TeamReads => job[r].op # "CreateTeam" /\ job[r].team \in TeamIds
      /\ pc[r] \in ListReads => job[r].target \in UserIds
  BY DEF TypeInv, CacheInv, CoreOK, RequestsOK, RequestOK, OneAtATime, PlaceOK, JobOK, OnTeam, OnTarget,
     TeamReads, ListReads, LookupTeam, SelectTeam, SelectMembers, FillTeam, LookupList, SelectList, FillList
<1>1. /\ \A t \in TeamIds : TeamRight(t)
      /\ \A u \in UserIds : ListRight(u)
  BY <1>0 DEF CacheInv, TeamPending, ListPending, TeamReads, ListReads
<1>2. UNCHANGED <<teamName, role, issued, job>>
  BY DEF Reading, tables, LookupTeam, SelectTeam, SelectMembers, FillTeam, LookupList, SelectList, FillList
<1> USE <1>0, <1>1, <1>2 DEF CoreOK, RequestsOK, Goto, Answer, Found, caches, TeamReads, ListReads
<1>3. CASE LookupTeam(r) \/ LookupList(r)
  <2>1. LoadedRight(r)'  BY <1>3 DEF LookupTeam, LookupList, LoadedRight
  <2> QED  BY <1>3, <2>1, QuietMove DEF LookupTeam, LookupList
<1>4. CASE SelectTeam(r)
  <2>1. LoadedRight(r)'  BY <1>4 DEF SelectTeam, LoadedRight, Exists
  <2> QED  BY <1>4, <2>1, QuietMove DEF SelectTeam
<1>5. CASE SelectMembers(r)
  <2>1. LoadedRight(r)'  BY <1>5 DEF SelectMembers, LoadedRight, Exists, TeamRow
  <2> QED  BY <1>5, <2>1, QuietMove DEF SelectMembers
<1>6. CASE SelectList(r)
  <2>1. LoadedRight(r)'  BY <1>6 DEF SelectList, LoadedRight, ListRows
  <2> QED  BY <1>6, <2>1, QuietMove DEF SelectList
<1>7. CASE FillTeam(r)
  <2>1. /\ teamCache' = [teamCache EXCEPT ![job[r].team] = TeamRow(job[r].team)] \/ teamCache' = teamCache
        /\ UNCHANGED listCache /\ Redis
    BY <1>7 DEF FillTeam, LoadedRight
  <2>2. \A t \in TeamIds : TeamRight(t)'  BY <2>1 DEF CachesOK, TeamRight, TeamRow, Exists
  <2>3. \A u \in UserIds : ListRight(u)'  BY <2>1 DEF ListRight, Exists
  <2>4. LoadedRight(r)'  BY <1>7 DEF FillTeam, LoadedRight
  <2> QED  BY <2>1, <2>2, <2>3, <2>4 DEF CacheInv
<1>8. CASE FillList(r)
  <2>1. /\ \/ listCache' = [listCache EXCEPT ![job[r].target] = ListRows(job[r].target)]
           \/ listCache' = listCache
        /\ UNCHANGED teamCache /\ Redis
    BY <1>8 DEF FillList, LoadedRight
  <2>2. \A t \in TeamIds : TeamRight(t)'  BY <2>1 DEF TeamRight, TeamRow, Exists
  <2>3. \A t \in TeamIds, u \in UserIds :
          /\ ListRows(u)[t] # None => t \in issued
          /\ Exists(t) => (ListRows(u)[t] # None <=> role[t][u] # None)
    BY DEF ListRows, RowsIntegrity, Exists
  <2>4. ASSUME NEW u \in UserIds  PROVE ListRight(u)'
    <3>1. CASE listCache'[u] = listCache[u]  BY <3>1 DEF ListRight, Exists
    <3>2. CASE listCache'[u] = ListRows(u)  BY <2>3, <3>2 DEF ListRight, Exists
    <3> QED  BY <2>1, <3>1, <3>2 DEF CachesOK
  <2>5. LoadedRight(r)'  BY <1>8 DEF FillList, LoadedRight
  <2> QED  BY <2>1, <2>2, <2>4, <2>5 DEF CacheInv
<1> QED  BY <1>3, <1>4, <1>5, <1>6, <1>7, <1>8

LEMMA CheckCache ==
  ASSUME OneAtATime, TypeInv, CacheInv, NEW r \in Requests, Check(r)  PROVE CacheInv'
<1>0. CoreOK  BY DEF TypeInv, CoreOK
<1>1. /\ pc[r] \in {"role", "target"} /\ pc'[r] \in {"write", "target", "done"}
      /\ UNCHANGED <<teamName, role, issued, teamCache, listCache>>
  BY <1>0, CheckMoves DEF CoreOK, RequestsOK, Goto, Answer
<1>2. LoadedRight(r)'  BY <1>1 DEF LoadedRight
<1> QED  BY <1>1, <1>2, QuietMove

\* What a write makes wrong is what it goes on to evict.
LEMMA WriteCache ==
  ASSUME OneAtATime, Faults = {}, TypeInv, RowsIntegrity, CacheInv, NEW r \in Requests, Write(r)
  PROVE  CacheInv'
<1>0. /\ CoreOK /\ \A q \in Requests : q = r
      /\ pc[r] = "write" /\ job[r] \in Jobs /\ JobOK(job[r]) /\ job[r].op \in OnTeam \cup {"CreateTeam"}
      /\ UNCHANGED <<teamCache, listCache>>
      /\ \/ Committed(r)
         \/ \E a \in Answers : Rejected(r, a)
  BY WriteMoves DEF TypeInv, CoreOK, RequestsOK, RequestOK, OneAtATime
<1>1. /\ \A t \in TeamIds : TeamRight(t)
      /\ \A u \in UserIds : ListRight(u)
  BY <1>0 DEF CacheInv, TeamPending, ListPending
<1>2. pc'[r] \in {"evict", "done"} /\ (pc'[r] = "evict" => Redis)
  BY <1>0 DEF Committed, Rejected, Goto, Answer, CoreOK, RequestsOK
<1>3. LoadedRight(r)'  BY <1>2 DEF LoadedRight
<1>4. CASE UNCHANGED <<teamName, role, issued>>
  BY <1>0, <1>3, <1>4, QuietMove
<1>5. CASE ~Redis
  <2>1. Unused'  BY <1>0, <1>5 DEF CacheInv, Unused
  <2>2. \A t \in TeamIds : TeamRight(t)'  BY <2>1 DEF Unused, TeamRight
  <2>3. \A u \in UserIds : ListRight(u)'  BY <2>1 DEF Unused, ListRight
  <2> QED  BY <1>0, <1>3, <2>1, <2>2, <2>3 DEF CacheInv
<1>6. CASE Redis /\ ~UNCHANGED <<teamName, role, issued>>
  <2>1. pc'[r] = "evict"
    <3>1. Committed(r)  BY <1>0, <1>6 DEF Rejected, tables
    <3> QED  BY <1>0, <1>6, <3>1 DEF OneAtATime, Committed, Goto, CoreOK, RequestsOK
  <2>2. job'[r].op = job[r].op /\ job'[r].who = job[r].who /\ job'[r].target = job[r].target
        /\ (job[r].op # "CreateTeam" => job'[r] = job[r])
    BY <1>0 DEF Write, CreateTeam, UpdateTeam, DeleteTeam, AddMember, RemoveMember, UpdateMemberRole,
       Rejected, Writing, CoreOK, RequestsOK, Jobs
  <2>3. \A t \in TeamIds : WriteEffect(r, t)  BY <1>0, WriteEffects
  <2>4. job[r].op = "CreateTeam" => issued' \subseteq issued \cup {job'[r].team}
    BY <1>0, <1>6 DEF Write, CreateTeam, UpdateTeam, DeleteTeam, AddMember, RemoveMember, UpdateMemberRole,
       Rejected, Writing, CoreOK, RequestsOK, Jobs, tables
  <2>5. ASSUME NEW t \in TeamIds, t # job'[r].team  PROVE teamName'[t] = teamName[t] /\ role'[t] = role[t]
    BY <2>2, <2>3, <2>4, <2>5 DEF WriteEffect, OnTeam, OnTarget
  <2>6. \A t \in TeamIds : (TeamPending(t) \/ TeamRight(t))'
    BY <1>0, <1>1, <2>1, <2>5 DEF TeamPending, TeamRight, TeamRow, Exists
  <2>7. ASSUME NEW u \in UserIds, u \notin StaleLists(job[r]), listCache'[u] # None, NEW t \in TeamIds
        PROVE  /\ listCache'[u][t] # None => t \in issued'
               /\ Exists(t)' => (listCache'[u][t] # None <=> role'[t][u] # None)
    <3>1. /\ listCache[u][t] # None => t \in issued
          /\ Exists(t) => (listCache[u][t] # None <=> role[t][u] # None)
          /\ role[t][u] # None => Exists(t)
          /\ Exists(t) => t \in issued
          /\ role[t] \in [UserIds -> Roles \cup {None}]
      BY <1>0, <1>1, <2>7 DEF ListRight, RowsIntegrity, CoreOK, TablesOK
    <3>2. WriteEffect(r, t)  BY <2>3
    <3>3. CASE job[r].op = "CreateTeam"
      BY <1>0, <2>7, <3>1, <3>2, <3>3 DEF WriteEffect, StaleLists, Exists, OnTeam, OnTarget
    <3>4. CASE job[r].op \in OnTeam
      BY <1>0, <2>7, <3>1, <3>2, <3>4, NoneAssumption DEF WriteEffect, StaleLists, Exists, OnTeam, OnTarget
    <3> QED  BY <1>0, <3>3, <3>4
  <2>8. StaleLists(job[r])' = StaleLists(job[r])  BY <2>2 DEF StaleLists
  <2>9. \A u \in UserIds : (ListPending(u) \/ ListRight(u))'
    BY <2>1, <2>7, <2>8 DEF ListPending, ListRight
  <2> QED  BY <1>0, <1>3, <1>6, <2>6, <2>9 DEF CacheInv
<1> QED  BY <1>4, <1>5, <1>6

LEMMA EvictCache ==
  ASSUME OneAtATime, Faults = {}, TypeInv, CacheInv, NEW r \in Requests, Evict(r)  PROVE CacheInv'
<1>0. CachesOK /\ RequestsOK /\ \A q \in Requests : q = r  BY DEF TypeInv, OneAtATime
<1>1. /\ pc[r] = "evict" /\ pc'[r] = "publish" /\ UNCHANGED <<teamName, role, issued>>
      /\ teamCache' = [teamCache EXCEPT ![job[r].team] = None]
      /\ listCache' = [u \in UserIds |-> IF u \in StaleLists(job[r]) THEN None ELSE listCache[u]]
  BY <1>0 DEF Evict, Goto, tables, RequestsOK
<1> USE <1>0, <1>1 DEF CachesOK
<1>2. ASSUME NEW t \in TeamIds  PROVE TeamRight(t)'
  BY DEF CacheInv, TeamPending, TeamRight, TeamRow, Exists
<1>3. ASSUME NEW u \in UserIds  PROVE ListRight(u)'
  BY DEF CacheInv, ListPending, ListRight, Exists
<1>4. LoadedRight(r)'  BY DEF LoadedRight
<1>5. Redis \/ Unused'  BY DEF CacheInv, Unused
<1> QED  BY <1>2, <1>3, <1>4, <1>5 DEF CacheInv

LEMMA ExpireCache ==
  ASSUME TypeInv, CacheInv,
         (\E t \in TeamIds : ExpireTeam(t)) \/ (\E u \in UserIds : ExpireList(u))
  PROVE  CacheInv'
<1>0. CachesOK  BY DEF TypeInv
<1>1. /\ UNCHANGED <<teamName, role, issued, pc, job, loaded>>
      /\ \A t \in TeamIds : teamCache'[t] \in {None, teamCache[t]}
      /\ \A u \in UserIds : listCache'[u] \in {None, listCache[u]}
  BY <1>0 DEF ExpireTeam, ExpireList, tables, CachesOK
<1>2. ASSUME NEW t \in TeamIds  PROVE (TeamPending(t) \/ TeamRight(t))'
  BY <1>1 DEF CacheInv, TeamPending, TeamRight, TeamRow, Exists
<1>3. ASSUME NEW u \in UserIds  PROVE (ListPending(u) \/ ListRight(u))'
  BY <1>1 DEF CacheInv, ListPending, StaleLists, ListRight, Exists
<1>4. \A r \in Requests : LoadedRight(r)'
  BY <1>1 DEF CacheInv, LoadedRight, TeamRow, ListRows, Exists
<1>5. Redis \/ Unused'  BY <1>1 DEF CacheInv, Unused
<1> QED  BY <1>2, <1>3, <1>4, <1>5 DEF CacheInv

LEMMA NextCache ==
  ASSUME OneAtATime, Faults = {}, TypeInv, RowsIntegrity, CacheInv, [Next]_vars  PROVE CacheInv'
<1>1. CASE UNCHANGED vars
  BY <1>1 DEF vars, CacheInv, Unused, TeamPending, TeamRight, TeamRow, ListPending, StaleLists,
     ListRight, ListRows, LoadedRight, Exists
<1>2. ASSUME NEW r \in Requests, PublishEvent(r) \/ Respond(r)  PROVE CacheInv'
  <2>1. /\ pc[r] # "evict" /\ pc'[r] \in {"done", "idle"}
        /\ UNCHANGED <<teamName, role, issued, teamCache, listCache>>
    BY <1>2 DEF PublishEvent, Respond, Answer, tables, caches, TypeInv, RequestsOK
  <2>2. LoadedRight(r)'  BY <2>1 DEF LoadedRight
  <2> QED  BY <2>1, <2>2, QuietMove
<1>3. ASSUME NEW r \in Requests, Serve(r)  PROVE CacheInv'
  BY <1>2, <1>3, ReadCache, CheckCache, WriteCache, EvictCache DEF Serve, Check, Write
<1>4. CASE CacheStep  BY <1>4, ExpireCache DEF CacheStep
<1>5. ASSUME NEW r \in Requests  PROVE ~DbFails(r) /\ ~Crash
  BY DEF DbFails, Crash
<1> QED  BY <1>1, <1>3, <1>4, <1>5, HandleCache DEF Next, ServerStep, CrashStep, Crash

LEMMA CacheAlways == ASSUME OneAtATime, Faults = {}  PROVE Spec => []CacheInv
<1>1. TypeInv /\ RowsIntegrity /\ CacheInv /\ [Next]_vars => CacheInv'
  BY NextCache
<1> QED  BY <1>1, InitCache, TypeCorrect, RowsSafe, PTL DEF Spec

\* team:<t>, between requests: what GetTeamByID caches and the writes evict is
\* absent or exactly what the tables hold (TeamCacheCoherent).
THEOREM TeamCacheIsCoherent ==
  ASSUME OneAtATime, Faults = {}  PROVE Spec => []TeamCacheCoherent
<1>1. CacheInv => TeamCacheCoherent
  BY DEF CacheInv, TeamPending, TeamRight, TeamCacheCoherent, Quiet
<1> QED  BY <1>1, CacheAlways, PTL

\* teams:user:<u>, between requests: of the teams that exist, the cached list of
\* a user holds exactly those he is a member of (ListMembershipCoherent).
THEOREM ListMembershipIsCoherent ==
  ASSUME OneAtATime, Faults = {}  PROVE Spec => []ListMembershipCoherent
<1>1. CacheInv => ListMembershipCoherent
  BY DEF CacheInv, ListPending, ListRight, ListMembershipCoherent, Quiet
<1> QED  BY <1>1, CacheAlways, PTL

-----------------------------------------------------------------------------
(* The main_manager's role.  UpdateMemberRole compares it and writes it in    *)
(* two statements; what the comparison saw holds until the write if nobody    *)
(* else writes in between, whatever fails.                                    *)

TargetChecked == \A r \in Requests :
    pc[r] = "write" /\ job[r].op = "UpdateMemberRole"
        => role[job[r].team][job[r].target] \notin {None, "main_manager"}

\* CreateTeam is the one request whose handler goes straight to its write.
LEMMA HandledFirst ==
  ASSUME CoreOK, NEW r \in Requests, Handle(r), pc'[r] = "write"  PROVE job'[r].op = "CreateTeam"
BY DEF Handle, HandleCreateTeam, HandleGetTeamByID, HandleGetTeamsByUserID, HandleUpdateTeam,
   HandleDeleteTeam, HandleAddMember, HandleRemoveMember, HandleUpdateMemberRole, Malformed, Refuse,
   Begin, Receive, Goto, Answer, Job, FirstRead, FirstList, CoreOK, RequestsOK

LEMMA NextChecked ==
  ASSUME OneAtATime, CoreOK, TargetChecked, [Next]_vars  PROVE TargetChecked'
<1>0. RequestsOK /\ \A q, r \in Requests : q = r  BY DEF CoreOK, OneAtATime
<1>1. CASE UNCHANGED vars  BY <1>1 DEF vars, TargetChecked
<1>2. ASSUME NEW r \in Requests, pc'[r] # "write" \/ job'[r].op # "UpdateMemberRole"  PROVE TargetChecked'
  BY <1>0, <1>2 DEF TargetChecked
<1>3. ASSUME NEW r \in Requests, Check(r)  PROVE TargetChecked'
  <2>1. ASSUME pc'[r] = "write", job[r].op = "UpdateMemberRole"
        PROVE  role[job[r].team][job[r].target] \notin {None, "main_manager"}
    BY <1>0, <1>3, <2>1 DEF Check, AuthoriseUpdateTeam, AuthoriseDeleteTeam, AuthoriseAddMember,
       AuthoriseRemoveMember, AuthoriseUpdateMemberRole, Authorise, UserExists, CheckTargetRole,
       Goto, Answer, RequestsOK
  <2>2. UNCHANGED <<role, job>>  BY <1>3, CheckMoves
  <2> QED  BY <1>0, <2>1, <2>2 DEF TargetChecked
<1>4. ASSUME NEW r \in Requests, Write(r)  PROVE pc'[r] # "write"
  BY <1>0, <1>4, WriteMoves DEF Committed, Rejected, Goto, Answer, RequestsOK
<1>5. ASSUME NEW r \in Requests, Serve(r), ~Check(r), ~Write(r)  PROVE pc'[r] # "write"
  BY <1>0, <1>5 DEF Serve, Check, Write, LookupTeam, SelectTeam, SelectMembers, FillTeam, LookupList,
     SelectList, FillList, Evict, PublishEvent, Respond, Found, Goto, Answer, RequestsOK
<1>6. ASSUME NEW r \in Requests, DbFails(r)  PROVE pc'[r] # "write"
  BY <1>0, <1>6 DEF DbFails, Answer, RequestsOK
<1>7. CASE CacheStep
  BY <1>7 DEF CacheStep, ExpireTeam, ExpireList, tables, TargetChecked
<1>8. CASE CrashStep  BY <1>8 DEF CrashStep, Crash, TargetChecked
<1> QED  BY <1>1, <1>2, <1>3, <1>4, <1>5, <1>6, <1>7, <1>8, HandledFirst DEF Next, ServerStep

\* "Prevent main_manager from being changed": with one request at a time, and
\* whatever fails, a main_manager's row never turns into another role.  (With
\* two requests in flight it can: the run TeamMainManagerRace.)
THEOREM MainManagerIsProtected ==
  ASSUME OneAtATime  PROVE Spec => MainManagerProtected
<1>1. Init => TargetChecked  BY DEF Init, TargetChecked
<1>2. TypeInv /\ TargetChecked /\ [Next]_vars => TargetChecked'
  BY NextChecked DEF TypeInv, CoreOK
<1>3. ASSUME CoreOK, RowsIntegrity, TargetChecked, [Next]_vars,
             NEW t \in TeamIds, NEW u \in UserIds, role[t][u] = "main_manager"
      PROVE  role'[t][u] \in {"main_manager", None}
  <2>1. CASE UNCHANGED <<teamName, role, issued>>  BY <1>3, <2>1
  <2>2. ASSUME NEW r \in Requests, Write(r)  PROVE role'[t][u] \in {"main_manager", None}
    <3>1. pc[r] = "write" /\ WriteEffect(r, t)  BY <1>3, <2>2, WriteEffects
    <3>2. Exists(t) /\ t \in issued  BY <1>3, NoneAssumption DEF RowsIntegrity, Roles
    <3> QED  BY <1>3, <3>1, <3>2, NoneAssumption
             DEF WriteEffect, TargetChecked, Exists, OnTeam, OnTarget, Roles, NoMembers, CoreOK, TablesOK
  <2> QED  BY <1>3, <2>1, <2>2, TablesChange
<1>4. TypeInv /\ RowsIntegrity /\ TargetChecked /\ [Next]_vars
        => [\A t \in TeamIds, u \in UserIds :
              role[t][u] = "main_manager" => role'[t][u] \in {"main_manager", None}]_vars
  BY <1>3 DEF TypeInv, CoreOK
<1> QED  BY <1>1, <1>2, <1>4, TypeCorrect, RowsSafe, PTL DEF Spec, MainManagerProtected
=============================================================================
