--------------------------- MODULE AssetCacheProofs ---------------------------
(* Theorems about AssetService as one client sees it, who waits for each       *)
(* answer before the next request while nothing fails (keys may expire), for   *)
(* any users, folders and notes: the caches agree with the tables between his  *)
(* requests, and the access list he is shown agrees with what is enforced.     *)
EXTENDS AssetServiceProofs

OneAtATime == (\A q, r \in Requests : q = r) /\ Faults \subseteq {"expiry"}

-----------------------------------------------------------------------------
(* Between a write and its eviction the keys it is about to evict may be      *)
(* wrong, and no others; what a request has read for a key, the notes it has  *)
(* found in a folder and the row it has created are still there.              *)

Pending(k) == \E r \in Requests : pc[r] = "evict" /\ k \in EvictedKeys(r)

RightFor(k, v) ==
    /\ k[1] = "notes" => \A n \in NoteIds : notes[n] # None => v[n] = Fresh(k)[n]
    /\ k[1] # "notes" => v = Fresh(k)

HoldsRight(r) ==
    LET j == job[r] IN
    /\ pc[r] \in {"evict", "store"} => Redis
    /\ io[r] = "fill" => Redis /\ buffer[r] = Fresh(Key(r))
    /\ pc[r] = "write" /\ j.op = "DeleteFolder" /\ Redis => buffer[r] = NotesIn(j.folder)
    /\ pc[r] \in {"evict", "store"} => /\ j.op = "CreateNote" => notes[j.note] = NewNote(j)
                                       /\ j.op = "CreateFolder" => folderOwner[j.folder] = j.who

CacheInv ==
    /\ ~Redis => \A k \in Keys : cache[k] = None
    /\ \A k \in Keys : cache[k] # None => Pending(k) \/ RightFor(k, cache[k])
    /\ \A r \in Requests : HoldsRight(r)

-----------------------------------------------------------------------------
(* The access list while GetNoteAccess builds it: after each of its four      *)
(* reads it names exactly those the tables read so far give a right to.       *)

Owner(r, u) == u = born[job[r].note].owner
Sharer(r, u) == noteShares[job[r].note][u] # None
FolderSharer(r, u) == folderShares[born[job[r].note].folder][u] # None

ListRight(r) ==
    /\ pc[r] \notin {"shares", "folderShares", "managers", "done"} => access[r] = NoShares
    /\ pc[r] = "shares" => \A u \in UserIds : access[r][u] # None <=> Owner(r, u)
    /\ pc[r] = "folderShares" => \A u \in UserIds : access[r][u] # None <=> Owner(r, u) \/ Sharer(r, u)
    /\ pc[r] = "managers" => \A u \in UserIds :
         access[r][u] # None <=> Owner(r, u) \/ Sharer(r, u) \/ FolderSharer(r, u)
    /\ Shown(r) => \A u \in UserIds : access[r][u] # None <=> Rights(u, job[r].note) # {}

ListInv == \A r \in Requests : ListRight(r)

-----------------------------------------------------------------------------
(* Proof that the caches agree.                                               *)

LEMMA InitCache == Init => CacheInv
<1> SUFFICES ASSUME Init  PROVE CacheInv  OBVIOUS
<1>1. \A r \in Requests : HoldsRight(r)  BY NoneIsNobody DEF Init, HoldsRight
<1> QED  BY <1>1 DEF Init, CacheInv

\* What it means for a value to be right, key by key, now and after a step.
LEMMA RightByKind ==
  ASSUME NEW k \in Keys, NEW v
  PROVE  /\ RightFor(k, v) <=>
              /\ k[1] = "note" => v = notes[k[2]]
              /\ k[1] = "shares" => v = noteShares[k[2]]
              /\ k[1] = "folder" => v = folderOwner[k[2]]
              /\ k[1] = "folderShares" => v = folderShares[k[2]]
              /\ k[1] = "folders" => v = {f \in FolderIds : folderOwner[f] = k[2]}
              /\ k[1] = "notes" => \A n \in NoteIds : notes[n] # None =>
                   v[n] = IF notes[n].owner = k[2] THEN notes[n] ELSE None
         /\ RightFor(k, v)' <=>
              /\ k[1] = "note" => v = notes'[k[2]]
              /\ k[1] = "shares" => v = noteShares'[k[2]]
              /\ k[1] = "folder" => v = folderOwner'[k[2]]
              /\ k[1] = "folderShares" => v = folderShares'[k[2]]
              /\ k[1] = "folders" => v = {f \in FolderIds : folderOwner'[f] = k[2]}
              /\ k[1] = "notes" => \A n \in NoteIds : notes'[n] # None =>
                   v[n] = IF notes'[n].owner = k[2] THEN notes'[n] ELSE None
<1> USE DEF RightFor, Fresh, GetNoteByID, GetUserNotes, GetNoteShares, GetFolderByID, GetUserFolders,
            GetFolderShares
<1>1. CASE k[1] = "note"  BY <1>1
<1>2. CASE k[1] = "shares"  BY <1>2
<1>3. CASE k[1] = "folder"  BY <1>3
<1>4. CASE k[1] = "folderShares"  BY <1>4
<1>5. CASE k[1] = "folders"  BY <1>5
<1>6. CASE k[1] = "notes"  BY <1>6
<1> QED  BY <1>1, <1>2, <1>3, <1>4, <1>5, <1>6 DEF Keys

LEMMA StaysRight ==
  ASSUME NEW k \in Keys, RightFor(k, cache[k]), cache'[k] = cache[k],
         UNCHANGED <<folderOwner, notes, noteShares, folderShares>>
  PROVE  RightFor(k, cache[k])'
BY DEF RightFor, Fresh, GetNoteByID, GetUserNotes, GetNoteShares, GetFolderByID, GetUserFolders, GetFolderShares

\* A move that neither writes nor evicts, and stores only what is right.
LEMMA QuietMove ==
  ASSUME OneAtATime, CacheInv, NEW r \in Requests, pc[r] # "evict", HoldsRight(r)',
         UNCHANGED <<folderOwner, notes, noteShares, folderShares>>,
         \A k \in Keys : cache'[k] = cache[k] \/ (Redis /\ RightFor(k, cache[k])')
  PROVE  CacheInv'
<1>1. \A q \in Requests : q = r  BY DEF OneAtATime
<1>2. ASSUME NEW k \in Keys, cache'[k] # None  PROVE RightFor(k, cache[k])'
  BY <1>1, <1>2, StaysRight DEF CacheInv, Pending
<1>3. ASSUME ~Redis  PROVE \A k \in Keys : cache'[k] = None
  BY <1>3 DEF CacheInv
<1> QED  BY <1>1, <1>2, <1>3 DEF CacheInv

\* A handler reads and writes nothing: the request has its job, or its refusal.
Arrives(r) ==
    /\ pc[r] = "idle" /\ io'[r] # "fill"
    /\ UNCHANGED <<tables, cache, note, buffer, access>>
    /\ \/ pc'[r] \in {"note", "notes", "folders", "shared", "folder", "done"}
       \/ pc'[r] = "write" /\ job'[r].op \in {"CreateNote", "CreateFolder", "ShareFolder", "RemoveFolderShare"}

LEMMA HandleArrives ==
  ASSUME TypeInv, NEW r \in Requests, Handle(r)  PROVE Arrives(r)
<1>0. SlotsOK /\ Callers[r] \subseteq Users  BY OpsAssumption DEF TypeInv
<1>1. ASSUME NEW j \in Jobs, NEW l \in Labels, Begin(r, j, l),
             \/ l \in {"note", "notes", "folders", "shared", "folder"}
             \/ l = "write" /\ j.op \in {"CreateNote", "CreateFolder", "ShareFolder", "RemoveFolderShare"}
      PROVE  Arrives(r)
  BY <1>0, <1>1, NoneIsNobody DEF Begin, Receive, Goto, FirstIo, SlotsOK, Arrives
<1>2. ASSUME NEW j \in Jobs, NEW a \in Answers, Refuse(r, j, a)  PROVE Arrives(r)
  BY <1>0, <1>2, NoneIsNobody DEF Refuse, Receive, Answer, SlotsOK, Arrives
<1> USE <1>0, <1>1, <1>2, UsersAssumption DEF Job, Jobs, AllOps, Labels, Reads, Answers
<1>m. ASSUME NEW op \in AllOps, NEW who \in Callers[r], Malformed(r, op, who)  PROVE Arrives(r)
  BY <1>m DEF Malformed
<1>3. CASE HandleGetNote(r)  BY <1>3, <1>m DEF HandleGetNote
<1>4. CASE HandleUpdateNote(r)  BY <1>4, <1>m DEF HandleUpdateNote
<1>5. CASE HandleDeleteNote(r)  BY <1>5, <1>m DEF HandleDeleteNote
<1>6. CASE HandleCreateNote(r)  BY <1>6, <1>m DEF HandleCreateNote
<1>7. CASE HandleShareNote(r)  BY <1>7, <1>m DEF HandleShareNote
<1>8. CASE HandleRemoveNoteShare(r)  BY <1>8, <1>m DEF HandleRemoveNoteShare
<1>9. CASE HandleGetSharedNotes(r)  BY <1>9, <1>m DEF HandleGetSharedNotes
<1>10. CASE HandleGetUserNotes(r)  BY <1>10, <1>m DEF HandleGetUserNotes, OwnList
<1>11. CASE HandleGetUserFolders(r)  BY <1>11, <1>m DEF HandleGetUserFolders, OwnList
<1>12. CASE HandleCreateFolder(r)  BY <1>12, <1>m DEF HandleCreateFolder
<1>13. CASE HandleDeleteFolder(r)  BY <1>13, <1>m DEF HandleDeleteFolder
<1>14. CASE HandleFolderShares(r)  BY <1>14, <1>m DEF HandleFolderShares
<1> QED
  BY <1>3, <1>4, <1>5, <1>6, <1>7, <1>8, <1>9, <1>10, <1>11, <1>12, <1>13, <1>14 DEF Handle
LEMMA HandleCache ==
  ASSUME OneAtATime, TypeInv, CacheInv, NEW r \in Requests, Handle(r)  PROVE CacheInv'
<1>1. Arrives(r)  BY HandleArrives
<1>2. HoldsRight(r)'  BY <1>1 DEF Arrives, HoldsRight
<1> QED  BY <1>1, <1>2, QuietMove DEF Arrives, tables

\* Whatever the service makes of a value it has read, nothing is left to store,
\* and DeleteFolder comes to its write by way of the folder's notes.
LEMMA UseCache ==
  ASSUME TypeInv, NEW r \in Requests, pc[r] \in Reads, NEW v \in Values(Key(r)), Use(r, v),
         DOMAIN buffer' = Requests
  PROVE  HoldsRight(r)' /\ UNCHANGED tables
<1>0. SlotsOK /\ RequestOK(r) /\ JobOK(pc[r], job[r])  BY DEF TypeInv, RequestOK, Reads
<1>1. pc'[r] \notin {"evict", "store"} /\ job' = job /\ UNCHANGED tables
  BY UseTypes DEF Use
<1> USE <1>0, <1>1, NoneIsNobody DEF Use, Goto, Answer, FirstIo, SlotsOK, JobOK, HoldsRight
<1>2. CASE pc[r] = "note"
  BY <1>2, ZenonT(40) DEF UseNote, AuthoriseGetNote, AuthoriseUpdateNote, AuthoriseDeleteNote,
     AuthoriseShareNote, AuthoriseRemoveNoteShare, OwnerOnly, NoteOps
<1>3. CASE pc[r] = "access"  BY <1>3 DEF UseAccessNote
<1>4. CASE pc[r] \in {"shares", "folderShares"}  BY <1>4 DEF UseShares
<1>5. CASE pc[r] = "folder"  BY <1>5 DEF AuthoriseDeleteFolder
<1>6. CASE pc[r] \in {"notes", "folders"}  BY <1>6
<1> QED  BY <1>2, <1>3, <1>4, <1>5, <1>6 DEF Reads


LEMMA ReadCache ==
  ASSUME OneAtATime, TypeInv, CacheInv, NEW r \in Requests, Lookup(r) \/ Select(r) \/ Fill(r)
  PROVE  CacheInv'
<1>0. /\ TablesOK /\ CacheOK /\ SlotsOK /\ RequestOK(r) /\ HoldsRight(r) /\ Faults \subseteq {"expiry"}
      /\ pc[r] \in Reads
  BY NoneIsNobody DEF TypeInv, CacheInv, OneAtATime, Lookup, Select, Fill, RequestOK
<1>1. Key(r) \in Keys /\ pc[r] # "evict"  BY <1>0, ReadKeys DEF Reads
<1>2. ASSUME NEW v \in Values(Key(r)), Use(r, v), DOMAIN buffer' = Requests, cache' = cache
      PROVE  CacheInv'
  BY <1>0, <1>1, <1>2, UseCache, QuietMove DEF tables
<1>3. ASSUME UNCHANGED <<tables, job, note, cache, pc>>, io'[r] # "fill" \/ io' = io, UNCHANGED buffer
      PROVE  CacheInv'
  <2>1. HoldsRight(r)'
    BY <1>0, <1>3 DEF HoldsRight, Reads, Key, Fresh, GetNoteByID, GetUserNotes, GetNoteShares, GetFolderByID,
       GetUserFolders, GetFolderShares, tables
  <2> QED  BY <1>1, <1>3, <2>1, QuietMove DEF tables
<1>4. CASE Lookup(r)
  <2>1. CASE cache[Key(r)] # None /\ Use(r, cache[Key(r)])
    BY <1>0, <1>1, <1>2, <1>4, <2>1 DEF Lookup, CacheOK, SlotsOK
  <2>2. CASE ~(cache[Key(r)] # None /\ Use(r, cache[Key(r)]))
    BY <1>0, <1>3, <1>4, <2>2 DEF Lookup, SlotsOK
  <2> QED  BY <2>1, <2>2
<1>5. CASE Select(r)
  <2>1. CASE Fresh(Key(r)) = None
    <3>1. NoRow(r) /\ Local /\ UNCHANGED <<tables, cache>>  BY <1>5, <2>1 DEF Select
    <3>2. pc'[r] = "done" /\ io'[r] # "fill"  BY <1>0, <3>1, NoneIsNobody DEF NoRow, Answer, SlotsOK
    <3>3. HoldsRight(r)'  BY <3>2 DEF HoldsRight
    <3> QED  BY <1>1, <3>1, <3>3, QuietMove DEF tables
  <2>2. CASE Fresh(Key(r)) # None /\ Redis
    <3>1. /\ buffer' = [buffer EXCEPT ![r] = Fresh(Key(r))]
          /\ UNCHANGED <<tables, cache, pc, job, note>>
      BY <1>5, <2>2 DEF Select
    <3>2. buffer'[r] = Fresh(Key(r)) /\ Key(r)' = Key(r)  BY <1>0, <3>1 DEF SlotsOK, Key
    <3>3. Fresh(Key(r))' = Fresh(Key(r))
      BY <3>1, <3>2 DEF Fresh, GetNoteByID, GetUserNotes, GetNoteShares, GetFolderByID, GetUserFolders,
         GetFolderShares, tables
    <3>4. HoldsRight(r)'  BY <1>0, <2>2, <3>1, <3>2, <3>3 DEF HoldsRight, Reads
    <3> QED  BY <1>1, <3>1, <3>4, QuietMove DEF tables
  <2>3. CASE Fresh(Key(r)) # None /\ ~Redis
    BY <1>0, <1>1, <1>2, <1>5, <2>3, FreshTypes DEF Select, SlotsOK
  <2> QED  BY <2>1, <2>2, <2>3
<1>6. CASE Fill(r)
  <2>1. /\ buffer[r] \in Values(Key(r)) /\ buffer[r] = Fresh(Key(r)) /\ Redis
        /\ Use(r, buffer[r]) /\ DOMAIN buffer' = Requests
    BY <1>0, <1>6 DEF Fill, RequestOK, HoldsRight, SlotsOK
  <2>2. HoldsRight(r)' /\ UNCHANGED tables  BY <1>0, <2>1, UseCache
  <2>3. PICK k \in Keys : k = Key(r)  BY <1>1
  <2>4. Fresh(k)' = Fresh(k)
    BY <2>2 DEF Fresh, GetNoteByID, GetUserNotes, GetNoteShares, GetFolderByID, GetUserFolders,
       GetFolderShares, tables
  <2>5. cache' = [cache EXCEPT ![k] = Fresh(k)]  BY <1>0, <1>6, <2>1, <2>3 DEF Fill
  <2>6. RightFor(k, cache[k])'
    BY <1>0, <2>4, <2>5 DEF CacheOK, RightFor
  <2>7. \A l \in Keys : cache'[l] = cache[l] \/ (Redis /\ RightFor(l, cache[l])')
    BY <1>0, <2>1, <2>5, <2>6 DEF CacheOK
  <2> QED  BY <1>1, <2>2, <2>7, QuietMove DEF tables
<1> QED  BY <1>4, <1>5, <1>6

\* Statements that only read, and what ends a request.
LEMMA PlainReadCache ==
  ASSUME OneAtATime, TypeInv, CacheInv, NEW r \in Requests,
         \/ GetSharedNotes(r) \/ GetFolderShareLevel(r) \/ GetNoteShareLevel(r) \/ IsManagerOfOwner(r)
         \/ GetManagersOfOwner(r) \/ SelectNoteOwner(r) \/ SelectFolderOwner(r) \/ SelectFolderNotes(r)
         \/ PublishEvent(r) \/ Respond(r)
  PROVE  CacheInv'
<1>0. SlotsOK /\ RequestOK(r) /\ pc[r] # "evict" /\ UNCHANGED <<tables, cache>>
  BY DEF TypeInv, GetSharedNotes, GetFolderShareLevel, GetNoteShareLevel, IsManagerOfOwner,
     GetManagersOfOwner, SelectNoteOwner, SelectFolderOwner, SelectFolderNotes, PublishEvent, Respond, Reading
<1>1. HoldsRight(r)'
  <2> USE <1>0, NoneIsNobody DEF SlotsOK, RequestOK, JobOK, HoldsRight, Goto, Answer, Reading, Local, FirstIo,
             NoteOps, Listing, Reads
  <2>1. CASE GetSharedNotes(r) \/ IsManagerOfOwner(r) \/ GetManagersOfOwner(r)
    BY <2>1 DEF GetSharedNotes, IsManagerOfOwner, GetManagersOfOwner
  <2>2. CASE GetFolderShareLevel(r)  BY <2>2 DEF GetFolderShareLevel, Granted
  <2>3. CASE GetNoteShareLevel(r)  BY <2>3 DEF GetNoteShareLevel, Granted
  <2>4. CASE SelectNoteOwner(r)  BY <2>4 DEF SelectNoteOwner
  <2>5. CASE SelectFolderOwner(r)  BY <2>5 DEF SelectFolderOwner
  <2>6. CASE SelectFolderNotes(r)  BY <2>6 DEF SelectFolderNotes, NotesIn, tables
  <2>7. CASE PublishEvent(r)  BY <2>7 DEF PublishEvent
  <2>8. CASE Respond(r)  BY <2>8 DEF Respond
  <2> QED  BY <2>1, <2>2, <2>3, <2>4, <2>5, <2>6, <2>7, <2>8
<1> QED  BY <1>0, <1>1, QuietMove DEF tables

LEMMA FinishCache ==
  ASSUME OneAtATime, TypeInv, CacheInv, NEW r \in Requests, Evict(r) \/ StoreCreated(r)
  PROVE  CacheInv'
<1>0. /\ CacheOK /\ SlotsOK /\ RequestOK(r) /\ HoldsRight(r) /\ "redis" \notin Faults
      /\ UNCHANGED <<folderOwner, notes, noteShares, folderShares, job>>
      /\ pc[r] \in {"evict", "store"} /\ job[r] \in Jobs /\ JobOK(pc[r], job[r])
      /\ \A q \in Requests : q = r
  BY DEF TypeInv, CacheInv, OneAtATime, RequestOK, Evict, StoreCreated, tables, Local
<1> USE <1>0
<1>1. CASE Evict(r)
  <2>1. /\ pc[r] = "evict" /\ Redis
        /\ cache' = [k \in Keys |-> IF k \in EvictedKeys(r) THEN None ELSE cache[k]]
    BY <1>1 DEF Evict, HoldsRight
  <2>2. ASSUME NEW k \in Keys, cache'[k] # None  PROVE RightFor(k, cache[k])'
    <3>1. cache'[k] = cache[k] /\ k \notin EvictedKeys(r)  BY <2>1, <2>2
    <3>2. RightFor(k, cache[k])  BY <2>2, <3>1 DEF CacheInv, Pending
    <3> QED  BY <3>1, <3>2, StaysRight
  <2>3. HoldsRight(r)'
    BY <1>1, <2>1, NoneIsNobody DEF Evict, Goto, Answer, HoldsRight, NewNote, SlotsOK, Reads
  <2> QED  BY <2>1, <2>2, <2>3 DEF CacheInv
<1>2. CASE StoreCreated(r)
  <2>1. HoldsRight(r)'
    BY <1>2, NoneIsNobody DEF StoreCreated, Goto, Answer, HoldsRight, SlotsOK, Reads
  <2>2. pc[r] = "store" /\ Redis  BY <1>2 DEF StoreCreated, HoldsRight
  <2>3. CASE job[r].op = "CreateNote"
    <3>1. cache' = [cache EXCEPT ![<<"note", job[r].note>>] = NewNote(job[r])]
      BY <1>2, <2>3 DEF StoreCreated
    <3>2. PICK k, v : k \in Keys /\ k = <<"note", job[r].note>> /\ v = NewNote(job[r])
      BY <1>2, <2>3 DEF StoreCreated, Keys, JobOK
    <3>3. v = notes'[k[2]]  BY <1>2, <2>3, <3>2 DEF StoreCreated, HoldsRight
    <3>4. RightFor(k, v)'  BY <3>2, <3>3, RightByKind
    <3> QED  BY <2>1, <2>2, <3>1, <3>2, <3>4, QuietMove DEF CacheOK
  <2>4. CASE job[r].op = "CreateFolder"
    <3>1. cache' = [cache EXCEPT ![<<"folder", job[r].folder>>] = job[r].who]
      BY <1>2, <2>4 DEF StoreCreated
    <3>2. PICK k, v : k \in Keys /\ k = <<"folder", job[r].folder>> /\ v = job[r].who
      BY <1>2, <2>4 DEF StoreCreated, Keys, JobOK
    <3>3. v = folderOwner'[k[2]]  BY <1>2, <2>4, <3>2 DEF StoreCreated, HoldsRight
    <3>4. RightFor(k, v)'  BY <3>2, <3>3, RightByKind
    <3> QED  BY <2>1, <2>2, <3>1, <3>2, <3>4, QuietMove DEF CacheOK
  <2> QED  BY <1>2, <2>3, <2>4 DEF StoreCreated, JobOK
<1> QED  BY <1>1, <1>2

\* What a write makes wrong is what it goes on to evict.
LEMMA WriteEvicts ==
  ASSUME TypeInv, CopiesInv, NEW r \in Requests, Writes(r), pc'[r] = "evict",
         pc[r] = "write" /\ job[r].op = "DeleteFolder" => buffer[r] = NotesIn(job[r].folder),
         NEW k \in Keys, NEW v \in Values(k), ValueTrue(k, v), RightFor(k, v)
  PROVE  k \in EvictedKeys(r)' \/ RightFor(k, v)'
<1>0. /\ TablesOK /\ SlotsOK /\ TablesTrue /\ HoldsTrue(r) /\ pc[r] = "write"
      /\ job[r] \in Jobs /\ JobOK("write", job[r])
  BY DEF TypeInv, CopiesInv, RequestOK, Writes, CreateNote, UpdateNote, DeleteNote, ShareNote, RemoveNoteShare,
     CreateFolder, DeleteFolder, ShareFolder, RemoveFolderShare, Writing
<1>1. ~(\E a : Rejected(r, a))  BY <1>0 DEF Rejected, Answer, SlotsOK
<1> USE <1>0, <1>1, RightByKind, NoneIsNobody
        DEF TablesOK, SlotsOK, Writing, EvictedKeys, JobOK, NoteOps, FolderOps, Keys, tables, Jobs
<1>2. CASE CreateNote(r)
  <2>1. PICK n \in NoteIds :
          /\ born[n] = None /\ notes' = [notes EXCEPT ![n] = NewNote(job[r])]
          /\ job'[r].note = n /\ job'[r].op = "CreateNote" /\ job'[r].who = job[r].who
          /\ UNCHANGED <<folderOwner, noteShares, folderShares>>
    BY <1>2 DEF CreateNote
  <2>2. notes[n] = None  BY <2>1 DEF TablesTrue, SameHome
  <2>3. NewNote(job[r]).owner = job[r].who  BY DEF NewNote
  <2>4. ASSUME k[1] = "notes"  PROVE v[n] = None
    BY <2>1, <2>4 DEF ValueTrue, SameHome, Values
  <2> QED  BY <2>1, <2>2, <2>3, <2>4
<1>3. CASE UpdateNote(r)
  <2> DEFINE n == job[r].note
  <2>1. /\ n \in NoteIds /\ job'[r] = job[r] /\ note'[r] = note[r] /\ job[r].op = "UpdateNote"
        /\ UNCHANGED <<folderOwner, noteShares, folderShares>>
        /\ \A m \in NoteIds : m # n => notes'[m] = notes[m]
        /\ notes'[n] # None => notes[n] # None /\ notes'[n].owner = notes[n].owner
    BY <1>3 DEF UpdateNote, NoteRows
  <2>2. notes[n] # None => notes[n].owner = note[r].owner
    BY <1>3 DEF TablesTrue, HoldsTrue, SameHome, UpdateNote, TypeInv, RequestOK, HoldsNote
  <2> QED  BY <2>1, <2>2
<1>4. CASE DeleteNote(r)
  <2> DEFINE n == job[r].note
  <2>1. /\ n \in NoteIds /\ job'[r] = job[r] /\ job[r].op = "DeleteNote"
        /\ UNCHANGED <<folderOwner, folderShares>>
        /\ notes' = [notes EXCEPT ![n] = None] /\ noteShares' = [noteShares EXCEPT ![n] = NoShares]
    BY <1>4 DEF DeleteNote
  <2> QED  BY <2>1
<1>5. CASE ShareNote(r)  BY <1>5, SMTT(30) DEF ShareNote
<1>6. CASE RemoveNoteShare(r)  BY <1>6 DEF RemoveNoteShare
<1>7. CASE CreateFolder(r)
  <2>1. PICK f \in FolderIds :
          /\ f \notin oldFolders /\ folderOwner' = [folderOwner EXCEPT ![f] = job[r].who]
          /\ job' = [job EXCEPT ![r].folder = f]
          /\ UNCHANGED <<notes, noteShares, folderShares>>
    BY <1>7 DEF CreateFolder
  <2>2. job'[r].folder = f /\ job'[r].op = "CreateFolder" /\ job'[r].who = job[r].who
    BY <1>7, <2>1 DEF CreateFolder
  <2>3. folderOwner[f] = None  BY <2>1 DEF TablesTrue
  <2> QED  BY <2>1, <2>2, <2>3
<1>8. CASE DeleteFolder(r)
  <2> DEFINE f == job[r].folder
  <2>1. /\ f \in FolderIds /\ job'[r] = job[r] /\ job[r].op = "DeleteFolder" /\ buffer'[r] = NotesIn(f)
        /\ folderOwner' = [folderOwner EXCEPT ![f] = None]
        /\ folderShares' = [folderShares EXCEPT ![f] = NoShares]
        /\ notes' = [n \in NoteIds |-> IF n \in NotesIn(f) THEN None ELSE notes[n]]
        /\ noteShares' = [n \in NoteIds |-> IF n \in NotesIn(f) THEN NoShares ELSE noteShares[n]]
    BY <1>8 DEF DeleteFolder
  <2>2. folderOwner[f] \in {None, job[r].who}  BY <2>1 DEF HoldsTrue
  <2>3. EvictedKeys(r)' = {<<"folder", f>>, <<"folderShares", f>>, <<"folders", job[r].who>>,
                           <<"notes", job[r].who>>} \cup ({"note", "shares"} \X NotesIn(f))
    BY <2>1
  <2>4. ASSUME k \notin EvictedKeys(r)'  PROVE RightFor(k, v)'
    <3>1. /\ k[1] \in {"note", "shares"} => k[2] \in NoteIds /\ k[2] \notin NotesIn(f)
          /\ k[1] \in {"folder", "folderShares"} => k[2] \in FolderIds /\ k[2] # f
          /\ k[1] = "folders" => k[2] \in UserIds /\ k[2] # job[r].who
      BY <2>3, <2>4
    <3>2. k[1] = "folders" => \A g \in FolderIds : folderOwner'[g] = k[2] <=> folderOwner[g] = k[2]
      BY <2>1, <2>2, <3>1
    <3>3. \A n \in NoteIds : notes'[n] # None => notes'[n] = notes[n]  BY <2>1
    <3>4. /\ k[1] = "note" => v = notes'[k[2]]
          /\ k[1] = "shares" => v = noteShares'[k[2]]
      BY <2>1, <3>1
    <3>5. /\ k[1] = "folder" => v = folderOwner'[k[2]]
          /\ k[1] = "folderShares" => v = folderShares'[k[2]]
      BY <2>1, <3>1, ZenonT(40)
    <3>6. k[1] = "folders" => v = {g \in FolderIds : folderOwner'[g] = k[2]}
      BY <3>2
    <3>7. k[1] = "notes" => \A n \in NoteIds : notes'[n] # None =>
            v[n] = IF notes'[n].owner = k[2] THEN notes'[n] ELSE None
      BY <3>3
    <3> QED  BY <3>4, <3>5, <3>6, <3>7
  <2> QED  BY <2>4
<1>9. CASE ShareFolder(r)  BY <1>9 DEF ShareFolder
<1>10. CASE RemoveFolderShare(r)  BY <1>10 DEF RemoveFolderShare
<1> QED  BY <1>2, <1>3, <1>4, <1>5, <1>6, <1>7, <1>8, <1>9, <1>10 DEF Writes

LEMMA WriteCache ==
  ASSUME OneAtATime, TypeInv, CopiesInv, CacheInv, NEW r \in Requests, Writes(r)
  PROVE  CacheInv'
<1>0. /\ TablesOK /\ SlotsOK /\ CacheOK /\ CacheTrue /\ HoldsRight(r) /\ "db" \notin Faults
      /\ \A q \in Requests : q = r
      /\ pc[r] = "write" /\ job[r] \in Jobs /\ JobOK("write", job[r]) /\ cache' = cache
  BY DEF TypeInv, CopiesInv, CacheInv, OneAtATime, RequestOK, Writes, CreateNote, UpdateNote, DeleteNote, ShareNote,
     RemoveNoteShare, CreateFolder, DeleteFolder, ShareFolder, RemoveFolderShare, Writing
<1>1. \/ pc'[r] = "evict" /\ Redis
      \/ pc'[r] = "done" /\ (~Redis \/ UNCHANGED tables)
  BY <1>0 DEF SlotsOK, Writes, CreateNote, UpdateNote, DeleteNote, ShareNote, RemoveNoteShare, CreateFolder,
     DeleteFolder, ShareFolder, RemoveFolderShare, Written, Rejected, Goto, Answer
<1>2. HoldsRight(r)'
  <2>1. io'[r] # "fill"
    BY <1>0, NoneIsNobody DEF SlotsOK, Writes, CreateNote, UpdateNote, DeleteNote, ShareNote, RemoveNoteShare,
       CreateFolder, DeleteFolder, ShareFolder, RemoveFolderShare, Written, Rejected, Goto, Answer, Reads
  <2>2. job'[r].op = job[r].op
    <3>1. \/ job' = job
          \/ \E n \in NoteIds : job' = [job EXCEPT ![r].note = n]
          \/ \E f \in FolderIds : job' = [job EXCEPT ![r].folder = f]
      BY DEF Writes, CreateNote, UpdateNote, DeleteNote, ShareNote, RemoveNoteShare,
         CreateFolder, DeleteFolder, ShareFolder, RemoveFolderShare, Rejected
    <3> QED  BY <1>0, <3>1 DEF SlotsOK, Jobs
  <2>3. ASSUME pc'[r] = "evict", job'[r].op = "CreateNote"  PROVE notes'[job'[r].note] = NewNote(job[r])'
    <3>1. CreateNote(r)
      BY <2>3, <2>2 DEF Writes, UpdateNote, DeleteNote, ShareNote, RemoveNoteShare,
         CreateFolder, DeleteFolder, ShareFolder, RemoveFolderShare, Writing
    <3> QED  BY <1>0, <2>3, <3>1 DEF CreateNote, Rejected, Answer, NewNote, SlotsOK, TablesOK, Jobs
  <2>4. ASSUME pc'[r] = "evict", job'[r].op = "CreateFolder"  PROVE folderOwner'[job'[r].folder] = job'[r].who
    <3>1. CreateFolder(r)
      BY <2>4, <2>2 DEF Writes, CreateNote, UpdateNote, DeleteNote, ShareNote, RemoveNoteShare,
         DeleteFolder, ShareFolder, RemoveFolderShare, Writing
    <3> QED  BY <1>0, <2>4, <3>1 DEF CreateFolder, SlotsOK, TablesOK, Jobs
  <2> QED  BY <1>1, <2>1, <2>3, <2>4 DEF HoldsRight
<1>3. CASE UNCHANGED tables  BY <1>0, <1>2, <1>3, QuietMove DEF tables
<1>4. CASE ~Redis  BY <1>0, <1>2, <1>4 DEF CacheInv
<1>5. CASE pc'[r] = "evict" /\ Redis
  <2>1. ASSUME NEW k \in Keys, cache'[k] # None  PROVE k \in EvictedKeys(r)' \/ RightFor(k, cache[k])'
    <3>1. PICK v \in Values(k) : v = cache[k]  BY <1>0, <2>1 DEF CacheOK
    <3>2. ValueTrue(k, v) /\ RightFor(k, v)  BY <1>0, <2>1, <3>1 DEF CacheTrue, CacheInv, Pending
    <3>3. k \in EvictedKeys(r)' \/ RightFor(k, v)'
      BY <1>0, <1>5, <3>2, WriteEvicts DEF HoldsRight
    <3>4. v = cache'[k]  BY <1>0, <3>1
    <3> QED  BY <3>3, <3>4 DEF RightFor
  <2> QED  BY <1>0, <1>2, <1>5, <2>1 DEF CacheInv, Pending
<1> QED  BY <1>1, <1>3, <1>4, <1>5

LEMMA OtherCache ==
  ASSUME OneAtATime, TypeInv, CacheInv, OtherStep \/ UNCHANGED vars  PROVE CacheInv'
<1>0. CacheOK /\ Faults \subseteq {"expiry"}  BY DEF TypeInv, OneAtATime
<1>1. /\ UNCHANGED <<folderOwner, notes, noteShares, folderShares, pc, io, job, note, buffer>>
      /\ \A k \in Keys : cache'[k] \in {None, cache[k]}
  BY <1>0 DEF OtherStep, ChangeTeams, Expire, Crash, Local, tables, vars, CacheOK
<1>2. ASSUME NEW k \in Keys, cache'[k] # None  PROVE Pending(k)' \/ RightFor(k, cache[k])'
  <2>1. cache'[k] = cache[k] /\ (Pending(k) \/ RightFor(k, cache[k]))  BY <1>1, <1>2 DEF CacheInv
  <2>2. Pending(k)' = Pending(k)  BY <1>1 DEF Pending, EvictedKeys
  <2> QED  BY <1>1, <2>1, <2>2, StaysRight
<1>3. ASSUME NEW r \in Requests  PROVE HoldsRight(r)'
  <2>1. HoldsRight(r)  BY DEF CacheInv
  <2> QED  BY <1>1, <2>1 DEF HoldsRight, Key, Fresh, GetNoteByID, GetUserNotes, GetNoteShares, GetFolderByID,
              GetUserFolders, GetFolderShares, NotesIn, NewNote
<1> QED  BY <1>1, <1>2, <1>3 DEF CacheInv

LEMMA NextCache ==
  ASSUME OneAtATime, TypeInv, CopiesInv, CacheInv, [Next]_vars  PROVE CacheInv'
<1>1. ASSUME NEW r \in Requests, ServerStep(r)  PROVE CacheInv'
  <2>1. ~DbFails(r)  BY DEF OneAtATime, DbFails
  <2> QED  BY <1>1, <2>1, HandleCache, ReadCache, PlainReadCache, WriteCache, FinishCache
           DEF ServerStep, Serve, Writes
<1> QED  BY <1>1, OtherCache DEF Next

LEMMA CacheAlways == ASSUME OneAtATime  PROVE Spec => []CacheInv
<1>1. TypeInv /\ CopiesInv /\ CacheInv /\ [Next]_vars => CacheInv'
  BY NextCache
<1> QED  BY <1>1, InitCache, TypeInvHolds, CopiesInvHolds, PTL DEF Spec

\* Between requests, what the six families of keys hold is absent or what their
\* SELECTs return, except that a list of notes may name some that are gone.
THEOREM CacheIsCoherent == ASSUME OneAtATime  PROVE Spec => []CacheCoherent
<1>1. CacheInv => CacheCoherent
  BY DEF CacheInv, Pending, RightFor, CacheCoherent, Quiet
<1> QED  BY <1>1, CacheAlways, PTL

-----------------------------------------------------------------------------
(* Proof that the access list names the readers.                              *)

LEMMA MergeNames ==
  ASSUME NEW list \in AccessLists, NEW more \in Shares, NEW u \in UserIds
  PROVE  Merge(list, more)[u] # None <=> list[u] # None \/ more[u] # None
BY NoneIsNobody DEF Merge, Priority, AccessLists, Shares, Levels

LEMMA RightsNames ==
  ASSUME TablesOK, NEW n \in NoteIds, born[n] # None, NEW u \in UserIds
  PROVE  Rights(u, n) # {} <=>
           \/ u = born[n].owner
           \/ noteShares[n][u] # None
           \/ folderShares[born[n].folder][u] # None
           \/ <<u, born[n].owner>> \in manages
<1>1. /\ born[n].folder \in FolderIds
      /\ noteShares[n][u] \in Levels \cup {None} /\ folderShares[born[n].folder][u] \in Levels \cup {None}
      /\ "owner" # None /\ "manager" # None
  BY NoneIsNobody DEF TablesOK, Homes, Shares
<1>2. \A x : x \in Rights(u, n) <=>
        /\ x \in {"owner", "manager", folderShares[born[n].folder][u], noteShares[n][u]} /\ x # None
        /\ x = "owner" => u = born[n].owner
        /\ x = "manager" => <<u, born[n].owner>> \in manages
  BY DEF Rights
<1>3. u = born[n].owner => "owner" \in Rights(u, n)  BY <1>1, <1>2
<1>4. <<u, born[n].owner>> \in manages => "manager" \in Rights(u, n)  BY <1>1, <1>2
<1>5. noteShares[n][u] # None => noteShares[n][u] \in Rights(u, n)  BY <1>1, <1>2 DEF Levels
<1>6. folderShares[born[n].folder][u] # None => folderShares[born[n].folder][u] \in Rights(u, n)
  BY <1>1, <1>2 DEF Levels
<1>7. ASSUME NEW x \in Rights(u, n)
      PROVE  \/ u = born[n].owner
             \/ noteShares[n][u] # None
             \/ folderShares[born[n].folder][u] # None
             \/ <<u, born[n].owner>> \in manages
  BY <1>2, <1>7
<1> QED  BY <1>3, <1>4, <1>5, <1>6, <1>7

\* A step that is not one of GetNoteAccess's reads leaves the list alone.
LEMMA NotListing ==
  ASSUME ListInv, NEW r \in Requests, UNCHANGED access,
         pc[r] \notin {"shares", "folderShares", "managers", "done"},
         pc'[r] \notin {"shares", "folderShares", "managers"}
  PROVE  ListRight(r)'
<1>1. access'[r] = NoShares  BY DEF ListInv, ListRight
<1> QED  BY <1>1 DEF ListRight, Shown

LEMMA UseList ==
  ASSUME TypeInv, CopiesInv, ListInv, NEW r \in Requests, pc[r] \in Reads, NEW v \in Values(Key(r)),
         ValueTrue(Key(r), v), Key(r)[1] # "notes" => v = Fresh(Key(r)), Use(r, v)
  PROVE  ListRight(r)'
<1>0. /\ TablesOK /\ SlotsOK /\ RequestOK(r) /\ HoldsTrue(r) /\ JobOK(pc[r], job[r]) /\ ListRight(r)
      /\ UNCHANGED <<tables, job>> /\ access[r] \in AccessLists
  BY DEF TypeInv, CopiesInv, ListInv, RequestOK, Reads, Use, SlotsOK
<1> DEFINE n == job[r].note
<1>1. CASE pc[r] = "note"
  <2>1. UNCHANGED access /\ pc'[r] \notin {"shares", "folderShares", "managers"}
    BY <1>0, <1>1 DEF Use, UseNote, AuthoriseGetNote, AuthoriseUpdateNote, AuthoriseDeleteNote,
       AuthoriseShareNote, AuthoriseRemoveNoteShare, OwnerOnly, NoteOps, JobOK, Goto, Answer, SlotsOK
  <2> QED  BY <1>1, <2>1, NotListing
<1>2. CASE pc[r] = "access"
  <2>1. n \in NoteIds /\ SameHome(v, n)
    BY <1>0, <1>2, ReadKeys DEF JobOK, Listing, NoteOps, ValueTrue
  <2>2. CASE v.owner = job[r].who
    <3>1. access'[r] = OwnAccess(v) /\ pc'[r] = "shares"
      BY <1>0, <1>2, <2>2 DEF Use, UseAccessNote, Goto, SlotsOK
    <3>2. \A u \in UserIds : access'[r][u] # None <=> u = born[n].owner
      BY <2>1, <3>1, NoneIsNobody DEF OwnAccess, SameHome
    <3> QED  BY <1>0, <3>1, <3>2 DEF ListRight, Owner, Shown, tables
  <2>3. CASE v.owner # job[r].who
    BY <1>0, <1>2, <2>3, NotListing DEF Use, UseAccessNote, Answer, SlotsOK
  <2> QED  BY <2>2, <2>3
<1>3. CASE pc[r] \in {"shares", "folderShares"}
  <2>1. n \in NoteIds /\ SameHome(note[r], n) /\ note[r] \in NoteRows
    BY <1>0, <1>3, NoneIsNobody DEF JobOK, Listing, NoteOps, HoldsTrue, RequestOK, HoldsNote
  <2>2. /\ v \in Shares
        /\ pc[r] = "shares" => v = noteShares[n]
        /\ pc[r] = "folderShares" => v = folderShares[born[n].folder]
    BY <1>0, <1>3, <2>1, ReadKeys DEF Fresh, GetNoteShares, GetFolderShares, SameHome
  <2>3. access'[r] = Merge(access[r], v) /\ pc'[r] = IF pc[r] = "shares" THEN "folderShares" ELSE "managers"
    BY <1>0, <1>3 DEF Use, UseShares, Goto, SlotsOK
  <2>4. \A u \in UserIds : access'[r][u] # None <=> access[r][u] # None \/ v[u] # None
    BY <1>0, <2>2, <2>3, MergeNames
  <2> QED  BY <1>0, <1>3, <2>2, <2>3, <2>4 DEF ListRight, Owner, Sharer, FolderSharer, Shown, tables
<1>4. CASE pc[r] = "folder"
  BY <1>0, <1>4, NotListing DEF Use, AuthoriseDeleteFolder, Goto, Answer, SlotsOK
<1>5. CASE pc[r] \in {"notes", "folders"}
  BY <1>0, <1>5, NotListing DEF Use, Answer, SlotsOK
<1> QED  BY <1>1, <1>2, <1>3, <1>4, <1>5 DEF Reads

LEMMA ReadList ==
  ASSUME OneAtATime, TypeInv, CopiesInv, CacheInv, ListInv, NEW r \in Requests, Lookup(r) \/ Select(r) \/ Fill(r)
  PROVE  ListRight(r)'
<1>0. /\ TablesOK /\ TablesTrue /\ CacheOK /\ CacheTrue /\ SlotsOK /\ RequestOK(r) /\ HoldsTrue(r) /\ HoldsRight(r)
      /\ ListRight(r) /\ pc[r] \in Reads /\ \A q \in Requests : q = r
  BY NoneIsNobody
     DEF TypeInv, CopiesInv, CacheInv, ListInv, OneAtATime, Lookup, Select, Fill, RequestOK
<1>1. Key(r) \in Keys /\ pc[r] # "evict"  BY <1>0, ReadKeys DEF Reads
<1>2. ASSUME NEW v \in Values(Key(r)), ValueTrue(Key(r), v), Key(r)[1] # "notes" => v = Fresh(Key(r)), Use(r, v)
      PROVE  ListRight(r)'
  BY <1>0, <1>2, UseList
<1>3. CASE Lookup(r)
  <2>1. CASE cache[Key(r)] # None /\ Use(r, cache[Key(r)])
    <3>1. RightFor(Key(r), cache[Key(r)])  BY <1>0, <1>1, <2>1 DEF CacheInv, Pending
    <3> QED  BY <1>0, <1>1, <1>2, <2>1, <3>1 DEF CacheOK, CacheTrue, RightFor
  <2>2. CASE ~(cache[Key(r)] # None /\ Use(r, cache[Key(r)]))
    BY <1>0, <1>3, <2>2 DEF Lookup, ListRight, Owner, Sharer, FolderSharer, Shown, Rights, tables, Reads
  <2> QED  BY <2>1, <2>2
<1>4. CASE Select(r)
  <2>1. CASE Fresh(Key(r)) = None
    <3>1. /\ NoRow(r) /\ UNCHANGED <<tables, access, job>> /\ pc'[r] = "done"
          /\ answer'[r] = IF pc[r] = "access" THEN "OK" ELSE "Validation"
      BY <1>0, <1>4, <2>1 DEF Select, Local, NoRow, Answer, FormatValidationError, SlotsOK
    <3>2. CASE pc[r] = "access"  BY <1>0, <3>1, <3>2, NotListing
    <3>3. CASE pc[r] # "access"  BY <1>0, <3>1, <3>3 DEF ListRight, Shown
    <3> QED  BY <3>2, <3>3
  <2>2. CASE Fresh(Key(r)) # None /\ Redis
    BY <1>0, <1>4, <2>2 DEF Select, ListRight, Owner, Sharer, FolderSharer, Shown, Rights, tables, Reads
  <2>3. CASE Fresh(Key(r)) # None /\ ~Redis
    BY <1>0, <1>1, <1>2, <1>4, <2>3, FreshTypes, FreshTrue DEF Select
  <2> QED  BY <2>1, <2>2, <2>3
<1>5. CASE Fill(r)
  <2>1. /\ buffer[r] \in Values(Key(r)) /\ ValueTrue(Key(r), buffer[r]) /\ buffer[r] = Fresh(Key(r))
        /\ Use(r, buffer[r])
    BY <1>0, <1>5 DEF Fill, RequestOK, HoldsTrue, HoldsRight
  <2> QED  BY <1>2, <2>1
<1> QED  BY <1>3, <1>4, <1>5

\* The last of the four reads, and with it the whole list.
LEMMA ManagersList ==
  ASSUME TypeInv, CopiesInv, ListInv, NEW r \in Requests, GetManagersOfOwner(r)  PROVE ListRight(r)'
<1> DEFINE n == job[r].note
<1>0. /\ TablesOK /\ SlotsOK /\ RequestOK(r) /\ HoldsTrue(r) /\ ListRight(r) /\ pc[r] = "managers"
      /\ UNCHANGED <<tables, job>> /\ access[r] \in AccessLists
  BY DEF TypeInv, CopiesInv, ListInv, GetManagersOfOwner, SlotsOK
<1>1. n \in NoteIds /\ SameHome(note[r], n)
  BY <1>0, NoneIsNobody DEF RequestOK, JobOK, NoteOps, Listing, HoldsNote, HoldsTrue
<1>2. pc'[r] = "done" /\ access'[r] = Merge(access[r], ManagerAccess(note[r]))
  BY <1>0 DEF GetManagersOfOwner, Answer, SlotsOK
<1>3. ManagerAccess(note[r]) \in Shares  BY DEF ManagerAccess, Shares, Levels
<1>4. ASSUME NEW u \in UserIds  PROVE access'[r][u] # None <=> Rights(u, n) # {}
  <2>1. access'[r][u] # None <=> access[r][u] # None \/ ManagerAccess(note[r])[u] # None
    BY <1>0, <1>2, <1>3, MergeNames
  <2>2. ManagerAccess(note[r])[u] # None <=> <<u, born[n].owner>> \in manages
    BY <1>1, NoneIsNobody DEF ManagerAccess, SameHome, Levels
  <2>3. access[r][u] # None <=> Owner(r, u) \/ Sharer(r, u) \/ FolderSharer(r, u)  BY <1>0 DEF ListRight
  <2> QED  BY <1>0, <1>1, <2>1, <2>2, <2>3, RightsNames DEF Owner, Sharer, FolderSharer, SameHome
<1>5. \A u \in UserIds : Rights(u, n)' = Rights(u, n)  BY <1>0 DEF Rights, tables
<1> QED  BY <1>0, <1>2, <1>4, <1>5 DEF ListRight, Shown

LEMMA NextList ==
  ASSUME OneAtATime, TypeInv, CopiesInv, CacheInv, ListInv, [Next]_vars  PROVE ListInv'
<1>0. SlotsOK /\ ListInv /\ (\A q, r \in Requests : q = r) /\ Faults \subseteq {"expiry"}
      /\ \A r \in Requests : RequestOK(r) /\ ListRight(r)
  BY DEF TypeInv, OneAtATime, ListInv
<1>1. ASSUME NEW r \in Requests, ServerStep(r)  PROVE ListRight(r)'
  <2> USE <1>0, NotListing DEF SlotsOK, Goto, Answer, Local, Reading
  <2>1. CASE Handle(r)
    <3>1. Arrives(r)  BY <2>1, HandleArrives
    <3> QED  BY <3>1 DEF Arrives
  <2>2. CASE Lookup(r) \/ Select(r) \/ Fill(r)  BY <2>2, ReadList
  <2>3. CASE GetManagersOfOwner(r)  BY <2>3, ManagersList
  <2>4. CASE GetSharedNotes(r) \/ IsManagerOfOwner(r) \/ SelectNoteOwner(r) \/ SelectFolderOwner(r)
             \/ SelectFolderNotes(r)
    BY <2>4 DEF GetSharedNotes, IsManagerOfOwner, SelectNoteOwner, SelectFolderOwner, SelectFolderNotes
  <2>5. CASE GetFolderShareLevel(r) \/ GetNoteShareLevel(r)
    BY <2>5 DEF GetFolderShareLevel, GetNoteShareLevel, Granted
  <2>6. CASE Writes(r)
    BY <2>6 DEF Writes, CreateNote, UpdateNote, DeleteNote, ShareNote, RemoveNoteShare, CreateFolder,
       DeleteFolder, ShareFolder, RemoveFolderShare, Writing, Written, Rejected
  <2>7. CASE Evict(r) \/ StoreCreated(r) \/ PublishEvent(r)
    BY <2>7 DEF Evict, StoreCreated, PublishEvent
  <2>8. CASE Respond(r)  BY <2>8 DEF Respond, ListRight, Shown
  <2>9. ~DbFails(r)  BY DEF DbFails
  <2> QED  BY <1>1, <2>1, <2>2, <2>3, <2>4, <2>5, <2>6, <2>7, <2>8, <2>9 DEF ServerStep, Serve, Writes
<1>2. ASSUME OtherStep \/ UNCHANGED vars, NEW r \in Requests  PROVE ListRight(r)'
  <2>1. UNCHANGED <<pc, job, access, answer>> /\ (pc[r] = "idle" \/ UNCHANGED tables)
    BY <1>0, <1>2 DEF OtherStep, ChangeTeams, Expire, Crash, Local, vars, tables
  <2>2. CASE pc[r] = "idle"  BY <1>0, <2>1, <2>2, NotListing
  <2>3. CASE UNCHANGED tables
    <3>1. ListRight(r)  BY <1>0
    <3>2. \A u \in UserIds : Rights(u, job[r].note)' = Rights(u, job[r].note)
      BY <2>1, <2>3 DEF Rights, tables
    <3> QED  BY <2>1, <2>3, <3>1, <3>2 DEF ListRight, Owner, Sharer, FolderSharer, Shown, tables
  <2> QED  BY <2>1, <2>2, <2>3
<1> QED  BY <1>0, <1>1, <1>2 DEF Next, ListInv

\* GetNoteAccess, which builds the access list from four tables, and GetNoteByID,
\* which decides whom to admit, agree: the list names exactly the users with a
\* right on the note.
THEOREM AccessListAlwaysNamesTheReaders == ASSUME OneAtATime  PROVE Spec => []AccessListNamesTheReaders
<1>1. Init => ListInv  BY DEF Init, ListInv, ListRight, Shown
<1>2. TypeInv /\ CopiesInv /\ CacheInv /\ ListInv /\ [Next]_vars => ListInv'
  BY NextList
<1>3. ListInv => AccessListNamesTheReaders  BY DEF ListInv, ListRight, AccessListNamesTheReaders
<1> QED  BY <1>1, <1>2, <1>3, TypeInvHolds, CopiesInvHolds, CacheAlways, PTL DEF Spec
=============================================================================
