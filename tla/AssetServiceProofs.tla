------------------------- MODULE AssetServiceProofs --------------------------
(* Theorems about AssetService, for any users, folders, notes and number of   *)
(* requests, with or without Redis and under any faults.                      *)
EXTENDS AssetService, TLAPS

-----------------------------------------------------------------------------
(* Types: what a request asks for and holds at each of its labels.            *)

NoteOps == {"GetNote", "UpdateNote", "DeleteNote", "ShareNote", "RemoveNoteShare"}
FolderOps == {"DeleteFolder", "ShareFolder", "RemoveFolderShare"}
WriteOps == {"CreateNote", "CreateFolder"} \cup (NoteOps \ {"GetNote"}) \cup FolderOps
Deciders == {"folderLevel", "noteLevel", "manager"}
Listing == {"access", "shares", "folderShares", "managers"}

TablesOK ==
    /\ folderOwner \in [FolderIds -> Users \cup {None}]
    /\ notes \in [NoteIds -> NoteRows \cup {None}]
    /\ noteShares \in [NoteIds -> Shares]
    /\ folderShares \in [FolderIds -> Shares]
    /\ manages \subseteq Users \X Users
    /\ born \in [NoteIds -> Homes \cup {None}]
    /\ oldFolders \subseteq FolderIds

CacheOK == DOMAIN cache = Keys /\ \A k \in Keys : cache[k] # None => cache[k] \in Values(k)

SlotsOK ==
    /\ pc \in [Requests -> Labels]
    /\ io \in [Requests -> {"lookup", "select", "fill", None}]
    /\ job \in [Requests -> Jobs \cup {None}]
    /\ note \in [Requests -> NoteRows \cup {None}]
    /\ DOMAIN buffer = Requests
    /\ access \in [Requests -> AccessLists]
    /\ answer \in [Requests -> Answers \cup {None}]

\* Which operations come to a label, and the fields of the job filled in by then.
JobOK(l, j) ==
    /\ l = "note" => j.op \in NoteOps
    /\ l \in Listing \cup {"manager"} => j.op = "GetNote"
    /\ l \in {"folderLevel", "noteLevel"} => j.op \in {"GetNote", "UpdateNote"}
    /\ l = "ownerRow" => j.op = "DeleteNote"
    /\ l \in {"folder", "folderRow", "folderNotes"} => j.op = "DeleteFolder"
    /\ l \in {"notes", "folders"} => j.op \in {"GetUserNotes", "GetUserFolders"} /\ j.user \in UserIds
    /\ l = "shared" => j.op = "GetSharedNotes"
    /\ l \in {"write", "evict", "publish"} => j.op \in WriteOps
    /\ l = "store" => j.op \in {"CreateNote", "CreateFolder"}
    /\ j.op \in NoteOps => j.note \in NoteIds
    /\ j.op \in FolderOps => j.folder \in FolderIds
    /\ j.op \in {"ShareNote", "RemoveNoteShare", "ShareFolder", "RemoveFolderShare"} => j.user \in UserIds
    /\ j.op \in {"CreateNote", "UpdateNote"} => j.text \in Texts
    /\ j.op = "ShareNote" => j.level \in Levels \cup {"other"}
    /\ j.op \in {"ShareNote", "ShareFolder"} /\ l # "note" => j.level \in Levels
    /\ j.op = "CreateNote" /\ l \in {"evict", "store"} => j.note \in NoteIds /\ j.folder \in FolderIds
    /\ j.op = "CreateFolder" /\ l \in {"evict", "store"} => j.folder \in FolderIds

HoldsNote(l, j) ==
    \/ l \in Deciders \cup Listing \cup {"ownerRow"}
    \/ l \in {"write", "evict"} /\ j.op \in {"UpdateNote", "DeleteNote"}

HoldsNotes(l, j) == (l = "evict" \/ (l = "write" /\ Redis)) /\ j.op = "DeleteFolder"

RequestOK(r) ==
    /\ (pc[r] \in Reads) <=> (io[r] # None)
    /\ pc[r] # "idle" => job[r] \in Jobs
    /\ pc[r] \notin {"idle", "done"} => JobOK(pc[r], job[r])
    /\ HoldsNote(pc[r], job[r]) => note[r] \in NoteRows
    /\ note[r] # None => pc[r] # "idle" /\ job[r].op \in NoteOps /\ job[r].note \in NoteIds
    /\ io[r] = "fill" => buffer[r] \in Values(Key(r))
    /\ HoldsNotes(pc[r], job[r]) => buffer[r] \subseteq NoteIds

HistoryOK == heldRights \in [Requests -> SUBSET ({"owner", "manager"} \cup Levels)]

TypeInv == TablesOK /\ CacheOK /\ SlotsOK /\ HistoryOK /\ \A r \in Requests : RequestOK(r)

-----------------------------------------------------------------------------
(* Truth of copies.  A value stored or about to be stored under a key, and    *)
(* what a request has learned, stay true whatever happens to the tables:      *)
(* notes keep their home, and folders their owner, until they go for good.    *)

ValueTrue(k, v) ==
    /\ k[1] = "note" => SameHome(v, k[2])
    /\ k[1] = "notes" => \A n \in NoteIds : v[n] # None => SameHome(v[n], n) /\ v[n].owner = k[2]
    /\ k[1] = "folder" => k[2] \in oldFolders /\ folderOwner[k[2]] \in {None, v}

TablesTrue ==
    /\ \A n \in NoteIds : notes[n] # None => SameHome(notes[n], n)
    /\ \A f \in FolderIds : folderOwner[f] # None => f \in oldFolders
    /\ RowsIntegrity

CacheTrue == \A k \in Keys : cache[k] # None => ValueTrue(k, cache[k])

HoldsTrue(r) ==
    /\ note[r] # None => SameHome(note[r], job[r].note)
    /\ io[r] = "fill" => ValueTrue(Key(r), buffer[r])
    /\ pc[r] \in {"evict", "store"} /\ job[r].op = "CreateNote" =>
         born[job[r].note] = [owner |-> job[r].who, folder |-> job[r].folder]
    /\ pc[r] \in {"evict", "store"} /\ job[r].op = "CreateFolder" =>
         job[r].folder \in oldFolders /\ folderOwner[job[r].folder] \in {None, job[r].who}
    /\ pc[r] \in {"folderRow", "folderNotes", "write"} /\ job[r].op = "DeleteFolder" =>
         job[r].folder \in oldFolders /\ folderOwner[job[r].folder] \in {None, job[r].who}

CopiesInv == TablesTrue /\ CacheTrue /\ \A r \in Requests : HoldsTrue(r)

-----------------------------------------------------------------------------
(* Rights.  While a request is being decided on, its history holds at least   *)
(* the rights of the moment; once past the decision, those it was based on.   *)

Earned(r) ==
    /\ pc[r] = "idle" => access[r] = NoShares
    /\ pc[r] = "write" /\ job[r].op = "UpdateNote" => heldRights[r] \cap {"owner", "write"} # {}
    /\ pc[r] \in {"ownerRow", "write"} /\ job[r].op \in {"DeleteNote", "ShareNote", "RemoveNoteShare"} =>
         "owner" \in heldRights[r]
    /\ pc[r] = "access" => heldRights[r] # {}
    /\ pc[r] = "access" /\ note[r].owner = job[r].who => "owner" \in heldRights[r]
    /\ pc[r] \in {"shares", "folderShares", "managers"} => "owner" \in heldRights[r]
    /\ access[r] # NoShares => "owner" \in heldRights[r]
    /\ pc[r] = "done" /\ answer[r] = "OK" /\ job[r].op = "GetNote" => heldRights[r] # {}

HoldsRights(r) ==
    /\ Deciding(r) => Rights(job[r].who, job[r].note) \subseteq heldRights[r]
    /\ Earned(r)

RightsInv == \A r \in Requests : HoldsRights(r)
-----------------------------------------------------------------------------
(* Proof of the types.                                                        *)

LEMMA NoneIsNobody ==
  /\ None \notin UserIds /\ None \notin FolderIds /\ None \notin NoteIds /\ None \notin Texts
  /\ None \notin Levels /\ None \notin Answers /\ None \notin Homes /\ None \notin NoteRows
  /\ None \notin {"owner", "manager", "lookup", "select", "fill"} /\ Users \subseteq UserIds
  BY NoneAssumption, UsersAssumption

LEMMA InitTypes == Init => TypeInv
<1> SUFFICES ASSUME Init  PROVE TypeInv  OBVIOUS
<1>1. NoShares \in Shares /\ NoShares \in AccessLists  BY DEF NoShares, Shares, AccessLists
<1>2. TablesOK /\ SlotsOK /\ HistoryOK  BY <1>1 DEF Init, TablesOK, SlotsOK, HistoryOK, Labels
<1>3. CacheOK  BY DEF Init, CacheOK
<1>4. \A r \in Requests : RequestOK(r)
  BY NoneIsNobody DEF Init, RequestOK, Reads, HoldsNote, HoldsNotes, Deciders, Listing
<1> QED  BY <1>2, <1>3, <1>4 DEF TypeInv

\* The key of each cached read, and what is stored under it.
LEMMA ReadKeys ==
  ASSUME NEW r \in Requests, RequestOK(r), pc[r] \in Reads
  PROVE  /\ Key(r) \in Keys
         /\ pc[r] \in {"note", "access"} => Key(r) = <<"note", job[r].note>> /\ Values(Key(r)) = NoteRows
         /\ pc[r] = "shares" => Key(r) = <<"shares", job[r].note>> /\ Values(Key(r)) = Shares
         /\ pc[r] = "folderShares" => Key(r) = <<"folderShares", note[r].folder>> /\ Values(Key(r)) = Shares
         /\ pc[r] = "notes" => Key(r) = <<"notes", job[r].user>>
                                 /\ Values(Key(r)) = [NoteIds -> NoteRows \cup {None}]
         /\ pc[r] = "folders" => Key(r) = <<"folders", job[r].user>> /\ Values(Key(r)) = SUBSET FolderIds
         /\ pc[r] = "folder" => Key(r) = <<"folder", job[r].folder>> /\ Values(Key(r)) = UserIds
<1>1. JobOK(pc[r], job[r])  BY DEF RequestOK, Reads
<1> USE <1>1 DEF JobOK, NoteOps, FolderOps, Key, Keys, Values
<1>2. CASE pc[r] \in {"note", "access"}  BY <1>2 DEF Listing
<1>3. CASE pc[r] = "shares"  BY <1>3 DEF Listing
<1>4. CASE pc[r] = "folderShares"  BY <1>4 DEF Listing, RequestOK, HoldsNote, NoteRows
<1>5. CASE pc[r] \in {"notes", "folders"}  BY <1>5
<1>6. CASE pc[r] = "folder"  BY <1>6
<1> QED  BY <1>2, <1>3, <1>4, <1>5, <1>6 DEF Reads

\* A SELECT returns None or a value of the kind stored under the key.
LEMMA FreshTypes ==
  ASSUME TablesOK, NEW k \in Keys, Fresh(k) # None  PROVE Fresh(k) \in Values(k)
<1> USE DEF TablesOK, Fresh, Values
<1>1. CASE k[1] = "note"  BY <1>1 DEF Keys, GetNoteByID
<1>2. CASE k[1] = "shares"  BY <1>2 DEF Keys, GetNoteShares
<1>3. CASE k[1] = "folder"  BY <1>3, UsersAssumption DEF Keys, GetFolderByID
<1>4. CASE k[1] = "folderShares"  BY <1>4 DEF Keys, GetFolderShares
<1>5. CASE k[1] = "notes"  BY <1>5 DEF Keys, GetUserNotes
<1>6. CASE k[1] = "folders"  BY <1>6 DEF Keys, GetUserFolders
<1> QED  BY <1>1, <1>2, <1>3, <1>4, <1>5, <1>6 DEF Keys

LEMMA AccessTypes ==
  ASSUME NEW list \in AccessLists
  PROVE  /\ \A more \in Shares : Merge(list, more) \in AccessLists
         /\ \A v : Merge(list, ManagerAccess(v)) \in AccessLists /\ OwnAccess(v) \in AccessLists
  BY DEF Merge, ManagerAccess, OwnAccess, AccessLists, Shares, Levels

-----------------------------------------------------------------------------
(* What one request's step leaves alone.                                      *)

Step(r) == Handle(r) \/ Serve(r) \/ DbFails(r)
Writes(r) ==
    \/ CreateNote(r) \/ UpdateNote(r) \/ DeleteNote(r) \/ ShareNote(r) \/ RemoveNoteShare(r)
    \/ CreateFolder(r) \/ DeleteFolder(r) \/ ShareFolder(r) \/ RemoveFolderShare(r)

SlotStays(q) == /\ pc'[q] = pc[q] /\ io'[q] = io[q] /\ job'[q] = job[q] /\ note'[q] = note[q]
                /\ buffer'[q] = buffer[q] /\ access'[q] = access[q] /\ answer'[q] = answer[q]

LEMMA OthersUntouched ==
  ASSUME TypeInv, NEW r \in Requests, Step(r), NEW q \in Requests, q # r
  PROVE  SlotStays(q)
<1>0. SlotsOK /\ RequestOK(r)  BY DEF TypeInv
<1> USE <1>0 DEF SlotsOK, SlotStays, Goto, Answer, Local, Reading
<1>1. CASE Handle(r)
  <2>1. \E j : (\E l : Begin(r, j, l)) \/ (\E a : Refuse(r, j, a))
    BY <1>1 DEF Handle, HandleGetNote, HandleUpdateNote, HandleDeleteNote, HandleCreateNote,
       HandleShareNote, HandleRemoveNoteShare, HandleGetSharedNotes, HandleGetUserNotes, HandleGetUserFolders,
       HandleCreateFolder, HandleDeleteFolder, HandleFolderShares, Malformed, OwnList
  <2> QED  BY <2>1 DEF Begin, Refuse, Receive
<1>2. CASE DbFails(r)  BY <1>2 DEF DbFails
<1>3. ASSUME NEW v, Use(r, v)
      PROVE  /\ pc'[q] = pc[q] /\ io'[q] = io[q] /\ job'[q] = job[q] /\ note'[q] = note[q]
             /\ access'[q] = access[q] /\ answer'[q] = answer[q]
  <2> USE DEF Use
  <2>1. CASE pc[r] = "note"
    <3>1. job[r].op \in NoteOps  BY <2>1 DEF RequestOK, JobOK
    <3> QED
      BY <1>3, <2>1, <3>1 DEF NoteOps, UseNote, AuthoriseGetNote, AuthoriseUpdateNote, AuthoriseDeleteNote,
         AuthoriseShareNote, AuthoriseRemoveNoteShare, OwnerOnly
  <2>2. CASE pc[r] # "note"
    BY <1>3, <2>2 DEF UseAccessNote, UseShares, AuthoriseDeleteFolder
  <2> QED  BY <2>1, <2>2
<1>4. CASE Lookup(r)  BY <1>3, <1>4 DEF Lookup
<1>5. CASE Select(r)  BY <1>3, <1>5 DEF Select, NoRow
<1>6. CASE Fill(r)  BY <1>3, <1>6 DEF Fill
<1>7. CASE GetSharedNotes(r) \/ GetFolderShareLevel(r) \/ GetNoteShareLevel(r)
  BY <1>7 DEF GetSharedNotes, GetFolderShareLevel, GetNoteShareLevel
<1>8. CASE IsManagerOfOwner(r) \/ GetManagersOfOwner(r) \/ SelectNoteOwner(r)
  BY <1>8 DEF IsManagerOfOwner, GetManagersOfOwner, SelectNoteOwner
<1>9. CASE SelectFolderOwner(r) \/ SelectFolderNotes(r) \/ StoreCreated(r) \/ PublishEvent(r) \/ Respond(r)
  BY <1>9 DEF SelectFolderOwner, SelectFolderNotes, StoreCreated, PublishEvent, Respond
<1>10. CASE Evict(r)  BY <1>10 DEF Evict
<1> USE DEF Writing, Written, Rejected
<1>11. CASE CreateNote(r) \/ CreateFolder(r)  BY <1>11 DEF CreateNote, CreateFolder
<1>12. CASE UpdateNote(r) \/ DeleteNote(r)  BY <1>12 DEF UpdateNote, DeleteNote
<1>13. CASE ShareNote(r) \/ ShareFolder(r)  BY <1>13 DEF ShareNote, ShareFolder
<1>14. CASE RemoveNoteShare(r) \/ DeleteFolder(r) \/ RemoveFolderShare(r)
  BY <1>14 DEF RemoveNoteShare, DeleteFolder, RemoveFolderShare
<1> QED
  BY <1>1, <1>2, <1>4, <1>5, <1>6, <1>7, <1>8, <1>9, <1>10, <1>11, <1>12, <1>13, <1>14 DEF Step, Serve

LEMMA HistoryTypes ==
  ASSUME HistoryOK, RecordRights, TablesOK', SlotsOK', \A q \in Requests : RequestOK(q)'
  PROVE  HistoryOK'
<1>1. ASSUME NEW q \in Requests, Deciding(q)'
      PROVE  Rights(job[q].who, job[q].note)' \subseteq {"owner", "manager"} \cup Levels
  <2>1. job'[q] \in Jobs /\ job'[q].note \in NoteIds /\ job'[q].who \in UserIds
    BY <1>1, UsersAssumption DEF Deciding, RequestOK, JobOK, NoteOps, Listing, Jobs
  <2>2. CASE born'[job'[q].note] = None  BY <2>2 DEF Rights
  <2>3. CASE born'[job'[q].note] # None
    <3>1. born'[job'[q].note].folder \in FolderIds  BY <2>1, <2>3 DEF TablesOK, Homes
    <3>2. /\ folderShares'[born'[job'[q].note].folder][job'[q].who] \in Levels \cup {None}
          /\ noteShares'[job'[q].note][job'[q].who] \in Levels \cup {None}
      BY <2>1, <3>1 DEF TablesOK, Shares
    <3> QED  BY <2>3, <3>2 DEF Rights
  <2> QED  BY <2>2, <2>3
<1>2. ASSUME NEW q \in Requests
      PROVE  heldRights'[q] \in SUBSET ({"owner", "manager"} \cup Levels)
  BY <1>1 DEF RecordRights, HistoryOK
<1> QED  BY <1>2 DEF HistoryOK, RecordRights

\* It is enough to look at the tables, at Redis and at the request that moves.
LEMMA OwnTypes ==
  ASSUME TypeInv, NEW r \in Requests, Step(r), RecordRights, TablesOK', CacheOK', SlotsOK', RequestOK(r)'
  PROVE  TypeInv'
<1>1. ASSUME NEW q \in Requests, q # r  PROVE RequestOK(q)'
  <2>1. SlotStays(q)  BY <1>1, OthersUntouched
  <2>2. RequestOK(q) /\ (Key(q)' = Key(q))  BY <2>1 DEF TypeInv, SlotStays, Key
  <2> QED  BY <2>1, <2>2 DEF RequestOK, SlotStays, Values
<1>2. \A q \in Requests : RequestOK(q)'  BY <1>1
<1> QED  BY <1>2, HistoryTypes DEF TypeInv

LEMMA BeginTypes ==
  ASSUME TypeInv, NEW r \in Requests, Step(r), RecordRights, NEW j \in Jobs, NEW l \in Labels,
         JobOK(l, j), Begin(r, j, l),
         \/ l \in {"note", "notes", "folders", "shared", "folder"}
         \/ l = "write" /\ j.op \in {"CreateNote", "CreateFolder", "ShareFolder", "RemoveFolderShare"}
  PROVE  TypeInv'
<1>1. TablesOK /\ CacheOK /\ SlotsOK /\ RequestOK(r)  BY DEF TypeInv
<1>2. pc[r] = "idle" /\ note[r] = None  BY <1>1 DEF Begin, Receive, RequestOK
<1>3. TablesOK' /\ CacheOK'  BY <1>1 DEF Begin, Receive, TablesOK, CacheOK, tables
<1>4. SlotsOK' /\ io'[r] = (IF l \in Reads THEN FirstIo ELSE None)
  BY <1>1 DEF Begin, Receive, Goto, SlotsOK, FirstIo
<1>5. pc'[r] = l /\ job'[r] = j /\ note'[r] = None
  BY <1>1, <1>2 DEF Begin, Receive, Goto, SlotsOK
<1>6. RequestOK(r)'
  BY <1>4, <1>5, NoneIsNobody DEF RequestOK, FirstIo, HoldsNote, HoldsNotes, Deciders, Listing
<1> QED  BY <1>3, <1>4, <1>6, OwnTypes

LEMMA RefuseTypes ==
  ASSUME TypeInv, NEW r \in Requests, Step(r), RecordRights, NEW j \in Jobs, NEW a \in Answers,
         Refuse(r, j, a)
  PROVE  TypeInv'
<1>1. TablesOK /\ CacheOK /\ SlotsOK /\ RequestOK(r)  BY DEF TypeInv
<1>2. pc[r] = "idle" /\ note[r] = None  BY <1>1 DEF Refuse, Receive, RequestOK
<1>3. TablesOK' /\ CacheOK'  BY <1>1 DEF Refuse, Receive, TablesOK, CacheOK, tables
<1>4. SlotsOK'  BY <1>1 DEF Refuse, Receive, Answer, SlotsOK, Labels
<1>5. pc'[r] = "done" /\ job'[r] = j /\ note'[r] = None /\ io'[r] = None
  BY <1>1, <1>2 DEF Refuse, Receive, Answer, SlotsOK
<1>6. RequestOK(r)'
  BY <1>5, NoneIsNobody DEF RequestOK, Reads, HoldsNote, HoldsNotes, Deciders, Listing
<1> QED  BY <1>3, <1>4, <1>6, OwnTypes

LEMMA HandleTypes ==
  ASSUME TypeInv, NEW r \in Requests, Handle(r), RecordRights  PROVE TypeInv'
<1>0. Step(r) /\ Callers[r] \subseteq Users  BY OpsAssumption DEF Step
<1> USE <1>0, BeginTypes, RefuseTypes, UsersAssumption
        DEF Job, Jobs, AllOps, Labels, Reads, Answers, JobOK, NoteOps, FolderOps, WriteOps, Listing
<1>m. ASSUME NEW op \in AllOps, NEW who \in Callers[r], Malformed(r, op, who)  PROVE TypeInv'
  BY <1>m DEF Malformed
<1>1. CASE HandleGetNote(r)  BY <1>1, <1>m DEF HandleGetNote
<1>2. CASE HandleUpdateNote(r)  BY <1>2, <1>m DEF HandleUpdateNote
<1>3. CASE HandleDeleteNote(r)  BY <1>3, <1>m DEF HandleDeleteNote
<1>4. CASE HandleCreateNote(r)  BY <1>4, <1>m DEF HandleCreateNote
<1>5. CASE HandleShareNote(r)  BY <1>5, <1>m DEF HandleShareNote
<1>6. CASE HandleRemoveNoteShare(r)  BY <1>6, <1>m DEF HandleRemoveNoteShare
<1>7. CASE HandleGetSharedNotes(r)  BY <1>7 DEF HandleGetSharedNotes
<1>8. CASE HandleGetUserNotes(r)  BY <1>8, <1>m DEF HandleGetUserNotes, OwnList
<1>9. CASE HandleGetUserFolders(r)  BY <1>9, <1>m DEF HandleGetUserFolders, OwnList
<1>10. CASE HandleCreateFolder(r)  BY <1>10, <1>m DEF HandleCreateFolder
<1>11. CASE HandleDeleteFolder(r)  BY <1>11, <1>m DEF HandleDeleteFolder
<1>12. CASE HandleFolderShares(r)  BY <1>12 DEF HandleFolderShares
<1> QED  BY <1>1, <1>2, <1>3, <1>4, <1>5, <1>6, <1>7, <1>8, <1>9, <1>10, <1>11, <1>12 DEF Handle

\* Whatever of the right kind a cached read returns, the request goes on well typed.
LEMMA UseTypes ==
  ASSUME TypeInv, NEW r \in Requests, pc[r] \in Reads, NEW v \in Values(Key(r)), Use(r, v),
         DOMAIN buffer' = Requests
  PROVE  TablesOK' /\ SlotsOK' /\ RequestOK(r)' /\ pc'[r] \notin {"evict", "store"}
<1>0. TablesOK /\ SlotsOK /\ RequestOK(r) /\ JobOK(pc[r], job[r]) /\ job[r] \in Jobs
  BY DEF TypeInv, RequestOK, Reads
<1>1. TablesOK' /\ job' = job /\ job'[r] = job[r]  BY <1>0 DEF Use, TablesOK, tables
<1> USE <1>0, <1>1, NoneIsNobody DEF Goto, Answer, FirstIo
<1>2. CASE pc[r] = "note"
  <2>1. v \in NoteRows /\ job[r].op \in NoteOps /\ job[r].note \in NoteIds
    BY <1>2, ReadKeys DEF JobOK
  <2>2. UseNote(r, v)  BY <1>2 DEF Use
  <2>3. \/ \E l \in {"access", "folderLevel", "ownerRow", "write"} : Goto(r, l) /\ JobOK(l, job[r])
        \/ Answer(r, "Forbidden") \/ Answer(r, "Validation")
    <3> HIDE DEF Goto, Answer
    <3> USE <2>1, <2>2 DEF UseNote, NoteOps, JobOK, FolderOps, WriteOps, Listing, OwnerOnly
    <3>1. CASE job[r].op = "GetNote"  BY <3>1 DEF AuthoriseGetNote
    <3>2. CASE job[r].op = "UpdateNote"  BY <3>2 DEF AuthoriseUpdateNote
    <3>3. CASE job[r].op = "DeleteNote"  BY <3>3 DEF AuthoriseDeleteNote
    <3>4. CASE job[r].op = "ShareNote"  BY <3>4 DEF AuthoriseShareNote, Jobs
    <3>5. CASE job[r].op = "RemoveNoteShare"  BY <3>5 DEF AuthoriseRemoveNoteShare
    <3> QED  BY <3>1, <3>2, <3>3, <3>4, <3>5
  <2>4. note' = [note EXCEPT ![r] = v] /\ access' = access  BY <2>2 DEF UseNote
  <2>5. SlotsOK'  BY <2>1, <2>3, <2>4 DEF SlotsOK, Labels, Reads, Answers
  <2>6. RequestOK(r)'
    BY <2>1, <2>3, <2>4 DEF SlotsOK, RequestOK, Reads, HoldsNote, HoldsNotes, NoteOps, Deciders, Listing
  <2> QED  BY <2>3, <2>5, <2>6 DEF SlotsOK
<1>3. CASE pc[r] = "access"
  <2>1. UseAccessNote(r, v) /\ job[r].op = "GetNote" /\ job[r].note \in NoteIds /\ note[r] \in NoteRows
    BY <1>3 DEF Use, JobOK, NoteOps, Listing, RequestOK, HoldsNote
  <2>2. OwnAccess(v) \in AccessLists  BY DEF OwnAccess, AccessLists
  <2>3. SlotsOK'  BY <2>1, <2>2 DEF UseAccessNote, SlotsOK, Labels, Reads, Answers
  <2>4. RequestOK(r)'
    BY <1>3, <2>1 DEF UseAccessNote, SlotsOK, RequestOK, Reads, HoldsNote, HoldsNotes, JobOK, Listing, Deciders
  <2> QED  BY <2>1, <2>3, <2>4 DEF UseAccessNote, SlotsOK
<1>4. CASE pc[r] \in {"shares", "folderShares"}
  <2>1. /\ UseShares(r, v) /\ job[r].op = "GetNote" /\ job[r].note \in NoteIds /\ note[r] \in NoteRows
        /\ v \in Shares
    BY <1>4, ReadKeys DEF Use, JobOK, NoteOps, Listing, RequestOK, HoldsNote
  <2>2. Merge(access[r], v) \in AccessLists  BY <2>1, AccessTypes DEF SlotsOK
  <2>3. SlotsOK'  BY <2>1, <2>2 DEF UseShares, SlotsOK, Labels, Reads
  <2>4. RequestOK(r)'
    BY <1>4, <2>1 DEF UseShares, SlotsOK, RequestOK, Reads, HoldsNote, HoldsNotes, JobOK, Listing, Deciders
  <2> QED  BY <1>4, <2>1, <2>3, <2>4 DEF UseShares, SlotsOK
<1>5. CASE pc[r] = "folder"
  <2>1. AuthoriseDeleteFolder(r, v) /\ job[r].op = "DeleteFolder" /\ job[r].folder \in FolderIds
    BY <1>5 DEF Use, JobOK, FolderOps
  <2>2. SlotsOK'  BY <2>1 DEF AuthoriseDeleteFolder, SlotsOK, Labels, Reads, Answers
  <2>3. RequestOK(r)'
    BY <1>5, <2>1 DEF AuthoriseDeleteFolder, SlotsOK, RequestOK, Reads, HoldsNote, HoldsNotes, JobOK, Listing,
       Deciders, WriteOps, FolderOps, NoteOps
  <2> QED  BY <2>1, <2>2, <2>3 DEF AuthoriseDeleteFolder, SlotsOK
<1>6. CASE pc[r] \in {"notes", "folders"}
  <2>1. Answer(r, "OK") /\ UNCHANGED <<note, access>>  BY <1>6 DEF Use
  <2>2. SlotsOK'  BY <2>1 DEF SlotsOK, Labels, Answers
  <2>3. RequestOK(r)'
    BY <1>6, <2>1 DEF SlotsOK, RequestOK, Reads, HoldsNote, HoldsNotes, Listing, Deciders
  <2> QED  BY <2>1, <2>2, <2>3 DEF SlotsOK
<1> QED  BY <1>2, <1>3, <1>4, <1>5, <1>6 DEF Reads

LEMMA ReadTypes ==
  ASSUME TypeInv, NEW r \in Requests, Lookup(r) \/ Select(r) \/ Fill(r), RecordRights  PROVE TypeInv'
<1>0. /\ TablesOK /\ CacheOK /\ SlotsOK /\ RequestOK(r) /\ Step(r)
      /\ io[r] # None /\ pc[r] \in Reads /\ Key(r) \in Keys
  BY NoneIsNobody, ReadKeys DEF TypeInv, Step, Serve, Lookup, Select, Fill, RequestOK
<1> USE <1>0, OwnTypes, NoneIsNobody
<1>1. CASE Lookup(r)
  <2>1. CacheOK' /\ DOMAIN buffer' = Requests  BY <1>1 DEF Lookup, CacheOK, SlotsOK
  <2>2. CASE cache[Key(r)] # None /\ Use(r, cache[Key(r)])
    BY <2>1, <2>2, UseTypes DEF CacheOK
  <2>3. CASE io' = [io EXCEPT ![r] = "select"] /\ UNCHANGED <<tables, pc, job, note, access, answer>>
    BY <1>1, <2>1, <2>3 DEF Lookup, TablesOK, tables, SlotsOK, RequestOK
  <2> QED  BY <1>1, <2>2, <2>3 DEF Lookup
<1>2. CASE Select(r)
  <2> DEFINE v == Fresh(Key(r))
  <2>1. CacheOK' /\ (v # None => v \in Values(Key(r)))  BY <1>2, FreshTypes DEF Select, CacheOK
  <2>2. CASE v = None
    <3>1. NoRow(r) /\ Local /\ UNCHANGED tables  BY <1>2, <2>2 DEF Select
    <3>2. TablesOK' /\ SlotsOK'
      BY <3>1 DEF NoRow, Local, tables, TablesOK, SlotsOK, Answer, FormatValidationError, Answers, Labels
    <3>3. RequestOK(r)'
      BY <3>1 DEF NoRow, Local, SlotsOK, Answer, RequestOK, Reads, HoldsNote, HoldsNotes, Listing, Deciders
    <3> QED  BY <2>1, <3>2, <3>3
  <2>3. CASE v # None /\ Redis
    <3>1. /\ buffer' = [buffer EXCEPT ![r] = v] /\ io' = [io EXCEPT ![r] = "fill"]
          /\ UNCHANGED <<tables, pc, job, note, access, answer>>
      BY <1>2, <2>3 DEF Select
    <3>2. TablesOK' /\ SlotsOK' /\ Key(r)' = Key(r)  BY <3>1 DEF tables, TablesOK, SlotsOK, Key
    <3>3. RequestOK(r)'
      BY <2>1, <2>3, <3>1, <3>2 DEF SlotsOK, RequestOK, Values, HoldsNotes, Reads
    <3> QED  BY <2>1, <3>2, <3>3
  <2>4. CASE v # None /\ ~Redis
    <3>1. Use(r, v) /\ DOMAIN buffer' = Requests  BY <1>2, <2>4 DEF Select, SlotsOK
    <3> QED  BY <2>1, <2>4, <3>1, UseTypes
  <2> QED  BY <2>2, <2>3, <2>4
<1>3. CASE Fill(r)
  <2>1. buffer[r] \in Values(Key(r)) /\ DOMAIN buffer' = Requests /\ Use(r, buffer[r])
    BY <1>3 DEF Fill, RequestOK, SlotsOK
  <2>2. CacheOK'  BY <1>3, <2>1 DEF Fill, CacheOK
  <2> QED  BY <2>1, <2>2, UseTypes
<1> QED  BY <1>1, <1>2, <1>3

\* The statements that only read.
LEMMA PlainReadTypes ==
  ASSUME TypeInv, NEW r \in Requests, RecordRights,
         \/ GetSharedNotes(r) \/ GetFolderShareLevel(r) \/ GetNoteShareLevel(r) \/ IsManagerOfOwner(r)
         \/ GetManagersOfOwner(r) \/ SelectNoteOwner(r) \/ SelectFolderOwner(r) \/ SelectFolderNotes(r)
  PROVE  TypeInv'
<1>0. /\ TablesOK /\ CacheOK /\ SlotsOK /\ RequestOK(r) /\ Step(r)
      /\ pc[r] \in {"shared", "folderLevel", "noteLevel", "manager", "managers", "ownerRow", "folderRow", "folderNotes"}
  BY DEF TypeInv, Step, Serve, GetSharedNotes, GetFolderShareLevel, GetNoteShareLevel, IsManagerOfOwner,
     GetManagersOfOwner, SelectNoteOwner, SelectFolderOwner, SelectFolderNotes
<1>1. job[r] \in Jobs /\ JobOK(pc[r], job[r])  BY <1>0 DEF RequestOK
<1>2. TablesOK' /\ CacheOK'
  <2>1. UNCHANGED <<tables, cache>>
    BY DEF GetSharedNotes, GetFolderShareLevel, GetNoteShareLevel, IsManagerOfOwner,
       GetManagersOfOwner, SelectNoteOwner, SelectFolderOwner, SelectFolderNotes, Reading
  <2> QED  BY <1>0, <2>1 DEF TablesOK, CacheOK, tables
<1>3. ASSUME NEW l \in {"access", "noteLevel", "manager", "denied", "write", "folderNotes"},
             Goto(r, l), JobOK(l, job[r]), Local,
             HoldsNote(l, job[r]) => note[r] \in NoteRows, ~HoldsNotes(l, job[r])
      PROVE  TypeInv'
  <2>1. SlotsOK'  BY <1>0, <1>3 DEF SlotsOK, Goto, Local, Labels, Reads, FirstIo
  <2>2. RequestOK(r)'
    BY <1>0, <1>3, NoneIsNobody DEF SlotsOK, RequestOK, Goto, Local, FirstIo, Reads, HoldsNote, HoldsNotes
  <2> QED  BY <1>0, <1>2, <2>1, <2>2, OwnTypes
<1>4. ASSUME NEW a \in Answers, Answer(r, a), UNCHANGED <<job, note, buffer>>,
             access' = access \/ access' = [access EXCEPT ![r] = Merge(access[r], ManagerAccess(note[r]))]
      PROVE  TypeInv'
  <2>1. Merge(access[r], ManagerAccess(note[r])) \in AccessLists  BY <1>0, AccessTypes DEF SlotsOK
  <2>2. SlotsOK'  BY <1>0, <1>4, <2>1 DEF SlotsOK, Answer, Labels
  <2>3. RequestOK(r)'
    BY <1>0, <1>4, NoneIsNobody DEF SlotsOK, RequestOK, Answer, Reads, HoldsNote, HoldsNotes, Deciders, Listing
  <2> QED  BY <1>0, <1>2, <2>2, <2>3, OwnTypes
<1> USE <1>0, <1>1, <1>3, <1>4
        DEF RequestOK, JobOK, NoteOps, WriteOps, FolderOps, Listing, Deciders, HoldsNote, HoldsNotes, Answers
<1>5. CASE GetSharedNotes(r)  BY <1>5 DEF GetSharedNotes, Reading, Local
<1>6. CASE GetFolderShareLevel(r)  BY <1>6 DEF GetFolderShareLevel, Reading, Granted
<1>7. CASE GetNoteShareLevel(r)  BY <1>7 DEF GetNoteShareLevel, Reading, Granted
<1>8. CASE IsManagerOfOwner(r)  BY <1>8 DEF IsManagerOfOwner, Reading, Local
<1>9. CASE GetManagersOfOwner(r)  BY <1>9 DEF GetManagersOfOwner
<1>10. CASE SelectNoteOwner(r)  BY <1>10 DEF SelectNoteOwner, Reading, Local
<1>11. CASE SelectFolderOwner(r)  BY <1>11 DEF SelectFolderOwner, Reading, Local, FormatValidationError
<1>12. CASE SelectFolderNotes(r)
  <2>1. SlotsOK'  BY <1>12 DEF SelectFolderNotes, SlotsOK, Goto, Labels, Reads
  <2>2. RequestOK(r)'  BY <1>12, NoneIsNobody DEF SelectFolderNotes, SlotsOK, Goto, Reads, NotesIn
  <2> QED  BY <1>2, <2>1, <2>2, OwnTypes
<1> QED  BY <1>5, <1>6, <1>7, <1>8, <1>9, <1>10, <1>11, <1>12

\* A write ends in eviction or in an answer.
LEMMA WriteTypes ==
  ASSUME TypeInv, NEW r \in Requests, RecordRights, Writes(r)
  PROVE  TypeInv'
<1>0. /\ TablesOK /\ CacheOK /\ SlotsOK /\ RequestOK(r) /\ Step(r)
      /\ pc[r] = "write" /\ UNCHANGED <<cache, note, access>>
  BY DEF TypeInv, Step, Serve, Writes, CreateNote, UpdateNote, DeleteNote, ShareNote, RemoveNoteShare,
     CreateFolder, DeleteFolder, ShareFolder, RemoveFolderShare, Writing
<1>1. job[r] \in Jobs /\ JobOK("write", job[r]) /\ CacheOK'  BY <1>0 DEF RequestOK, CacheOK
<1>2. WriteErrors(job[r].op) \subseteq Answers  BY DEF WriteErrors, Answers, FormatValidationError
<1>3. ASSUME TablesOK', NEW j \in Jobs, job' = [job EXCEPT ![r] = j], UNCHANGED buffer,
             j.op = job[r].op, j.note = job[r].note \/ j.op = "CreateNote",
             JobOK("write", j), JobOK("evict", j),
             \/ Redis /\ Goto(r, "evict")
             \/ \E a \in Answers : Answer(r, a)
      PROVE  TypeInv'
  <2>1. SlotsOK'  BY <1>0, <1>3 DEF SlotsOK, Goto, Answer, Labels, Reads
  <2>2. RequestOK(r)'
    BY <1>0, <1>3, NoneIsNobody
       DEF SlotsOK, RequestOK, Goto, Answer, Reads, HoldsNote, HoldsNotes, Deciders, Listing, NoteOps
  <2> QED  BY <1>0, <1>1, <1>3, <2>1, <2>2, OwnTypes
<1>4. ASSUME TablesOK', UNCHANGED <<job, buffer>>, job[r].op \notin {"CreateNote", "CreateFolder"},
             Written(r) \/ \E a \in Answers : Answer(r, a)
      PROVE  TypeInv'
  <2>1. job' = [job EXCEPT ![r] = job[r]]  BY <1>0, <1>4 DEF SlotsOK
  <2>2. JobOK("evict", job[r])  BY <1>1, <1>4 DEF JobOK, Listing
  <2> QED  BY <1>1, <1>2, <1>3, <1>4, <2>1, <2>2 DEF Written, Answers
<1>5. ASSUME NEW a \in {"Internal", "Validation"}, Rejected(r, a)  PROVE TypeInv'
  <2>1. SlotsOK' /\ TablesOK'
    BY <1>0, <1>5 DEF SlotsOK, TablesOK, tables, Rejected, Answer, Labels, Answers
  <2>2. RequestOK(r)'
    BY <1>0, <1>5, NoneIsNobody
       DEF SlotsOK, RequestOK, Rejected, Answer, Reads, HoldsNote, HoldsNotes, Deciders, Listing
  <2> QED  BY <1>0, <1>1, <2>1, <2>2, OwnTypes
<1> USE <1>0, <1>1, <1>2 DEF Writing
<1>6. CASE CreateNote(r)
  <2>1. CASE Rejected(r, "Internal")  BY <1>5, <2>1
  <2>2. CASE ~Rejected(r, "Internal")
    <3>1. PICK n \in NoteIds :
            /\ notes' = [notes EXCEPT ![n] = NewNote(job[r])]
            /\ born' = [born EXCEPT ![n] = [owner |-> job[r].who, folder |-> job[r].folder]]
            /\ job' = [job EXCEPT ![r].note = n]
      BY <1>6, <2>2 DEF CreateNote
    <3>2. /\ job[r].op = "CreateNote" /\ job[r].folder \in FolderIds /\ job[r].text \in Texts /\ job[r].who \in UserIds
          /\ UNCHANGED <<folderOwner, noteShares, folderShares, manages, oldFolders, buffer>> /\ Written(r)
      BY <1>6, <2>2, NoneIsNobody DEF CreateNote, JobOK, Jobs
    <3>3. TablesOK'  BY <3>1, <3>2 DEF TablesOK, NewNote, NoteRows, Homes
    <3> DEFINE j == [job[r] EXCEPT !.note = n]
    <3>4. /\ j \in Jobs /\ j.op = job[r].op /\ j.note = n /\ j.folder = job[r].folder
          /\ j.text = job[r].text /\ j.level = job[r].level /\ j.user = job[r].user
      BY DEF Jobs
    <3>5. JobOK("write", j) /\ JobOK("evict", j)
      BY <3>2, <3>4 DEF JobOK, Listing, NoteOps, FolderOps
    <3>6. job' = [job EXCEPT ![r] = j]  BY <3>1 DEF SlotsOK
    <3> QED  BY <1>3, <3>2, <3>3, <3>4, <3>5, <3>6 DEF Written, Answers
  <2> QED  BY <2>1, <2>2
<1>7. CASE UpdateNote(r)
  <2>1. TablesOK'  BY <1>7 DEF UpdateNote, TablesOK, NoteRows, JobOK, NoteOps
  <2> QED  BY <1>4, <1>7, <2>1 DEF UpdateNote
<1>8. CASE DeleteNote(r)
  <2>1. TablesOK'  BY <1>8 DEF DeleteNote, TablesOK, NoShares, Shares, JobOK, NoteOps
  <2> QED  BY <1>4, <1>8, <2>1 DEF DeleteNote
<1>9. CASE ShareNote(r)
  <2>1. CASE Rejected(r, FormatValidationError)  BY <1>5, <2>1 DEF FormatValidationError
  <2>2. CASE ~Rejected(r, FormatValidationError)
    <3>1. job[r].op = "ShareNote"  BY <1>9 DEF ShareNote
    <3>2. job[r].note \in NoteIds /\ job[r].user \in UserIds /\ job[r].level \in Levels
      BY <3>1 DEF JobOK, NoteOps
    <3>3. /\ noteShares' = [noteShares EXCEPT ![job[r].note][job[r].user] = job[r].level]
          /\ UNCHANGED <<folderOwner, notes, folderShares, manages, born, oldFolders, job, buffer>> /\ Written(r)
      BY <1>9, <2>2 DEF ShareNote
    <3>4. TablesOK'  BY <3>2, <3>3 DEF TablesOK, Shares
    <3> QED  BY <1>4, <3>1, <3>3, <3>4
  <2> QED  BY <2>1, <2>2
<1>10. CASE RemoveNoteShare(r)
  <2>1. TablesOK'  BY <1>10 DEF RemoveNoteShare, TablesOK, Shares, JobOK, NoteOps
  <2> QED  BY <1>4, <1>10, <2>1 DEF RemoveNoteShare
<1>11. CASE CreateFolder(r)
  <2>1. PICK f \in FolderIds : /\ folderOwner' = [folderOwner EXCEPT ![f] = job[r].who]
                               /\ oldFolders' = oldFolders \cup {f}
                               /\ job' = [job EXCEPT ![r].folder = f]
    BY <1>11 DEF CreateFolder
  <2>2. /\ UNCHANGED <<notes, noteShares, folderShares, manages, born, buffer>> /\ Written(r)
        /\ job[r].op = "CreateFolder"
    BY <1>11 DEF CreateFolder
  <2>3. TablesOK'  BY <2>1, <2>2 DEF TablesOK, Jobs
  <2> DEFINE j == [job[r] EXCEPT !.folder = f]
  <2>4. j \in Jobs /\ j.op = job[r].op /\ j.note = job[r].note /\ j.folder = f
    BY DEF Jobs
  <2>5. JobOK("write", j) /\ JobOK("evict", j)
    BY <2>2, <2>4 DEF JobOK, Listing, NoteOps, FolderOps, WriteOps
  <2>6. job' = [job EXCEPT ![r] = j]  BY <2>1 DEF SlotsOK
  <2> QED  BY <1>3, <2>2, <2>3, <2>4, <2>5, <2>6 DEF Written, Answers
<1>12. CASE DeleteFolder(r)
  <2>1. TablesOK'  BY <1>12 DEF DeleteFolder, TablesOK, NoShares, Shares, JobOK, FolderOps
  <2> QED  BY <1>4, <1>12, <2>1 DEF DeleteFolder
<1>13. CASE ShareFolder(r)
  <2>1. CASE Rejected(r, "Internal")  BY <1>5, <2>1
  <2>2. CASE ~Rejected(r, "Internal")
    <3>1. job[r].op = "ShareFolder"  BY <1>13 DEF ShareFolder
    <3>2. job[r].folder \in FolderIds /\ job[r].user \in UserIds /\ job[r].level \in Levels
      BY <3>1 DEF JobOK, FolderOps
    <3>3. /\ folderShares' = [folderShares EXCEPT ![job[r].folder][job[r].user] = job[r].level]
          /\ UNCHANGED <<folderOwner, notes, noteShares, manages, born, oldFolders, job, buffer>> /\ Written(r)
      BY <1>13, <2>2 DEF ShareFolder
    <3>4. TablesOK'  BY <3>2, <3>3 DEF TablesOK, Shares
    <3> QED  BY <1>4, <3>1, <3>3, <3>4
  <2> QED  BY <2>1, <2>2
<1>14. CASE RemoveFolderShare(r)
  <2>1. TablesOK'  BY <1>14 DEF RemoveFolderShare, TablesOK, Shares, JobOK, FolderOps
  <2> QED  BY <1>4, <1>14, <2>1 DEF RemoveFolderShare
<1> QED  BY <1>6, <1>7, <1>8, <1>9, <1>10, <1>11, <1>12, <1>13, <1>14 DEF Writes

\* What follows a write, and the failure of a statement.
LEMMA FinishTypes ==
  ASSUME TypeInv, NEW r \in Requests, RecordRights,
         Evict(r) \/ StoreCreated(r) \/ PublishEvent(r) \/ Respond(r) \/ DbFails(r)
  PROVE  TypeInv'
<1>0. /\ TablesOK /\ CacheOK /\ SlotsOK /\ RequestOK(r) /\ Step(r)
  BY DEF TypeInv, Step, Serve
<1>1. NoShares \in AccessLists  BY DEF NoShares, AccessLists
<1>2. TablesOK'
  BY <1>0 DEF Evict, StoreCreated, PublishEvent, Respond, DbFails, Reading, tables, TablesOK
<1> USE <1>0, <1>1, <1>2, OwnTypes, NoneIsNobody
        DEF Goto, Answer, Labels, Reads, Answers, HoldsNote, HoldsNotes, Deciders, Listing
<1>3. CASE Evict(r)
  <2>1. CacheOK'  BY <1>3 DEF Evict, CacheOK
  <2>2. job[r].op \in {"CreateNote", "CreateFolder"} => JobOK("store", job[r])
    BY <1>3 DEF Evict, RequestOK, JobOK
  <2>3. SlotsOK'  BY <1>3 DEF Evict, SlotsOK
  <2>4. RequestOK(r)'  BY <1>3, <2>2 DEF Evict, SlotsOK, RequestOK, JobOK
  <2> QED  BY <2>1, <2>3, <2>4
<1>4. CASE StoreCreated(r)
  <2>0. job[r] \in Jobs /\ JobOK("store", job[r]) /\ job[r].who \in UserIds
    BY <1>4 DEF StoreCreated, RequestOK, Jobs
  <2>1. /\ job[r].op = "CreateNote" =>
            <<"note", job[r].note>> \in Keys /\ NewNote(job[r]) \in Values(<<"note", job[r].note>>)
        /\ job[r].op = "CreateFolder" =>
            <<"folder", job[r].folder>> \in Keys /\ job[r].who \in Values(<<"folder", job[r].folder>>)
    BY <2>0 DEF JobOK, NewNote, Values, NoteRows, Keys
  <2>2. CacheOK'  BY <1>4, <2>1 DEF StoreCreated, CacheOK
  <2>3. SlotsOK'  BY <1>4 DEF StoreCreated, SlotsOK, Local
  <2>4. RequestOK(r)'  BY <1>4 DEF StoreCreated, SlotsOK, RequestOK, JobOK, Local, WriteOps
  <2> QED  BY <2>2, <2>3, <2>4
<1>5. CASE PublishEvent(r)
  <2>1. CacheOK' /\ SlotsOK'  BY <1>5 DEF PublishEvent, Reading, Local, CacheOK, SlotsOK
  <2>2. RequestOK(r)'  BY <1>5 DEF PublishEvent, Reading, Local, SlotsOK, RequestOK
  <2> QED  BY <2>1, <2>2
<1>6. CASE Respond(r)
  <2>1. CacheOK' /\ SlotsOK'  BY <1>6 DEF Respond, CacheOK, SlotsOK
  <2>2. RequestOK(r)'  BY <1>6 DEF Respond, SlotsOK, RequestOK
  <2> QED  BY <2>1, <2>2
<1>7. CASE DbFails(r)
  <2>1. PICK a \in Answers : Answer(r, a)
    <3>1. ReadError(pc[r]) \in Answers /\ WriteErrors(job[r].op) \subseteq Answers
      BY DEF ReadError, WriteErrors, FormatValidationError
    <3> QED  BY <1>7, <3>1 DEF DbFails
  <2>2. CacheOK' /\ SlotsOK'  BY <1>7, <2>1 DEF DbFails, CacheOK, SlotsOK
  <2>3. pc[r] # "idle"  BY <1>7 DEF DbFails, RequestOK
  <2>4. RequestOK(r)'  BY <1>7, <2>1, <2>3 DEF DbFails, SlotsOK, RequestOK
  <2> QED  BY <2>2, <2>4
<1> QED  BY <1>3, <1>4, <1>5, <1>6, <1>7

LEMMA OtherTypes ==
  ASSUME TypeInv, OtherStep \/ UNCHANGED vars  PROVE TypeInv'
<1>0. TablesOK /\ CacheOK /\ SlotsOK /\ HistoryOK /\ \A q \in Requests : RequestOK(q)  BY DEF TypeInv
<1>1. ASSUME TablesOK', CacheOK', RecordRights, \A q \in Requests : SlotStays(q),
             UNCHANGED <<pc, io, job, note, buffer, access, answer>>
      PROVE  TypeInv'
  <2>1. SlotsOK'  BY <1>0, <1>1 DEF SlotsOK
  <2>2. \A q \in Requests : RequestOK(q)'
    BY <1>0, <1>1 DEF RequestOK, SlotStays, Key, Values
  <2> QED  BY <1>0, <1>1, <2>1, <2>2, HistoryTypes DEF TypeInv
<1>2. ASSUME NEW r \in Requests, ChangeTeams(r), RecordRights  PROVE TypeInv'
  <2>1. manages' \subseteq Users \X Users  BY <1>0, <1>2 DEF ChangeTeams, TablesOK
  <2> QED  BY <1>0, <1>1, <1>2, <2>1 DEF ChangeTeams, TablesOK, CacheOK, Local, SlotStays
<1>3. ASSUME NEW k \in Keys, Expire(k), RecordRights  PROVE TypeInv'
  BY <1>0, <1>1, <1>3 DEF Expire, TablesOK, CacheOK, Local, SlotStays, tables
<1>4. CASE Crash /\ RecordRights
  <2>1. NoShares \in AccessLists  BY DEF NoShares, AccessLists
  <2>2. TablesOK' /\ CacheOK' /\ SlotsOK'
    BY <1>0, <1>4, <2>1 DEF Crash, TablesOK, CacheOK, SlotsOK, tables, Labels
  <2>3. \A q \in Requests : RequestOK(q)'
    BY <1>4, NoneIsNobody DEF Crash, RequestOK, Reads, HoldsNote, HoldsNotes, Deciders, Listing
  <2> QED  BY <1>0, <1>4, <2>2, <2>3, HistoryTypes DEF TypeInv
<1>5. CASE UNCHANGED vars
  BY <1>0, <1>5 DEF vars, TypeInv, TablesOK, CacheOK, SlotsOK, HistoryOK, RequestOK, Key, Values
<1> QED  BY <1>2, <1>3, <1>4, <1>5 DEF OtherStep

LEMMA NextTypes == TypeInv /\ [Next]_vars => TypeInv'
<1> SUFFICES ASSUME TypeInv, [Next]_vars  PROVE TypeInv'  OBVIOUS
<1>1. ASSUME NEW r \in Requests, ServerStep(r)  PROVE TypeInv'
  BY <1>1, HandleTypes, ReadTypes, PlainReadTypes, WriteTypes, FinishTypes DEF ServerStep, Serve, Writes
<1> QED  BY <1>1, OtherTypes DEF Next

LEMMA TypeInvHolds == Spec => []TypeInv
<1> QED  BY InitTypes, NextTypes, PTL DEF Spec

\* Rows, Redis values, requests and histories keep their types: in particular
\* every value read back from Redis is of the kind its key promises.
THEOREM TypeSafe == Spec => []TypeOK
<1>1. TypeInv => TypeOK
  BY DEF TypeInv, TablesOK, CacheOK, SlotsOK, HistoryOK, RequestOK, TypeOK
<1> QED  BY <1>1, TypeInvHolds, PTL

-----------------------------------------------------------------------------
(* Proof that copies stay true.                                               *)

\* What no step undoes.
Kept ==
    /\ \A n \in NoteIds : born[n] # None => born'[n] = born[n]
    /\ oldFolders \subseteq oldFolders'
    /\ \A f \in oldFolders : folderOwner'[f] \in {None, folderOwner[f]}

LEMMA InitCopies == Init => CopiesInv
<1> SUFFICES ASSUME Init  PROVE CopiesInv  OBVIOUS
<1>1. TablesTrue  BY DEF Init, TablesTrue, RowsIntegrity, NoShares
<1>2. CacheTrue  BY DEF Init, CacheTrue
<1>3. \A r \in Requests : HoldsTrue(r)  BY NoneIsNobody DEF Init, HoldsTrue
<1> QED  BY <1>1, <1>2, <1>3 DEF CopiesInv

LEMMA FreshTrue ==
  ASSUME TablesOK, TablesTrue, NEW k \in Keys, Fresh(k) # None  PROVE ValueTrue(k, Fresh(k))
<1> USE DEF TablesOK, TablesTrue, Fresh, ValueTrue
<1>1. CASE k[1] = "note"  BY <1>1 DEF Keys, GetNoteByID
<1>2. CASE k[1] = "folder"  BY <1>2 DEF Keys, GetFolderByID
<1>3. CASE k[1] = "notes"  BY <1>3 DEF Keys, GetUserNotes
<1>4. CASE k[1] \in {"shares", "folderShares", "folders"}  BY <1>4
<1> QED  BY <1>1, <1>2, <1>3, <1>4 DEF Keys

LEMMA WritesKeep ==
  ASSUME TypeInv, CopiesInv, NEW r \in Requests, Writes(r)
  PROVE  Kept /\ TablesTrue'
<1>0. /\ TablesOK /\ TablesTrue /\ pc[r] = "write" /\ job[r] \in Jobs /\ JobOK("write", job[r])
  BY DEF TypeInv, CopiesInv, RequestOK, Writes, CreateNote, UpdateNote, DeleteNote, ShareNote, RemoveNoteShare,
     CreateFolder, DeleteFolder, ShareFolder, RemoveFolderShare, Writing
<1>1. ASSUME UNCHANGED tables  PROVE Kept /\ TablesTrue'
  BY <1>0, <1>1 DEF Kept, TablesTrue, RowsIntegrity, SameHome, tables
<1> USE <1>0, <1>1, NoneIsNobody DEF TablesOK, Kept, Rejected
<1>2. CASE CreateNote(r)
  <2>1. CASE UNCHANGED tables  BY <2>1
  <2>2. CASE ~UNCHANGED tables
    <3>1. PICK n \in NoteIds : /\ born[n] = None /\ notes' = [notes EXCEPT ![n] = NewNote(job[r])]
                               /\ born' = [born EXCEPT ![n] = [owner |-> job[r].who, folder |-> job[r].folder]]
      BY <1>2, <2>2 DEF CreateNote
    <3>2. /\ job[r].folder # None /\ folderOwner[job[r].folder] # None
          /\ UNCHANGED <<folderOwner, noteShares, folderShares, oldFolders>>
      BY <1>2, <2>2 DEF CreateNote
    <3>3. job[r].who \in UserIds /\ job[r].folder \in FolderIds  BY <3>2 DEF Jobs
    <3>4. born'[n] # None  BY <3>1, <3>3 DEF Homes
    <3>5. Kept  BY <3>1, <3>2
    <3>6. \A m \in NoteIds : notes'[m] # None => SameHome(notes[m], m)'
      BY <3>1, <3>3, <3>4 DEF TablesTrue, SameHome, NewNote
    <3>7. RowsIntegrity'
      <4>1. NewNote(job[r]) # None /\ NewNote(job[r]).folder = job[r].folder
        BY <1>2, <3>3 DEF CreateNote, Writing, JobOK, NewNote, NoteRows
      <4> QED  BY <3>1, <3>2, <4>1 DEF TablesTrue, RowsIntegrity
    <3> QED  BY <3>2, <3>5, <3>6, <3>7 DEF TablesTrue
  <2> QED  BY <2>1, <2>2
<1>3. CASE UpdateNote(r)
  <2>1. /\ job[r].op = "UpdateNote" /\ job[r].note \in NoteIds
        /\ UNCHANGED <<folderOwner, noteShares, folderShares, born, oldFolders>>
        /\ \/ notes[job[r].note] # None /\ notes' = [notes EXCEPT ![job[r].note].text = job[r].text]
           \/ UNCHANGED notes
    BY <1>3 DEF UpdateNote, Writing, JobOK, NoteOps
  <2>2. \A n \in NoteIds : /\ notes'[n] = None <=> notes[n] = None
                           /\ notes[n] # None => /\ notes'[n].owner = notes[n].owner
                                                /\ notes'[n].folder = notes[n].folder
    BY <2>1 DEF NoteRows, JobOK
  <2>3. Kept  BY <2>1
  <2>4. \A n \in NoteIds : notes'[n] # None => SameHome(notes[n], n)'
    BY <2>1, <2>2 DEF TablesTrue, SameHome
  <2>5. RowsIntegrity'  BY <2>1, <2>2 DEF TablesTrue, RowsIntegrity
  <2> QED  BY <2>1, <2>3, <2>4, <2>5 DEF TablesTrue
<1>4. CASE DeleteNote(r)
  BY <1>4 DEF DeleteNote, TablesTrue, RowsIntegrity, SameHome, NoShares, JobOK, NoteOps
<1>5. CASE ShareNote(r)
  <2>1. CASE UNCHANGED tables  BY <2>1
  <2>2. CASE ~UNCHANGED tables
    <3>1. /\ job[r].op = "ShareNote" /\ notes[job[r].note] # None /\ job[r].user \in Users
          /\ noteShares' = [noteShares EXCEPT ![job[r].note][job[r].user] = job[r].level]
          /\ UNCHANGED <<folderOwner, notes, folderShares, manages, born, oldFolders>>
      BY <1>5, <2>2 DEF ShareNote, Writing
    <3> QED  BY <3>1 DEF TablesTrue, RowsIntegrity, SameHome, JobOK, NoteOps, Shares
  <2> QED  BY <2>1, <2>2
<1>6. CASE RemoveNoteShare(r)
  BY <1>6 DEF RemoveNoteShare, Writing, TablesTrue, RowsIntegrity, SameHome, JobOK, NoteOps, Shares
<1>7. CASE CreateFolder(r)
  BY <1>7 DEF CreateFolder, TablesTrue, RowsIntegrity, SameHome, NoteRows, Jobs
<1>8. CASE DeleteFolder(r)
  BY <1>8 DEF DeleteFolder, NotesIn, TablesTrue, RowsIntegrity, SameHome, NoShares, JobOK, FolderOps, NoteRows
<1>9. CASE ShareFolder(r)
  <2>1. CASE UNCHANGED tables  BY <2>1
  <2>2. CASE ~UNCHANGED tables
    <3>1. /\ job[r].op = "ShareFolder" /\ folderOwner[job[r].folder] # None /\ job[r].user \in Users
          /\ folderShares' = [folderShares EXCEPT ![job[r].folder][job[r].user] = job[r].level]
          /\ UNCHANGED <<folderOwner, notes, noteShares, manages, born, oldFolders>>
      BY <1>9, <2>2 DEF ShareFolder, Writing
    <3> QED  BY <3>1 DEF TablesTrue, RowsIntegrity, SameHome, JobOK, FolderOps, Shares
  <2> QED  BY <2>1, <2>2
<1>10. CASE RemoveFolderShare(r)
  BY <1>10 DEF RemoveFolderShare, Writing, TablesTrue, RowsIntegrity, SameHome, JobOK, FolderOps, Shares
<1> QED  BY <1>2, <1>3, <1>4, <1>5, <1>6, <1>7, <1>8, <1>9, <1>10 DEF Writes

\* It is enough to look at the tables, at Redis and at the request that moves.
LEMMA OwnTrue ==
  ASSUME TypeInv, CopiesInv, NEW r \in Requests, Step(r), Kept, TablesTrue', CacheTrue', HoldsTrue(r)'
  PROVE  CopiesInv'
<1>1. ASSUME NEW q \in Requests, q # r  PROVE HoldsTrue(q)'
  <2>1. SlotStays(q) /\ Key(q)' = Key(q)  BY <1>1, OthersUntouched DEF SlotStays, Key
  <2>2. HoldsTrue(q) /\ RequestOK(q) /\ TablesOK  BY DEF CopiesInv, TypeInv
  <2>3. note'[q] # None => SameHome(note[q], job[q].note)'
    BY <2>1, <2>2, NoneIsNobody DEF HoldsTrue, SlotStays, Kept, SameHome, RequestOK
  <2>4. io'[q] = "fill" => ValueTrue(Key(q), buffer[q])'
    <3> SUFFICES ASSUME io[q] = "fill"  PROVE ValueTrue(Key(q), buffer[q])'
      BY <2>1 DEF SlotStays
    <3>1. ValueTrue(Key(q), buffer[q]) /\ Key(q) \in Keys
      BY <2>2, ReadKeys, NoneIsNobody DEF HoldsTrue, RequestOK
    <3> QED  BY <2>1, <3>1 DEF SlotStays, ValueTrue, SameHome, Kept, Keys
  <2>5. pc'[q] \in {"evict", "store"} /\ job'[q].op = "CreateNote" =>
          job'[q].note \in NoteIds /\ born[job'[q].note] # None
    BY <2>1, <2>2, NoneIsNobody DEF SlotStays, RequestOK, JobOK, HoldsTrue, Jobs, Homes
  <2> QED  BY <2>1, <2>2, <2>3, <2>4, <2>5 DEF HoldsTrue, SlotStays, Kept
<1> QED  BY <1>1 DEF CopiesInv

\* Redis holds what it held, what was just read, or what was just created.
LEMMA CacheStaysTrue ==
  ASSUME CacheOK, CacheTrue, Kept, NEW new \in Keys, NEW v,
         ValueTrue(new, v)',
         \A k \in Keys : cache'[k] # None => cache'[k] = cache[k] \/ (k = new /\ cache'[k] = v)
  PROVE  CacheTrue'
<1> SUFFICES ASSUME NEW k \in Keys, cache'[k] # None  PROVE ValueTrue(k, cache[k])'
  BY DEF CacheTrue
<1>1. CASE cache'[k] = cache[k]
  <2>1. ValueTrue(k, cache[k])  BY <1>1 DEF CacheTrue
  <2> QED  BY <1>1, <2>1 DEF ValueTrue, SameHome, Kept, Keys
<1>2. CASE k = new /\ cache'[k] = v  BY <1>2 DEF ValueTrue, SameHome
<1> QED  BY <1>1, <1>2

LEMMA TablesStayTrue ==
  ASSUME TablesTrue, UNCHANGED <<folderOwner, notes, noteShares, folderShares, born, oldFolders>>
  PROVE  Kept /\ TablesTrue'
BY DEF Kept, TablesTrue, RowsIntegrity, SameHome

LEMMA BeginTrue ==
  ASSUME TypeInv, CopiesInv, NEW r \in Requests, Step(r), NEW j \in Jobs, NEW l \in Labels,
         JobOK(l, j), Begin(r, j, l),
         \/ l \in {"note", "notes", "folders", "shared", "folder"}
         \/ l = "write" /\ j.op \in {"CreateNote", "CreateFolder", "ShareFolder", "RemoveFolderShare"}
  PROVE  CopiesInv'
<1>1. TablesTrue /\ CacheTrue /\ SlotsOK /\ RequestOK(r)  BY DEF TypeInv, CopiesInv
<1>2. note'[r] = None /\ pc'[r] = l /\ job'[r] = j /\ io'[r] # "fill"
  BY <1>1, NoneIsNobody DEF Begin, Receive, Goto, SlotsOK, RequestOK, FirstIo
<1>3. Kept /\ TablesTrue'  BY <1>1, TablesStayTrue DEF Begin, Receive, tables
<1>4. CacheTrue'  BY <1>1, <1>3 DEF Begin, Receive, tables, CacheTrue, ValueTrue, SameHome
<1>5. HoldsTrue(r)'  BY <1>2 DEF HoldsTrue
<1> QED  BY <1>3, <1>4, <1>5, OwnTrue

LEMMA RefuseTrue ==
  ASSUME TypeInv, CopiesInv, NEW r \in Requests, Step(r), NEW j \in Jobs, NEW a \in Answers, Refuse(r, j, a)
  PROVE  CopiesInv'
<1>1. TablesTrue /\ CacheTrue /\ SlotsOK /\ RequestOK(r)  BY DEF TypeInv, CopiesInv
<1>2. note'[r] = None /\ pc'[r] = "done" /\ io'[r] # "fill"
  BY <1>1, NoneIsNobody DEF Refuse, Receive, Answer, SlotsOK, RequestOK
<1>3. Kept /\ TablesTrue'  BY <1>1, TablesStayTrue DEF Refuse, Receive, tables
<1>4. CacheTrue'  BY <1>1, <1>3 DEF Refuse, Receive, tables, CacheTrue, ValueTrue, SameHome
<1>5. HoldsTrue(r)'  BY <1>2 DEF HoldsTrue
<1> QED  BY <1>3, <1>4, <1>5, OwnTrue

LEMMA HandleTrue ==
  ASSUME TypeInv, CopiesInv, NEW r \in Requests, Handle(r)  PROVE CopiesInv'
<1>0. Step(r) /\ Callers[r] \subseteq Users  BY OpsAssumption DEF Step
<1> USE <1>0, BeginTrue, RefuseTrue, UsersAssumption
        DEF Job, Jobs, AllOps, Labels, Reads, Answers, JobOK, NoteOps, FolderOps, WriteOps, Listing
<1>m. ASSUME NEW op \in AllOps, NEW who \in Callers[r], Malformed(r, op, who)  PROVE CopiesInv'
  BY <1>m DEF Malformed
<1>1. CASE HandleGetNote(r)  BY <1>1, <1>m DEF HandleGetNote
<1>2. CASE HandleUpdateNote(r)  BY <1>2, <1>m DEF HandleUpdateNote
<1>3. CASE HandleDeleteNote(r)  BY <1>3, <1>m DEF HandleDeleteNote
<1>4. CASE HandleCreateNote(r)  BY <1>4, <1>m DEF HandleCreateNote
<1>5. CASE HandleShareNote(r)  BY <1>5, <1>m DEF HandleShareNote
<1>6. CASE HandleRemoveNoteShare(r)  BY <1>6, <1>m DEF HandleRemoveNoteShare
<1>7. CASE HandleGetSharedNotes(r)  BY <1>7 DEF HandleGetSharedNotes
<1>8. CASE HandleGetUserNotes(r)  BY <1>8, <1>m DEF HandleGetUserNotes, OwnList
<1>9. CASE HandleGetUserFolders(r)  BY <1>9, <1>m DEF HandleGetUserFolders, OwnList
<1>10. CASE HandleCreateFolder(r)  BY <1>10, <1>m DEF HandleCreateFolder
<1>11. CASE HandleDeleteFolder(r)  BY <1>11, <1>m DEF HandleDeleteFolder
<1>12. CASE HandleFolderShares(r)  BY <1>12 DEF HandleFolderShares
<1> QED  BY <1>1, <1>2, <1>3, <1>4, <1>5, <1>6, <1>7, <1>8, <1>9, <1>10, <1>11, <1>12 DEF Handle

\* What a request takes over from a true value is true.
LEMMA UseTrue ==
  ASSUME TypeInv, CopiesInv, NEW r \in Requests, pc[r] \in Reads, NEW v \in Values(Key(r)),
         ValueTrue(Key(r), v), Use(r, v)
  PROVE  Kept /\ TablesTrue' /\ HoldsTrue(r)'
<1>0. TablesOK /\ SlotsOK /\ RequestOK(r) /\ JobOK(pc[r], job[r]) /\ job[r] \in Jobs /\ TablesTrue /\ HoldsTrue(r)
  BY DEF TypeInv, CopiesInv, RequestOK, Reads
<1>1. Kept /\ TablesTrue' /\ UNCHANGED <<born, folderOwner, oldFolders>> /\ job' = job
  BY <1>0, TablesStayTrue DEF Use, tables
<1> USE <1>0, NoneIsNobody DEF SlotsOK, Goto, Answer, FirstIo, HoldsTrue
<1>2. CASE pc[r] = "note"
  <2>1. UseNote(r, v) /\ job[r].op \in NoteOps /\ SameHome(v, job[r].note)
    BY <1>2, ReadKeys DEF Use, JobOK, ValueTrue
  <2>2. note'[r] = v /\ pc'[r] \notin {"evict", "store", "folderRow", "folderNotes"} /\ io'[r] # "fill"
    BY <2>1, ZenonT(40) DEF UseNote, NoteOps, AuthoriseGetNote, AuthoriseUpdateNote, AuthoriseDeleteNote,
       AuthoriseShareNote, AuthoriseRemoveNoteShare, OwnerOnly
  <2>3. SameHome(note[r], job[r].note)'  BY <1>1, <2>1, <2>2 DEF SameHome
  <2> QED  BY <1>1, <2>1, <2>2, <2>3 DEF NoteOps
<1>3. CASE pc[r] # "note"
  <2>1. /\ UNCHANGED note /\ io'[r] # "fill"
        /\ pc'[r] \notin {"evict", "store"}
        /\ pc'[r] \in {"folderRow", "folderNotes", "write"} => pc[r] = "folder" /\ v = job[r].who
    BY <1>3 DEF Use, UseAccessNote, UseShares, AuthoriseDeleteFolder
  <2>2. note'[r] # None => SameHome(note[r], job[r].note)'  BY <1>1, <2>1 DEF SameHome
  <2>3. pc[r] = "folder" /\ v = job[r].who =>
          job[r].folder \in oldFolders /\ folderOwner[job[r].folder] \in {None, job[r].who}
    BY ReadKeys DEF ValueTrue
  <2> QED  BY <1>1, <2>1, <2>2, <2>3
<1> QED  BY <1>2, <1>3

LEMMA ReadTrue ==
  ASSUME TypeInv, CopiesInv, NEW r \in Requests, Lookup(r) \/ Select(r) \/ Fill(r)
  PROVE  CopiesInv'
<1>0. /\ TablesOK /\ TablesTrue /\ CacheOK /\ CacheTrue /\ SlotsOK /\ RequestOK(r) /\ HoldsTrue(r) /\ Step(r)
      /\ pc[r] \in Reads
  BY NoneIsNobody DEF TypeInv, CopiesInv, Step, Serve, Lookup, Select, Fill, RequestOK
<1>1. Key(r) \in Keys  BY <1>0, ReadKeys
<1>2. ASSUME cache' = cache, Kept, TablesTrue', HoldsTrue(r)'  PROVE CopiesInv'
  <2>1. CacheTrue'  BY <1>0, <1>2 DEF CacheTrue, ValueTrue, SameHome, Kept, Keys
  <2> QED  BY <1>0, <1>2, <2>1, OwnTrue
<1>3. ASSUME UNCHANGED <<tables, job, note, cache, pc>>, io'[r] # "fill"  PROVE CopiesInv'
  BY <1>0, <1>2, <1>3, TablesStayTrue DEF tables, HoldsTrue, SameHome
<1>4. CASE Lookup(r)
  <2>1. CASE cache[Key(r)] # None /\ Use(r, cache[Key(r)])
    BY <1>0, <1>1, <1>2, <1>4, <2>1, UseTrue DEF Lookup, CacheOK, CacheTrue
  <2>2. CASE ~(cache[Key(r)] # None /\ Use(r, cache[Key(r)]))
    BY <1>0, <1>3, <1>4, <2>2 DEF Lookup, SlotsOK
  <2> QED  BY <2>1, <2>2
<1>5. CASE Select(r)
  <2>1. CASE Fresh(Key(r)) = None
    <3>1. NoRow(r) /\ Local /\ UNCHANGED <<tables, cache>>  BY <1>5, <2>1 DEF Select
    <3>2. pc'[r] = "done" /\ io'[r] # "fill"  BY <1>0, <3>1, NoneIsNobody DEF NoRow, Answer, SlotsOK
    <3>3. HoldsTrue(r)'  BY <1>0, <3>1, <3>2 DEF HoldsTrue, SameHome, Local, tables
    <3> QED  BY <1>0, <1>2, <3>1, <3>3, TablesStayTrue DEF tables
  <2>2. CASE Fresh(Key(r)) # None /\ Redis
    <3>1. /\ buffer' = [buffer EXCEPT ![r] = Fresh(Key(r))]
          /\ UNCHANGED <<tables, cache, pc, job, note>>
      BY <1>5, <2>2 DEF Select
    <3>2. buffer'[r] = Fresh(Key(r)) /\ Key(r)' = Key(r)  BY <1>0, <3>1 DEF SlotsOK, Key
    <3>3. ValueTrue(Key(r), Fresh(Key(r)))  BY <1>0, <1>1, <2>2, FreshTrue
    <3>4. ValueTrue(Key(r), buffer[r])'  BY <3>1, <3>2, <3>3 DEF ValueTrue, SameHome, tables
    <3>5. HoldsTrue(r)'  BY <1>0, <3>1, <3>4 DEF HoldsTrue, SameHome, tables
    <3> QED  BY <1>0, <1>2, <3>1, <3>5, TablesStayTrue DEF tables
  <2>3. CASE Fresh(Key(r)) # None /\ ~Redis
    BY <1>0, <1>1, <1>2, <1>5, <2>3, UseTrue, FreshTrue, FreshTypes DEF Select
  <2> QED  BY <2>1, <2>2, <2>3
<1>6. CASE Fill(r)
  <2>1. buffer[r] \in Values(Key(r)) /\ ValueTrue(Key(r), buffer[r]) /\ Use(r, buffer[r])
    BY <1>0, <1>6 DEF Fill, RequestOK, HoldsTrue
  <2>2. Kept /\ TablesTrue' /\ HoldsTrue(r)'  BY <1>0, <2>1, UseTrue
  <2>3. PICK k \in Keys, v \in Values(Key(r)) : k = Key(r) /\ v = buffer[r]  BY <1>1, <2>1
  <2>4. ValueTrue(k, v)'  BY <2>1, <2>2, <2>3 DEF ValueTrue, SameHome, Kept, Keys
  <2>5. \A l \in Keys : cache'[l] # None => cache'[l] = cache[l] \/ (l = k /\ cache'[l] = v)
    BY <1>0, <1>6, <2>3 DEF Fill, CacheOK
  <2>6. CacheTrue'  BY <1>0, <2>2, <2>4, <2>5, CacheStaysTrue
  <2> QED  BY <1>0, <2>2, <2>6, OwnTrue
<1> QED  BY <1>4, <1>5, <1>6

LEMMA ServeTrue ==
  ASSUME TypeInv, CopiesInv, NEW r \in Requests, Serve(r) \/ DbFails(r)
  PROVE  CopiesInv'
<1>0. /\ TablesOK /\ TablesTrue /\ CacheOK /\ CacheTrue /\ SlotsOK /\ RequestOK(r) /\ HoldsTrue(r) /\ Step(r)
  BY DEF TypeInv, CopiesInv, Step
<1>1. ASSUME cache' = cache, Kept, TablesTrue', HoldsTrue(r)'  PROVE CopiesInv'
  <2>1. CacheTrue'  BY <1>0, <1>1 DEF CacheTrue, ValueTrue, SameHome, Kept, Keys
  <2> QED  BY <1>0, <1>1, <2>1, OwnTrue
<1>2. ASSUME UNCHANGED <<tables, job, cache>>, note' = note \/ note' = [note EXCEPT ![r] = None],
             io'[r] # "fill", pc'[r] \notin {"evict", "store", "folderRow"},
             pc'[r] \in {"folderNotes", "write"} /\ job[r].op = "DeleteFolder" =>
               pc[r] \in {"folderRow", "folderNotes"}
      PROVE  CopiesInv'
  BY <1>0, <1>1, <1>2, TablesStayTrue DEF tables, HoldsTrue, SameHome, SlotsOK
<1> USE NoneIsNobody DEF Goto, Answer, Reading, Local, Reads
<1>3. CASE Lookup(r) \/ Select(r) \/ Fill(r)  BY <1>3, ReadTrue
<1>4. CASE \/ GetSharedNotes(r) \/ GetFolderShareLevel(r) \/ GetNoteShareLevel(r) \/ IsManagerOfOwner(r)
           \/ GetManagersOfOwner(r) \/ SelectNoteOwner(r) \/ SelectFolderOwner(r) \/ SelectFolderNotes(r)
  BY <1>0, <1>2, <1>4 DEF SlotsOK, RequestOK, JobOK, FirstIo, Granted, GetSharedNotes, GetFolderShareLevel,
     GetNoteShareLevel, IsManagerOfOwner, GetManagersOfOwner, SelectNoteOwner, SelectFolderOwner,
     SelectFolderNotes
<1>5. CASE Writes(r)
  <2>1. Kept /\ TablesTrue'  BY <1>5, WritesKeep
  <2>2. pc'[r] \in {"evict", "done"} /\ io'[r] # "fill" /\ UNCHANGED <<cache, note>>
    BY <1>0, <1>5 DEF SlotsOK, Writes, CreateNote, UpdateNote, DeleteNote, ShareNote, RemoveNoteShare,
       CreateFolder, DeleteFolder, ShareFolder, RemoveFolderShare, Writing, Written, Rejected
  <2>3. job'[r].op = job[r].op /\ (job[r].op \notin {"CreateNote", "CreateFolder"} => job' = job)
    BY <1>0, <1>5 DEF SlotsOK, RequestOK, Jobs, Writes, CreateNote, UpdateNote, DeleteNote, ShareNote,
       RemoveNoteShare, CreateFolder, DeleteFolder, ShareFolder, RemoveFolderShare, Writing, Rejected
  <2>4. ASSUME pc'[r] = "evict", job[r].op = "CreateNote"
        PROVE  born'[job'[r].note] = [owner |-> job'[r].who, folder |-> job'[r].folder]
    <3>1. PICK n \in NoteIds : /\ born' = [born EXCEPT ![n] = [owner |-> job[r].who, folder |-> job[r].folder]]
                               /\ job' = [job EXCEPT ![r].note = n]
      BY <1>0, <1>5, <2>4 DEF SlotsOK, Writes, CreateNote, UpdateNote, DeleteNote, ShareNote, RemoveNoteShare,
         CreateFolder, DeleteFolder, ShareFolder, RemoveFolderShare, Writing, Rejected
    <3>2. job[r] \in Jobs  BY <1>0, <2>4, <1>5 DEF RequestOK, Writes, CreateNote, UpdateNote, DeleteNote, ShareNote,
         RemoveNoteShare, CreateFolder, DeleteFolder, ShareFolder, RemoveFolderShare, Writing
    <3>3. job'[r].note = n /\ job'[r].who = job[r].who /\ job'[r].folder = job[r].folder
      BY <1>0, <3>1, <3>2 DEF SlotsOK, Jobs
    <3> QED  BY <1>0, <3>1, <3>3 DEF TablesOK
  <2>5. ASSUME pc'[r] = "evict", job[r].op = "CreateFolder"
        PROVE  job'[r].folder \in oldFolders' /\ folderOwner'[job'[r].folder] = job'[r].who
    <3>1. PICK f \in FolderIds : /\ folderOwner' = [folderOwner EXCEPT ![f] = job[r].who]
                                 /\ oldFolders' = oldFolders \cup {f}
                                 /\ job' = [job EXCEPT ![r].folder = f]
      BY <1>0, <1>5, <2>5 DEF Writes, CreateNote, UpdateNote, DeleteNote, ShareNote, RemoveNoteShare,
         CreateFolder, DeleteFolder, ShareFolder, RemoveFolderShare, Writing
    <3>2. job[r] \in Jobs  BY <1>0, <2>5, <1>5 DEF RequestOK, Writes, CreateNote, UpdateNote, DeleteNote, ShareNote,
         RemoveNoteShare, CreateFolder, DeleteFolder, ShareFolder, RemoveFolderShare, Writing
    <3>3. job'[r].folder = f /\ job'[r].who = job[r].who
      BY <1>0, <3>1, <3>2 DEF SlotsOK, Jobs
    <3> QED  BY <1>0, <3>1, <3>3 DEF TablesOK
  <2>6. note'[r] # None => SameHome(note[r], job[r].note)'
    BY <1>0, <2>1, <2>2, <2>3 DEF HoldsTrue, RequestOK, NoteOps, SameHome, Kept
  <2> QED  BY <1>1, <2>1, <2>2, <2>3, <2>4, <2>5, <2>6 DEF HoldsTrue
<1>6. CASE Evict(r)
  <2>1. Kept /\ TablesTrue' /\ UNCHANGED <<born, oldFolders, folderOwner, job, note>>
    BY <1>0, <1>6, TablesStayTrue DEF Evict, tables
  <2>2. \A k \in Keys : cache'[k] # None => cache'[k] = cache[k]  BY <1>6 DEF Evict
  <2>3. CacheTrue'  BY <1>0, <2>1, <2>2 DEF CacheTrue, ValueTrue, SameHome
  <2>4. HoldsTrue(r)'
    BY <1>0, <1>6, <2>1 DEF Evict, SlotsOK, HoldsTrue, SameHome
  <2> QED  BY <1>0, <2>1, <2>3, <2>4, OwnTrue
<1>7. CASE StoreCreated(r)
  <2>1. /\ Kept /\ TablesTrue' /\ UNCHANGED <<born, oldFolders, folderOwner, job, note>>
        /\ job[r] \in Jobs /\ JobOK("store", job[r]) /\ pc[r] = "store"
    BY <1>0, <1>7, TablesStayTrue DEF StoreCreated, tables, RequestOK
  <2>2. HoldsTrue(r)'
    BY <1>0, <1>7, <2>1 DEF StoreCreated, SlotsOK, HoldsTrue, SameHome
  <2>3. CASE job[r].op = "CreateNote" /\ cache' = [cache EXCEPT ![<<"note", job[r].note>>] = NewNote(job[r])]
    <3>1. PICK k \in Keys : k = <<"note", job[r].note>>  BY <2>1, <2>3 DEF JobOK, Keys
    <3>2. PICK v : v = NewNote(job[r])  OBVIOUS
    <3>3. born[job[r].note] # None /\ born[job[r].note] = [owner |-> job[r].who, folder |-> job[r].folder]
      BY <1>0, <2>1, <2>3 DEF HoldsTrue, JobOK, Jobs, Homes
    <3>4. ValueTrue(k, v)'  BY <2>1, <3>1, <3>2, <3>3 DEF ValueTrue, SameHome, NewNote
    <3>5. \A l \in Keys : cache'[l] # None => cache'[l] = cache[l] \/ (l = k /\ cache'[l] = v)
      BY <1>0, <2>3, <3>1, <3>2 DEF CacheOK
    <3>6. CacheTrue'  BY <1>0, <2>1, <3>4, <3>5, CacheStaysTrue
    <3> QED  BY <1>0, <2>1, <2>2, <3>6, OwnTrue
  <2>4. CASE job[r].op = "CreateFolder" /\ cache' = [cache EXCEPT ![<<"folder", job[r].folder>>] = job[r].who]
    <3>1. PICK k \in Keys : k = <<"folder", job[r].folder>>  BY <2>1, <2>4 DEF JobOK, Keys
    <3>2. PICK v : v = job[r].who  OBVIOUS
    <3>3. job[r].folder \in oldFolders /\ folderOwner[job[r].folder] \in {None, job[r].who}
      BY <1>0, <2>1, <2>4 DEF HoldsTrue
    <3>4. ValueTrue(k, v)'  BY <2>1, <3>1, <3>2, <3>3 DEF ValueTrue
    <3>5. \A l \in Keys : cache'[l] # None => cache'[l] = cache[l] \/ (l = k /\ cache'[l] = v)
      BY <1>0, <2>4, <3>1, <3>2 DEF CacheOK
    <3>6. CacheTrue'  BY <1>0, <2>1, <3>4, <3>5, CacheStaysTrue
    <3> QED  BY <1>0, <2>1, <2>2, <3>6, OwnTrue
  <2>5. CASE cache' = cache  BY <1>1, <2>1, <2>2, <2>5
  <2> QED  BY <1>7, <2>3, <2>4, <2>5 DEF StoreCreated
<1>8. CASE Respond(r)
  <2>1. /\ Kept /\ TablesTrue' /\ UNCHANGED <<io, cache>> /\ pc'[r] = "idle" /\ note'[r] = None
        /\ io[r] = None
    BY <1>0, <1>8, TablesStayTrue DEF Respond, tables, SlotsOK, RequestOK
  <2>2. HoldsTrue(r)'  BY <2>1 DEF HoldsTrue
  <2> QED  BY <1>1, <2>1, <2>2
<1>9. CASE PublishEvent(r) \/ DbFails(r)
  BY <1>0, <1>2, <1>9 DEF SlotsOK, PublishEvent, DbFails
<1> QED  BY <1>3, <1>4, <1>5, <1>6, <1>7, <1>8, <1>9 DEF Serve, Writes

LEMMA OtherTrue ==
  ASSUME TypeInv, CopiesInv, OtherStep \/ UNCHANGED vars  PROVE CopiesInv'
<1>0. TablesTrue /\ CacheTrue /\ SlotsOK /\ \A q \in Requests : HoldsTrue(q)  BY DEF TypeInv, CopiesInv
<1>1. UNCHANGED <<folderOwner, notes, noteShares, folderShares, born, oldFolders>>
  BY DEF OtherStep, ChangeTeams, Expire, Crash, tables, vars
<1>2. TablesTrue'  BY <1>0, <1>1, TablesStayTrue
<1>3. \A k \in Keys : cache'[k] # None => cache'[k] = cache[k]
  BY DEF OtherStep, ChangeTeams, Expire, Crash, vars, TypeInv, CacheOK
<1>4. CacheTrue'  BY <1>0, <1>1, <1>3 DEF CacheTrue, ValueTrue, SameHome
<1>5. ASSUME NEW q \in Requests  PROVE HoldsTrue(q)'
  <2>1. CASE UNCHANGED <<pc, io, job, note, buffer>>
    <3>1. HoldsTrue(q) /\ Key(q)' = Key(q)  BY <1>0, <2>1 DEF Key
    <3> QED  BY <1>1, <2>1, <3>1 DEF HoldsTrue, ValueTrue, SameHome
  <2>2. CASE Crash  BY <2>2, NoneIsNobody DEF Crash, HoldsTrue
  <2> QED  BY <2>1, <2>2 DEF OtherStep, ChangeTeams, Expire, Local, vars
<1> QED  BY <1>2, <1>4, <1>5 DEF CopiesInv

LEMMA CopiesInvHolds == Spec => []CopiesInv
<1>1. TypeInv /\ CopiesInv /\ [Next]_vars => CopiesInv'
  <2> SUFFICES ASSUME TypeInv, CopiesInv, [Next]_vars  PROVE CopiesInv'  OBVIOUS
  <2> QED  BY HandleTrue, ServeTrue, OtherTrue DEF Next, ServerStep
<1> QED  BY <1>1, InitCopies, TypeInvHolds, PTL DEF Spec

\* A copy of a note may be old but never misleads about whose it is and which
\* folder's shares apply, however reads, fills, evictions and writes interleave.
THEOREM CopiesAlwaysKeepTheirHome == Spec => []CopiesKeepTheirHome
<1>1. CopiesInv => CopiesKeepTheirHome
  <2> SUFFICES ASSUME CopiesInv  PROVE CopiesKeepTheirHome  OBVIOUS
  <2>1. \A n \in NoteIds : notes[n] # None => SameHome(notes[n], n)  BY DEF CopiesInv, TablesTrue
  <2>2. \A n \in NoteIds : cache[<<"note", n>>] # None => SameHome(cache[<<"note", n>>], n)
    BY DEF CopiesInv, CacheTrue, ValueTrue, Keys
  <2>3. ASSUME NEW u \in UserIds, NEW n \in NoteIds, cache[<<"notes", u>>] # None, cache[<<"notes", u>>][n] # None
        PROVE  SameHome(cache[<<"notes", u>>][n], n) /\ cache[<<"notes", u>>][n].owner = u
    BY <2>3 DEF CopiesInv, CacheTrue, ValueTrue, Keys
  <2>4. \A r \in Requests : note[r] # None => SameHome(note[r], job[r].note)  BY DEF CopiesInv, HoldsTrue
  <2> QED  BY <2>1, <2>2, <2>3, <2>4 DEF CopiesKeepTheirHome
<1> QED  BY <1>1, CopiesInvHolds, PTL

\* No interleaving of writes leaves a note without its folder or a share
\* without its note, folder or user.
THEOREM RowsKeepIntegrity == Spec => []RowsIntegrity
<1>1. CopiesInv => RowsIntegrity  BY DEF CopiesInv, TablesTrue
<1> QED  BY <1>1, CopiesInvHolds, PTL

-----------------------------------------------------------------------------
(* Proof that rights are held.                                                *)

LEMMA InitRights == Init => RightsInv
BY DEF Init, RightsInv, HoldsRights, Earned, Deciding

\* Histories grow, and hold all the rights of the moment until the decision.
LEMMA Accumulates ==
  ASSUME RecordRights, NEW q \in Requests
  PROVE  /\ Deciding(q)' => Rights(job[q].who, job[q].note)' \subseteq heldRights'[q]
         /\ pc'[q] # "idle" => heldRights[q] \subseteq heldRights'[q]
<1>1. heldRights'[q] = IF pc'[q] = "idle" THEN {}
                       ELSE IF Deciding(q)' THEN heldRights[q] \cup Rights(job[q].who, job[q].note)'
                       ELSE heldRights[q]
  BY DEF RecordRights, Deciding, Rights
<1> QED  BY <1>1 DEF Deciding

\* It is enough to look at what the request that moves has earned.
LEMMA OwnRights ==
  ASSUME TypeInv, RightsInv, NEW r \in Requests, Step(r), RecordRights, Earned(r)'
  PROVE  RightsInv'
<1>1. ASSUME NEW q \in Requests, q # r  PROVE Earned(q)'
  <2>1. SlotStays(q) /\ Earned(q)  BY <1>1, OthersUntouched DEF RightsInv, HoldsRights
  <2>2. CASE pc[q] = "idle"
    BY <2>1, <2>2 DEF Earned, SlotStays
  <2>3. CASE pc[q] # "idle"
    <3>1. heldRights[q] \subseteq heldRights'[q]  BY <2>1, <2>3, Accumulates DEF SlotStays
    <3> QED  BY <2>1, <3>1 DEF Earned, SlotStays
  <2> QED  BY <2>2, <2>3
<1>2. \A q \in Requests : HoldsRights(q)'  BY <1>1, Accumulates DEF HoldsRights
<1> QED  BY <1>2 DEF RightsInv

\* The owner of a note that keeps its home has been seen to be it.
LEMMA OwnerSeen ==
  ASSUME RightsInv, NEW r \in Requests, Deciding(r), NEW v, SameHome(v, job[r].note), v.owner = job[r].who
  PROVE  "owner" \in heldRights[r]
BY NoneIsNobody DEF RightsInv, HoldsRights, Rights, SameHome

LEMMA UseRights ==
  ASSUME TypeInv, CopiesInv, RightsInv, NEW r \in Requests, pc[r] \in Reads, NEW v \in Values(Key(r)),
         ValueTrue(Key(r), v), Use(r, v), RecordRights
  PROVE  Earned(r)'
<1>0. /\ SlotsOK /\ RequestOK(r) /\ JobOK(pc[r], job[r]) /\ job[r] \in Jobs /\ HoldsTrue(r) /\ Earned(r)
  BY DEF TypeInv, CopiesInv, RightsInv, HoldsRights, RequestOK, Reads
<1>1. job' = job /\ pc'[r] # "idle"
  <2>1. pc[r] = "note" => job[r].op \in NoteOps  BY <1>0 DEF JobOK
  <2> QED
    BY <1>0, <2>1 DEF SlotsOK, Use, Goto, Answer, NoteOps, UseNote, AuthoriseGetNote, AuthoriseUpdateNote,
       AuthoriseDeleteNote, AuthoriseShareNote, AuthoriseRemoveNoteShare, OwnerOnly,
       UseAccessNote, UseShares, AuthoriseDeleteFolder
<1>2. heldRights[r] \subseteq heldRights'[r]  BY <1>1, Accumulates
<1> USE <1>0, <1>1, <1>2 DEF SlotsOK, Goto, Answer, Earned
<1>3. CASE pc[r] = "note"
  <2>1. UseNote(r, v) /\ job[r].op \in NoteOps /\ SameHome(v, job[r].note)
    BY <1>3, ReadKeys DEF Use, JobOK, ValueTrue
  <2>2. v.owner = job[r].who => "owner" \in heldRights[r]  BY <1>3, <2>1, OwnerSeen DEF Deciding
  <2>3. note'[r] = v /\ access' = access  BY <2>1 DEF UseNote
  <2> USE <2>1, <2>2, <2>3 DEF UseNote
  <2>4. CASE job[r].op = "GetNote"  BY <2>4 DEF AuthoriseGetNote
  <2>5. CASE job[r].op = "UpdateNote"  BY <2>5 DEF AuthoriseUpdateNote
  <2>6. CASE job[r].op = "DeleteNote"  BY <2>6 DEF AuthoriseDeleteNote, OwnerOnly
  <2>7. CASE job[r].op = "ShareNote"  BY <2>7 DEF AuthoriseShareNote, OwnerOnly
  <2>8. CASE job[r].op = "RemoveNoteShare"  BY <2>8 DEF AuthoriseRemoveNoteShare, OwnerOnly
  <2> QED  BY <2>4, <2>5, <2>6, <2>7, <2>8 DEF NoteOps
<1>4. CASE pc[r] = "access"
  <2>1. UseAccessNote(r, v) /\ SameHome(v, job[r].note) /\ job[r].op = "GetNote"
    BY <1>4, ReadKeys DEF Use, ValueTrue, JobOK, Listing
  <2>2. SameHome(note[r], job[r].note)
    BY <1>4, NoneIsNobody DEF HoldsTrue, RequestOK, HoldsNote, Listing
  <2>3. v.owner = note[r].owner  BY <2>1, <2>2 DEF SameHome
  <2> QED  BY <1>4, <2>1, <2>3 DEF UseAccessNote
<1>5. CASE pc[r] \in {"shares", "folderShares"}
  BY <1>5 DEF Use, UseShares
<1>6. CASE pc[r] = "folder"
  BY <1>6 DEF Use, AuthoriseDeleteFolder, JobOK
<1>7. CASE pc[r] \in {"notes", "folders"}
  BY <1>7 DEF Use, JobOK
<1> QED  BY <1>3, <1>4, <1>5, <1>6, <1>7 DEF Reads

LEMMA ReadRights ==
  ASSUME TypeInv, CopiesInv, RightsInv, NEW r \in Requests, Lookup(r) \/ Select(r) \/ Fill(r), RecordRights
  PROVE  RightsInv'
<1>0. /\ TablesOK /\ TablesTrue /\ CacheOK /\ CacheTrue /\ SlotsOK /\ RequestOK(r) /\ HoldsTrue(r) /\ Step(r)
      /\ pc[r] \in Reads /\ Earned(r) /\ JobOK(pc[r], job[r])
  BY NoneIsNobody DEF TypeInv, CopiesInv, RightsInv, HoldsRights, Step, Serve, Lookup, Select, Fill, RequestOK, Reads
<1>1. Key(r) \in Keys  BY <1>0, ReadKeys
<1>2. ASSUME NEW v \in Values(Key(r)), ValueTrue(Key(r), v), Use(r, v)  PROVE RightsInv'
  BY <1>0, <1>2, UseRights, OwnRights
<1>3. ASSUME UNCHANGED <<pc, job, note, access, answer>>  PROVE RightsInv'
  <2>1. heldRights[r] \subseteq heldRights'[r]  BY <1>0, <1>3, Accumulates DEF Reads
  <2>2. Earned(r)'  BY <1>0, <1>3, <2>1 DEF Earned
  <2> QED  BY <1>0, <2>2, OwnRights
<1>4. CASE Lookup(r)
  BY <1>0, <1>1, <1>2, <1>3, <1>4 DEF Lookup, CacheOK, CacheTrue
<1>5. CASE Select(r)
  <2>1. CASE Fresh(Key(r)) = None
    <3>1. NoRow(r) /\ Local  BY <1>5, <2>1 DEF Select
    <3>2. pc'[r] = "done" /\ (answer'[r] = "OK" => pc[r] = "access")
      BY <1>0, <3>1 DEF NoRow, Answer, SlotsOK, FormatValidationError
    <3>3. heldRights[r] \subseteq heldRights'[r]  BY <3>2, Accumulates
    <3>4. Earned(r)'  BY <1>0, <3>1, <3>2, <3>3 DEF Earned, Local
    <3> QED  BY <1>0, <3>4, OwnRights
  <2>2. CASE Fresh(Key(r)) # None /\ Redis
    BY <1>3, <1>5, <2>2 DEF Select
  <2>3. CASE Fresh(Key(r)) # None /\ ~Redis
    BY <1>0, <1>1, <1>2, <1>5, <2>3, FreshTrue, FreshTypes DEF Select
  <2> QED  BY <2>1, <2>2, <2>3
<1>6. CASE Fill(r)
  BY <1>0, <1>2, <1>6 DEF Fill, RequestOK, HoldsTrue
<1> QED  BY <1>4, <1>5, <1>6

\* A request that is accepted or turned away has no answer yet that says OK.
LEMMA HandleRights ==
  ASSUME TypeInv, RightsInv, NEW r \in Requests, Handle(r), RecordRights  PROVE RightsInv'
<1>0. /\ SlotsOK /\ RequestOK(r) /\ Earned(r) /\ Step(r) /\ r \in Requests
  BY DEF TypeInv, RightsInv, HoldsRights, Step
<1>1. ASSUME NEW j, NEW l \in Labels, Begin(r, j, l),
             \/ l \in {"note", "notes", "folders", "shared", "folder"}
             \/ l = "write" /\ j.op \in {"CreateNote", "CreateFolder", "ShareFolder", "RemoveFolderShare"}
      PROVE  RightsInv'
  <2>1. /\ pc[r] = "idle" /\ pc'[r] = l /\ access'[r] = access[r] /\ job'[r] = j
    BY <1>0, <1>1 DEF Begin, Receive, Goto, SlotsOK
  <2>2. Earned(r)'  BY <1>0, <1>1, <2>1 DEF Earned
  <2> QED  BY <1>0, <2>2, OwnRights
<1>2. ASSUME NEW j, NEW a \in {"Validation", "Forbidden"}, Refuse(r, j, a)  PROVE RightsInv'
  <2>1. /\ pc[r] = "idle" /\ pc'[r] = "done" /\ access'[r] = access[r] /\ answer'[r] \in {a, None}
    BY <1>0, <1>2 DEF Refuse, Receive, Answer, SlotsOK
  <2>2. Earned(r)'  BY <1>0, <2>1, NoneIsNobody DEF Earned, Answers
  <2> QED  BY <1>0, <2>2, OwnRights
<1> USE <1>1, <1>2 DEF Job, Labels, Reads
<1>m. ASSUME NEW op, NEW who, Malformed(r, op, who)  PROVE RightsInv'
  BY <1>m DEF Malformed
<1>3. CASE HandleGetNote(r)  BY <1>3, <1>m DEF HandleGetNote
<1>4. CASE HandleUpdateNote(r)  BY <1>4, <1>m DEF HandleUpdateNote
<1>5. CASE HandleDeleteNote(r)  BY <1>5, <1>m DEF HandleDeleteNote
<1>6. CASE HandleCreateNote(r)  BY <1>6, <1>m DEF HandleCreateNote
<1>7. CASE HandleShareNote(r)  BY <1>7, <1>m DEF HandleShareNote
<1>8. CASE HandleRemoveNoteShare(r)  BY <1>8, <1>m DEF HandleRemoveNoteShare
<1>9. CASE HandleGetSharedNotes(r)  BY <1>9 DEF HandleGetSharedNotes
<1>10. CASE HandleGetUserNotes(r)  BY <1>10, <1>m DEF HandleGetUserNotes, OwnList
<1>11. CASE HandleGetUserFolders(r)  BY <1>11, <1>m DEF HandleGetUserFolders, OwnList
<1>12. CASE HandleCreateFolder(r)  BY <1>12, <1>m DEF HandleCreateFolder
<1>13. CASE HandleDeleteFolder(r)  BY <1>13, <1>m DEF HandleDeleteFolder
<1>14. CASE HandleFolderShares(r)  BY <1>14 DEF HandleFolderShares
<1> QED  BY <1>3, <1>4, <1>5, <1>6, <1>7, <1>8, <1>9, <1>10, <1>11, <1>12, <1>13, <1>14 DEF Handle

\* A share or a managed team that lets a request go on is a right it has now,
\* and has had since before the decision.
LEMMA PlainReadRights ==
  ASSUME TypeInv, CopiesInv, RightsInv, NEW r \in Requests, RecordRights,
         \/ GetSharedNotes(r) \/ GetFolderShareLevel(r) \/ GetNoteShareLevel(r) \/ IsManagerOfOwner(r)
         \/ GetManagersOfOwner(r) \/ SelectNoteOwner(r) \/ SelectFolderOwner(r) \/ SelectFolderNotes(r)
  PROVE  RightsInv'
<1>0. /\ TablesOK /\ SlotsOK /\ RequestOK(r) /\ Earned(r) /\ HoldsTrue(r) /\ Step(r)
      /\ Deciding(r) => Rights(job[r].who, job[r].note) \subseteq heldRights[r]
      /\ UNCHANGED <<job, note>>
  BY DEF TypeInv, CopiesInv, RightsInv, HoldsRights, Step, Serve, GetSharedNotes, GetFolderShareLevel,
     GetNoteShareLevel, IsManagerOfOwner, GetManagersOfOwner, SelectNoteOwner, SelectFolderOwner,
     SelectFolderNotes, Reading, Local
<1>1. pc'[r] # "idle"
  BY <1>0 DEF SlotsOK, Goto, Answer, Granted, GetSharedNotes, GetFolderShareLevel, GetNoteShareLevel,
     IsManagerOfOwner, GetManagersOfOwner, SelectNoteOwner, SelectFolderOwner, SelectFolderNotes
<1>2. heldRights[r] \subseteq heldRights'[r]  BY <1>1, Accumulates
<1>3. pc[r] \notin {"idle", "done"} => job[r] \in Jobs /\ JobOK(pc[r], job[r])  BY <1>0 DEF RequestOK
<1>4. ASSUME pc[r] \in {"folderLevel", "noteLevel", "manager"}
      PROVE  /\ job[r].who \in UserIds /\ SameHome(note[r], job[r].note) /\ note[r].owner \in UserIds
             /\ \A x \in {folderShares[note[r].folder][job[r].who], noteShares[job[r].note][job[r].who]} :
                  x # None => x \in heldRights[r]
             /\ note[r].owner = job[r].who => "owner" \in heldRights[r]
             /\ <<job[r].who, note[r].owner>> \in manages => "manager" \in heldRights[r]
  <2>1. /\ job[r] \in Jobs /\ job[r].op \in NoteOps /\ job[r].note \in NoteIds /\ note[r] \in NoteRows
        /\ SameHome(note[r], job[r].note) /\ Deciding(r)
    BY <1>0, <1>3, <1>4, NoneIsNobody
       DEF JobOK, NoteOps, Listing, RequestOK, HoldsNote, Deciders, HoldsTrue, Deciding
  <2>2. born[job[r].note] # None /\ note[r].folder = born[job[r].note].folder
        /\ note[r].owner = born[job[r].note].owner
    BY <2>1 DEF SameHome
  <2>3. job[r].who \in UserIds /\ note[r].folder \in FolderIds /\ note[r].owner \in UserIds
    BY <2>1, NoneIsNobody DEF Jobs, NoteRows
  <2>4. /\ folderShares[note[r].folder][job[r].who] \in Levels \cup {None}
        /\ noteShares[job[r].note][job[r].who] \in Levels \cup {None}
    BY <1>0, <2>1, <2>3 DEF TablesOK, Shares
  <2>5. \A x \in {"owner", "manager", folderShares[note[r].folder][job[r].who],
                   noteShares[job[r].note][job[r].who]} \ {None} :
           (x = "owner" => job[r].who = note[r].owner) /\ (x = "manager" => <<job[r].who, note[r].owner>> \in manages)
             => x \in heldRights[r]
    BY <1>0, <2>1, <2>2 DEF Rights
  <2> QED  BY <2>1, <2>3, <2>4, <2>5, NoneIsNobody DEF Levels
<1> USE <1>0, <1>1, <1>2, <1>3, <1>4, OwnRights
        DEF SlotsOK, Goto, Answer, Reading, Local, Earned, JobOK, NoteOps, Listing
<1>5. CASE GetSharedNotes(r)  BY <1>5 DEF GetSharedNotes
<1>6. CASE GetFolderShareLevel(r)
  <2>1. job[r].op \in {"GetNote", "UpdateNote"}  BY <1>6 DEF GetFolderShareLevel
  <2>2. \/ /\ Suffices(r, folderShares[note[r].folder][job[r].who])
           /\ pc'[r] = Granted(r)
        \/ pc'[r] = "noteLevel"
    BY <1>6 DEF GetFolderShareLevel
  <2>3. UNCHANGED <<job, note, access, answer>> /\ pc[r] = "folderLevel"  BY <1>6 DEF GetFolderShareLevel
  <2>4. Earned(r)'  BY <2>1, <2>2, <2>3, NoneIsNobody DEF Suffices, Granted, Levels
  <2> QED  BY <2>4
<1>7. CASE GetNoteShareLevel(r)
  <2>1. job[r].op \in {"GetNote", "UpdateNote"}  BY <1>7 DEF GetNoteShareLevel
  <2>2. \/ /\ Suffices(r, noteShares[job[r].note][job[r].who])
           /\ pc'[r] = Granted(r)
        \/ pc'[r] \in {"manager", "denied"}
    BY <1>7 DEF GetNoteShareLevel
  <2>3. UNCHANGED <<job, note, access, answer>> /\ pc[r] = "noteLevel"  BY <1>7 DEF GetNoteShareLevel
  <2>4. Earned(r)'  BY <2>1, <2>2, <2>3, NoneIsNobody DEF Suffices, Granted, Levels
  <2> QED  BY <2>4
<1>8. CASE IsManagerOfOwner(r)
  <2>1. pc[r] = "manager" /\ job[r].op = "GetNote"  BY <1>8 DEF IsManagerOfOwner
  <2>2. Earned(r)'  BY <1>8, <2>1, NoneIsNobody DEF IsManagerOfOwner, Levels
  <2> QED  BY <2>2
<1>9. CASE GetManagersOfOwner(r)  BY <1>9 DEF GetManagersOfOwner
<1>10. CASE SelectNoteOwner(r)  BY <1>10 DEF SelectNoteOwner
<1>11. CASE SelectFolderOwner(r)  BY <1>11 DEF SelectFolderOwner, FormatValidationError
<1>12. CASE SelectFolderNotes(r)  BY <1>12 DEF SelectFolderNotes
<1> QED  BY <1>5, <1>6, <1>7, <1>8, <1>9, <1>10, <1>11, <1>12

LEMMA FinishRights ==
  ASSUME TypeInv, RightsInv, NEW r \in Requests, RecordRights,
         Writes(r) \/ Evict(r) \/ StoreCreated(r) \/ PublishEvent(r) \/ Respond(r) \/ DbFails(r)
  PROVE  RightsInv'
<1>0. SlotsOK /\ RequestOK(r) /\ Earned(r) /\ Step(r)
  BY DEF TypeInv, RightsInv, HoldsRights, Step, Serve, Writes
<1>1. pc[r] \notin {"idle", "done"} => job[r] \in Jobs /\ JobOK(pc[r], job[r])  BY <1>0 DEF RequestOK
<1>2. pc'[r] # "idle" => heldRights[r] \subseteq heldRights'[r]  BY Accumulates
<1> USE <1>0, <1>1, <1>2, OwnRights DEF SlotsOK, Goto, Answer, Earned, Local, Reading
<1>3. CASE Writes(r)
  <2>1. pc[r] = "write" /\ UNCHANGED access /\ job[r].op \in WriteOps
    BY <1>3 DEF Writes, CreateNote, UpdateNote, DeleteNote, ShareNote, RemoveNoteShare,
       CreateFolder, DeleteFolder, ShareFolder, RemoveFolderShare, Writing, JobOK
  <2>2. pc'[r] \in {"evict", "done"}
    <3>1. Written(r) \/ \E a \in Answers : Rejected(r, a)
      BY <1>3 DEF Writes, CreateNote, UpdateNote, DeleteNote, ShareNote, RemoveNoteShare,
         CreateFolder, DeleteFolder, ShareFolder, RemoveFolderShare, Answers, FormatValidationError
    <3> QED  BY <3>1 DEF Written, Rejected
  <2>3. job'[r].op = job[r].op
    <3>1. CASE CreateNote(r)  BY <2>1, <3>1 DEF CreateNote, Rejected, Jobs
    <3>2. CASE CreateFolder(r)  BY <2>1, <3>2 DEF CreateFolder, Jobs
    <3> QED
      BY <1>3, <3>1, <3>2 DEF Writes, UpdateNote, DeleteNote, ShareNote, RemoveNoteShare,
         DeleteFolder, ShareFolder, RemoveFolderShare, Rejected
  <2> QED  BY <2>1, <2>2, <2>3 DEF WriteOps, NoteOps, FolderOps
<1>4. CASE Evict(r)  BY <1>4 DEF Evict, JobOK, WriteOps, NoteOps, FolderOps
<1>5. CASE StoreCreated(r)  BY <1>5 DEF StoreCreated, JobOK
<1>6. CASE PublishEvent(r)  BY <1>6 DEF PublishEvent, JobOK, WriteOps, NoteOps, FolderOps
<1>7. CASE Respond(r)  BY <1>7 DEF Respond
<1>8. CASE DbFails(r)
  <2>1. /\ pc'[r] = "done" /\ access'[r] = NoShares /\ job' = job
        /\ answer'[r] = "OK" => pc[r] \in {"access", "shares", "folderShares", "managers"}
    BY <1>8, NoneIsNobody DEF DbFails, ReadError, WriteErrors, FormatValidationError, Reads, RequestOK
  <2> QED  BY <2>1
<1> QED  BY <1>3, <1>4, <1>5, <1>6, <1>7, <1>8

LEMMA OtherRights ==
  ASSUME TypeInv, RightsInv, OtherStep \/ UNCHANGED vars  PROVE RightsInv'
<1>0. SlotsOK /\ \A q \in Requests : HoldsRights(q)  BY DEF TypeInv, RightsInv
<1>1. CASE UNCHANGED vars
  BY <1>0, <1>1 DEF vars, RightsInv, HoldsRights, Earned, Deciding, Rights
<1>2. CASE OtherStep
  <2>1. RecordRights  BY <1>2 DEF OtherStep
  <2>2. ASSUME NEW q \in Requests  PROVE Earned(q)'
    <3>1. CASE UNCHANGED <<pc, job, note, access, answer>>
      <4>1. Earned(q)  BY <1>0 DEF HoldsRights
      <4>2. pc'[q] # "idle" => heldRights[q] \subseteq heldRights'[q]  BY <2>1, Accumulates
      <4> QED  BY <3>1, <4>1, <4>2 DEF Earned
    <3>2. CASE Crash  BY <3>2 DEF Crash, Earned
    <3> QED  BY <1>2, <3>1, <3>2 DEF OtherStep, ChangeTeams, Expire, Local
  <2> QED  BY <2>1, <2>2, Accumulates DEF RightsInv, HoldsRights
<1> QED  BY <1>1, <1>2

LEMMA RightsInvHolds == Spec => []RightsInv
<1>1. TypeInv /\ CopiesInv /\ RightsInv /\ [Next]_vars => RightsInv'
  <2> SUFFICES ASSUME TypeInv, CopiesInv, RightsInv, [Next]_vars  PROVE RightsInv'  OBVIOUS
  <2>1. ASSUME NEW r \in Requests, ServerStep(r)  PROVE RightsInv'
    BY <2>1, HandleRights, ReadRights, PlainReadRights, FinishRights DEF ServerStep, Serve, Writes
  <2> QED  BY <2>1, OtherRights DEF Next
<1> QED  BY <1>1, InitRights, TypeInvHolds, CopiesInvHolds, PTL DEF Spec

\* Whoever is shown a note has had a right on it since the request arrived,
\* and whoever is shown its access list has been its owner.
THEOREM ReadsAlwaysJustified == Spec => []ReadsJustified
<1>1. RightsInv => ReadsJustified  BY DEF RightsInv, HoldsRights, Earned, ReadsJustified
<1> QED  BY <1>1, RightsInvHolds, PTL

\* Which write of which request changes a note's row or its shares.
LEMMA ChangesAreEntitled ==
  ASSUME TypeInv, CopiesInv, RightsInv, NEW r \in Requests, Writes(r), NEW n \in NoteIds
  PROVE  RightsBehindChange(n)
<1>0. /\ TablesOK /\ TablesTrue /\ pc[r] = "write" /\ job[r] \in Jobs /\ JobOK("write", job[r])
      /\ Earned(r) /\ HoldsTrue(r)
  BY DEF TypeInv, CopiesInv, RightsInv, HoldsRights, RequestOK, Writes, CreateNote, UpdateNote, DeleteNote,
     ShareNote, RemoveNoteShare, CreateFolder, DeleteFolder, ShareFolder, RemoveFolderShare, Writing
<1>1. ASSUME NEW ops, NEW rights, job[r].op \in ops, job[r].note = n, heldRights[r] \cap rights # {}
      PROVE  Entitled(n, ops, rights)
  BY <1>0, <1>1 DEF Entitled
<1>2. CASE UNCHANGED <<notes, noteShares>>  BY <1>2 DEF RightsBehindChange
<1> USE <1>0 DEF TablesOK, RightsBehindChange, Rejected, tables, Writing
<1>3. CASE CreateNote(r)
  <2>1. CASE notes' = notes  BY <1>2, <1>3, <2>1 DEF CreateNote
  <2>2. CASE notes' # notes
    <3>1. PICK m \in NoteIds : born[m] = None /\ notes' = [notes EXCEPT ![m] = NewNote(job[r])]
      BY <1>3, <2>2 DEF CreateNote
    <3>2. noteShares' = noteShares /\ notes[m] = None
      BY <1>3, <2>2, <3>1 DEF CreateNote, TablesTrue, SameHome
    <3> QED  BY <3>1, <3>2
  <2> QED  BY <2>1, <2>2
<1>4. CASE UpdateNote(r)
  <2>1. noteShares' = noteShares /\ job[r].op = "UpdateNote" /\ job[r].note \in NoteIds
    BY <1>4 DEF UpdateNote, JobOK, NoteOps
  <2>2. notes'[n] # notes[n] => job[r].note = n /\ notes'[n] # None
    BY <1>4, <2>1, NoneIsNobody DEF UpdateNote, NoteRows, JobOK
  <2> QED  BY <1>1, <2>1, <2>2 DEF Earned
<1>5. CASE DeleteNote(r)
  BY <1>1, <1>5 DEF DeleteNote, Earned
<1>6. CASE ShareNote(r) \/ RemoveNoteShare(r)
  <2>1. notes' = notes /\ job[r].op \in {"ShareNote", "RemoveNoteShare"}
    BY <1>6 DEF ShareNote, RemoveNoteShare
  <2>2. noteShares'[n] # noteShares[n] => job[r].note = n
    BY <1>6 DEF ShareNote, RemoveNoteShare
  <2> QED  BY <1>1, <2>1, <2>2 DEF Earned
<1>7. CASE DeleteFolder(r)
  <2>1. job[r].op = "DeleteFolder" /\ job[r].folder \in FolderIds  BY <1>7 DEF DeleteFolder, JobOK, FolderOps
  <2>2. n \notin NotesIn(job[r].folder) => notes'[n] = notes[n] /\ noteShares'[n] = noteShares[n]
    BY <1>7 DEF DeleteFolder
  <2>3. ASSUME n \in NotesIn(job[r].folder)  PROVE notes'[n] = None /\ FolderGoes(notes[n].folder)
    <3>1. notes'[n] = None /\ notes[n] # None /\ notes[n].folder = job[r].folder
      BY <1>7, <2>3 DEF DeleteFolder, NotesIn
    <3>2. folderOwner[job[r].folder] = job[r].who
      BY <2>1, <3>1 DEF HoldsTrue, TablesTrue, RowsIntegrity
    <3> QED  BY <2>1, <3>1, <3>2 DEF FolderGoes
  <2> QED  BY <2>2, <2>3
<1>8. CASE CreateFolder(r) \/ ShareFolder(r) \/ RemoveFolderShare(r)
  BY <1>2, <1>8 DEF CreateFolder, ShareFolder, RemoveFolderShare
<1> QED  BY <1>3, <1>4, <1>5, <1>6, <1>7, <1>8 DEF Writes

\* Nothing but a write touches the rows of notes and their shares.
LEMMA OnlyWritesChange ==
  ASSUME TypeInv, [Next]_vars, ~\E r \in Requests : Writes(r)
  PROVE  UNCHANGED <<notes, noteShares>>
<1>1. CASE UNCHANGED vars \/ OtherStep
  BY <1>1 DEF vars, OtherStep, ChangeTeams, Expire, Crash, tables
<1>2. ASSUME NEW r \in Requests, ServerStep(r)  PROVE UNCHANGED tables
  <2>1. CASE Handle(r)
    <3>1. \E j : (\E l : Begin(r, j, l)) \/ (\E a : Refuse(r, j, a))
      BY <2>1 DEF Handle, HandleGetNote, HandleUpdateNote, HandleDeleteNote, HandleCreateNote,
         HandleShareNote, HandleRemoveNoteShare, HandleGetSharedNotes, HandleGetUserNotes, HandleGetUserFolders,
         HandleCreateFolder, HandleDeleteFolder, HandleFolderShares, Malformed, OwnList
    <3> QED  BY <3>1 DEF Begin, Refuse, Receive
  <2>2. CASE Lookup(r) \/ Select(r) \/ Fill(r)  BY <2>2 DEF Lookup, Select, Fill, Use
  <2>3. CASE \/ GetSharedNotes(r) \/ GetFolderShareLevel(r) \/ GetNoteShareLevel(r) \/ IsManagerOfOwner(r)
             \/ GetManagersOfOwner(r) \/ SelectNoteOwner(r) \/ SelectFolderOwner(r) \/ SelectFolderNotes(r)
    BY <2>3 DEF GetSharedNotes, GetFolderShareLevel, GetNoteShareLevel, IsManagerOfOwner,
       GetManagersOfOwner, SelectNoteOwner, SelectFolderOwner, SelectFolderNotes, Reading
  <2>4. CASE Evict(r) \/ StoreCreated(r) \/ PublishEvent(r) \/ Respond(r) \/ DbFails(r)
    BY <2>4 DEF Evict, StoreCreated, PublishEvent, Respond, DbFails, Reading
  <2> QED  BY <1>2, <2>1, <2>2, <2>3, <2>4 DEF ServerStep, Serve, Writes
<1> QED  BY <1>1, <1>2 DEF Next, tables

\* A note and its shares change only for a requester who has had the right the
\* operation demands since it arrived, or with the folder its owner deletes.
THEOREM RightsAlwaysBehindChanges == Spec => RightsBehindChanges
<1>1. TypeInv /\ CopiesInv /\ RightsInv /\ [Next]_vars => [\A n \in NoteIds : RightsBehindChange(n)]_vars
  <2> SUFFICES ASSUME TypeInv, CopiesInv, RightsInv, [Next]_vars, NEW n \in NoteIds
               PROVE  RightsBehindChange(n)
    OBVIOUS
  <2>1. CASE \E r \in Requests : Writes(r)  BY <2>1, ChangesAreEntitled
  <2>2. CASE ~\E r \in Requests : Writes(r)  BY <2>2, OnlyWritesChange DEF RightsBehindChange
  <2> QED  BY <2>1, <2>2
<1> QED  BY <1>1, TypeInvHolds, CopiesInvHolds, RightsInvHolds, PTL DEF Spec, RightsBehindChanges
=============================================================================
