---------------------------- MODULE AssetService ----------------------------
(***************************************************************************)
(* The notes half of the API: handlers, service and repository of          *)
(* internal/asset, the tables folders, notes, folder_shares and            *)
(* note_shares, and the six families of Redis keys in front of them.       *)
(*                                                                         *)
(* As in TeamService a request is a slot r with a program counter and one  *)
(* step is one SQL statement or one Redis command.  Every cached SELECT of *)
(* the repository has the same shape (GET; on a miss SELECT and SET), so   *)
(* the six of them are one read protocol: pc names the read, io its step,  *)
(* Key(r) the Redis key and Fresh(k) what its SELECT returns.              *)
(***************************************************************************)
EXTENDS Naturals, FiniteSets

CONSTANTS
    UserIds,    \* user ids a client may name
    Users,      \* the ids that have a row in users
    FolderIds,  \* ids AUTO_INCREMENT may hand out to folders (bounds them)
    NoteIds,    \* ids AUTO_INCREMENT may hand out to notes (bounds them)
    Texts,      \* titles and contents
    Requests,   \* requests in flight at the same time (bounds concurrency)
    Callers,    \* Callers[r]: the users whose requests take slot r
    Ops,        \* Ops[r]: the operations they call
    Redis,      \* TRUE iff the server started with a Redis connection
    Faults,     \* the failures that may strike, and whether Redis keys expire
    None        \* no row, no key, nothing loaded

AllOps == { "GetNote", "GetUserNotes", "GetSharedNotes", "CreateNote", "UpdateNote", "DeleteNote",
            "ShareNote", "RemoveNoteShare", "GetUserFolders", "CreateFolder", "DeleteFolder",
            "ShareFolder", "RemoveFolderShare", "ChangeTeams" }
Levels == {"read", "write"}
Answers == {"OK", "Validation", "Forbidden", "Internal"}
Reads == {"note", "access", "shares", "folderShares", "notes", "folders", "folder"}
Labels == Reads \cup { "idle", "shared", "folderLevel", "noteLevel", "manager", "managers", "ownerRow",
                       "folderRow", "folderNotes", "write", "evict", "store", "publish", "denied", "done" }

Homes == [owner : UserIds, folder : FolderIds]
NoteRows == [owner : UserIds, folder : FolderIds, text : Texts]

ASSUME UsersAssumption == Users \subseteq UserIds
ASSUME OpsAssumption == Ops \in [Requests -> SUBSET AllOps] /\ Callers \in [Requests -> SUBSET Users]
ASSUME ModesAssumption == Redis \in BOOLEAN /\ Faults \subseteq {"db", "redis", "crash", "expiry"}
ASSUME NoneAssumption ==
    /\ None \notin UserIds \cup FolderIds \cup NoteIds \cup Texts \cup Levels \cup Answers
    /\ None \notin Homes \cup NoteRows \cup {"owner", "manager", "lookup", "select", "fill"}

VARIABLES
    folderOwner,   \* folders: owner_id, None if there is no row
    notes,         \* notes: the row, None if there is none
    noteShares,    \* note_shares: noteShares[n][u] is the level, None if no row
    folderShares,  \* folder_shares, likewise
    manages,       \* <<m, o>>: some team has m as a manager and o as a member
    born,          \* history: owner and folder of every note ever inserted
    oldFolders,    \* folder ids AUTO_INCREMENT has handed out
    cache,         \* Redis: what is stored under each key, None if nothing
    pc,            \* what the request does next
    io,            \* how far the cached read that pc names has come
    job,           \* what the request asks for
    note,          \* the note the service holds
    buffer,        \* rows read and not yet used (or stored)
    access,        \* accessMap of GetNoteAccess, and the list in the answer
    answer,        \* the response, once decided
    heldRights     \* history: rights the requester has had on the note since it asked

tables == <<folderOwner, notes, noteShares, folderShares, manages, born, oldFolders>>
vars == <<folderOwner, notes, noteShares, folderShares, manages, born, oldFolders, cache,
          pc, io, job, note, buffer, access, answer, heldRights>>

NoShares == [u \in UserIds |-> None]
Shares == [UserIds -> Levels \cup {None}]
AccessLists == [UserIds -> {"owner"} \cup Levels \cup {None}]
Jobs == [op : AllOps, who : Users, note : NoteIds \cup {None}, folder : FolderIds \cup {None},
         user : UserIds \cup {None}, level : Levels \cup {"other", None}, text : Texts \cup {None}]

Keys == ({"note", "shares"} \X NoteIds) \cup ({"folder", "folderShares"} \X FolderIds)
          \cup ({"notes", "folders"} \X UserIds)

\* What the SELECT behind a key returns: the row or None, or the rows (no rows
\* are an empty list, never None).
GetNoteByID(n) == notes[n]
GetUserNotes(u) ==
    [n \in NoteIds |-> IF notes[n] # None /\ notes[n].owner = u THEN notes[n] ELSE None]
GetNoteShares(n) == noteShares[n]
GetFolderByID(f) == folderOwner[f]
GetUserFolders(u) == {f \in FolderIds : folderOwner[f] = u}
GetFolderShares(f) == folderShares[f]

Fresh(k) ==
    CASE k[1] = "note" -> GetNoteByID(k[2])
      [] k[1] = "notes" -> GetUserNotes(k[2])
      [] k[1] = "shares" -> GetNoteShares(k[2])
      [] k[1] = "folder" -> GetFolderByID(k[2])
      [] k[1] = "folders" -> GetUserFolders(k[2])
      [] k[1] = "folderShares" -> GetFolderShares(k[2])

-----------------------------------------------------------------------------
Init ==
    /\ folderOwner = [f \in FolderIds |-> None]
    /\ notes = [n \in NoteIds |-> None]
    /\ noteShares = [n \in NoteIds |-> NoShares]
    /\ folderShares = [f \in FolderIds |-> NoShares]
    /\ manages = {}
    /\ born = [n \in NoteIds |-> None]
    /\ oldFolders = {}
    /\ cache = [k \in Keys |-> None]
    /\ pc = [r \in Requests |-> "idle"]
    /\ io = [r \in Requests |-> None]
    /\ job = [r \in Requests |-> None]
    /\ note = [r \in Requests |-> None]
    /\ buffer = [r \in Requests |-> None]
    /\ access = [r \in Requests |-> NoShares]
    /\ answer = [r \in Requests |-> None]
    /\ heldRights = [r \in Requests |-> {}]

-----------------------------------------------------------------------------
(* Moves of one request.                                                   *)

FirstIo == IF Redis THEN "lookup" ELSE "select"

Goto(r, l) ==
    /\ pc' = [pc EXCEPT ![r] = l]
    /\ io' = [io EXCEPT ![r] = IF l \in Reads THEN FirstIo ELSE None]
    /\ UNCHANGED answer
Answer(r, a) ==
    /\ pc' = [pc EXCEPT ![r] = "done"]
    /\ io' = [io EXCEPT ![r] = None]
    /\ answer' = [answer EXCEPT ![r] = a]

\* FormatValidationError: an error of any type (missing row, lost connection)
\* becomes a Validation error, which the handler answers with 400.
FormatValidationError == "Validation"

\* A statement that only reads, or one whose effect is on the tables.
Local == UNCHANGED <<job, note, buffer, access>>
Reading == UNCHANGED <<tables, cache>> /\ Local

Job(op, who, n, f, u, level, text) ==
    [op |-> op, who |-> who, note |-> n, folder |-> f, user |-> u, level |-> level, text |-> text]

Receive(r, j) ==
    /\ pc[r] = "idle"
    /\ j.op \in Ops[r]
    /\ job' = [job EXCEPT ![r] = j]
    /\ UNCHANGED <<tables, cache, note, buffer, access>>

Begin(r, j, l) == Receive(r, j) /\ Goto(r, l)
Refuse(r, j, a) == Receive(r, j) /\ Answer(r, a)

-----------------------------------------------------------------------------
(* The handlers.                                                           *)

\* An id or a body that parsing or binding rejects; the service is not called.
Malformed(r, op, who) == Refuse(r, Job(op, who, None, None, None, None, None), "Validation")

HandleGetNote(r) == \E who \in Callers[r] :
    \/ \E n \in NoteIds : Begin(r, Job("GetNote", who, n, None, None, None, None), "note")
    \/ Malformed(r, "GetNote", who)

\* The folder of the body is copied into the note that is answered and is not a
\* column of the UPDATE, so it is left out.
HandleUpdateNote(r) == \E who \in Callers[r] :
    \/ \E n \in NoteIds, x \in Texts : Begin(r, Job("UpdateNote", who, n, None, None, None, x), "note")
    \/ Malformed(r, "UpdateNote", who)

HandleDeleteNote(r) == \E who \in Callers[r] :
    \/ \E n \in NoteIds : Begin(r, Job("DeleteNote", who, n, None, None, None, None), "note")
    \/ Malformed(r, "DeleteNote", who)

\* The body may name any permission level; the service rejects the "other" ones.
HandleShareNote(r) == \E who \in Callers[r] :
    \/ \E n \in NoteIds, u \in UserIds, level \in Levels \cup {"other"} :
         Begin(r, Job("ShareNote", who, n, None, u, level, None), "note")
    \/ Malformed(r, "ShareNote", who)

HandleRemoveNoteShare(r) == \E who \in Callers[r] :
    \/ \E n \in NoteIds, u \in UserIds : Begin(r, Job("RemoveNoteShare", who, n, None, u, None, None), "note")
    \/ Malformed(r, "RemoveNoteShare", who)

\* Bound: a creation is accepted while an unused id is left for each one in flight.
IdLeft(op, unused) == Cardinality({r \in Requests : pc[r] = "write" /\ job[r].op = op}) < Cardinality(unused)

\* A body without a folder inserts folder_id 0, which no folder has.
HandleCreateNote(r) == \E who \in Callers[r] :
    \/ /\ IdLeft("CreateNote", {n \in NoteIds : born[n] = None})
       /\ \E x \in Texts, f \in FolderIds \cup {None} :
            Begin(r, Job("CreateNote", who, None, f, None, None, x), "write")
    \/ Malformed(r, "CreateNote", who)

\* The two lists are the requester's own or refused.
OwnList(r, op, who, read) ==
    \/ Begin(r, Job(op, who, None, None, who, None, None), read)
    \/ \E u \in UserIds \ {who} : Refuse(r, Job(op, who, None, None, u, None, None), "Forbidden")
    \/ Malformed(r, op, who)
HandleGetUserNotes(r) == \E who \in Callers[r] : OwnList(r, "GetUserNotes", who, "notes")
HandleGetUserFolders(r) == \E who \in Callers[r] : OwnList(r, "GetUserFolders", who, "folders")

HandleGetSharedNotes(r) == \E who \in Callers[r] :
    Begin(r, Job("GetSharedNotes", who, None, None, None, None, None), "shared")

HandleCreateFolder(r) == \E who \in Callers[r] :
    \/ /\ IdLeft("CreateFolder", FolderIds \ oldFolders)
       /\ Begin(r, Job("CreateFolder", who, None, None, None, None, None), "write")
    \/ Malformed(r, "CreateFolder", who)

HandleDeleteFolder(r) == \E who \in Callers[r] :
    \/ \E f \in FolderIds : Begin(r, Job("DeleteFolder", who, None, f, None, None, None), "folder")
    \/ Malformed(r, "DeleteFolder", who)

\* The repository can share a folder, but no route of this server calls it:
\* whoever does (a script, a console) is a caller without a handler.
HandleFolderShares(r) == \E who \in Callers[r], f \in FolderIds, u \in UserIds :
    \/ \E level \in Levels : Begin(r, Job("ShareFolder", who, None, f, u, level, None), "write")
    \/ Begin(r, Job("RemoveFolderShare", who, None, f, u, None, None), "write")

-----------------------------------------------------------------------------
(* The cached reads of the repository.                                     *)

Key(r) ==
    CASE pc[r] \in {"note", "access"} -> <<"note", job[r].note>>
      [] pc[r] = "shares" -> <<"shares", job[r].note>>
      [] pc[r] = "folderShares" -> <<"folderShares", note[r].folder>>
      [] pc[r] = "notes" -> <<"notes", job[r].user>>
      [] pc[r] = "folders" -> <<"folders", job[r].user>>
      [] pc[r] = "folder" -> <<"folder", job[r].folder>>

\* permissionPriority: an entry is replaced by a higher level only.
Priority(level) == CASE level = "owner" -> 3 [] level = "write" -> 2 [] level = "read" -> 1 [] OTHER -> 0
Merge(list, more) == [u \in UserIds |-> IF Priority(more[u]) > Priority(list[u]) THEN more[u] ELSE list[u]]

OwnAccess(v) == [u \in UserIds |-> IF u = v.owner THEN "owner" ELSE None]
\* Mutant: the two sides of the JOIN are swapped.
ManagerAccess_Swapped(v) == [u \in UserIds |-> IF <<v.owner, u>> \in manages THEN "write" ELSE None]

ManagerAccess(v) == [u \in UserIds |-> IF <<u, v.owner>> \in manages THEN "write" ELSE None]

\* The service, given the note: who may go on, and with what.  The owner may do
\* everything, and is the only one who may delete and share.
AuthoriseGetNote(r, v) == Goto(r, IF v.owner = job[r].who THEN "access" ELSE "folderLevel")
AuthoriseUpdateNote(r, v) == Goto(r, IF v.owner = job[r].who THEN "write" ELSE "folderLevel")

OwnerOnly(r, v, l) == IF v.owner = job[r].who THEN Goto(r, l) ELSE Answer(r, "Forbidden")
AuthoriseDeleteNote(r, v) == OwnerOnly(r, v, IF Redis THEN "ownerRow" ELSE "write")
AuthoriseRemoveNoteShare(r, v) == OwnerOnly(r, v, "write")
AuthoriseShareNote(r, v) ==
    IF v.owner = job[r].who /\ job[r].level = "other" THEN Answer(r, "Validation") ELSE OwnerOnly(r, v, "write")

UseNote(r, v) ==
    /\ note' = [note EXCEPT ![r] = v]
    /\ UNCHANGED access
    /\ CASE job[r].op = "GetNote" -> AuthoriseGetNote(r, v)
         [] job[r].op = "UpdateNote" -> AuthoriseUpdateNote(r, v)
         [] job[r].op = "DeleteNote" -> AuthoriseDeleteNote(r, v)
         [] job[r].op = "ShareNote" -> AuthoriseShareNote(r, v)
         [] job[r].op = "RemoveNoteShare" -> AuthoriseRemoveNoteShare(r, v)

\* GetNoteAccess loads the note a second time; what goes wrong in it empties the
\* list and no more.
UseAccessNote(r, v) ==
    /\ IF v.owner = job[r].who
         THEN access' = [access EXCEPT ![r] = OwnAccess(v)] /\ Goto(r, "shares")
         ELSE UNCHANGED access /\ Answer(r, "OK")
    /\ UNCHANGED note

UseShares(r, v) ==
    /\ access' = [access EXCEPT ![r] = Merge(access[r], v)]
    /\ Goto(r, IF pc[r] = "shares" THEN "folderShares" ELSE "managers")
    /\ UNCHANGED note

AuthoriseDeleteFolder(r, owner) ==
    /\ IF owner = job[r].who THEN Goto(r, IF Redis THEN "folderRow" ELSE "write")
                             ELSE Answer(r, "Forbidden")
    /\ UNCHANGED <<note, access>>

Use(r, v) ==
    /\ CASE pc[r] = "note" -> UseNote(r, v)
         [] pc[r] = "access" -> UseAccessNote(r, v)
         [] pc[r] \in {"shares", "folderShares"} -> UseShares(r, v)
         [] pc[r] = "folder" -> AuthoriseDeleteFolder(r, v)
         [] OTHER -> Answer(r, "OK") /\ UNCHANGED <<note, access>>
    /\ UNCHANGED <<tables, job>>

Lookup(r) ==
    /\ io[r] = "lookup"
    /\ UNCHANGED <<cache, buffer>>
    /\ \/ cache[Key(r)] # None /\ Use(r, cache[Key(r)])
       \/ /\ cache[Key(r)] = None \/ "redis" \in Faults
          /\ io' = [io EXCEPT ![r] = "select"]
          /\ UNCHANGED <<tables, pc, job, note, access, answer>>

\* sql.ErrNoRows: only a note or a folder can be missing, a list is empty.
NoRow(r) ==
    IF pc[r] = "access" THEN Answer(r, "OK") ELSE Answer(r, FormatValidationError)

\* Mutant: a missing row is scanned like any other.
Select_NoRowCheck(r) ==
    /\ io[r] = "select"
    /\ buffer' = [buffer EXCEPT ![r] = Fresh(Key(r))]
    /\ io' = [io EXCEPT ![r] = "fill"]
    /\ UNCHANGED <<tables, cache, pc, job, note, access, answer>>

Select(r) ==
    /\ io[r] = "select"
    /\ UNCHANGED cache
    /\ LET v == Fresh(Key(r)) IN
       \/ v = None /\ NoRow(r) /\ Local /\ UNCHANGED tables
       \/ /\ v # None /\ Redis
          /\ buffer' = [buffer EXCEPT ![r] = v]
          /\ io' = [io EXCEPT ![r] = "fill"]
          /\ UNCHANGED <<tables, pc, job, note, access, answer>>
       \/ v # None /\ ~Redis /\ Use(r, v) /\ UNCHANGED buffer

Fill(r) ==
    /\ io[r] = "fill"
    /\ \/ cache' = [cache EXCEPT ![Key(r)] = buffer[r]]
       \/ "redis" \in Faults /\ UNCHANGED cache
    /\ Use(r, buffer[r])
    /\ buffer' = [buffer EXCEPT ![r] = None]

-----------------------------------------------------------------------------
(* Reads that are never cached.                                            *)

GetSharedNotes(r) == pc[r] = "shared" /\ Answer(r, "OK") /\ Reading

\* Mutant: any share lets update.
Suffices_AnyLevel(r, level) == level # None

\* Enough to read, enough to update.
Suffices(r, level) == IF job[r].op = "GetNote" THEN level # None ELSE level = "write"
Granted(r) == IF job[r].op = "GetNote" THEN "access" ELSE "write"

GetFolderShareLevel(r) ==
    /\ pc[r] = "folderLevel"
    /\ LET level == folderShares[note[r].folder][job[r].who] IN
       Goto(r, IF Suffices(r, level) THEN Granted(r) ELSE "noteLevel")
    /\ Reading

\* Mutant: the query forgets whose share it looks for.
GetNoteShareLevel_OfAnybody(r) ==
    /\ pc[r] = "noteLevel"
    /\ \E u \in UserIds :
         Goto(r, IF Suffices(r, noteShares[job[r].note][u]) THEN Granted(r)
                 ELSE IF job[r].op = "GetNote" THEN "manager" ELSE "denied")
    /\ Reading

GetNoteShareLevel(r) ==
    /\ pc[r] = "noteLevel"
    /\ LET level == noteShares[job[r].note][job[r].who] IN
       Goto(r, IF Suffices(r, level) THEN Granted(r)
               ELSE IF job[r].op = "GetNote" THEN "manager" ELSE "denied")
    /\ Reading

\* Only a reader may be a manager of the owner; UpdateNote does not ask.
IsManagerOfOwner(r) ==
    /\ pc[r] = "manager"
    /\ \/ <<job[r].who, note[r].owner>> \in manages /\ Goto(r, "access")
       \/ <<job[r].who, note[r].owner>> \notin manages /\ Answer(r, "Forbidden")
    /\ Reading

GetManagersOfOwner(r) ==
    /\ pc[r] = "managers"
    /\ access' = [access EXCEPT ![r] = Merge(access[r], ManagerAccess(note[r]))]
    /\ Answer(r, "OK")
    /\ UNCHANGED <<tables, cache, job, note, buffer>>

\* DeleteNote and DeleteFolder read the rows whose keys they will evict.  The
\* service wraps a missing note as Internal, a missing folder as Validation.
SelectNoteOwner(r) ==
    /\ pc[r] = "ownerRow"
    /\ \/ notes[job[r].note] # None /\ Goto(r, "write")
       \/ notes[job[r].note] = None /\ Answer(r, "Internal")
    /\ Reading

SelectFolderOwner(r) ==
    /\ pc[r] = "folderRow"
    /\ \/ folderOwner[job[r].folder] # None /\ Goto(r, "folderNotes")
       \/ folderOwner[job[r].folder] = None /\ Answer(r, FormatValidationError)
    /\ Reading

NotesIn(f) == {n \in NoteIds : notes[n] # None /\ notes[n].folder = f}

SelectFolderNotes(r) ==
    /\ pc[r] = "folderNotes"
    /\ buffer' = [buffer EXCEPT ![r] = NotesIn(job[r].folder)]
    /\ Goto(r, "write")
    /\ UNCHANGED <<tables, cache, job, note, access>>

-----------------------------------------------------------------------------
(* Writes.  Nobody looks at rowsAffected: a write that finds no row is a   *)
(* success, and goes on to evict and to publish.                           *)

Writing(r, op) == pc[r] = "write" /\ job[r].op = op /\ UNCHANGED <<cache, note, access>>

\* The class of a failed statement's answer.  UpdateNote wraps the error as
\* Internal for the holder of a note share and as Validation for everybody else.
WriteErrors(op) ==
    CASE op \in {"CreateNote", "CreateFolder", "DeleteNote"} -> {"Internal"}
      [] op = "UpdateNote" -> {"Internal", FormatValidationError}
      [] op \in {"ShareFolder", "RemoveFolderShare"} -> {"Internal"}
      [] OTHER -> {FormatValidationError}

\* With Redis the keys are evicted next; without it cacheDel and PublishEvent
\* return at once.  With a failing connection the caller may not learn it.
Written(r) ==
    \/ Redis /\ Goto(r, "evict")
    \/ ~Redis /\ Answer(r, "OK")
    \/ "db" \in Faults /\ \E a \in WriteErrors(job[r].op) : Answer(r, a)

Rejected(r, a) == Answer(r, a) /\ UNCHANGED <<tables, job, buffer>>

\* The note as the service hands it to the repository.
NewNote(j) == [owner |-> j.who, folder |-> j.folder, text |-> j.text]

CreateNote(r) ==
    LET f == job[r].folder IN
    /\ Writing(r, "CreateNote")
    /\ \/ /\ f # None /\ folderOwner[f] # None
          /\ \E n \in NoteIds :
               /\ born[n] = None
               /\ notes' = [notes EXCEPT ![n] = NewNote(job[r])]
               /\ born' = [born EXCEPT ![n] = [owner |-> job[r].who, folder |-> f]]
               /\ job' = [job EXCEPT ![r].note = n]
          /\ UNCHANGED <<folderOwner, noteShares, folderShares, manages, oldFolders, buffer>>
          /\ Written(r)
       \/ (IF f = None THEN TRUE ELSE folderOwner[f] = None) /\ Rejected(r, "Internal")

\* Mutant: the UPDATE writes the folder too, as copies made before it do not know.
UpdateNote_MovesNote(r) ==
    LET n == job[r].note IN
    /\ Writing(r, "UpdateNote")
    /\ \/ /\ notes[n] # None
          /\ \E f \in {g \in FolderIds : folderOwner[g] # None} :
               notes' = [notes EXCEPT ![n].text = job[r].text, ![n].folder = f]
       \/ notes[n] = None /\ UNCHANGED notes
    /\ UNCHANGED <<folderOwner, noteShares, folderShares, manages, born, oldFolders, job, buffer>>
    /\ Written(r)

UpdateNote(r) ==
    LET n == job[r].note IN
    /\ Writing(r, "UpdateNote")
    /\ \/ notes[n] # None /\ notes' = [notes EXCEPT ![n].text = job[r].text]
       \/ notes[n] = None /\ UNCHANGED notes
    /\ UNCHANGED <<folderOwner, noteShares, folderShares, manages, born, oldFolders, job, buffer>>
    /\ Written(r)

\* ON DELETE CASCADE takes the note's shares with it.
DeleteNote(r) ==
    /\ Writing(r, "DeleteNote")
    /\ notes' = [notes EXCEPT ![job[r].note] = None]
    /\ noteShares' = [noteShares EXCEPT ![job[r].note] = NoShares]
    /\ UNCHANGED <<folderOwner, folderShares, manages, born, oldFolders, job, buffer>>
    /\ Written(r)

\* INSERT .. ON DUPLICATE KEY UPDATE, with foreign keys to notes and users.
ShareNote(r) ==
    LET n == job[r].note u == job[r].user IN
    /\ Writing(r, "ShareNote")
    /\ \/ /\ notes[n] # None /\ u \in Users
          /\ noteShares' = [noteShares EXCEPT ![n][u] = job[r].level]
          /\ UNCHANGED <<folderOwner, notes, folderShares, manages, born, oldFolders, job, buffer>>
          /\ Written(r)
       \/ (notes[n] = None \/ u \notin Users) /\ Rejected(r, FormatValidationError)

RemoveNoteShare(r) ==
    /\ Writing(r, "RemoveNoteShare")
    /\ noteShares' = [noteShares EXCEPT ![job[r].note][job[r].user] = None]
    /\ UNCHANGED <<folderOwner, notes, folderShares, manages, born, oldFolders, job, buffer>>
    /\ Written(r)

CreateFolder(r) ==
    /\ Writing(r, "CreateFolder")
    /\ \E f \in FolderIds \ oldFolders :
         /\ folderOwner' = [folderOwner EXCEPT ![f] = job[r].who]
         /\ oldFolders' = oldFolders \cup {f}
         /\ job' = [job EXCEPT ![r].folder = f]
    /\ UNCHANGED <<notes, noteShares, folderShares, manages, born, buffer>>
    /\ Written(r)

\* Mutant: folders without ON DELETE CASCADE to their notes.
DeleteFolder_NoCascade(r) ==
    LET f == job[r].folder IN
    /\ Writing(r, "DeleteFolder")
    /\ folderOwner' = [folderOwner EXCEPT ![f] = None]
    /\ folderShares' = [folderShares EXCEPT ![f] = NoShares]
    /\ UNCHANGED <<notes, noteShares, manages, born, oldFolders, job, buffer>>
    /\ Written(r)

\* The cascade takes the folder's shares, its notes (whoever owns them) and theirs.
DeleteFolder(r) ==
    LET f == job[r].folder IN
    /\ Writing(r, "DeleteFolder")
    /\ folderOwner' = [folderOwner EXCEPT ![f] = None]
    /\ folderShares' = [folderShares EXCEPT ![f] = NoShares]
    /\ notes' = [n \in NoteIds |-> IF n \in NotesIn(f) THEN None ELSE notes[n]]
    /\ noteShares' = [n \in NoteIds |-> IF n \in NotesIn(f) THEN NoShares ELSE noteShares[n]]
    /\ UNCHANGED <<manages, born, oldFolders, job, buffer>>
    /\ Written(r)

ShareFolder(r) ==
    LET f == job[r].folder u == job[r].user IN
    /\ Writing(r, "ShareFolder")
    /\ \/ /\ folderOwner[f] # None /\ u \in Users
          /\ folderShares' = [folderShares EXCEPT ![f][u] = job[r].level]
          /\ UNCHANGED <<folderOwner, notes, noteShares, manages, born, oldFolders, job, buffer>>
          /\ Written(r)
       \/ (folderOwner[f] = None \/ u \notin Users) /\ Rejected(r, "Internal")

RemoveFolderShare(r) ==
    /\ Writing(r, "RemoveFolderShare")
    /\ folderShares' = [folderShares EXCEPT ![job[r].folder][job[r].user] = None]
    /\ UNCHANGED <<folderOwner, notes, noteShares, manages, born, oldFolders, job, buffer>>
    /\ Written(r)

-----------------------------------------------------------------------------
(* After the write: one DEL of all the keys, for a creation one SET, then  *)
(* the audit event.  Failures of Redis are logged and ignored.             *)

EvictedKeys(r) ==
    LET j == job[r] IN
    CASE j.op = "CreateNote" -> {<<"notes", j.who>>, <<"note", j.note>>}
      [] j.op = "UpdateNote" -> {<<"note", j.note>>, <<"notes", note[r].owner>>}
      [] j.op = "DeleteNote" -> {<<"note", j.note>>, <<"shares", j.note>>, <<"notes", note[r].owner>>}
      [] j.op = "ShareNote" -> {<<"shares", j.note>>}
      [] j.op = "RemoveNoteShare" -> {<<"shares", j.note>>, <<"note", j.note>>}
      [] j.op = "CreateFolder" -> {<<"folders", j.who>>, <<"folder", j.folder>>}
      [] j.op = "DeleteFolder" ->
           {<<"folder", j.folder>>, <<"folderShares", j.folder>>, <<"folders", j.who>>, <<"notes", j.who>>}
             \cup ({"note", "shares"} \X buffer[r])
      [] OTHER -> {<<"folderShares", j.folder>>}

Publishes(op) == op \in {"DeleteNote", "ShareNote", "RemoveNoteShare", "CreateFolder", "DeleteFolder"}

\* Mutant: the keys note:<id>:shares are never evicted.
Evict_KeepsShares(r) ==
    /\ pc[r] = "evict"
    /\ cache' = [k \in Keys |-> IF k \in EvictedKeys(r) /\ k[1] # "shares" THEN None ELSE cache[k]]
    /\ IF job[r].op \in {"CreateNote", "CreateFolder"} THEN Goto(r, "store")
       ELSE IF Publishes(job[r].op) THEN Goto(r, "publish") ELSE Answer(r, "OK")
    /\ buffer' = [buffer EXCEPT ![r] = None]
    /\ UNCHANGED <<tables, job, note, access>>

Evict(r) ==
    /\ pc[r] = "evict"
    /\ \/ cache' = [k \in Keys |-> IF k \in EvictedKeys(r) THEN None ELSE cache[k]]
       \/ "redis" \in Faults /\ UNCHANGED cache
    /\ IF job[r].op \in {"CreateNote", "CreateFolder"} THEN Goto(r, "store")
       ELSE IF Publishes(job[r].op) THEN Goto(r, "publish") ELSE Answer(r, "OK")
    /\ buffer' = [buffer EXCEPT ![r] = None]
    /\ UNCHANGED <<tables, job, note, access>>

\* The row is cached as it was sent, not as it now is.
StoreCreated(r) ==
    LET j == job[r] IN
    /\ pc[r] = "store"
    /\ \/ j.op = "CreateNote" /\ cache' = [cache EXCEPT ![<<"note", j.note>>] = NewNote(j)]
       \/ j.op = "CreateFolder" /\ cache' = [cache EXCEPT ![<<"folder", j.folder>>] = j.who]
       \/ "redis" \in Faults /\ UNCHANGED cache
    /\ IF Publishes(j.op) THEN Goto(r, "publish") ELSE Answer(r, "OK")
    /\ UNCHANGED tables /\ Local

\* The event leaves this module's state alone, and its failure is only logged.
PublishEvent(r) ==
    /\ \/ pc[r] = "publish" /\ Answer(r, "OK")
       \/ pc[r] = "denied" /\ Answer(r, "Forbidden")
    /\ Reading

\* The response is written and the goroutine ends; the slot is free again.
Respond(r) ==
    /\ pc[r] = "done"
    /\ pc' = [pc EXCEPT ![r] = "idle"]
    /\ job' = [job EXCEPT ![r] = None]
    /\ note' = [note EXCEPT ![r] = None]
    /\ access' = [access EXCEPT ![r] = NoShares]
    /\ answer' = [answer EXCEPT ![r] = None]
    /\ UNCHANGED <<tables, cache, io, buffer>>

-----------------------------------------------------------------------------
(* The environment.                                                        *)

\* What the failure of a reading statement is answered with.
ReadError(l) ==
    CASE l \in {"access", "shares", "folderShares", "managers"} -> "OK"
      [] l \in {"notes", "folders", "shared", "ownerRow"} -> "Internal"
      [] OTHER -> FormatValidationError

\* A statement that returns an error and changed nothing; for one that did, see
\* Written.  A failing GetNoteAccess only empties the list of the answer.
DbFails(r) ==
    /\ "db" \in Faults
    /\ \/ /\ \/ io[r] = "select"
             \/ pc[r] \in {"shared", "folderLevel", "noteLevel", "manager", "managers",
                           "ownerRow", "folderRow", "folderNotes"}
          /\ Answer(r, ReadError(pc[r]))
       \/ pc[r] = "write" /\ \E a \in WriteErrors(job[r].op) : Answer(r, a)
    /\ access' = [access EXCEPT ![r] = NoShares]
    /\ buffer' = [buffer EXCEPT ![r] = None]
    /\ UNCHANGED <<tables, cache, job, note>>

\* A team request (see TeamService) makes somebody a manager of somebody else,
\* or ends that.  It takes the slot of a request for its one step here.
ChangeTeams(r) ==
    /\ "ChangeTeams" \in Ops[r]
    /\ pc[r] = "idle"
    /\ \E m, o \in Users :
         /\ m # o
         /\ manages' = IF <<m, o>> \in manages THEN manages \ {<<m, o>>} ELSE manages \cup {<<m, o>>}
    /\ UNCHANGED <<folderOwner, notes, noteShares, folderShares, born, oldFolders, cache,
                   pc, io, answer>> /\ Local

\* Keys live 10 minutes.
Expire(k) ==
    /\ "expiry" \in Faults
    /\ cache[k] # None
    /\ cache' = [cache EXCEPT ![k] = None]
    /\ UNCHANGED <<tables, pc, io, answer>> /\ Local

\* The server dies: goroutines go, tables and Redis stay.
Crash ==
    /\ "crash" \in Faults
    /\ \E r \in Requests : pc[r] # "idle"
    /\ pc' = [r \in Requests |-> "idle"]
    /\ io' = [r \in Requests |-> None]
    /\ job' = [r \in Requests |-> None]
    /\ note' = [r \in Requests |-> None]
    /\ buffer' = [r \in Requests |-> None]
    /\ access' = [r \in Requests |-> NoShares]
    /\ answer' = [r \in Requests |-> None]
    /\ UNCHANGED <<tables, cache>>

-----------------------------------------------------------------------------
Handle(r) ==
    \/ HandleGetNote(r) \/ HandleUpdateNote(r) \/ HandleDeleteNote(r) \/ HandleCreateNote(r)
    \/ HandleShareNote(r) \/ HandleRemoveNoteShare(r) \/ HandleGetSharedNotes(r)
    \/ HandleGetUserNotes(r) \/ HandleGetUserFolders(r)
    \/ HandleCreateFolder(r) \/ HandleDeleteFolder(r) \/ HandleFolderShares(r)

Serve(r) ==
    \/ Lookup(r) \/ Select(r) \/ Fill(r)
    \/ GetSharedNotes(r) \/ GetFolderShareLevel(r) \/ GetNoteShareLevel(r)
    \/ IsManagerOfOwner(r) \/ GetManagersOfOwner(r)
    \/ SelectNoteOwner(r) \/ SelectFolderOwner(r) \/ SelectFolderNotes(r)
    \/ CreateNote(r) \/ UpdateNote(r) \/ DeleteNote(r) \/ ShareNote(r) \/ RemoveNoteShare(r)
    \/ CreateFolder(r) \/ DeleteFolder(r) \/ ShareFolder(r) \/ RemoveFolderShare(r)
    \/ Evict(r) \/ StoreCreated(r) \/ PublishEvent(r) \/ Respond(r)

\* The rights u has on note n, by the tables (and by whose note it was).
Rights(u, n) ==
    IF born[n] = None THEN {}
    ELSE { x \in {"owner", "manager", folderShares[born[n].folder][u], noteShares[n][u]} \ {None} :
             /\ x = "owner" => u = born[n].owner
             /\ x = "manager" => <<u, born[n].owner>> \in manages }

\* History: the rights held from the request's arrival to the decision on it.
Deciding(r) == pc[r] \in {"note", "folderLevel", "noteLevel", "manager"}

RecordRights ==
    heldRights' = [r \in Requests |->
        IF pc'[r] = "idle" THEN {}
        ELSE IF Deciding(r)' THEN heldRights[r] \cup Rights(job[r].who, job[r].note)'
        ELSE heldRights[r]]

ServerStep(r) == (Handle(r) \/ Serve(r) \/ DbFails(r)) /\ RecordRights
OtherStep == ((\E r \in Requests : ChangeTeams(r)) \/ (\E k \in Keys : Expire(k)) \/ Crash) /\ RecordRights

Next == (\E r \in Requests : ServerStep(r)) \/ OtherStep

Spec == Init /\ [][Next]_vars

-----------------------------------------------------------------------------
(* Properties.                                                             *)

\* Types of all the state: rows, Redis values, requests and histories.
Values(k) ==
    CASE k[1] = "note" -> NoteRows
      [] k[1] \in {"shares", "folderShares"} -> Shares
      [] k[1] = "folder" -> UserIds
      [] k[1] = "notes" -> [NoteIds -> NoteRows \cup {None}]
      [] k[1] = "folders" -> SUBSET FolderIds

TypeOK ==
    /\ folderOwner \in [FolderIds -> Users \cup {None}]
    /\ notes \in [NoteIds -> NoteRows \cup {None}]
    /\ noteShares \in [NoteIds -> Shares]
    /\ folderShares \in [FolderIds -> Shares]
    /\ manages \subseteq Users \X Users
    /\ born \in [NoteIds -> Homes \cup {None}]
    /\ oldFolders \subseteq FolderIds
    /\ DOMAIN cache = Keys /\ \A k \in Keys : cache[k] # None => cache[k] \in Values(k)
    /\ pc \in [Requests -> Labels]
    /\ io \in [Requests -> {"lookup", "select", "fill", None}]
    /\ job \in [Requests -> Jobs \cup {None}]
    /\ note \in [Requests -> NoteRows \cup {None}]
    /\ access \in [Requests -> AccessLists]
    /\ answer \in [Requests -> Answers \cup {None}]
    /\ heldRights \in [Requests -> SUBSET ({"owner", "manager"} \cup Levels)]
    /\ \A r \in Requests : io[r] = "fill" => buffer[r] \in Values(Key(r))

SameHome(v, n) == born[n] # None /\ v.owner = born[n].owner /\ v.folder = born[n].folder

\* A copy of a note may be old, and the note may be gone, but it never misleads
\* about whose note it is or which folder's shares apply: every row, every
\* cached copy, alone or in a list, and every note a request decides on has the
\* owner and the folder the note was created with.
CopiesKeepTheirHome ==
    /\ \A n \in NoteIds :
         /\ notes[n] # None => SameHome(notes[n], n)
         /\ cache[<<"note", n>>] # None => SameHome(cache[<<"note", n>>], n)
    /\ \A u \in UserIds, n \in NoteIds :
         LET list == cache[<<"notes", u>>] IN
         (IF list = None THEN None ELSE list[n]) # None => SameHome(list[n], n) /\ list[n].owner = u
    /\ \A r \in Requests : note[r] # None => SameHome(note[r], job[r].note)

\* No row outlives what it refers to: a note its folder, a share its note, its
\* folder or its user, whichever of them is deleted while it is being written.
RowsIntegrity ==
    /\ \A n \in NoteIds :
         /\ notes[n] # None => folderOwner[notes[n].folder] # None
         /\ \A u \in UserIds : noteShares[n][u] # None => notes[n] # None /\ u \in Users
    /\ \A f \in FolderIds, u \in UserIds :
         folderShares[f][u] # None => folderOwner[f] # None /\ u \in Users

Entitled(n, ops, rights) ==
    \E r \in Requests : /\ pc[r] = "write" /\ job[r].op \in ops /\ job[r].note = n
                        /\ heldRights[r] \cap rights # {}
FolderGoes(f) ==
    \E r \in Requests : /\ pc[r] = "write" /\ job[r].op = "DeleteFolder" /\ job[r].folder = f
                        /\ folderOwner[f] = job[r].who

\* A note and its shares change only by a request whose requester had, at some
\* moment since it arrived, the right the operation demands (the owner, or for
\* the text a write share of the note or of its folder), or with the folder,
\* which only the folder's owner deletes, even when the notes are not his.  The
\* rights are those of the service (asset/service.go 89-138, 172, 193, 222, 278).
\* The documentation of the handlers that delete, share and unshare says "owner or
\* write access" (asset/handler.go 247, 287, 340); the service admits the owner only.
RightsBehindChange(n) ==
    LET goes == notes[n] # None /\ notes'[n] = None
        stays == notes[n] # None /\ notes'[n] # None IN
    /\ stays /\ notes'[n] # notes[n] => Entitled(n, {"UpdateNote"}, {"owner", "write"})
    /\ stays /\ noteShares'[n] # noteShares[n] => Entitled(n, {"ShareNote", "RemoveNoteShare"}, {"owner"})
    /\ goes => Entitled(n, {"DeleteNote"}, {"owner"}) \/ FolderGoes(notes[n].folder)
RightsBehindChanges == [][\A n \in NoteIds : RightsBehindChange(n)]_vars

\* Whoever is shown a note, from the table or from a stale copy, had some right
\* on it since the request arrived; only the owner is shown the access list.
ReadsJustified ==
    \A r \in Requests : pc[r] = "done" /\ answer[r] = "OK" /\ job[r].op = "GetNote" =>
        /\ heldRights[r] # {}
        /\ access[r] # NoShares => "owner" \in heldRights[r]

Quiet == \A r \in Requests : pc[r] \in {"idle", "done"}

\* Cache-aside discipline with one request at a time: every key is absent or
\* holds what its SELECT returns; the list of a user's notes is right at least
\* about the notes that exist (a folder's owner deletes other users' notes
\* without evicting their lists).
CacheCoherent ==
    Quiet => \A k \in Keys : cache[k] # None =>
        IF k[1] = "notes"
          THEN \A n \in NoteIds : notes[n] # None => cache[k][n] = Fresh(k)[n]
          ELSE cache[k] = Fresh(k)

Shown(r) == pc[r] = "done" /\ answer[r] = "OK" /\ job[r].op = "GetNote" /\ access[r] # NoShares

\* The access list GetNoteAccess computes from three tables is the set of users
\* GetNoteByID would admit: two paths through the code, one policy.
AccessListNamesTheReaders ==
    \A r \in Requests : Shown(r) =>
        \A u \in UserIds : access[r][u] # None <=> Rights(u, job[r].note) # {}

\* "Managers of owner get write access" (service.go): whoever the access list
\* shows with write access is admitted by UpdateNote.
ListedWritersMayUpdate ==
    \A r \in Requests : Shown(r) =>
        \A u \in UserIds : access[r][u] = "write" => "write" \in Rights(u, job[r].note)
=============================================================================
