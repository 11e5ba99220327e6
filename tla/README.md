# Team Management in TLA+

This directory models the Team Management server (Go, gin, MySQL, Redis): what
its request handlers do to the tables and to the cache, what its CSV import does
with its goroutines, how the process starts, keeps its audit trail and stops, and
which properties hold for every interleaving of all that.
TLC checks the properties on small instances; TLAPS proves all of them but the
liveness ones for every value of the constants.

Source references are relative to the repository, `team/` meaning
`src/internal/team/`, and so on.

## 1. The system

One process serves HTTP. Each request runs in a goroutine of its own through
*handler* (parse, bind, answer) → *service* (validation, authorisation, audit
event) → *repository* (SQL and Redis). Goroutines of different requests share
nothing but MySQL and Redis. No operation holds a lock or a transaction across
two statements (the one exception is the creation of a team), so every statement
and every Redis command is a point where another request may run.

| Component | State | Operations | Talks to |
|---|---|---|---|
| Teams (`team/`) | tables `teams`, `team_members`; keys `team:<id>`, `teams:user:<id>` (15 min) | create, read, rename, delete a team; list a user's teams; add, remove, re-role a member | MySQL, Redis, audit channel |
| Notes (`asset/`) | tables `folders`, `notes`, `folder_shares`, `note_shares`; keys `note:<id>`, `note:<id>:shares`, `folder:<id>`, `folder:<id>:shares`, `user:<id>:notes`, `user:<id>:folders` (10 min) | read, create, update, delete, share notes; create, delete, list folders; the access list of a note | MySQL (its own tables and `team_members`), Redis, audit channel |
| Accounts (`auth/`, `middleware/jwt.go`) | table `users`; JWTs held by clients (72 h); keys `blacklist:<token>` | register, log in, log out; the middleware of every protected route | MySQL, Redis, audit channel |
| CSV import (`auth/service.go` 206-321) | two unbuffered channels, a wait group, counters | a reader, N workers, a closer and a collector | `Register` |
| Audit trail (`audit/`) | table `audit_logs`; Redis channel `audit_events`; the worker's buffer of 100 messages | publish (in the request), store (one worker goroutine) | Redis, MySQL |
| Lifecycle (`cmd/api/main.go`, `cache/`, `database/`) | contexts, wait group, pools | connect with retries, serve, shut down in order | all of the above |
| Error mapping (`utils/errors.go`) | none | error → class of answer | handlers |

What is hard about it, and what correctness means:

* **Check, then act.** A role or a share is read in one statement and relied on
  in the next. Correct: a change is made only by somebody who had the right to
  make it at some moment since he asked.
* **Cache-aside.** A reader fills a key with rows it read earlier; a writer
  changes rows and evicts keys afterwards; either half may fail. Correct: a key
  is absent or right between requests, what is stale goes away, and what is
  stale never decides who may do what.
* **Cascades and foreign keys.** Teams, folders and notes disappear under
  requests that are about to write below them. Correct: no orphan rows.
* **Answers.** After the commit come the eviction and the audit event. Correct:
  OK means done, a refusal means not done, an event announces what happened.
* **Claims that outlive their row.** A token says for 72 hours who somebody is;
  nobody asks the table again. Correct: what it says stays true, and what was
  logged out is recorded to the last millisecond in which it could be used.
* **No acknowledgements.** Events go over a channel that forgets, by a client
  that sends again what got no reply, to a worker that may be cancelled in the
  middle of an INSERT. Correct: the trail is a history (no message of the channel
  twice, none out of order unless its INSERT was given up), and between the
  worker's buffer and the table nothing vanishes without a trace.
* **Starting and stopping.** Redis may be away, handlers and the worker may take
  longer than main waits. Correct: start and shutdown come to an end, and the
  pools are closed only behind the last handler.
* **Goroutines over unbuffered channels.** Correct: the import ends, nobody sends
  on a closed channel or stays blocked, and the counters are those of the file.

## 2. Modules

| Module | Models | Lines |
|---|---|---|
| `TeamDirectory` | abstract: what the team API promises, a request being granted at one moment and made at one moment | the contract of `team/` |
| `TeamService` | every endpoint of `/api/teams`, with both tables and both key families; implements `TeamDirectory` | handlers, service and repository of `team/` |
| `TeamServiceProofs` | theorems about `TeamService` | |
| `TeamDirectoryProofs` | the refinement: every step of `TeamService` is one of `TeamDirectory`, or none | |
| `TeamCacheProofs` | theorems about `TeamService` as one client sees it: the caches, the main_manager | |
| `AssetService` | every endpoint of `/api/notes` and `/api/folders`, with four tables and six key families | handlers, service and repository of `asset/` |
| `AssetServiceProofs` | theorems about `AssetService` | |
| `AssetCacheProofs` | theorems about `AssetService` as one client sees it: the caches, the access list | |
| `Sessions` | every endpoint of `/auth` and `/api/auth`, `/api/me`, and the middleware, with table, tokens, blacklist and clock | handlers, service and repository of `auth/`, `middleware/jwt.go` |
| `SessionsProofs` | theorems about `Sessions` | |
| `Importer` | abstract: what an import promises about each row and about the counts | the contract of `BulkImportUsers` |
| `BulkImport` | the goroutines of one CSV import, cancellation, and the unique address in `users`; implements `Importer` | `auth/service.go`, `auth/repository.go` |
| `BulkImportProofs` | theorems about `BulkImport`, with the refinement | |
| `AuditTrail` | the process from boot to exit, its handlers as publishers, the channel, the worker and `audit_logs`, over restarts | `cmd/api/main.go`, `audit/` |
| `AuditTrailProofs` | theorems about `AuditTrail` | |
| `MC...` | for each of the five models: symmetry sets and the constants of the instances | |

### TeamService

A request is a slot `r \in Requests` with a program counter `pc[r]`; `job[r]` is
what was asked. One action is one SQL statement (the transaction of `CreateTeam`
counts as one) or one Redis command:

    idle -Handle*-> lookup -> row -> members -> fill -> role -> target -> write -> evict -> publish -> done -Respond-> idle
                    GET       SELECT SELECT     SET     SELECT  SELECT    INSERT.. DEL      PUBLISH

`teamName`, `role` and `issued` are the tables (`issued` is AUTO_INCREMENT);
`teamCache` and `listCache` are Redis. `GetTeamByID` is the first part of every
change of an existing team, so changes trust and refill the cache too, as in the
code. `heldRoles`, `effect` and `published` are history variables. Validation of
names, ids and bodies is one branch, `Malformed`. A write that changes no row is
answered as the code does it: MySQL reports *changed* rows, the DSN does not set
`clientFoundRows`, and the service turns zero into an internal error. `Redis`
is FALSE for a server that started without a Redis connection.

### AssetService

The same style. The six cached SELECTs of the repository have one shape (GET; on
a miss SELECT and SET), so they are one read protocol: `pc` names the read, `io`
is its step, `Key(r)` its Redis key, `Fresh(k)` what the SELECT returns, and
`Use` is what the service does with the rows. `job[r]`, `note[r]`, `buffer[r]`
and `access[r]` are the handler's locals. `born` remembers owner and folder of
every note ever inserted. `manages` is what the two queries on `team_members`
can see of the teams; `ChangeTeams` lets it change as `TeamService` does.
Sharing a folder is a repository operation no route reaches; it is kept, as its
shares decide who may read. The folder in the body of an update is answered and
never stored (`repository.go` 580), so it is left out.

### BulkImport

The reader's `offer` and each worker's `reply` are sends blocked on an
unbuffered channel; a receive is the step in which both sides move. `file` is
chosen in `Init`: any sequence of good, invalid and unreadable rows. `Register`
is `auth/service.go` 87-150 with the unique address: the row's user is inserted,
or the address is taken, or the INSERT (or the reading of its id) ends in an
error, executed or not, because MySQL fails (the fault `db`) or the client is
gone (`Cancel`, the fault `cancel`). `unsure` is a history variable, the rows of
that last kind. `RegisterElsewhere` is any other registration.

### Sessions

The style of `TeamService` again: an INSERT, a SELECT, the comparison with the
hash, a PUBLISH, the computation of a time to live and a SET are one step each. An
account is its address (unique, and rows never change), a token its claims: HS256
is deterministic, so two logins of one account whose tokens end in the same second
yield one token. `now` is a clock of milliseconds that the server and Redis share;
`Tick` also drops the keys of the blacklist whose time has come. Two conversions
matter to the blacklist and are modelled: the claim `exp` is cut to whole seconds
(`WholeSeconds`, `auth/service.go` 180), and go-redis cuts the time to live of a
SET to whole milliseconds, one at least (`Millis`). As the logout may come in the
middle of a millisecond, the key may lose one of them. A SET without a reply may
have been executed and is sent again. `Accepts` is all that the middleware asks.
`connected` is whether the process that runs now found Redis when it started:
without it events are dropped, and a logout dereferences a nil client, which gin's
Recovery answers with 500. The import appears as what it does to `users`
(`ImportRow`, any number of times), on behalf of a token; `BulkImport` has its
goroutines.

### AuditTrail

`phase` is where main is, from `Boot` to `Return`; `handler[r]` is what is left
of a request when only its publication matters; `worker`, `held`, `subscribed`
and `buffer` are the audit worker, its statement in flight, and both ends of its
subscription. A message is its number in the order in which Redis accepted them,
so that "in order, at most once" is a statement about increasing numbers. It is
about messages, not events: when the reply to a PUBLISH is lost, go-redis sends it
again, up to a number of times that is an option of `REDIS_URL`, and Redis may
have accepted the first one, or accept it later (`onWire`, `AcceptLate`). The
event then is two messages, the worker stores both, and nothing in the code could
tell. `Exit` is every way the process can end (`log.Fatalf`, a kill, main's
return): all but Redis and the table is gone. What the code leaves to chance is a
choice here: which case `select` picks, and which side of `ctx.Done()` a statement
ends on. An INSERT that failed for the worker, or was in flight when the process
ended, is `abandoned`: MySQL may have executed it, never does, or does at any later
moment (`FinishLate`), behind statements begun after it.

### TeamDirectory

The contract of the team API without statements, keys or roles read in advance.
A request is *asked*, *granted* (at a moment when its requester holds the role
the operation demands), *made* (one change of the directory) and *answered*;
what is refused was not made. `TeamService` implements it with

    directory[t] <- name and members of the team's rows
    request[r]   <- job[r], a stage read off pc[r], effect[r], answer[r]

so that cache lookups, fills and evictions are stuttering steps: whatever
happens in Redis, no client can tell from answers to changing requests. (The
contract promises nothing about the content of an answer to a read: that is
`TeamCacheCoherent`.) `team_liveness` checks the refinement with every fault on
one user; `DirectoryTheorem` proves it for all users, endpoints and requests.

### Importer

The contract of the CSV import without goroutines, channels or counters. Each row
that is *due* (the rows of the file up to the limit, a row standing for the rest
behind the limit, or the header if that cannot be read) meets its *fate* at one
moment, in any order: it is created if its address is free then, and refused if
not. A row may also fail (`Fail`), with MySQL or with a client that has gone away:
it is counted as failed, and its user may have been created all the same; `unsure`
says which rows these are. Once every row that is due has its fate, the caller is
handed the counts of all of them. Of a client that goes away less is promised: the
rest of the upload may be lost. `BulkImport` implements it with

    fate[n] <- what was reported of row n, or what a worker is about to reply
    answer  <- summary, from the moment the collector returns it
    gone    <- cancelled

so that the hand-overs between goroutines are stuttering steps: neither the
number of workers nor who overtakes whom shows in what the caller is told.
`bulk_import` checks it with two workers, `ImportTheorem` proves it for any
number of workers, any limit and any file.

Next to some operations stands a variant named `Operation_WhatIsWrong`, marked
as a mutant: the operation with a plausible bug. No specification uses them;
each is there to show that one property notices that bug when it replaces the
operation.

## 3. Runs

| Run | Instance | Shows |
|---|---|---|
| `team_rights` | 2 users, 1 team, 2 names, 2 requests, the six changing endpoints, no Redis | `RowsIntegrity`, `RightsBehindChanges`, `HeadlessTeamIsStuck` |
| `team_sequential` | 2 users and an unknown id, 2 teams, 1 request, all endpoints, Redis | `TeamCacheCoherent`, `ListMembershipCoherent`, `MainManagerProtected` |
| `team_liveness` | 1 user, 1 team, 2 requests, seven endpoints, failing database, Redis and process, fairness | `TypeOK`, `AnswerMatchesEffect`, `EveryRequestAnswered`, `StaleEntriesGoAway`, `ImplementsDirectory` |
| `bulk_import` | 2 workers, files of up to 3 rows, limit 2, 2 addresses, cancellation, failing database, fairness | `TypeOK`, `SummaryAddsUp`, `SummaryTellsTheTruth`, `NothingLeftBehind`, `NoSendAfterClose`, `ImportTerminates`, `ImplementsImporter` |
| `asset_sequential` | 2 users, 1 folder, 1 note, 1 request, nearly all operations, Redis | `CacheCoherent`, `AccessListNamesTheReaders` |
| `asset_rights` | an owner and a user who reads and updates meanwhile, 2 texts, Redis | `RowsIntegrity`, `ReadsJustified`, `RightsBehindChanges` |
| `asset_faults` | 1 user, 2 folders, 1 note, failing Redis, database and process, expiring keys | `TypeOK`, `CopiesKeepTheirHome` |
| `sessions` | the administrator and one free address, 2 passwords, 2 requests, tokens that live a second, a second and a clock of 3 ms, failing database, Redis and process | `TypeOK`, `TokensMatchAccounts`, `ImportersAreManagers`, `AnswersTellTheTruth`, `BlacklistCoversToken`, `BlacklistEntriesExpire` |
| `audit_trail` | 2 boots, 2 requests, 3 messages, a buffer of 2, failing database and Redis, kills, fairness | `TypeOK`, `StoredOnceInOrder`, `DeliveredAreAccountedFor`, `HandlersEndFirst`, `StartEnds`, `ShutdownEnds`, `BufferMoves` |
| `team_main_manager_race` | 2 users, 2 requests, no Redis | `MainManagerProtected` is violated |
| `asset_manager_writes` | 1 request | `ListedWritersMayUpdate` is violated |
| `sessions_logout` | as `sessions`, tokens that live 1 ms, no faults | `LogoutInvalidates` is violated |

**Why the bounds are enough.** All that one request can do to another goes through
the rows and keys of one team (or one note and its folder), and every hazard of
the list is a race of two requests: one that checks and one that changes what was
checked. Two slots reach all of these; the slots are reused, so there are
arbitrarily many requests one after the other. Two users are the least that
distinguishes requester from target and owner from stranger; two names (or texts)
the least that shows a change; ids are not reused, so after a deletion one id has
met every stage of its life. Two teams (`team_sequential`) and two folders
(`asset_faults`) appear where a list or a home could be mixed up. One request at a
time is what coherence of a cache is about (section 4 says what a second one does
to it); the race of a reader with a writer is in `team_liveness`. There, one user
and one name keep the graph small enough for liveness with every fault: a rename
is always to the team's own name, the case that is answered 500, and
`UpdateMemberRole` is left out. Renames and roles that do change are in
`team_rights`, and their answers in `AnswersTheorem`. In `asset_rights` the
owner's slot shares, revokes and deletes, the reader's slot reads, updates and
deletes: the roles are fixed, the interleavings are not. For the import two
workers can already hold the same address, both block on the results channel, and
leave in either order; a file one row longer than the limit reaches all three ways
a row can end. In `sessions` two clients want the one free address (so does an
import of the administrator's). Its tokens live three milliseconds, one second: so
a token can end between any two steps of its logout, a time to live can be asked
for in the millisecond in which the token ends, a SET can come one or two
milliseconds after the computation with the token still alive, and a time to live
in whole seconds would be noticed. One token is enough, as a second is only
another key, and the two requests can log out the same one. In `audit_trail` two
boots make one restart with a table already filled, three messages overfill a
buffer of two, are an event and its copy, or are split between the two lives, and
two handlers are the least of which one can hold up the shutdown of the other.

Every bound is a constant: `TeamIds`, `FolderIds` and `NoteIds` bound the rows
ever created (`IdLeft` stops accepting creations when the ids are used up),
`Requests` the concurrency, `MaxFileRows` the file, `MaxTime` the clock,
`MaxTokens` the logins (two in flight can overshoot it by one), `MaxEvents` and
`MaxBoots` messages and lives. Deadlock is checked except in `audit_trail`, where
the process may stay off for good. `BulkImport.cfg` has its finished state as an
explicit stuttering step (`Finished`), so any other stop is an error.

Symmetry is used in safety runs only, and only for values the code compares for
equality and nothing else: request slots (`team_rights`, `sessions`), team names
(`team_rights`), team ids (`team_sequential`), texts (`asset_rights`) and, where
every id is a registered user, users (`asset_sequential`). Liveness runs use none.

**Fairness.** `FairSpec` of `TeamService` is weak fairness of each request's own
steps and of the expiry of each key: the Go scheduler runs every goroutine that
can run, MySQL and Redis answer every call (or fail it), and Redis expires keys
with a TTL. Nobody is obliged to send a request. No step waits for another
request, so weak fairness is enough. In `BulkImport`, weak fairness of every
goroutine; `Cancel` and `RegisterElsewhere` are not fair. In `AuditTrail`, weak
fairness of main's goroutine (its calls return, its timers fire) and of the
worker's (MySQL answers or the connection fails). Handlers are not fair: one that
hangs is what the deadline of the shutdown is for. Nor are signals, boots, kills
or Redis taking a subscription, and `WorkerEnds` is not: `select` may for ever
prefer a message to `ctx.Done()`, as far as anybody promises.

## 4. What was found

* *A main_manager's role can change* (`team_main_manager_race`). The target's
  role is read at `team/service.go` 366 and written at 382; a promotion between
  the two is overwritten, although the comment says "Prevent main_manager from
  being changed".
* *Listed as a writer, refused as a writer* (`asset_manager_writes`).
  `GetNoteAccess` shows the owner's managers with write access; `UpdateNote`
  never asks whether the requester is a manager.
* *A logout does not log out* (`sessions_logout`). The token is stored under
  `blacklist:<token>`, to its last millisecond (`BlacklistCoversToken`,
  `BlacklistEntriesExpire`), and nothing reads that key: `RequireAuth` looks at
  signature and expiry. The endpoint's documentation says "Invalidates the user's
  current bearer token server-side."

Seen while modelling, visible in the modules, without a run of their own:

* a reader that missed the cache stores a team it read before a concurrent write
  evicted the key (`team/repository.go` 166): `TeamCacheCoherent` holds for one
  request at a time only, the stale entry lives its 15 minutes, and
  `StaleEntriesGoAway` shows that it does not live for ever;
* renaming a team to its own name, or giving a member the role he has, is answered
  500, because zero changed rows is taken for a missing row
  (`team/repository.go` 235, 359);
* what is in the worker's buffer when its context is cancelled is lost: `select`
  picks between a message and `ctx.Done()` at random, and a statement begun with
  the cancelled context fails (`audit/worker.go` 26-52). A handler whose last act
  was to publish can thus be answered OK and leave no trace;
* a shutdown that runs into its deadline ends in `log.Fatalf` (`main.go` 159),
  which skips the worker, the deferred calls and all;
* without Redis a logout answers 500 (`auth/service.go` 336, a nil client);
* a password of more than 72 bytes passes validation and is answered 500
  (`auth/service.go` 106, bcrypt refuses it);
* renaming or deleting a team does not evict the members' lists
  (`team/repository.go` 240, 265: `StaleLists` is empty for both), so a list can
  show an old name or a deleted team for 15 minutes; `ListMembershipCoherent`
  is the part of coherence that remains;
* deleting a folder deletes other users' notes in it without evicting their
  `user:<id>:notes` (`asset/repository.go` 474); `CacheCoherent` says what
  remains. Nothing stops a note from being created in somebody else's folder;
* `RemoveMember` lets any manager take out the main_manager, after which nobody
  can delete the team or assign roles: `HeadlessTeamIsStuck` is that consequence;
* an event whose PUBLISH was sent again is in the trail twice, and one whose INSERT
  broke off can be in it although the log says that it was not saved, also behind
  younger ones (`audit/worker.go` 38, 86);
* a row of an import whose INSERT breaks off, or whose id cannot be read, is
  reported as failed although its user may exist (`auth/service.go` 126-133), and
  the caller cannot tell it from a duplicate: both read "failed to register user",
  as `auth/service.go` 312 looks for "duplicate" in a text that begins with
  "[Duplicate]";
* the documentation of an endpoint twice grants a team's managers what the service
  keeps for the main_manager: deleting the team ("Allows a manager to delete a team",
  `team/handler.go` 291, against `team/service.go` 190) and changing roles
  (`team/handler.go` 454, against `team/service.go` 360). `RightsBehindChanges`
  states the service's rule, so that it passes says nothing for the documentation;
* deleting a note, sharing it and removing a share "requires owner or write access"
  (`asset/handler.go` 247, 287, 340); the service admits the owner only
  (`asset/service.go` 172, 193, 222), and so does `RightsBehindChanges`;
* a note without a folder, "optional" at `asset/handler.go` 108, is refused by
  the foreign key; a folder given to an update (194) is answered and not stored;
* the notes service passes every repository error through
  `FormatValidationError`, so a missing note, or a lost connection, is answered
  400 where the documentation says 404 (or one expects 500);
* a CSV file of exactly the maximum number of rows gets an extra failed row
  (`auth/service.go` 231: the limit is tested before the end of file).

## 5. Proofs

Every invariant, action property and refinement that a passing run checks is also
a theorem. The theorems hold for every set of users, ids, names and requests, any
number of workers and rows, with or without Redis, and under any combination of
faults, but for the five of `TeamCacheProofs` and `AssetCacheProofs` (below).

| Module | Theorem | Statement |
|---|---|---|
| `TeamServiceProofs` | `TypeSafe` | `Spec => []TypeOK` |
| | `RowsSafe` | `Spec => []RowsIntegrity` |
| | `RightsTheorem` | `Spec => RightsBehindChanges` |
| | `AnswersTheorem` | `Spec => []AnswerMatchesEffect` |
| | `HeadlessTheorem` | `Spec => HeadlessTeamIsStuck` |
| `TeamDirectoryProofs` | `DirectoryTheorem` | `Spec => ImplementsDirectory` |
| `TeamCacheProofs` | `TeamCacheIsCoherent` | one request at a time, no faults: `Spec => []TeamCacheCoherent` |
| | `ListMembershipIsCoherent` | one request at a time, no faults: `Spec => []ListMembershipCoherent` |
| | `MainManagerIsProtected` | one request at a time: `Spec => MainManagerProtected` |
| `AssetServiceProofs` | `TypeSafe` | `Spec => []TypeOK` |
| | `CopiesAlwaysKeepTheirHome` | `Spec => []CopiesKeepTheirHome` |
| | `RowsKeepIntegrity` | `Spec => []RowsIntegrity` |
| | `ReadsAlwaysJustified` | `Spec => []ReadsJustified` |
| | `RightsAlwaysBehindChanges` | `Spec => RightsBehindChanges` |
| `AssetCacheProofs` | `CacheIsCoherent` | one request at a time, expiry the only fault: `Spec => []CacheCoherent` |
| | `AccessListAlwaysNamesTheReaders` | one request at a time, expiry the only fault: `Spec => []AccessListNamesTheReaders` |
| `SessionsProofs` | `TypeSafe` | `Spec => []TypeOK` |
| | `TokensAlwaysMatchAccounts` | `Spec => []TokensMatchAccounts` |
| | `ImportersAreAlwaysManagers` | `Spec => []ImportersAreManagers` |
| | `AnswersAlwaysTellTheTruth` | `Spec => []AnswersTellTheTruth` |
| | `BlacklistAlwaysCoversToken` | `Spec => []BlacklistCoversToken` |
| | `BlacklistEntriesAlwaysExpire` | `Spec => []BlacklistEntriesExpire` |
| `BulkImportProofs` | `TypeSafe` | `Spec => []TypeOK` |
| | `NobodySendsAfterClose` | `Spec => []NoSendAfterClose` |
| | `SummaryAlwaysAddsUp` | `Spec => []SummaryAddsUp` |
| | `SummaryAlwaysTellsTheTruth` | `Spec => []SummaryTellsTheTruth` |
| | `NothingIsEverLeftBehind` | `Spec => []NothingLeftBehind` |
| | `ImportTheorem` | `Spec => ImplementsImporter` |
| `AuditTrailProofs` | `TypeSafe` | `Spec => []TypeOK` |
| | `ShutdownTheorem` | `Spec => []HandlersEndFirst` |
| | `DeliveryTheorem` | `Spec => []DeliveredAreAccountedFor` |
| | `OrderTheorem` | `Spec => []StoredOnceInOrder` |

**Assumptions** are the named ones of the models, which TLC evaluates on every
run. They say that `None` and the other markers (`Invalid`, `Broken`, `Outside`,
`Forever`, the error jobs of the import) are none of the values they are told
apart from; that registered users are among the ids a client can name, token
managers among the users, the administrator's address and password among those
there are; that the faults are among those a model knows; that a token lives a
second at least, and a second a millisecond; that there is a worker, the limit is
not 0, and bounds are natural numbers. No set is assumed finite.

**One request at a time.** `OneAtATime` says that no two requests are in flight;
how many come one after the other is left open. It is what the five theorems
mean and not a convenience of their proofs. With two requests they are false:
`team_main_manager_race` is the counterexample to the one, and a reader that fills
a key with rows it read before a concurrent write evicted it (section 4) to the
caches. A failed eviction leaves a stale key for one client too, hence "no
faults", while the expiry of a key does no harm (`TeamService` has it in `Next`,
`AssetService` as the fault `expiry`). `MainManagerIsProtected` holds under any
faults. `team_sequential` and `asset_sequential` are their small instances.

### TeamService

`TypeOK` is not inductive: `FillTeam` stores what is in
`loaded[r]`, `SelectMembers` updates a field of it, and `Authorise` indexes
`role` with `job[r].team`, which for a creation is `None`. `TypeInv` adds, for
each label, what the request holds there (which operation, that team and target
are real ids, that `loaded` is a team or a list); it is inductive. On top of it:

* `RowsIntegrity` is inductive given `TypeInv`: the only action that adds a row
  checks both references in the same statement, and the deletion empties the row;
* `RightsTheorem` needs `HeldInv`: a request at `target` or `write` has in
  `heldRoles` a role its endpoint demands. `Authorise` reads the role in the
  state whose role was recorded by the step before, which is why the history
  includes the state in which the request waits at `role`;
* `AnswersTheorem` needs `EffectInv`: before `evict` there is no effect, from
  `evict` on there is one, and the event follows the effect;
* `HeadlessTheorem` follows from `TypeInv` by cases on the writes: only
  `CreateTeam` and `UpdateMemberRole` bring a main_manager, the first in a new
  team only, the second only from a request that passed its check.

**The caches** (`CacheInv`). Coherence between requests is not inductive: a write
makes keys wrong until the eviction. The invariant says that only keys such a
request is about to evict (`TeamPending`, `ListPending`) may be wrong, and that
what a request has read for a key is still what the tables hold when it stores
it. The write's case is where `StaleLists` has to name every list the write
changes. `TargetChecked`, for the main_manager: at the UPDATE the target's role
is still the one that was compared, because nobody else writes in between.

**Refinement.** `DirectoryTheorem` maps step to step, in the states reached by
`TypeInv`, `RowsIntegrity`, `EffectInv` and `SilentInv` (nothing is answered
before the end):

| Steps of `TeamService` | Steps of `TeamDirectory` |
|---|---|
| `Handle` | `Call` |
| lookups, SELECTs and fills | stutter, or `Read` or `Refuse` when they end the request |
| `Authorise*` | `Grant` or `Refuse` |
| `UserExists`, `CheckTargetRole` | stutter or `Refuse` |
| writes | `Make` or `Refuse` |
| `Evict`, expiry of a key | stutter |
| `PublishEvent`, `Respond`, `DbFails`, `Crash` | `Answer`, `Return`, `Refuse`, `Lose` |

`RowsIntegrity` is what makes the grant and the writes fit: a role read by
`Authorise` or changed by a write belongs to a team that exists, and a new team's
id has no members left from anybody.

### AssetService

* `TypeInv`: as above, with what each read and each write finds in
  `job[r]`, `note[r]` and `buffer[r]`, and that what is under a Redis key is of
  the kind of that key (`Values`).
* `CopiesInv`: a copy of a row may be old in everything but its *home*, the
  owner and folder it was inserted with. It holds of the tables, of Redis
  (`CacheTrue`) and of what requests hold (`HoldsTrue`) together, or not at all,
  because each is filled from the others. What makes it inductive is `Kept`: no
  step changes a home once given, brings back an id, or gives a folder another
  owner. The integrity of the rows is part of it, as the list of a user's notes
  is true only if their rows are.
* `RightsInv`: until a request has been decided on, `heldRights` holds all
  rights its requester has at the moment; past the decision it holds those it was
  based on (`Earned`, label by label). The step in between needs `CopiesInv`: the
  decision compares the requester with the owner in a copy, perhaps a stale one
  from Redis, and only a copy that keeps its home names the owner of today. So
  staleness never decides who may do what (`ReadsAlwaysJustified`,
  `RightsAlwaysBehindChanges`).
* `CacheInv` for one client is that of the teams with six families of keys. It
  uses `CopiesInv` for the list an update or a deletion evicts, whose key is the
  owner in a copy of the note.
* `ListInv`: after each of the four reads of `GetNoteAccess` the list names
  exactly those to whom the tables read so far give a right.

### Sessions

* `TypeInv` bounds every time to live in flight by the lifetime, and every token
  held by a request is one that was issued.
* `AccountsInv` rests on `AccountsStay`: no step changes a row of `users`. What a
  request knows of its account (`RequestKnows`: the row it compares the password
  with, the claims it signs) is then still so when it answers, however many other
  requests, imports, crashes and restarts came between; a token's claims are
  those of the row they were read from.
* `BlacklistInv` adds the request between the computation of the time to live and
  the SET: `now + ttl[r]` reaches the end of its token (`ReachesTheEnd`). The
  clock moves in between, but only in the direction that keeps this true, also for
  a SET that is sent again; the SET of a second logout of the token overwrites the
  first with a key that lasts as long. What is cut off in the SET is where the one
  millisecond of `Covers` goes.

### BulkImport

`ImportInv` is inductive. Its parts:

* `RowsInv`: a row that was read is in exactly one place, on offer, in one
  worker's hands, or reported. From it `SummaryAddsUp` is inductive, since a
  report is of a row not reported before;
* `UsersInv`: an address belongs to row n exactly if a worker holds the success
  of row n or it was reported, unless the row is `unsure`;
* `FileInv`: how far the reader has come at each of its labels, and that a good
  address that was read is taken, is that of an `unsure` row, is on offer, or is in
  a worker's hands;
* `DueInv`: what a job says of its row is what the file says, and once the reader
  has stopped all rows that are due are in some place.

`NobodySendsAfterClose` follows from `TypeInv`: `resultChan` is closed behind the
last worker, a worker ends only when `jobChan` is closed, and the reader closes
it with nothing on offer.

| Steps of `BulkImport` | Steps of `Importer` |
|---|---|
| a worker takes a job that is an error already | `Refuse` |
| `Register` | `Create`, `Refuse` or `Fail` |
| `ReturnSummary` | `Return` |
| `Cancel` | `Leave` |
| the reader finds the upload cut short | `LoseRest` |
| `RegisterElsewhere` | itself |
| every other step | stutter |

`Return` is the interesting one: that every row due has been reported by then
follows from `DueInv` and from the channels, since the collector returns only when
`resultChan` is closed, and that is when no worker holds a row any more.

### AuditTrail

`TypeOK` is strengthened by what the worker holds in each of its states
(`WorkerOK`). The order in the trail is an invariant along the way of a message:
what is in the table is before what the worker holds, that is before what is in
the buffer, and all of it has been accepted by Redis; each step moves the first
message of one part to the end of the part before it. What was abandoned is
outside of this line: it is no longer ahead of it, so it may join the table at any
place, once. `DeliveryTheorem` follows from the same labels: only the worker takes
an event off the buffer, and it holds it until the INSERT or the report.
`ShutdownTheorem` needs the phases: main moves past the wait for handlers only
when none is left, or ends the process.

The proofs have one step per action, or per group of actions that move a request
in the same way, and under it one per disturbed conjunct.

**Only model-checked** is liveness: `EveryRequestAnswered`,
`StaleEntriesGoAway`, `ImportTerminates`, `StartEnds`, `ShutdownEnds` and
`BufferMoves` need fairness, which is out of the prover's reach. The three
violated statements of section 4 have their counterexamples and nothing to prove.

## 6. Not modelled, and the plan

Two things are modelled where they matter and left out elsewhere. A command that
go-redis sends again is in `Sessions` (the SET of a logout) and in `AuditTrail`
(PUBLISH); in the teams and the notes a SET or DEL sent again is idempotent, and the
first or the last of the two is the one that is modelled. An INSERT that MySQL
executes after the caller was told of an error is in `AuditTrail`; elsewhere a
statement that was answered with an error was executed by then, or never is.

Left out for good: the wording of errors and logs, name and e-mail syntax, bcrypt
but for its limit of 72 bytes, JSON, the web pages and CORS headers, the
generated documentation (`src/docs`), the helpers of the tests, the sizes of the
connection pools. Opening a connection only succeeds or fails (`AuditTrail`);
what migrations make of the schema is in the models as foreign keys, unique
addresses and cascades, not as DDL.

The modules and the proofs of the plan are all present. What could follow:

1. an abstract specification of the notes API, as `TeamDirectory` is one for the
   teams, with `CopiesInv` and `RightsInv` as the invariants of its refinement;
2. what is true of the caches with several requests in flight: that a wrong
   key is one a concurrent writer changed behind a reader's back, and that a
   failed eviction is the only other source of one.
