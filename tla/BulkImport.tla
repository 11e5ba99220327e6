----------------------------- MODULE BulkImport -----------------------------
(***************************************************************************)
(* POST /auth/import-users: BulkImportUsersFromCSV of internal/auth.       *)
(* One goroutine reads the CSV, Workers register its rows, one goroutine   *)
(* closes the result channel, the caller collects.  Both channels are      *)
(* unbuffered, so a send and its receive are one step.  One import runs,   *)
(* while other requests register users, the client may go away, and MySQL  *)
(* may fail an INSERT whether or not it has executed it.                   *)
(***************************************************************************)
EXTENDS Naturals, Sequences, FiniteSets

CONSTANTS
    Workers,            \* numWorkers goroutines
    Emails,             \* e-mail addresses (column UNIQUE in users)
    maxBulkImportRows,  \* the limit on rows
    MaxFileRows,        \* bound on the length of the files tried
    Faults,             \* what may go wrong: "cancel" the client leaves, "db" MySQL fails
    Invalid,            \* a row that Register's validation rejects
    Broken,             \* a row the CSV reader rejects, or with too few fields
    Outside,            \* who registered an address, if not a row of this file
    None

ErrorJobs == {"header error", "read error", "limit exceeded"}
Outcomes == {"created", "failed"}

ASSUME WorkersAssumption == Workers # {}
ASSUME FaultsAssumption == Faults \subseteq {"cancel", "db"}
ASSUME LimitAssumption == maxBulkImportRows \in Nat \ {0} /\ MaxFileRows \in Nat
ASSUME TokensAssumption ==
    /\ Invalid # Broken /\ None \notin {Invalid, Broken} \cup Outcomes \cup Nat
    /\ {Invalid, Broken, None} \cap Emails = {}
    /\ ErrorJobs \cap (Emails \cup {Invalid, Broken, None}) = {}
    /\ Outside \notin Nat \cup {None}

VARIABLES
    file, header,   \* the upload: its data rows, and its first line
    users,          \* users.email: None if free, else the row that took it or Outside
    unsure,         \* history: rows whose INSERT failed for another reason than a duplicate
    cancelled,      \* the request's context is done
    readerAt, rowsSeen, offer,   \* the reader goroutine, its counter, the job it sends
    worker, held,                \* the workers, the job or result each has in hand
    resultsOpen,                 \* resultChan is not closed
    collectorAt, summary, reported   \* the caller; reported[n]: what it was told of row n

vars == <<file, header, users, unsure, cancelled, readerAt, rowsSeen, offer, worker, held,
          resultsOpen, collectorAt, summary, reported>>
upload == <<file, header>>
reading == <<readerAt, rowsSeen, offer>>
collecting == <<collectorAt, summary, reported>>

\* Row 1 is the header; a cancelled or too long import goes up to the limit row.
RowNumbers == 1 .. (maxBulkImportRows + 2)
Jobs == [row : RowNumbers, what : Emails \cup {Invalid} \cup ErrorJobs]
Results == [row : RowNumbers, outcome : Outcomes]
Files == UNION {[1 .. n -> Emails \cup {Invalid, Broken}] : n \in 0 .. MaxFileRows}

Init ==
    /\ file \in Files
    /\ header \in {"good", "broken", "missing"}
    /\ header = "missing" => file = <<>>
    /\ users \in [Emails -> {None, Outside}]
    /\ unsure = {} /\ cancelled = FALSE
    /\ readerAt = "header" /\ rowsSeen = 0 /\ offer = None
    /\ worker = [w \in Workers |-> "receive"] /\ held = [w \in Workers |-> None]
    /\ resultsOpen = TRUE
    /\ collectorAt = "collect"
    /\ summary = [processed |-> 0, succeeded |-> 0, failed |-> 0]
    /\ reported = [n \in RowNumbers |-> None]

-----------------------------------------------------------------------------
(* The reader.  rowNumber is always rowsSeen + 2: the code increments both *)
(* on every path that goes round the loop.                                 *)

Send(n, what, then) == offer' = [row |-> n, what |-> what] /\ readerAt' = then
Close == readerAt' = "closed" /\ UNCHANGED offer

ReadHeader ==
    /\ readerAt = "header"
    /\ \/ ~cancelled /\ header = "missing" /\ Close
       \/ (cancelled \/ header = "broken") /\ Send(1, "header error", "last")
       \/ ~cancelled /\ header = "good" /\ readerAt' = "rows" /\ UNCHANGED offer
    /\ UNCHANGED <<upload, users, unsure, cancelled, rowsSeen, worker, held, resultsOpen, collecting>>

\* Mutant: the limit is tested with > instead of >=.
AtLimit_OffByOne == rowsSeen > maxBulkImportRows

AtLimit == rowsSeen >= maxBulkImportRows

\* The limit is tested before the next row is looked for.
RefuseRest ==
    /\ readerAt = "rows" /\ AtLimit
    /\ Send(rowsSeen + 2, "limit exceeded", "last")
    /\ UNCHANGED <<upload, users, unsure, cancelled, rowsSeen, worker, held, resultsOpen, collecting>>

\* Mutant: the end of the file is seen one row early.
EndOfFile_Early ==
    /\ readerAt = "rows" /\ ~AtLimit
    /\ rowsSeen + 1 >= Len(file) /\ ~cancelled
    /\ Close
    /\ UNCHANGED <<upload, users, unsure, cancelled, rowsSeen, worker, held, resultsOpen, collecting>>

\* Mutant: io.EOF is reported like any other error of the CSV reader.
EndOfFile_AsError ==
    /\ readerAt = "rows" /\ ~AtLimit
    /\ rowsSeen >= Len(file) /\ ~cancelled
    /\ Send(rowsSeen + 2, "read error", "last")
    /\ UNCHANGED <<upload, users, unsure, cancelled, rowsSeen, worker, held, resultsOpen, collecting>>

EndOfFile ==
    /\ readerAt = "rows" /\ ~AtLimit
    /\ rowsSeen >= Len(file) /\ ~cancelled
    /\ Close
    /\ UNCHANGED <<upload, users, unsure, cancelled, rowsSeen, worker, held, resultsOpen, collecting>>

\* After cancellation the reader still has the rows in its buffer; from then on
\* every read fails (the rest of the file is gone), the end of the file is never
\* seen, and only the limit stops the loop.
ReadRow ==
    /\ readerAt = "rows" /\ ~AtLimit
    /\ \/ /\ rowsSeen < Len(file)
          /\ LET row == file[rowsSeen + 1] IN
             Send(rowsSeen + 2, IF row = Broken THEN "read error" ELSE row, "offering")
          /\ UNCHANGED file
       \/ /\ cancelled
          /\ Send(rowsSeen + 2, "read error", "offering")
          /\ file' = IF rowsSeen < Len(file) THEN SubSeq(file, 1, rowsSeen) ELSE file
    /\ rowsSeen' = rowsSeen + 1
    /\ UNCHANGED <<header, users, unsure, cancelled, worker, held, resultsOpen, collecting>>

-----------------------------------------------------------------------------
(* The workers.                                                            *)

\* Mutant: a failed row is reported under the header's number.
Failure_HeaderRow(n) == [row |-> 1, outcome |-> "failed"]

Failure(n) == [row |-> n, outcome |-> "failed"]
Success(n) == [row |-> n, outcome |-> "created"]

\* jobChan: the reader's send meets a worker's receive.
TakeJob(w) ==
    /\ worker[w] = "receive" /\ readerAt \in {"offering", "last"}
    /\ readerAt' = IF readerAt = "last" THEN "closed" ELSE "rows"
    /\ offer' = None
    /\ IF offer.what \in ErrorJobs
         THEN /\ worker' = [worker EXCEPT ![w] = "reply"]
              /\ held' = [held EXCEPT ![w] = Failure(offer.row)]
         ELSE /\ worker' = [worker EXCEPT ![w] = "register"]
              /\ held' = [held EXCEPT ![w] = offer]
    /\ UNCHANGED <<upload, users, unsure, cancelled, rowsSeen, resultsOpen, collecting>>

\* jobChan is closed and empty: the range loop ends and wg.Done runs.
WorkerEnds(w) ==
    /\ worker[w] = "receive" /\ readerAt = "closed"
    /\ worker' = [worker EXCEPT ![w] = "done"]
    /\ UNCHANGED <<upload, users, unsure, cancelled, reading, held, resultsOpen, collecting>>

\* The row's address takes the row's number.
Inserted(n, e) == e \in Emails /\ users[e] = None /\ users' = [users EXCEPT ![e] = n]

\* Mutant: the duplicate-key error is swallowed.
Register_TakesDuplicate(w) ==
    LET n == held[w].row  e == held[w].what IN
    /\ worker[w] = "register"
    /\ \/ /\ Inserted(n, e)
          /\ held' = [held EXCEPT ![w] = Success(n)]
       \/ /\ e \in Emails => users[e] # None
          /\ held' = [held EXCEPT ![w] = IF e = Invalid THEN Failure(n) ELSE Success(n)]
          /\ UNCHANGED users
    /\ worker' = [worker EXCEPT ![w] = "reply"]
    /\ UNCHANGED <<upload, unsure, cancelled, reading, resultsOpen, collecting>>

\* Validation, then one INSERT and the reading of its id.  It succeeds; the row is
\* invalid or its address taken; or, with MySQL failing or the context done, it ends
\* in an error, executed or not.  (An INSERT that MySQL executes after its
\* connection broke takes the address like RegisterElsewhere.)
Register(w) ==
    LET n == held[w].row  e == held[w].what IN
    /\ worker[w] = "register"
    /\ \/ /\ Inserted(n, e)
          /\ held' = [held EXCEPT ![w] = Success(n)] /\ UNCHANGED unsure
       \/ /\ e \in Emails => users[e] # None
          /\ held' = [held EXCEPT ![w] = Failure(n)] /\ UNCHANGED <<users, unsure>>
       \/ /\ e \in Emails /\ (cancelled \/ "db" \in Faults)
          /\ held' = [held EXCEPT ![w] = Failure(n)]
          /\ unsure' = unsure \cup {n} /\ (Inserted(n, e) \/ UNCHANGED users)
    /\ worker' = [worker EXCEPT ![w] = "reply"]
    /\ UNCHANGED <<upload, cancelled, reading, resultsOpen, collecting>>

\* Mutant: the results are ranged over only after wg.Wait().
CollectResult_AfterWait(w) ==
    worker[w] = "reply" /\ (\A v \in Workers : worker[v] = "done") /\ UNCHANGED vars

\* resultChan: the worker's send meets the caller's receive.
CollectResult(w) ==
    LET res == held[w] IN
    /\ worker[w] = "reply" /\ collectorAt = "collect" /\ resultsOpen
    /\ summary' = [processed |-> summary.processed + 1,
                   succeeded |-> summary.succeeded + (IF res.outcome = "created" THEN 1 ELSE 0),
                   failed |-> summary.failed + (IF res.outcome = "created" THEN 0 ELSE 1)]
    /\ reported' = [reported EXCEPT ![res.row] = res.outcome]
    /\ worker' = [worker EXCEPT ![w] = "receive"]
    /\ held' = [held EXCEPT ![w] = None]
    /\ UNCHANGED <<upload, users, unsure, cancelled, reading, resultsOpen, collectorAt>>

-----------------------------------------------------------------------------
(* The closer, the caller, and the rest of the world.                      *)

\* Mutant: wg.Add(1) once, outside the loop that starts the workers.
CloseResults_FirstDone ==
    /\ resultsOpen
    /\ \E w \in Workers : worker[w] = "done"
    /\ resultsOpen' = FALSE
    /\ UNCHANGED <<upload, users, unsure, cancelled, reading, worker, held, collecting>>

CloseResults ==
    /\ resultsOpen
    /\ \A w \in Workers : worker[w] = "done"   \* wg.Wait()
    /\ resultsOpen' = FALSE
    /\ UNCHANGED <<upload, users, unsure, cancelled, reading, worker, held, collecting>>

\* The range over resultChan ends: the summary is published and returned.
ReturnSummary ==
    /\ collectorAt = "collect" /\ ~resultsOpen
    /\ collectorAt' = "returned"
    /\ UNCHANGED <<upload, users, unsure, cancelled, reading, worker, held, resultsOpen, summary, reported>>

\* The client disconnects.
Cancel ==
    /\ "cancel" \in Faults /\ ~cancelled /\ collectorAt = "collect"
    /\ cancelled' = TRUE
    /\ UNCHANGED <<upload, users, unsure, reading, worker, held, resultsOpen, collecting>>

\* Another request registers an address while the import runs.
RegisterElsewhere(e) ==
    /\ users[e] = None /\ collectorAt = "collect"
    /\ users' = [users EXCEPT ![e] = Outside]
    /\ UNCHANGED <<upload, unsure, cancelled, reading, worker, held, resultsOpen, collecting>>

Finished == collectorAt = "returned" /\ UNCHANGED vars

Reader == ReadHeader \/ RefuseRest \/ EndOfFile \/ ReadRow
Worker(w) == TakeJob(w) \/ WorkerEnds(w) \/ Register(w) \/ CollectResult(w)

Next ==
    \/ Reader \/ CloseResults \/ ReturnSummary \/ Cancel \/ Finished
    \/ \E w \in Workers : Worker(w)
    \/ \E e \in Emails : RegisterElsewhere(e)

Spec == Init /\ [][Next]_vars

\* The Go scheduler runs every goroutine that can go on; INSERTs return.
FairSpec == Spec /\ WF_vars(Reader) /\ WF_vars(CloseResults) /\ WF_vars(ReturnSummary)
                 /\ \A w \in Workers : WF_vars(Worker(w))

-----------------------------------------------------------------------------
(* Properties.                                                             *)

\* Types of the upload, the goroutines, what they hold and what they report.
TypeOK ==
    /\ file \in Seq(Emails \cup {Invalid, Broken}) /\ Len(file) <= MaxFileRows
    /\ header \in {"good", "broken", "missing"}
    /\ users \in [Emails -> RowNumbers \cup {None, Outside}]
    /\ unsure \subseteq RowNumbers
    /\ cancelled \in BOOLEAN /\ resultsOpen \in BOOLEAN
    /\ readerAt \in {"header", "rows", "offering", "last", "closed"}
    /\ rowsSeen \in 0 .. maxBulkImportRows
    /\ offer \in Jobs \cup {None}
    /\ worker \in [Workers -> {"receive", "register", "reply", "done"}]
    /\ held \in [Workers -> Jobs \cup Results \cup {None}]
    /\ collectorAt \in {"collect", "returned"}
    /\ summary \in [processed : Nat, succeeded : Nat, failed : Nat]
    /\ reported \in [RowNumbers -> Outcomes \cup {None}]

Reported(outcomes) == {n \in RowNumbers : reported[n] \in outcomes}

\* The counters add up, and however the workers overtake each other no row is
\* reported twice: the totals are those of the rows actually reported.
SummaryAddsUp ==
    /\ summary.processed = Cardinality(Reported(Outcomes))
    /\ summary.succeeded = Cardinality(Reported({"created"}))
    /\ summary.failed = Cardinality(Reported({"failed"}))

\* A row reported as created has its user, and nobody else's: two rows with the
\* same address, or a concurrent registration, never both succeed.  A row reported
\* as failed has created none, also when the client has gone away, unless its own
\* INSERT ended in an error that leaves open whether MySQL executed it.
SummaryTellsTheTruth ==
    \A n \in RowNumbers :
        /\ reported[n] = "created" => \E e \in Emails : users[e] = n
        /\ reported[n] = "failed" /\ n \notin unsure => \A e \in Emails : users[e] # n

\* When the summary is returned nothing is left behind: every goroutine of the
\* import has ended and every row read has been reported.  Unless the client went
\* away, every row of the file up to the limit has been read, and the address of
\* every row read is somebody's, unless MySQL failed its INSERT.
NothingLeftBehind ==
    collectorAt = "returned" =>
        /\ readerAt = "closed" /\ \A w \in Workers : worker[w] = "done"
        /\ \A n \in 2 .. (rowsSeen + 1) : reported[n] # None
        /\ ~cancelled /\ header = "good" =>
             /\ rowsSeen >= Len(file) \/ rowsSeen = maxBulkImportRows
             /\ \A i \in 1 .. rowsSeen :
                  file[i] \in Emails => users[file[i]] # None \/ i + 1 \in unsure

\* A channel is closed only when nobody is going to send on it any more
\* (a send on a closed channel would panic).
NoSendAfterClose ==
    /\ readerAt = "closed" => offer = None
    /\ ~resultsOpen => \A w \in Workers : worker[w] \notin {"register", "reply"}

\* Row n has been dealt with: the caller knows, or the worker that is about to tell.
Fate(n, o) ==
    \/ reported[n] = o
    \/ \E w \in Workers : worker[w] = "reply" /\ held[w] = [row |-> n, outcome |-> o]

FateOf(n) ==
    IF Fate(n, "created") THEN "created" ELSE IF Fate(n, "failed") THEN "failed" ELSE None

Import == INSTANCE Importer WITH
    gone <- cancelled,
    fate <- [n \in RowNumbers |-> FateOf(n)],
    answer <- IF collectorAt = "returned" THEN summary ELSE None

\* The goroutines together do what Importer promises: each row due is created,
\* refused because its address is taken, or fails with MySQL or its client, once and
\* in one moment, and the summary counts every row, however workers, channels and
\* the closing of channels interleave.
ImplementsImporter == Import!Spec

\* The import ends, whatever the file, the limit, and the moment of a disconnect.
ImportTerminates == <>(collectorAt = "returned")
=============================================================================
