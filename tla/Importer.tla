------------------------------ MODULE Importer ------------------------------
(***************************************************************************)
(* What an import promises, without goroutines or channels: each row that  *)
(* is due meets its fate in one step, in whatever order, and the caller is *)
(* handed the counts of all fates at the end.  A client that goes away     *)
(* loses the rest of the upload; a row that fails with its client or with  *)
(* the database leaves nobody sure whether it created its user.            *)
(* BulkImport implements it.                                               *)
(***************************************************************************)
EXTENDS Naturals, Sequences, FiniteSets

CONSTANTS Emails, maxBulkImportRows, MaxFileRows, Faults, Invalid, Broken, Outside, None

VARIABLES
    file, header,   \* the upload: its data rows, and its first line
    users,          \* None if the address is free, else the row that took it or Outside
    unsure,         \* the rows of which nobody knows whether they created a user
    gone,           \* the client has gone away
    fate,           \* fate[n]: what became of row n, None if nothing yet
    answer          \* the counts the caller was given, None before

vars == <<file, header, users, unsure, gone, fate, answer>>

RowNumbers == 1 .. (maxBulkImportRows + 2)
Files == UNION {[1 .. n -> Emails \cup {Invalid, Broken}] : n \in 0 .. MaxFileRows}
Fates == {"created", "failed"}

Init ==
    /\ file \in Files
    /\ header \in {"good", "broken", "missing"}
    /\ header = "missing" => file = <<>>
    /\ users \in [Emails -> {None, Outside}]
    /\ unsure = {} /\ gone = FALSE
    /\ fate = [n \in RowNumbers |-> None]
    /\ answer = None

\* Row 1 is the header.  A file that fills the limit is due one row more, which
\* stands for the rest of it.
HasRow(n) == n - 1 \in 1 .. Len(file) /\ n - 1 <= maxBulkImportRows
Due(n) ==
    CASE header = "good" -> HasRow(n) \/ (n = maxBulkImportRows + 2 /\ Len(file) >= maxBulkImportRows)
      [] header = "broken" -> n = 1
      [] header = "missing" -> FALSE

\* Row n names an address, and nobody has it.
Names(n, e) == header = "good" /\ HasRow(n) /\ file[n - 1] = e
Free(n, e) == Names(n, e) /\ users[e] = None

Settle(n, o) ==
    /\ answer = None /\ fate[n] = None /\ (gone \/ Due(n))
    /\ fate' = [fate EXCEPT ![n] = o]
    /\ UNCHANGED <<file, header, gone, answer>>

Take(n, e) == Free(n, e) /\ users' = [users EXCEPT ![e] = n]

Create(n) == (\E e \in Emails : Take(n, e)) /\ Settle(n, "created") /\ UNCHANGED unsure

\* Only a row without an address that is free is refused.
Refuse(n) ==
    /\ \A e \in Emails : ~Free(n, e)
    /\ Settle(n, "failed") /\ UNCHANGED <<users, unsure>>

\* A row may fail for other reasons, and may yet have created its user.
Fail(n) ==
    /\ gone \/ "db" \in Faults
    /\ \E e \in Emails : Names(n, e) /\ (Take(n, e) \/ UNCHANGED users)
    /\ Settle(n, "failed") /\ unsure' = unsure \cup {n}

Fated(outcomes) == {n \in RowNumbers : fate[n] \in outcomes}

Return ==
    /\ answer = None
    /\ ~gone => \A n \in RowNumbers : Due(n) => fate[n] # None
    /\ answer' = [processed |-> Cardinality(Fated(Fates)),
                  succeeded |-> Cardinality(Fated({"created"})),
                  failed |-> Cardinality(Fated({"failed"}))]
    /\ UNCHANGED <<file, header, users, unsure, gone, fate>>

Leave ==
    /\ answer = None
    /\ gone' = TRUE /\ UNCHANGED <<file, header, users, unsure, fate, answer>>

\* The rest of an upload never arrives.
LoseRest ==
    /\ gone /\ \E k \in 0 .. Len(file) : file' = SubSeq(file, 1, k)
    /\ UNCHANGED <<header, users, unsure, gone, fate, answer>>

RegisterElsewhere(e) ==
    /\ users[e] = None /\ users' = [users EXCEPT ![e] = Outside]
    /\ UNCHANGED <<file, header, unsure, gone, fate, answer>>

Next ==
    \/ \E n \in RowNumbers : Create(n) \/ Refuse(n) \/ Fail(n)
    \/ Return \/ Leave \/ LoseRest
    \/ \E e \in Emails : RegisterElsewhere(e)

Spec == Init /\ [][Next]_vars
=============================================================================
