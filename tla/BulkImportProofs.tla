-------------------------- MODULE BulkImportProofs ---------------------------
(* Theorems about BulkImport, for any number of workers, any addresses, any   *)
(* limit on the rows and any file.                                            *)
EXTENDS BulkImport, FiniteSetTheorems, SequenceTheorems, TLAPS

-----------------------------------------------------------------------------
(* The inductive invariant.  First the types: what the reader and a worker    *)
(* hold at each of their labels.                                              *)

Rows == Emails \cup {Invalid, Broken}
Sending == {"offering", "last"}

ReaderOK ==
    /\ readerAt \in {"header", "rows", "closed"} \cup Sending
    /\ rowsSeen \in 0 .. maxBulkImportRows
    /\ offer \in Jobs \cup {None}
    /\ readerAt \in Sending => offer \in Jobs
    /\ readerAt \notin Sending => offer = None
    /\ readerAt = "header" => rowsSeen = 0

WorkerOK(w) ==
    /\ worker[w] = "register" => held[w] \in Jobs /\ held[w].what \notin ErrorJobs
    /\ worker[w] = "reply" => held[w] \in Results
    /\ worker[w] = "done" => readerAt = "closed"

TypeInv ==
    /\ file \in Seq(Rows) /\ Len(file) <= MaxFileRows
    /\ header \in {"good", "broken", "missing"}
    /\ users \in [Emails -> RowNumbers \cup {None, Outside}]
    /\ unsure \subseteq RowNumbers
    /\ cancelled \in BOOLEAN /\ resultsOpen \in BOOLEAN
    /\ ReaderOK
    /\ worker \in [Workers -> {"receive", "register", "reply", "done"}]
    /\ held \in [Workers -> Jobs \cup Results \cup {None}]
    /\ \A w \in Workers : WorkerOK(w)
    /\ collectorAt \in {"collect", "returned"}
    /\ summary \in [processed : Nat, succeeded : Nat, failed : Nat]
    /\ reported \in [RowNumbers -> Outcomes \cup {None}]
    /\ ~resultsOpen => \A w \in Workers : worker[w] = "done"
    /\ collectorAt = "returned" => ~resultsOpen

\* Where a row can be: on offer, in one worker's hands, or reported.
Offered(n) == readerAt \in Sending /\ offer.row = n
InHand(n, w) == worker[w] \in {"register", "reply"} /\ held[w].row = n

\* A row that has been read is in exactly one of these places, and only the rows
\* read, the header and the row beyond the limit ever are in one.
Placed(n) == Offered(n) \/ reported[n] # None \/ \E w \in Workers : InHand(n, w)

RowsInv ==
    /\ \A n \in 2 .. (rowsSeen + 1) : Placed(n)
    /\ \A n \in RowNumbers : Placed(n) =>
         \/ n \in 2 .. (rowsSeen + 1)
         \/ readerAt \in {"last", "closed"} /\ n \in {1, rowsSeen + 2}
    /\ \A n \in RowNumbers, w \in Workers : InHand(n, w) =>
         ~Offered(n) /\ reported[n] = None /\ \A v \in Workers : InHand(n, v) => v = w
    /\ \A n \in RowNumbers : Offered(n) => reported[n] = None

UsersInv ==
    /\ \A n \in RowNumbers : Fate(n, "created") => \E e \in Emails : users[e] = n
    /\ \A n \in RowNumbers : Fate(n, "failed") /\ n \notin unsure => \A e \in Emails : users[e] # n
    /\ \A e \in Emails, n \in RowNumbers : users[e] = n => \E o \in Outcomes : Fate(n, o)

\* An address that was read is registered, or its row is on the way to be.
OnItsWay(n, e) ==
    \/ Offered(n) /\ offer.what = e
    \/ \E w \in Workers : worker[w] = "register" /\ held[w] = [row |-> n, what |-> e]

\* Or it was not to be: MySQL failed the row.
Served(n, e) == users[e] # None \/ n \in unsure \/ OnItsWay(n, e)

FileInv ==
    ~cancelled /\ header = "good" =>
        /\ rowsSeen <= Len(file)
        /\ readerAt = "last" => rowsSeen = maxBulkImportRows
        /\ readerAt = "closed" => rowsSeen >= Len(file) \/ rowsSeen = maxBulkImportRows
        /\ \A i \in 1 .. rowsSeen : file[i] \in Emails => Served(i + 1, file[i])

-----------------------------------------------------------------------------
(* Types.                                                                     *)

LEMMA FilesAreSequences == \A f \in Files : f \in Seq(Rows) /\ Len(f) <= MaxFileRows
<1> SUFFICES ASSUME NEW n \in 0 .. MaxFileRows, NEW f \in [1 .. n -> Rows]
             PROVE  f \in Seq(Rows) /\ Len(f) <= MaxFileRows
  BY DEF Files, Rows
<1> QED  BY SeqDef, LimitAssumption

LEMMA InitTypes == Init => TypeInv
<1> SUFFICES ASSUME Init  PROVE TypeInv  OBVIOUS
<1> USE LimitAssumption, TokensAssumption DEF Init
<1>1. file \in Seq(Rows) /\ Len(file) <= MaxFileRows  BY FilesAreSequences
<1>2. ReaderOK /\ \A w \in Workers : WorkerOK(w)  BY DEF ReaderOK, WorkerOK, Sending
<1> QED  BY <1>1, <1>2 DEF TypeInv

LEMMA ReadTypes ==
  ASSUME file \in Seq(Rows), rowsSeen \in Nat
  PROVE  /\ Len(file) \in Nat
         /\ \A i \in 1 .. Len(file) : file[i] \in Rows
         /\ rowsSeen < Len(file) => file[rowsSeen + 1] \in Rows
         /\ rowsSeen < Len(file) => SubSeq(file, 1, rowsSeen) \in Seq(Rows)
         /\ rowsSeen < Len(file) => Len(SubSeq(file, 1, rowsSeen)) = rowsSeen
<1>1. Len(file) \in Nat /\ \A i \in 1 .. Len(file) : file[i] \in Rows
  BY LenProperties, ElementOfSeq
<1>2. CASE rowsSeen < Len(file)
  <2>1. \A i \in 1 .. rowsSeen : file[i] \in Rows  BY <1>1, <1>2
  <2>2. SubSeq(file, 1, rowsSeen) \in Seq(Rows)  BY <2>1, SubSeqProperties
  <2>3. Len(SubSeq(file, 1, rowsSeen)) = rowsSeen  BY <2>1, SubSeqProperties
  <2> QED  BY <1>1, <1>2, <2>2, <2>3
<1> QED  BY <1>1, <1>2

LEMMA JobTypes ==
  ASSUME ReaderOK
  PROVE  /\ rowsSeen \in Nat /\ rowsSeen <= maxBulkImportRows
         /\ \A what \in Emails \cup {Invalid} \cup ErrorJobs :
              /\ [row |-> 1, what |-> what] \in Jobs
              /\ [row |-> rowsSeen + 2, what |-> what] \in Jobs
<1>1. rowsSeen \in Nat /\ rowsSeen <= maxBulkImportRows  BY LimitAssumption DEF ReaderOK
<1>2. 1 \in RowNumbers /\ rowsSeen + 2 \in RowNumbers  BY <1>1, LimitAssumption DEF RowNumbers
<1> QED  BY <1>1, <1>2 DEF Jobs

LEMMA ReaderTypes ==
  ASSUME TypeInv, Reader  PROVE TypeInv'
<1>0. ReaderOK /\ file \in Seq(Rows) /\ Len(file) <= MaxFileRows  BY DEF TypeInv
<1>1. rowsSeen \in Nat /\ rowsSeen <= maxBulkImportRows  BY <1>0, JobTypes
<1>2. ReaderOK'
  <2> USE <1>0, <1>1, LimitAssumption DEF ReaderOK, Sending
  <2>1. CASE ReadHeader
    <3>1. CASE Send(1, "header error", "last")
      <4>1. offer' \in Jobs  BY <3>1, JobTypes DEF Send, ErrorJobs
      <4> QED  BY <2>1, <3>1, <4>1 DEF ReadHeader, Send
    <3>2. CASE ~Send(1, "header error", "last")  BY <2>1, <3>2 DEF ReadHeader, Close
    <3> QED  BY <3>1, <3>2
  <2>2. CASE RefuseRest  BY <2>2, JobTypes DEF RefuseRest, Send, ErrorJobs
  <2>3. CASE EndOfFile  BY <2>3 DEF EndOfFile, Close
  <2>4. CASE ReadRow
    <3>1. rowsSeen < Len(file) => file[rowsSeen + 1] \in Emails \cup {Invalid, Broken}
      BY ReadTypes DEF Rows
    <3>2. offer' \in Jobs /\ readerAt' = "offering"
      BY <2>4, <3>1, JobTypes DEF ReadRow, Send, ErrorJobs
    <3>3. rowsSeen' = rowsSeen + 1 /\ ~AtLimit  BY <2>4 DEF ReadRow
    <3>4. rowsSeen' \in 0 .. maxBulkImportRows  BY <3>3 DEF AtLimit
    <3> QED  BY <3>2, <3>4
  <2> QED  BY <2>1, <2>2, <2>3, <2>4 DEF Reader
<1>3. file' \in Seq(Rows) /\ Len(file') <= MaxFileRows
  <2>1. CASE file' = file  BY <1>0, <2>1
  <2>2. CASE rowsSeen < Len(file) /\ file' = SubSeq(file, 1, rowsSeen)
    BY <1>0, <1>1, <2>2, ReadTypes, LimitAssumption
  <2> QED  BY <2>1, <2>2 DEF Reader, ReadHeader, RefuseRest, EndOfFile, ReadRow, upload
<1>4. /\ UNCHANGED <<header, users, unsure, cancelled, worker, held, resultsOpen, collecting>>
      /\ readerAt # "closed"
  BY DEF Reader, ReadHeader, RefuseRest, EndOfFile, ReadRow, upload
<1> QED  BY <1>2, <1>3, <1>4 DEF TypeInv, WorkerOK, collecting

LEMMA WorkerTypes ==
  ASSUME TypeInv, NEW w \in Workers, Worker(w)  PROVE TypeInv'
<1> USE LimitAssumption, TokensAssumption
        DEF TypeInv, ReaderOK, WorkerOK, Sending, Jobs, Results, Outcomes,
            upload, collecting, reading
<1>1. CASE TakeJob(w)  BY <1>1 DEF TakeJob, Failure
<1>2. CASE WorkerEnds(w)  BY <1>2 DEF WorkerEnds
<1>3. CASE Register(w)
  <2>1. held[w].row \in RowNumbers  BY <1>3 DEF Register
  <2>2. users' \in [Emails -> RowNumbers \cup {None, Outside}] /\ unsure' \subseteq RowNumbers
    BY <1>3, <2>1 DEF Register, Inserted
  <2>3. \E res \in Results : held' = [held EXCEPT ![w] = res]
    BY <1>3, <2>1 DEF Register, Failure, Success
  <2>4. worker' = [worker EXCEPT ![w] = "reply"]  BY <1>3 DEF Register
  <2> QED  BY <1>3, <2>2, <2>3, <2>4 DEF Register
<1>4. CASE CollectResult(w)  BY <1>4 DEF CollectResult
<1> QED  BY <1>1, <1>2, <1>3, <1>4 DEF Worker

LEMMA OtherTypes ==
  ASSUME TypeInv,
         \/ CloseResults \/ ReturnSummary \/ Cancel \/ UNCHANGED vars
         \/ \E e \in Emails : RegisterElsewhere(e)
  PROVE  TypeInv'
<1>1. CASE CloseResults \/ ReturnSummary \/ Cancel \/ UNCHANGED vars
  <2> USE DEF TypeInv, ReaderOK, WorkerOK, upload, collecting, reading
  <2>1. CASE CloseResults  BY <2>1 DEF CloseResults
  <2>2. CASE ReturnSummary  BY <2>2 DEF ReturnSummary
  <2>3. CASE Cancel  BY <2>3 DEF Cancel
  <2>4. CASE UNCHANGED vars  BY <2>4 DEF vars
  <2> QED  BY <1>1, <2>1, <2>2, <2>3, <2>4
<1>2. ASSUME NEW e \in Emails, RegisterElsewhere(e)  PROVE TypeInv'
  <2>1. users' \in [Emails -> RowNumbers \cup {None, Outside}]  BY <1>2 DEF RegisterElsewhere, TypeInv
  <2> QED  BY <1>2, <2>1 DEF RegisterElsewhere, TypeInv, ReaderOK, WorkerOK, upload, collecting, reading
<1> QED  BY <1>1, <1>2

LEMMA NextTypes == TypeInv /\ [Next]_vars => TypeInv'
  BY ReaderTypes, WorkerTypes, OtherTypes DEF Next, Finished

-----------------------------------------------------------------------------
(* Rows: none is lost between the channels, and none is in two places.        *)

LEMMA InitRows == Init => RowsInv
  BY DEF Init, RowsInv, Placed, Offered, InHand, Sending

\* The reader offers a row that is nowhere yet.
LEMMA ReaderRows ==
  ASSUME TypeInv, RowsInv, Reader  PROVE RowsInv'
<1>0. ReaderOK /\ rowsSeen \in Nat /\ rowsSeen <= maxBulkImportRows /\ readerAt \notin Sending
  BY JobTypes DEF TypeInv, Reader, ReadHeader, RefuseRest, EndOfFile, ReadRow, Sending
<1>1. \A n \in Int : ~Offered(n)  BY <1>0 DEF Offered
<1>2. \A n, w : reported'[n] = reported[n] /\ (InHand(n, w)' <=> InHand(n, w))
  BY DEF Reader, ReadHeader, RefuseRest, EndOfFile, ReadRow, collecting, InHand
<1>3. ASSUME NEW n \in RowNumbers, offer'.row = n, readerAt' \in Sending, ~Placed(n),
             \/ readerAt' = "last" /\ rowsSeen' = rowsSeen /\ n \in {1, rowsSeen + 2}
             \/ readerAt' = "offering" /\ rowsSeen' = rowsSeen + 1 /\ n = rowsSeen + 2,
             readerAt \in {"header", "rows"}
      PROVE  RowsInv'
  <2>1. \A m : Offered(m)' <=> m = n  BY <1>3 DEF Offered
  <2>2. \A m \in Int : Placed(m)' <=> Placed(m) \/ m = n  BY <1>1, <1>2, <2>1 DEF Placed
  <2>3. RowNumbers \subseteq Int  BY LimitAssumption DEF RowNumbers
  <2> QED  BY <1>0, <1>1, <1>2, <1>3, <2>1, <2>2, <2>3 DEF RowsInv, Placed
<1>4. ASSUME readerAt' \notin Sending, rowsSeen' = rowsSeen, readerAt \in {"header", "rows"}
      PROVE  RowsInv'
  <2>1. \A m : ~Offered(m)'  BY <1>4 DEF Offered
  <2>2. \A m \in Int : Placed(m)' <=> Placed(m)  BY <1>1, <1>2, <2>1 DEF Placed
  <2>3. RowNumbers \subseteq Int  BY LimitAssumption DEF RowNumbers
  <2> QED  BY <1>0, <1>1, <1>2, <1>4, <2>1, <2>2, <2>3 DEF RowsInv, Placed
<1>5. 1 \in RowNumbers /\ rowsSeen + 2 \in RowNumbers  BY <1>0, LimitAssumption DEF RowNumbers
<1>6. readerAt \in {"header", "rows"} => ~Placed(1) /\ ~Placed(rowsSeen + 2)
  BY <1>0, <1>5 DEF RowsInv
<1>7. CASE ReadHeader
  <2>1. CASE Send(1, "header error", "last")
    <3>1. readerAt' = "last" /\ offer'.row = 1  BY <2>1 DEF Send
    <3> QED  BY <1>3, <1>5, <1>6, <1>7, <3>1 DEF ReadHeader, Sending
  <2>2. CASE ~Send(1, "header error", "last")
    BY <1>4, <1>7, <2>2 DEF ReadHeader, Close, Sending
  <2> QED  BY <2>1, <2>2
<1>8. CASE RefuseRest
  <2>1. readerAt' = "last" /\ offer'.row = rowsSeen + 2  BY <1>8 DEF RefuseRest, Send
  <2> QED  BY <1>3, <1>5, <1>6, <1>8, <2>1 DEF RefuseRest, Sending
<1>9. CASE EndOfFile  BY <1>4, <1>9 DEF EndOfFile, Close, Sending
<1>10. CASE ReadRow
  <2>1. PICK what : Send(rowsSeen + 2, what, "offering")  BY <1>10 DEF ReadRow
  <2>2. readerAt' = "offering" /\ offer'.row = rowsSeen + 2  BY <2>1 DEF Send
  <2> QED  BY <1>3, <1>5, <1>6, <1>10, <2>2 DEF ReadRow, Sending
<1> QED  BY <1>7, <1>8, <1>9, <1>10 DEF Reader

\* Handing a row over, registering it and reporting it move it to its next place.
LEMMA WorkerRows ==
  ASSUME TypeInv, RowsInv, NEW w \in Workers, Worker(w)  PROVE RowsInv'
<1>0. /\ ReaderOK /\ rowsSeen' = rowsSeen /\ RowNumbers \subseteq Int /\ rowsSeen \in Nat
      /\ reported \in [RowNumbers -> Outcomes \cup {None}]
      /\ worker \in [Workers -> {"receive", "register", "reply", "done"}]
      /\ held \in [Workers -> Jobs \cup Results \cup {None}]
  BY LimitAssumption, JobTypes
     DEF TypeInv, RowNumbers, Worker, TakeJob, WorkerEnds, Register, CollectResult, reading
<1>1. ASSUME NEW v \in Workers, v # w, NEW n  PROVE InHand(n, v)' <=> InHand(n, v)
  BY <1>0, <1>1 DEF InHand, Worker, TakeJob, WorkerEnds, Register, CollectResult
<1>2. CASE TakeJob(w)
  <2>1. offer \in Jobs /\ offer.row \in RowNumbers /\ readerAt \in Sending /\ readerAt' \notin Sending
    BY <1>0, <1>2 DEF TakeJob, ReaderOK, Sending, Jobs
  <2>2. \A n : Offered(n) <=> n = offer.row  BY <2>1 DEF Offered
  <2>3. \A n : ~Offered(n)' /\ reported'[n] = reported[n] /\ ~InHand(n, w)
    BY <1>2, <2>1 DEF Offered, TakeJob, InHand, collecting
  <2>4. \A n : InHand(n, w)' <=> n = offer.row
    BY <1>0, <1>2 DEF InHand, TakeJob, Failure
  <2>5. \A n : Placed(n)' <=> Placed(n)  BY <1>1, <2>2, <2>3, <2>4 DEF Placed
  <2>6. readerAt' \in {"last", "closed"} <=> readerAt \in {"last", "closed"}
    BY <1>2 DEF TakeJob
  <2> QED  BY <1>0, <1>1, <2>2, <2>3, <2>4, <2>5, <2>6 DEF RowsInv
<1>3. CASE WorkerEnds(w) \/ Register(w)
  <2>1. \A n : Offered(n)' = Offered(n) /\ reported'[n] = reported[n] /\ readerAt' = readerAt
    BY <1>3 DEF Offered, WorkerEnds, Register, collecting, reading
  <2>2. \A n : InHand(n, w)' <=> InHand(n, w)
    BY <1>0, <1>3 DEF InHand, WorkerEnds, Register, Failure, Success
  <2>3. \A n : Placed(n)' <=> Placed(n)  BY <1>1, <2>1, <2>2 DEF Placed
  <2> QED  BY <1>0, <1>1, <2>1, <2>2, <2>3 DEF RowsInv
<1>4. CASE CollectResult(w)
  <2>1. held[w] \in Results /\ held[w].row \in RowNumbers /\ held[w].outcome # None
    BY <1>4, TokensAssumption DEF CollectResult, TypeInv, WorkerOK, Results, Outcomes
  <2>2. \A n : (Offered(n)' <=> Offered(n)) /\ readerAt' = readerAt
    BY <1>4 DEF Offered, CollectResult, reading
  <2>3. \A n : (InHand(n, w) <=> n = held[w].row) /\ ~InHand(n, w)'
    BY <1>0, <1>4 DEF InHand, CollectResult
  <2>4. \A n \in RowNumbers : reported'[n] # None <=> reported[n] # None \/ n = held[w].row
    BY <1>0, <1>4, <2>1 DEF CollectResult
  <2>5. \A n \in RowNumbers : Placed(n)' <=> Placed(n)  BY <1>1, <2>2, <2>3, <2>4 DEF Placed
  <2>6. 2 .. (rowsSeen + 1) \subseteq RowNumbers
    BY <1>0, LimitAssumption DEF RowNumbers, ReaderOK
  <2> QED  BY <1>0, <1>1, <2>1, <2>2, <2>3, <2>4, <2>5, <2>6 DEF RowsInv
<1> QED  BY <1>2, <1>3, <1>4 DEF Worker

LEMMA OtherRows ==
  ASSUME RowsInv,
         \/ CloseResults \/ ReturnSummary \/ Cancel \/ UNCHANGED vars
         \/ \E e \in Emails : RegisterElsewhere(e)
  PROVE  RowsInv'
<1>1. UNCHANGED <<readerAt, rowsSeen, offer, worker, held, reported>>
  BY DEF CloseResults, ReturnSummary, Cancel, vars, RegisterElsewhere, reading, collecting
<1> QED  BY <1>1 DEF RowsInv, Placed, Offered, InHand

LEMMA NextRows == TypeInv /\ RowsInv /\ [Next]_vars => RowsInv'
  BY ReaderRows, WorkerRows, OtherRows DEF Next, Finished

-----------------------------------------------------------------------------
(* Users: who took an address, and what is said of it.                        *)

LEMMA InitUsers == Init => UsersInv
  BY TokensAssumption DEF Init, UsersInv, Fate, RowNumbers, Outcomes

\* A row on offer or about to be registered has no user and no fate yet.
LEMMA NoFateYet ==
  ASSUME TypeInv, RowsInv, UsersInv, NEW n \in RowNumbers,
         Offered(n) \/ \E w \in Workers : InHand(n, w) /\ worker[w] = "register"
  PROVE  /\ \A o \in Outcomes : ~Fate(n, o)
         /\ \A e \in Emails : users[e] # n
<1>1. \A o \in Outcomes, w \in Workers :
        worker[w] = "reply" /\ held[w] = [row |-> n, outcome |-> o] => InHand(n, w)
  BY DEF InHand
<1>2. \A o \in Outcomes : ~Fate(n, o)
  BY <1>1, TokensAssumption DEF RowsInv, Fate, Outcomes, InHand
<1> QED  BY <1>2 DEF UsersInv

\* Taking a job that needs no registration settles its row.
LEMMA TakenFates ==
  ASSUME TypeInv, NEW w \in Workers, TakeJob(w), offer.what \in ErrorJobs
  PROVE  /\ offer \in Jobs /\ Offered(offer.row) /\ readerAt \in Sending
         /\ \A n \in RowNumbers : /\ Fate(n, "created")' <=> Fate(n, "created")
                                  /\ Fate(n, "failed")' <=> Fate(n, "failed") \/ n = offer.row
<1>1. offer \in Jobs /\ Offered(offer.row) /\ readerAt \in Sending
  BY DEF TypeInv, TakeJob, ReaderOK, Sending, Offered
<1>2. /\ worker \in [Workers -> {"receive", "register", "reply", "done"}]
      /\ held \in [Workers -> Jobs \cup Results \cup {None}]
  BY DEF TypeInv
<1> QED  BY <1>1, <1>2 DEF TakeJob, Failure, Fate, collecting

\* Registering a row settles it.
LEMMA RegisteredFates ==
  ASSUME TypeInv, RowsInv, UsersInv, NEW w \in Workers, Register(w), NEW o \in Outcomes,
         held' = [held EXCEPT ![w] = [row |-> held[w].row, outcome |-> o]]
  PROVE  \A m \in RowNumbers, p \in Outcomes :
           Fate(m, p)' <=> (IF m = held[w].row THEN p = o ELSE Fate(m, p))
<1>0. /\ worker \in [Workers -> {"receive", "register", "reply", "done"}]
      /\ held \in [Workers -> Jobs \cup Results \cup {None}]
      /\ worker' = [worker EXCEPT ![w] = "reply"] /\ reported' = reported
  BY DEF TypeInv, Register, collecting
<1>1. held[w].row \in RowNumbers /\ InHand(held[w].row, w) /\ worker[w] = "register"
  BY DEF TypeInv, Register, WorkerOK, Jobs, InHand
<1>2. \A p \in Outcomes : ~Fate(held[w].row, p)  BY <1>1, NoFateYet
<1> QED  BY <1>0, <1>1, <1>2 DEF Fate, Outcomes

\* The other steps of a worker settle nothing: reporting a row moves its fate on.
LEMMA KeptFates ==
  ASSUME TypeInv, RowsInv, NEW w \in Workers,
         WorkerEnds(w) \/ CollectResult(w) \/ (TakeJob(w) /\ offer.what \notin ErrorJobs)
  PROVE  \A n \in RowNumbers, o \in Outcomes : Fate(n, o)' <=> Fate(n, o)
<1>0. /\ worker \in [Workers -> {"receive", "register", "reply", "done"}]
      /\ held \in [Workers -> Jobs \cup Results \cup {None}]
      /\ reported \in [RowNumbers -> Outcomes \cup {None}] /\ WorkerOK(w)
  BY DEF TypeInv
<1>1. CASE TakeJob(w) /\ offer.what \notin ErrorJobs
  BY <1>0, <1>1 DEF TakeJob, Fate, collecting
<1>2. CASE WorkerEnds(w)  BY <1>0, <1>2 DEF WorkerEnds, Fate, collecting
<1>3. CASE CollectResult(w)
  <2> DEFINE res == held[w]
  <2>1. /\ res \in Results /\ res.row \in RowNumbers /\ res.outcome \in Outcomes
        /\ res = [row |-> res.row, outcome |-> res.outcome] /\ worker[w] = "reply"
    BY <1>0, <1>3 DEF CollectResult, WorkerOK, Results
  <2>2. /\ reported[res.row] = None
        /\ \A v \in Workers : worker[v] = "reply" /\ held[v].row = res.row => v = w
    BY <2>1 DEF RowsInv, InHand
  <2>3. /\ reported' = [reported EXCEPT ![res.row] = res.outcome]
        /\ worker' = [worker EXCEPT ![w] = "receive"] /\ held' = [held EXCEPT ![w] = None]
    BY <1>3 DEF CollectResult
  <2> QED  BY <1>0, <2>1, <2>2, <2>3, TokensAssumption DEF Fate
<1> QED  BY <1>1, <1>2, <1>3

LEMMA WorkerUsers ==
  ASSUME TypeInv, RowsInv, UsersInv, NEW w \in Workers, Worker(w)  PROVE UsersInv'
<1>0. /\ users \in [Emails -> RowNumbers \cup {None, Outside}]
      /\ worker \in [Workers -> {"receive", "register", "reply", "done"}]
      /\ held \in [Workers -> Jobs \cup Results \cup {None}]
      /\ reported \in [RowNumbers -> Outcomes \cup {None}]
      /\ WorkerOK(w) /\ ReaderOK /\ RowNumbers \subseteq Nat
  BY LimitAssumption DEF TypeInv, RowNumbers
<1>1. CASE TakeJob(w) /\ offer.what \in ErrorJobs
  <2>1. offer.row \in RowNumbers /\ Offered(offer.row)  BY <1>1, TakenFates DEF Jobs
  <2>2. \A e \in Emails : users[e] # offer.row  BY <2>1, NoFateYet
  <2>3. users' = users /\ unsure' = unsure  BY <1>1 DEF TakeJob
  <2>4. \A n \in RowNumbers : /\ Fate(n, "created")' <=> Fate(n, "created")
                              /\ Fate(n, "failed")' <=> Fate(n, "failed") \/ n = offer.row
    BY <1>1, TakenFates
  <2> QED  BY <1>0, <2>2, <2>3, <2>4 DEF UsersInv, Outcomes
<1>2. CASE WorkerEnds(w) \/ CollectResult(w) \/ (TakeJob(w) /\ offer.what \notin ErrorJobs)
  <2>1. \A n \in RowNumbers, o \in Outcomes : Fate(n, o)' <=> Fate(n, o)  BY <1>2, KeptFates
  <2> QED  BY <1>2, <2>1 DEF TakeJob, WorkerEnds, CollectResult, UsersInv, Outcomes
<1>3. CASE Register(w)
  <2> DEFINE n == held[w].row
             e == held[w].what
  <2>1. n \in RowNumbers /\ InHand(n, w) /\ worker[w] = "register"
    BY <1>0, <1>3 DEF Register, WorkerOK, Jobs, InHand
  <2>2. /\ \A o \in Outcomes : ~Fate(n, o)
        /\ \A a \in Emails : users[a] # n
    BY <2>1, NoFateYet
  <2>3. ASSUME NEW o \in Outcomes, held' = [held EXCEPT ![w] = [row |-> n, outcome |-> o]]
        PROVE  \A m \in RowNumbers, p \in Outcomes :
                 Fate(m, p)' <=> (IF m = n THEN p = o ELSE Fate(m, p))
    BY <1>3, <2>3, RegisteredFates
  <2>4. \A m \in RowNumbers : m # None  BY <1>0, TokensAssumption
  <2>5. ASSUME Inserted(n, e)
        PROVE  \A m \in RowNumbers, a \in Emails :
                 users'[a] = m <=> (IF m = n THEN a = e ELSE users[a] = m)
    BY <1>0, <2>1, <2>2, <2>4, <2>5 DEF Inserted
  <2>6. CASE Inserted(n, e) /\ held' = [held EXCEPT ![w] = Success(n)] /\ unsure' = unsure
    <3>1. \A m \in RowNumbers, p \in Outcomes :
            Fate(m, p)' <=> (IF m = n THEN p = "created" ELSE Fate(m, p))
      BY <2>3, <2>6 DEF Success, Outcomes
    <3>2. e \in Emails  BY <2>6 DEF Inserted
    <3> QED  BY <2>5, <2>6, <3>1, <3>2 DEF UsersInv, Outcomes
  <2>7. ASSUME held' = [held EXCEPT ![w] = Failure(n)]
        PROVE  \A m \in RowNumbers, p \in Outcomes :
                 Fate(m, p)' <=> (IF m = n THEN p = "failed" ELSE Fate(m, p))
    BY <2>3, <2>7 DEF Failure, Outcomes
  <2>8. CASE /\ users' = users /\ held' = [held EXCEPT ![w] = Failure(n)]
             /\ unsure \subseteq unsure'
    BY <2>2, <2>7, <2>8 DEF UsersInv, Outcomes
  <2>9. CASE /\ Inserted(n, e) /\ held' = [held EXCEPT ![w] = Failure(n)]
             /\ unsure' = unsure \cup {n}
    BY <2>5, <2>7, <2>9 DEF UsersInv, Outcomes
  <2> QED  BY <1>3, <2>6, <2>8, <2>9 DEF Register
<1> QED  BY <1>1, <1>2, <1>3 DEF Worker

LEMMA OtherUsers ==
  ASSUME UsersInv, TypeInv,
         \/ Reader \/ CloseResults \/ ReturnSummary \/ Cancel \/ UNCHANGED vars
         \/ \E e \in Emails : RegisterElsewhere(e)
  PROVE  UsersInv'
<1>1. UNCHANGED <<unsure, worker, held, reported>>
  BY DEF Reader, ReadHeader, RefuseRest, EndOfFile, ReadRow,
     CloseResults, ReturnSummary, Cancel, vars, RegisterElsewhere, reading, collecting
<1>2. \A n, o : Fate(n, o)' <=> Fate(n, o)  BY <1>1 DEF Fate
<1>3. CASE users' = users  BY <1>1, <1>2, <1>3 DEF UsersInv
<1>4. ASSUME NEW e \in Emails, RegisterElsewhere(e)  PROVE UsersInv'
  <2>1. users[e] = None /\ users' = [users EXCEPT ![e] = Outside]
    BY <1>4 DEF RegisterElsewhere
  <2>2. \A n \in RowNumbers : n # None /\ n # Outside  BY TokensAssumption, LimitAssumption DEF RowNumbers
  <2>3. \A n \in RowNumbers, a \in Emails : users'[a] = n <=> users[a] = n
    BY <2>1, <2>2 DEF TypeInv
  <2> QED  BY <1>1, <1>2, <2>3 DEF UsersInv
<1> QED
  BY <1>3, <1>4 DEF Reader, ReadHeader, RefuseRest, EndOfFile, ReadRow,
     CloseResults, ReturnSummary, Cancel, vars

LEMMA NextUsers == TypeInv /\ RowsInv /\ UsersInv /\ [Next]_vars => UsersInv'
  BY WorkerUsers, OtherUsers DEF Next, Finished

-----------------------------------------------------------------------------
(* The file: the reader stops for a reason, and no address is forgotten.      *)

LEMMA InitFile == Init => FileInv
  BY FilesAreSequences, LenProperties DEF Init, FileInv

LEMMA ReaderFile ==
  ASSUME TypeInv, FileInv, Reader  PROVE FileInv'
<1> SUFFICES ASSUME ~cancelled', header' = "good"  PROVE FileInv'  BY DEF FileInv
<1>0. /\ ReaderOK /\ ~cancelled /\ header = "good" /\ rowsSeen \in Nat /\ rowsSeen <= maxBulkImportRows
      /\ file \in Seq(Rows) /\ Len(file) \in Nat /\ readerAt \notin Sending
      /\ UNCHANGED <<header, users, unsure, cancelled, worker, held>>
  BY JobTypes, ReadTypes
     DEF TypeInv, Reader, ReadHeader, RefuseRest, EndOfFile, ReadRow, Sending, upload
<1>1. \A i \in 1 .. rowsSeen : file[i] \in Emails =>
        \/ users[file[i]] # None \/ i + 1 \in unsure
        \/ \E w \in Workers : worker[w] = "register" /\ held[w] = [row |-> i + 1, what |-> file[i]]
  BY <1>0 DEF FileInv, Served, OnItsWay, Offered
<1>2. CASE ReadHeader
  <2>1. rowsSeen = 0 /\ rowsSeen' = rowsSeen /\ readerAt' = "rows" /\ file' = file
    BY <1>0, <1>2 DEF ReadHeader, ReaderOK, upload
  <2> QED  BY <1>0, <2>1 DEF FileInv
<1>3. CASE RefuseRest
  <2>1. AtLimit  BY <1>3 DEF RefuseRest
  <2>2. rowsSeen = maxBulkImportRows  BY <1>0, <2>1, LimitAssumption DEF AtLimit
  <2>3. rowsSeen' = rowsSeen /\ readerAt' = "last" /\ file' = file
    BY <1>3 DEF RefuseRest, Send, upload
  <2> QED  BY <1>0, <1>1, <2>2, <2>3 DEF FileInv, Served, OnItsWay
<1>4. CASE EndOfFile
  <2>1. rowsSeen >= Len(file) /\ rowsSeen' = rowsSeen /\ readerAt' = "closed" /\ file' = file
    BY <1>4 DEF EndOfFile, Close, upload
  <2> QED  BY <1>0, <1>1, <2>1 DEF FileInv, Served, OnItsWay
<1>5. CASE ReadRow
  <2>1. /\ rowsSeen < Len(file) /\ file' = file /\ rowsSeen' = rowsSeen + 1
        /\ readerAt' = "offering"
        /\ file[rowsSeen + 1] # Broken => offer' = [row |-> rowsSeen + 2, what |-> file[rowsSeen + 1]]
    BY <1>0, <1>5 DEF ReadRow, Send
  <2>2. ASSUME NEW i \in 1 .. rowsSeen', file[i] \in Emails
        PROVE  Served(i + 1, file[i])'
    <3>1. CASE i = rowsSeen + 1
      <4>1. offer' = [row |-> i + 1, what |-> file[i]]  BY <1>0, <2>1, <2>2, <3>1, TokensAssumption
      <4> QED  BY <2>1, <4>1 DEF Served, OnItsWay, Offered, Sending
    <3>2. CASE i \in 1 .. rowsSeen  BY <1>0, <1>1, <2>1, <2>2, <3>2 DEF Served, OnItsWay
    <3> QED  BY <1>0, <2>1, <3>1, <3>2
  <2> QED  BY <1>0, <2>1, <2>2 DEF FileInv
<1> QED  BY <1>2, <1>3, <1>4, <1>5 DEF Reader

LEMMA WorkerFile ==
  ASSUME TypeInv, FileInv, NEW w \in Workers, Worker(w)  PROVE FileInv'
<1> SUFFICES ASSUME ~cancelled', header' = "good"  PROVE FileInv'  BY DEF FileInv
<1>0. /\ ~cancelled /\ header = "good" /\ ReaderOK /\ WorkerOK(w)
      /\ UNCHANGED <<file, header, cancelled, rowsSeen>>
      /\ users \in [Emails -> RowNumbers \cup {None, Outside}]
      /\ worker \in [Workers -> {"receive", "register", "reply", "done"}]
      /\ held \in [Workers -> Jobs \cup Results \cup {None}]
  BY DEF TypeInv, Worker, TakeJob, WorkerEnds, Register, CollectResult, upload, reading
<1>1. ASSUME NEW i \in 1 .. rowsSeen, file[i] \in Emails, Served(i + 1, file[i])
      PROVE  Served(i + 1, file[i])'
  <2>1. CASE TakeJob(w)
    <3>1. users' = users /\ unsure' = unsure  BY <2>1 DEF TakeJob
    <3>2. CASE Offered(i + 1) /\ offer.what = file[i]
      <4>1. offer = [row |-> i + 1, what |-> file[i]] /\ offer.what \notin ErrorJobs
        BY <1>0, <1>1, <2>1, <3>2, TokensAssumption DEF TakeJob, ReaderOK, Sending, Jobs, Offered
      <4> QED  BY <1>0, <2>1, <4>1 DEF TakeJob, Served, OnItsWay
    <3> QED  BY <1>0, <1>1, <2>1, <3>1, <3>2 DEF TakeJob, Served, OnItsWay
  <2>2. CASE WorkerEnds(w)  BY <1>0, <1>1, <2>2 DEF WorkerEnds, Served, OnItsWay, Offered, reading
  <2>3. CASE Register(w)
    <3>1. held[w].row \in RowNumbers /\ held[w].row # None
      BY <1>0, <2>3, TokensAssumption, LimitAssumption DEF Register, WorkerOK, Jobs, RowNumbers
    <3>2. held[w] = [row |-> i + 1, what |-> file[i]] => users'[file[i]] # None \/ i + 1 \in unsure'
      BY <1>0, <1>1, <2>3, <3>1 DEF Register, Inserted
    <3>3. users[file[i]] # None => users'[file[i]] # None
      BY <1>0, <1>1, <2>3, <3>1 DEF Register, Inserted
    <3>4. unsure \subseteq unsure'  BY <2>3 DEF Register
    <3> QED
      BY <1>0, <1>1, <2>3, <3>2, <3>3, <3>4 DEF Register, Served, OnItsWay, Offered, reading
  <2>4. CASE CollectResult(w)
    BY <1>0, <1>1, <2>4 DEF CollectResult, Served, OnItsWay, Offered, reading
  <2> QED  BY <2>1, <2>2, <2>3, <2>4 DEF Worker
<1>2. CASE TakeJob(w)
  BY <1>0, <1>1, <1>2 DEF TakeJob, FileInv
<1>3. CASE ~TakeJob(w)
  BY <1>0, <1>1, <1>3 DEF FileInv, Worker, WorkerEnds, Register, CollectResult, reading
<1> QED  BY <1>2, <1>3

LEMMA OtherFile ==
  ASSUME TypeInv, FileInv,
         \/ CloseResults \/ ReturnSummary \/ Cancel \/ UNCHANGED vars
         \/ \E e \in Emails : RegisterElsewhere(e)
  PROVE  FileInv'
<1>1. /\ UNCHANGED <<file, header, unsure, readerAt, rowsSeen, offer, worker, held>>
      /\ cancelled' = cancelled \/ cancelled'
  BY DEF CloseResults, ReturnSummary, Cancel, vars, RegisterElsewhere, reading, upload
<1>2. \A a \in Emails : users[a] # None => users'[a] # None
  BY TokensAssumption
     DEF TypeInv, CloseResults, ReturnSummary, Cancel, vars, RegisterElsewhere
<1> QED  BY <1>1, <1>2 DEF FileInv, Served, OnItsWay, Offered

LEMMA NextFile == TypeInv /\ FileInv /\ [Next]_vars => FileInv'
  BY ReaderFile, WorkerFile, OtherFile DEF Next, Finished

-----------------------------------------------------------------------------
(* The counters of the summary.                                               *)

LEMMA ReportedIsFinite == \A S \in SUBSET RowNumbers : IsFiniteSet(S) /\ Cardinality(S) \in Nat
<1>1. maxBulkImportRows + 2 \in Int  BY LimitAssumption
<1>2. IsFiniteSet(RowNumbers)  BY <1>1, FS_Interval DEF RowNumbers
<1> QED  BY <1>2, FS_Subset, FS_CardinalityType

LEMMA InitSummary == Init => SummaryAddsUp
<1> SUFFICES ASSUME Init  PROVE SummaryAddsUp  OBVIOUS
<1>1. \A os \in SUBSET Outcomes : Reported(os) = {}  BY TokensAssumption DEF Init, Reported
<1> QED  BY <1>1, FS_EmptySet DEF Init, SummaryAddsUp, Outcomes

\* A row is reported once: the set of reported rows grows with the counter.
LEMMA CollectSummary ==
  ASSUME TypeInv, RowsInv, SummaryAddsUp, NEW w \in Workers, CollectResult(w)
  PROVE  SummaryAddsUp'
<1> DEFINE n == held[w].row
           o == held[w].outcome
<1>1. /\ n \in RowNumbers /\ o \in Outcomes /\ reported[n] = None
      /\ reported \in [RowNumbers -> Outcomes \cup {None}]
      /\ reported' = [reported EXCEPT ![n] = o]
  BY DEF TypeInv, WorkerOK, Results, CollectResult, RowsInv, InHand
<1>2. ASSUME NEW os \in SUBSET Outcomes
      PROVE  Cardinality(Reported(os)') = Cardinality(Reported(os)) + (IF o \in os THEN 1 ELSE 0)
  <2>1. Reported(os)' = IF o \in os THEN Reported(os) \cup {n} ELSE Reported(os)
    BY <1>1, TokensAssumption DEF Reported
  <2>2. n \notin Reported(os)  BY <1>1, TokensAssumption DEF Reported
  <2>3. IsFiniteSet(Reported(os)) /\ Cardinality(Reported(os)) \in Nat
    BY ReportedIsFinite DEF Reported
  <2>4. Cardinality(Reported(os) \cup {n}) = Cardinality(Reported(os)) + 1
    BY <2>2, <2>3, FS_AddElement
  <2> QED  BY <2>1, <2>3, <2>4
<1>3. /\ summary'.processed = summary.processed + 1
      /\ summary'.succeeded = summary.succeeded + (IF o = "created" THEN 1 ELSE 0)
      /\ summary'.failed = summary.failed + (IF o = "created" THEN 0 ELSE 1)
  BY DEF CollectResult
<1> QED  BY <1>1, <1>2, <1>3 DEF SummaryAddsUp, Outcomes

LEMMA NextSummary == TypeInv /\ RowsInv /\ SummaryAddsUp /\ [Next]_vars => SummaryAddsUp'
<1> SUFFICES ASSUME TypeInv, RowsInv, SummaryAddsUp, [Next]_vars  PROVE SummaryAddsUp'  OBVIOUS
<1>1. CASE \E w \in Workers : CollectResult(w)  BY <1>1, CollectSummary
<1>2. CASE UNCHANGED <<summary, reported>>  BY <1>2 DEF SummaryAddsUp, Reported
<1> QED
  BY <1>1, <1>2
     DEF Next, Finished, vars, Reader, ReadHeader, RefuseRest, EndOfFile, ReadRow, CloseResults, ReturnSummary,
         Cancel, Worker, TakeJob, WorkerEnds, Register, RegisterElsewhere, collecting

-----------------------------------------------------------------------------
(* What is due.  A job names a row of the file, with its address if the row   *)
(* has one, and unless the client has gone away only rows due are offered.    *)
(* When the reader has stopped, every row that is due is on its way.          *)

Told(j) ==
    /\ j.what \in Emails => j.row - 1 <= rowsSeen /\ Import!Names(j.row, j.what)
    /\ \A e \in Emails : Import!Names(j.row, e) => j.what = e
    /\ ~cancelled => Import!Due(j.row)

DueInv ==
    /\ readerAt \in Sending => Told(offer)
    /\ \A w \in Workers : worker[w] = "register" => Told(held[w])
    /\ readerAt \in {"rows", "offering"} => header = "good"
    /\ ~cancelled /\ readerAt \in {"last", "closed"} =>
         \A n \in RowNumbers : Import!Due(n) => Placed(n)

LEMMA InitDue == Init => DueInv
  BY DEF Init, DueInv, Sending

\* What a job says stays true while the reader goes on, and when the client leaves.
LEMMA ToldStays ==
  ASSUME TypeInv, NEW j \in Jobs, Told(j), rowsSeen' >= rowsSeen, rowsSeen' \in Nat, header' = header,
         cancelled => cancelled',
         file' = file \/ (cancelled /\ rowsSeen < Len(file) /\ file' = SubSeq(file, 1, rowsSeen))
  PROVE  Told(j)'
<1>0. /\ file \in Seq(Rows) /\ rowsSeen \in Nat /\ j.row \in Nat /\ j.row # 0 /\ Len(file) \in Nat
      /\ maxBulkImportRows \in Nat
  BY ReadTypes, LimitAssumption DEF TypeInv, ReaderOK, Jobs, RowNumbers
<1>1. CASE file' = file
  <2>1. \A n, e : Import!Names(n, e)' <=> Import!Names(n, e)
    BY <1>1 DEF Import!Names, Import!HasRow
  <2>2. \A n : Import!Due(n)' <=> Import!Due(n)  BY <1>1 DEF Import!HasRow, Import!Due
  <2>3. j.row - 1 <= rowsSeen => j.row - 1 <= rowsSeen'  BY <1>0
  <2> QED  BY <2>1, <2>2, <2>3 DEF Told
<1>2. CASE cancelled /\ rowsSeen < Len(file) /\ file' = SubSeq(file, 1, rowsSeen)
  <2>1. Len(file') = rowsSeen  BY <1>0, <1>2, ReadTypes
  <2>2. \A i \in 1 .. rowsSeen : file[i] \in Rows  BY <1>0, <1>2, ReadTypes
  <2>3. \A i \in 1 .. rowsSeen : file'[i] = file[i]  BY <1>0, <1>2, <2>2, SubSeqProperties
  <2> QED  BY <1>0, <1>2, <2>1, <2>3 DEF Told, Import!Names, Import!HasRow
<1> QED  BY <1>1, <1>2

LEMMA ReaderDue ==
  ASSUME TypeInv, RowsInv, FileInv, DueInv, Reader  PROVE DueInv'
<1>0. /\ ReaderOK /\ rowsSeen \in Nat /\ rowsSeen <= maxBulkImportRows /\ maxBulkImportRows \in Nat
      /\ file \in Seq(Rows) /\ Len(file) \in Nat /\ RowNumbers \subseteq Nat
      /\ readerAt \in {"header", "rows"}
      /\ UNCHANGED <<header, cancelled, worker, held>>
  <2>1. ReaderOK /\ rowsSeen \in Nat /\ rowsSeen <= maxBulkImportRows /\ maxBulkImportRows \in Nat
    BY JobTypes, LimitAssumption DEF TypeInv
  <2>2. file \in Seq(Rows) /\ Len(file) \in Nat  BY <2>1, ReadTypes DEF TypeInv
  <2>3. RowNumbers \subseteq Nat  BY <2>1 DEF RowNumbers
  <2>4. readerAt \in {"header", "rows"} /\ UNCHANGED <<header, cancelled, worker, held>>
    BY DEF Reader, ReadHeader, RefuseRest, EndOfFile, ReadRow, upload
  <2> QED  BY <2>1, <2>2, <2>3, <2>4
<1>1. /\ rowsSeen' \in Nat /\ rowsSeen' >= rowsSeen
      /\ file' = file \/ (cancelled /\ rowsSeen < Len(file) /\ file' = SubSeq(file, 1, rowsSeen))
  <2>1. rowsSeen' = rowsSeen \/ rowsSeen' = rowsSeen + 1
    BY DEF Reader, ReadHeader, RefuseRest, EndOfFile, ReadRow
  <2>2. file' = file \/ (cancelled /\ rowsSeen < Len(file) /\ file' = SubSeq(file, 1, rowsSeen))
    BY DEF Reader, ReadHeader, RefuseRest, EndOfFile, ReadRow, upload
  <2> QED  BY <1>0, <2>1, <2>2
<1>2. ASSUME NEW w \in Workers, worker'[w] = "register"  PROVE Told(held[w])'
  <2>1. held[w] \in Jobs /\ Told(held[w])  BY <1>0, <1>2 DEF TypeInv, WorkerOK, DueInv
  <2>2. Told(held[w])'  BY <1>0, <1>1, <2>1, ToldStays
  <2> QED  BY <1>0, <2>2
<1>3. \A n \in RowNumbers : n \in 2 .. (rowsSeen' + 1) => Placed(n)'  BY ReaderRows DEF RowsInv
<1>8. /\ rowsSeen \in Nat /\ maxBulkImportRows \in Nat /\ Len(file) \in Nat
      /\ rowsSeen <= maxBulkImportRows
  BY <1>0
<1>4. CASE ReadHeader
  <2>1. file' = file /\ rowsSeen' = rowsSeen  BY <1>4 DEF ReadHeader, upload
  <2>2. CASE Send(1, "header error", "last")
    <3>1. offer' = [row |-> 1, what |-> "header error"] /\ readerAt' = "last" /\ (cancelled \/ header = "broken")
      BY <1>4, <2>2 DEF ReadHeader, Send, Close
    <3>2. Told(offer)'
      <4>1. ~Import!HasRow(1)'  BY DEF Import!HasRow
      <4> QED  BY <1>0, <3>1, <4>1, TokensAssumption DEF Told, ErrorJobs, Import!Due, Import!Names
    <3>3. Placed(1)'  BY <3>1 DEF Placed, Offered, Sending
    <3>4. ~cancelled => \A n \in RowNumbers : Import!Due(n)' => Placed(n)'
      BY <1>0, <3>1, <3>3 DEF Import!Due
    <3> QED  BY <1>0, <1>2, <3>1, <3>2, <3>4 DEF DueInv
  <2>3. CASE ~Send(1, "header error", "last")
    <3>1. \/ readerAt' = "closed" /\ header = "missing"
          \/ readerAt' = "rows" /\ header = "good"
      BY <1>4, <2>3 DEF ReadHeader, Close
    <3>2. header = "missing" => \A n \in RowNumbers : ~Import!Due(n)'  BY <1>0 DEF Import!Due
    <3> QED  BY <1>0, <1>2, <3>1, <3>2 DEF DueInv, Sending
  <2> QED  BY <2>2, <2>3
<1>5. CASE RefuseRest
  <2>1. /\ header = "good" /\ rowsSeen = maxBulkImportRows /\ file' = file /\ rowsSeen' = rowsSeen
        /\ offer' = [row |-> rowsSeen + 2, what |-> "limit exceeded"] /\ readerAt' = "last"
    <3>1. header = "good"  BY <1>5 DEF RefuseRest, DueInv
    <3>2. rowsSeen >= maxBulkImportRows  BY <1>5 DEF RefuseRest, AtLimit
    <3>3. rowsSeen = maxBulkImportRows  BY <1>8, <3>2
    <3> QED  BY <1>5, <3>1, <3>3 DEF RefuseRest, Send, upload
  <2>2. ~cancelled => Len(file) >= maxBulkImportRows  BY <1>0, <2>1 DEF FileInv
  <2>3. Told(offer)'
    <3>1. Import!Due(rowsSeen + 2)' \/ cancelled'
      BY <1>0, <2>1, <2>2 DEF Import!Due
    <3>2. ~Import!HasRow(rowsSeen + 2)'
      <4>1. rowsSeen' = maxBulkImportRows /\ maxBulkImportRows \in Nat  BY <1>8, <2>1
      <4> QED  BY ONLY <4>1 DEF Import!HasRow
    <3>3. "limit exceeded" \notin Emails  BY TokensAssumption DEF ErrorJobs
    <3> QED  BY <2>1, <3>1, <3>2, <3>3 DEF Told, Import!Names
  <2>4. Placed(rowsSeen + 2)'  BY <2>1 DEF Placed, Offered, Sending
  <2>5. ASSUME NEW n \in RowNumbers, Import!Due(n)'
        PROVE  n \in 2 .. (rowsSeen' + 1) \/ n = rowsSeen + 2
    <3>1. n \in Nat /\ header' = "good"  BY <1>0, <2>1
    <3>2. Import!HasRow(n)' \/ n = maxBulkImportRows + 2  BY <2>5, <3>1 DEF Import!Due
    <3>3. CASE Import!HasRow(n)'
      <4>1. n - 1 >= 1 /\ n - 1 <= maxBulkImportRows  BY <1>8, <3>1, <3>3 DEF Import!HasRow
      <4>2. rowsSeen' = maxBulkImportRows /\ maxBulkImportRows \in Nat /\ n \in Nat  BY <1>8, <2>1, <3>1
      <4> QED  BY ONLY <4>1, <4>2
    <3>4. CASE n = maxBulkImportRows + 2  BY <2>1, <3>4
    <3> QED  BY <3>2, <3>3, <3>4
  <2> QED  BY <1>0, <1>2, <1>3, <2>1, <2>3, <2>4, <2>5 DEF DueInv
<1>6. CASE EndOfFile
  <2>1. /\ header = "good" /\ rowsSeen < maxBulkImportRows /\ rowsSeen >= Len(file)
        /\ file' = file /\ rowsSeen' = rowsSeen /\ readerAt' = "closed"
    BY <1>0, <1>6 DEF EndOfFile, AtLimit, Close, DueInv, upload
  <2>2. \A n \in RowNumbers : Import!Due(n)' => n \in 2 .. (rowsSeen' + 1)
    BY <1>0, <2>1 DEF Import!Due, Import!HasRow
  <2> QED  BY <1>0, <1>2, <1>3, <2>1, <2>2 DEF DueInv, Sending
<1>7. CASE ReadRow
  <2>1. /\ header = "good" /\ rowsSeen < maxBulkImportRows
        /\ readerAt' = "offering" /\ rowsSeen' = rowsSeen + 1
    <3>1. header = "good"  BY <1>7 DEF ReadRow, DueInv
    <3>2. ~(rowsSeen >= maxBulkImportRows)  BY <1>7 DEF ReadRow, AtLimit
    <3>3. rowsSeen < maxBulkImportRows  BY <1>8, <3>2
    <3> QED  BY <1>7, <3>1, <3>3 DEF ReadRow, Send
  <2>2. CASE rowsSeen < Len(file) /\ file' = file
             /\ offer' = [row |-> rowsSeen + 2, what |-> IF file[rowsSeen + 1] = Broken THEN "read error"
                                                         ELSE file[rowsSeen + 1]]
    <3>0. rowsSeen \in Nat /\ Len(file) \in Nat /\ rowsSeen < Len(file) /\ rowsSeen < maxBulkImportRows
          /\ maxBulkImportRows \in Nat
      BY <1>0, <2>1, <2>2
    <3>1. Import!HasRow(rowsSeen + 2)  BY ONLY <3>0 DEF Import!HasRow
    <3>2. Broken \notin Emails /\ "read error" \notin Emails  BY TokensAssumption DEF ErrorJobs
    <3>3. offer'.row - 1 = rowsSeen + 1 /\ rowsSeen' = rowsSeen + 1 /\ rowsSeen \in Nat
      <4>1. offer'.row = rowsSeen + 2 /\ rowsSeen' = rowsSeen + 1 /\ rowsSeen \in Nat  BY <1>8, <2>1, <2>2
      <4> QED  BY ONLY <4>1
    <3>4. /\ offer'.what \in Emails => offer'.what = file'[rowsSeen + 1]
          /\ \A e \in Emails : file'[rowsSeen + 1] = e => offer'.what = e
      BY <2>2, <3>2
    <3>5. Import!HasRow(offer.row)' /\ header' = "good"  BY <1>0, <2>1, <2>2, <3>1 DEF Import!HasRow
    <3>6. Told(offer)'
      BY <3>3, <3>4, <3>5 DEF Told, Import!Due, Import!Names
    <3> QED  BY <1>0, <1>2, <2>1, <3>6 DEF DueInv, Sending
  <2>3. CASE /\ cancelled /\ offer' = [row |-> rowsSeen + 2, what |-> "read error"]
             /\ file' = IF rowsSeen < Len(file) THEN SubSeq(file, 1, rowsSeen) ELSE file
    <3>1. Len(file') \in Nat /\ Len(file') <= rowsSeen
      <4>1. CASE rowsSeen < Len(file)
        <5>1. Len(file') = rowsSeen  BY <1>0, <2>3, <4>1, ReadTypes
        <5> QED  BY <1>8, <5>1
      <4>2. CASE ~(rowsSeen < Len(file))
        <5>1. file' = file  BY <2>3, <4>2
        <5> QED  BY <1>8, <4>2, <5>1
      <4> QED  BY <4>1, <4>2
    <3>2. ~Import!HasRow(offer.row)'
      <4>1. offer'.row = rowsSeen + 2 /\ rowsSeen \in Nat  BY <1>8, <2>3
      <4> QED  BY ONLY <3>1, <4>1 DEF Import!HasRow
    <3>3. Told(offer)'
      BY <1>0, <2>3, <3>2, TokensAssumption DEF Told, ErrorJobs, Import!Names
    <3> QED  BY <1>0, <1>2, <2>1, <3>3 DEF DueInv, Sending
  <2> QED  BY <1>7, <2>2, <2>3 DEF ReadRow, Send
<1> QED  BY <1>4, <1>5, <1>6, <1>7 DEF Reader

\* A worker's step takes no row out of its place.
LEMMA WorkerKeepsPlaced ==
  ASSUME TypeInv, NEW w \in Workers, Worker(w), NEW n \in RowNumbers, Placed(n)
  PROVE  Placed(n)'
<1>0. /\ worker \in [Workers -> {"receive", "register", "reply", "done"}]
      /\ held \in [Workers -> Jobs \cup Results \cup {None}]
      /\ reported \in [RowNumbers -> Outcomes \cup {None}] /\ WorkerOK(w)
  BY DEF TypeInv
<1>1. CASE TakeJob(w)
  <2>1. \A m : m = offer.row => InHand(m, w)'  BY <1>0, <1>1 DEF TakeJob, InHand, Failure
  <2>2. \A v \in Workers : InHand(n, v) => InHand(n, v)'  BY <1>0, <1>1 DEF TakeJob, InHand
  <2> QED  BY <1>1, <2>1, <2>2 DEF TakeJob, Placed, Offered, collecting
<1>2. CASE WorkerEnds(w) \/ Register(w)
  <2>1. \A v \in Workers : InHand(n, v) => InHand(n, v)'
    BY <1>0, <1>2 DEF WorkerEnds, Register, InHand, Failure, Success
  <2> QED  BY <1>2, <2>1 DEF WorkerEnds, Register, Placed, Offered, reading, collecting
<1>3. CASE CollectResult(w)
  <2>1. held[w].outcome # None
    BY <1>0, <1>3, TokensAssumption DEF CollectResult, WorkerOK, Results, Outcomes
  <2>2. \A v \in Workers : InHand(n, v) => InHand(n, v)' \/ (v = w /\ n = held[w].row)
    BY <1>0, <1>3 DEF CollectResult, InHand
  <2> QED  BY <1>0, <1>3, <2>1, <2>2 DEF CollectResult, Placed, Offered, reading
<1> QED  BY <1>1, <1>2, <1>3 DEF Worker

LEMMA WorkerDue ==
  ASSUME TypeInv, DueInv, NEW w \in Workers, Worker(w)  PROVE DueInv'
<1>0. /\ UNCHANGED <<file, header, cancelled, rowsSeen>>
      /\ worker \in [Workers -> {"receive", "register", "reply", "done"}]
      /\ held \in [Workers -> Jobs \cup Results \cup {None}]
  BY DEF TypeInv, Worker, TakeJob, WorkerEnds, Register, CollectResult, upload, reading
<1>1. \A j : Told(j)' <=> Told(j)
  BY <1>0 DEF Told, Import!Names, Import!HasRow, Import!Due
<1>2. \A n : Import!Due(n)' <=> Import!Due(n)  BY <1>0 DEF Import!HasRow, Import!Due
<1>3. CASE TakeJob(w)
  <2>1. Told(offer) /\ readerAt' \in {"rows", "closed"}  BY <1>3 DEF TakeJob, DueInv, Sending
  <2>2. \A v \in Workers : worker'[v] = "register" => Told(held'[v])
    BY <1>0, <1>3, <2>1 DEF TakeJob, DueInv
  <2>3. /\ readerAt' = "rows" => readerAt = "offering"
        /\ readerAt' = "closed" => readerAt = "last"
    BY <1>3 DEF TakeJob
  <2> QED  BY <1>0, <1>1, <1>2, <2>1, <2>2, <2>3, WorkerKeepsPlaced DEF DueInv, Sending
<1>4. CASE WorkerEnds(w) \/ Register(w) \/ CollectResult(w)
  <2>1. readerAt' = readerAt /\ offer' = offer
    BY <1>4 DEF WorkerEnds, Register, CollectResult, reading
  <2>2. \A v \in Workers : worker'[v] = "register" => worker[v] = "register" /\ held'[v] = held[v]
    BY <1>0, <1>4 DEF WorkerEnds, Register, CollectResult
  <2> QED  BY <1>0, <1>1, <1>2, <2>1, <2>2, WorkerKeepsPlaced DEF DueInv
<1> QED  BY <1>3, <1>4 DEF Worker

LEMMA OtherDue ==
  ASSUME DueInv,
         \/ CloseResults \/ ReturnSummary \/ Cancel \/ UNCHANGED vars
         \/ \E e \in Emails : RegisterElsewhere(e)
  PROVE  DueInv'
<1>1. /\ UNCHANGED <<file, header, readerAt, rowsSeen, offer, worker, held, reported>>
      /\ cancelled' = cancelled \/ cancelled'
  BY DEF CloseResults, ReturnSummary, Cancel, vars, RegisterElsewhere, reading, upload, collecting
<1>2. \A j : Told(j) => Told(j)'
  BY <1>1 DEF Told, Import!Names, Import!HasRow, Import!Due
<1>3. \A n : (Import!Due(n)' <=> Import!Due(n)) /\ (Placed(n)' <=> Placed(n))
  BY <1>1 DEF Import!HasRow, Import!Due, Placed, Offered, InHand
<1> QED  BY <1>1, <1>2, <1>3 DEF DueInv

LEMMA NextDue == TypeInv /\ RowsInv /\ FileInv /\ DueInv /\ [Next]_vars => DueInv'
  BY ReaderDue, WorkerDue, OtherDue DEF Next, Finished

-----------------------------------------------------------------------------
(* The refinement: each step settles one row, returns the counts, is a step   *)
(* of the world around, or is invisible to Importer.                          *)

ImportInv == TypeInv /\ RowsInv /\ UsersInv /\ FileInv /\ SummaryAddsUp /\ DueInv

Answer == IF collectorAt = "returned" THEN summary ELSE None
RowFates == [n \in RowNumbers |-> FateOf(n)]

LEMMA FatesStay ==
  ASSUME \A n \in RowNumbers, o \in Outcomes : Fate(n, o)' <=> Fate(n, o)
  PROVE  RowFates' = RowFates
  BY DEF RowFates, FateOf, Outcomes

\* A step that settles row n, and nothing else of what Importer sees but users.
LEMMA StepSettles ==
  ASSUME DueInv, NEW n \in RowNumbers, NEW o \in Outcomes, collectorAt = "collect",
         \A p \in Outcomes : ~Fate(n, p), cancelled \/ Import!Due(n),
         \A m \in RowNumbers, p \in Outcomes : Fate(m, p)' <=> (IF m = n THEN p = o ELSE Fate(m, p)),
         UNCHANGED <<file, header, cancelled, collectorAt>>
  PROVE  Import!Settle(n, o)
<1>1. FateOf(n) = None  BY DEF FateOf, Outcomes
<1>2. \A m \in RowNumbers : FateOf(m)' = IF m = n THEN o ELSE FateOf(m)
  BY DEF FateOf, Outcomes
<1>3. RowFates' = [RowFates EXCEPT ![n] = o] /\ RowFates[n] = None  BY <1>1, <1>2 DEF RowFates
<1> QED  BY <1>3 DEF Import!Settle, RowFates

\* A worker can only be on its way while the caller still collects.
LEMMA WorkersWork ==
  ASSUME TypeInv, NEW w \in Workers, worker[w] # "done"  PROVE collectorAt = "collect"
  BY DEF TypeInv

\* A job that needs no registration is refused when a worker takes it.
LEMMA TakeRefuses ==
  ASSUME ImportInv, NEW w \in Workers, TakeJob(w), offer.what \in ErrorJobs
  PROVE  Import!Refuse(offer.row)
<1>0. TypeInv /\ RowsInv /\ UsersInv /\ DueInv  BY DEF ImportInv
<1>1. offer \in Jobs /\ offer.row \in RowNumbers /\ Offered(offer.row) /\ readerAt \in Sending
  BY <1>0, TakenFates DEF Jobs
<1>2. Told(offer) /\ offer.what \notin Emails  BY <1>0, <1>1, TokensAssumption DEF DueInv
<1>3. \A o \in Outcomes : ~Fate(offer.row, o)  BY <1>0, <1>1, NoFateYet
<1>4. \A n \in RowNumbers : /\ Fate(n, "created")' <=> Fate(n, "created")
                            /\ Fate(n, "failed")' <=> Fate(n, "failed") \/ n = offer.row
  BY <1>0, TakenFates
<1>5. \A m \in RowNumbers, p \in Outcomes :
        Fate(m, p)' <=> (IF m = offer.row THEN p = "failed" ELSE Fate(m, p))
  BY <1>1, <1>3, <1>4 DEF Outcomes
<1>6. UNCHANGED <<file, header, users, unsure, cancelled, collectorAt>> /\ collectorAt = "collect"
  BY <1>0, WorkersWork DEF TakeJob, upload, collecting
<1>7. Import!Settle(offer.row, "failed")
  BY <1>0, <1>1, <1>2, <1>3, <1>5, <1>6, StepSettles DEF Told, Outcomes
<1> QED  BY <1>2, <1>6, <1>7 DEF Import!Refuse, Import!Free, Told

\* Registering a row creates it, refuses it or fails it, in the moment of the INSERT.
LEMMA RegisterSettles ==
  ASSUME ImportInv, NEW w \in Workers, Register(w)
  PROVE  \/ Import!Create(held[w].row) \/ Import!Refuse(held[w].row)
         \/ Import!Fail(held[w].row)
<1> DEFINE n == held[w].row
           e == held[w].what
<1>0. TypeInv /\ RowsInv /\ UsersInv /\ DueInv  BY DEF ImportInv
<1>1. n \in RowNumbers /\ InHand(n, w) /\ worker[w] = "register" /\ e \notin ErrorJobs
  BY <1>0 DEF Register, TypeInv, WorkerOK, Jobs, InHand
<1>2. Told(held[w])  BY <1>0, <1>1 DEF DueInv
<1>3. \A o \in Outcomes : ~Fate(n, o)  BY <1>0, <1>1, NoFateYet
<1>4. UNCHANGED <<file, header, cancelled, collectorAt>> /\ collectorAt = "collect"
  BY <1>0, <1>1, WorkersWork DEF Register, upload, collecting
<1>5. ASSUME NEW o \in Outcomes, held' = [held EXCEPT ![w] = [row |-> n, outcome |-> o]]
      PROVE  Import!Settle(n, o)
  <2>1. \A m \in RowNumbers, p \in Outcomes : Fate(m, p)' <=> (IF m = n THEN p = o ELSE Fate(m, p))
    BY <1>0, <1>5, RegisteredFates
  <2> QED  BY <1>0, <1>1, <1>2, <1>3, <1>4, <2>1, StepSettles DEF Told
<1>6. e \in Emails => Import!Names(n, e)  BY <1>2 DEF Told
<1>7. Inserted(n, e) => e \in Emails /\ Import!Take(n, e)
  BY <1>6 DEF Inserted, Import!Take, Import!Free
<1>8. CASE Inserted(n, e) /\ held' = [held EXCEPT ![w] = Success(n)] /\ unsure' = unsure
  <2>1. Import!Settle(n, "created")  BY <1>5, <1>8 DEF Success, Outcomes
  <2> QED  BY <1>7, <1>8, <2>1 DEF Import!Create
<1>9. CASE /\ e \in Emails => users[e] # None
           /\ held' = [held EXCEPT ![w] = Failure(n)] /\ UNCHANGED <<users, unsure>>
  <2>1. Import!Settle(n, "failed")  BY <1>5, <1>9 DEF Failure, Outcomes
  <2>2. \A a \in Emails : ~Import!Free(n, a)  BY <1>2, <1>9 DEF Told, Import!Free
  <2> QED  BY <1>9, <2>1, <2>2 DEF Import!Refuse
<1>10. CASE /\ e \in Emails /\ (cancelled \/ "db" \in Faults)
            /\ held' = [held EXCEPT ![w] = Failure(n)]
            /\ unsure' = unsure \cup {n} /\ (Inserted(n, e) \/ UNCHANGED users)
  <2>1. Import!Settle(n, "failed")  BY <1>5, <1>10 DEF Failure, Outcomes
  <2> QED  BY <1>6, <1>7, <1>10, <2>1 DEF Import!Fail
<1> QED  BY <1>8, <1>9, <1>10 DEF Register

\* The summary returned is the count of all fates, and no row that is due lacks one.
LEMMA ReturnReturns ==
  ASSUME ImportInv, ReturnSummary  PROVE Import!Return
<1>0. TypeInv /\ RowsInv /\ SummaryAddsUp /\ DueInv  BY DEF ImportInv
<1>1. /\ \A w \in Workers : worker[w] = "done"
      /\ collectorAt = "collect" /\ collectorAt' = "returned" /\ readerAt = "closed"
      /\ UNCHANGED <<file, header, users, unsure, cancelled, worker, held, summary, reported>>
  BY <1>0, WorkersAssumption DEF ReturnSummary, TypeInv, WorkerOK, upload
<1>2. \A n \in RowNumbers, o \in Outcomes : (Fate(n, o) <=> reported[n] = o) /\ (Fate(n, o)' <=> Fate(n, o))
  BY <1>1 DEF Fate
<1>3. \A n \in RowNumbers : RowFates[n] = reported[n]
  BY <1>0, <1>2 DEF RowFates, FateOf, Outcomes, TypeInv
<1>4. ~cancelled => \A n \in RowNumbers : Import!Due(n) => RowFates[n] # None
  BY <1>0, <1>1, <1>3 DEF DueInv, Placed, Offered, InHand, Sending
<1>5. \A os : Import!Fated(os) = Reported(os)
  BY <1>3 DEF Import!Fated, Import!RowNumbers, RowNumbers, Reported, RowFates
<1>6. summary = [processed |-> Cardinality(Import!Fated(Import!Fates)),
                 succeeded |-> Cardinality(Import!Fated({"created"})),
                 failed |-> Cardinality(Import!Fated({"failed"}))]
  <2>1. summary = [processed |-> summary.processed, succeeded |-> summary.succeeded, failed |-> summary.failed]
    BY <1>0 DEF TypeInv
  <2> QED  BY <1>0, <1>5, <2>1 DEF SummaryAddsUp, Import!Fates, Outcomes
<1>7. RowFates' = RowFates  BY <1>2, FatesStay
<1>8. Answer = None /\ Answer' = summary  BY <1>1 DEF Answer
<1>9. Import!RowNumbers = RowNumbers  BY DEF Import!RowNumbers, RowNumbers
<1>10. \A S : Import!Cardinality(S) = Cardinality(S)
  BY DEF Import!Cardinality, Cardinality
<1> QED  BY <1>1, <1>4, <1>6, <1>7, <1>8, <1>9, <1>10 DEF Import!Return, RowFates, Answer

\* The reader's steps, and those of a worker that settle nothing, are invisible,
\* but for the rest of an upload whose client has gone away.
LEMMA SilentSteps ==
  ASSUME ImportInv,
         \/ Reader \/ CloseResults \/ UNCHANGED vars
         \/ \E w \in Workers : WorkerEnds(w) \/ CollectResult(w) \/ (TakeJob(w) /\ offer.what \notin ErrorJobs)
  PROVE  Import!LoseRest \/ UNCHANGED Import!vars
<1>0. TypeInv /\ RowsInv  BY DEF ImportInv
<1>1. CASE Reader \/ CloseResults \/ UNCHANGED vars
  <2>1. UNCHANGED <<header, users, unsure, cancelled, worker, held, collectorAt, summary, reported>>
    BY <1>1 DEF Reader, ReadHeader, RefuseRest, EndOfFile, ReadRow, CloseResults, vars, upload, collecting
  <2>2. RowFates' = RowFates
    <3>1. \A n \in RowNumbers, o \in Outcomes : Fate(n, o)' <=> Fate(n, o)  BY <2>1 DEF Fate
    <3> QED  BY <3>1, FatesStay
  <2>3. file' = file \/ (cancelled /\ rowsSeen < Len(file) /\ file' = SubSeq(file, 1, rowsSeen))
    BY <1>1 DEF Reader, ReadHeader, RefuseRest, EndOfFile, ReadRow, CloseResults, vars, upload
  <2>4. CASE file' = file  BY <2>1, <2>2, <2>4 DEF Import!vars, RowFates
  <2>5. CASE cancelled /\ rowsSeen < Len(file) /\ file' = SubSeq(file, 1, rowsSeen)
    <3>1. rowsSeen \in 0 .. Len(file)
      BY <1>0, <2>5, LimitAssumption, ReadTypes DEF TypeInv, ReaderOK
    <3> QED  BY <2>1, <2>2, <2>5, <3>1 DEF Import!LoseRest, RowFates
  <2> QED  BY <2>3, <2>4, <2>5
<1>2. ASSUME NEW w \in Workers, WorkerEnds(w) \/ CollectResult(w) \/ (TakeJob(w) /\ offer.what \notin ErrorJobs)
      PROVE  UNCHANGED Import!vars
  <2>1. \A n \in RowNumbers, o \in Outcomes : Fate(n, o)' <=> Fate(n, o)  BY <1>0, <1>2, KeptFates
  <2>2. RowFates' = RowFates  BY <2>1, FatesStay
  <2>3. UNCHANGED <<file, header, users, unsure, cancelled, collectorAt>> /\ Answer' = Answer
    <3>1. worker[w] # "done"  BY <1>2 DEF WorkerEnds, CollectResult, TakeJob
    <3>2. collectorAt = "collect"  BY <1>0, <3>1, WorkersWork
    <3> QED  BY <1>2, <3>2 DEF WorkerEnds, CollectResult, TakeJob, upload, collecting, Answer
  <2> QED  BY <2>2, <2>3 DEF Import!vars, RowFates, Answer
<1> QED  BY <1>1, <1>2

LEMMA OutsideSteps ==
  ASSUME Cancel \/ \E e \in Emails : RegisterElsewhere(e)
  PROVE  Import!Leave \/ \E e \in Emails : Import!RegisterElsewhere(e)
<1>1. /\ UNCHANGED <<file, header, unsure, worker, held, collectorAt, summary, reported>>
      /\ collectorAt = "collect"
  BY DEF Cancel, RegisterElsewhere, upload, collecting
<1>2. \A n \in RowNumbers, o \in Outcomes : Fate(n, o)' <=> Fate(n, o)  BY <1>1 DEF Fate
<1>3. RowFates' = RowFates  BY <1>2, FatesStay
<1> QED  BY <1>1, <1>3 DEF Cancel, RegisterElsewhere, Import!Leave, Import!RegisterElsewhere, RowFates

LEMMA ImportSteps == ImportInv /\ [Next]_vars => [Import!Next]_(Import!vars)
<1> SUFFICES ASSUME ImportInv, [Next]_vars  PROVE Import!Next \/ UNCHANGED Import!vars  OBVIOUS
<1>1. ASSUME NEW w \in Workers, TakeJob(w), offer.what \in ErrorJobs  PROVE Import!Next
  <2>1. Import!Refuse(offer.row)  BY <1>1, TakeRefuses
  <2>2. offer.row \in Import!RowNumbers
    BY <1>1 DEF ImportInv, TypeInv, TakeJob, ReaderOK, Sending, Jobs, RowNumbers, Import!RowNumbers
  <2> QED  BY <2>1, <2>2 DEF Import!Next
<1>2. ASSUME NEW w \in Workers, Register(w)  PROVE Import!Next
  <2>1. \/ Import!Create(held[w].row) \/ Import!Refuse(held[w].row)
        \/ Import!Fail(held[w].row)
    BY <1>2, RegisterSettles
  <2>2. held[w].row \in Import!RowNumbers
    BY <1>2 DEF ImportInv, TypeInv, Register, WorkerOK, Jobs, RowNumbers, Import!RowNumbers
  <2> QED  BY <2>1, <2>2 DEF Import!Next
<1>3. CASE ReturnSummary  BY <1>3, ReturnReturns DEF Import!Next
<1>4. CASE Cancel \/ \E e \in Emails : RegisterElsewhere(e)
  BY <1>4, OutsideSteps DEF Import!Next
<1>5. CASE \/ Reader \/ CloseResults \/ UNCHANGED vars
           \/ \E w \in Workers : WorkerEnds(w) \/ CollectResult(w) \/ (TakeJob(w) /\ offer.what \notin ErrorJobs)
  BY <1>5, SilentSteps DEF Import!Next
<1> QED  BY <1>1, <1>2, <1>3, <1>4, <1>5 DEF Next, Finished, Worker

-----------------------------------------------------------------------------
(* The theorems.                                                              *)

LEMMA ImportInvHolds == Spec => []ImportInv
<1>1. Init => ImportInv
  BY InitTypes, InitRows, InitUsers, InitFile, InitSummary, InitDue DEF ImportInv
<1>2. ImportInv /\ [Next]_vars => ImportInv'
  BY NextTypes, NextRows, NextUsers, NextFile, NextSummary, NextDue DEF ImportInv
<1> QED  BY <1>1, <1>2, PTL DEF Spec

\* The upload, the goroutines, what they hold and what they report keep their types.
THEOREM TypeSafe == Spec => []TypeOK
<1>1. TypeInv => TypeOK  BY DEF TypeInv, ReaderOK, Sending, Rows, TypeOK
<1> QED  BY <1>1, ImportInvHolds, PTL DEF ImportInv

\* With any number of workers, nobody has anything left to send on jobChan or
\* resultChan once it has been closed: the import cannot panic on a closed channel.
THEOREM NobodySendsAfterClose == Spec => []NoSendAfterClose
<1>1. TypeInv => NoSendAfterClose  BY DEF TypeInv, ReaderOK, Sending, NoSendAfterClose
<1> QED  BY <1>1, ImportInvHolds, PTL DEF ImportInv

\* The summary counts every row it reports, and no row twice, however the
\* workers overtake each other.
THEOREM SummaryAlwaysAddsUp == Spec => []SummaryAddsUp
<1> QED  BY ImportInvHolds, PTL DEF ImportInv

\* A row reported as created has created its user, also when two rows of the
\* file or another request want the same address; a row reported as failed has
\* created none, whoever went away, unless its own INSERT (or the reading of its
\* id) ended in an error that is not a duplicate.
THEOREM SummaryAlwaysTellsTheTruth == Spec => []SummaryTellsTheTruth
<1>1. UsersInv => SummaryTellsTheTruth  BY DEF UsersInv, Fate, SummaryTellsTheTruth
<1> QED  BY <1>1, ImportInvHolds, PTL DEF ImportInv

\* When the summary is returned every goroutine has ended and every row read has
\* been reported; unless the client went away the file has been read to its end
\* or to the limit, and every address read is somebody's or its INSERT failed.
THEOREM NothingIsEverLeftBehind == Spec => []NothingLeftBehind
<1>1. ImportInv => NothingLeftBehind
  <2> SUFFICES ASSUME ImportInv, collectorAt = "returned"  PROVE NothingLeftBehind
    BY DEF NothingLeftBehind
  <2>1. (\A w \in Workers : worker[w] = "done") /\ readerAt = "closed"
    BY WorkersAssumption DEF ImportInv, TypeInv, WorkerOK
  <2>2. \A n : ~Offered(n) /\ \A w \in Workers : ~InHand(n, w)
    BY <2>1 DEF Offered, InHand, Sending
  <2>3. \A n \in 2 .. (rowsSeen + 1) : reported[n] # None
    BY <2>2 DEF ImportInv, RowsInv, Placed
  <2>4. ~cancelled /\ header = "good" =>
          /\ rowsSeen >= Len(file) \/ rowsSeen = maxBulkImportRows
          /\ \A i \in 1 .. rowsSeen :
               file[i] \in Emails => users[file[i]] # None \/ i + 1 \in unsure
    BY <2>1, <2>2 DEF ImportInv, FileInv, Served, OnItsWay
  <2> QED  BY <2>1, <2>3, <2>4 DEF NothingLeftBehind
<1> QED  BY <1>1, ImportInvHolds, PTL

\* An import is what Importer says: however many workers overtake each other, each
\* row that is due is created, refused because its address is taken, or fails with
\* the client or with MySQL, once and in one moment, and the caller is handed the
\* counts of all rows of the file.
THEOREM ImportTheorem == Spec => ImplementsImporter
<1>1. Init => Import!Init
  <2> SUFFICES ASSUME Init  PROVE Import!Init  OBVIOUS
  <2>1. \A n \in RowNumbers : FateOf(n) = None
    BY TokensAssumption DEF Init, FateOf, Fate, Outcomes
  <2> QED  BY <2>1 DEF Init, Import!Init, Import!Files, Files, Import!RowNumbers, RowNumbers
<1> QED  BY <1>1, ImportSteps, ImportInvHolds, PTL DEF Spec, ImplementsImporter, Import!Spec
=============================================================================
