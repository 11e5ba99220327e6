-------------------------- MODULE AuditTrailProofs --------------------------
(* Theorems about AuditTrail, for every number of requests, retries, buffer   *)
(* places, events and restarts, and whatever faults strike.                   *)
EXTENDS AuditTrail, SequenceTheorems, TLAPS

USE DEF redis, mysql

-----------------------------------------------------------------------------
(* Sequences and the sets of their elements.                               *)

\* What is appended joins the elements, behind all of them.
LEMMA AppendElements ==
    ASSUME NEW S, NEW s \in Seq(S), NEW e \in S
    PROVE  /\ Append(s, e) \in Seq(S) /\ Len(Append(s, e)) = Len(s) + 1
           /\ \A i \in 1 .. Len(s) : Append(s, e)[i] = s[i]
           /\ Append(s, e)[Len(s) + 1] = e
           /\ ToSet(Append(s, e)) = ToSet(s) \cup {e}
<1>1. /\ Append(s, e) \in Seq(S) /\ Len(Append(s, e)) = Len(s) + 1
      /\ \A i \in 1 .. Len(s) : Append(s, e)[i] = s[i]
      /\ Append(s, e)[Len(s) + 1] = e
  BY AppendProperties
<1>2. DOMAIN s = 1 .. Len(s) /\ DOMAIN Append(s, e) = 1 .. Len(s) + 1 /\ Len(s) \in Nat
  BY <1>1, LenProperties
<1>3. 1 .. Len(s) + 1 = (1 .. Len(s)) \cup {Len(s) + 1}
  BY <1>2
<1> QED
  BY <1>1, <1>2, <1>3 DEF ToSet

\* Head and tail have the elements between them, one place further up.
LEMMA TailElements ==
    ASSUME NEW S, NEW s \in Seq(S), s # <<>>
    PROVE  /\ Tail(s) \in Seq(S) /\ Len(Tail(s)) = Len(s) - 1 /\ Len(s) \in Nat \ {0}
           /\ \A i \in 1 .. Len(Tail(s)) : Tail(s)[i] = s[i + 1]
           /\ Head(s) = s[1] /\ Head(s) \in S
           /\ ToSet(s) = {Head(s)} \cup ToSet(Tail(s))
<1>1. /\ Tail(s) \in Seq(S) /\ Len(Tail(s)) = Len(s) - 1
      /\ \A i \in 1 .. Len(Tail(s)) : Tail(s)[i] = s[i + 1]
      /\ Head(s) \in S
  BY HeadTailProperties
<1>2. Len(s) \in Nat \ {0} /\ Head(s) = s[1]
  BY EmptySeq
<1>3. DOMAIN s = 1 .. Len(s) /\ DOMAIN Tail(s) = 1 .. Len(s) - 1
  BY <1>1, LenProperties
<1>4. ToSet(s) \subseteq {Head(s)} \cup ToSet(Tail(s))
  <2>1. SUFFICES ASSUME NEW i \in 1 .. Len(s)  PROVE s[i] \in {Head(s)} \cup ToSet(Tail(s))
    BY <1>3 DEF ToSet
  <2>2. CASE i = 1
    BY <2>2, <1>2
  <2>3. CASE i # 1
    <3>1. i - 1 \in 1 .. Len(s) - 1 /\ Tail(s)[i - 1] = s[i]
      BY <2>3, <1>1, <1>2
    <3> QED
      BY <3>1, <1>3 DEF ToSet
  <2> QED
    BY <2>2, <2>3
<1>5. {Head(s)} \cup ToSet(Tail(s)) \subseteq ToSet(s)
  <2>1. \A i \in 1 .. Len(s) - 1 : i + 1 \in 1 .. Len(s) /\ Tail(s)[i] = s[i + 1]
    BY <1>1, <1>2
  <2>2. 1 \in 1 .. Len(s)
    BY <1>2
  <2> QED
    BY <2>1, <2>2, <1>2, <1>3 DEF ToSet
<1> QED
  BY <1>1, <1>2, <1>4, <1>5

\* A sequence cut in two has the elements of both parts.
LEMMA CutElements ==
    ASSUME NEW S, NEW s \in Seq(S), NEW n \in 0 .. Len(s)
    PROVE  /\ SubSeq(s, 1, n) \in Seq(S) /\ Len(SubSeq(s, 1, n)) = n
           /\ \A i \in 1 .. n : SubSeq(s, 1, n)[i] = s[i]
           /\ ToSet(s) = ToSet(SubSeq(s, 1, n)) \cup ToSet(SubSeq(s, n + 1, Len(s)))
<1>1. Len(s) \in Nat /\ n \in Int /\ n + 1 \in Int /\ Len(s) \in Int
  BY LenProperties
<1>2. /\ \A i \in 1 .. n : i \in 1 .. Len(s)
      /\ \A i \in n + 1 .. Len(s) : i \in 1 .. Len(s)
  BY <1>1
<1>3. \A i \in 1 .. Len(s) : s[i] \in S
  BY ElementOfSeq
<1>4. /\ SubSeq(s, 1, n) \in Seq(S)
      /\ Len(SubSeq(s, 1, n)) = IF 1 <= n THEN n - 1 + 1 ELSE 0
      /\ \A i \in 1 .. n - 1 + 1 : SubSeq(s, 1, n)[i] = s[1 + i - 1]
  BY <1>1, <1>2, <1>3, SubSeqProperties
<1>5. Len(SubSeq(s, 1, n)) = n /\ \A i \in 1 .. n : SubSeq(s, 1, n)[i] = s[i]
  <2>1. n - 1 + 1 = n /\ (~(1 <= n) => n = 0) /\ \A i \in 1 .. n : 1 + i - 1 = i
    BY <1>1
  <2> QED
    BY <2>1, <1>4
<1>6. SubSeq(s, n + 1, Len(s)) \in Seq(S)
  BY <1>1, <1>2, <1>3, SubSeqProperties
<1>7. SubSeq(s, 1, n) \o SubSeq(s, n + 1, Len(s)) = s
  <2>1. 1 \in 1 .. Len(s) + 1 /\ n \in 1 - 1 .. Len(s) /\ Len(s) \in n .. Len(s)
    BY <1>1
  <2> QED
    BY <2>1, ConcatAdjacentSubSeq, SubSeqFull
<1>8. Range(s) = Range(SubSeq(s, 1, n)) \cup Range(SubSeq(s, n + 1, Len(s)))
  BY <1>4, <1>6, <1>7, RangeConcatenation, Zenon
<1>9. ToSet(s) = ToSet(SubSeq(s, 1, n)) \cup ToSet(SubSeq(s, n + 1, Len(s)))
  BY <1>8, Zenon DEF ToSet, Range
<1> QED
  BY <1>4, <1>5, <1>9, Zenon

-----------------------------------------------------------------------------
(* Type correctness.                                                       *)

\* What Deliver does to the buffer: nothing, or one message more behind it.
LEMMA DeliverTypes ==
    ASSUME TypeOK, NEW m \in Messages, Deliver(m)
    PROVE  /\ buffer' \in Seq(Messages) /\ Len(buffer') <= Capacity
           /\ delivered' \subseteq 1 .. MaxEvents
<1>1. buffer \in Seq(Messages) /\ Len(buffer) <= Capacity /\ delivered \subseteq 1 .. MaxEvents
  BY DEF TypeOK
<1>2. CASE subscribed /\ Len(buffer) < Capacity
  <2>1. Append(buffer, m) \in Seq(Messages) /\ Len(Append(buffer, m)) = Len(buffer) + 1
    BY <1>1, AppendElements
  <2>2. Len(buffer) \in Nat
    BY <1>1, LenProperties
  <2>3. Len(Append(buffer, m)) <= Capacity
    BY <1>2, <2>1, <2>2, BoundsAssumption
  <2>4. {m} \ {0} \subseteq 1 .. MaxEvents
    BY BoundsAssumption DEF Messages
  <2> QED
    BY <1>1, <1>2, <2>1, <2>3, <2>4, Zenon DEF Deliver
<1>3. CASE ~(subscribed /\ Len(buffer) < Capacity)
  BY <1>1, <1>3 DEF Deliver
<1> QED
  BY <1>2, <1>3

\* The worker holds a message while it inserts one, and only then; and it does
\* not run before main has tried to reach Redis.
WorkerOK ==
    /\ held # 0 <=> worker = "inserting"
    /\ phase \in {"off", "connecting"} => worker = "off"
TypeInv == TypeOK /\ WorkerOK

LEMMA ExitTypes == TypeInv /\ Exit => TypeInv'
<1> SUFFICES ASSUME TypeInv, Exit  PROVE TypeInv'
  OBVIOUS
<1>1. table' \in Seq(1 .. MaxEvents) /\ abandoned' \subseteq 1 .. MaxEvents
  BY BoundsAssumption DEF TypeInv, TypeOK, Exit, Messages
<1>2. buffer' \in Seq(Messages) /\ Len(buffer') <= Capacity
  <2>1. buffer' = <<>>
    BY DEF Exit
  <2>2. <<>> \in Seq(Messages) /\ Len(<<>>) = 0
    BY EmptySeq
  <2> QED
    BY <2>1, <2>2, BoundsAssumption
<1>3. 0 \in Messages /\ 0 \in 0 .. MaxRetries
  BY BoundsAssumption DEF Messages
<1>4. WorkerOK'
  BY DEF WorkerOK, Exit
<1> QED
  BY <1>1, <1>2, <1>3, <1>4 DEF TypeInv, TypeOK, Exit, Phases

LEMMA TakeTypes ==
  TypeInv /\ Take /\ worker = "waiting" /\ UNCHANGED <<main, handler, subscribed, redis, mysql, delivered>>
    => TypeInv'
<1> SUFFICES ASSUME TypeInv, Take, worker = "waiting",
                    UNCHANGED <<main, handler, subscribed, redis, mysql, delivered>>
             PROVE  TypeInv'
  OBVIOUS
<1>1. /\ buffer' \in Seq(Messages) /\ Len(buffer') <= Capacity
      /\ Head(buffer) \in Messages
  <2>1. buffer \in Seq(Messages) /\ buffer # <<>> /\ buffer' = Tail(buffer) /\ Len(buffer) <= Capacity
    BY DEF TypeInv, TypeOK, Take
  <2>2. /\ Len(Tail(buffer)) = Len(buffer) - 1 /\ Len(buffer) \in Nat
        /\ Tail(buffer) \in Seq(Messages) /\ Head(buffer) \in Messages
    BY <2>1, TailElements
  <2> QED
    BY <2>1, <2>2, BoundsAssumption
<1>2. worker' \in {"waiting", "inserting"} /\ held' \in Messages /\ WorkerOK'
  BY <1>1 DEF TypeInv, TypeOK, WorkerOK, Take, main
<1>3. reported' \subseteq 1 .. MaxEvents
  <2>1. Head(buffer) # 0 => Head(buffer) \in 1 .. MaxEvents
    BY <1>1, BoundsAssumption DEF Messages
  <2>2. reported \subseteq 1 .. MaxEvents
    BY DEF TypeInv, TypeOK
  <2>3. CASE Head(buffer) # 0 /\ reported' = reported \cup {Head(buffer)}
    BY <2>1, <2>2, <2>3
  <2>4. CASE UNCHANGED reported
    BY <2>2, <2>4
  <2> QED
    BY <2>3, <2>4 DEF Take
<1> QED
  BY <1>1, <1>2, <1>3 DEF TypeInv, TypeOK, main

\* A failing INSERT is given up; the worker waits again.
LEMMA CreateLogFailsTypes == TypeInv /\ CreateLogFails => TypeInv'
<1> SUFFICES ASSUME TypeInv, CreateLogFails  PROVE TypeInv'
  OBVIOUS
<1>1. held \in 1 .. MaxEvents /\ 0 \in Messages
  BY BoundsAssumption DEF TypeInv, TypeOK, WorkerOK, CreateLogFails, Messages
<1>2. WorkerOK'
  BY DEF TypeInv, WorkerOK, CreateLogFails, main
<1> QED
  BY <1>1, <1>2 DEF TypeInv, TypeOK, CreateLogFails, main

\* A message that Redis accepts is one of those sent.
LEMMA AcceptTypes ==
    ASSUME TypeInv, published' = published + 1, Deliver(published + 1),
           onWire' \in Nat, published' + onWire' <= MaxEvents,
           handler' \in [Requests -> {"idle", "working", "publishing"}],
           UNCHANGED <<main, worker, held, subscribed, mysql, reported>>
    PROVE  TypeInv'
<1>1. published + 1 \in Messages /\ onWire' \in Messages
  <2>1. published \in Nat /\ MaxEvents \in Nat
    BY BoundsAssumption DEF TypeInv, TypeOK, Messages
  <2>2. ASSUME NEW p \in Nat, NEW w \in Nat, NEW max \in Nat, p + 1 + w <= max
        PROVE  p + 1 \in 0 .. max /\ w \in 0 .. max
    BY <2>2
  <2> QED
    BY <2>1, <2>2 DEF Messages
<1>2. /\ buffer' \in Seq(Messages) /\ Len(buffer') <= Capacity
      /\ delivered' \subseteq 1 .. MaxEvents
  BY <1>1, DeliverTypes DEF TypeInv
<1>3. TypeOK'
  BY <1>1, <1>2 DEF TypeInv, TypeOK, main
<1> QED
  BY <1>3 DEF TypeInv, WorkerOK, main

LEMMA InitTypes == Init => TypeInv
<1> SUFFICES ASSUME Init  PROVE TypeInv
  OBVIOUS
<1>1. <<>> \in Seq(Messages) /\ <<>> \in Seq(1 .. MaxEvents) /\ Len(<<>>) = 0
  BY EmptySeq
<1>2. /\ 0 \in Messages /\ 0 \in 0 .. MaxRetries /\ 0 \in 0 .. MaxBoots
      /\ 0 <= Capacity /\ 0 + 0 <= MaxEvents
  BY BoundsAssumption DEF Messages
<1>3. buffer \in Seq(Messages) /\ table \in Seq(1 .. MaxEvents) /\ Len(buffer) <= Capacity
  BY <1>1, <1>2 DEF Init
<1> QED
  BY <1>2, <1>3 DEF Init, TypeInv, TypeOK, WorkerOK, Phases

LEMMA NextTypes == TypeInv /\ [Next]_vars => TypeInv'
<1> SUFFICES ASSUME TypeInv, [Next]_vars  PROVE TypeInv'
  OBVIOUS
<1> USE DEF TypeInv, TypeOK, WorkerOK
<1>1. CASE Boot
  <2>1. boots' \in 0 .. MaxBoots
    BY <1>1, BoundsAssumption DEF Boot
  <2> QED
    BY <1>1, <2>1 DEF Boot, audit, Phases
<1>2. CASE InitRedis
  <2>1. tries' \in 0 .. MaxRetries
    BY <1>2, BoundsAssumption DEF InitRedis, Serve
  <2> QED
    BY <1>2, <2>1 DEF InitRedis, Serve, Phases
<1>3. CASE Listen
  BY <1>3 DEF Listen, audit
<1>4. CASE ListenFails \/ DrainTimeout \/ Return \/ Kill
  BY <1>4, ExitTypes DEF ListenFails, DrainTimeout, Return, Kill
<1>5. CASE Signal \/ Drained \/ WorkerStopped \/ WaitTimeout
  BY <1>5 DEF Signal, Drained, WorkerStopped, WaitTimeout, Moves, audit, Phases
<1>6. CASE CloseRedis \/ CloseDB
  BY <1>6 DEF CloseRedis, CloseDB, audit
<1>7. ASSUME NEW r \in Requests, Arrive(r) \/ Work(r)  PROVE TypeInv'
  BY <1>7 DEF Arrive, Work, Step, main, audit
<1>8. ASSUME NEW r \in Requests, PublishEvent(r)  PROVE TypeInv'
  <2>1. handler' \in [Requests -> {"idle", "working", "publishing"}]
    BY <1>8 DEF PublishEvent, Step
  <2>2. CASE /\ published + onWire < MaxEvents /\ onWire' = onWire
             /\ published' = published + 1 /\ Deliver(published + 1)
    <3>1. onWire' \in Nat /\ published' + onWire' <= MaxEvents
      BY <2>2, BoundsAssumption DEF Messages
    <3> QED
      BY <1>8, <2>1, <2>2, <3>1, AcceptTypes DEF PublishEvent
  <2>3. CASE /\ published + onWire < MaxEvents /\ onWire' = onWire + 1
             /\ UNCHANGED <<published, buffer, delivered>>
    <3>1. onWire' \in Messages /\ published' + onWire' <= MaxEvents
      BY <2>3, BoundsAssumption DEF Messages
    <3> QED
      BY <1>8, <2>1, <2>3, <3>1 DEF PublishEvent, main
  <2>4. CASE UNCHANGED <<redis, buffer, delivered>>
    BY <1>8, <2>1, <2>4 DEF PublishEvent, main
  <2> QED
    BY <1>8, <2>2, <2>3, <2>4 DEF PublishEvent
<1>9. CASE PublishNoise
  <2>1. 0 \in Messages
    BY BoundsAssumption DEF Messages
  <2>2. buffer' \in Seq(Messages) /\ Len(buffer') <= Capacity /\ delivered' \subseteq 1 .. MaxEvents
    BY <1>9, <2>1, DeliverTypes DEF PublishNoise
  <2> QED
    BY <1>9, <2>2 DEF PublishNoise, main
<1>10. CASE Subscribe \/ Subscribed
  BY <1>10 DEF Subscribe, Subscribed, main
<1>11. CASE Receive
  BY <1>11, TakeTypes DEF Receive
<1>12. CASE CreateLog
  <2>1. held \in 1 .. MaxEvents /\ 0 \in Messages
    BY <1>12, BoundsAssumption DEF CreateLog, Messages
  <2>2. table' \in Seq(1 .. MaxEvents)
    BY <1>12, <2>1, AppendElements DEF CreateLog
  <2> QED
    BY <1>12, <2>1, <2>2 DEF CreateLog, main
<1>13. CASE CreateLogFails
  BY <1>13, CreateLogFailsTypes
<1>14. CASE WorkerEnds
  <2>1. <<>> \in Seq(Messages) /\ Len(<<>>) = 0
    BY EmptySeq
  <2>2. buffer' \in Seq(Messages) /\ Len(buffer') <= Capacity
    BY <1>14, <2>1, BoundsAssumption DEF WorkerEnds
  <2> QED
    BY <1>14, <2>2 DEF WorkerEnds, main
<1>15. CASE Disconnect
  <2>1. PICK n \in 0 .. Len(buffer) :
          /\ buffer' = SubSeq(buffer, 1, n)
          /\ delivered' = delivered \ ToSet(SubSeq(buffer, n + 1, Len(buffer)))
    BY <1>15 DEF Disconnect
  <2>2. Len(buffer) \in Nat /\ SubSeq(buffer, 1, n) \in Seq(Messages) /\ Len(SubSeq(buffer, 1, n)) = n
    BY CutElements, LenProperties
  <2>3. buffer' \in Seq(Messages) /\ Len(buffer') <= Capacity
    BY <2>1, <2>2, BoundsAssumption
  <2> QED
    BY <1>15, <2>1, <2>3 DEF Disconnect, main
<1>16. CASE AcceptLate
  <2>1. onWire' \in Nat /\ published' + onWire' <= MaxEvents
    BY <1>16, BoundsAssumption DEF AcceptLate, Messages
  <2>2. handler' = handler
    BY <1>16 DEF AcceptLate
  <2> QED
    BY <1>16, <2>1, <2>2, AcceptTypes DEF AcceptLate
<1>17. CASE FinishLate
  <2>1. PICK m \in abandoned : table' = Append(table, m)
    BY <1>17 DEF FinishLate
  <2>2. table' \in Seq(1 .. MaxEvents)
    BY <2>1, AppendElements
  <2> QED
    BY <1>17, <2>2 DEF FinishLate, main, audit
<1>18. CASE UNCHANGED vars
  BY <1>18 DEF vars
<1> QED
  BY <1>1, <1>2, <1>3, <1>4, <1>5, <1>6, <1>7, <1>8, <1>9, <1>10, <1>11, <1>12, <1>13, <1>14, <1>15, <1>16,
     <1>17, <1>18
  DEF Next, Main, Worker

LEMMA TypeInvHolds == Spec => []TypeInv
<1> QED
  BY InitTypes, NextTypes, PTL DEF Spec

\* Type correctness of main, the handlers, the worker, the table and Redis.
THEOREM TypeSafe == Spec => []TypeOK
<1>1. TypeInv => TypeOK
  BY DEF TypeInv
<1> QED
  BY <1>1, TypeInvHolds, PTL

-----------------------------------------------------------------------------
(* The order of the shutdown.                                              *)

LEMMA NextEnds == TypeInv /\ HandlersEndFirst /\ [Next]_vars => HandlersEndFirst'
<1> SUFFICES ASSUME TypeInv, HandlersEndFirst, [Next]_vars, Cancelled', NEW q \in Requests
             PROVE  handler'[q] = "idle"
  BY DEF HandlersEndFirst
<1> USE DEF Cancelled, HandlersEndFirst
<1>1. CASE Boot \/ Listen \/ CloseRedis \/ CloseDB \/ WorkerStopped \/ WaitTimeout
  BY <1>1 DEF Boot, Listen, CloseRedis, CloseDB, WorkerStopped, WaitTimeout, Moves
<1>2. CASE InitRedis
  BY <1>2 DEF InitRedis, Serve
<1>3. CASE Signal
  BY <1>3 DEF Signal, Moves
<1>4. CASE Drained
  BY <1>4 DEF Drained
<1>5. CASE ListenFails \/ DrainTimeout \/ Return \/ Kill
  BY <1>5 DEF ListenFails, DrainTimeout, Return, Kill, Exit
<1>6. ASSUME NEW r \in Requests, Arrive(r) \/ Work(r) \/ PublishEvent(r)  PROVE handler'[q] = "idle"
  BY <1>6 DEF Arrive, Work, PublishEvent, Step, main
<1>7. CASE Worker \/ Subscribed \/ WorkerEnds \/ PublishNoise \/ Disconnect \/ AcceptLate \/ FinishLate
  BY <1>7 DEF AcceptLate, FinishLate, Worker, Subscribe, Receive, CreateLog, CreateLogFails, Subscribed, WorkerEnds,
              PublishNoise, Disconnect, main
<1>8. CASE UNCHANGED vars
  BY <1>8 DEF vars
<1> QED
  BY <1>1, <1>2, <1>3, <1>4, <1>5, <1>6, <1>7, <1>8 DEF Next, Main

\* The worker is told to stop, and the pools are closed, after the last handler.
THEOREM ShutdownTheorem == Spec => []HandlersEndFirst
<1>1. Init => HandlersEndFirst
  BY DEF Init, HandlersEndFirst, Cancelled
<1> QED
  BY <1>1, NextEnds, TypeInvHolds, PTL DEF Spec

-----------------------------------------------------------------------------
(* From the buffer to the table.                                           *)

Accounted == delivered \subseteq ToSet(table) \cup ToSet(buffer) \cup {held} \cup reported

LEMMA AccountedUnchanged ==
    ASSUME DeliveredAreAccountedFor,
           UNCHANGED <<phase, worker, delivered, table, buffer, held, reported>>
    PROVE  DeliveredAreAccountedFor'
BY DEF DeliveredAreAccountedFor, Cancelled, ToSet

LEMMA DeliverAccounted ==
    ASSUME TypeInv, DeliveredAreAccountedFor, NEW m \in Messages, Deliver(m),
           UNCHANGED <<phase, worker, table, held, reported>>
    PROVE  DeliveredAreAccountedFor'
<1>1. CASE buffer' = Append(buffer, m) /\ delivered' = delivered \cup ({m} \ {0})
  <2>1. ToSet(buffer') = ToSet(buffer) \cup {m}
    BY <1>1, AppendElements DEF TypeInv, TypeOK
  <2>2. ToSet(table') = ToSet(table)
    BY DEF ToSet
  <2> QED
    BY <1>1, <2>1, <2>2 DEF DeliveredAreAccountedFor, Cancelled
<1>2. CASE UNCHANGED <<buffer, delivered>>
  BY <1>2, AccountedUnchanged
<1> QED
  BY <1>1, <1>2 DEF Deliver

\* A message that Redis accepts reaches the buffer or nobody.
LEMMA AcceptAccounted ==
    ASSUME TypeInv, DeliveredAreAccountedFor, Next, published' = published + 1,
           Deliver(published + 1), UNCHANGED <<phase, worker, table, held, reported>>
    PROVE  DeliveredAreAccountedFor'
<1>1. published + 1 \in Messages
  BY NextTypes DEF TypeInv, TypeOK
<1> QED
  BY <1>1, DeliverAccounted

LEMMA TakeAccounted == TypeInv /\ DeliveredAreAccountedFor /\ Receive => DeliveredAreAccountedFor'
<1> SUFFICES ASSUME TypeInv, DeliveredAreAccountedFor, Receive  PROVE DeliveredAreAccountedFor'
  OBVIOUS
<1>1. ToSet(buffer) = {Head(buffer)} \cup ToSet(buffer')
  BY TailElements DEF TypeInv, TypeOK, Receive, Take
<1>2. 0 \notin delivered /\ held = 0 /\ ToSet(table') = ToSet(table) /\ delivered' = delivered
  BY DEF TypeInv, TypeOK, WorkerOK, Receive, ToSet
<1>3. Accounted
  BY DEF Receive, DeliveredAreAccountedFor, Accounted
<1>4. Head(buffer) = 0 \/ held' = Head(buffer) \/ reported' = reported \cup {Head(buffer)}
  BY DEF Receive, Take
<1>5. (held' = held \/ held = 0) /\ reported \subseteq reported'
  BY <1>2 DEF Receive, Take
<1>6. Accounted'
  BY <1>1, <1>2, <1>3, <1>4, <1>5 DEF Accounted
<1> QED
  BY <1>6 DEF Accounted, DeliveredAreAccountedFor

LEMMA StoreAccounted ==
    TypeInv /\ DeliveredAreAccountedFor /\ (CreateLog \/ CreateLogFails) => DeliveredAreAccountedFor'
<1> SUFFICES ASSUME TypeInv, DeliveredAreAccountedFor, CreateLog \/ CreateLogFails
             PROVE  DeliveredAreAccountedFor'
  OBVIOUS
<1>1. Accounted /\ delivered' = delivered /\ ToSet(buffer') = ToSet(buffer) /\ 0 \notin delivered
  BY DEF TypeInv, TypeOK, CreateLog, CreateLogFails, DeliveredAreAccountedFor, Accounted, ToSet
<1>2. held \in 1 .. MaxEvents
  BY BoundsAssumption DEF TypeInv, TypeOK, WorkerOK, CreateLog, CreateLogFails, Messages
<1>3. ToSet(Append(table, held)) = ToSet(table) \cup {held}
  <2>1. table \in Seq(1 .. MaxEvents)
    BY DEF TypeInv, TypeOK
  <2>2. PICK S : table \in Seq(S) /\ held \in S
    BY <1>2, <2>1, Zenon
  <2> QED
    BY <2>2, AppendElements
<1>4. CASE CreateLog
  <2>1. ToSet(table') = ToSet(table) \cup {held} /\ reported' = reported
    BY <1>3, <1>4 DEF CreateLog
  <2> QED
    BY <1>1, <2>1 DEF Accounted, DeliveredAreAccountedFor
<1>5. CASE CreateLogFails
  <2>1. ToSet(table') = ToSet(table) /\ reported' = reported \cup {held}
    BY <1>5 DEF CreateLogFails, ToSet
  <2> QED
    BY <1>1, <2>1 DEF Accounted, DeliveredAreAccountedFor
<1> QED
  BY <1>4, <1>5

LEMMA DisconnectAccounted == TypeInv /\ DeliveredAreAccountedFor /\ Disconnect => DeliveredAreAccountedFor'
<1> SUFFICES ASSUME TypeInv, DeliveredAreAccountedFor, Disconnect  PROVE DeliveredAreAccountedFor'
  OBVIOUS
<1>1. PICK n \in 0 .. Len(buffer) :
        /\ buffer' = SubSeq(buffer, 1, n)
        /\ delivered' = delivered \ ToSet(SubSeq(buffer, n + 1, Len(buffer)))
  BY DEF Disconnect
<1>2. ToSet(buffer) = ToSet(buffer') \cup ToSet(SubSeq(buffer, n + 1, Len(buffer)))
  BY <1>1, CutElements DEF TypeInv, TypeOK
<1>3. UNCHANGED <<phase, worker, held, table, reported>> /\ ToSet(table') = ToSet(table)
  BY DEF Disconnect, main, ToSet
<1> QED
  BY <1>1, <1>2, <1>3 DEF DeliveredAreAccountedFor, Cancelled

LEMMA NextAccounted == TypeInv /\ DeliveredAreAccountedFor /\ [Next]_vars => DeliveredAreAccountedFor'
<1> SUFFICES ASSUME TypeInv, DeliveredAreAccountedFor, [Next]_vars  PROVE DeliveredAreAccountedFor'
  OBVIOUS
<1>1. CASE Boot \/ InitRedis \/ Listen \/ Signal \/ Drained \/ WorkerStopped \/ WaitTimeout \/ CloseRedis \/ CloseDB
  <2>1. UNCHANGED <<delivered, table, buffer, held, reported>> /\ (Cancelled => Cancelled' /\ UNCHANGED worker)
    BY <1>1 DEF Boot, InitRedis, Serve, Listen, Signal, Drained, WorkerStopped, WaitTimeout, CloseRedis, CloseDB,
                Moves, audit, Cancelled
  <2> QED
    BY <2>1 DEF DeliveredAreAccountedFor, ToSet
<1>2. CASE ListenFails \/ DrainTimeout \/ Return \/ Kill
  BY <1>2 DEF ListenFails, DrainTimeout, Return, Kill, Exit, DeliveredAreAccountedFor
<1>3. ASSUME NEW r \in Requests, Arrive(r) \/ Work(r)  PROVE DeliveredAreAccountedFor'
  BY <1>3, AccountedUnchanged DEF Arrive, Work, main, audit
<1>4. ASSUME NEW r \in Requests, PublishEvent(r)  PROVE DeliveredAreAccountedFor'
  <2>1. UNCHANGED <<phase, worker, table, held, reported>>
    BY <1>4 DEF PublishEvent, main
  <2>2. CASE published' = published + 1 /\ Deliver(published + 1)
    BY <1>4, <2>1, <2>2, AcceptAccounted DEF Next
  <2>3. CASE UNCHANGED <<buffer, delivered>>
    BY <2>1, <2>3, AccountedUnchanged
  <2> QED
    BY <1>4, <2>2, <2>3 DEF PublishEvent
<1>5. CASE PublishNoise
  <2>1. 0 \in Messages
    BY BoundsAssumption DEF Messages
  <2> QED
    BY <1>5, <2>1, DeliverAccounted DEF PublishNoise, main
<1>6. CASE Subscribe \/ Subscribed
  BY <1>6 DEF Subscribe, Subscribed, main, DeliveredAreAccountedFor, Cancelled, ToSet
<1>7. CASE Receive \/ CreateLog \/ CreateLogFails \/ Disconnect
  BY <1>7, TakeAccounted, StoreAccounted, DisconnectAccounted
<1>8. CASE WorkerEnds
  BY <1>8 DEF WorkerEnds, main, DeliveredAreAccountedFor, Cancelled
<1>9. CASE FinishLate
  <2>1. PICK m \in abandoned : table' = Append(table, m)
    BY <1>9 DEF FinishLate
  <2>2. PICK S : table \in Seq(S) /\ m \in S
    BY <2>1, Zenon DEF TypeInv, TypeOK
  <2>3. ToSet(table') = ToSet(table) \cup {m}
    BY <2>1, <2>2, AppendElements
  <2> QED
    BY <1>9, <2>3 DEF FinishLate, main, audit, DeliveredAreAccountedFor, Cancelled, ToSet
<1>10. CASE UNCHANGED vars
  BY <1>10, AccountedUnchanged DEF vars
<1>11. CASE AcceptLate
  BY <1>11, AcceptAccounted DEF AcceptLate, main, Next
<1> QED
  BY <1>1, <1>2, <1>3, <1>4, <1>5, <1>6, <1>7, <1>8, <1>9, <1>10, <1>11 DEF Next, Main, Worker

\* An event that reached the worker's buffer is stored, waits, or is reported,
\* until the worker has been told to stop and has ended.
THEOREM DeliveryTheorem == Spec => []DeliveredAreAccountedFor
<1>1. Init => DeliveredAreAccountedFor
  BY DEF Init, DeliveredAreAccountedFor
<1> QED
  BY <1>1, NextAccounted, TypeInvHolds, PTL DEF Spec

-----------------------------------------------------------------------------
(* The trail is a history.                                                 *)

\* Behind what was stored or given up comes the message being inserted, and behind
\* that come the messages in the buffer, in their order; none is younger than the
\* last that Redis accepted.
Past == ToSet(table) \cup abandoned
HeldInOrder == held # 0 => held <= published /\ \A m \in Past : m < held
BufferInOrder ==
    /\ \A k \in 1 .. Len(buffer) : buffer[k] # 0 =>
         held < buffer[k] /\ buffer[k] <= published /\ \A m \in Past : m < buffer[k]
    /\ \A k, l \in 1 .. Len(buffer) : k < l /\ buffer[k] # 0 /\ buffer[l] # 0 => buffer[k] < buffer[l]
TableInOrder ==
    /\ \A i, j \in 1 .. Len(table) : i < j =>
         table[i] # table[j] /\ (table[j] < table[i] => table[j] \in abandoned)
    /\ \A m \in Past : m <= published
InOrder == TableInOrder /\ HeldInOrder /\ BufferInOrder

LEMMA Sizes == TypeOK => /\ Len(table) \in Nat /\ Len(buffer) \in Nat /\ published \in Nat /\ held \in Nat
                         /\ \A i \in 1 .. Len(table) : table[i] \in ToSet(table)
                         /\ \A k \in 1 .. Len(buffer) : buffer[k] \in Nat
                         /\ ToSet(table) \subseteq 1 .. MaxEvents /\ Past \subseteq 1 .. MaxEvents
<1> SUFFICES ASSUME TypeOK  PROVE /\ Len(table) \in Nat /\ Len(buffer) \in Nat /\ published \in Nat /\ held \in Nat
                                  /\ \A i \in 1 .. Len(table) : table[i] \in ToSet(table)
                                  /\ \A k \in 1 .. Len(buffer) : buffer[k] \in Nat
                                  /\ ToSet(table) \subseteq 1 .. MaxEvents /\ Past \subseteq 1 .. MaxEvents
  OBVIOUS
<1>1. table \in Seq(1 .. MaxEvents) /\ buffer \in Seq(Messages) /\ held \in Messages /\ published \in Messages
  BY DEF TypeOK
<1>2. Len(table) \in Nat /\ Len(buffer) \in Nat /\ DOMAIN table = 1 .. Len(table)
  BY <1>1, LenProperties
<1>3. \A k \in 1 .. Len(buffer) : buffer[k] \in Messages
  BY <1>1, ElementOfSeq
<1>4. \A i \in 1 .. Len(table) : table[i] \in 1 .. MaxEvents
  BY <1>1, ElementOfSeq
<1>5. Messages \subseteq Nat
  BY BoundsAssumption DEF Messages
<1>6. ToSet(table) \subseteq 1 .. MaxEvents /\ \A i \in 1 .. Len(table) : table[i] \in ToSet(table)
  BY <1>2, <1>4 DEF ToSet
<1> QED
  BY <1>1, <1>2, <1>3, <1>5, <1>6 DEF Past, TypeOK

LEMMA OrderUnchanged ==
    ASSUME InOrder, UNCHANGED <<table, abandoned, held, buffer, published>>
    PROVE  InOrder'
BY DEF InOrder, TableInOrder, HeldInOrder, BufferInOrder, Past, ToSet

\* What goes behind the table is new there, and either the youngest or given up.
LEMMA AppendOrder ==
    ASSUME TypeInv, TableInOrder, NEW m \in 1 .. MaxEvents, m \notin ToSet(table), m <= published,
           m \in abandoned \/ \A e \in ToSet(table) : e < m,
           table' = Append(table, m), UNCHANGED <<abandoned, published>>
    PROVE  TableInOrder' /\ Past' = Past \cup {m}
<1>1. /\ Len(table) \in Nat /\ m \in Nat /\ Past \subseteq Nat
      /\ \A i \in 1 .. Len(table) : table[i] \in ToSet(table) /\ table[i] \in Nat
  BY Sizes, BoundsAssumption DEF TypeInv
<1>2. /\ Len(table') = Len(table) + 1 /\ table'[Len(table) + 1] = m
      /\ \A i \in 1 .. Len(table) : table'[i] = table[i]
      /\ ToSet(table') = ToSet(table) \cup {m}
  <2>1. PICK S : table \in Seq(S) /\ m \in S
    BY Zenon DEF TypeInv, TypeOK
  <2> QED
    BY <2>1, AppendElements
<1>3. Past' = Past \cup {m}
  BY <1>2 DEF Past
<1>4. ASSUME NEW i \in 1 .. Len(table'), NEW j \in 1 .. Len(table'), i < j
      PROVE  table'[i] # table'[j] /\ (table'[j] < table'[i] => table'[j] \in abandoned')
  <2>1. i \in 1 .. Len(table) /\ table'[i] = table[i]
    BY <1>1, <1>2, <1>4
  <2>2. CASE j \in 1 .. Len(table)
    <3>1. table'[j] = table[j]
      BY <1>2, <2>2
    <3> QED
      BY <3>1, <1>4, <2>1, <2>2 DEF TableInOrder
  <2>3. CASE j = Len(table) + 1
    BY <1>1, <1>2, <2>1, <2>3
  <2> QED
    BY <1>1, <1>2, <2>2, <2>3
<1>5. \A e \in Past' : e <= published'
  BY <1>3 DEF TableInOrder
<1> QED
  BY <1>3, <1>4, <1>5 DEF TableInOrder

\* The message a statement inserts leaves the worker's hands: it goes behind the
\* table, or it is given up.
LEMMA StoreOrder ==
    ASSUME TypeInv, InOrder, worker = "inserting",
           \/ table' = Append(table, held) /\ abandoned' = abandoned
           \/ table' = table /\ abandoned' = abandoned \cup {held},
           held' = 0, buffer' \in {buffer, <<>>}, published' = published
    PROVE  InOrder'
<1>1. /\ Len(buffer) \in Nat /\ published \in Nat /\ held \in Nat /\ Past \subseteq Nat
      /\ \A k \in 1 .. Len(buffer) : buffer[k] \in Nat
  BY Sizes, BoundsAssumption DEF TypeInv
<1>2. held # 0 /\ held \in 1 .. MaxEvents /\ held <= published /\ \A m \in Past : m < held
  BY BoundsAssumption DEF TypeInv, TypeOK, WorkerOK, Messages, InOrder, HeldInOrder
<1>3. /\ \A k \in 1 .. Len(buffer') : k \in 1 .. Len(buffer) /\ buffer'[k] = buffer[k]
      /\ Len(buffer') \in Nat
  BY <1>1, EmptySeq
<1>4. TableInOrder' /\ Past' = Past \cup {held}
  <2>1. CASE table' = Append(table, held) /\ abandoned' = abandoned
    <3>1. held \notin ToSet(table) /\ \A e \in ToSet(table) : e < held
      BY <1>1, <1>2 DEF Past
    <3> QED
      BY <1>2, <2>1, <3>1, AppendOrder DEF InOrder
  <2>2. CASE table' = table /\ abandoned' = abandoned \cup {held}
    <3>1. Past' = Past \cup {held}
      BY <2>2 DEF Past, ToSet
    <3> QED
      BY <1>2, <2>2, <3>1 DEF InOrder, TableInOrder
  <2> QED
    BY <2>1, <2>2
<1>5. BufferInOrder'
  <2>1. \A k \in 1 .. Len(buffer') : buffer'[k] # 0 =>
          held' < buffer'[k] /\ buffer'[k] <= published' /\ \A m \in Past' : m < buffer'[k]
    BY <1>1, <1>2, <1>3, <1>4 DEF InOrder, BufferInOrder
  <2>2. \A k, l \in 1 .. Len(buffer') :
           k < l /\ buffer'[k] # 0 /\ buffer'[l] # 0 => buffer'[k] < buffer'[l]
    BY <1>3 DEF InOrder, BufferInOrder
  <2> QED
    BY <2>1, <2>2 DEF BufferInOrder
<1> QED
  BY <1>4, <1>5 DEF InOrder, HeldInOrder

\* A message stored late is older than everything that is still on its way.
LEMMA LateOrder == TypeInv /\ InOrder /\ FinishLate => InOrder'
<1> SUFFICES ASSUME TypeInv, InOrder, FinishLate  PROVE InOrder'
  OBVIOUS
<1>1. PICK m \in abandoned : m \notin ToSet(table) /\ table' = Append(table, m)
  BY DEF FinishLate
<1>2. UNCHANGED <<abandoned, published, held, buffer>>
  BY DEF FinishLate, audit
<1>3. m \in 1 .. MaxEvents /\ m \in Past /\ m <= published
  BY DEF TypeInv, TypeOK, Past, InOrder, TableInOrder
<1>4. TableInOrder' /\ Past' = Past \cup {m}
  BY <1>1, <1>2, <1>3, AppendOrder DEF InOrder
<1>5. Past' = Past
  BY <1>3, <1>4
<1> QED
  BY <1>2, <1>4, <1>5 DEF InOrder, HeldInOrder, BufferInOrder

\* A buffer that is emptied or cut short keeps its order.
LEMMA ShorterOrder ==
    ASSUME InOrder, UNCHANGED <<table, abandoned, held, published>>, Len(buffer) \in Nat,
           NEW n \in 0 .. Len(buffer), Len(buffer') = n, \A k \in 1 .. n : buffer'[k] = buffer[k]
    PROVE  InOrder'
<1>1. \A k \in 1 .. Len(buffer') : k \in 1 .. Len(buffer) /\ buffer'[k] = buffer[k]
  OBVIOUS
<1>2. Past' = Past
  BY DEF Past, ToSet
<1> QED
  BY <1>1, <1>2 DEF InOrder, TableInOrder, HeldInOrder, BufferInOrder

LEMMA ExitOrder == TypeInv /\ InOrder /\ Exit => InOrder'
<1> SUFFICES ASSUME TypeInv, InOrder, Exit  PROVE InOrder'
  OBVIOUS
<1>1. /\ buffer' = <<>> /\ held' = 0 /\ published' = published /\ table' = table
      /\ abandoned' = abandoned \cup ({held} \ {0})
  BY DEF Exit
<1>2. CASE worker = "inserting"
  BY <1>1, <1>2, StoreOrder DEF TypeInv, WorkerOK
<1>3. CASE worker # "inserting"
  <2>1. held = 0 /\ abandoned' = abandoned
    BY <1>1, <1>3 DEF TypeInv, WorkerOK
  <2>2. Len(buffer) \in Nat /\ Len(buffer') = 0
    BY <1>1, Sizes, EmptySeq DEF TypeInv
  <2> QED
    BY <1>1, <2>1, <2>2, ShorterOrder
<1> QED
  BY <1>2, <1>3

\* What is delivered is younger than everything before it.
LEMMA DeliverOrder ==
    ASSUME TypeInv, InOrder, NEW m \in Messages, Deliver(m), UNCHANGED <<table, abandoned, held>>,
           published' \in Nat, published <= published',
           m # 0 => m = published + 1 /\ published' = m
    PROVE  InOrder'
<1>1. /\ Len(buffer) \in Nat /\ published \in Nat /\ held \in Nat /\ Past \subseteq Nat
      /\ \A k \in 1 .. Len(buffer) : buffer[k] \in Nat
  BY Sizes, BoundsAssumption DEF TypeInv
<1>2. Past' = Past
  BY DEF Past, ToSet
<1>3. TableInOrder' /\ HeldInOrder'
  BY <1>1, <1>2 DEF InOrder, TableInOrder, HeldInOrder
<1>4. CASE buffer' = Append(buffer, m)
  <2>1. Len(buffer') = Len(buffer) + 1 /\ buffer'[Len(buffer) + 1] = m
        /\ \A k \in 1 .. Len(buffer) : buffer'[k] = buffer[k]
    BY <1>4, AppendElements DEF TypeInv, TypeOK
  <2>2. m # 0 => held < m /\ m <= published' /\ \A e \in Past : e < m
    BY <1>1 DEF InOrder, TableInOrder, HeldInOrder
  <2>3. m # 0 => \A k \in 1 .. Len(buffer) : buffer[k] # 0 => buffer[k] < m
    BY <1>1 DEF InOrder, BufferInOrder
  <2>4. ASSUME NEW k \in 1 .. Len(buffer'), buffer'[k] # 0
        PROVE  /\ held' < buffer'[k] /\ buffer'[k] <= published'
               /\ \A e \in Past' : e < buffer'[k]
    <3>1. CASE k \in 1 .. Len(buffer)
      <4>1. buffer'[k] = buffer[k] /\ buffer[k] # 0
        BY <2>1, <2>4, <3>1
      <4> QED
        BY <4>1, <1>1, <1>2, <3>1 DEF InOrder, BufferInOrder
    <3>2. CASE k = Len(buffer) + 1
      BY <1>2, <2>1, <2>2, <2>4, <3>2
    <3> QED
      BY <1>1, <2>1, <3>1, <3>2
  <2>5. ASSUME NEW k \in 1 .. Len(buffer'), NEW l \in 1 .. Len(buffer'), k < l, buffer'[k] # 0, buffer'[l] # 0
        PROVE  buffer'[k] < buffer'[l]
    <3>1. k \in 1 .. Len(buffer) /\ buffer'[k] = buffer[k]
      BY <1>1, <2>1, <2>5
    <3>2. CASE l \in 1 .. Len(buffer)
      <4>1. buffer'[l] = buffer[l]
        BY <2>1, <3>2
      <4> QED
        BY <4>1, <2>5, <3>1, <3>2 DEF InOrder, BufferInOrder
    <3>3. CASE l = Len(buffer) + 1
      BY <2>1, <2>3, <2>5, <3>1, <3>3
    <3> QED
      BY <1>1, <2>1, <3>2, <3>3
  <2> QED
    BY <1>3, <2>4, <2>5 DEF InOrder, BufferInOrder
<1>5. CASE UNCHANGED <<buffer, delivered>>
  BY <1>1, <1>2, <1>3, <1>5 DEF InOrder, BufferInOrder
<1> QED
  BY <1>4, <1>5 DEF Deliver

\* A message that Redis accepts, in time or late, is the youngest.
LEMMA AcceptOrder ==
    ASSUME TypeInv, InOrder, Next, published' = published + 1, Deliver(published + 1),
           UNCHANGED <<table, abandoned, held>>
    PROVE  InOrder'
<1>1. published \in Nat /\ published + 1 \in Messages
  BY Sizes, NextTypes DEF TypeInv, TypeOK
<1> QED
  BY <1>1, DeliverOrder

\* The head of the buffer is the oldest message in it.
LEMMA TakeOrder == TypeInv /\ InOrder /\ Receive => InOrder'
<1> SUFFICES ASSUME TypeInv, InOrder, Receive  PROVE InOrder'
  OBVIOUS
<1>1. /\ Len(buffer) \in Nat /\ published \in Nat /\ held = 0 /\ Past \subseteq Nat
      /\ \A k \in 1 .. Len(buffer) : buffer[k] \in Nat
  BY Sizes, BoundsAssumption DEF TypeInv, WorkerOK, Receive
<1>2. UNCHANGED <<table, abandoned, published>> /\ buffer # <<>> /\ buffer' = Tail(buffer)
      /\ (held' = 0 \/ (held' = Head(buffer) /\ Head(buffer) # 0))
  BY <1>1 DEF Receive, Take
<1>3. /\ Len(buffer') = Len(buffer) - 1 /\ Len(buffer) # 0 /\ Head(buffer) = buffer[1]
      /\ \A k \in 1 .. Len(buffer') : buffer'[k] = buffer[k + 1]
  BY <1>2, TailElements DEF TypeInv, TypeOK
<1>4. /\ 1 \in 1 .. Len(buffer)
      /\ \A k \in 1 .. Len(buffer') : k + 1 \in 1 .. Len(buffer) /\ 1 < k + 1 /\ buffer'[k] = buffer[k + 1]
      /\ \A k, l \in 1 .. Len(buffer') : k < l => k + 1 < l + 1
  BY <1>1, <1>3
<1>5. Past' = Past
  BY <1>2 DEF Past, ToSet
<1>6. TableInOrder' /\ HeldInOrder'
  BY <1>2, <1>3, <1>4, <1>5 DEF InOrder, TableInOrder, HeldInOrder, BufferInOrder
<1>7. ASSUME NEW k \in 1 .. Len(buffer'), buffer'[k] # 0
      PROVE  /\ held' < buffer'[k] /\ buffer'[k] <= published'
             /\ \A m \in Past' : m < buffer'[k]
  BY <1>1, <1>2, <1>3, <1>4, <1>5, <1>7 DEF InOrder, BufferInOrder
<1>8. \A k, l \in 1 .. Len(buffer') : k < l /\ buffer'[k] # 0 /\ buffer'[l] # 0 => buffer'[k] < buffer'[l]
  BY <1>4 DEF InOrder, BufferInOrder
<1> QED
  BY <1>6, <1>7, <1>8 DEF InOrder, BufferInOrder

LEMMA NextOrder == TypeInv /\ InOrder /\ [Next]_vars => InOrder'
<1> SUFFICES ASSUME TypeInv, InOrder, [Next]_vars  PROVE InOrder'
  OBVIOUS
<1>1. CASE Boot \/ InitRedis \/ Listen \/ Signal \/ Drained \/ WorkerStopped \/ WaitTimeout \/ CloseRedis \/ CloseDB
  BY <1>1, OrderUnchanged
  DEF Boot, InitRedis, Listen, Signal, Drained, WorkerStopped, WaitTimeout, CloseRedis, CloseDB, Moves, audit
<1>2. CASE ListenFails \/ DrainTimeout \/ Return \/ Kill
  BY <1>2, ExitOrder DEF ListenFails, DrainTimeout, Return, Kill
<1>3. ASSUME NEW r \in Requests, Arrive(r) \/ Work(r)  PROVE InOrder'
  BY <1>3, OrderUnchanged DEF Arrive, Work, audit
<1>4. ASSUME NEW r \in Requests, PublishEvent(r)  PROVE InOrder'
  <2>1. CASE published' = published + 1 /\ Deliver(published + 1)
    BY <1>4, <2>1, AcceptOrder DEF PublishEvent, Next
  <2>2. CASE UNCHANGED <<published, buffer, delivered>>
    BY <1>4, <2>2, OrderUnchanged DEF PublishEvent
  <2> QED
    BY <1>4, <2>1, <2>2 DEF PublishEvent
<1>5. CASE PublishNoise
  <2>1. 0 \in Messages /\ published \in Nat /\ published <= published
    BY BoundsAssumption, Sizes DEF TypeInv, Messages
  <2> QED
    BY <1>5, <2>1, DeliverOrder DEF PublishNoise
<1>6. CASE Subscribe \/ Subscribed
  BY <1>6, OrderUnchanged DEF Subscribe, Subscribed
<1>7. CASE Receive
  BY <1>7, TakeOrder
<1>8. CASE CreateLog \/ CreateLogFails
  BY <1>8, StoreOrder DEF CreateLog, CreateLogFails
<1>9. CASE WorkerEnds
  <2>1. Len(buffer) \in Nat /\ Len(buffer') = 0
    BY <1>9, Sizes, EmptySeq DEF WorkerEnds, TypeInv
  <2> QED
    BY <1>9, <2>1, ShorterOrder DEF WorkerEnds
<1>10. CASE Disconnect
  <2>1. PICK n \in 0 .. Len(buffer) : buffer' = SubSeq(buffer, 1, n)
    BY <1>10 DEF Disconnect
  <2>2. Len(buffer) \in Nat /\ Len(buffer') = n /\ \A k \in 1 .. n : buffer'[k] = buffer[k]
    BY <2>1, Sizes, CutElements DEF TypeInv, TypeOK
  <2> QED
    BY <1>10, <2>2, ShorterOrder DEF Disconnect
<1>11. CASE AcceptLate
  BY <1>11, AcceptOrder DEF AcceptLate, Next
<1>12. CASE FinishLate
  BY <1>12, LateOrder
<1>13. CASE UNCHANGED vars
  BY <1>13, OrderUnchanged DEF vars
<1> QED
  BY <1>1, <1>2, <1>3, <1>4, <1>5, <1>6, <1>7, <1>8, <1>9, <1>10, <1>11, <1>12, <1>13 DEF Next, Main, Worker

LEMMA InitOrder == Init => InOrder
<1> SUFFICES ASSUME Init  PROVE InOrder
  OBVIOUS
<1>1. Len(<<>>) = 0 /\ ToSet(<<>>) = {}
  BY EmptySeq DEF ToSet
<1> QED
  BY <1>1 DEF Init, InOrder, TableInOrder, HeldInOrder, BufferInOrder, Past

\* audit_logs holds every message at most once, over any number of failed
\* statements, PUBLISHes sent again and restarts, and in the order in which Redis
\* accepted them, except for those whose INSERT was given up and executed late.
THEOREM OrderTheorem == Spec => []StoredOnceInOrder
<1>1. TypeInv /\ InOrder => StoredOnceInOrder
  <2> SUFFICES ASSUME TypeInv, InOrder  PROVE ToSet(table) \subseteq 1 .. published
    BY DEF StoredOnceInOrder, InOrder, TableInOrder
  <2> QED
    BY Sizes, BoundsAssumption DEF TypeInv, InOrder, TableInOrder, Past
<1> QED
  BY <1>1, InitOrder, NextOrder, TypeInvHolds, PTL DEF Spec
=============================================================================
