----------------------------- MODULE AuditTrail -----------------------------
(***************************************************************************)
(* The life of the server process and of the audit trail it keeps          *)
(* (cmd/api/main.go, internal/audit): handlers publish events on a Redis   *)
(* channel, one worker goroutine stores them in audit_logs, and main       *)
(* starts and stops both.  The process may be killed and started again;    *)
(* the table and Redis stay.                                               *)
(*                                                                         *)
(* A message is its number in the order in which Redis accepted them; 0 is *)
(* a message on the channel that is not JSON.  An event may be several     *)
(* messages: go-redis sends a PUBLISH that failed again, as often as its   *)
(* option max_retries says.  What a handler does before it publishes is    *)
(* the other modules' subject: here it works, perhaps publishes, and ends. *)
(***************************************************************************)
EXTENDS Naturals, Sequences, SequencesExt

CONSTANTS
    Requests,    \* requests in flight at the same time (bounds concurrency)
    MaxRetries,  \* attempts to reach Redis after the first (5 in main.go)
    Capacity,    \* messages go-redis buffers for the worker (100)
    MaxEvents,   \* bound on the messages ever sent to the channel
    MaxBoots,    \* bound on the times the process is started
    Faults       \* the failures that may strike

ASSUME BoundsAssumption ==
    /\ MaxRetries \in Nat /\ Capacity \in Nat \ {0}
    /\ MaxEvents \in Nat /\ MaxBoots \in Nat
ASSUME FaultsAssumption == Faults \subseteq {"db", "redis", "kill"}

Phases == {"off", "connecting", "serving", "draining", "stopping", "closing"}

VARIABLES
    phase,      \* what main is doing
    boots,      \* times the process was started
    tries,      \* attempts to reach Redis that failed
    connected,  \* InitRedis gave a client
    listening,  \* ListenAndServe has the port
    closed,     \* the pools that main's deferred calls have closed
    handler,    \* handler[r]: what the goroutine of request r is doing
    worker,     \* what the audit worker is doing
    held,       \* the message the worker is inserting, 0 if none
    subscribed, \* Redis knows the worker's subscription
    buffer,     \* the worker's channel: messages received and not yet taken
    published,  \* number of messages Redis has accepted
    onWire,     \* PUBLISHes given up by go-redis that Redis may still execute
    table,      \* audit_logs, in the order of its ids
    abandoned,  \* messages whose INSERT was begun and its end not seen
    delivered,  \* history: messages that reached the buffer of this process
    reported    \* history: messages whose INSERT returned an error, which is logged

main == <<phase, boots, tries, connected, listening, closed>>
audit == <<worker, held, subscribed, buffer, delivered, reported>>
redis == <<published, onWire>>
mysql == <<table, abandoned>>
vars == <<phase, boots, tries, connected, listening, closed, handler,
          worker, held, subscribed, buffer, published, onWire, table, abandoned,
          delivered, reported>>

Init ==
    /\ phase = "off" /\ boots = 0 /\ tries = 0
    /\ connected = FALSE /\ listening = FALSE /\ closed = {}
    /\ handler = [r \in Requests |-> "idle"]
    /\ worker = "off" /\ held = 0 /\ subscribed = FALSE /\ buffer = <<>>
    /\ published = 0 /\ onWire = 0 /\ table = <<>> /\ abandoned = {}
    /\ delivered = {} /\ reported = {}

\* The process is gone, with its goroutines, connections and buffers; MySQL may
\* still execute a statement that was sent.
Exit ==
    /\ phase' = "off" /\ tries' = 0
    /\ connected' = FALSE /\ listening' = FALSE /\ closed' = {}
    /\ handler' = [r \in Requests |-> "idle"]
    /\ worker' = "off" /\ held' = 0 /\ subscribed' = FALSE /\ buffer' = <<>>
    /\ delivered' = {}
    /\ abandoned' = abandoned \cup ({held} \ {0})
    /\ UNCHANGED <<boots, redis, table, reported>>

-----------------------------------------------------------------------------
(* main: start.                                                            *)

\* InitDB ends the process when MySQL does not answer.
Boot ==
    /\ phase = "off" /\ boots < MaxBoots
    /\ boots' = boots + 1
    /\ \/ phase' = "connecting"
       \/ "db" \in Faults /\ UNCHANGED phase
    /\ UNCHANGED <<tries, connected, listening, closed, handler, audit, redis, mysql>>

\* The worker is started if there is a client, the listener in any case.
Serve(client) ==
    /\ phase' = "serving"
    /\ connected' = client
    /\ worker' = IF client THEN "subscribing" ELSE "off"
    /\ UNCHANGED tries

\* Mutant: the count of the attempts starts anew inside the loop.
InitRedis_CountsAnew ==
    /\ phase = "connecting"
    /\ \/ Serve(TRUE)
       \/ "redis" \in Faults /\ tries' = 1 - tries /\ UNCHANGED <<phase, connected, worker>>
    /\ UNCHANGED <<boots, listening, closed, handler, held, subscribed, buffer,
                   redis, mysql, delivered, reported>>

InitRedis ==
    /\ phase = "connecting"
    /\ \/ Serve(TRUE)
       \/ "redis" \in Faults /\ tries = MaxRetries /\ Serve(FALSE)
       \/ /\ "redis" \in Faults /\ tries < MaxRetries /\ tries' = tries + 1
          /\ UNCHANGED <<phase, connected, worker>>
    /\ UNCHANGED <<boots, listening, closed, handler, held, subscribed, buffer,
                   redis, mysql, delivered, reported>>

Listen ==
    /\ phase = "serving" /\ ~listening
    /\ listening' = TRUE
    /\ UNCHANGED <<phase, boots, tries, connected, closed, handler, audit, redis, mysql>>

\* "Failed to start server": log.Fatalf in the goroutine of the listener.
ListenFails == phase = "serving" /\ ~listening /\ Exit

-----------------------------------------------------------------------------
(* Requests.                                                               *)

Step(r, from, to) == handler[r] = from /\ handler' = [handler EXCEPT ![r] = to]

\* While Shutdown waits, a connection accepted before may bring its first request.
Arrive(r) ==
    /\ phase \in {"serving", "draining"} /\ listening
    /\ Step(r, "idle", "working")
    /\ UNCHANGED <<main, audit, redis, mysql>>

\* A request with nothing to announce, or refused, ends here.
Work(r) ==
    /\ Step(r, "working", "idle") \/ Step(r, "working", "publishing")
    /\ UNCHANGED <<main, audit, redis, mysql>>

\* Redis hands a message to those subscribed at this moment, and forgets it.
\* go-redis drops a message the worker has had no room for in a minute.
Deliver(m) ==
    IF subscribed /\ Len(buffer) < Capacity
      THEN /\ buffer' = Append(buffer, m)
           /\ delivered' = delivered \cup ({m} \ {0})
      ELSE UNCHANGED <<buffer, delivered>>

\* PUBLISH: no client, no event.  When the reply does not come go-redis sends it
\* again or gives up, and Redis may execute what was sent at any time; the error is
\* logged and the request goes on.
PublishEvent(r) ==
    /\ \/ /\ connected /\ "redis" \notin closed /\ published + onWire < MaxEvents
          /\ Step(r, "publishing", "idle")
          /\ published' = published + 1 /\ Deliver(published + 1)
          /\ UNCHANGED onWire
       \/ /\ connected /\ "redis" \notin closed /\ published + onWire < MaxEvents
          /\ "redis" \in Faults
          /\ Step(r, "publishing", "idle") \/ Step(r, "publishing", "publishing")
          /\ onWire' = onWire + 1
          /\ UNCHANGED <<published, buffer, delivered>>
       \/ /\ ~connected \/ "redis" \in Faults \/ published + onWire = MaxEvents
          /\ Step(r, "publishing", "idle")
          /\ UNCHANGED <<redis, buffer, delivered>>
    /\ UNCHANGED <<main, worker, held, subscribed, mysql, reported>>

\* Something else writes to the channel: the worker cannot parse it.
PublishNoise ==
    /\ subscribed /\ Len(buffer) < Capacity
    /\ Deliver(0)
    /\ UNCHANGED <<main, handler, worker, held, subscribed, redis, mysql, reported>>

-----------------------------------------------------------------------------
(* The worker.                                                             *)

Cancelled == phase \in {"stopping", "closing"}

\* SUBSCRIBE is sent and not waited for; events published before Redis has it
\* are lost.  With a cancelled context it is never sent.
Subscribe ==
    /\ worker = "subscribing"
    /\ worker' = "waiting"
    /\ UNCHANGED <<main, handler, held, subscribed, buffer, redis, mysql, delivered, reported>>

\* Redis takes the subscription; go-redis asks for it again after a lost connection.
Subscribed ==
    /\ worker \in {"waiting", "inserting"} /\ ~subscribed /\ ~Cancelled
    /\ subscribed' = TRUE
    /\ UNCHANGED <<main, handler, worker, held, buffer, redis, mysql, delivered, reported>>

\* Mutant: a message that cannot be parsed is stored like any other.
Take_NoParse ==
    /\ buffer # <<>>
    /\ buffer' = Tail(buffer)
    /\ worker' = "inserting" /\ held' = Head(buffer)
    /\ UNCHANGED reported

\* A statement is not begun with a cancelled context: it fails at once.
Take ==
    /\ buffer # <<>>
    /\ buffer' = Tail(buffer)
    /\ \/ Head(buffer) = 0 /\ UNCHANGED <<worker, held, reported>>
       \/ /\ Head(buffer) # 0 /\ ~Cancelled
          /\ worker' = "inserting" /\ held' = Head(buffer)
          /\ UNCHANGED reported
       \/ /\ Head(buffer) # 0 /\ Cancelled
          /\ reported' = reported \cup {Head(buffer)}
          /\ UNCHANGED <<worker, held>>

\* Mutant: the next message is taken while the last one is being inserted.
Receive_Early ==
    /\ worker \in {"waiting", "inserting"}
    /\ Take
    /\ UNCHANGED <<main, handler, subscribed, redis, mysql, delivered>>

Receive ==
    /\ worker = "waiting"
    /\ Take
    /\ UNCHANGED <<main, handler, subscribed, redis, mysql, delivered>>

CreateLog ==
    /\ worker = "inserting" /\ "db" \notin closed
    /\ table' = Append(table, held)
    /\ worker' = "waiting" /\ held' = 0
    /\ UNCHANGED <<main, handler, subscribed, buffer, redis, abandoned, delivered, reported>>

\* Mutant: the event is inserted again after an error.
CreateLogFails_Retry ==
    /\ worker = "inserting"
    /\ "db" \in Faults \/ Cancelled
    /\ abandoned' = abandoned \cup {held}
    /\ UNCHANGED <<main, handler, worker, held, subscribed, buffer, redis, table,
                   delivered, reported>>

\* Mutant: the worker returns on an error.
CreateLogFails_Return ==
    /\ worker = "inserting"
    /\ "db" \in Faults \/ Cancelled
    /\ worker' = "ended" /\ held' = 0
    /\ reported' = reported \cup {held} /\ abandoned' = abandoned \cup {held}
    /\ UNCHANGED <<main, handler, subscribed, buffer, redis, table, delivered>>

\* A failed connection, or the context being cancelled, ends the statement for the
\* worker, which logs the error and goes on.  MySQL may have executed it, may yet
\* execute it, or never will.
CreateLogFails ==
    /\ worker = "inserting"
    /\ "db" \in Faults \/ Cancelled
    /\ worker' = "waiting" /\ held' = 0
    /\ reported' = reported \cup {held} /\ abandoned' = abandoned \cup {held}
    /\ UNCHANGED <<main, handler, subscribed, buffer, redis, table, delivered>>

\* select between a message and ctx.Done() picks either: what is still in the
\* buffer when the worker leaves is lost.
WorkerEnds ==
    /\ worker = "waiting" /\ Cancelled
    /\ worker' = "ended"
    /\ subscribed' = FALSE /\ buffer' = <<>>
    /\ UNCHANGED <<main, handler, held, redis, mysql, delivered, reported>>

-----------------------------------------------------------------------------
(* main: shutdown.                                                         *)

Moves(from, to) == phase = from /\ phase' = to /\ UNCHANGED <<boots, tries, connected, listening, closed>>

\* SIGINT or SIGTERM.
Signal == Moves("serving", "draining") /\ UNCHANGED <<handler, audit, redis, mysql>>

\* srv.Shutdown returns, and the worker's context is cancelled.
Drained ==
    /\ \A r \in Requests : handler[r] = "idle"
    /\ Moves("draining", "stopping")
    /\ UNCHANGED <<handler, audit, redis, mysql>>

\* Mutants: the error of Shutdown is logged and no more; Shutdown has no deadline.
DrainTimeout_GoesOn == Moves("draining", "stopping") /\ UNCHANGED <<handler, audit, redis, mysql>>
DrainTimeout_Never == phase = "draining" /\ UNCHANGED vars

\* Five seconds are over: log.Fatalf, without any of the deferred calls.  Shutdown
\* polls, so the last handler may just have ended.
DrainTimeout == phase = "draining" /\ Exit

\* The worker has ended, or was never started; or five seconds are over.
WorkerStopped ==
    /\ worker \in {"off", "ended"}
    /\ Moves("stopping", "closing")
    /\ UNCHANGED <<handler, audit, redis, mysql>>

WaitTimeout ==
    /\ worker \notin {"off", "ended"}
    /\ Moves("stopping", "closing")
    /\ UNCHANGED <<handler, audit, redis, mysql>>

\* Deferred calls run last in, first out: Redis (if there is a client), then
\* the database, then main returns.
CloseRedis ==
    /\ phase = "closing" /\ connected /\ "redis" \notin closed
    /\ closed' = closed \cup {"redis"}
    /\ UNCHANGED <<phase, boots, tries, connected, listening, handler, audit, redis, mysql>>

CloseDB ==
    /\ phase = "closing" /\ "db" \notin closed
    /\ connected => "redis" \in closed
    /\ closed' = closed \cup {"db"}
    /\ UNCHANGED <<phase, boots, tries, connected, listening, handler, audit, redis, mysql>>

Return == phase = "closing" /\ "db" \in closed /\ Exit

-----------------------------------------------------------------------------
(* The environment.                                                        *)

Kill == "kill" \in Faults /\ phase # "off" /\ Exit

\* The connection to Redis breaks: the subscription is gone, with the messages
\* that were on the wire.
Disconnect ==
    /\ "redis" \in Faults /\ subscribed
    /\ subscribed' = FALSE
    /\ \E n \in 0 .. Len(buffer) :
         /\ buffer' = SubSeq(buffer, 1, n)
         /\ delivered' = delivered \ ToSet(SubSeq(buffer, n + 1, Len(buffer)))
    /\ UNCHANGED <<main, handler, worker, held, redis, mysql, reported>>

\* Redis executes a PUBLISH whose sender has given up.
AcceptLate ==
    /\ onWire > 0
    /\ onWire' = onWire - 1
    /\ published' = published + 1 /\ Deliver(published + 1)
    /\ UNCHANGED <<main, handler, worker, held, subscribed, mysql, reported>>

\* MySQL executes an INSERT that nobody waits for any more.
FinishLate ==
    /\ \E m \in abandoned \ ToSet(table) : table' = Append(table, m)
    /\ UNCHANGED <<main, handler, audit, redis, abandoned>>

Main == InitRedis \/ Listen \/ Drained \/ DrainTimeout \/ WorkerStopped \/ WaitTimeout
            \/ CloseRedis \/ CloseDB \/ Return
Worker == Subscribe \/ Receive \/ CreateLog \/ CreateLogFails

Next ==
    \/ Boot \/ Signal \/ Main \/ ListenFails
    \/ \E r \in Requests : Arrive(r) \/ Work(r) \/ PublishEvent(r)
    \/ Worker \/ Subscribed \/ WorkerEnds
    \/ PublishNoise \/ Kill \/ Disconnect \/ AcceptLate \/ FinishLate

Spec == Init /\ [][Next]_vars

\* Main's and the worker's goroutines run and their calls return; timers fire.
\* A handler need not end: MySQL can keep it waiting for longer than main does.
\* Nobody has to start, signal or kill the process.
FairSpec == Spec /\ WF_vars(Main) /\ WF_vars(Worker)

-----------------------------------------------------------------------------
(* Properties.                                                             *)

Messages == 0 .. MaxEvents

\* Types of main's, the handlers' and the worker's state, the table and Redis.
TypeOK ==
    /\ phase \in Phases /\ boots \in 0 .. MaxBoots /\ tries \in 0 .. MaxRetries
    /\ connected \in BOOLEAN /\ listening \in BOOLEAN /\ closed \subseteq {"redis", "db"}
    /\ handler \in [Requests -> {"idle", "working", "publishing"}]
    /\ worker \in {"off", "subscribing", "waiting", "inserting", "ended"}
    /\ held \in Messages /\ subscribed \in BOOLEAN
    /\ buffer \in Seq(Messages) /\ Len(buffer) <= Capacity
    /\ published \in Messages /\ onWire \in Messages /\ published + onWire <= MaxEvents
    /\ table \in Seq(1 .. MaxEvents)
    /\ delivered \subseteq 1 .. MaxEvents /\ reported \subseteq 1 .. MaxEvents
    /\ abandoned \subseteq 1 .. MaxEvents

\* audit_logs has every message at most once, and in the order in which Redis
\* accepted them, whatever process stored them and however often it was restarted.
\* Only a message whose INSERT the worker gave up may come behind younger ones:
\* MySQL executed it late.  (An event whose PUBLISH was sent again is two messages.)
StoredOnceInOrder ==
    /\ \A i, j \in 1 .. Len(table) : i < j =>
         /\ table[i] # table[j]
         /\ table[j] < table[i] => table[j] \in abandoned
    /\ ToSet(table) \subseteq 1 .. published

\* No event is lost on the way from the worker's channel to the table without
\* a trace: as long as the worker runs, and until it is told to stop, a message
\* that reached its buffer is in the table, waiting for it, or reported as failed.
DeliveredAreAccountedFor ==
    (Cancelled /\ worker = "ended") \/ delivered \subseteq ToSet(table) \cup ToSet(buffer) \cup {held} \cup reported

\* The order of the shutdown: the worker is told to stop, and the pools are
\* closed, only when no handler is left that could publish or use them; a
\* handler that does not end costs the process, never a closed pool.
HandlersEndFirst ==
    Cancelled => \A r \in Requests : handler[r] = "idle"

\* A server whose Redis is away starts all the same, without the cache: the
\* attempts to connect come to an end.
StartEnds == phase = "connecting" ~> phase \in {"serving", "off"}

\* A signal ends the process, although handlers, the worker and MySQL may all
\* take longer than main waits.
ShutdownEnds == phase = "draining" ~> phase = "off"

\* The worker keeps taking: a message in its buffer does not stay there, whatever
\* became of those before it.
BufferMoves == \A n \in 1 .. MaxEvents : n \in ToSet(buffer) ~> n \notin ToSet(buffer)
=============================================================================
