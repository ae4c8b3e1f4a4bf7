--------------------------- MODULE AgentDispatcher ---------------------------
(***************************************************************************)
(* The agent's command dispatcher (agent/internal/dispatch) together with  *)
(* the duplicate-suppression cache it owns (agent/internal/dedupe).        *)
(*                                                                         *)
(* paho calls HandleMessage from several goroutines at once                *)
(* (SetOrderMatters(false)), so a handler is a small process whose steps   *)
(* are the critical sections of the cache and the non-blocking channel     *)
(* send.  A fixed pool of workers drains the bounded queue.                *)
(*                                                                         *)
(* The broker is the environment: each command may be delivered at any     *)
(* time, any number of times, in any order, or never.  "results" is the    *)
(* set of messages published on the result topic; nothing is removed from  *)
(* it, because the receiver may see each of them late or twice.            *)
(***************************************************************************)
EXTENDS Naturals, Sequences, FiniteSets

CONSTANTS
  Ids,           \* command ids addressed to this device
  Quick,         \* the ids of type ping or collect_facts, which spawn nothing
  Cancelable,    \* the ids a cancel message may name
  Expirable,     \* the ids whose expires_at may pass during a behaviour
  Handlers,      \* goroutines paho runs HandleMessage on
  Workers,       \* cfg.MaxConcurrent workers
  QueueDepth,    \* cfg.QueueDepth
  Capacity,      \* capacity of the dedupe cache
  ExitOutcomes,  \* how an undisturbed execution may end
  MaxDeliveries, \* bound on the messages the broker delivers
  MaxRestarts,   \* bound on process restarts
  None           \* no command / no worker

Accepted == {"queued", "running"}
Outcome  == {"completed", "failed", "timeout", "canceled", "rejected"}

ASSUME AgentAssumption ==
  /\ Quick \subseteq Ids
  /\ Cancelable \subseteq Ids /\ Expirable \subseteq Ids
  /\ ExitOutcomes \subseteq Outcome \ {"canceled"}
  /\ "completed" \in ExitOutcomes   \* exit code 0
  /\ QueueDepth \in Nat \ {0}   \* config.Load replaces values <= 0 by defaults
  /\ Capacity \in Nat \ {0}     \* dedupe.New does the same
  /\ MaxDeliveries \in Nat
  /\ MaxRestarts \in Nat
  /\ None \notin Ids \cup Workers

VARIABLES
  deliveries,   \* messages delivered so far
  received,     \* ids of the commands among them
  expired,      \* ids whose expires_at is past, on this host's clock
  results,      \* [id, status] messages published by the agent
  handler,      \* per goroutine: next step of HandleMessage and its command
  entry,        \* Cache.entries: "none", "running" or the stored outcome
  order,        \* Cache.order
  aged,         \* ids whose entry is older than the cache's ttl
  queue,        \* the buffered channel
  job,          \* per worker: the command being executed
  running,      \* Dispatcher.running: the worker whose context cancel reaches
  interrupted,  \* workers whose command context has been cancelled
  stopping,     \* the daemon's context is done
  restarts,     \* how often the process has been restarted
  \* history
  executed,     \* ids that were ever handed to the executor
  repeated,     \* ids that were handed to the executor more than once
  forgotten     \* ids whose cache entry was dropped by age, capacity or restart

brokerVars  == <<deliveries, received, expired>>
cacheVars   == <<entry, order, aged>>
workerVars  == <<job, running, interrupted>>
processVars == <<stopping, restarts>>
historyVars == <<executed, repeated, forgotten>>
vars == <<brokerVars, results, handler, cacheVars, queue, workerVars,
          processVars, historyVars>>

Message == [id : Ids, status : Accepted \cup Outcome]
Msg(id, status) == [id |-> id, status |-> status]
HandlerSteps == {"idle", "add", "replay", "enqueue", "ack", "busy"}
Idle == [step |-> "idle", id |-> None]

TypeOK ==
  /\ deliveries \in 0..MaxDeliveries
  /\ received \subseteq Ids
  /\ expired \subseteq Expirable
  /\ results \subseteq Message
  /\ handler \in [Handlers -> [step : HandlerSteps, id : Ids \cup {None}]]
  /\ \A h \in Handlers : handler[h].step # "idle" => handler[h].id \in Ids
  /\ entry \in [Ids -> {"none", "running"} \cup Outcome]
  /\ order \in Seq(Ids)
  /\ aged \subseteq Ids
  /\ queue \in Seq(Ids) /\ Len(queue) <= QueueDepth
  /\ job \in [Workers -> Ids \cup {None}]
  /\ running \in [Ids -> Workers \cup {None}]
  /\ interrupted \subseteq Workers
  /\ stopping \in BOOLEAN
  /\ restarts \in 0..MaxRestarts
  /\ executed \subseteq Ids /\ repeated \subseteq Ids /\ forgotten \subseteq Ids

Init ==
  /\ deliveries = 0 /\ received = {} /\ expired = {} /\ results = {}
  /\ handler = [h \in Handlers |-> Idle]
  /\ entry = [id \in Ids |-> "none"] /\ order = <<>> /\ aged = {}
  /\ queue = <<>>
  /\ job = [w \in Workers |-> None]
  /\ running = [id \in Ids |-> None]
  /\ interrupted = {}
  /\ stopping = FALSE /\ restarts = 0
  /\ executed = {} /\ repeated = {} /\ forgotten = {}

-----------------------------------------------------------------------------
(* The dedupe cache.                                                       *)

Known == {id \in Ids : entry[id] # "none"}

\* Ids popped from the front of the order slice after n rounds of evictLocked;
\* a popped id is not in the cache afterwards, whether it was stale or evicted.
Popped(n) == {order[i] : i \in 1..n}

\* evictLocked leaves its loop at the first id that is live, young and within
\* capacity, or when the slice is empty.
EvictStops(n) ==
  \/ n = Len(order)
  \/ LET oldest == order[n + 1]
         kept   == Known \ Popped(n)
     IN  oldest \in kept \ aged /\ Cardinality(kept) < Capacity

\* The number of rounds of the loop.
evictLocked ==
  Cardinality({n \in 0..Len(order) : \A m \in 0..n : ~EvictStops(m)})

\* The position in the order slice that Add gave the current entry of id.
AddedAt(id) == CHOOSE i \in 1..Len(order) :
  order[i] = id /\ \A j \in i..Len(order) : order[j] = id => j = i

\* An entry passes the ttl, never before the entries added earlier.
Age(id) ==
  /\ id \in Known \ aged
  /\ \A j \in Known \ aged : AddedAt(id) <= AddedAt(j)
  /\ aged' = aged \cup {id}
  /\ UNCHANGED <<brokerVars, results, handler, entry, order, queue,
                 workerVars, processVars, historyVars>>

-----------------------------------------------------------------------------
(* HandleMessage.                                                          *)

Goto(h, step) == handler' = [handler EXCEPT ![h].step = step]
Return(h)     == handler' = [handler EXCEPT ![h] = Idle]

\* Mutated: the refusal is logged but not published.
rejectUnsent(id) == UNCHANGED results

reject(id) == results' = results \cup {Msg(id, "rejected")}

Deliver(h, id) ==
  /\ handler[h].step = "idle"
  /\ deliveries < MaxDeliveries
  /\ deliveries' = deliveries + 1
  /\ received' = received \cup {id}

\* The expiry check comes before the duplicate check, so it also answers late
\* copies of commands that have already run.
RejectExpired(h, id) ==
  /\ Deliver(h, id)
  /\ id \in expired
  /\ reject(id)
  /\ UNCHANGED <<expired, handler, cacheVars, queue, workerVars,
                 processVars, historyVars>>

Receive(h, id) ==
  /\ Deliver(h, id)
  /\ id \notin expired
  /\ handler' = [handler EXCEPT ![h] = [step |-> "add", id |-> id]]
  /\ UNCHANGED <<expired, results, cacheVars, queue, workerVars,
                 processVars, historyVars>>

\* Mutated: only a command that is still running counts as a duplicate.
SeenWhileRunning(id, kept) == id \in kept \ aged /\ entry[id] = "running"

\* An entry older than the ttl counts as absent.
Seen(id, kept) == id \in kept \ aged

\* seen.Add: evict, then look the id up.
Add(h) ==
  LET id      == handler[h].id
      n       == evictLocked
      evicted == Known \cap Popped(n)
      kept    == Known \ Popped(n)
      first   == ~Seen(id, kept)
  IN
  /\ handler[h].step = "add"
  /\ entry' = [j \in Ids |-> IF j = id /\ first THEN "running"
                             ELSE IF j \in evicted THEN "none" ELSE entry[j]]
  /\ order' = IF first THEN Append(SubSeq(order, n + 1, Len(order)), id)
                       ELSE SubSeq(order, n + 1, Len(order))
  /\ aged' = (aged \cap kept) \ (IF first THEN {id} ELSE {})
  /\ forgotten' = forgotten \cup evicted
                    \cup (IF first THEN {id} \cap aged ELSE {})
  /\ Goto(h, IF first THEN "enqueue" ELSE "replay")
  /\ UNCHANGED <<brokerVars, results, queue, workerVars, processVars,
                 executed, repeated>>

\* Mutated: a duplicate is always told the command has completed.
AssumeCompleted(id) == {Msg(id, "completed")}

CachedResult(id) == IF entry[id] = "none" THEN {} ELSE {Msg(id, entry[id])}

\* A duplicate is answered from the cache, read in a second critical section.
Replay(h) ==
  /\ handler[h].step = "replay"
  /\ results' = results \cup CachedResult(handler[h].id)
  /\ Return(h)
  /\ UNCHANGED <<brokerVars, cacheVars, queue, workerVars, processVars,
                 historyVars>>

\* Mutated: off by one at the channel's capacity.
RoomForOneMore == Len(queue) <= QueueDepth

HasRoom == Len(queue) < QueueDepth

Enqueue(h) ==
  /\ handler[h].step = "enqueue"
  /\ HasRoom
  /\ queue' = Append(queue, handler[h].id)
  /\ Goto(h, "ack")
  /\ UNCHANGED <<brokerVars, results, cacheVars, workerVars, processVars,
                 historyVars>>

\* A worker may have taken the command, and even answered it, before this.
Acknowledge(h) ==
  /\ handler[h].step = "ack"
  /\ results' = results \cup {Msg(handler[h].id, "queued")}
  /\ Return(h)
  /\ UNCHANGED <<brokerVars, cacheVars, queue, workerVars, processVars,
                 historyVars>>

\* The select took its default branch; Remove is a separate critical section.
QueueFull(h) ==
  /\ handler[h].step = "enqueue"
  /\ ~HasRoom
  /\ Goto(h, "busy")
  /\ UNCHANGED <<brokerVars, results, cacheVars, queue, workerVars,
                 processVars, historyVars>>

\* seen.Remove forgets the id but leaves it in the order slice.
Remove(id) ==
  /\ entry' = [entry EXCEPT ![id] = "none"]
  /\ aged' = aged \ {id}

RejectBusy(h) ==
  LET id == handler[h].id IN
  /\ handler[h].step = "busy"
  /\ Remove(id)
  /\ reject(id)
  /\ Return(h)
  /\ UNCHANGED <<brokerVars, order, queue, workerVars, processVars,
                 historyVars>>

\* A cancel bypasses the queue and reaches only a command that is running; one
\* that finds a command whose outcome is already decided changes nothing.
Cancel(id) ==
  /\ id \in Cancelable
  /\ running[id] # None
  /\ interrupted' = interrupted \cup {running[id]}
  /\ UNCHANGED <<brokerVars, results, handler, cacheVars, queue, job, running,
                 processVars, historyVars>>

-----------------------------------------------------------------------------
(* The worker pool: Start, run, finish.                                    *)

\* Mutated: the cache remembers a success whatever the outcome was.
CompleteAsSuccess(id, outcome) ==
  entry' = [entry EXCEPT ![id] = IF @ = "none" THEN @ ELSE "completed"]

\* seen.Complete: only an entry that is still there is updated.
Complete(id, outcome) ==
  entry' = [entry EXCEPT ![id] = IF @ = "none" THEN @ ELSE outcome]

Take(w) ==
  LET id == Head(queue) IN
  /\ job[w] = None /\ queue # <<>> /\ ~stopping
  /\ queue' = Tail(queue)
  /\ job' = [job EXCEPT ![w] = id]
  /\ running' = [running EXCEPT ![id] = w]
  /\ results' = results \cup (IF id \in Quick THEN {} ELSE {Msg(id, "running")})
  /\ executed' = executed \cup {id}
  /\ repeated' = repeated \cup (executed \cap {id})
  /\ UNCHANGED <<brokerVars, handler, cacheVars, interrupted, processVars,
                 forgotten>>

\* With the daemon's context done the select may still pick the queue; the
\* process is then never spawned and run reports spawn_failed.
TakeWhileStopping(w) ==
  LET id == Head(queue)
      o  == IF id \in Quick THEN "completed" ELSE "rejected"
  IN
  /\ job[w] = None /\ queue # <<>> /\ stopping
  /\ queue' = Tail(queue)
  /\ Complete(id, o)
  /\ results' = results \cup {Msg(id, o)}
       \cup (IF id \in Quick THEN {} ELSE {Msg(id, "running")})
  /\ executed' = executed \cup (IF id \in Quick THEN {id} ELSE {})
  /\ repeated' = repeated \cup (IF id \in Quick THEN executed \cap {id} ELSE {})
  /\ UNCHANGED <<brokerVars, handler, order, aged, job, running, interrupted,
                 processVars, forgotten>>

\* Mutated: a cancelled process is never reaped, so run does not return.
NeverReaped(w) ==
  IF job[w] \in Quick THEN {"completed"}
  ELSE IF w \in interrupted THEN {} ELSE ExitOutcomes

\* How run may end.  A cancelled context wins over the exit code unless the
\* deadline passed first; cancelled early enough, the process is not spawned.
OutcomesOf(w) ==
  IF job[w] \in Quick THEN {"completed"}
  ELSE IF w \in interrupted
       THEN {"canceled", "rejected"} \cup (ExitOutcomes \cap {"timeout"})
       ELSE ExitOutcomes

\* finish: store the outcome, publish it; the deferred Delete drops whatever
\* worker the running map holds for the id.
Finish(w, o) ==
  /\ job[w] # None
  /\ o \in OutcomesOf(w)
  /\ Complete(job[w], o)
  /\ results' = results \cup {Msg(job[w], o)}
  /\ running' = [running EXCEPT ![job[w]] = None]
  /\ job' = [job EXCEPT ![w] = None]
  /\ interrupted' = interrupted \ {w}
  /\ UNCHANGED <<brokerVars, handler, order, aged, queue, processVars,
                 historyVars>>

-----------------------------------------------------------------------------
(* The process: SIGTERM cancels every context; a restart keeps nothing.    *)

Stop ==
  /\ ~stopping
  /\ stopping' = TRUE
  /\ interrupted' = {w \in Workers : job[w] # None}
  /\ UNCHANGED <<brokerVars, results, handler, cacheVars, queue, job, running,
                 restarts, historyVars>>

Restart ==
  /\ restarts < MaxRestarts
  /\ restarts' = restarts + 1
  /\ stopping' = FALSE
  /\ handler' = [h \in Handlers |-> Idle]
  /\ entry' = [id \in Ids |-> "none"] /\ order' = <<>> /\ aged' = {}
  /\ queue' = <<>>
  /\ job' = [w \in Workers |-> None]
  /\ running' = [id \in Ids |-> None]
  /\ interrupted' = {}
  /\ forgotten' = forgotten \cup Known
  /\ UNCHANGED <<brokerVars, results, executed, repeated>>

-----------------------------------------------------------------------------
(* The environment: time passes.                                           *)

Expire(id) ==
  /\ id \in Expirable \ expired
  /\ expired' = expired \cup {id}
  /\ UNCHANGED <<deliveries, received, results, handler, cacheVars, queue, workerVars,
                 processVars, historyVars>>

HandlerStep(h) ==
  \/ Add(h) \/ Replay(h)
  \/ Enqueue(h) \/ Acknowledge(h)
  \/ QueueFull(h) \/ RejectBusy(h)

Next ==
  \/ \E h \in Handlers : HandlerStep(h)
  \/ \E h \in Handlers, id \in Ids : RejectExpired(h, id) \/ Receive(h, id)
  \/ \E w \in Workers : Take(w) \/ TakeWhileStopping(w)
  \/ \E w \in Workers, o \in Outcome : Finish(w, o)
  \/ \E id \in Ids : Age(id) \/ Cancel(id) \/ Expire(id)
  \/ Stop \/ Restart

Spec == Init /\ [][Next]_vars

-----------------------------------------------------------------------------
(* Properties.                                                             *)

\* dedupe.Cache: a command is handed to the executor a second time only if the
\* cache had lost its id (age, capacity, or a restart of the process).
AtMostOnce == repeated \subseteq forgotten

\* A handler that owns id: it added the id and has neither queued nor refused it.
Holds(h, id) ==
  handler[h].step \in {"enqueue", "busy"} /\ handler[h].id = id

Queued(id) == \E i \in 1..Len(queue) : queue[i] = id
Owned(id)  == Queued(id) \/ \E h \in Handlers : Holds(h, id)

\* Add, the send and Take, three critical sections: a command the cache has not
\* lost is owned by one handler or by one place in the queue, never by two; it
\* is in the cache while it is owned and for good once it was executed, and
\* nobody owns it after that.
OneOwner ==
  \A id \in Ids \ forgotten :
    /\ \A g, h \in Handlers : Holds(g, id) /\ Holds(h, id) => g = h
    /\ \A i, j \in 1..Len(queue) : queue[i] = id /\ queue[j] = id => i = j
    /\ \A h \in Handlers : ~(Holds(h, id) /\ Queued(id))
    /\ Owned(id) => entry[id] # "none" /\ id \notin executed
    /\ id \in executed => entry[id] # "none"

Verdicts(id) == {o \in Outcome \ {"rejected"} : Msg(id, o) \in results}

\* finish and the replay of a duplicate: the agent never reports two different
\* verdicts for a command it executed once.
SingleVerdict ==
  \A id \in Ids \ repeated : Cardinality(Verdicts(id)) <= 1

Answered(id) == \E m \in results : m.id = id /\ m.status \in Outcome

\* "Overload: reject loudly": every delivered command gets some answer, unless
\* the process goes away first.
NothingDroppedSilently ==
  \A id \in Ids, n \in 0..MaxRestarts :
    (restarts = n /\ \E h \in Handlers : handler[h].id = id)
      ~> (restarts # n \/ \E m \in results : m.id = id)

\* The worker pool: a queued command is eventually answered with an outcome,
\* unless the daemon is told to stop or dies.
QueuedIsAnswered ==
  \A id \in Ids, n \in 0..MaxRestarts :
    (restarts = n /\ Queued(id))
      ~> (restarts # n \/ stopping \/ Answered(id))

\* HandleMessage, run and finish keep the promise the backend relies on: a
\* verdict on a command only after it was executed, and nothing executed or
\* answered that was not received.
Contract == INSTANCE AgentContract
  WITH ExitOutcomes <- ExitOutcomes \cup {"canceled", "rejected"}
KeepsContract == Contract!Spec

=============================================================================
