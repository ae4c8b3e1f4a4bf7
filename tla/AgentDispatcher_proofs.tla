----------------------- MODULE AgentDispatcher_proofs -----------------------
(***************************************************************************)
(* Type correctness of the dispatcher, its at-most-once guarantee, and     *)
(* that it implements AgentContract, for any number of commands, handlers, *)
(* workers, deliveries and restarts.                                       *)
(***************************************************************************)
EXTENDS AgentDispatcher, FiniteSetTheorems, SequenceTheorems, TLAPS

-----------------------------------------------------------------------------
(* Type correctness.                                                       *)

\* evictLocked pops at most the whole order slice, and what it leaves of the
\* slice still holds command ids.
LEMMA EvictionKeepsAList ==
  ASSUME order \in Seq(Ids)
  PROVE  SubSeq(order, evictLocked + 1, Len(order)) \in Seq(Ids)
<1> DEFINE Rounds == {n \in 0..Len(order) : \A m \in 0..n : ~EvictStops(m)}
<1>1. IsFiniteSet(Rounds)
  <2>1. IsFiniteSet(0..Len(order))
    BY FS_Interval
  <2>. QED
    BY <2>1, FS_Subset
<1>2. evictLocked \in Nat
  BY <1>1, FS_CardinalityType DEF evictLocked
<1>. QED
  BY <1>2, SubSeqProperties

\* The channel and the order slice start out empty.
LEMMA EmptyList == <<>> \in Seq(Ids) /\ Len(<<>>) = 0
  OBVIOUS

\* Every critical section of the dispatcher keeps every variable in its type;
\* in particular the channel never holds more than QueueDepth commands.
LEMMA StepKeepsTypes ==
  ASSUME TypeOK, [Next]_vars
  PROVE  TypeOK'
<1>. USE AgentAssumption DEF TypeOK
<1>1. ASSUME NEW h \in Handlers, Add(h) PROVE TypeOK'
  <2>1. SubSeq(order, evictLocked + 1, Len(order)) \in Seq(Ids)
    BY EvictionKeepsAList
  <2>2. handler[h].id \in Ids
    BY <1>1 DEF Add
  <2>3. order' \in Seq(Ids)
    BY <1>1, <2>1, <2>2 DEF Add
  <2>4. entry' \in [Ids -> {"none", "running"} \cup Outcome]
    BY <1>1 DEF Add
  <2>5. aged' \subseteq Ids /\ forgotten' \subseteq Ids
    BY <1>1, <2>2 DEF Add, Known
  <2>6. PICK s \in {"enqueue", "replay"} : Goto(h, s)
    BY <1>1, Zenon DEF Add
  <2>7. /\ handler' \in [Handlers -> [step : HandlerSteps, id : Ids \cup {None}]]
        /\ \A g \in Handlers : handler'[g].step # "idle" => handler'[g].id \in Ids
    <3>1. handler' = [handler EXCEPT ![h].step = s] /\ s \in HandlerSteps
      BY <2>6 DEF Goto, HandlerSteps
    <3>2. \A g \in Handlers : /\ handler[g] \in [step : HandlerSteps, id : Ids \cup {None}]
                             /\ handler'[g].id = handler[g].id
      BY <3>1
    <3>. QED
      BY <2>2, <3>1, <3>2
  <2>. QED
    BY <1>1, <2>3, <2>4, <2>5, <2>7
       DEF Add, brokerVars, workerVars, processVars
<1>2. ASSUME NEW h \in Handlers, Replay(h) PROVE TypeOK'
  BY <1>2 DEF Replay, CachedResult, Msg, Message, Accepted, Return, Idle,
     HandlerSteps, brokerVars, cacheVars, workerVars, processVars, historyVars
<1>3. ASSUME NEW h \in Handlers, Enqueue(h) PROVE TypeOK'
  <2>1. handler[h].id \in Ids
    BY <1>3 DEF Enqueue
  <2>2. queue' \in Seq(Ids) /\ Len(queue') <= QueueDepth
    BY <1>3, <2>1, AppendProperties DEF Enqueue, HasRoom
  <2>3. /\ handler' \in [Handlers -> [step : HandlerSteps, id : Ids \cup {None}]]
        /\ \A g \in Handlers : handler'[g].step # "idle" => handler'[g].id \in Ids
    <3>1. Goto(h, "ack")
      BY <1>3 DEF Enqueue
    <3>. QED
      BY <2>1, <3>1 DEF Goto, HandlerSteps
  <2>. QED
    BY <1>3, <2>2, <2>3
       DEF Enqueue, brokerVars, cacheVars, workerVars, processVars, historyVars
<1>15. ASSUME NEW h \in Handlers, Acknowledge(h) PROVE TypeOK'
  BY <1>15 DEF Acknowledge, Msg, Message, Accepted, Return, Idle,
     HandlerSteps, brokerVars, cacheVars, workerVars, processVars, historyVars
<1>4. ASSUME NEW h \in Handlers, QueueFull(h) PROVE TypeOK'
  BY <1>4 DEF QueueFull, Goto, HandlerSteps,
     brokerVars, cacheVars, workerVars, processVars, historyVars
<1>5. ASSUME NEW h \in Handlers, RejectBusy(h) PROVE TypeOK'
  BY <1>5 DEF RejectBusy, Remove, reject, Msg, Message, Outcome, Return, Idle,
     HandlerSteps, brokerVars, workerVars, processVars, historyVars
<1>6. ASSUME NEW h \in Handlers, NEW id \in Ids, RejectExpired(h, id) PROVE TypeOK'
  BY <1>6 DEF RejectExpired, Deliver, reject, Msg, Message, Outcome,
     cacheVars, workerVars, processVars, historyVars
<1>7. ASSUME NEW h \in Handlers, NEW id \in Ids, Receive(h, id) PROVE TypeOK'
  BY <1>7 DEF Receive, Deliver, HandlerSteps,
     cacheVars, workerVars, processVars, historyVars
<1>8. ASSUME NEW w \in Workers, Take(w) PROVE TypeOK'
  BY <1>8, HeadTailProperties
     DEF Take, Msg, Message, Accepted, brokerVars, cacheVars, processVars
<1>9. ASSUME NEW w \in Workers, TakeWhileStopping(w) PROVE TypeOK'
  BY <1>9, HeadTailProperties
     DEF TakeWhileStopping, Complete, Msg, Message, Accepted, Outcome,
         brokerVars, processVars
<1>10. ASSUME NEW w \in Workers, NEW o \in Outcome, Finish(w, o) PROVE TypeOK'
  BY <1>10 DEF Finish, Complete, Msg, Message, Outcome,
     brokerVars, processVars, historyVars
<1>11. ASSUME NEW id \in Ids, Age(id) \/ Cancel(id) \/ Expire(id) PROVE TypeOK'
  BY <1>11 DEF Age, Cancel, Expire,
     brokerVars, cacheVars, workerVars, processVars, historyVars
<1>12. CASE Stop
  BY <1>12 DEF Stop, brokerVars, cacheVars, historyVars
<1>13. CASE Restart
  <2>1. /\ order' \in Seq(Ids) /\ queue' \in Seq(Ids) /\ Len(queue') <= QueueDepth
    BY <1>13, EmptyList DEF Restart
  <2>2. /\ handler' \in [Handlers -> [step : HandlerSteps, id : Ids \cup {None}]]
        /\ \A g \in Handlers : handler'[g].step = "idle"
    BY <1>13 DEF Restart, Idle, HandlerSteps
  <2>3. /\ entry' \in [Ids -> {"none", "running"} \cup Outcome]
        /\ job' \in [Workers -> Ids \cup {None}]
        /\ running' \in [Ids -> Workers \cup {None}]
    BY <1>13 DEF Restart
  <2>4. restarts' \in 0..MaxRestarts
    BY <1>13 DEF Restart
  <2>6. stopping' \in BOOLEAN
    BY <1>13, Zenon DEF Restart
  <2>5. /\ aged' \subseteq Ids /\ forgotten' \subseteq Ids
        /\ interrupted' \subseteq Workers
        /\ UNCHANGED <<brokerVars, results, executed, repeated>>
    BY <1>13 DEF Restart, Known
  <2>. QED
    BY <2>1, <2>2, <2>3, <2>4, <2>5, <2>6 DEF brokerVars
<1>14. CASE UNCHANGED vars
  BY <1>14 DEF vars, brokerVars, cacheVars, workerVars, processVars, historyVars
<1>. QED
  BY <1>1, <1>2, <1>3, <1>4, <1>5, <1>6, <1>7, <1>8, <1>9, <1>10, <1>11,
     <1>12, <1>13, <1>14, <1>15 DEF Next, HandlerStep

\* A fresh process starts in a state of the right types.
LEMMA InitTypes == Init => TypeOK
<1>. HAVE Init
<1>1. order \in Seq(Ids) /\ queue \in Seq(Ids) /\ Len(queue) <= QueueDepth
  BY EmptyList, AgentAssumption DEF Init
<1>2. /\ handler \in [Handlers -> [step : HandlerSteps, id : Ids \cup {None}]]
      /\ \A g \in Handlers : handler[g].step = "idle"
  BY DEF Init, Idle, HandlerSteps
<1>3. /\ entry \in [Ids -> {"none", "running"} \cup Outcome]
      /\ job \in [Workers -> Ids \cup {None}]
      /\ running \in [Ids -> Workers \cup {None}]
  BY DEF Init
<1>4. deliveries \in 0..MaxDeliveries /\ restarts \in 0..MaxRestarts
  BY AgentAssumption DEF Init
<1>6. stopping \in BOOLEAN
  BY Zenon DEF Init
<1>5. /\ received = {} /\ expired = {} /\ results = {} /\ aged = {} /\ interrupted = {}
      /\ executed = {} /\ repeated = {} /\ forgotten = {}
  BY DEF Init
<1>. QED
  BY <1>1, <1>2, <1>3, <1>4, <1>5, <1>6 DEF TypeOK

\* HandleMessage, the cache and the worker pool: type correctness, for every
\* size of the pool, the queue and the cache.
THEOREM TypeCorrect == Spec => []TypeOK
<1>1. TypeOK /\ [Next]_vars => TypeOK'
  BY StepKeepsTypes
<1>. QED
  BY <1>1, InitTypes, PTL DEF Spec

-----------------------------------------------------------------------------
(* At most once.  AtMostOnce is not inductive: that a worker does not start*)
(* a command twice rests on who may still hand it over, which is OneOwner. *)

\* Steps that neither change what is queued, executed or forgotten, nor make a
\* handler an owner, nor drop a cache entry, keep the owners unique.
LEMMA OwnersFrame ==
  ASSUME OneOwner,
         UNCHANGED <<queue, executed, forgotten>>,
         \A h \in Handlers, id \in Ids : Holds(h, id)' => Holds(h, id),
         \A id \in Ids : entry[id] # "none" => entry'[id] # "none"
  PROVE  OneOwner'
<1>. SUFFICES ASSUME NEW id \in Ids \ forgotten
     PROVE  /\ \A g, h \in Handlers : Holds(g, id)' /\ Holds(h, id)' => g = h
            /\ \A i, j \in 1..Len(queue) : queue[i] = id /\ queue[j] = id => i = j
            /\ \A h \in Handlers : ~(Holds(h, id)' /\ Queued(id)')
            /\ Owned(id)' => entry'[id] # "none" /\ id \notin executed
            /\ id \in executed => entry'[id] # "none"
  BY DEF OneOwner
<1>1. Queued(id)' <=> Queued(id)
  BY DEF Queued
<1>2. Owned(id)' => Owned(id)
  BY <1>1, Zenon DEF Owned
<1>. QED
  BY <1>1, <1>2, Zenon DEF OneOwner

\* seen.Add makes its caller the owner of an id that nobody owned, and evicts
\* only ids that it also adds to forgotten.
LEMMA AddKeepsOwners ==
  ASSUME TypeOK, OneOwner, NEW h \in Handlers, Add(h)
  PROVE  OneOwner'
<1> DEFINE c == handler[h].id
           n == evictLocked
           kept == Known \ Popped(n)
           first == ~Seen(c, kept)
<1>1. /\ handler[h].step = "add"
      /\ entry' = [j \in Ids |-> IF j = c /\ first THEN "running"
                    ELSE IF j \in Known \cap Popped(n) THEN "none" ELSE entry[j]]
      /\ forgotten' = forgotten \cup (Known \cap Popped(n))
                        \cup (IF first THEN {c} \cap aged ELSE {})
      /\ handler' = [handler EXCEPT ![h].step = IF first THEN "enqueue" ELSE "replay"]
      /\ UNCHANGED <<queue, executed>>
  BY DEF Add, Goto
<1>2. handler \in [Handlers -> [step : HandlerSteps, id : Ids \cup {None}]] /\ c \in Ids
  BY <1>1 DEF TypeOK
<1>. HIDE DEF first, n
<1>3. ASSUME NEW g \in Handlers, NEW id \in Ids
      PROVE  Holds(g, id)' <=> IF g = h THEN first /\ id = c ELSE Holds(g, id)
  BY <1>1, <1>2 DEF Holds
<1>4. ~Holds(h, c)
  BY <1>1 DEF Holds
<1>5. ASSUME NEW id \in Ids \ forgotten'
      PROVE  /\ id \notin forgotten
             /\ entry[id] # "none" => entry'[id] # "none"
             /\ id = c /\ first => entry[id] = "none" /\ entry'[id] # "none"
  <2>1. id \in Ids \ forgotten /\ id \notin Known \cap Popped(n)
    BY <1>1
  <2>2. entry'[id] = IF id = c /\ first THEN "running" ELSE entry[id]
    BY <1>1, <2>1
  <2>3. CASE id = c /\ first
    <3>1. id \notin aged /\ id \notin kept \ aged
      BY <1>1, <2>3 DEF first, Seen
    <3>2. id \notin Known
      BY <2>1, <3>1
    <3>. QED
      BY <2>1, <2>2, <2>3, <3>2 DEF Known
  <2>. QED
    BY <2>1, <2>2, <2>3
<1>6. \A id \in Ids : Queued(id)' <=> Queued(id)
  BY <1>1 DEF Queued
<1>. SUFFICES ASSUME NEW id \in Ids \ forgotten'
     PROVE  /\ \A g, k \in Handlers : Holds(g, id)' /\ Holds(k, id)' => g = k
            /\ \A i, j \in 1..Len(queue') : queue'[i] = id /\ queue'[j] = id => i = j
            /\ \A g \in Handlers : ~(Holds(g, id)' /\ Queued(id)')
            /\ Owned(id)' => entry'[id] # "none" /\ id \notin executed'
            /\ id \in executed' => entry'[id] # "none"
  BY DEF OneOwner
<1>7. CASE id = c /\ first
  <2>1. entry[id] = "none" /\ entry'[id] # "none" /\ id \in Ids \ forgotten
    BY <1>5, <1>7
  <2>2. ~Owned(id) /\ id \notin executed
    BY <2>1 DEF OneOwner
  <2>. QED
    BY <1>1, <1>3, <1>6, <1>7, <2>1, <2>2 DEF OneOwner, Owned
<1>8. CASE ~(id = c /\ first)
  <2>1. id \in Ids \ forgotten /\ (entry[id] # "none" => entry'[id] # "none")
    BY <1>5
  <2>2. \A g \in Handlers : Holds(g, id)' => Holds(g, id)
    BY <1>3, <1>8
  <2>3. Owned(id)' => Owned(id)
    BY <1>6, <2>2 DEF Owned
  <2>. QED
    BY <1>1, <1>6, <2>1, <2>2, <2>3 DEF OneOwner
<1>. QED
  BY <1>7, <1>8

\* The non-blocking send moves an id from its handler to the end of the queue.
LEMMA EnqueueKeepsOwners ==
  ASSUME TypeOK, OneOwner, NEW h \in Handlers, Enqueue(h)
  PROVE  OneOwner'
<1> DEFINE c == handler[h].id
<1>1. /\ handler[h].step = "enqueue" /\ Holds(h, c)
      /\ queue' = Append(queue, c) /\ handler' = [handler EXCEPT ![h].step = "ack"]
      /\ UNCHANGED <<entry, executed, forgotten>>
  BY DEF Enqueue, Goto, Holds, cacheVars, historyVars
<1>2. handler \in [Handlers -> [step : HandlerSteps, id : Ids \cup {None}]]
  BY DEF TypeOK
<1>3. /\ queue \in Seq(Ids) /\ c \in Ids
      /\ Len(queue') = Len(queue) + 1
      /\ \A i \in 1..Len(queue) : queue'[i] = queue[i]
      /\ queue'[Len(queue) + 1] = c
  BY <1>1, AppendProperties DEF TypeOK
<1>4. ASSUME NEW g \in Handlers, NEW id \in Ids
      PROVE  Holds(g, id)' <=> g # h /\ Holds(g, id)
  BY <1>1, <1>2 DEF Holds
<1>5. \A id \in Ids : Queued(id)' <=> Queued(id) \/ id = c
  BY <1>3 DEF Queued
<1>. SUFFICES ASSUME NEW id \in Ids \ forgotten
     PROVE  /\ \A g, k \in Handlers : Holds(g, id)' /\ Holds(k, id)' => g = k
            /\ \A i, j \in 1..Len(queue') : queue'[i] = id /\ queue'[j] = id => i = j
            /\ \A g \in Handlers : ~(Holds(g, id)' /\ Queued(id)')
            /\ Owned(id)' => entry[id] # "none" /\ id \notin executed
            /\ id \in executed => entry[id] # "none"
  BY <1>1 DEF OneOwner
<1>6. Owned(id)' => Owned(id)
  BY <1>1, <1>4, <1>5 DEF Owned
<1>7. CASE id = c
  <2>1. ~Queued(id) /\ \A g \in Handlers : Holds(g, id) => g = h
    BY <1>1, <1>7 DEF OneOwner
  <2>2. \A i \in 1..Len(queue') : queue'[i] = id => i = Len(queue) + 1
    BY <1>3, <2>1 DEF Queued
  <2>. QED
    BY <1>4, <1>6, <2>1, <2>2 DEF OneOwner
<1>8. CASE id # c
  <2>1. \A i \in 1..Len(queue') : queue'[i] = id => i \in 1..Len(queue) /\ queue[i] = id
    BY <1>3, <1>8
  <2>. QED
    BY <1>4, <1>5, <1>6, <1>8, <2>1 DEF OneOwner
<1>. QED
  BY <1>7, <1>8

\* A busy refusal removes from the cache an id that only its handler owned and
\* that was never executed.
LEMMA RejectBusyKeepsOwners ==
  ASSUME TypeOK, OneOwner, NEW h \in Handlers, RejectBusy(h)
  PROVE  OneOwner'
<1> DEFINE c == handler[h].id
<1>1. /\ Holds(h, c)
      /\ entry' = [entry EXCEPT ![c] = "none"]
      /\ handler' = [handler EXCEPT ![h] = Idle]
      /\ UNCHANGED <<queue, executed, forgotten>>
  BY DEF RejectBusy, Remove, Return, Holds, historyVars
<1>2. /\ handler \in [Handlers -> [step : HandlerSteps, id : Ids \cup {None}]]
      /\ entry \in [Ids -> {"none", "running"} \cup Outcome]
  BY DEF TypeOK
<1>3. ASSUME NEW g \in Handlers, NEW id \in Ids
      PROVE  Holds(g, id)' <=> g # h /\ Holds(g, id)
  BY <1>1, <1>2 DEF Holds, Idle
<1>4. \A id \in Ids : Queued(id)' <=> Queued(id)
  BY <1>1 DEF Queued
<1>. SUFFICES ASSUME NEW id \in Ids \ forgotten
     PROVE  /\ \A g, k \in Handlers : Holds(g, id)' /\ Holds(k, id)' => g = k
            /\ \A i, j \in 1..Len(queue) : queue[i] = id /\ queue[j] = id => i = j
            /\ \A g \in Handlers : ~(Holds(g, id)' /\ Queued(id)')
            /\ Owned(id)' => entry'[id] # "none" /\ id \notin executed
            /\ id \in executed => entry'[id] # "none"
  BY <1>1 DEF OneOwner
<1>5. CASE id = c
  <2>1. /\ ~Queued(id) /\ id \notin executed
        /\ \A g \in Handlers : Holds(g, id) => g = h
    BY <1>1, <1>5 DEF OneOwner, Owned
  <2>. QED
    BY <1>3, <1>4, <2>1 DEF OneOwner, Owned
<1>6. CASE id # c
  <2>1. entry'[id] = entry[id]
    BY <1>1, <1>2, <1>6
  <2>2. Owned(id)' => Owned(id)
    BY <1>3, <1>4 DEF Owned
  <2>. QED
    BY <1>3, <1>4, <2>1, <2>2 DEF OneOwner
<1>. QED
  BY <1>5, <1>6

\* A worker that receives the head of the queue ends its ownership.
LEMMA DequeueKeepsOwners ==
  ASSUME TypeOK, OneOwner, queue # <<>>,
         queue' = Tail(queue),
         executed' \subseteq executed \cup {Head(queue)},
         UNCHANGED <<handler, forgotten>>,
         \A id \in Ids : entry[id] # "none" => entry'[id] # "none"
  PROVE  OneOwner'
<1> DEFINE c == Head(queue)
<1>1. /\ queue \in Seq(Ids) /\ Len(queue) \in Nat /\ 1 \in 1..Len(queue) /\ c = queue[1]
      /\ Len(queue') = Len(queue) - 1
      /\ \A i \in 1..Len(queue') : i + 1 \in 1..Len(queue) /\ queue'[i] = queue[i + 1]
  BY HeadTailProperties DEF TypeOK
<1>2. \A h \in Handlers, id \in Ids : Holds(h, id)' <=> Holds(h, id)
  BY DEF Holds
<1>3. \A id \in Ids : Queued(id)' => Queued(id)
  BY <1>1 DEF Queued
<1>. SUFFICES ASSUME NEW id \in Ids \ forgotten
     PROVE  /\ \A g, h \in Handlers : Holds(g, id)' /\ Holds(h, id)' => g = h
            /\ \A i, j \in 1..Len(queue') : queue'[i] = id /\ queue'[j] = id => i = j
            /\ \A h \in Handlers : ~(Holds(h, id)' /\ Queued(id)')
            /\ Owned(id)' => entry'[id] # "none" /\ id \notin executed'
            /\ id \in executed' => entry'[id] # "none"
  BY DEF OneOwner
<1>4. \A i, j \in 1..Len(queue') : queue'[i] = id /\ queue'[j] = id => i = j
  <2>1. \A i, j \in 1..Len(queue) : queue[i] = id /\ queue[j] = id => i = j
    BY DEF OneOwner
  <2>. QED
    BY <1>1, <2>1
<1>5. Owned(id)' => Owned(id)
  BY <1>2, <1>3, Zenon DEF Owned
<1>6. CASE id = c
  <2>1. Queued(id) /\ Owned(id)
    BY <1>1, <1>6 DEF Queued, Owned
  <2>2. \A i, j \in 1..Len(queue) : queue[i] = id /\ queue[j] = id => i = j
    BY DEF OneOwner
  <2>3. ~Queued(id)'
    BY <1>1, <1>6, <2>2 DEF Queued
  <2>4. \A h \in Handlers : ~Holds(h, id)
    BY <2>1 DEF OneOwner
  <2>5. ~Owned(id)' /\ entry'[id] # "none"
    BY <1>2, <2>1, <2>3, <2>4 DEF Owned, OneOwner
  <2>. QED
    BY <1>2, <1>4, <2>3, <2>4, <2>5
<1>7. CASE id # c
  BY <1>2, <1>3, <1>4, <1>5, <1>7 DEF OneOwner
<1>. QED
  BY <1>6, <1>7

\* The owners of every command stay unique in every step of the dispatcher.
LEMMA StepKeepsOwners ==
  ASSUME TypeOK, OneOwner, [Next]_vars
  PROVE  OneOwner'
<1>1. ASSUME NEW h \in Handlers, Add(h) \/ Enqueue(h) \/ RejectBusy(h) PROVE OneOwner'
  BY <1>1, AddKeepsOwners, EnqueueKeepsOwners, RejectBusyKeepsOwners
<1>2. ASSUME NEW h \in Handlers, Replay(h) \/ Acknowledge(h) PROVE OneOwner'
  <2>1. \A g \in Handlers, id \in Ids : Holds(g, id)' => Holds(g, id)
    BY <1>2 DEF Replay, Acknowledge, Return, Holds, Idle, TypeOK
  <2>. QED
    BY <1>2, <2>1, OwnersFrame DEF Replay, Acknowledge, cacheVars, historyVars
<1>3. ASSUME NEW h \in Handlers, QueueFull(h) PROVE OneOwner'
  <2>1. \A g \in Handlers, id \in Ids : Holds(g, id)' => Holds(g, id)
    BY <1>3 DEF QueueFull, Goto, Holds, TypeOK
  <2>. QED
    BY <1>3, <2>1, OwnersFrame DEF QueueFull, cacheVars, historyVars
<1>4. ASSUME NEW h \in Handlers, NEW c \in Ids, Receive(h, c) PROVE OneOwner'
  <2>1. \A g \in Handlers, id \in Ids : Holds(g, id)' => Holds(g, id)
    BY <1>4 DEF Receive, Holds, TypeOK
  <2>. QED
    BY <1>4, <2>1, OwnersFrame DEF Receive, cacheVars, historyVars
<1>5. ASSUME NEW h \in Handlers, NEW c \in Ids, RejectExpired(h, c) PROVE OneOwner'
  BY <1>5, OwnersFrame DEF RejectExpired, cacheVars, historyVars, Holds
<1>6. ASSUME NEW w \in Workers, Take(w) PROVE OneOwner'
  BY <1>6, DequeueKeepsOwners DEF Take, cacheVars
<1>7. ASSUME NEW w \in Workers, TakeWhileStopping(w) PROVE OneOwner'
  <2>1. \A id \in Ids : entry[id] # "none" => entry'[id] # "none"
    BY <1>7 DEF TakeWhileStopping, Complete, TypeOK
  <2>2. executed' \subseteq executed \cup {Head(queue)}
    BY <1>7 DEF TakeWhileStopping
  <2>. QED
    BY <1>7, <2>1, <2>2, DequeueKeepsOwners DEF TakeWhileStopping
<1>8. ASSUME NEW w \in Workers, NEW o \in Outcome, Finish(w, o) PROVE OneOwner'
  <2>1. \A id \in Ids : entry[id] # "none" => entry'[id] # "none"
    BY <1>8 DEF Finish, Complete, Outcome, TypeOK
  <2>. QED
    BY <1>8, <2>1, OwnersFrame DEF Finish, historyVars, Holds
<1>9. ASSUME NEW id \in Ids, Age(id) \/ Cancel(id) \/ Expire(id) PROVE OneOwner'
  BY <1>9, OwnersFrame DEF Age, Cancel, Expire, cacheVars, historyVars, Holds
<1>10. CASE Stop
  BY <1>10, OwnersFrame DEF Stop, cacheVars, historyVars, Holds
<1>11. CASE Restart
  <2>1. \A h \in Handlers, id \in Ids : ~Holds(h, id)'
    BY <1>11 DEF Restart, Idle, Holds
  <2>2. \A id \in Ids : ~Queued(id)'
    BY <1>11, EmptyList DEF Restart, Queued
  <2>3. \A i, j \in 1..Len(queue') : i = j
    BY <1>11, EmptyList DEF Restart
  <2>4. \A id \in Ids \ forgotten' : id \in Ids \ forgotten /\ id \notin executed'
    BY <1>11 DEF Restart, Known, OneOwner
  <2>. QED
    BY <2>1, <2>2, <2>3, <2>4 DEF OneOwner, Owned
<1>12. CASE UNCHANGED vars
  BY <1>12, OwnersFrame DEF vars, cacheVars, historyVars, Holds
<1>. QED
  BY <1>1, <1>2, <1>3, <1>4, <1>5, <1>6, <1>7, <1>8, <1>9, <1>10, <1>11,
     <1>12 DEF Next, HandlerStep

\* The inductive invariant behind at most once.
IInv == TypeOK /\ OneOwner /\ AtMostOnce

\* A worker starts a command a second time only if the cache had lost its id.
LEMMA StepKeepsAtMostOnce ==
  ASSUME IInv, [Next]_vars
  PROVE  AtMostOnce'
<1>1. ASSUME NEW w \in Workers, Take(w) \/ TakeWhileStopping(w) PROVE AtMostOnce'
  <2>1. /\ queue # <<>> /\ UNCHANGED forgotten
        /\ repeated' \subseteq repeated \cup (executed \cap {Head(queue)})
    BY <1>1 DEF Take, TakeWhileStopping
  <2>2. Head(queue) \in Ids /\ Queued(Head(queue))
    <3>1. queue \in Seq(Ids) /\ 1 \in 1..Len(queue) /\ Head(queue) = queue[1]
      BY <2>1 DEF IInv, TypeOK
    <3>. QED
      BY <3>1 DEF Queued
  <2>3. Head(queue) \in executed => Head(queue) \in forgotten
    BY <2>2 DEF IInv, OneOwner, Owned
  <2>. QED
    BY <2>1, <2>3 DEF IInv, AtMostOnce
<1>2. CASE forgotten \subseteq forgotten' /\ UNCHANGED repeated
  BY <1>2 DEF IInv, AtMostOnce
<1>3. ASSUME NEW h \in Handlers, HandlerStep(h) PROVE AtMostOnce'
  BY <1>2, <1>3
     DEF HandlerStep, Add, Replay, Enqueue, Acknowledge, QueueFull, RejectBusy, historyVars
<1>. QED
  BY <1>1, <1>2, <1>3
     DEF Next, RejectExpired, Receive, Finish, Age, Cancel, Expire,
         Stop, Restart, vars, historyVars

\* HandleMessage and the workers against dedupe.Cache: whatever is delivered,
\* repeated, reordered, aged out, evicted or lost to a restart, every command
\* has one owner at most, and it is executed twice only after the cache lost it.
THEOREM AtMostOnceHolds == Spec => [](OneOwner /\ AtMostOnce)
<1>1. Init => IInv
  <2>. HAVE Init
  <2>1. \A h \in Handlers, id \in Ids : ~Holds(h, id)
    BY DEF Init, Idle, Holds
  <2>2. \A id \in Ids : ~Queued(id)
    BY EmptyList DEF Init, Queued
  <2>3. \A i, j \in 1..Len(queue) : i = j
    BY EmptyList DEF Init
  <2>4. OneOwner
    BY <2>1, <2>2, <2>3 DEF Init, OneOwner, Owned
  <2>. QED
    BY <2>4, InitTypes DEF Init, IInv, AtMostOnce
<1>2. IInv /\ [Next]_vars => IInv'
  BY StepKeepsTypes, StepKeepsOwners, StepKeepsAtMostOnce DEF IInv
<1>3. IInv => OneOwner /\ AtMostOnce
  BY DEF IInv
<1>. QED
  BY <1>1, <1>2, <1>3, PTL DEF Spec

-----------------------------------------------------------------------------
(* The dispatcher implements AgentContract.                                *)

\* What the handlers, the queue, the workers and the cache remember is
\* justified: a command some handler or the queue has was received, a worker's
\* command was executed, and the cache holds a verdict only for a command that
\* was executed.
Causality ==
  /\ \A h \in Handlers : handler[h].step # "idle" => handler[h].id \in received
  /\ \A id \in Ids : Queued(id) => id \in received
  /\ \A w \in Workers : job[w] # None => job[w] \in executed
  /\ \A id \in Ids : entry[id] \in Outcome \ {"rejected"} =>
       id \in executed /\ entry[id] \in ExitOutcomes \cup {"canceled"}

\* The outcome a worker reports is one an execution can have.
LEMMA FinishOutcome ==
  ASSUME NEW w \in Workers, NEW o \in OutcomesOf(w)
  PROVE  o \in ExitOutcomes \cup {"canceled", "rejected"}
  BY AgentAssumption DEF OutcomesOf

\* Steps that only add to received and executed, and neither receive, queue,
\* start nor complete a command, keep the four facts.
LEMMA CausalityFrame ==
  ASSUME Causality, received \subseteq received', executed \subseteq executed',
         \A h \in Handlers : handler'[h].step # "idle" =>
            \/ handler'[h].id \in received'
            \/ handler[h].step # "idle" /\ handler'[h].id = handler[h].id,
         \A id \in Ids : Queued(id)' => Queued(id),
         \A w \in Workers : job'[w] # None => job'[w] \in executed',
         \A id \in Ids : entry'[id] \in {"none", "running", "rejected", entry[id]}
  PROVE  Causality'
<1>1. \A id \in Ids : entry'[id] \in Outcome \ {"rejected"} =>
        id \in executed' /\ entry'[id] \in ExitOutcomes \cup {"canceled"}
  BY DEF Causality, Outcome
<1>2. \A h \in Handlers : handler'[h].step # "idle" => handler'[h].id \in received'
  BY DEF Causality
<1>. QED
  BY <1>1, <1>2 DEF Causality

\* Steps of the workers: the handlers and what was received stay as they are.
LEMMA WorkerCausality ==
  ASSUME Causality, UNCHANGED <<received, handler>>,
         \A id \in Ids : Queued(id)' => Queued(id),
         \A w \in Workers : job'[w] # None => job'[w] \in executed',
         \A id \in Ids : entry'[id] \in Outcome \ {"rejected"} =>
           id \in executed' /\ entry'[id] \in ExitOutcomes \cup {"canceled"}
  PROVE  Causality'
  BY DEF Causality

\* Receiving from the queue leaves only ids that were queued before.
LEMMA TailIsQueued ==
  ASSUME TypeOK, queue # <<>>, queue' = Tail(queue)
  PROVE  /\ Head(queue) \in Ids /\ Queued(Head(queue))
         /\ \A id \in Ids : Queued(id)' => Queued(id)
<1>1. /\ queue \in Seq(Ids) /\ Len(queue) \in Nat
      /\ 1 \in 1..Len(queue) /\ Head(queue) = queue[1]
      /\ \A i \in 1..Len(queue') : i + 1 \in 1..Len(queue) /\ queue'[i] = queue[i + 1]
  BY HeadTailProperties DEF TypeOK
<1>. QED
  BY <1>1 DEF Queued

\* Moving one handler to another step keeps the id it works on.
LEMMA GotoKeepsIds ==
  ASSUME TypeOK, NEW h \in Handlers, handler[h].step # "idle",
         (\E s \in HandlerSteps : Goto(h, s)) \/ Return(h)
  PROVE  \A g \in Handlers : handler'[g].step # "idle" =>
           handler[g].step # "idle" /\ handler'[g].id = handler[g].id
  BY DEF TypeOK, Goto, Return, Idle

\* Every step of the dispatcher keeps the four facts.
LEMMA StepKeepsCausality ==
  ASSUME TypeOK, Causality, [Next]_vars
  PROVE  Causality'
<1>1. ASSUME NEW h \in Handlers, Enqueue(h) PROVE Causality'
  <2> DEFINE c == handler[h].id
  <2>1. /\ queue \in Seq(Ids) /\ c \in Ids /\ c \in received
        /\ queue' = Append(queue, c)
        /\ UNCHANGED <<received, entry, job, executed>>
    BY <1>1 DEF Enqueue, TypeOK, Causality, brokerVars, cacheVars, workerVars, historyVars
  <2>2. \A id \in Ids : Queued(id)' => Queued(id) \/ id = c
    BY <2>1, AppendProperties DEF Queued
  <2>3. \A id \in Ids : Queued(id)' => id \in received'
    BY <2>1, <2>2 DEF Causality
  <2>4. \A g \in Handlers : handler'[g].step # "idle" => handler'[g].id \in received'
    BY <1>1, <2>1, GotoKeepsIds DEF Enqueue, HandlerSteps, Causality
  <2>. QED
    BY <2>1, <2>3, <2>4 DEF Causality
<1>2. ASSUME NEW w \in Workers, Take(w) PROVE Causality'
  <2>1. job' = [job EXCEPT ![w] = Head(queue)] /\ job \in [Workers -> Ids \cup {None}]
    BY <1>2 DEF Take, TypeOK
  <2>2. \A v \in Workers : job'[v] # None => job'[v] \in executed'
    BY <1>2, <2>1 DEF Take, Causality
  <2>3. executed \subseteq executed' /\ UNCHANGED <<received, handler, entry>>
    BY <1>2 DEF Take, brokerVars, cacheVars
  <2>. QED
    BY <1>2, <2>2, <2>3, TailIsQueued, WorkerCausality DEF Take, Causality
<1>3. ASSUME NEW w \in Workers, TakeWhileStopping(w) PROVE Causality'
  <2> DEFINE c == Head(queue)
  <2>1. c \in Ids /\ \A id \in Ids : Queued(id)' => Queued(id)
    BY <1>3, TailIsQueued DEF TakeWhileStopping
  <2>2. UNCHANGED <<received, handler, job>> /\ executed \subseteq executed'
    BY <1>3 DEF TakeWhileStopping, brokerVars
  <2>3. \A v \in Workers : job'[v] # None => job'[v] \in executed'
    BY <2>2 DEF Causality
  <2>4. CASE c \in Quick
    <3>1. /\ entry' = [entry EXCEPT ![c] = IF @ = "none" THEN @ ELSE "completed"]
          /\ executed' = executed \cup {c}
      BY <1>3, <2>4 DEF TakeWhileStopping, Complete
    <3>2. \A id \in Ids : entry'[id] \in Outcome \ {"rejected"} =>
            id \in executed' /\ entry'[id] \in ExitOutcomes \cup {"canceled"}
      BY <3>1, AgentAssumption DEF Causality, TypeOK, Outcome
    <3>. QED
      BY <2>1, <2>2, <2>3, <3>2, WorkerCausality
  <2>5. CASE c \notin Quick
    <3>1. entry' = [entry EXCEPT ![c] = IF @ = "none" THEN @ ELSE "rejected"]
      BY <1>3, <2>5 DEF TakeWhileStopping, Complete
    <3>2. \A id \in Ids : entry'[id] \in {"none", "running", "rejected", entry[id]}
      BY <3>1 DEF TypeOK
    <3>. QED
      BY <2>1, <2>2, <2>3, <3>2, CausalityFrame
  <2>. QED
    BY <2>4, <2>5
<1>4. ASSUME NEW w \in Workers, NEW o \in Outcome, Finish(w, o) PROVE Causality'
  <2> DEFINE c == job[w]
  <2>1. /\ c \in Ids /\ c \in executed /\ o \in ExitOutcomes \cup {"canceled", "rejected"}
        /\ entry' = [entry EXCEPT ![c] = IF @ = "none" THEN @ ELSE o]
        /\ job' = [job EXCEPT ![w] = None]
        /\ UNCHANGED <<received, handler, queue, executed>>
    BY <1>4, FinishOutcome DEF Finish, Complete, Causality, TypeOK, brokerVars, historyVars
  <2>2. \A id \in Ids : entry'[id] \in Outcome \ {"rejected"} =>
          id \in executed' /\ entry'[id] \in ExitOutcomes \cup {"canceled"}
    BY <2>1 DEF Causality, TypeOK, Outcome
  <2>3. \A id \in Ids : Queued(id)' => Queued(id)
    BY <2>1 DEF Queued
  <2>4. \A v \in Workers : job'[v] # None => job'[v] \in executed'
    BY <2>1 DEF Causality, TypeOK
  <2>. QED
    BY <2>1, <2>2, <2>3, <2>4, WorkerCausality
<1>5. CASE Restart
  <2>1. \A id \in Ids : ~Queued(id)'
    BY <1>5, EmptyList DEF Restart, Queued
  <2>. QED
    BY <1>5, <2>1, CausalityFrame DEF Restart, Idle, brokerVars
<1>6. ASSUME NEW h \in Handlers, Add(h) PROVE Causality'
  <2>1. \A id \in Ids : entry'[id] \in {"none", "running", "rejected", entry[id]}
    BY <1>6 DEF Add
  <2>2. UNCHANGED <<received, queue, executed, job>>
    BY <1>6 DEF Add, brokerVars, workerVars
  <2>3. handler[h].step # "idle" /\ \E s \in HandlerSteps : Goto(h, s)
    BY <1>6, Zenon DEF Add, HandlerSteps
  <2>. QED
    BY <2>1, <2>2, <2>3, GotoKeepsIds, CausalityFrame DEF Queued, Causality
<1>7. ASSUME NEW h \in Handlers, RejectBusy(h) PROVE Causality'
  <2>1. \A id \in Ids : entry'[id] \in {"none", "running", "rejected", entry[id]}
    BY <1>7 DEF RejectBusy, Remove, TypeOK
  <2>2. UNCHANGED <<received, queue, executed, job>>
    BY <1>7 DEF RejectBusy, brokerVars, workerVars, historyVars
  <2>3. handler[h].step # "idle" /\ Return(h)
    BY <1>7 DEF RejectBusy
  <2>. QED
    BY <2>1, <2>2, <2>3, GotoKeepsIds, CausalityFrame DEF Queued, Causality
<1>8. ASSUME NEW h \in Handlers, Replay(h) \/ Acknowledge(h) \/ QueueFull(h)
      PROVE Causality'
  <2>1. UNCHANGED <<received, queue, entry, executed, job>>
    BY <1>8 DEF Replay, Acknowledge, QueueFull, brokerVars, cacheVars, workerVars, historyVars
  <2>2. handler[h].step # "idle" /\ (Return(h) \/ \E s \in HandlerSteps : Goto(h, s))
    BY <1>8, Zenon DEF Replay, Acknowledge, QueueFull, HandlerSteps
  <2>. QED
    BY <2>1, <2>2, GotoKeepsIds, CausalityFrame DEF Queued, Causality
<1>9. ASSUME NEW h \in Handlers, NEW id \in Ids, Receive(h, id) PROVE Causality'
  <2>1. /\ handler' = [handler EXCEPT ![h] = [step |-> "add", id |-> id]]
        /\ received' = received \cup {id}
        /\ UNCHANGED <<queue, entry, executed, job>>
    BY <1>9 DEF Receive, Deliver, cacheVars, workerVars, historyVars
  <2>2. \A g \in Handlers : handler'[g].step # "idle" => handler'[g].id \in received'
    BY <2>1 DEF TypeOK, Causality
  <2>. QED
    BY <2>1, <2>2, CausalityFrame DEF Queued, Causality
<1>10. CASE received \subseteq received' /\ UNCHANGED <<handler, queue, entry, executed, job>>
  BY <1>10, CausalityFrame DEF Queued, Causality
<1>11. ASSUME NEW h \in Handlers, NEW id \in Ids, RejectExpired(h, id) PROVE Causality'
  BY <1>10, <1>11 DEF RejectExpired, Deliver, cacheVars, workerVars, historyVars
<1>12. ASSUME NEW id \in Ids, Age(id) \/ Cancel(id) \/ Expire(id) PROVE Causality'
  BY <1>10, <1>12
     DEF Age, Cancel, Expire, brokerVars, cacheVars, workerVars, historyVars
<1>13. CASE Stop \/ UNCHANGED vars
  BY <1>10, <1>13 DEF Stop, vars, brokerVars, cacheVars, workerVars, historyVars
<1>. QED
  BY <1>1, <1>2, <1>3, <1>4, <1>5, <1>6, <1>7, <1>8, <1>9, <1>11, <1>12, <1>13
     DEF Next, HandlerStep

\* Publishing one status for a received command: a step of the contract.
LEMMA AnswerSimulates ==
  ASSUME NEW id \in Ids, id \in received, NEW s \in {"queued", "running", "rejected"},
         results' = results \cup {Msg(id, s)}, UNCHANGED <<received, executed>>
  PROVE  Contract!Next
<1>1. CASE s = "queued"
  <2>1. Contract!Acknowledge(id)
    BY <1>1 DEF Contract!Acknowledge, Contract!Publish, Contract!Msg, Msg
  <2>. QED
    BY <2>1 DEF Contract!Next
<1>2. CASE s \in {"running", "rejected"}
  <2>1. Contract!Publish(id, {s}) /\ {s} \in {{"running"}, {"rejected"}, {"running", "rejected"}}
    BY <1>2 DEF Contract!Publish, Contract!Msg, Msg
  <2>2. Contract!Answer(id)
    BY <2>1 DEF Contract!Answer
  <2>. QED
    BY <2>2 DEF Contract!Next
<1>. QED
  BY <1>1, <1>2

\* finish, and the replay of a stored verdict: a report of the contract.
LEMMA ReportSimulates ==
  ASSUME NEW id \in Ids, id \in executed, NEW o \in Outcome,
         o \in ExitOutcomes \cup {"canceled", "rejected"},
         results' = results \cup {Msg(id, o)}, UNCHANGED <<received, executed>>
  PROVE  Contract!Next
<1>1. Contract!Report(id, o)
  BY DEF Contract!Report, Contract!Publish, Contract!Msg, Msg
<1>. QED
  BY <1>1 DEF Contract!Next, Contract!Outcome, Outcome

\* A worker that starts a queued command: an execution of the contract.
LEMMA ExecuteSimulates ==
  ASSUME NEW id \in Ids, id \in received, UNCHANGED received,
         executed' = executed \cup {id},
         NEW S \in {{"running"}, {}, {"completed"}},
         results' = results \cup {Msg(id, s) : s \in S}
  PROVE  Contract!Next
<1>1. Contract!Publish(id, S)
  BY DEF Contract!Publish, Contract!Msg, Msg
<1>2. Contract!Execute(id)
  BY <1>1 DEF Contract!Execute
<1>. QED
  BY <1>2 DEF Contract!Next

\* Every step of the dispatcher is a step of the contract, or none.
LEMMA StepSimulates ==
  ASSUME TypeOK, Causality, [Next]_vars
  PROVE  [Contract!Next]_(Contract!vars)
<1>1. CASE UNCHANGED <<received, executed, results>>
  BY <1>1 DEF Contract!vars
<1>2. ASSUME NEW h \in Handlers, Replay(h) PROVE [Contract!Next]_(Contract!vars)
  <2> DEFINE c == handler[h].id
  <2>1. /\ results' = results \cup CachedResult(c) /\ UNCHANGED <<received, executed>>
        /\ c \in Ids /\ c \in received
        /\ entry[c] \in {"none", "running"} \cup Outcome
    BY <1>2 DEF Replay, TypeOK, Causality, brokerVars, historyVars
  <2>2. CASE entry[c] = "none"
    BY <1>1, <2>1, <2>2 DEF CachedResult
  <2>3. CASE entry[c] \in {"running", "rejected"}
    BY <2>1, <2>3, AnswerSimulates DEF CachedResult
  <2>4. CASE entry[c] \in Outcome \ {"rejected"}
    <3>1. results' = results \cup {Msg(c, entry[c])}
      BY <2>1, <2>4 DEF CachedResult, Outcome
    <3>. QED
      BY <2>1, <2>4, <3>1, ReportSimulates DEF Causality
  <2>. QED
    BY <2>1, <2>2, <2>3, <2>4
<1>3. ASSUME NEW h \in Handlers, Acknowledge(h) \/ RejectBusy(h)
      PROVE [Contract!Next]_(Contract!vars)
  <2>1. /\ handler[h].id \in Ids /\ handler[h].id \in received
        /\ UNCHANGED <<received, executed>>
        /\ \E s \in {"queued", "rejected"} : results' = results \cup {Msg(handler[h].id, s)}
    BY <1>3 DEF Acknowledge, RejectBusy, reject, TypeOK, Causality, brokerVars, historyVars
  <2>. QED
    BY <2>1, AnswerSimulates
<1>4. ASSUME NEW h \in Handlers, NEW id \in Ids, RejectExpired(h, id)
      PROVE [Contract!Next]_(Contract!vars)
  <2>1. /\ received' = received \cup {id} /\ UNCHANGED executed
        /\ results' = results \cup {Msg(id, "rejected")}
    BY <1>4 DEF RejectExpired, Deliver, reject, historyVars
  <2>2. Contract!Refuse(id)
    BY <2>1 DEF Contract!Refuse, Contract!Publish, Contract!Msg, Msg
  <2>. QED
    BY <2>2 DEF Contract!Next
<1>5. ASSUME NEW w \in Workers, Take(w) PROVE [Contract!Next]_(Contract!vars)
  <2> DEFINE S == IF Head(queue) \in Quick THEN {} ELSE {"running"}
  <2>1. results' = results \cup {Msg(Head(queue), s) : s \in S}
    BY <1>5 DEF Take
  <2>2. Head(queue) \in Ids /\ Head(queue) \in received /\ UNCHANGED received
    BY <1>5, TailIsQueued DEF Take, Causality, brokerVars
  <2>3. executed' = executed \cup {Head(queue)}
    BY <1>5 DEF Take
  <2>4. S \in {{"running"}, {}, {"completed"}}
    OBVIOUS
  <2>. HIDE DEF S
  <2>. QED
    BY <2>1, <2>2, <2>3, <2>4, ExecuteSimulates
<1>6. ASSUME NEW w \in Workers, TakeWhileStopping(w) PROVE [Contract!Next]_(Contract!vars)
  <2> DEFINE c == Head(queue)
  <2>1. c \in Ids /\ c \in received /\ UNCHANGED received
    BY <1>6, TailIsQueued DEF TakeWhileStopping, Causality, brokerVars
  <2>2. CASE c \in Quick
    <3>1. /\ results' = results \cup {Msg(c, s) : s \in {"completed"}}
          /\ executed' = executed \cup {c}
      BY <1>6, <2>2 DEF TakeWhileStopping
    <3>. QED
      BY <2>1, <3>1, ExecuteSimulates
  <2>3. CASE c \notin Quick
    <3>1. results' = results \cup {Msg(c, "rejected")} \cup {Msg(c, "running")}
      BY <1>6, <2>3 DEF TakeWhileStopping
    <3>2. UNCHANGED executed
      BY <1>6, <2>3 DEF TakeWhileStopping
    <3>3. Contract!Publish(c, {"running", "rejected"})
      BY <3>1 DEF Contract!Publish, Contract!Msg, Msg
    <3>4. Contract!Answer(c)
      BY <2>1, <3>2, <3>3 DEF Contract!Answer
    <3>. QED
      BY <2>1, <3>4 DEF Contract!Next
  <2>. QED
    BY <2>2, <2>3
<1>7. ASSUME NEW w \in Workers, NEW o \in Outcome, Finish(w, o)
      PROVE [Contract!Next]_(Contract!vars)
  BY <1>7, FinishOutcome, ReportSimulates
     DEF Finish, Causality, TypeOK, brokerVars, historyVars
<1>8. ASSUME NEW h \in Handlers, NEW id \in Ids, Receive(h, id)
      PROVE [Contract!Next]_(Contract!vars)
  <2>1. Contract!Receive(id)
    BY <1>8 DEF Receive, Deliver, historyVars, Contract!Receive
  <2>. QED
    BY <2>1 DEF Contract!Next
<1>9. ASSUME NEW h \in Handlers, Add(h) \/ Enqueue(h) \/ QueueFull(h)
      PROVE UNCHANGED <<received, executed, results>>
  BY <1>9 DEF Add, Enqueue, QueueFull, brokerVars, historyVars
<1>10. ASSUME NEW id \in Ids, Age(id) \/ Cancel(id) \/ Expire(id)
       PROVE UNCHANGED <<received, executed, results>>
  BY <1>10 DEF Age, Cancel, Expire, brokerVars, historyVars
<1>11. CASE Stop \/ Restart \/ UNCHANGED vars
  BY <1>1, <1>11 DEF Stop, Restart, vars, brokerVars, historyVars
<1>. QED
  BY <1>1, <1>2, <1>3, <1>4, <1>5, <1>6, <1>7, <1>8, <1>9, <1>10, <1>11
     DEF Next, HandlerStep

\* HandleMessage, run and finish implement the contract the backend is checked
\* against: no verdict without an execution, and nothing executed or answered
\* that was not received, under every interleaving, redelivery, shutdown and
\* restart.
THEOREM ImplementsContract == Spec => KeepsContract
<1>1. Init => Contract!Init
  BY DEF Init, Contract!Init
<1>2. Init => Causality
  <2>1. Init => \A id \in Ids : ~Queued(id)
    BY EmptyList DEF Init, Queued
  <2>. QED
    BY <2>1 DEF Init, Idle, Causality, Outcome
<1>3. TypeOK /\ Causality /\ [Next]_vars =>
        (TypeOK /\ Causality)' /\ [Contract!Next]_(Contract!vars)
  BY StepKeepsTypes, StepKeepsCausality, StepSimulates
<1>. QED
  BY <1>1, <1>2, <1>3, InitTypes, PTL DEF Spec, KeepsContract, Contract!Spec

-----------------------------------------------------------------------------
(* One verdict. A command executed once has none while it runs, and what   *)
(* the cache would repeat of it was said before.                           *)

Said == Outcome \ {"rejected"}
Told(id, o) == Msg(id, o) \in results

VerdictsAgree ==
  \A id \in Ids \ repeated :
    /\ \A o, p \in Said : Told(id, o) /\ Told(id, p) => o = p
    /\ entry[id] \in Said => Told(id, entry[id])
    /\ id \notin executed => \A o \in Said : ~Told(id, o)
OneRun ==
  \A id \in Ids \ repeated :
    /\ \A v, w \in Workers : job[v] = id /\ job[w] = id => v = w
    /\ \A w \in Workers : job[w] = id => \A o \in Said : ~Told(id, o)

VerdictInv == VerdictsAgree /\ OneRun

\* Messages are told apart by their command and their status.
LEMMA MessagesDiffer ==
  ASSUME NEW id, NEW o, NEW i, NEW p, Msg(id, o) = Msg(i, p)
  PROVE  id = i /\ o = p
  <1>1. Msg(id, o).id = Msg(i, p).id /\ Msg(id, o).status = Msg(i, p).status
    OBVIOUS
  <1> QED BY <1>1 DEF Msg

\* Steps that report no verdict they have not reported, and start nothing.
LEMMA VerdictFrame ==
  ASSUME VerdictInv, repeated' = repeated, executed' = executed,
         \A id \in Ids, o \in Said : Told(id, o)' <=> Told(id, o),
         \A w \in Workers : job'[w] \in {None, job[w]},
         \A id \in Ids : entry'[id] \in {"none", "running", "rejected", entry[id]}
  PROVE  VerdictInv'
  <1>1. \A id \in Ids : entry'[id] \in Said => entry'[id] = entry[id]
    BY DEF Said, Outcome
  <1>2. \A id \in Ids, w \in Workers : job'[w] = id => job[w] = id
    BY AgentAssumption
  <1>3. VerdictsAgree'
    BY <1>1 DEF VerdictInv, VerdictsAgree
  <1>4. OneRun'
    BY <1>2 DEF VerdictInv, OneRun
  <1> QED BY <1>3, <1>4 DEF VerdictInv

\* What a step adds that is not a verdict tells none.
LEMMA TellsNoVerdict ==
  ASSUME NEW M, results' = results \cup M, \A m \in M : m.status \notin Said
  PROVE  \A id \in Ids, o \in Said : Told(id, o)' <=> Told(id, o)
  <1> SUFFICES ASSUME NEW id \in Ids, NEW o \in Said, Msg(id, o) \in M
      PROVE  Told(id, o)
    BY DEF Told
  <1> QED BY DEF Msg

\* What a step adds that is one verdict tells just this one.
LEMMA TellsOneVerdict ==
  ASSUME NEW c \in Ids, NEW v \in Outcome, results' = results \cup {Msg(c, v)}
  PROVE  /\ \A id \in Ids \ {c}, o \in Said : Told(id, o)' <=> Told(id, o)
         /\ \A o \in Said : Told(c, o)' => Told(c, o) \/ o = v
         /\ Msg(c, v) \in results'
  BY MessagesDiffer DEF Told

\* A handler repeats what the cache has, queues, or refuses.
LEMMA HandlerVerdicts ==
  ASSUME TypeOK, VerdictInv, NEW h \in Handlers, HandlerStep(h)
  PROVE  VerdictInv'
  <1>1. UNCHANGED <<repeated, executed, job>>
    BY DEF HandlerStep, Add, Replay, Enqueue, Acknowledge, QueueFull, RejectBusy,
       workerVars, historyVars
  <1>2. CASE Add(h)
    <2>1. \A id \in Ids : entry'[id] \in {"none", "running", "rejected", entry[id]}
      BY <1>2 DEF Add
    <2>2. results' = results
      BY <1>2 DEF Add
    <2> QED BY <1>1, <2>1, <2>2, VerdictFrame DEF Told
  <1>3. CASE Replay(h)
    <2> DEFINE c == handler[h].id
    <2>1. /\ results' = results \cup CachedResult(c) /\ entry' = entry /\ c \in Ids
      BY <1>3 DEF Replay, TypeOK, cacheVars
    <2>2. CASE c \in repeated \/ entry[c] \notin Said
      <3>1. \A id \in Ids \ repeated, o \in Said : Told(id, o)' <=> Told(id, o)
        <4> SUFFICES ASSUME NEW id \in Ids \ repeated, NEW o \in Said,
                            Msg(id, o) \in CachedResult(c)
            PROVE  Told(id, o)
          BY <2>1 DEF Told
        <4>1. Msg(id, o) = Msg(c, entry[c])
          BY DEF CachedResult
        <4> QED BY <2>2, <4>1, MessagesDiffer
      <3> QED BY <1>1, <2>1, <3>1 DEF VerdictInv, VerdictsAgree, OneRun
    <2>3. CASE c \notin repeated /\ entry[c] \in Said
      <3>1. Told(c, entry[c])
        BY <2>1, <2>3 DEF VerdictInv, VerdictsAgree
      <3>2. results' = results
        BY <2>1, <3>1 DEF CachedResult, Told
      <3> QED BY <1>1, <2>1, <3>2, VerdictFrame DEF Told
    <2> QED BY <2>2, <2>3
  <1>4. CASE Enqueue(h) \/ QueueFull(h)
    <2>1. entry' = entry /\ results' = results
      BY <1>4 DEF Enqueue, QueueFull, cacheVars
    <2> QED BY <1>1, <2>1, VerdictFrame DEF Told
  <1>5. CASE Acknowledge(h)
    <2> DEFINE M == {Msg(handler[h].id, "queued")}
    <2>1. /\ entry' = entry /\ results' = results \cup M
          /\ handler[h].id \in Ids /\ "queued" \notin Said
      BY <1>5 DEF Acknowledge, cacheVars, TypeOK, Said, Outcome
    <2>2. \A m \in M : m.status \notin Said
      BY <2>1 DEF Msg
    <2> HIDE DEF M
    <2>3. \A id \in Ids, o \in Said : Told(id, o)' <=> Told(id, o)
      BY <2>1, <2>2, TellsNoVerdict
    <2> QED BY <1>1, <2>1, <2>3, VerdictFrame
  <1>6. CASE RejectBusy(h)
    <2> DEFINE M == {Msg(handler[h].id, "rejected")}
    <2>1. /\ \A id \in Ids : entry'[id] \in {"none", "running", "rejected", entry[id]}
          /\ results' = results \cup M
          /\ handler[h].id \in Ids /\ "rejected" \notin Said
      BY <1>6 DEF RejectBusy, Remove, reject, TypeOK, Said
    <2>2. \A m \in M : m.status \notin Said
      BY <2>1 DEF Msg
    <2> HIDE DEF M
    <2>3. \A id \in Ids, o \in Said : Told(id, o)' <=> Told(id, o)
      BY <2>1, <2>2, TellsNoVerdict
    <2> QED BY <1>1, <2>1, <2>3, VerdictFrame
  <1> QED BY <1>2, <1>3, <1>4, <1>5, <1>6 DEF HandlerStep

\* A command that is taken for the first time has no verdict and no other worker.
LEMMA TakeVerdicts ==
  ASSUME TypeOK, Causality, VerdictInv, NEW w \in Workers, Take(w)
  PROVE  VerdictInv'
  <1> DEFINE c == Head(queue)
  <1>1. /\ c \in Ids /\ entry' = entry
        /\ executed' = executed \cup {c} /\ repeated' = repeated \cup (executed \cap {c})
        /\ job' = [job EXCEPT ![w] = c] /\ job \in [Workers -> Ids \cup {None}]
    BY TailIsQueued DEF Take, TypeOK, cacheVars
  <1>2. \A id \in Ids, o \in Said : Told(id, o)' <=> Told(id, o)
    <2> DEFINE M == IF c \in Quick THEN {} ELSE {Msg(c, "running")}
    <2>1. results' = results \cup M
      BY DEF Take
    <2>2. \A m \in M : m.status \notin Said
      BY DEF Msg, Said, Outcome
    <2> HIDE DEF M
    <2> QED BY <2>1, <2>2, TellsNoVerdict
  <1> HIDE DEF c
  <1>3. VerdictsAgree'
    BY <1>1, <1>2 DEF VerdictInv, VerdictsAgree
  <1>4. ASSUME NEW id \in Ids \ repeated'
        PROVE  /\ \A u, v \in Workers : job'[u] = id /\ job'[v] = id => u = v
               /\ \A v \in Workers : job'[v] = id => \A o \in Said : ~Told(id, o)'
    <2>1. CASE id = c
      <3>1. c \notin executed /\ c \notin repeated
        BY <1>1, <1>4, <2>1
      <3>2. \A v \in Workers : job[v] # c
        BY <1>1, <3>1, AgentAssumption DEF Causality
      <3>3. \A o \in Said : ~Told(c, o)
        BY <1>1, <3>1 DEF VerdictInv, VerdictsAgree
      <3> QED BY <1>1, <1>2, <2>1, <3>2, <3>3
    <2>2. CASE id # c
      <3>1. \A v \in Workers : job'[v] = id => job[v] = id
        BY <1>1, <2>2
      <3> QED BY <1>1, <1>2, <1>4, <3>1 DEF VerdictInv, OneRun
    <2> QED BY <2>1, <2>2
  <1> QED BY <1>3, <1>4 DEF VerdictInv, OneRun

\* Shutdown answers a quick command at once, and starts nothing else.
LEMMA TakeWhileStoppingVerdicts ==
  ASSUME TypeOK, Causality, VerdictInv, NEW w \in Workers, TakeWhileStopping(w)
  PROVE  VerdictInv'
  <1>0. PICK c \in Ids : c = Head(queue)
    BY TailIsQueued DEF TakeWhileStopping
  <1>1. c \in Ids /\ job' = job
    BY DEF TakeWhileStopping
  <1>2. CASE c \in Quick
    <2>1. /\ entry' = [entry EXCEPT ![c] = IF @ = "none" THEN @ ELSE "completed"]
          /\ executed' = executed \cup {c} /\ repeated' = repeated \cup (executed \cap {c})
          /\ results' = results \cup {Msg(c, "completed")}
      BY <1>0, <1>2 DEF TakeWhileStopping, Complete
    <2>2. /\ \A id \in Ids \ {c}, o \in Said : Told(id, o)' <=> Told(id, o)
          /\ \A o \in Said : Told(c, o)' => Told(c, o) \/ o = "completed"
          /\ Msg(c, "completed") \in results'
      BY <1>1, <2>1, TellsOneVerdict DEF Outcome
    <2>4. ASSUME NEW id \in Ids \ repeated'
          PROVE  /\ \A o, p \in Said : Told(id, o)' /\ Told(id, p)' => o = p
                 /\ entry'[id] \in Said => Msg(id, entry'[id]) \in results'
                 /\ id \notin executed' => \A o \in Said : ~Told(id, o)'
                 /\ \A u, v \in Workers : job'[u] = id /\ job'[v] = id => u = v
                 /\ \A v \in Workers : job'[v] = id => \A o \in Said : ~Told(id, o)'
      <3>1. CASE id = c
        <4>1. c \notin executed /\ c \notin repeated
          BY <2>1, <2>4, <3>1
        <4>2. /\ \A o \in Said : ~Told(c, o)
              /\ \A v \in Workers : job[v] # c
          BY <1>1, <4>1, AgentAssumption DEF VerdictInv, VerdictsAgree, Causality
        <4>3. entry'[c] \in Said => entry'[c] = "completed"
          BY <1>1, <2>1 DEF TypeOK, Said, Outcome
        <4>4. /\ \A o, p \in Said : Told(c, o)' /\ Told(c, p)' => o = p
              /\ entry'[c] \in Said => Msg(c, entry'[c]) \in results'
          BY <2>2, <4>2, <4>3
        <4> QED BY <1>1, <2>1, <3>1, <4>2, <4>4
      <3>2. CASE id # c
        <4>1. entry'[id] = entry[id] /\ id \notin repeated
          BY <2>1, <2>4, <3>2 DEF TypeOK
        <4> QED BY <1>1, <2>1, <2>2, <2>4, <3>2, <4>1
                   DEF VerdictInv, VerdictsAgree, OneRun, Told
      <3> QED BY <3>1, <3>2
    <2> QED BY <2>4 DEF VerdictInv, VerdictsAgree, OneRun, Told
  <1>3. CASE c \notin Quick
    <2> DEFINE M == {Msg(c, "rejected"), Msg(c, "running")}
    <2>1. /\ entry' = [entry EXCEPT ![c] = IF @ = "none" THEN @ ELSE "rejected"]
          /\ executed' = executed /\ repeated' = repeated
          /\ results' = results \cup M
      BY <1>0, <1>3 DEF TakeWhileStopping, Complete
    <2>2. \A m \in M : m.status \notin Said
      BY DEF Msg, Said, Outcome
    <2> HIDE DEF M
    <2>3. \A id \in Ids, o \in Said : Told(id, o)' <=> Told(id, o)
      BY <2>1, <2>2, TellsNoVerdict
    <2>4. \A id \in Ids : entry'[id] \in {"none", "running", "rejected", entry[id]}
      BY <2>1 DEF TypeOK
    <2> QED BY <1>1, <2>1, <2>3, <2>4, VerdictFrame
  <1> QED BY <1>2, <1>3

\* The end of a run gives the only verdict, and the cache keeps the same.
LEMMA FinishVerdicts ==
  ASSUME TypeOK, VerdictInv, NEW w \in Workers, NEW o \in Outcome, Causality, Finish(w, o)
  PROVE  VerdictInv'
  <1>0. PICK c \in Ids : c = job[w]
    BY DEF Finish, TypeOK
  <1>1. /\ c \in Ids /\ c \in executed /\ executed' = executed /\ repeated' = repeated
        /\ entry' = [entry EXCEPT ![c] = IF @ = "none" THEN @ ELSE o]
        /\ job' = [job EXCEPT ![w] = None] /\ job \in [Workers -> Ids \cup {None}]
        /\ results' = results \cup {Msg(c, o)} /\ job[w] = c
    BY <1>0 DEF Finish, Complete, TypeOK, Causality, historyVars
  <1>2. /\ \A id \in Ids \ {c}, p \in Said : Told(id, p)' <=> Told(id, p)
        /\ \A p \in Said : Told(c, p)' => Told(c, p) \/ p = o
        /\ Msg(c, o) \in results'
    BY <1>1, TellsOneVerdict
  <1>3. ASSUME NEW id \in Ids \ repeated
        PROVE  /\ \A p, q \in Said : Told(id, p)' /\ Told(id, q)' => p = q
               /\ entry'[id] \in Said => Msg(id, entry'[id]) \in results'
               /\ id \notin executed => \A p \in Said : ~Told(id, p)'
               /\ \A u, v \in Workers : job'[u] = id /\ job'[v] = id => u = v
               /\ \A v \in Workers : job'[v] = id => \A p \in Said : ~Told(id, p)'
    <2>0. \A v \in Workers : job'[v] = id => job[v] = id /\ v # w
      BY <1>1, AgentAssumption
    <2>1. CASE id = c
      <3>1. \A p \in Said : ~Told(c, p)
        BY <1>1, <1>3, <2>1 DEF VerdictInv, OneRun
      <3>2. \A v \in Workers : job'[v] # c
        BY <1>1, <1>3, <2>0, <2>1 DEF VerdictInv, OneRun
      <3>3. entry'[c] \in Said => entry'[c] = o
        BY <1>1 DEF TypeOK, Said, Outcome
      <3>4. /\ \A p, q \in Said : Told(c, p)' /\ Told(c, q)' => p = q
            /\ entry'[c] \in Said => Msg(c, entry'[c]) \in results'
        BY <1>2, <3>1, <3>3
      <3> QED BY <1>1, <2>1, <3>2, <3>4
    <2>2. CASE id # c
      <3>1. entry'[id] = entry[id]
        BY <1>1, <2>2 DEF TypeOK
      <3> QED BY <1>1, <1>2, <1>3, <2>0, <2>2, <3>1
                 DEF VerdictInv, VerdictsAgree, OneRun, Told
    <2> QED BY <2>1, <2>2
  <1> QED BY <1>1, <1>3 DEF VerdictInv, VerdictsAgree, OneRun, Told

LEMMA StepKeepsVerdicts ==
  ASSUME TypeOK, Causality, VerdictInv, [Next]_vars
  PROVE  VerdictInv'
<1>1. CASE Restart
  <2>1. /\ UNCHANGED <<results, executed, repeated>>
        /\ entry' = [id \in Ids |-> "none"] /\ job' = [w \in Workers |-> None]
    BY <1>1 DEF Restart
  <2>. QED
    BY <2>1, VerdictFrame DEF Told
<1>2. ASSUME NEW h \in Handlers, NEW id \in Ids, RejectExpired(h, id)
      PROVE  VerdictInv'
  <2> DEFINE M == {Msg(id, "rejected")}
  <2>1. /\ results' = results \cup M /\ \A m \in M : m.status \notin Said
        /\ UNCHANGED <<entry, job, executed, repeated>>
    BY <1>2 DEF RejectExpired, reject, Msg, Said, cacheVars, workerVars, historyVars
  <2> HIDE DEF M
  <2>2. \A i \in Ids, o \in Said : Told(i, o)' <=> Told(i, o)
    BY <2>1, TellsNoVerdict
  <2>. QED
    BY <2>1, <2>2, VerdictFrame
<1>3. CASE UNCHANGED <<results, entry, job, executed, repeated>>
  BY <1>3, VerdictFrame DEF Told
<1>4. ASSUME NEW h \in Handlers, NEW id \in Ids, Receive(h, id) PROVE VerdictInv'
  BY <1>3, <1>4 DEF Receive, cacheVars, workerVars, historyVars
<1>5. ASSUME NEW id \in Ids, Age(id) \/ Cancel(id) \/ Expire(id) PROVE VerdictInv'
  BY <1>3, <1>5 DEF Age, Cancel, Expire, cacheVars, workerVars, historyVars
<1>6. CASE Stop \/ UNCHANGED vars
  BY <1>3, <1>6 DEF Stop, vars, cacheVars, workerVars, historyVars
<1>. QED
  BY <1>1, <1>2, <1>4, <1>5, <1>6, HandlerVerdicts, TakeVerdicts,
     TakeWhileStoppingVerdicts, FinishVerdicts DEF Next

\* finish, run and the replay of a duplicate: under every interleaving,
\* redelivery, cancellation, shutdown and restart, a command executed once is
\* reported with one verdict at most.
THEOREM OneVerdictEver == Spec => []SingleVerdict
<1>1. Init => VerdictInv
  BY AgentAssumption DEF Init, VerdictInv, VerdictsAgree, OneRun, Told, Said, Outcome
<1>2. Init => Causality
  <2>1. Init => \A id \in Ids : ~Queued(id)
    BY EmptyList DEF Init, Queued
  <2>. QED
    BY <2>1 DEF Init, Idle, Causality, Outcome
<1>3. TypeOK /\ Causality /\ VerdictInv /\ [Next]_vars => (TypeOK /\ Causality /\ VerdictInv)'
  BY StepKeepsTypes, StepKeepsCausality, StepKeepsVerdicts
<1>4. VerdictInv => SingleVerdict
  <2> SUFFICES ASSUME VerdictInv, NEW id \in Ids \ repeated
      PROVE  Cardinality(Verdicts(id)) <= 1
    BY DEF SingleVerdict
  <2>1. CASE Verdicts(id) = {}
    BY <2>1, FS_EmptySet
  <2>2. CASE Verdicts(id) # {}
    <3>1. PICK o \in Verdicts(id) : TRUE
      BY <2>2
    <3>2. Verdicts(id) = {o}
      BY <3>1 DEF VerdictInv, VerdictsAgree, Verdicts, Told, Said
    <3>3. Cardinality({o}) = 1
      BY FS_Singleton
    <3>. QED
      BY <3>2, <3>3
  <2>. QED
    BY <2>1, <2>2
<1>. QED
  BY <1>1, <1>2, <1>3, <1>4, InitTypes, PTL DEF Spec

-----------------------------------------------------------------------------
(* What the backend may conclude from the contract alone.                  *)

\* Whatever is published is about a command that was received, and a verdict about one
\* that was executed.
Justified ==
  /\ executed \subseteq received
  /\ \A m \in results : m.id \in received
  /\ \A m \in results : m.status \in Said => m.id \in executed

LEMMA ContractJustifies ==
  ASSUME Justified, [Contract!Next]_(Contract!vars)
  PROVE  Justified'
  <1>1. CASE UNCHANGED Contract!vars
    BY <1>1 DEF Justified, Contract!vars
  <1>2. ASSUME NEW id \in received', executed \subseteq executed', executed' \subseteq received',
               received \subseteq received',
               NEW S, Contract!Publish(id, S), S \cap Said # {} => id \in executed'
        PROVE  Justified'
    <2>1. ASSUME NEW m \in results', m \notin results
          PROVE  m.id = id /\ m.status \in S
      BY <1>2, <2>1 DEF Contract!Publish, Contract!Msg
    <2> QED BY <1>2, <2>1 DEF Justified
  <1>3. ASSUME NEW id \in Ids, Contract!Receive(id)
        PROVE  Justified'
    BY <1>3 DEF Justified, Contract!Receive
  <1>4. ASSUME NEW id \in Ids, Contract!Refuse(id) \/ Contract!Acknowledge(id) \/ Contract!Answer(id)
        PROVE  Justified'
    <2>1. /\ id \in received' /\ received \subseteq received' /\ executed' = executed
          /\ executed' \subseteq received'
      BY <1>4 DEF Justified, Contract!Refuse, Contract!Acknowledge, Contract!Answer
    <2>2. PICK S \in {{"queued"}, {"running"}, {"rejected"}, {"running", "rejected"}} :
                 Contract!Publish(id, S)
      BY <1>4 DEF Contract!Refuse, Contract!Acknowledge, Contract!Answer
    <2>3. S \cap Said = {}
      BY DEF Said, Outcome
    <2> QED BY <1>2, <2>1, <2>2, <2>3
  <1>5. ASSUME NEW id \in Ids, Contract!Execute(id)
        PROVE  Justified'
    <2>1. /\ id \in received' /\ received' = received /\ executed' = executed \cup {id}
          /\ executed' \subseteq received'
      BY <1>5 DEF Justified, Contract!Execute
    <2>2. PICK S \in {{"running"}, {}, {"completed"}} : Contract!Publish(id, S)
      BY <1>5 DEF Contract!Execute
    <2> QED BY <1>2, <2>1, <2>2
  <1>6. ASSUME NEW id \in Ids, NEW o, Contract!Report(id, o)
        PROVE  Justified'
    <2>1. /\ id \in executed' /\ id \in received' /\ received' = received
          /\ executed' = executed /\ executed' \subseteq received'
          /\ Contract!Publish(id, {o})
      BY <1>6 DEF Justified, Contract!Report
    <2> QED BY <1>2, <2>1
  <1> QED BY <1>1, <1>3, <1>4, <1>5, <1>6 DEF Contract!Next

\* No answer about a command the broker never had, and no verdict without an execution:
\* of every dispatcher, because it keeps the contract.
THEOREM NothingUnearned == Spec => []Justified
  <1>1. Contract!Init => Justified
    BY DEF Contract!Init, Justified
  <1>2. Contract!Spec => []Justified
    BY <1>1, ContractJustifies, PTL DEF Contract!Spec
  <1> QED BY <1>2, ImplementsContract, PTL DEF KeepsContract

=============================================================================
