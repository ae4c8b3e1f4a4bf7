---------------------------- MODULE EventStream ----------------------------
(***************************************************************************)
(* Presence on the dashboard: bus.ts (one Redis subscription, counted      *)
(* references, local fan-out), the SSE route of api/events, and the        *)
(* EventSource and status reducer of event-stream.tsx. A status is a       *)
(* number that grows with every change of the device row. The replay of    *)
(* the route is left out: it needs a Last-Event-ID, only replayed events   *)
(* carry an id, so no browser ever has one. All of start() then runs in    *)
(* one step. Redis and the ReadableStream runtime are external.            *)
(***************************************************************************)
EXTENDS Naturals, Sequences, FiniteSets

CONSTANTS
  Tabs,        \* dashboards, each with one EventSource on all channels
  Channels,    \* one per device
  LastVersion, \* bound on the changes of a device row
  LossLimit,   \* bound on the times the Redis connection is lost
  QueueLimit   \* bound on the subscription commands on their way

ASSUME EventStreamAssumption ==
  /\ LastVersion \in Nat /\ LossLimit \in Nat
  /\ QueueLimit \in Nat \ {0} /\ IsFiniteSet(Tabs)

VARIABLES
  rowVersion,   \* per device: the version in the database
  unannounced, \* per device: versions written and not yet published
  refs,        \* bus.ts, per channel: streams counted
  listening,   \* per channel: streams whose listener is registered
  subscribed,  \* channels Redis delivers to this process
  subQueue,    \* SUBSCRIBE and UNSUBSCRIBE commands on their way to Redis
  stream,      \* per tab: "none", "starting", "live" or "closing"
  snapshot,    \* per tab: the rows its request has read
  shown,       \* per tab and device: the version on the screen
  redisLosses

eventVars == <<rowVersion, unannounced, refs, listening, subscribed, subQueue,
               stream, snapshot, shown, redisLosses>>
rowsVars == <<rowVersion, unannounced, redisLosses>>
busVars  == <<refs, listening, subscribed, subQueue>>
tabVars  == <<stream, snapshot, shown>>

Versions == 0..LastVersion
SubCommand == [op : {"subscribe", "unsubscribe"}, channels : SUBSET Channels]

EventStreamTypeOK ==
  /\ rowVersion \in [Channels -> Versions]
  /\ unannounced \in [Channels -> SUBSET Versions]
  /\ refs \in [Channels -> 0..Cardinality(Tabs)]
  /\ listening \in [Channels -> SUBSET Tabs]
  /\ subscribed \subseteq Channels
  /\ subQueue \in Seq(SubCommand) /\ Len(subQueue) <= QueueLimit
  /\ stream \in [Tabs -> {"none", "starting", "live", "closing"}]
  /\ snapshot \in [Tabs -> [Channels -> Versions]]
  /\ shown \in [Tabs -> [Channels -> Versions]]
  /\ redisLosses \in 0..LossLimit

EventStreamInit ==
  /\ rowVersion = [c \in Channels |-> 0] /\ unannounced = [c \in Channels |-> {}]
  /\ refs = [c \in Channels |-> 0] /\ listening = [c \in Channels |-> {}]
  /\ subscribed = {} /\ subQueue = <<>>
  /\ stream = [t \in Tabs |-> "none"]
  /\ snapshot = [t \in Tabs |-> [c \in Channels |-> 0]]
  /\ shown = [t \in Tabs |-> [c \in Channels |-> 0]]
  /\ redisLosses = 0

-----------------------------------------------------------------------------
(* The worker writes the row, then publishes, for several messages at once *)
(* and so in any order; Redis delivers to this process if it is            *)
(* subscribed, and every registered listener sends on.                     *)

ChangeRow(c) ==
  /\ rowVersion[c] < LastVersion
  /\ rowVersion' = [rowVersion EXCEPT ![c] = @ + 1]
  /\ unannounced' = [unannounced EXCEPT ![c] = @ \cup {rowVersion[c] + 1}]
  /\ UNCHANGED <<redisLosses, busVars, tabVars>>

Deliver(c, v) ==
  shown' = [t \in Tabs |->
    IF c \in subscribed /\ t \in listening[c] /\ stream[t] = "live"
    THEN [shown[t] EXCEPT ![c] = v] ELSE shown[t]]

\* Publishing may fail, or the worker go down before it.
Publish(c) ==
  /\ \E v \in unannounced[c] :
       /\ unannounced' = [unannounced EXCEPT ![c] = @ \ {v}]
       /\ Deliver(c, v) \/ UNCHANGED shown
  /\ UNCHANGED <<rowVersion, redisLosses, busVars, stream, snapshot>>

-----------------------------------------------------------------------------
(* bus.ts.                                                                 *)

Enqueue(op, cs) ==
  /\ Len(subQueue) < QueueLimit
  /\ subQueue' = IF cs = {} THEN subQueue
                 ELSE Append(subQueue, [op |-> op, channels |-> cs])

Subscribe(t) ==
  /\ refs' = [c \in Channels |-> refs[c] + 1]
  /\ listening' = [c \in Channels |-> listening[c] \cup {t}]
  /\ Enqueue("subscribe", {c \in Channels : refs[c] = 0})

\* Mutated: the count is not kept from falling below zero.
LeftUnchecked(c) == refs[c] - 1

\* The function subscribe() returns: a count that is already gone is taken for
\* one, and so falls to zero again.
Left(c) == IF refs[c] = 0 THEN 0 ELSE refs[c] - 1

\* Mutated: whoever leaves takes the channels along.
UnsubscribeForAll(t) ==
  /\ refs' = [c \in Channels |-> Left(c)]
  /\ listening' = [c \in Channels |-> listening[c] \ {t}]
  /\ Enqueue("unsubscribe", Channels)

Unsubscribe(t) ==
  /\ refs' = [c \in Channels |-> Left(c)]
  /\ listening' = [c \in Channels |-> listening[c] \ {t}]
  /\ Enqueue("unsubscribe", {c \in Channels : Left(c) = 0})

\* ioredis sends its commands in order.
RunSubCommand ==
  /\ subQueue # <<>>
  /\ subQueue' = Tail(subQueue)
  /\ subscribed' = LET cmd == Head(subQueue) IN
       IF cmd.op = "subscribe" THEN subscribed \cup cmd.channels
       ELSE subscribed \ cmd.channels
  /\ UNCHANGED <<rowsVars, refs, listening, tabVars>>

\* The connection to Redis is lost; when it is ready again, the channels that
\* are counted are subscribed anew, before the commands that were waiting.
LoseRedis ==
  /\ redisLosses < LossLimit /\ Len(subQueue) < QueueLimit
  /\ redisLosses' = redisLosses + 1
  /\ subscribed' = {}
  /\ subQueue' = <<[op |-> "subscribe",
                    channels |-> {c \in Channels : refs[c] > 0}]>> \o subQueue
  /\ UNCHANGED <<rowVersion, unannounced, refs, listening, tabVars>>

-----------------------------------------------------------------------------
(* The route and the EventSource.                                          *)

\* GET reads the rows before it subscribes.
OpenStream(t) ==
  /\ stream[t] = "none"
  /\ stream' = [stream EXCEPT ![t] = "starting"]
  /\ snapshot' = [snapshot EXCEPT ![t] = rowVersion]
  /\ UNCHANGED <<rowsVars, busVars, shown>>

\* Mutated: the stream starts with what comes next.
StartStreamWithoutRows(t) ==
  /\ stream[t] = "starting"
  /\ Subscribe(t)
  /\ stream' = [stream EXCEPT ![t] = "live"]
  /\ UNCHANGED <<rowsVars, subscribed, snapshot, shown>>

\* start(): subscribe, then send the rows that were read.
StartStream(t) ==
  /\ stream[t] = "starting"
  /\ Subscribe(t)
  /\ stream' = [stream EXCEPT ![t] = "live"]
  /\ shown' = [shown EXCEPT ![t] = snapshot[t]]
  /\ UNCHANGED <<rowsVars, subscribed, snapshot>>

\* cleanup(): the lifetime of the stream is over, the browser has gone, or a
\* write has failed. Chunks the browser has not taken keep the stream closing.
Cleanup(t) ==
  /\ stream[t] = "live"
  /\ Unsubscribe(t)
  /\ \E next \in {"none", "closing"} : stream' = [stream EXCEPT ![t] = next]
  /\ UNCHANGED <<rowsVars, subscribed, snapshot, shown>>

\* cancel(): does not ask whether cleanup() has run.
Cancel(t) ==
  /\ stream[t] \in {"live", "closing"}
  /\ Unsubscribe(t)
  /\ stream' = [stream EXCEPT ![t] = "none"]
  /\ UNCHANGED <<rowsVars, subscribed, snapshot, shown>>

\* The browser takes the rest of the chunks.
Drain(t) ==
  /\ stream[t] = "closing"
  /\ stream' = [stream EXCEPT ![t] = "none"]
  /\ UNCHANGED <<rowsVars, busVars, snapshot, shown>>

TabStep(t) == StartStream(t) \/ Cleanup(t) \/ Cancel(t) \/ Drain(t)

EventStreamNext ==
  \/ \E c \in Channels : ChangeRow(c) \/ Publish(c)
  \/ RunSubCommand \/ LoseRedis
  \/ \E t \in Tabs : OpenStream(t) \/ TabStep(t)

EventStreamSpec == EventStreamInit /\ [][EventStreamNext]_eventVars

-----------------------------------------------------------------------------
(* Properties.                                                             *)

\* Once the commands on their way have run, Redis delivers exactly the channels
\* that are counted: none is left subscribed for nobody, and no order of opening,
\* closing and reconnecting leaves a counted one out (bus.ts).
SubscribedAsCounted ==
  subQueue = <<>> => subscribed = {c \in Channels : refs[c] > 0}

\* When the devices stop changing (LastVersion), every dashboard comes to show
\* their state and goes on showing it: what a stream has missed or got in the
\* wrong order, because the row changed before the stream was subscribed, while
\* nothing was delivered, or twice at once, the next one makes good.
DashboardConverges == <>[](\A t \in Tabs : shown[t] = rowVersion)
============================================================================
