------------------------------ MODULE Presence ------------------------------
(***************************************************************************)
(* Device presence: the agent's connection (agent/internal/mqttc), the     *)
(* broker's retained status and wills, handleStatus in the ingest worker   *)
(* and the device half of its reaper.                                      *)
(*                                                                         *)
(* The worker starts handleStatus for every message it receives without    *)
(* waiting for the one before (main.ts: void onMessage), so the read of    *)
(* the device row and the write that follows it are two steps of a slot.   *)
(* The broker is external: it may publish the will of a lost connection    *)
(* after the agent has already reconnected, as handleStatus expects.       *)
(* Metrics, OS facts and the group push of handleStatus are left out.      *)
(***************************************************************************)
EXTENDS Naturals, Sequences, FiniteSets

CONSTANTS
  Devices,
  Sessions,   \* session ids; one is drawn per start of an agent
  Slots,      \* invocations of handleStatus that may be in flight
  WireLimit,  \* bound on the messages of a device on their way to the worker
  PassLimit,  \* bound on the passes of the reaper that overlap
  Nothing

ASSUME PresenceAssumption ==
  /\ WireLimit \in Nat \ {0} /\ PassLimit \in Nat \ {0}
  /\ Nothing \notin Sessions

VARIABLES
  \* agents and broker
  session,    \* per device: session id of the running agent, Nothing if it is down
  drawn,      \* session ids in use so far
  conn,       \* per device: its connection to the broker
  wills,      \* per device: sessions of lost connections whose will is to come
  retained,   \* per device: the retained status message, or Nothing
  young,      \* the broker has been up for less than two minutes
  \* between broker and worker
  attached,   \* the worker is connected and subscribed
  wire,       \* per device: status messages sent to the worker
  \* worker
  slot,       \* per invocation of handleStatus: its message and what it read
  grace,      \* Date.now() < graceUntil
  reaping,    \* per device: reaper passes that read it as stale and have not
              \* written it yet
  \* the devices table
  status, currentSessionId,
  fresh,      \* devices whose lastSeenAt is less than STALE_AFTER_MS old
  \* history
  troubled    \* devices that were ever cut off or silent

agentVars    == <<session, drawn, conn>>
willVars     == <<wills, retained, young>>
linkVars     == <<attached, wire>>
ingestVars   == <<slot, grace, reaping>>
rowVars      == <<status, currentSessionId, fresh>>
presenceVars == <<agentVars, willVars, linkVars, ingestVars, rowVars, troubled>>

StatusMessage == [state : {"online", "offline"}, session : Sessions]
Online(s)  == [state |-> "online", session |-> s]
Offline(s) == [state |-> "offline", session |-> s]

Job == [device : Devices, msg : StatusMessage, read : Sessions \cup {Nothing},
        step : {"read", "write"}]

PresenceTypeOK ==
  /\ session \in [Devices -> Sessions \cup {Nothing}]
  /\ drawn \subseteq Sessions
  /\ conn \in [Devices -> {"none", "connected", "announced"}]
  /\ wills \in [Devices -> SUBSET Sessions]
  /\ retained \in [Devices -> StatusMessage \cup {Nothing}]
  /\ wire \in [Devices -> Seq(StatusMessage)]
  /\ \A d \in Devices : Len(wire[d]) <= WireLimit
  /\ young \in BOOLEAN /\ attached \in BOOLEAN /\ grace \in BOOLEAN
  /\ slot \in [Slots -> Job \cup {Nothing}]
  /\ reaping \in [Devices -> 0..PassLimit]
  /\ status \in [Devices -> {"UNKNOWN", "ONLINE", "OFFLINE"}]
  /\ currentSessionId \in [Devices -> Sessions \cup {Nothing}]
  /\ fresh \subseteq Devices /\ troubled \subseteq Devices

PresenceInit ==
  /\ session = [d \in Devices |-> Nothing] /\ drawn = {}
  /\ conn = [d \in Devices |-> "none"]
  /\ wills = [d \in Devices |-> {}]
  /\ retained = [d \in Devices |-> Nothing] /\ young = FALSE
  /\ attached = TRUE /\ wire = [d \in Devices |-> <<>>]
  /\ slot = [k \in Slots |-> Nothing] /\ grace = FALSE
  /\ reaping = [d \in Devices |-> 0]
  /\ status = [d \in Devices |-> "UNKNOWN"]
  /\ currentSessionId = [d \in Devices |-> Nothing]
  /\ fresh = {} /\ troubled = {}

-----------------------------------------------------------------------------
(* The agent and its connection.                                           *)

\* A status message reaches the worker if it is subscribed.
Send(d, m) ==
  /\ Len(wire[d]) < WireLimit
  /\ wire' = IF attached THEN [wire EXCEPT ![d] = Append(@, m)] ELSE wire

Retain(d, m) == retained' = [retained EXCEPT ![d] = m]

\* The session id is drawn with the process, not with the connection.
StartAgent(d, s) ==
  /\ session[d] = Nothing /\ s \notin drawn
  /\ session' = [session EXCEPT ![d] = s]
  /\ drawn' = drawn \cup {s}
  /\ UNCHANGED <<conn, willVars, linkVars, ingestVars, rowVars, troubled>>

Connect(d) ==
  /\ session[d] # Nothing /\ conn[d] = "none"
  /\ conn' = [conn EXCEPT ![d] = "connected"]
  /\ UNCHANGED <<session, drawn, willVars, linkVars, ingestVars, rowVars,
                 troubled>>

\* OnConnect: after the subscriptions, a retained "online".
Announce(d) ==
  /\ conn[d] = "connected"
  /\ conn' = [conn EXCEPT ![d] = "announced"]
  /\ Retain(d, Online(session[d]))
  /\ Send(d, Online(session[d]))
  /\ UNCHANGED <<session, drawn, wills, young, attached, ingestVars, rowVars,
                 troubled>>

\* Not retained; the ticker runs whether or not "online" was published.
Heartbeat(d) ==
  /\ conn[d] # "none" /\ attached
  /\ Send(d, Online(session[d]))
  /\ UNCHANGED <<agentVars, willVars, attached, ingestVars, rowVars,
                 troubled>>

\* The connection breaks; the will follows once the broker has noticed.
LoseConnection(d) ==
  /\ conn[d] # "none"
  /\ conn' = [conn EXCEPT ![d] = "none"]
  /\ wills' = [wills EXCEPT ![d] = @ \cup {session[d]}]
  /\ troubled' = troubled \cup {d}
  /\ UNCHANGED <<session, drawn, retained, young, linkVars, ingestVars, rowVars>>

Crash(d) ==
  /\ session[d] # Nothing
  /\ session' = [session EXCEPT ![d] = Nothing]
  /\ conn' = [conn EXCEPT ![d] = "none"]
  /\ wills' = [wills EXCEPT ![d] =
                 IF conn[d] = "none" THEN @ ELSE @ \cup {session[d]}]
  /\ troubled' = troubled \cup {d}
  /\ UNCHANGED <<drawn, retained, young, linkVars, ingestVars, rowVars>>

\* A planned stop publishes "offline" itself; the broker drops the will.
Disconnect(d) ==
  /\ conn[d] # "none"
  /\ session' = [session EXCEPT ![d] = Nothing]
  /\ conn' = [conn EXCEPT ![d] = "none"]
  /\ Retain(d, Offline(session[d]))
  /\ Send(d, Offline(session[d]))
  /\ troubled' = troubled \cup {d}
  /\ UNCHANGED <<drawn, wills, young, attached, ingestVars, rowVars>>

-----------------------------------------------------------------------------
(* The broker.                                                             *)

FireWill(d, s) ==
  /\ s \in wills[d]
  /\ wills' = [wills EXCEPT ![d] = @ \ {s}]
  /\ Retain(d, Offline(s))
  /\ Send(d, Offline(s))
  /\ UNCHANGED <<agentVars, young, attached, ingestVars, rowVars, troubled>>

\* All connections and wills are gone; retained messages survive only with
\* persistence.
RestartBroker ==
  /\ young' = TRUE
  /\ conn' = [d \in Devices |-> "none"]
  /\ wills' = [d \in Devices |-> {}]
  /\ retained' \in {retained, [d \in Devices |-> Nothing]}
  /\ attached' = FALSE /\ wire' = [d \in Devices |-> <<>>]
  /\ troubled' = Devices
  /\ UNCHANGED <<session, drawn, ingestVars, rowVars>>

Mature ==
  /\ young /\ young' = FALSE
  /\ UNCHANGED <<agentVars, wills, retained, linkVars, ingestVars, rowVars,
                 troubled>>

-----------------------------------------------------------------------------
(* The worker's connection, and handleStatus.                              *)

\* The worker's session is clean: what was on its way is lost.
Detach ==
  /\ attached /\ attached' = FALSE
  /\ wire' = [d \in Devices |-> <<>>]
  /\ UNCHANGED <<agentVars, willVars, ingestVars, rowVars, troubled>>

RestartWorker ==
  /\ attached' = FALSE
  /\ wire' = [d \in Devices |-> <<>>]
  /\ slot' = [k \in Slots |-> Nothing] /\ grace' = FALSE
  /\ reaping' = [d \in Devices |-> 0]
  /\ UNCHANGED <<agentVars, willVars, rowVars, troubled>>

\* Subscribing brings the retained status of every device.
Attach ==
  /\ ~attached /\ attached' = TRUE
  /\ wire' = [d \in Devices |->
                IF retained[d] = Nothing THEN <<>> ELSE <<retained[d]>>]
  /\ UNCHANGED <<agentVars, willVars, ingestVars, rowVars, troubled>>

\* $SYS/broker/uptime below 120 s opens the grace window.
DetectRestart ==
  /\ attached /\ young /\ ~grace
  /\ grace' = TRUE
  /\ UNCHANGED <<agentVars, willVars, linkVars, slot, reaping, rowVars,
                 troubled>>

EndGrace ==
  /\ grace /\ ~young
  /\ grace' = FALSE
  /\ UNCHANGED <<agentVars, willVars, linkVars, slot, reaping, rowVars,
                 troubled>>

OnMessage(d, k) ==
  /\ slot[k] = Nothing /\ wire[d] # <<>>
  /\ slot' = [slot EXCEPT ![k] = [device |-> d, msg |-> Head(wire[d]),
                                  read |-> Nothing, step |-> "read"]]
  /\ wire' = [wire EXCEPT ![d] = Tail(@)]
  /\ UNCHANGED <<agentVars, willVars, attached, grace, reaping, rowVars,
                 troubled>>

ReadDevice(k) ==
  /\ slot[k] # Nothing /\ slot[k].step = "read"
  /\ slot' = [slot EXCEPT ![k].step = "write",
                          ![k].read = currentSessionId[slot[k].device]]
  /\ UNCHANGED <<agentVars, willVars, linkVars, grace, reaping, rowVars,
                 troubled>>

\* Mutated: only the connect message brings a device back, heartbeats merely
\* refresh lastSeenAt.
StatusAfterOnline(d, s) == IF s = currentSessionId[d] THEN status[d] ELSE "ONLINE"

\* Mutated: the payload's state is stored as it came.
StatusVerbatim(d, s) == "online"

StatusOfOnline(d, s) == "ONLINE"

\* The fence: a will of another session than the one that was read.
Superseded(read, s) == read # Nothing /\ s # read

WriteDevice(k) ==
  LET d == slot[k].device
      s == slot[k].msg.session
  IN
  /\ slot[k] # Nothing /\ slot[k].step = "write"
  /\ slot' = [slot EXCEPT ![k] = Nothing]
  /\ \/ /\ slot[k].msg.state = "online"
        /\ status' = [status EXCEPT ![d] = StatusOfOnline(d, s)]
        /\ currentSessionId' = [currentSessionId EXCEPT ![d] = s]
        /\ fresh' = fresh \cup {d}
     \/ /\ slot[k].msg.state = "offline" /\ ~Superseded(slot[k].read, s)
        /\ status' = [status EXCEPT ![d] = "OFFLINE"]
        /\ fresh' = fresh \cup {d}
        /\ UNCHANGED currentSessionId
     \/ /\ slot[k].msg.state = "offline" /\ Superseded(slot[k].read, s)
        /\ UNCHANGED rowVars
  /\ UNCHANGED <<agentVars, willVars, linkVars, grace, reaping, troubled>>

\* The read or the update is rejected: onMessage logs it and drops the message.
HandlerFails(k) ==
  /\ slot[k] # Nothing
  /\ slot' = [slot EXCEPT ![k] = Nothing]
  /\ UNCHANGED <<agentVars, willVars, linkVars, grace, reaping, rowVars,
                 troubled>>

-----------------------------------------------------------------------------
(* Silence, and the reaper.                                                *)

\* lastSeenAt grows older than STALE_AFTER_MS, six heartbeat intervals, unless
\* heartbeats arrive.
Silence(d) ==
  /\ d \in fresh
  /\ ~(conn[d] # "none" /\ attached)
  /\ fresh' = fresh \ {d}
  /\ troubled' = troubled \cup {d}
  /\ UNCHANGED <<agentVars, willVars, linkVars, ingestVars, status,
                 currentSessionId>>

\* Mutated: the comparison with staleBefore is missing.
AllOnline == {d \in Devices : status[d] = "ONLINE"}

\* Mutated: devices that announced a session are left to their will.
StaleUnannounced ==
  {d \in Devices : status[d] = "ONLINE" /\ d \notin fresh /\ currentSessionId[d] = Nothing}

Stale == {d \in Devices : status[d] = "ONLINE" /\ d \notin fresh}

ReapRead ==
  /\ ~grace /\ attached
  /\ \A d \in Devices : reaping[d] < PassLimit
  /\ reaping' = [d \in Devices |-> reaping[d] + (IF d \in Stale THEN 1 ELSE 0)]
  /\ UNCHANGED <<agentVars, willVars, linkVars, slot, grace, rowVars,
                 troubled>>

ReapWrite(d) ==
  /\ reaping[d] > 0
  /\ status' = [status EXCEPT ![d] = "OFFLINE"]
  /\ reaping' = [reaping EXCEPT ![d] = @ - 1]
  /\ UNCHANGED <<agentVars, willVars, linkVars, slot, grace,
                 currentSessionId, fresh, troubled>>

\* The update is rejected: the pass ends, what it has read is forgotten.
ReapAborts(d) ==
  /\ reaping[d] > 0
  /\ reaping' = [reaping EXCEPT ![d] = @ - 1]
  /\ UNCHANGED <<agentVars, willVars, linkVars, slot, grace, rowVars,
                 troubled>>

-----------------------------------------------------------------------------

PresenceNext ==
  \/ \E d \in Devices, s \in Sessions : StartAgent(d, s) \/ FireWill(d, s)
  \/ \E d \in Devices : Connect(d) \/ Announce(d) \/ Heartbeat(d)
  \/ \E d \in Devices : LoseConnection(d) \/ Crash(d) \/ Disconnect(d)
  \/ RestartBroker \/ Mature
  \/ Detach \/ RestartWorker \/ Attach \/ DetectRestart \/ EndGrace
  \/ \E d \in Devices, k \in Slots : OnMessage(d, k)
  \/ \E k \in Slots : ReadDevice(k) \/ WriteDevice(k) \/ HandlerFails(k)
  \/ \E d \in Devices : Silence(d) \/ ReapWrite(d) \/ ReapAborts(d)
  \/ ReapRead

PresenceSpec == PresenceInit /\ [][PresenceNext]_presenceVars

-----------------------------------------------------------------------------
(* Properties.                                                             *)

\* handleStatus and reap: a device is shown offline only if its connection was
\* ever cut or it was ever silent for STALE_AFTER_MS.
NoFalseAlarm == \A d \in Devices : status[d] = "OFFLINE" => d \in troubled

\* Whatever wills, restarts and reaper passes came before: a device that stays
\* connected while the worker is attached ends up, and stays, online.
ConnectedEndsOnline ==
  \A d \in Devices :
    <>[](conn[d] # "none" /\ attached) => <>[](status[d] = "ONLINE")

\* A device that stays away is not shown online for ever, even if its will was
\* lost with the broker.
GoneEndsOffline ==
  \A d \in Devices :
    <>[](conn[d] = "none" /\ attached) => <>[](status[d] # "ONLINE")

\* README, "Presence is fenced by session_id so a late Last-Will from a
\* superseded session cannot mark a healthy device offline": a device that is
\* connected, announced and known by its session goes offline by the reaper only.
LateWillIsFenced ==
  [][\A d \in Devices :
       /\ conn[d] = "announced" /\ currentSessionId[d] = session[d]
       /\ status[d] = "ONLINE" /\ status'[d] = "OFFLINE"
       => reaping'[d] < reaping[d]]_presenceVars

=============================================================================
