--------------------------- MODULE Presence_proofs ---------------------------
(***************************************************************************)
(* Type correctness of Presence and NoFalseAlarm, for every instance.      *)
(***************************************************************************)
EXTENDS Presence, TLAPS

\* Messages carry the session of the agent, so a connection needs one.
ConnectedRuns == \A d \in Devices : conn[d] # "none" => session[d] # Nothing

TypeInv == PresenceTypeOK /\ ConnectedRuns

\* Nothing says or will say "offline" about the device.
Calm(d) ==
  /\ wills[d] = {}
  /\ (retained[d] # Nothing => retained[d].state = "online")
  /\ \A i \in 1..Len(wire[d]) : wire[d][i].state = "online"
  /\ \A k \in Slots : slot[k] # Nothing /\ slot[k].device = d
                        => slot[k].msg.state = "online"
  /\ reaping[d] = 0
  /\ status[d] # "OFFLINE"
  /\ (status[d] = "ONLINE" => d \in fresh)

\* "offline" is on its way, stored, or about to be written for troubled devices
\* only; so is a device that is still online though it has gone silent.
Alarmed == \A d \in Devices : d \in troubled \/ Calm(d)

-----------------------------------------------------------------------------

\* The two messages have the shape of a status message.
LEMMA MessageType ==
  \A s \in Sessions : /\ Online(s) \in StatusMessage /\ Offline(s) \in StatusMessage
                      /\ Online(s).state = "online" /\ Offline(s).state = "offline"
BY DEF Online, Offline, StatusMessage

\* Sending keeps the wire well formed and within its bound.
LEMMA SendType ==
  ASSUME PresenceTypeOK, NEW d \in Devices, NEW m \in StatusMessage, Send(d, m)
  PROVE  /\ wire' \in [Devices -> Seq(StatusMessage)]
         /\ \A e \in Devices : Len(wire'[e]) <= WireLimit
<1>1. WireLimit \in Nat
  BY PresenceAssumption
<1>2. /\ wire \in [Devices -> Seq(StatusMessage)]
      /\ \A e \in Devices : Len(wire[e]) <= WireLimit
  BY DEF PresenceTypeOK
<1>3. CASE ~attached
  BY <1>2, <1>3 DEF Send
<1>4. CASE attached
  <2> DEFINE longer == Append(wire[d], m)
  <2>1. wire' = [wire EXCEPT ![d] = longer]
    BY <1>4 DEF Send
  <2>2. Len(wire[d]) < WireLimit
    BY DEF Send
  <2>3. wire[d] \in Seq(StatusMessage)
    BY <1>2
  <2>4. longer \in Seq(StatusMessage) /\ Len(longer) = Len(wire[d]) + 1
    BY <2>3
  <2>5. Len(wire[d]) \in Nat
    BY <2>3
  <2>6. Len(longer) <= WireLimit
    BY <1>1, <2>2, <2>4, <2>5
  <2> HIDE DEF longer
  <2>7. wire' \in [Devices -> Seq(StatusMessage)]
    BY <1>2, <2>1, <2>4
  <2>8. \A e \in Devices : wire'[e] = IF e = d THEN longer ELSE wire[e]
    BY <1>2, <2>1
  <2>9. \A e \in Devices : Len(wire'[e]) <= WireLimit
    BY <1>2, <2>6, <2>8
  <2>10. QED
    BY <2>7, <2>9
<1>5. QED
  BY <1>3, <1>4

\* What Send and Retain add is the message given to them.
LEMMA SendAdds ==
  ASSUME PresenceTypeOK, NEW d \in Devices, NEW m \in StatusMessage, Send(d, m),
         NEW e \in Devices, NEW i \in 1..Len(wire'[e])
  PROVE  \/ i \in 1..Len(wire[e]) /\ wire'[e][i] = wire[e][i]
         \/ e = d /\ wire'[e][i] = m
<1>1. wire \in [Devices -> Seq(StatusMessage)]
  BY DEF PresenceTypeOK
<1>2. CASE ~attached
  BY <1>2 DEF Send
<1>3. CASE attached
  <2>1. wire' = [wire EXCEPT ![d] = Append(wire[d], m)]
    BY <1>3 DEF Send
  <2>2. CASE e # d
    BY <1>1, <2>1, <2>2
  <2>3. CASE e = d
    <3>1. wire'[e] = Append(wire[d], m)
      BY <1>1, <2>1, <2>3
    <3>2. wire[d] \in Seq(StatusMessage)
      BY <1>1
    <3>3. QED
      BY <2>3, <3>1, <3>2
  <2>4. QED
    BY <2>2, <2>3
<1>4. QED
  BY <1>2, <1>3

\* Sending "online" leaves a wire that says nothing else as it is.
LEMMA SendOnline ==
  ASSUME PresenceTypeOK, NEW d \in Devices, NEW m \in StatusMessage, Send(d, m),
         m.state = "online", NEW e \in Devices,
         \A i \in 1..Len(wire[e]) : wire[e][i].state = "online"
  PROVE  \A i \in 1..Len(wire'[e]) : wire'[e][i].state = "online"
<1>. SUFFICES ASSUME NEW i \in 1..Len(wire'[e])
              PROVE  wire'[e][i].state = "online"
  OBVIOUS
<1>. QED
  BY SendAdds

\* Subscribing brings at most the retained message, which the bound admits.
LEMMA AttachType ==
  ASSUME PresenceTypeOK, Attach
  PROVE  /\ wire' \in [Devices -> Seq(StatusMessage)]
         /\ \A e \in Devices : Len(wire'[e]) <= WireLimit
         /\ \A e \in Devices : \A i \in 1..Len(wire'[e]) :
              retained[e] # Nothing /\ wire'[e][i] = retained[e]
<1>1. WireLimit \in Nat \ {0}
  BY PresenceAssumption
<1>2. wire' = [e \in Devices |-> IF retained[e] = Nothing THEN <<>> ELSE <<retained[e]>>]
  BY DEF Attach
<1>3. SUFFICES ASSUME NEW e \in Devices
               PROVE  /\ wire'[e] \in Seq(StatusMessage)
                      /\ Len(wire'[e]) <= WireLimit
                      /\ \A i \in 1..Len(wire'[e]) :
                           retained[e] # Nothing /\ wire'[e][i] = retained[e]
  BY <1>2, Zenon
<1>4. CASE retained[e] = Nothing
  <2>1. wire'[e] = <<>>
    BY <1>2, <1>4
  <2>2. QED
    BY <1>1, <2>1
<1>5. CASE retained[e] # Nothing
  <2>1. wire'[e] = <<retained[e]>>
    BY <1>2, <1>5
  <2>2. retained[e] \in StatusMessage
    BY <1>5 DEF PresenceTypeOK
  <2>3. QED
    BY <1>1, <1>5, <2>1, <2>2
<1>6. QED
  BY <1>4, <1>5

\* A clean session: nothing is on the wire.
LEMMA EmptyWire ==
  ASSUME wire' = [d \in Devices |-> <<>>]
  PROVE  /\ wire' \in [Devices -> Seq(StatusMessage)]
         /\ \A e \in Devices : Len(wire'[e]) <= WireLimit
         /\ \A e \in Devices : Len(wire'[e]) = 0
<1>1. WireLimit \in Nat
  BY PresenceAssumption
<1>2. \A e \in Devices : wire'[e] = <<>>
  OBVIOUS
<1>3. QED
  BY <1>1, <1>2

-----------------------------------------------------------------------------
(* Type correctness.                                                       *)

\* Every handler keeps every variable in its type, and a connection is always
\* that of a running agent.
LEMMA StepKeepsTypes ==
  ASSUME TypeInv, [PresenceNext]_presenceVars
  PROVE  TypeInv'
<1>. USE PresenceAssumption DEF TypeInv, ConnectedRuns, PresenceTypeOK
<1>. USE DEF agentVars, willVars, linkVars, ingestVars, rowVars
<1>1. ASSUME NEW d \in Devices, NEW s \in Sessions, StartAgent(d, s) PROVE TypeInv'
  BY <1>1 DEF StartAgent
<1>2. ASSUME NEW d \in Devices, NEW s \in Sessions, FireWill(d, s) PROVE TypeInv'
  <2>1. Offline(s) \in StatusMessage
    BY <1>2, MessageType DEF FireWill
  <2>2. Send(d, Offline(s))
    BY <1>2 DEF FireWill
  <2>3. /\ wire' \in [Devices -> Seq(StatusMessage)]
        /\ \A e \in Devices : Len(wire'[e]) <= WireLimit
    BY <2>1, <2>2, SendType
  <2>. QED
    BY <1>2, <2>1, <2>3 DEF FireWill, Retain
<1>3. ASSUME NEW d \in Devices, Connect(d) PROVE TypeInv'
  BY <1>3 DEF Connect
<1>4. ASSUME NEW d \in Devices, Announce(d) PROVE TypeInv'
  <2>1. Online(session[d]) \in StatusMessage
    BY <1>4, MessageType DEF Announce
  <2>2. Send(d, Online(session[d]))
    BY <1>4 DEF Announce
  <2>3. /\ wire' \in [Devices -> Seq(StatusMessage)]
        /\ \A e \in Devices : Len(wire'[e]) <= WireLimit
    BY <2>1, <2>2, SendType
  <2>. QED
    BY <1>4, <2>1, <2>3 DEF Announce, Retain
<1>5. ASSUME NEW d \in Devices, Heartbeat(d) PROVE TypeInv'
  <2>1. Online(session[d]) \in StatusMessage
    BY <1>5, MessageType DEF Heartbeat
  <2>2. Send(d, Online(session[d]))
    BY <1>5 DEF Heartbeat
  <2>3. /\ wire' \in [Devices -> Seq(StatusMessage)]
        /\ \A e \in Devices : Len(wire'[e]) <= WireLimit
    BY <2>1, <2>2, SendType
  <2>. QED
    BY <1>5, <2>1, <2>3 DEF Heartbeat
<1>6. ASSUME NEW d \in Devices, LoseConnection(d) PROVE TypeInv'
  BY <1>6 DEF LoseConnection
<1>7. ASSUME NEW d \in Devices, Crash(d) PROVE TypeInv'
  BY <1>7 DEF Crash
<1>8. ASSUME NEW d \in Devices, Disconnect(d) PROVE TypeInv'
  <2>1. Offline(session[d]) \in StatusMessage
    BY <1>8, MessageType DEF Disconnect
  <2>2. Send(d, Offline(session[d]))
    BY <1>8 DEF Disconnect
  <2>3. /\ wire' \in [Devices -> Seq(StatusMessage)]
        /\ \A e \in Devices : Len(wire'[e]) <= WireLimit
    BY <2>1, <2>2, SendType
  <2>. QED
    BY <1>8, <2>1, <2>3 DEF Disconnect, Retain
<1>9. ASSUME RestartBroker PROVE TypeInv'
  BY <1>9, EmptyWire DEF RestartBroker
<1>10. ASSUME Mature PROVE TypeInv'
  BY <1>10 DEF Mature
<1>11. ASSUME Detach PROVE TypeInv'
  BY <1>11, EmptyWire DEF Detach
<1>12. ASSUME RestartWorker PROVE TypeInv'
  <2>1. 0 \in 0..PassLimit
    OBVIOUS
  <2>2. reaping' \in [Devices -> 0..PassLimit] /\ slot' \in [Slots -> Job \cup {Nothing}]
    BY <1>12, <2>1 DEF RestartWorker
  <2>3. /\ wire' \in [Devices -> Seq(StatusMessage)]
        /\ \A e \in Devices : Len(wire'[e]) <= WireLimit
    BY <1>12, EmptyWire DEF RestartWorker
  <2>. QED
    BY <1>12, <2>2, <2>3 DEF RestartWorker
<1>13. ASSUME Attach PROVE TypeInv'
  BY <1>13, AttachType DEF Attach
<1>14. ASSUME DetectRestart PROVE TypeInv'
  BY <1>14 DEF DetectRestart
<1>15. ASSUME EndGrace PROVE TypeInv'
  BY <1>15 DEF EndGrace
<1>16. ASSUME NEW d \in Devices, NEW k \in Slots, OnMessage(d, k) PROVE TypeInv'
  <2> DEFINE first == Head(wire[d])
              rest == Tail(wire[d])
  <2>1. wire[d] \in Seq(StatusMessage) /\ wire[d] # <<>>
    BY <1>16 DEF OnMessage
  <2>2. first \in StatusMessage /\ rest \in Seq(StatusMessage)
    BY <2>1
  <2>3. Len(rest) <= WireLimit
    <3>1. Len(rest) = Len(wire[d]) - 1 /\ Len(wire[d]) \in Nat
      BY <2>1
    <3>2. Len(wire[d]) <= WireLimit
      OBVIOUS
    <3>. HIDE DEF rest
    <3>. QED
      BY <3>1, <3>2
  <2>4. slot' = [slot EXCEPT ![k] = [device |-> d, msg |-> first,
                                     read |-> Nothing, step |-> "read"]]
    BY <1>16 DEF OnMessage
  <2>5. wire' = [wire EXCEPT ![d] = rest]
    BY <1>16 DEF OnMessage
  <2>. HIDE DEF first, rest
  <2>6. [device |-> d, msg |-> first, read |-> Nothing, step |-> "read"] \in Job
    BY <2>2 DEF Job
  <2>7. slot' \in [Slots -> Job \cup {Nothing}]
    BY <2>4, <2>6
  <2>8. /\ wire' \in [Devices -> Seq(StatusMessage)]
        /\ \A e \in Devices : Len(wire'[e]) <= WireLimit
    BY <2>2, <2>3, <2>5
  <2>. QED
    BY <1>16, <2>7, <2>8 DEF OnMessage
<1>17. ASSUME NEW k \in Slots, ReadDevice(k) PROVE TypeInv'
  <2>1. slot[k] \in Job
    BY <1>17 DEF ReadDevice
  <2>2. /\ slot[k].device \in Devices /\ slot[k].msg \in StatusMessage
        /\ currentSessionId[slot[k].device] \in Sessions \cup {Nothing}
    BY <2>1 DEF Job
  <2>3. [slot[k] EXCEPT !.step = "write", !.read = currentSessionId[slot[k].device]] \in Job
    BY <2>1, <2>2 DEF Job
  <2>4. slot' \in [Slots -> Job \cup {Nothing}]
    BY <1>17, <2>3 DEF ReadDevice
  <2>. QED
    BY <1>17, <2>4 DEF ReadDevice
<1>18. ASSUME NEW k \in Slots, WriteDevice(k) PROVE TypeInv'
  <2>1. slot[k] \in Job
    BY <1>18 DEF WriteDevice
  <2>2. slot[k].device \in Devices /\ slot[k].msg.session \in Sessions
    BY <2>1 DEF Job, StatusMessage
  <2>3. slot' \in [Slots -> Job \cup {Nothing}]
    BY <1>18 DEF WriteDevice
  <2>4. /\ status' \in [Devices -> {"UNKNOWN", "ONLINE", "OFFLINE"}]
        /\ currentSessionId' \in [Devices -> Sessions \cup {Nothing}]
        /\ fresh' \subseteq Devices
    BY <1>18, <2>2 DEF WriteDevice, StatusOfOnline
  <2>. QED
    BY <1>18, <2>3, <2>4 DEF WriteDevice
<1>19. ASSUME NEW k \in Slots, HandlerFails(k) PROVE TypeInv'
  BY <1>19 DEF HandlerFails
<1>20. ASSUME NEW d \in Devices, Silence(d) PROVE TypeInv'
  BY <1>20 DEF Silence
<1>21. ASSUME NEW d \in Devices, ReapWrite(d) PROVE TypeInv'
  BY <1>21 DEF ReapWrite
<1>22. ASSUME NEW d \in Devices, ReapAborts(d) PROVE TypeInv'
  BY <1>22 DEF ReapAborts
<1>23. ASSUME ReapRead PROVE TypeInv'
  BY <1>23 DEF ReapRead
<1>24. ASSUME UNCHANGED presenceVars PROVE TypeInv'
  BY <1>24 DEF presenceVars
<1>25. QED
  BY <1>1, <1>2, <1>3, <1>4, <1>5, <1>6, <1>7, <1>8, <1>9, <1>10, <1>11, <1>12,
     <1>13, <1>14, <1>15, <1>16, <1>17, <1>18, <1>19, <1>20, <1>21, <1>22, <1>23, <1>24 DEF PresenceNext

\* Nothing is connected, on its way or being handled at the start.
LEMMA InitialTypes == PresenceInit => TypeInv
<1>. SUFFICES ASSUME PresenceInit PROVE TypeInv
  OBVIOUS
<1>1. reaping \in [Devices -> 0..PassLimit]
  BY PresenceAssumption DEF PresenceInit
<1>2. \A d \in Devices : wire[d] = <<>>
  BY DEF PresenceInit
<1>3. wire \in [Devices -> Seq(StatusMessage)]
  BY DEF PresenceInit
<1>4. \A d \in Devices : Len(wire[d]) <= WireLimit
  BY <1>2, PresenceAssumption
<1>5. conn \in [Devices -> {"none", "connected", "announced"}]
  BY DEF PresenceInit
<1>. QED
  BY <1>1, <1>3, <1>4, <1>5 DEF PresenceInit, TypeInv, ConnectedRuns, PresenceTypeOK

\* Whatever the number of devices, sessions and concurrent handlers, rows and
\* messages keep their shape and the bounds hold.
THEOREM PresenceTypeCorrect == PresenceSpec => []PresenceTypeOK
<1>1. PresenceInit => TypeInv
  BY InitialTypes
<1>2. TypeInv /\ [PresenceNext]_presenceVars => TypeInv'
  BY StepKeepsTypes
<1>3. TypeInv => PresenceTypeOK
  BY DEF TypeInv
<1>. QED
  BY <1>1, <1>2, <1>3, PTL DEF PresenceSpec

-----------------------------------------------------------------------------
(* No false alarm.                                                         *)

\* Every step that brings "offline" into the world is about a device whose
\* connection was cut or that was silent, and the reaper reads only those.
LEMMA StepKeepsAlarmed ==
  ASSUME TypeInv, Alarmed, [PresenceNext]_presenceVars, NEW e \in Devices
  PROVE  (e \in troubled \/ Calm(e))'
<1>. USE DEF TypeInv, PresenceTypeOK, Alarmed, Calm
<1>. USE DEF agentVars, willVars, linkVars, ingestVars, rowVars
<1>1. ASSUME NEW d \in Devices, NEW s \in Sessions, StartAgent(d, s)
      PROVE (e \in troubled \/ Calm(e))'
  BY <1>1 DEF StartAgent
<1>2. ASSUME NEW d \in Devices, NEW s \in Sessions, FireWill(d, s)
      PROVE (e \in troubled \/ Calm(e))'
  <2>1. Offline(s) \in StatusMessage
    BY <1>2, MessageType DEF FireWill, ConnectedRuns
  <2>2. Send(d, Offline(s))
    BY <1>2 DEF FireWill
  <2>3. CASE e = d
    BY <1>2, <2>3 DEF FireWill
  <2>4. CASE e # d
    <3>1. wire'[e] = wire[e]
      BY <2>2, <2>4 DEF Send
    <3>. QED
      BY <1>2, <2>4, <3>1 DEF FireWill, Retain
  <2>. QED
    BY <2>3, <2>4
<1>3. ASSUME NEW d \in Devices, Connect(d)
      PROVE (e \in troubled \/ Calm(e))'
  BY <1>3 DEF Connect
<1>4. ASSUME NEW d \in Devices, Announce(d)
      PROVE (e \in troubled \/ Calm(e))'
  <2>1. Online(session[d]) \in StatusMessage
    BY <1>4, MessageType DEF Announce, ConnectedRuns
  <2>2. Send(d, Online(session[d]))
    BY <1>4 DEF Announce
  <2>3. Online(session[d]).state = "online"
    BY DEF Online
  <2>4. CASE e \in troubled
    BY <1>4, <2>4 DEF Announce
  <2>5. CASE Calm(e)
    <3>1. \A i \in 1..Len(wire'[e]) : wire'[e][i].state = "online"
      <4>1. \A i \in 1..Len(wire[e]) : wire[e][i].state = "online"
        BY <2>5
      <4>. HIDE DEF TypeInv, PresenceTypeOK, Calm, Alarmed
      <4>2. PresenceTypeOK
        BY DEF TypeInv
      <4>. QED
        BY <2>1, <2>2, <2>3, <4>1, <4>2, SendOnline
    <3>. QED
      BY <1>4, <2>3, <2>5, <3>1 DEF Announce, Retain
  <2>. QED
    BY <2>4, <2>5
<1>5. ASSUME NEW d \in Devices, Heartbeat(d)
      PROVE (e \in troubled \/ Calm(e))'
  <2>1. Online(session[d]) \in StatusMessage
    BY <1>5, MessageType DEF Heartbeat, ConnectedRuns
  <2>2. Send(d, Online(session[d]))
    BY <1>5 DEF Heartbeat
  <2>3. Online(session[d]).state = "online"
    BY DEF Online
  <2>4. CASE e \in troubled
    BY <1>5, <2>4 DEF Heartbeat
  <2>5. CASE Calm(e)
    <3>1. \A i \in 1..Len(wire'[e]) : wire'[e][i].state = "online"
      <4>1. \A i \in 1..Len(wire[e]) : wire[e][i].state = "online"
        BY <2>5
      <4>. HIDE DEF TypeInv, PresenceTypeOK, Calm, Alarmed
      <4>2. PresenceTypeOK
        BY DEF TypeInv
      <4>. QED
        BY <2>1, <2>2, <2>3, <4>1, <4>2, SendOnline
    <3>. QED
      BY <1>5, <2>3, <2>5, <3>1 DEF Heartbeat, Retain
  <2>. QED
    BY <2>4, <2>5
<1>6. ASSUME NEW d \in Devices, LoseConnection(d)
      PROVE (e \in troubled \/ Calm(e))'
  BY <1>6 DEF LoseConnection
<1>7. ASSUME NEW d \in Devices, Crash(d)
      PROVE (e \in troubled \/ Calm(e))'
  BY <1>7 DEF Crash
<1>8. ASSUME NEW d \in Devices, Disconnect(d)
      PROVE (e \in troubled \/ Calm(e))'
  <2>1. Offline(session[d]) \in StatusMessage
    BY <1>8, MessageType DEF Disconnect, ConnectedRuns
  <2>2. Send(d, Offline(session[d]))
    BY <1>8 DEF Disconnect
  <2>3. CASE e = d
    BY <1>8, <2>3 DEF Disconnect
  <2>4. CASE e # d
    <3>1. wire'[e] = wire[e]
      BY <2>2, <2>4 DEF Send
    <3>. QED
      BY <1>8, <2>4, <3>1 DEF Disconnect, Retain
  <2>. QED
    BY <2>3, <2>4
<1>9. ASSUME RestartBroker
      PROVE (e \in troubled \/ Calm(e))'
  BY <1>9 DEF RestartBroker
<1>10. ASSUME Mature
      PROVE (e \in troubled \/ Calm(e))'
  BY <1>10 DEF Mature
<1>11. ASSUME Detach
      PROVE (e \in troubled \/ Calm(e))'
  BY <1>11, EmptyWire DEF Detach
<1>12. ASSUME RestartWorker
      PROVE (e \in troubled \/ Calm(e))'
  BY <1>12, EmptyWire DEF RestartWorker
<1>13. ASSUME Attach
      PROVE (e \in troubled \/ Calm(e))'
  BY <1>13, AttachType DEF Attach
<1>14. ASSUME DetectRestart
      PROVE (e \in troubled \/ Calm(e))'
  BY <1>14 DEF DetectRestart
<1>15. ASSUME EndGrace
      PROVE (e \in troubled \/ Calm(e))'
  BY <1>15 DEF EndGrace
<1>16. ASSUME NEW d \in Devices, NEW k \in Slots, OnMessage(d, k)
      PROVE (e \in troubled \/ Calm(e))'
  <2>1. wire[d] \in Seq(StatusMessage) /\ wire[d] # <<>>
    BY <1>16 DEF OnMessage
  <2>2. /\ Len(wire[d]) \in Nat \ {0}
        /\ Head(wire[d]) = wire[d][1]
        /\ Len(Tail(wire[d])) = Len(wire[d]) - 1
        /\ \A i \in 1..Len(Tail(wire[d])) : Tail(wire[d])[i] = wire[d][i + 1]
    BY <2>1
  <2>3. CASE e # d
    BY <1>16, <2>3 DEF OnMessage
  <2>4. CASE e = d /\ Calm(d)
    <3>1. \A i \in 1..Len(wire'[d]) : wire'[d][i].state = "online"
      BY <1>16, <2>2, <2>4 DEF OnMessage
    <3>2. Head(wire[d]).state = "online"
      <4>1. 1 \in 1..Len(wire[d])
        BY <2>2
      <4>2. wire[d][1].state = "online"
        BY <2>4, <4>1
      <4>. QED
        BY <2>2, <4>2
    <3>. QED
      BY <1>16, <2>4, <3>1, <3>2 DEF OnMessage
  <2>5. CASE e = d /\ e \in troubled
    BY <1>16, <2>5 DEF OnMessage
  <2>. QED
    BY <2>3, <2>4, <2>5
<1>17. ASSUME NEW k \in Slots, ReadDevice(k)
      PROVE (e \in troubled \/ Calm(e))'
  BY <1>17 DEF ReadDevice, Job
<1>18. ASSUME NEW k \in Slots, WriteDevice(k)
      PROVE (e \in troubled \/ Calm(e))'
  <2>1. slot[k] \in Job /\ slot[k] # Nothing
    BY <1>18 DEF WriteDevice
  <2>2. slot[k].device \in Devices
    BY <2>1 DEF Job
  <2>3. CASE slot[k].device # e
    BY <1>18, <2>2, <2>3 DEF WriteDevice
  <2>4. CASE slot[k].device = e /\ e \in troubled
    BY <1>18, <2>4 DEF WriteDevice
  <2>5. CASE slot[k].device = e /\ Calm(e)
    <3>1. slot[k].msg.state = "online"
      BY <2>1, <2>5
    <3>2. status' = [status EXCEPT ![e] = "ONLINE"] /\ fresh' = fresh \cup {e}
      BY <1>18, <2>5, <3>1 DEF WriteDevice, StatusOfOnline
    <3>3. \A j \in Slots : slot'[j] # Nothing => slot'[j] = slot[j]
      BY <1>18 DEF WriteDevice
    <3>. QED
      BY <1>18, <2>5, <3>2, <3>3 DEF WriteDevice
  <2>. QED
    BY <2>3, <2>4, <2>5
<1>19. ASSUME NEW k \in Slots, HandlerFails(k)
      PROVE (e \in troubled \/ Calm(e))'
  BY <1>19 DEF HandlerFails
<1>20. ASSUME NEW d \in Devices, Silence(d)
      PROVE (e \in troubled \/ Calm(e))'
  BY <1>20 DEF Silence
<1>21. ASSUME NEW d \in Devices, ReapWrite(d)
      PROVE (e \in troubled \/ Calm(e))'
  BY <1>21 DEF ReapWrite
<1>22. ASSUME NEW d \in Devices, ReapAborts(d)
      PROVE (e \in troubled \/ Calm(e))'
  BY <1>22 DEF ReapAborts
<1>23. ASSUME ReapRead
      PROVE (e \in troubled \/ Calm(e))'
  <2>1. CASE e \in troubled
    BY <1>23, <2>1 DEF ReapRead
  <2>2. CASE Calm(e)
    <3>1. e \notin Stale
      BY <2>2 DEF Stale
    <3>2. reaping'[e] = reaping[e] + 0
      BY <1>23, <3>1 DEF ReapRead
    <3>. QED
      BY <1>23, <2>2, <3>2 DEF ReapRead
  <2>. QED
    BY <2>1, <2>2
<1>24. ASSUME UNCHANGED presenceVars
      PROVE (e \in troubled \/ Calm(e))'
  BY <1>24 DEF presenceVars
<1>25. QED
  BY <1>1, <1>2, <1>3, <1>4, <1>5, <1>6, <1>7, <1>8, <1>9, <1>10, <1>11, <1>12,
     <1>13, <1>14, <1>15, <1>16, <1>17, <1>18, <1>19, <1>20, <1>21, <1>22, <1>23, <1>24 DEF PresenceNext

\* However wills, restarts, concurrent handlers and reaper passes interleave, a
\* device whose connection was never cut and that never fell silent is never
\* shown offline.
THEOREM NoFalseAlarmHolds == PresenceSpec => []NoFalseAlarm
<1>1. PresenceInit => Alarmed
  BY DEF PresenceInit, Alarmed, Calm
<1>2. TypeInv /\ Alarmed /\ [PresenceNext]_presenceVars => Alarmed'
  BY StepKeepsAlarmed DEF Alarmed
<1>3. Alarmed => NoFalseAlarm
  BY DEF Alarmed, Calm, NoFalseAlarm
<1>4. PresenceInit => TypeInv
  BY InitialTypes
<1>5. TypeInv /\ [PresenceNext]_presenceVars => TypeInv'
  BY StepKeepsTypes
<1>. QED
  BY <1>1, <1>2, <1>3, <1>4, <1>5, PTL DEF PresenceSpec
=============================================================================
