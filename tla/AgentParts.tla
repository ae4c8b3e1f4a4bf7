------------------------------ MODULE AgentParts ------------------------------
(***************************************************************************)
(* The two things the backend relies on an agent for, side by side: that   *)
(* its dispatcher carries out commands and answers them, and that it can   *)
(* be told whether the device is there.  They share no state: a step of    *)
(* one is a stutter of the other, so that a behaviour of the whole is a    *)
(* behaviour of each.  "part" is the one whose steps are taken.            *)
(***************************************************************************)
EXTENDS AgentDispatcher, Presence

VARIABLE part

agentPartsVars == <<part, vars, presenceVars>>

AgentPartsInit ==
  /\ part \in {"dispatcher", "presence"}
  /\ Init /\ PresenceInit

DispatcherStep(A) == part = "dispatcher" /\ A /\ UNCHANGED <<part, presenceVars>>
PresenceStep(A)   == part = "presence" /\ A /\ UNCHANGED <<part, vars>>

AgentPartsNext == DispatcherStep(Next) \/ PresenceStep(PresenceNext)

AgentPartsSpec == AgentPartsInit /\ [][AgentPartsNext]_agentPartsVars

-----------------------------------------------------------------------------

\* Goroutines are scheduled, and exec.Run returns: its context has a deadline
\* and WaitDelay closes the pipes of a process that ignores the signal.
DispatcherFairness ==
  /\ \A h \in Handlers : WF_agentPartsVars(DispatcherStep(HandlerStep(h)))
  /\ \A w \in Workers :
       /\ WF_agentPartsVars(DispatcherStep(Take(w)))
       /\ WF_agentPartsVars(DispatcherStep(\E o \in Outcome : Finish(w, o)))

\* The heartbeat ticker and the reaper's interval fire for ever, messages that
\* have arrived are handled, and the database does not fail for ever: that is why
\* the reads and writes of a handler and of a pass, which may be rejected, are
\* strongly fair.  Time passes.
PresenceFairness ==
  /\ \A d \in Devices :
       /\ WF_agentPartsVars(PresenceStep(Heartbeat(d)))
       /\ WF_agentPartsVars(PresenceStep(Silence(d)))
       /\ WF_agentPartsVars(PresenceStep(\E k \in Slots : OnMessage(d, k)))
       /\ SF_agentPartsVars(PresenceStep(ReapWrite(d)))
  /\ SF_agentPartsVars(PresenceStep(\E k \in Slots : ReadDevice(k)))
  /\ SF_agentPartsVars(PresenceStep(\E k \in Slots : WriteDevice(k)))
  /\ WF_agentPartsVars(PresenceStep(ReapRead))
  /\ WF_agentPartsVars(PresenceStep(Mature))
  /\ WF_agentPartsVars(PresenceStep(EndGrace))

FairAgentPartsSpec == AgentPartsSpec /\ DispatcherFairness /\ PresenceFairness
=============================================================================
