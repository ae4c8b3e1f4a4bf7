---------------------------- MODULE AgentContract ----------------------------
(***************************************************************************)
(* What agents promise the backend, command by command: an abstraction of  *)
(* AgentDispatcher that keeps only causality.  "running" and "rejected"    *)
(* may answer any delivered command (a duplicate of one that still waits   *)
(* is told "running"; a late copy of one that has run is told "rejected"), *)
(* but a verdict is published only for a command that was executed, and    *)
(* only commands that were received are executed or answered at all.       *)
(***************************************************************************)
CONSTANTS
  Ids,          \* command ids
  ExitOutcomes  \* how an execution may end

VARIABLES
  received,  \* ids the broker has for this agent
  executed,  \* ids handed to an executor
  results    \* [id, status] messages published on the result topics

vars == <<received, executed, results>>

Accepted == {"queued", "running"}
Outcome  == {"completed", "failed", "timeout", "canceled", "rejected"}

Msg(id, status) == [id |-> id, status |-> status]
Publish(id, S)  == results' = results \cup {Msg(id, s) : s \in S}

TypeOK ==
  /\ received \subseteq Ids
  /\ executed \subseteq Ids
  /\ results \subseteq [id : Ids, status : Accepted \cup Outcome]

Init == received = {} /\ executed = {} /\ results = {}

Receive(id) == received' = received \cup {id} /\ UNCHANGED <<executed, results>>

\* Received, and refused at once because it has expired.
Refuse(id) ==
  /\ received' = received \cup {id}
  /\ Publish(id, {"rejected"})
  /\ UNCHANGED executed

Acknowledge(id) ==
  /\ id \in received
  /\ Publish(id, {"queued"})
  /\ UNCHANGED <<received, executed>>

\* Refused, or a duplicate, or taken from the queue but not spawned.
Answer(id) ==
  /\ id \in received
  /\ \E S \in {{"running"}, {"rejected"}, {"running", "rejected"}} :
       Publish(id, S)
  /\ UNCHANGED <<received, executed>>

Execute(id) ==
  /\ id \in received
  /\ executed' = executed \cup {id}
  /\ \E S \in {{"running"}, {}, {"completed"}} : Publish(id, S)
  /\ UNCHANGED received

Report(id, o) ==
  /\ id \in executed /\ o \in ExitOutcomes
  /\ Publish(id, {o})
  /\ UNCHANGED <<received, executed>>

Next == \E id \in Ids :
  \/ Receive(id) \/ Refuse(id)
  \/ Acknowledge(id) \/ Answer(id) \/ Execute(id)
  \/ \E o \in Outcome : Report(id, o)

Spec == Init /\ [][Next]_vars

=============================================================================
