--------------------------- MODULE CommandTracking ---------------------------
(***************************************************************************)
(* The backend's side of a remote command: dispatchCommand in the web      *)
(* process (command.service.ts), handleResult in the ingest worker         *)
(* (worker/handlers.ts) and the command half of its reaper                 *)
(* (worker/main.ts).  They share nothing but the command_history table.    *)
(*                                                                         *)
(* A command is the pair of its batch and its device, which is what        *)
(* commandIdFor hashes.  Messages the broker carries are sets that only    *)
(* grow: a message in the set may be delivered late, twice or never.       *)
(* No step here deletes a row, so the worker's findUnique followed by its  *)
(* write is one step.                                                      *)
(***************************************************************************)
EXTENDS Naturals, FiniteSets

CONSTANTS
  Batches,    \* calls of dispatchCommand
  Devices,    \* devices of the group or selection
  ReapLimit   \* "take" of the reaper's query

ASSUME TrackingAssumption == ReapLimit \in Nat \ {0}

VARIABLES
  phase,         \* progress of dispatchCommand, per batch
  targets,       \* devices the batch was narrowed to
  broadcast,     \* batches published once on the group's topic
  status,        \* command_history.status; "none" where there is no row
  dispatchedAt,  \* commands whose dispatched_at is set
  finishedAt,    \* commands whose finished_at is set
  published,     \* commands the broker may deliver to their device
  overdue,       \* batches whose reaper deadline has passed
  blind,         \* the reaper's early return: grace window or disconnected
  reaping,       \* commands a reaper pass has read as overdue, not yet written
  results        \* messages the agents have published

webVars    == <<phase, targets, broadcast, published>>
rowVars    == <<status, dispatchedAt, finishedAt>>
reaperVars == <<overdue, blind, reaping>>
backendVars == <<webVars, rowVars, reaperVars>>

commandIdFor(b, d) == <<b, d>>
Commands == {commandIdFor(b, d) : b \in Batches, d \in Devices}
BatchOf(c) == c[1]
RowsOf(b) == {commandIdFor(b, d) : d \in targets[b]}

CommandStatus == {"PENDING", "DISPATCHED", "RUNNING",
                  "SUCCEEDED", "FAILED", "TIMEOUT", "CANCELED"}
Terminal == {"SUCCEEDED", "FAILED", "TIMEOUT", "CANCELED"}
Reported(c, s) == [id |-> c, status |-> s] \in results

BackendTypeOK ==
  /\ phase \in [Batches -> {"idle", "inserted", "dispatched", "failed"}]
  /\ targets \in [Batches -> SUBSET Devices]
  /\ broadcast \subseteq Batches
  /\ status \in [Commands -> CommandStatus \cup {"none"}]
  /\ dispatchedAt \subseteq Commands
  /\ finishedAt \subseteq Commands
  /\ published \subseteq Commands
  /\ overdue \subseteq Batches
  /\ blind \in BOOLEAN
  /\ reaping \subseteq Commands

BackendInit ==
  /\ phase = [b \in Batches |-> "idle"]
  /\ targets = [b \in Batches |-> {}] /\ broadcast = {}
  /\ status = [c \in Commands |-> "none"]
  /\ dispatchedAt = {} /\ finishedAt = {} /\ published = {}
  /\ overdue = {} /\ blind = FALSE /\ reaping = {}

-----------------------------------------------------------------------------
(* dispatchCommand.                                                        *)

\* One transaction inserts the batch and a PENDING row per target: the devices
\* of the request that are ONLINE in the database and within the rate limit.
InsertRows(b, T, useBroadcastTopic) ==
  /\ phase[b] = "idle"
  /\ T # {}
  /\ phase' = [phase EXCEPT ![b] = "inserted"]
  /\ targets' = [targets EXCEPT ![b] = T]
  /\ broadcast' = IF useBroadcastTopic THEN broadcast \cup {b} ELSE broadcast
  /\ status' = [c \in Commands |->
                  IF c \in {commandIdFor(b, d) : d \in T} THEN "PENDING"
                  ELSE status[c]]
  /\ UNCHANGED <<published, dispatchedAt, finishedAt, reaperVars, results>>

\* Mutated: a fan-out publish goes to the group's topic.
ReachGroup(b, d) == {commandIdFor(b, e) : e \in Devices}

\* The commands one publish reaches: every member of the group, or one target.
Reach(b, d) == IF b \in broadcast THEN {commandIdFor(b, e) : e \in Devices}
               ELSE {commandIdFor(b, d)}

\* publishCommand of Promise.all.  After one of them was rejected the others
\* are still in the client's outgoing store.
Publish(b, d) ==
  /\ phase[b] \in {"inserted", "failed"}
  /\ d \in targets[b]
  /\ published' = published \cup Reach(b, d)
  /\ UNCHANGED <<phase, targets, broadcast, rowVars, reaperVars, results>>

\* A publish was rejected, or the web process died, before the last write.
DispatchFails(b) ==
  /\ phase[b] = "inserted"
  /\ phase' = [phase EXCEPT ![b] = "failed"]
  /\ UNCHANGED <<targets, broadcast, published, rowVars, reaperVars, results>>

\* All publishes are acknowledged: updateMany over the batch, unconditionally.
MarkDispatched(b) ==
  /\ phase[b] = "inserted"
  /\ RowsOf(b) \subseteq published
  /\ phase' = [phase EXCEPT ![b] = "dispatched"]
  /\ status' = [c \in Commands |->
                  IF c \in RowsOf(b) THEN "DISPATCHED" ELSE status[c]]
  /\ dispatchedAt' = dispatchedAt \cup RowsOf(b)
  /\ UNCHANGED <<targets, broadcast, published, finishedAt, reaperVars, results>>

-----------------------------------------------------------------------------
(* handleResult.                                                           *)

\* Mutated: the worker stores the agent's word for the status.
mapStatusVerbatim(s) == s

\* Mutated: "rejected" falls through to the default of the switch.
mapStatusNoReject(s) == CASE s \in {"completed", "rejected"} -> "SUCCEEDED"
                          [] s = "failed" -> "FAILED"
                          [] s = "timeout" -> "TIMEOUT"
                          [] s = "canceled" -> "CANCELED"

mapStatus(s) == CASE s = "completed" -> "SUCCEEDED"
                  [] s \in {"failed", "rejected"} -> "FAILED"
                  [] s = "timeout" -> "TIMEOUT"
                  [] s = "canceled" -> "CANCELED"

Outcome == {"completed", "failed", "timeout", "canceled", "rejected"}

\* Mutated: the update matches on the id alone.
MayRunAnyRow(c) == status[c] # "none"

MayRun(c) == status[c] \in {"PENDING", "DISPATCHED"}

\* accepted(running): a conditional updateMany.  accepted(queued) is only
\* forwarded to browsers.
HandleRunning(c) ==
  /\ Reported(c, "running")
  /\ MayRun(c)
  /\ status' = [status EXCEPT ![c] = "RUNNING"]
  /\ UNCHANGED <<webVars, dispatchedAt, finishedAt, reaperVars, results>>

\* A terminal result overwrites whatever the row holds; one for an unknown
\* command is dropped.
HandleTerminal(c, o) ==
  /\ Reported(c, o)
  /\ status[c] # "none"
  /\ status' = [status EXCEPT ![c] = mapStatus(o)]
  /\ finishedAt' = finishedAt \cup {c}
  /\ UNCHANGED <<webVars, dispatchedAt, reaperVars, results>>

-----------------------------------------------------------------------------
(* The reaper: read a page of open commands, then write each overdue one.  *)

\* dispatched_at + timeout + 30 s.  expires_at, issued_at + timeout + 30 s on
\* the agent's clock, is tracked by the agent.
DeadlinePasses(b) ==
  /\ phase[b] = "dispatched"
  /\ b \notin overdue
  /\ overdue' = overdue \cup {b}
  /\ UNCHANGED <<webVars, rowVars, blind, reaping, results>>

\* Mutated: commands that reported running are left to their agent.
OpenNotRunning == {c \in dispatchedAt : status[c] = "DISPATCHED"}

Open == {c \in dispatchedAt : status[c] \in {"DISPATCHED", "RUNNING"}}

\* Mutated: the deadline is not compared.
PastAnyDeadline(c) == TRUE

PastDeadline(c) == BatchOf(c) \in overdue

\* findMany without an order: any page of at most ReapLimit open commands.
\* Passes may overlap, setInterval does not wait for the previous one.
ReapRead ==
  /\ ~blind
  /\ \E page \in SUBSET Open :
       /\ Cardinality(page) <= ReapLimit
       /\ page = Open \/ Cardinality(page) = ReapLimit
       /\ reaping' = reaping \cup {c \in page : PastDeadline(c)}
  /\ UNCHANGED <<webVars, rowVars, overdue, blind, results>>

ReapWrite(c) ==
  /\ c \in reaping
  /\ status' = [status EXCEPT ![c] = "TIMEOUT"]
  /\ finishedAt' = finishedAt \cup {c}
  /\ reaping' = reaping \ {c}
  /\ UNCHANGED <<webVars, dispatchedAt, overdue, blind, results>>

\* A restart of the worker, or an error thrown inside the loop.
ReapAborts ==
  /\ reaping # {}
  /\ reaping' = {}
  /\ UNCHANGED <<webVars, rowVars, overdue, blind, results>>

\* Broker restart detected or connection lost; later the window has passed and
\* the client is connected again.
SetBlind(v) ==
  /\ blind # v
  /\ blind' = v
  /\ UNCHANGED <<webVars, rowVars, overdue, reaping, results>>

-----------------------------------------------------------------------------

BackendNext ==
  \/ \E b \in Batches, T \in SUBSET Devices, bc \in BOOLEAN : InsertRows(b, T, bc)
  \/ \E b \in Batches, d \in Devices : Publish(b, d)
  \/ \E b \in Batches : DispatchFails(b) \/ MarkDispatched(b) \/ DeadlinePasses(b)
  \/ \E c \in Commands : HandleRunning(c) \/ ReapWrite(c)
  \/ \E c \in Commands, o \in Outcome : HandleTerminal(c, o)
  \/ ReapRead \/ ReapAborts \/ SetBlind(TRUE) \/ SetBlind(FALSE)

\* setInterval keeps running passes.  Strong fairness for the two halves of a
\* pass: blind windows end, and the worker is not restarted inside every pass.
BackendFairness ==
  /\ \A b \in Batches : WF_backendVars(DeadlinePasses(b))
  /\ WF_backendVars(SetBlind(FALSE))
  /\ SF_backendVars(ReapRead)
  /\ \A c \in Commands : SF_backendVars(ReapWrite(c))
=============================================================================
