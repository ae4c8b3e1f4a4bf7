------------------------ MODULE CommandSystem_proofs ------------------------
(***************************************************************************)
(* Safety of the backend composed with its agents, for any number of       *)
(* batches and devices: the row invariants of command_history.             *)
(***************************************************************************)
EXTENDS CommandSystem, TLAPS

Verdict == Outcome \ {"rejected"}

\* The rows exist before anything is published, and nothing is executed or
\* answered that was not published.
RowsFirst ==
  /\ \A b \in Batches : \A d \in targets[b] : status[commandIdFor(b, d)] # "none"
  /\ \A c \in published : status[c] # "none" \/ BatchOf(c) \in broadcast
  /\ \A c \in executed : c \in published
  /\ \A m \in results : m.id \in published

\* Only an execution is reported with a verdict.
VerdictsAreEarned == \A m \in results : m.status \in Verdict => m.id \in executed

\* A command waits to be written as timed out only past its deadline.
ReapsOverdue == \A c \in reaping : PastDeadline(c)

IInv == /\ TypeOK /\ RowsFirst /\ VerdictsAreEarned /\ ReapsOverdue
        /\ SuccessMeansExecuted /\ NoEarlyTimeout

\* A command id determines its batch and device.
LEMMA CommandIds ==
  /\ \A b \in Batches, d \in Devices :
       commandIdFor(b, d) \in Commands /\ BatchOf(commandIdFor(b, d)) = b
  /\ \A c \in Commands : BatchOf(c) \in Batches
  BY DEF Commands, commandIdFor, BatchOf

\* mapStatus yields a terminal status, success only for a verdict, and TIMEOUT
\* only for "timeout".
LEMMA MapStatus ==
  ASSUME NEW o \in Outcome
  PROVE  /\ mapStatus(o) \in Terminal
         /\ mapStatus(o) \in {"SUCCEEDED", "CANCELED"} => o \in Verdict
         /\ mapStatus(o) = "TIMEOUT" => o = "timeout"
  BY DEF mapStatus, Outcome, Terminal, Verdict

-----------------------------------------------------------------------------
(* The two sides of a step.                                                *)

\* An agent's step adds to executed and results, for one published command,
\* and reports a verdict only for an execution.
LEMMA AgentSteps ==
  ASSUME TypeOK, RowsFirst, NEW c \in Commands, AgentStep(c)
  PROVE  /\ UNCHANGED backendVars /\ c \in published
         /\ executed \subseteq executed' /\ executed' \subseteq executed \cup {c}
         /\ \E S \in SUBSET (Agent!Accepted \cup Agent!Outcome) :
              /\ results' = results \cup {Agent!Msg(c, s) : s \in S}
              /\ S \cap Verdict # {} => c \in executed'
<1>. USE DEF AgentStep, Agent!Publish, Agent!Accepted, Agent!Outcome, Outcome, Verdict
<1>1. UNCHANGED backendVars
  OBVIOUS
<1>2. CASE Agent!Answer(c)
  BY <1>1, <1>2 DEF Agent!Answer
<1>3. CASE Agent!Execute(c)
  BY <1>1, <1>3 DEF Agent!Execute
<1>4. ASSUME NEW o \in Outcome, Agent!Report(c, o)
      PROVE  /\ c \in published /\ c \in executed /\ UNCHANGED executed
             /\ results' = results \cup {Agent!Msg(c, s) : s \in {o}}
  BY <1>4 DEF Agent!Report, RowsFirst
<1>. QED
  BY <1>1, <1>2, <1>3, <1>4

\* Agents keep the invariant.
LEMMA AgentKeepsIInv ==
  ASSUME IInv, NEW c \in Commands, AgentStep(c)
  PROVE  IInv'
<1>1. /\ UNCHANGED backendVars /\ c \in published
      /\ executed \subseteq executed' /\ executed' \subseteq executed \cup {c}
  BY AgentSteps DEF IInv
<1>2. PICK S \in SUBSET (Agent!Accepted \cup Agent!Outcome) :
        /\ results' = results \cup {Agent!Msg(c, s) : s \in S}
        /\ S \cap Verdict # {} => c \in executed'
  BY AgentSteps DEF IInv
<1>3. \A m \in results' :
        \/ m \in results
        \/ \E s \in S : m = [id |-> c, status |-> s]
  BY <1>2 DEF Agent!Msg
<1>4. results \subseteq results'
  BY <1>2
<1>5. TypeOK'
  <2>1. BackendTypeOK'
    BY <1>1 DEF IInv, TypeOK, BackendTypeOK, backendVars, webVars, rowVars, reaperVars
  <2>2. Agent!TypeOK'
    BY <1>1, <1>3, <2>1 DEF IInv, TypeOK, BackendTypeOK, Agent!TypeOK, Agent!Accepted, Agent!Outcome
  <2>. QED
    BY <2>1, <2>2 DEF TypeOK
<1>6. RowsFirst'
  BY <1>1, <1>3 DEF IInv, RowsFirst, backendVars, webVars, rowVars
<1>7. VerdictsAreEarned'
  BY <1>1, <1>2, <1>3 DEF IInv, VerdictsAreEarned
<1>8. ReapsOverdue' /\ SuccessMeansExecuted'
  BY <1>1 DEF IInv, ReapsOverdue, PastDeadline, SuccessMeansExecuted,
     backendVars, rowVars, reaperVars
<1>9. NoEarlyTimeout'
  BY <1>1, <1>4 DEF IInv, NoEarlyTimeout, Reported, backendVars, rowVars, reaperVars
<1>. QED
  BY <1>5, <1>6, <1>7, <1>8, <1>9 DEF IInv

\* The backend publishes no result and executes nothing.
LEMMA BackendFrame ==
  ASSUME IInv, UNCHANGED <<executed, results>>
  PROVE  (BackendTypeOK' => Agent!TypeOK') /\ VerdictsAreEarned'
  BY DEF IInv, TypeOK, BackendTypeOK, Agent!TypeOK, VerdictsAreEarned

\* dispatchCommand keeps the invariant: the rows come first.
LEMMA DispatchKeepsIInv ==
  ASSUME IInv, UNCHANGED executed, NEW b \in Batches,
         \/ \E T \in SUBSET Devices, bc \in BOOLEAN : InsertRows(b, T, bc)
         \/ \E d \in Devices : Publish(b, d)
         \/ DispatchFails(b) \/ MarkDispatched(b)
  PROVE  IInv'
<1>. USE DEF IInv, TypeOK
<1>1. ASSUME NEW T \in SUBSET Devices, NEW bc \in BOOLEAN, InsertRows(b, T, bc) PROVE IInv'
  <2> DEFINE New == {commandIdFor(b, d) : d \in T}
  <2>1. /\ phase' = [phase EXCEPT ![b] = "inserted"] /\ targets' = [targets EXCEPT ![b] = T]
        /\ status' = [c \in Commands |-> IF c \in New THEN "PENDING" ELSE status[c]]
        /\ broadcast \subseteq broadcast' /\ broadcast' \subseteq broadcast \cup {b}
        /\ UNCHANGED <<published, dispatchedAt, finishedAt, overdue, blind, reaping, results>>
    BY <1>1 DEF InsertRows, reaperVars
  <2>2. \A c \in Commands : status[c] # "none" => status'[c] # "none"
    BY <2>1
  <2>3. \A c \in Commands : status'[c] \in Terminal => status'[c] = status[c]
    BY <2>1 DEF Terminal
  <2>4. TypeOK'
    BY <2>1, BackendFrame DEF BackendTypeOK, CommandStatus
  <2>5. RowsFirst'
    <3>1. \A e \in Batches : \A d \in targets'[e] : status'[commandIdFor(e, d)] # "none"
      BY <2>1, <2>2, CommandIds DEF BackendTypeOK, RowsFirst
    <3>2. \A c \in published' : status'[c] # "none" \/ BatchOf(c) \in broadcast'
      BY <2>1, <2>2 DEF BackendTypeOK, RowsFirst
    <3>. QED
      BY <2>1, <3>1, <3>2 DEF RowsFirst
  <2>6. SuccessMeansExecuted' /\ NoEarlyTimeout'
    BY <2>1, <2>3 DEF SuccessMeansExecuted, NoEarlyTimeout, Terminal, Reported
  <2>. QED
    BY <2>1, <2>4, <2>5, <2>6 DEF VerdictsAreEarned, ReapsOverdue, PastDeadline
<1>2. ASSUME NEW d \in Devices, Publish(b, d) PROVE IInv'
  <2>1. /\ published' = published \cup Reach(b, d) /\ d \in targets[b]
        /\ UNCHANGED <<phase, targets, broadcast, status, dispatchedAt, finishedAt,
                       overdue, blind, reaping, results>>
    BY <1>2 DEF Publish, rowVars, reaperVars
  <2>2. \A c \in Reach(b, d) : c \in Commands /\ (c = commandIdFor(b, d) \/ BatchOf(c) \in broadcast)
    BY CommandIds DEF Reach
  <2>3. TypeOK'
    BY <2>1, <2>2, BackendFrame DEF BackendTypeOK
  <2>4. RowsFirst'
    BY <2>1, <2>2 DEF RowsFirst
  <2>. QED
    BY <2>1, <2>3, <2>4 DEF VerdictsAreEarned, ReapsOverdue, PastDeadline,
       SuccessMeansExecuted, NoEarlyTimeout, Reported
<1>3. CASE DispatchFails(b)
  <2>1. /\ phase' = [phase EXCEPT ![b] = "failed"]
        /\ UNCHANGED <<targets, broadcast, published, status, dispatchedAt,
                       finishedAt, overdue, blind, reaping, results>>
    BY <1>3 DEF DispatchFails, rowVars, reaperVars
  <2>2. TypeOK'
    BY <2>1, BackendFrame DEF BackendTypeOK
  <2>. QED
    BY <2>1, <2>2 DEF RowsFirst, VerdictsAreEarned, ReapsOverdue, PastDeadline,
       SuccessMeansExecuted, NoEarlyTimeout, Reported
<1>4. CASE MarkDispatched(b)
  <2>1. /\ phase' = [phase EXCEPT ![b] = "dispatched"]
        /\ status' = [c \in Commands |-> IF c \in RowsOf(b) THEN "DISPATCHED" ELSE status[c]]
        /\ dispatchedAt' = dispatchedAt \cup RowsOf(b)
        /\ UNCHANGED <<targets, broadcast, published, finishedAt,
                       overdue, blind, reaping, results>>
    BY <1>4 DEF MarkDispatched, reaperVars
  <2>2. RowsOf(b) \subseteq Commands
    BY CommandIds DEF RowsOf, BackendTypeOK
  <2>3. TypeOK'
    BY <2>1, <2>2, BackendFrame DEF BackendTypeOK, CommandStatus
  <2>4. \A c \in Commands : status'[c] \in {status[c], "DISPATCHED"}
    BY <2>1
  <2>5. RowsFirst'
    BY <2>1, <2>4, CommandIds DEF RowsFirst, BackendTypeOK
  <2>. QED
    BY <2>1, <2>3, <2>4, <2>5 DEF VerdictsAreEarned, ReapsOverdue, PastDeadline,
       SuccessMeansExecuted, NoEarlyTimeout, Reported
<1>. QED
  BY <1>1, <1>2, <1>3, <1>4

\* handleResult keeps the invariant: it writes success only on a verdict, and
\* TIMEOUT only on a reported timeout.
LEMMA HandleResultKeepsIInv ==
  ASSUME IInv, UNCHANGED executed, NEW c \in Commands,
         HandleRunning(c) \/ \E o \in Outcome : HandleTerminal(c, o)
  PROVE  IInv'
<1>. USE DEF IInv, TypeOK
<1>1. CASE HandleRunning(c)
  <2>1. /\ status' = [status EXCEPT ![c] = "RUNNING"]
        /\ UNCHANGED <<phase, targets, broadcast, published, dispatchedAt, finishedAt,
                       overdue, blind, reaping, results>>
    BY <1>1 DEF HandleRunning, webVars, reaperVars
  <2>2. TypeOK'
    BY <2>1, BackendFrame DEF BackendTypeOK, CommandStatus
  <2>3. \A k \in Commands : status'[k] \in {status[k], "RUNNING"}
    BY <2>1 DEF BackendTypeOK
  <2>4. RowsFirst'
    BY <2>1, <2>3, CommandIds DEF RowsFirst, BackendTypeOK
  <2>. QED
    BY <2>1, <2>2, <2>3, <2>4, BackendFrame
       DEF ReapsOverdue, PastDeadline, SuccessMeansExecuted, NoEarlyTimeout, Reported
<1>2. ASSUME NEW o \in Outcome, HandleTerminal(c, o) PROVE IInv'
  <2>1. /\ status' = [status EXCEPT ![c] = mapStatus(o)]
        /\ finishedAt' = finishedAt \cup {c} /\ [id |-> c, status |-> o] \in results
        /\ UNCHANGED <<phase, targets, broadcast, published, dispatchedAt,
                       overdue, blind, reaping, results>>
    BY <1>2 DEF HandleTerminal, Reported, webVars, reaperVars
  <2>2. /\ mapStatus(o) \in Terminal
        /\ mapStatus(o) \in {"SUCCEEDED", "CANCELED"} => o \in Verdict
        /\ mapStatus(o) = "TIMEOUT" => o = "timeout"
    BY MapStatus
  <2>3. TypeOK'
    BY <2>1, <2>2, BackendFrame DEF BackendTypeOK, CommandStatus, Terminal
  <2>4. \A k \in Commands : status'[k] = IF k = c THEN mapStatus(o) ELSE status[k]
    BY <2>1 DEF BackendTypeOK
  <2>5. RowsFirst'
    BY <2>1, <2>2, <2>4, CommandIds DEF RowsFirst, BackendTypeOK, Terminal
  <2>6. o \in Verdict => c \in executed
    BY <2>1 DEF VerdictsAreEarned
  <2>7. SuccessMeansExecuted' /\ NoEarlyTimeout'
    BY <2>1, <2>2, <2>4, <2>6 DEF SuccessMeansExecuted, NoEarlyTimeout, Reported
  <2>. QED
    BY <2>1, <2>3, <2>5, <2>7, BackendFrame DEF ReapsOverdue, PastDeadline
<1>. QED
  BY <1>1, <1>2

\* The reaper keeps the invariant, although it writes without reading again.
LEMMA ReaperKeepsIInv ==
  ASSUME IInv, UNCHANGED executed,
         \/ \E b \in Batches : DeadlinePasses(b)
         \/ ReapRead \/ ReapAborts \/ SetBlind(TRUE) \/ SetBlind(FALSE)
         \/ \E c \in Commands : ReapWrite(c)
  PROVE  IInv'
<1>. USE DEF IInv, TypeOK
<1>1. ASSUME NEW c \in Commands, ReapWrite(c) PROVE IInv'
  <2>1. /\ c \in reaping /\ status' = [status EXCEPT ![c] = "TIMEOUT"]
        /\ finishedAt' = finishedAt \cup {c} /\ reaping' = reaping \ {c}
        /\ UNCHANGED <<phase, targets, broadcast, published, dispatchedAt,
                       overdue, blind, results>>
    BY <1>1 DEF ReapWrite, webVars
  <2>2. TypeOK'
    BY <2>1, BackendFrame DEF BackendTypeOK, CommandStatus
  <2>3. \A k \in Commands : status'[k] = IF k = c THEN "TIMEOUT" ELSE status[k]
    BY <2>1 DEF BackendTypeOK
  <2>4. RowsFirst'
    BY <2>1, <2>3, CommandIds DEF RowsFirst, BackendTypeOK
  <2>. QED
    BY <2>1, <2>2, <2>3, <2>4, BackendFrame
       DEF ReapsOverdue, PastDeadline, SuccessMeansExecuted, NoEarlyTimeout, Reported
<1>2. ASSUME UNCHANGED <<webVars, rowVars, results>>, TypeOK', ReapsOverdue',
             overdue \subseteq overdue'
      PROVE  IInv'
  BY <1>2, BackendFrame
     DEF webVars, rowVars, RowsFirst, SuccessMeansExecuted, NoEarlyTimeout, Reported
<1>3. CASE ReapRead
  <2>1. /\ reaping \subseteq reaping'
        /\ \A c \in reaping' \ reaping : c \in dispatchedAt /\ PastDeadline(c)
        /\ UNCHANGED <<webVars, rowVars, overdue, blind, results>>
    BY <1>3 DEF ReapRead, Open
  <2>2. TypeOK'
    BY <2>1, BackendFrame DEF BackendTypeOK, webVars, rowVars
  <2>3. ReapsOverdue'
    BY <2>1 DEF ReapsOverdue, PastDeadline
  <2>. QED
    BY <1>2, <2>1, <2>2, <2>3
<1>4. ASSUME NEW b \in Batches, DeadlinePasses(b) PROVE IInv'
  <2>1. /\ overdue' = overdue \cup {b}
        /\ UNCHANGED <<webVars, rowVars, blind, reaping, results>>
    BY <1>4 DEF DeadlinePasses
  <2>2. TypeOK' /\ ReapsOverdue'
    BY <2>1, BackendFrame
       DEF BackendTypeOK, webVars, rowVars, ReapsOverdue, PastDeadline
  <2>. QED
    BY <1>2, <2>1, <2>2
<1>5. CASE ReapAborts
  <2>1. reaping' = {} /\ UNCHANGED <<webVars, rowVars, overdue, blind, results>>
    BY <1>5 DEF ReapAborts
  <2>2. TypeOK' /\ ReapsOverdue'
    BY <2>1, BackendFrame DEF BackendTypeOK, webVars, rowVars, ReapsOverdue
  <2>. QED
    BY <1>2, <2>1, <2>2
<1>6. ASSUME NEW v \in BOOLEAN, SetBlind(v) PROVE IInv'
  <2>1. blind' = v /\ UNCHANGED <<webVars, rowVars, overdue, reaping, results>>
    BY <1>6 DEF SetBlind
  <2>2. blind' \in BOOLEAN
    BY <2>1, Zenon
  <2>3. TypeOK' /\ ReapsOverdue'
    BY <2>1, <2>2, BackendFrame
       DEF BackendTypeOK, webVars, rowVars, ReapsOverdue, PastDeadline
  <2>. QED
    BY <1>2, <2>1, <2>3
<1>. QED
  BY <1>1, <1>3, <1>4, <1>5, <1>6

-----------------------------------------------------------------------------
(* Which write may reopen a finished command.                              *)

\* A batch that was not inserted yet has no row, and only what was dispatched
\* becomes overdue: no late write of the reaper makes a row of its own.
IdleHasNoRows ==
  /\ \A c \in Commands : phase[BatchOf(c)] = "idle" => status[c] = "none"
  /\ \A b \in overdue : phase[b] = "dispatched"

\* What OnlyDispatchReopens says of one step.
ReopensByDispatch ==
  \A c \in Commands :
    status[c] \in Terminal /\ status'[c] \notin Terminal
      => phase[BatchOf(c)] = "inserted" /\ phase'[BatchOf(c)] = "dispatched"

\* dispatchCommand: its insert meets no row, its last write is the one that
\* reopens.
LEMMA DispatchReopens ==
  ASSUME IInv, IdleHasNoRows, NEW b \in Batches,
         \/ \E T \in SUBSET Devices, bc \in BOOLEAN : InsertRows(b, T, bc)
         \/ \E d \in Devices : Publish(b, d)
         \/ DispatchFails(b) \/ MarkDispatched(b) \/ DeadlinePasses(b)
  PROVE  IdleHasNoRows' /\ ReopensByDispatch
<1>. USE DEF IInv, TypeOK, BackendTypeOK
<1>1. ASSUME NEW T \in SUBSET Devices, NEW bc \in BOOLEAN, InsertRows(b, T, bc)
      PROVE  IdleHasNoRows' /\ ReopensByDispatch
  <2> DEFINE New == {commandIdFor(b, d) : d \in T}
  <2>1. /\ phase[b] = "idle" /\ phase' = [phase EXCEPT ![b] = "inserted"]
        /\ status' = [c \in Commands |-> IF c \in New THEN "PENDING" ELSE status[c]]
        /\ UNCHANGED overdue
    BY <1>1 DEF InsertRows, reaperVars
  <2>2. \A c \in New : BatchOf(c) = b
    BY CommandIds
  <2>. HIDE DEF New
  <2>3. \A c \in Commands : c \in New => status[c] \notin Terminal
    BY <2>1, <2>2 DEF IdleHasNoRows, Terminal
  <2>4. IdleHasNoRows'
    BY <2>1, <2>2, CommandIds DEF IdleHasNoRows
  <2>5. ReopensByDispatch
    BY <2>1, <2>3 DEF ReopensByDispatch
  <2>. QED
    BY <2>4, <2>5
<1>2. ASSUME UNCHANGED <<phase, status, overdue>>
      PROVE  IdleHasNoRows' /\ ReopensByDispatch
  BY <1>2 DEF IdleHasNoRows, ReopensByDispatch
<1>3. ASSUME NEW d \in Devices, Publish(b, d)
      PROVE  IdleHasNoRows' /\ ReopensByDispatch
  BY <1>2, <1>3 DEF Publish, rowVars, reaperVars
<1>4. CASE DispatchFails(b)
  BY <1>4, CommandIds
     DEF DispatchFails, rowVars, reaperVars, IdleHasNoRows, ReopensByDispatch
<1>5. CASE MarkDispatched(b)
  <2>1. /\ phase[b] = "inserted" /\ phase' = [phase EXCEPT ![b] = "dispatched"]
        /\ status' = [c \in Commands |-> IF c \in RowsOf(b) THEN "DISPATCHED" ELSE status[c]]
        /\ UNCHANGED overdue
    BY <1>5 DEF MarkDispatched, reaperVars
  <2>2. \A c \in RowsOf(b) : BatchOf(c) = b
    BY CommandIds DEF RowsOf
  <2>. QED
    BY <2>1, <2>2, CommandIds DEF IdleHasNoRows, ReopensByDispatch
<1>6. CASE DeadlinePasses(b)
  BY <1>6 DEF DeadlinePasses, webVars, rowVars, IdleHasNoRows, ReopensByDispatch
<1>. QED
  BY <1>1, <1>3, <1>4, <1>5, <1>6

\* The worker writes only to rows that exist.  What it writes is terminal,
\* except "running", and that only over an open status.
LEMMA WorkerReopensNothing ==
  ASSUME IInv, IdleHasNoRows, NEW c \in Commands,
         \/ HandleRunning(c) \/ ReapWrite(c)
         \/ \E o \in Outcome : HandleTerminal(c, o)
  PROVE  IdleHasNoRows' /\ ReopensByDispatch
<1>1. PICK s \in CommandStatus :
        /\ status' = [status EXCEPT ![c] = s]
        /\ s \in Terminal \/ status[c] \notin Terminal
        /\ status[c] # "none" \/ c \in reaping
        /\ UNCHANGED <<phase, overdue>>
  <2>1. CASE HandleRunning(c)
    BY <2>1 DEF HandleRunning, MayRun, webVars, reaperVars, CommandStatus, Terminal
  <2>2. CASE ReapWrite(c)
    BY <2>2 DEF ReapWrite, webVars, CommandStatus, Terminal
  <2>3. ASSUME NEW o \in Outcome, HandleTerminal(c, o)
        PROVE  /\ mapStatus(o) \in CommandStatus /\ mapStatus(o) \in Terminal
               /\ status' = [status EXCEPT ![c] = mapStatus(o)]
               /\ status[c] # "none" /\ UNCHANGED <<phase, overdue>>
    BY <2>3, MapStatus DEF HandleTerminal, webVars, reaperVars, CommandStatus, Terminal
  <2>. QED
    BY <2>1, <2>2, <2>3
<1>2. phase[BatchOf(c)] # "idle"
  BY <1>1 DEF IInv, ReapsOverdue, PastDeadline, IdleHasNoRows
<1>3. \A k \in Commands : status'[k] = IF k = c THEN s ELSE status[k]
  BY <1>1 DEF IInv, TypeOK, BackendTypeOK
<1>. QED
  BY <1>1, <1>2, <1>3 DEF IdleHasNoRows, ReopensByDispatch

\* Every step of the composed system.
LEMMA StepReopens ==
  ASSUME IInv, IdleHasNoRows, [Next]_vars
  PROVE  IdleHasNoRows' /\ ReopensByDispatch
<1>1. ASSUME UNCHANGED <<phase, status, overdue>>
      PROVE  IdleHasNoRows' /\ ReopensByDispatch
  BY <1>1 DEF IdleHasNoRows, ReopensByDispatch
<1>2. CASE BackendNext
  <2>1. ASSUME ReapRead \/ ReapAborts \/ SetBlind(TRUE) \/ SetBlind(FALSE)
        PROVE  UNCHANGED <<phase, status, overdue>>
    BY <2>1 DEF ReapRead, ReapAborts, SetBlind, webVars, rowVars
  <2>. QED
    BY <1>1, <1>2, <2>1, DispatchReopens, WorkerReopensNothing DEF BackendNext
<1>3. ASSUME NEW c \in Commands, AgentStep(c)
      PROVE  UNCHANGED <<phase, status, overdue>>
  BY <1>3 DEF AgentStep, backendVars, webVars, rowVars, reaperVars
<1>4. CASE UNCHANGED vars
  BY <1>1, <1>4 DEF vars, backendVars, webVars, rowVars, reaperVars
<1>. QED
  BY <1>1, <1>2, <1>3, <1>4 DEF Next

-----------------------------------------------------------------------------
(* The theorems.                                                           *)

\* Every step of the composed system keeps the invariant.
LEMMA StepKeepsIInv ==
  ASSUME IInv, [Next]_vars
  PROVE  IInv'
<1>1. CASE BackendNext /\ UNCHANGED executed
  BY <1>1, DispatchKeepsIInv, HandleResultKeepsIInv, ReaperKeepsIInv DEF BackendNext
<1>2. ASSUME NEW c \in Commands, AgentStep(c) PROVE IInv'
  BY <1>2, AgentKeepsIInv
<1>3. CASE UNCHANGED vars
  <2>1. UNCHANGED <<phase, targets, broadcast, published, status, dispatchedAt,
                    finishedAt, overdue, blind, reaping, results, executed>>
    BY <1>3 DEF vars, backendVars, webVars, rowVars, reaperVars
  <2>2. TypeOK'
    BY <2>1, BackendFrame DEF IInv, TypeOK, BackendTypeOK
  <2>. QED
    BY <2>1, <2>2 DEF IInv, RowsFirst, VerdictsAreEarned, ReapsOverdue, PastDeadline,
       SuccessMeansExecuted, NoEarlyTimeout, Reported
<1>. QED
  BY <1>1, <1>2, <1>3 DEF Next

\* An empty command_history satisfies the invariant.
LEMMA InitIInv == Init => IInv
<1>. HAVE Init
<1>1. BackendTypeOK
  BY DEF Init, BackendInit, BackendTypeOK, CommandStatus
<1>2. Agent!TypeOK
  BY DEF Init, Agent!Init, Agent!TypeOK
<1>. QED
  BY <1>1, <1>2
     DEF Init, BackendInit, Agent!Init, IInv, TypeOK, RowsFirst, VerdictsAreEarned,
         ReapsOverdue, SuccessMeansExecuted, NoEarlyTimeout

\* The backend and its agents: type correctness for any number of batches and
\* devices.
THEOREM SystemTypeCorrect == Spec => []TypeOK
<1>1. IInv => TypeOK
  BY DEF IInv
<1>. QED
  BY <1>1, InitIInv, StepKeepsIInv, PTL DEF Spec

\* handleResult, mapStatus and the agents' contract: the history never shows a
\* success, or a cancelation, of a command no agent executed.
THEOREM SuccessIsEarned == Spec => []SuccessMeansExecuted
<1>1. IInv => SuccessMeansExecuted
  BY DEF IInv
<1>. QED
  BY <1>1, InitIInv, StepKeepsIInv, PTL DEF Spec

\* dispatchCommand inserts before it publishes: an executed or answered command
\* has its row, unless it was reached by a broadcast.
THEOREM RecordsFirst == Spec => []ExecutionIsRecorded
<1>1. IInv => ExecutionIsRecorded
  BY DEF IInv, RowsFirst, ExecutionIsRecorded, Reported
<1>. QED
  BY <1>1, InitIInv, StepKeepsIInv, PTL DEF Spec

\* reap: only overdue commands are given up, however its passes interleave with
\* results, connection losses and restarts of the worker.
THEOREM TimeoutsAreDue == Spec => []NoEarlyTimeout
<1>1. IInv => NoEarlyTimeout
  BY DEF IInv
<1>. QED
  BY <1>1, InitIInv, StepKeepsIInv, PTL DEF Spec

\* handleResult and the reaper: however messages and passes are reordered, a
\* finished command is open again only by the last write of its dispatchCommand.
THEOREM ReopenedByDispatchOnly == Spec => OnlyDispatchReopens
<1>1. Init => IdleHasNoRows
  BY CommandIds DEF Init, BackendInit, IdleHasNoRows
<1>2. Spec => [][ReopensByDispatch]_vars
  BY <1>1, InitIInv, StepKeepsIInv, StepReopens, PTL DEF Spec
<1>. QED
  BY <1>2 DEF OnlyDispatchReopens, ReopensByDispatch

=============================================================================
