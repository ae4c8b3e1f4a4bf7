---------------------------- MODULE CommandSystem ----------------------------
(***************************************************************************)
(* The backend composed with its agents.  The agents are taken from their  *)
(* contract, which AgentDispatcher implements.  What an agent may receive  *)
(* is what was published: the broker delivers it late, repeatedly or never.*)
(***************************************************************************)
EXTENDS CommandTracking

CONSTANT ExitOutcomes   \* how an execution may end

VARIABLE executed   \* commands an agent has handed to its executor

Agent == INSTANCE AgentContract WITH Ids <- Commands, received <- published

vars == <<backendVars, results, executed>>

TypeOK == BackendTypeOK /\ Agent!TypeOK

Init == BackendInit /\ Agent!Init

\* "queued" is left out: the worker only forwards it to browsers.
AgentStep(c) ==
  /\ \/ Agent!Answer(c) \/ Agent!Execute(c)
     \/ \E o \in Outcome : Agent!Report(c, o)
  /\ UNCHANGED backendVars

Next ==
  \/ BackendNext /\ UNCHANGED executed
  \/ \E c \in Commands : AgentStep(c)

Spec == Init /\ [][Next]_vars
FairSpec == Spec /\ BackendFairness

-----------------------------------------------------------------------------
(* Properties.                                                             *)

\* dispatchCommand inserts rows before publishing: whatever an agent executes
\* or answers has its history row, so the result is never dropped as unknown.
\* A broadcast also reaches members of the group that were filtered out.
ExecutionIsRecorded ==
  \A c \in Commands :
    (c \in executed \/ \E s \in Outcome : Reported(c, s))
      => status[c] # "none" \/ BatchOf(c) \in broadcast

\* handleResult and mapStatus: the history shows success only for a command
\* that some agent executed, however messages are lost, repeated or reordered.
SuccessMeansExecuted ==
  \A c \in Commands : status[c] \in {"SUCCEEDED", "CANCELED"} => c \in executed

\* reap: a command nobody reported on as timed out is given up only after its
\* batch was dispatched and its deadline has passed.
NoEarlyTimeout ==
  \A c \in Commands :
    status[c] = "TIMEOUT" => BatchOf(c) \in overdue \/ Reported(c, "timeout")

\* Out-of-order delivery never takes a finished command back to an open
\* status; only dispatchCommand's own last write does.
OnlyDispatchReopens ==
  [][\A c \in Commands :
       status[c] \in Terminal /\ status'[c] \notin Terminal
         => phase[BatchOf(c)] = "inserted" /\ phase'[BatchOf(c)] = "dispatched"
    ]_vars

\* reap: a command that carries dispatched_at reaches a terminal status and in
\* the end keeps it, whether or not its agent ever answers, and although blind
\* windows, aborted passes and dispatchCommand's last write set it back.
DispatchedSettles ==
  <>[](\A c \in dispatchedAt : status[c] \in Terminal)

-----------------------------------------------------------------------------
(* What the repository's documents say, and the code does not do.          *)

\* README, "Single writer": "a late accepted(running) must never overwrite a
\* command that already has its terminal result".  The worker's guard looks at
\* the status, which MarkDispatched may have put back to DISPATCHED.
LateRunningNeverOverwrites ==
  [][\A c \in Commands :
       c \in finishedAt /\ status[c] # "RUNNING" => status'[c] # "RUNNING"]_vars

\* README, "Broadcast groups": the ids agents derive match "rows the server
\* inserted before publishing.  That keeps per-device audit history intact".
\* The message also reaches members that were offline in the database or over
\* their rate limit, for which no row was inserted.
EveryExecutionIsRecorded ==
  \A c \in Commands : c \in executed => status[c] # "none"

=============================================================================
