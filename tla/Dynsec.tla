------------------------------- MODULE Dynsec -------------------------------
(***************************************************************************)
(* dynsec.ts: the control client of one web process. Batches of commands   *)
(* are chained, one is sent at a time, and a response carries no id: what  *)
(* arrives is taken for the answer to the batch that waits. A batch is its *)
(* number in the order of the calls; commands and error texts are left     *)
(* out. The broker and mqtt.js are external: the broker answers in order,  *)
(* a lost connection loses the responses, mqtt.js reconnects by itself and *)
(* a client that fails to connect keeps trying, under the same client id.  *)
(***************************************************************************)
EXTENDS Naturals, Sequences, FiniteSets

CONSTANTS
  LastBatch,    \* bound on the calls of send()
  DropLimit     \* bound on lost connections

ASSUME DynsecAssumption == LastBatch \in Nat /\ DropLimit \in Nat

VARIABLES
  called,       \* batches send() was called with so far
  active,       \* the batch whose turn it is, 0 if the queue is drained
  phase,        \* of that batch: "connect", "publish" or "wait"
  connection,   \* whether this.client is connected
  atBroker,     \* batches on their way to the broker
  responses,    \* batches whose response is on its way back
  outcome,      \* per batch: 0 pending, "failed", or the batch answered
  drops

dynsecVars == <<called, active, phase, connection, atBroker, responses, outcome,
                drops>>

Batches == 1..LastBatch
NoAnswer == 0
Failed == LastBatch + 1

DynsecTypeOK ==
  /\ called \in 0..LastBatch /\ active \in 0..LastBatch
  /\ phase \in {"connect", "publish", "wait"} /\ connection \in BOOLEAN
  /\ atBroker \in Seq(Batches) /\ responses \in Seq(Batches)
  /\ outcome \in [Batches -> 0..Failed]
  /\ drops \in 0..DropLimit

DynsecInit ==
  /\ called = 0 /\ active = 0 /\ phase = "connect" /\ connection = FALSE
  /\ atBroker = <<>> /\ responses = <<>>
  /\ outcome = [b \in Batches |-> NoAnswer]
  /\ drops = 0

Send ==
  /\ called < LastBatch
  /\ called' = called + 1
  /\ UNCHANGED <<active, phase, connection, atBroker, responses, outcome, drops>>

\* Mutated: a batch does not wait for the one before.
StartBatchAtOnce ==
  /\ active < called
  /\ active' = active + 1
  /\ phase' = "connect"
  /\ UNCHANGED <<called, connection, atBroker, responses, outcome, drops>>

\* queue.then(run, run): the next batch starts when the one before has settled.
StartBatch ==
  /\ active < called
  /\ \A b \in 1..active : outcome[b] # NoAnswer
  /\ active' = active + 1
  /\ phase' = "connect"
  /\ UNCHANGED <<called, connection, atBroker, responses, outcome, drops>>

Running(p) == active # 0 /\ outcome[active] = NoAnswer /\ phase = p
Settle(o) == outcome' = [outcome EXCEPT ![active] = o]

\* A connected client is used as it is.
Connect ==
  /\ Running("connect")
  /\ connection' = TRUE
  /\ phase' = "publish"
  /\ UNCHANGED <<called, active, atBroker, responses, outcome, drops>>

ConnectFails ==
  /\ Running("connect") /\ ~connection
  /\ Settle(Failed)
  /\ UNCHANGED <<called, active, phase, connection, atBroker, responses, drops>>

\* QoS 1: mqtt.js keeps the message until the broker has it.
PublishBatch ==
  /\ Running("publish")
  /\ atBroker' = Append(atBroker, active)
  /\ phase' = "wait"
  /\ UNCHANGED <<called, active, connection, responses, outcome, drops>>

\* Whatever response arrives is handed to the waiter, if there is one.
OnResponse ==
  /\ responses # <<>> /\ connection
  /\ responses' = Tail(responses)
  /\ IF Running("wait") THEN Settle(Head(responses)) ELSE UNCHANGED outcome
  /\ UNCHANGED <<called, active, phase, connection, atBroker, drops>>

\* Mutated: the timer is cleared once the broker has the batch.
TimeOutUndelivered ==
  /\ Running("wait") /\ atBroker # <<>>
  /\ Settle(Failed)
  /\ UNCHANGED <<called, active, phase, connection, atBroker, responses, drops>>

\* The timeout, or an error of the publication.
TimeOutBatch ==
  /\ Running("wait")
  /\ Settle(Failed)
  /\ UNCHANGED <<called, active, phase, connection, atBroker, responses, drops>>

BrokerAnswers ==
  /\ atBroker # <<>> /\ connection
  /\ atBroker' = Tail(atBroker)
  /\ responses' = Append(responses, Head(atBroker))
  /\ UNCHANGED <<called, active, phase, connection, outcome, drops>>

DropConnection ==
  /\ connection /\ drops < DropLimit
  /\ drops' = drops + 1
  /\ connection' = FALSE
  /\ responses' = <<>>
  /\ UNCHANGED <<called, active, phase, atBroker, outcome>>

ReconnectControl ==
  /\ ~connection
  /\ connection' = TRUE
  /\ UNCHANGED <<called, active, phase, atBroker, responses, outcome, drops>>

BatchStep ==
  \/ StartBatch \/ Connect \/ ConnectFails \/ PublishBatch \/ TimeOutBatch

DynsecNext ==
  \/ Send \/ BatchStep \/ OnResponse
  \/ BrokerAnswers \/ DropConnection \/ ReconnectControl

DynsecSpec == DynsecInit /\ [][DynsecNext]_dynsecVars

-----------------------------------------------------------------------------
(* Properties.                                                             *)

\* Matching by position is right up to the first batch that ends without its
\* response: a batch is only given the response of another after some batch
\* before it had failed (send against the message handler).
AnswersMatchUntilAFailure ==
  \A b \in Batches :
    outcome[b] \notin {NoAnswer, b, Failed} =>
      \E a \in 1..(b - 1) : outcome[a] = Failed

\* Every batch settles, whatever becomes of those before it: the chain of
\* promises never gets stuck (queue.then(run, run)).
EveryBatchSettles == <>[](\A b \in 1..called : outcome[b] # NoAnswer)
=============================================================================
