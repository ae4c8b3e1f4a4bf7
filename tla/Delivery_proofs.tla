---------------------------- MODULE Delivery_proofs ----------------------------
(***************************************************************************)
(* What is proved of the parts that deliver something to somebody else:    *)
(* the control client of the broker, the groups of a device, the event     *)
(* stream of the dashboard, and schedules.                                 *)
(***************************************************************************)
EXTENDS EventStream, GroupMembership, Dynsec, Schedules, FiniteSetTheorems, TLAPS

-----------------------------------------------------------------------------
(* The control client. As long as no batch has failed, at most one batch   *)
(* is between its publication and its response, and it is the one that     *)
(* waits: that is what makes matching by position right. The first failure *)
(* ends it, because its response may still be on its way.                  *)

NoneFailed == \A b \in 1..active : outcome[b] # Failed

SettledInOrder ==
  /\ active <= called
  /\ \A b \in Batches : b < active => outcome[b] # NoAnswer
  /\ \A b \in Batches : b > active => outcome[b] = NoAnswer

OneUnderWay ==
  NoneFailed =>
    /\ \A b \in 1..active : outcome[b] \in {NoAnswer, b}
    /\ \A i \in 1..Len(atBroker) : atBroker[i] = active
    /\ \A i \in 1..Len(responses) : responses[i] = active
    /\ Len(atBroker) + Len(responses) <= (IF Running("wait") THEN 1 ELSE 0)

DynsecInv ==
  DynsecTypeOK /\ SettledInOrder /\ OneUnderWay /\ AnswersMatchUntilAFailure

LEMMA BatchFacts ==
  /\ LastBatch \in Nat /\ DropLimit \in Nat
  /\ Failed \in Nat /\ Failed > LastBatch /\ NoAnswer = 0
  /\ Batches \subseteq Nat \ {0} /\ NoAnswer \notin Batches /\ Failed \notin Batches
  BY DynsecAssumption DEF Failed, NoAnswer, Batches

LEMMA DynsecInitial == DynsecInit => DynsecInv
  <1> SUFFICES ASSUME DynsecInit PROVE DynsecInv
    OBVIOUS
  <1>1. /\ outcome \in [Batches -> 0..Failed] /\ \A b \in Batches : outcome[b] = NoAnswer
    BY BatchFacts DEF DynsecInit
  <1>2. /\ atBroker \in Seq(Batches) /\ responses \in Seq(Batches)
        /\ Len(atBroker) = 0 /\ Len(responses) = 0
    BY DEF DynsecInit
  <1>3. DynsecTypeOK
    <2>1. connection \in BOOLEAN
      BY Zenon DEF DynsecInit
    <2>2. called \in 0..LastBatch /\ active \in 0..LastBatch /\ drops \in 0..DropLimit
      BY BatchFacts DEF DynsecInit
    <2> QED BY <1>1, <1>2, <2>1, <2>2 DEF DynsecInit, DynsecTypeOK
  <1>4. SettledInOrder /\ AnswersMatchUntilAFailure
    BY <1>1, BatchFacts DEF DynsecInit, SettledInOrder, AnswersMatchUntilAFailure
  <1>5. OneUnderWay
    BY <1>2 DEF DynsecInit, OneUnderWay, Running
  <1> QED BY <1>3, <1>4, <1>5 DEF DynsecInv

LEMMA SendKeeps == DynsecInv /\ Send => DynsecInv'
  BY BatchFacts DEF Send, DynsecInv, DynsecTypeOK, SettledInOrder, OneUnderWay,
     NoneFailed, AnswersMatchUntilAFailure, Running

LEMMA StartBatchKeeps == DynsecInv /\ StartBatch => DynsecInv'
  <1> SUFFICES ASSUME DynsecInv, StartBatch PROVE DynsecInv'
    OBVIOUS
  <1>1. /\ active \in Nat /\ active + 1 \in Batches /\ active' = active + 1
        /\ active + 1 <= called /\ called \in 0..LastBatch
        /\ UNCHANGED <<called, connection, atBroker, responses, outcome, drops>>
        /\ phase' = "connect" /\ \A b \in 1..active : outcome[b] # NoAnswer
    BY BatchFacts DEF DynsecInv, DynsecTypeOK, StartBatch, Batches
  <1>2. DynsecTypeOK'
    BY <1>1 DEF DynsecInv, DynsecTypeOK, Batches
  <1>3. SettledInOrder'
    BY <1>1, BatchFacts DEF DynsecInv, SettledInOrder, Batches
  <1>4. ASSUME NoneFailed' PROVE NoneFailed /\ ~Running("wait")
    BY <1>1, <1>4 DEF NoneFailed, Running
  <1>5. outcome[active + 1] = NoAnswer
    BY <1>1, BatchFacts DEF DynsecInv, SettledInOrder
  <1>6. ASSUME NoneFailed'
        PROVE  Len(atBroker) = 0 /\ Len(responses) = 0
    <2>1. Len(atBroker) \in Nat /\ Len(responses) \in Nat
      BY DEF DynsecInv, DynsecTypeOK
    <2> QED BY <1>4, <1>6, <2>1 DEF DynsecInv, OneUnderWay
  <1>7. OneUnderWay'
    BY <1>1, <1>4, <1>5, <1>6 DEF DynsecInv, OneUnderWay, Running
  <1> QED BY <1>1, <1>2, <1>3, <1>7 DEF DynsecInv, AnswersMatchUntilAFailure

\* A batch that ends without its response: nothing more is promised.
LEMMA FailureKeeps ==
  ASSUME DynsecInv, active # 0, outcome[active] = NoAnswer, Settle(Failed),
         UNCHANGED <<called, active, phase, connection, atBroker, responses, drops>>
  PROVE  DynsecInv'
  <1>1. active \in Batches /\ active \in Nat /\ outcome \in [Batches -> 0..Failed]
    BY BatchFacts DEF DynsecInv, DynsecTypeOK, Batches
  <1>2. outcome' \in [Batches -> 0..Failed]
        /\ \A b \in Batches : outcome'[b] = IF b = active THEN Failed ELSE outcome[b]
    BY <1>1, BatchFacts DEF Settle
  <1>3. DynsecTypeOK'
    BY <1>2 DEF DynsecInv, DynsecTypeOK
  <1>4. SettledInOrder'
    BY <1>1, <1>2, BatchFacts DEF DynsecInv, SettledInOrder
  <1>5. ~NoneFailed'
    BY <1>1, <1>2, BatchFacts DEF NoneFailed
  <1>6. AnswersMatchUntilAFailure'
    BY <1>1, <1>2, BatchFacts DEF DynsecInv, AnswersMatchUntilAFailure, Batches
  <1> QED BY <1>3, <1>4, <1>5, <1>6 DEF DynsecInv, OneUnderWay

LEMMA ConnectKeeps == DynsecInv /\ (Connect \/ ReconnectControl) => DynsecInv'
  BY BatchFacts DEF Connect, ReconnectControl, DynsecInv, DynsecTypeOK, SettledInOrder,
     OneUnderWay, NoneFailed, AnswersMatchUntilAFailure, Running

LEMMA PublishKeeps == DynsecInv /\ PublishBatch => DynsecInv'
  <1> SUFFICES ASSUME DynsecInv, PublishBatch PROVE DynsecInv'
    OBVIOUS
  <1>1. /\ active \in Batches /\ active \in Nat /\ Running("publish") /\ ~Running("wait")
        /\ atBroker' = Append(atBroker, active) /\ phase' = "wait"
        /\ UNCHANGED <<called, active, connection, responses, outcome, drops>>
        /\ atBroker \in Seq(Batches) /\ responses \in Seq(Batches)
    BY BatchFacts DEF DynsecInv, DynsecTypeOK, PublishBatch, Batches, Running
  <1>2. /\ atBroker' \in Seq(Batches) /\ Len(atBroker') = Len(atBroker) + 1
        /\ Len(atBroker) \in Nat /\ Len(responses) \in Nat
        /\ \A i \in 1..Len(atBroker) : atBroker'[i] = atBroker[i]
        /\ atBroker'[Len(atBroker) + 1] = active
    BY <1>1
  <1>3. DynsecTypeOK'
    BY <1>1, <1>2 DEF DynsecInv, DynsecTypeOK
  <1>4. Running("wait")' /\ (NoneFailed' <=> NoneFailed)
    BY <1>1 DEF Running, NoneFailed
  <1>5. OneUnderWay'
    BY <1>1, <1>2, <1>4 DEF DynsecInv, OneUnderWay
  <1> QED BY <1>1, <1>3, <1>5 DEF DynsecInv, SettledInOrder, AnswersMatchUntilAFailure

LEMMA BrokerKeeps == DynsecInv /\ BrokerAnswers => DynsecInv'
  <1> SUFFICES ASSUME DynsecInv, BrokerAnswers PROVE DynsecInv'
    OBVIOUS
  <1>1. /\ atBroker # <<>>
        /\ atBroker' = Tail(atBroker) /\ responses' = Append(responses, Head(atBroker))
        /\ UNCHANGED <<called, active, phase, connection, outcome, drops>>
        /\ atBroker \in Seq(Batches) /\ responses \in Seq(Batches)
    BY DEF DynsecInv, DynsecTypeOK, BrokerAnswers
  <1>2. /\ atBroker' \in Seq(Batches) /\ Len(atBroker) = Len(atBroker') + 1
        /\ \A i \in 1..Len(atBroker') : atBroker'[i] = atBroker[i + 1]
        /\ Len(atBroker) \in Nat /\ Len(atBroker') \in Nat
        /\ Head(atBroker) = atBroker[1] /\ Head(atBroker) \in Batches
    BY <1>1
  <1>3. /\ responses' \in Seq(Batches) /\ Len(responses') = Len(responses) + 1
        /\ \A i \in 1..Len(responses) : responses'[i] = responses[i]
        /\ responses'[Len(responses) + 1] = atBroker[1] /\ Len(responses) \in Nat
    BY <1>1, <1>2
  <1>4. DynsecTypeOK'
    BY <1>1, <1>2, <1>3 DEF DynsecInv, DynsecTypeOK
  <1>5. (Running("wait")' <=> Running("wait")) /\ (NoneFailed' <=> NoneFailed)
    BY <1>1 DEF Running, NoneFailed
  <1>6. OneUnderWay'
    BY <1>1, <1>2, <1>3, <1>5 DEF DynsecInv, OneUnderWay
  <1> QED BY <1>1, <1>4, <1>6 DEF DynsecInv, SettledInOrder, AnswersMatchUntilAFailure

\* The response is of the batch that waits, unless one before it had failed.
LEMMA ResponseKeeps == DynsecInv /\ OnResponse => DynsecInv'
  <1> SUFFICES ASSUME DynsecInv, OnResponse PROVE DynsecInv'
    OBVIOUS
  <1>1. /\ responses # <<>> /\ responses' = Tail(responses)
        /\ UNCHANGED <<called, active, phase, connection, atBroker, drops>>
        /\ responses \in Seq(Batches) /\ atBroker \in Seq(Batches)
        /\ outcome \in [Batches -> 0..Failed]
    BY DEF DynsecInv, DynsecTypeOK, OnResponse
  <1>2. /\ responses' \in Seq(Batches) /\ Len(responses) = Len(responses') + 1
        /\ \A i \in 1..Len(responses') : responses'[i] = responses[i + 1]
        /\ Len(responses) \in Nat /\ Len(responses') \in Nat /\ Len(atBroker) \in Nat
        /\ Head(responses) = responses[1] /\ Head(responses) \in Batches
    BY <1>1
  <1>3. CASE ~Running("wait")
    <2>1. outcome' = outcome
      BY <1>3 DEF OnResponse
    <2>2. DynsecTypeOK'
      BY <1>1, <1>2, <2>1 DEF DynsecInv, DynsecTypeOK
    <2>3. (Running("wait")' <=> Running("wait")) /\ (NoneFailed' <=> NoneFailed)
      BY <1>1, <2>1 DEF Running, NoneFailed
    <2>4. OneUnderWay'
      BY <1>1, <1>2, <2>1, <2>3 DEF DynsecInv, OneUnderWay
    <2> QED
      BY <1>1, <2>1, <2>2, <2>4 DEF DynsecInv, SettledInOrder, AnswersMatchUntilAFailure
  <1>4. CASE Running("wait")
    <2>1. /\ active \in Batches /\ active \in Nat /\ outcome[active] = NoAnswer
          /\ \A b \in 1..active : b \in Batches
      BY <1>4, BatchFacts DEF Running, DynsecInv, DynsecTypeOK, Batches
    <2>2. /\ outcome' \in [Batches -> 0..Failed]
          /\ \A b \in Batches :
               outcome'[b] = IF b = active THEN Head(responses) ELSE outcome[b]
      <3>1. outcome' = [outcome EXCEPT ![active] = Head(responses)]
        BY <1>4 DEF OnResponse, Settle
      <3>2. Head(responses) \in 0..Failed
        BY <1>2, BatchFacts DEF Batches
      <3> QED BY <1>1, <2>1, <3>1, <3>2
    <2>3. Head(responses) # NoAnswer /\ Head(responses) # Failed
      BY <1>2, BatchFacts
    <2>4. DynsecTypeOK'
      BY <1>1, <1>2, <2>2 DEF DynsecInv, DynsecTypeOK
    <2>5. SettledInOrder'
      BY <1>1, <2>1, <2>2, <2>3, BatchFacts DEF DynsecInv, SettledInOrder
    <2>6. (NoneFailed' => NoneFailed) /\ ~Running("wait")'
      BY <1>1, <2>1, <2>2, <2>3, BatchFacts DEF NoneFailed, Running
    <2>7. NoneFailed => Head(responses) = active /\ Len(responses') = 0 /\ Len(atBroker) = 0
      BY <1>2, <1>4 DEF DynsecInv, OneUnderWay
    <2>8. OneUnderWay'
      BY <1>1, <2>1, <2>2, <2>6, <2>7 DEF DynsecInv, OneUnderWay
    <2>9. ASSUME NEW b \in Batches, outcome'[b] \notin {NoAnswer, b, Failed}
          PROVE  \E a \in 1..(b - 1) : outcome'[a] = Failed
      <3>1. \E a \in 1..(b - 1) : outcome[a] = Failed
        <4>1. CASE b = active
          <5>1. ~NoneFailed
            BY <2>2, <2>7, <2>9, <4>1
          <5> QED BY <2>1, <4>1, <5>1, BatchFacts DEF NoneFailed
        <4>2. CASE b # active
          BY <2>2, <2>9, <4>2 DEF DynsecInv, AnswersMatchUntilAFailure
        <4> QED BY <4>1, <4>2
      <3>2. PICK a \in 1..(b - 1) : outcome[a] = Failed
        BY <3>1
      <3>3. a \in Batches /\ a # active
        BY <2>1, <2>9, <3>2, BatchFacts DEF Batches
      <3> QED BY <2>2, <3>2, <3>3
    <2>10. AnswersMatchUntilAFailure'
      BY <2>9 DEF AnswersMatchUntilAFailure
    <2> QED BY <2>4, <2>5, <2>8, <2>10 DEF DynsecInv
  <1> QED BY <1>3, <1>4

LEMMA DropKeeps == DynsecInv /\ DropConnection => DynsecInv'
  <1> SUFFICES ASSUME DynsecInv, DropConnection PROVE DynsecInv'
    OBVIOUS
  <1>1. /\ responses' = <<>> /\ drops' \in 0..DropLimit /\ connection' = FALSE
        /\ UNCHANGED <<called, active, phase, atBroker, outcome>>
    BY BatchFacts DEF DynsecInv, DynsecTypeOK, DropConnection
  <1>2. Len(responses') = 0 /\ Len(responses) \in Nat /\ Len(atBroker) \in Nat
        /\ responses' \in Seq(Batches)
    BY <1>1 DEF DynsecInv, DynsecTypeOK
  <1>3. (Running("wait")' <=> Running("wait")) /\ (NoneFailed' <=> NoneFailed)
    BY <1>1 DEF Running, NoneFailed
  <1>4. OneUnderWay'
    BY <1>1, <1>2, <1>3 DEF DynsecInv, OneUnderWay
  <1>5. DynsecTypeOK'
    BY <1>1, <1>2 DEF DynsecInv, DynsecTypeOK
  <1> QED BY <1>1, <1>4, <1>5 DEF DynsecInv, SettledInOrder, AnswersMatchUntilAFailure

LEMMA DynsecStepKeeps == DynsecInv /\ [DynsecNext]_dynsecVars => DynsecInv'
  <1> SUFFICES ASSUME DynsecInv, [DynsecNext]_dynsecVars PROVE DynsecInv'
    OBVIOUS
  <1>1. CASE ConnectFails \/ TimeOutBatch
    BY <1>1, FailureKeeps DEF ConnectFails, TimeOutBatch, Running
  <1>2. CASE UNCHANGED dynsecVars
    BY <1>2 DEF dynsecVars, DynsecInv, DynsecTypeOK, SettledInOrder, OneUnderWay,
       NoneFailed, AnswersMatchUntilAFailure, Running
  <1> QED
    BY <1>1, <1>2, SendKeeps, StartBatchKeeps, ConnectKeeps, PublishKeeps, BrokerKeeps,
       ResponseKeeps, DropKeeps DEF DynsecNext, BatchStep

\* A batch gets the response of another only after some batch before it ended
\* without its own (send and the message handler of DynsecClient).
THEOREM AnswersMatch == DynsecSpec => []AnswersMatchUntilAFailure
  <1>1. DynsecInv => AnswersMatchUntilAFailure
    BY DEF DynsecInv
  <1> QED BY <1>1, DynsecInitial, DynsecStepKeeps, PTL DEF DynsecSpec

\* Batches settle in order, and nothing of the control client leaves its type.
THEOREM DynsecTypeCorrect == DynsecSpec => [](DynsecTypeOK /\ SettledInOrder)
  <1>1. DynsecInv => DynsecTypeOK /\ SettledInOrder
    BY DEF DynsecInv
  <1> QED BY <1>1, DynsecInitial, DynsecStepKeeps, PTL DEF DynsecSpec

-----------------------------------------------------------------------------
(* The event stream. What is on its way to Redis decides: for a channel    *)
(* that commands on their way name, the last of them says whether anybody  *)
(* counts on it; for any other, the subscription does.                     *)

LiveTabs == {t \in Tabs : stream[t] = "live"}

NoMoreThanLive == \A c \in Channels : refs[c] <= Cardinality(LiveTabs)

LastFor(i, c) ==
  /\ c \in subQueue[i].channels
  /\ \A j \in (i + 1)..Len(subQueue) : c \notin subQueue[j].channels

QueueEndsAsCounted ==
  \A c \in Channels :
    /\ \A i \in 1..Len(subQueue) :
         LastFor(i, c) => (subQueue[i].op = "subscribe" <=> refs[c] > 0)
    /\ (\A i \in 1..Len(subQueue) : c \notin subQueue[i].channels) =>
         (c \in subscribed <=> refs[c] > 0)

EventsInv == EventStreamTypeOK /\ NoMoreThanLive /\ QueueEndsAsCounted

LEMMA LiveIsFinite ==
  /\ IsFiniteSet(Tabs) /\ IsFiniteSet(LiveTabs) /\ Cardinality(LiveTabs) \in Nat
  /\ Cardinality(LiveTabs) <= Cardinality(Tabs) /\ Cardinality(Tabs) \in Nat
  <1>1. IsFiniteSet(Tabs) /\ LiveTabs \subseteq Tabs
    BY EventStreamAssumption DEF LiveTabs
  <1>2. IsFiniteSet(LiveTabs) /\ Cardinality(LiveTabs) <= Cardinality(Tabs)
    BY <1>1, FS_Subset
  <1> QED BY <1>1, <1>2, FS_CardinalityType

LEMMA EventFacts ==
  ASSUME EventsInv
  PROVE  /\ LastVersion \in Nat /\ LossLimit \in Nat /\ QueueLimit \in Nat
         /\ rowVersion \in [Channels -> Versions]
         /\ unannounced \in [Channels -> SUBSET Versions]
         /\ refs \in [Channels -> Nat] /\ listening \in [Channels -> SUBSET Tabs]
         /\ subscribed \subseteq Channels /\ subQueue \in Seq(SubCommand)
         /\ Len(subQueue) \in Nat /\ Len(subQueue) <= QueueLimit
         /\ stream \in [Tabs -> {"none", "starting", "live", "closing"}]
         /\ snapshot \in [Tabs -> [Channels -> Versions]]
         /\ shown \in [Tabs -> [Channels -> Versions]]
         /\ redisLosses \in 0..LossLimit
  <1>1. refs \in [Channels -> 0..Cardinality(Tabs)] /\ 0..Cardinality(Tabs) \subseteq Nat
    BY LiveIsFinite DEF EventsInv, EventStreamTypeOK
  <1>2. refs \in [Channels -> Nat]
    BY <1>1
  <1> QED BY <1>2, EventStreamAssumption DEF EventsInv, EventStreamTypeOK

\* How the parts of the invariant are put together again after a step.
LEMMA EventsHold ==
  ASSUME rowVersion' \in [Channels -> Versions],
         unannounced' \in [Channels -> SUBSET Versions],
         refs' \in [Channels -> Nat], listening' \in [Channels -> SUBSET Tabs],
         subscribed' \subseteq Channels, subQueue' \in Seq(SubCommand),
         Len(subQueue') <= QueueLimit,
         stream' \in [Tabs -> {"none", "starting", "live", "closing"}],
         snapshot' \in [Tabs -> [Channels -> Versions]],
         shown' \in [Tabs -> [Channels -> Versions]],
         redisLosses' \in 0..LossLimit,
         NoMoreThanLive', QueueEndsAsCounted'
  PROVE  EventsInv'
  <1>1. Cardinality(LiveTabs)' \in Nat /\ Cardinality(LiveTabs)' <= Cardinality(Tabs)
        /\ Cardinality(Tabs) \in Nat
    <2>1. IsFiniteSet(Tabs) /\ LiveTabs' \subseteq Tabs
      BY EventStreamAssumption DEF LiveTabs
    <2>2. IsFiniteSet(LiveTabs') /\ Cardinality(LiveTabs') <= Cardinality(Tabs)
      BY <2>1, FS_Subset
    <2> QED BY <2>1, <2>2, FS_CardinalityType
  <1>2. refs' \in [Channels -> 0..Cardinality(Tabs)]
    BY <1>1 DEF NoMoreThanLive
  <1> QED BY <1>2 DEF EventsInv, EventStreamTypeOK

LEMMA EventStreamInitial == EventStreamInit => EventsInv
  <1> SUFFICES ASSUME EventStreamInit PROVE EventsInv
    OBVIOUS
  <1>1. /\ 0 \in Versions /\ LossLimit \in Nat /\ QueueLimit \in Nat
        /\ \A c \in Channels : refs[c] = 0
    BY EventStreamAssumption DEF Versions, EventStreamInit
  <1>2. /\ subQueue \in Seq(SubCommand) /\ Len(subQueue) = 0
    BY DEF EventStreamInit
  <1>3. EventStreamTypeOK
    BY <1>1, <1>2, LiveIsFinite DEF EventStreamInit, EventStreamTypeOK
  <1>4. NoMoreThanLive
    BY <1>1, LiveIsFinite DEF NoMoreThanLive
  <1>5. QueueEndsAsCounted
    BY <1>1, <1>2 DEF QueueEndsAsCounted, EventStreamInit
  <1> QED BY <1>3, <1>4, <1>5 DEF EventsInv

\* A step that leaves the counts, the commands and the streams alone.
LEMMA BusUntouched ==
  ASSUME EventsInv, UNCHANGED <<refs, subscribed, subQueue>>,
         LiveTabs' = LiveTabs
  PROVE  NoMoreThanLive' /\ QueueEndsAsCounted'
  BY DEF EventsInv, NoMoreThanLive, QueueEndsAsCounted, LastFor

LEMMA RowsKeep ==
  ASSUME EventsInv, NEW c \in Channels, ChangeRow(c) \/ Publish(c)
  PROVE  EventsInv'
  <1>1. /\ UNCHANGED <<redisLosses, refs, listening, subscribed, subQueue, stream, snapshot>>
        /\ LiveTabs' = LiveTabs
    BY DEF ChangeRow, Publish, busVars, tabVars, LiveTabs
  <1>2. /\ rowVersion' \in [Channels -> Versions]
        /\ unannounced' \in [Channels -> SUBSET Versions]
    <2>1. CASE ChangeRow(c)
      <3>1. rowVersion[c] + 1 \in Versions
        BY <2>1, EventFacts DEF ChangeRow, Versions
      <3> QED BY <2>1, <3>1, EventFacts DEF ChangeRow
    <2>2. CASE Publish(c)
      BY <2>2, EventFacts DEF Publish
    <2> QED BY <2>1, <2>2
  <1>3. shown' \in [Tabs -> [Channels -> Versions]]
    <2>1. CASE UNCHANGED shown
      BY <2>1, EventFacts
    <2>2. CASE \E v \in unannounced[c] : Deliver(c, v)
      <3>1. PICK v \in unannounced[c] : Deliver(c, v)
        BY <2>2
      <3>2. v \in Versions
        BY EventFacts
      <3>3. \A t \in Tabs : [shown[t] EXCEPT ![c] = v] \in [Channels -> Versions]
        BY <3>2, EventFacts
      <3> QED BY <3>1, <3>3, EventFacts DEF Deliver
    <2> QED BY <2>1, <2>2 DEF ChangeRow, Publish, tabVars
  <1> QED BY <1>1, <1>2, <1>3, BusUntouched, EventFacts, EventsHold

\* A command that says of its channels what the counts come to say.
LEMMA EnqueueKeeps ==
  ASSUME EventsInv, NEW op \in {"subscribe", "unsubscribe"}, NEW cs \in SUBSET Channels,
         Enqueue(op, cs), subscribed' = subscribed,
         \A c \in cs : op = "subscribe" <=> refs'[c] > 0,
         \A c \in Channels \ cs : refs'[c] > 0 <=> refs[c] > 0
  PROVE  /\ QueueEndsAsCounted'
         /\ subQueue' \in Seq(SubCommand) /\ Len(subQueue') <= QueueLimit
  <1> DEFINE cmd == [op |-> op, channels |-> cs]
  <1>1. Len(subQueue) < QueueLimit /\ Len(subQueue) \in Nat /\ QueueLimit \in Nat
        /\ subQueue \in Seq(SubCommand)
    BY EventFacts DEF Enqueue
  <1>2. CASE cs = {}
    <2>1. subQueue' = subQueue
      BY <1>2 DEF Enqueue
    <2> QED
      BY <1>1, <1>2, <2>1 DEF EventsInv, QueueEndsAsCounted, LastFor
  <1>3. CASE cs # {}
    <2>1. subQueue' = Append(subQueue, cmd) /\ cmd \in SubCommand
          /\ cmd.op = op /\ cmd.channels = cs
      BY <1>3 DEF Enqueue, SubCommand
    <2> HIDE DEF cmd
    <2>2. /\ subQueue' \in Seq(SubCommand) /\ Len(subQueue') = Len(subQueue) + 1
          /\ \A i \in 1..Len(subQueue) : subQueue'[i] = subQueue[i]
          /\ subQueue'[Len(subQueue) + 1] = cmd
      BY <1>1, <2>1
    <2>3. ASSUME NEW c \in Channels, NEW i \in 1..Len(subQueue'), LastFor(i, c)'
          PROVE  subQueue'[i].op = "subscribe" <=> refs'[c] > 0
      <3>1. CASE i = Len(subQueue) + 1
        BY <2>1, <2>2, <2>3, <3>1 DEF LastFor
      <3>2. CASE i # Len(subQueue) + 1
        <4>1. i \in 1..Len(subQueue) /\ subQueue'[i] = subQueue[i] /\ c \notin cs
          BY <1>1, <2>1, <2>2, <2>3, <3>2 DEF LastFor
        <4>2. LastFor(i, c)
          BY <1>1, <2>2, <2>3, <4>1 DEF LastFor
        <4> QED BY <4>1, <4>2 DEF EventsInv, QueueEndsAsCounted
      <3> QED BY <3>1, <3>2
    <2>4. ASSUME NEW c \in Channels, \A i \in 1..Len(subQueue') : c \notin subQueue'[i].channels
          PROVE  c \in subscribed' <=> refs'[c] > 0
      <3>1. c \notin cs /\ \A i \in 1..Len(subQueue) : c \notin subQueue[i].channels
        BY <1>1, <2>1, <2>2, <2>4
      <3> QED BY <3>1 DEF EventsInv, QueueEndsAsCounted
    <2>5. QueueEndsAsCounted'
      BY <2>3, <2>4 DEF QueueEndsAsCounted
    <2> QED BY <1>1, <2>2, <2>5
  <1> QED BY <1>2, <1>3

LEMMA RunSubCommandKeeps == EventsInv /\ RunSubCommand => EventsInv'
  <1> SUFFICES ASSUME EventsInv, RunSubCommand PROVE EventsInv'
    OBVIOUS
  <1>1. /\ UNCHANGED <<rowVersion, unannounced, redisLosses, refs, listening, stream,
                       snapshot, shown>>
        /\ subQueue # <<>> /\ subQueue' = Tail(subQueue)
        /\ subscribed' = IF Head(subQueue).op = "subscribe"
                         THEN subscribed \cup Head(subQueue).channels
                         ELSE subscribed \ Head(subQueue).channels
    BY DEF RunSubCommand, rowsVars, tabVars
  <1>2. /\ subQueue' \in Seq(SubCommand) /\ Len(subQueue) = Len(subQueue') + 1
        /\ Len(subQueue') \in Nat /\ Len(subQueue) \in Nat
        /\ \A i \in 1..Len(subQueue') : subQueue'[i] = subQueue[i + 1]
        /\ Head(subQueue) = subQueue[1] /\ subQueue[1] \in SubCommand
    BY <1>1, EventFacts
  <1>3. subscribed' \subseteq Channels /\ Len(subQueue') <= QueueLimit
    BY <1>1, <1>2, EventFacts DEF SubCommand
  <1>4. ASSUME NEW c \in Channels, NEW i \in 1..Len(subQueue'), LastFor(i, c)'
        PROVE  subQueue'[i].op = "subscribe" <=> refs'[c] > 0
    <2>1. i + 1 \in 1..Len(subQueue) /\ subQueue'[i] = subQueue[i + 1]
      BY <1>2
    <2>2. LastFor(i + 1, c)
      <3>1. ASSUME NEW j \in (i + 1 + 1)..Len(subQueue) PROVE c \notin subQueue[j].channels
        <4>1. j - 1 \in (i + 1)..Len(subQueue') /\ subQueue'[j - 1] = subQueue[j]
          BY <1>2, <3>1
        <4> QED BY <1>4, <4>1 DEF LastFor
      <3> QED BY <1>4, <2>1, <3>1 DEF LastFor
    <2> QED BY <1>1, <2>1, <2>2 DEF EventsInv, QueueEndsAsCounted
  <1>5. ASSUME NEW c \in Channels, \A i \in 1..Len(subQueue') : c \notin subQueue'[i].channels
        PROVE  c \in subscribed' <=> refs'[c] > 0
    <2>1. \A j \in 2..Len(subQueue) : c \notin subQueue[j].channels
      <3>1. ASSUME NEW j \in 2..Len(subQueue) PROVE c \notin subQueue[j].channels
        <4>1. j - 1 \in 1..Len(subQueue') /\ subQueue'[j - 1] = subQueue[j]
          BY <1>2, <3>1
        <4> QED BY <1>5, <4>1
      <3> QED BY <3>1
    <2>2. CASE c \in subQueue[1].channels
      <3>1. LastFor(1, c) /\ 1 \in 1..Len(subQueue)
        BY <1>2, <2>1, <2>2 DEF LastFor
      <3>2. subQueue[1].op = "subscribe" <=> refs[c] > 0
        BY <3>1 DEF EventsInv, QueueEndsAsCounted
      <3> QED BY <1>1, <1>2, <2>2, <3>2
    <2>3. CASE c \notin subQueue[1].channels
      <3>1. \A j \in 1..Len(subQueue) : c \notin subQueue[j].channels
        BY <1>2, <2>1, <2>3
      <3>2. c \in subscribed <=> refs[c] > 0
        BY <3>1 DEF EventsInv, QueueEndsAsCounted
      <3> QED BY <1>1, <1>2, <2>3, <3>2
    <2> QED BY <2>2, <2>3
  <1>6. QueueEndsAsCounted'
    BY <1>4, <1>5 DEF QueueEndsAsCounted
  <1>7. NoMoreThanLive'
    BY <1>1 DEF EventsInv, NoMoreThanLive, LiveTabs
  <1> QED BY <1>1, <1>2, <1>3, <1>6, <1>7, EventFacts, EventsHold

\* The channels that are counted go before the commands that were waiting.
LEMMA LoseRedisKeeps == EventsInv /\ LoseRedis => EventsInv'
  <1> SUFFICES ASSUME EventsInv, LoseRedis PROVE EventsInv'
    OBVIOUS
  <1> DEFINE counted == {c \in Channels : refs[c] > 0}
             again == [op |-> "subscribe", channels |-> counted]
  <1>1. /\ UNCHANGED <<rowVersion, unannounced, refs, listening, stream, snapshot, shown>>
        /\ subscribed' = {} /\ subQueue' = <<again>> \o subQueue
        /\ redisLosses' \in 0..LossLimit /\ Len(subQueue) < QueueLimit
    BY EventFacts DEF LoseRedis, tabVars
  <1>2. again \in SubCommand /\ again.op = "subscribe" /\ again.channels = counted
    BY DEF SubCommand
  <1> HIDE DEF again
  <1>3. /\ subQueue' \in Seq(SubCommand) /\ Len(subQueue') = Len(subQueue) + 1
        /\ subQueue'[1] = again
        /\ \A i \in 2..Len(subQueue') : subQueue'[i] = subQueue[i - 1]
        /\ Len(subQueue) \in Nat /\ Len(subQueue') \in Nat
    BY <1>1, <1>2, EventFacts
  <1>4. ASSUME NEW c \in Channels, NEW i \in 1..Len(subQueue'), LastFor(i, c)'
        PROVE  subQueue'[i].op = "subscribe" <=> refs'[c] > 0
    <2>1. CASE i = 1
      BY <1>1, <1>2, <1>3, <1>4, <2>1 DEF LastFor
    <2>2. CASE i # 1
      <3>1. i - 1 \in 1..Len(subQueue) /\ subQueue'[i] = subQueue[i - 1]
        BY <1>3, <2>2
      <3>2. LastFor(i - 1, c)
        <4>1. ASSUME NEW j \in (i - 1 + 1)..Len(subQueue) PROVE c \notin subQueue[j].channels
          <5>1. j + 1 \in (i + 1)..Len(subQueue') /\ subQueue'[j + 1] = subQueue[j]
            BY <1>3, <2>2, <4>1
          <5> QED BY <1>4, <5>1 DEF LastFor
        <4> QED BY <1>4, <3>1, <4>1 DEF LastFor
      <3> QED BY <1>1, <3>1, <3>2 DEF EventsInv, QueueEndsAsCounted
    <2> QED BY <2>1, <2>2
  <1>5. ASSUME NEW c \in Channels, \A i \in 1..Len(subQueue') : c \notin subQueue'[i].channels
        PROVE  c \in subscribed' <=> refs'[c] > 0
    <2>1. 1 \in 1..Len(subQueue')
      BY <1>3
    <2>2. c \notin counted
      BY <1>2, <1>3, <1>5, <2>1
    <2> QED BY <1>1, <2>2
  <1>6. QueueEndsAsCounted'
    BY <1>4, <1>5 DEF QueueEndsAsCounted
  <1>7. NoMoreThanLive'
    BY <1>1 DEF EventsInv, NoMoreThanLive, LiveTabs
  <1>8. subscribed' \subseteq Channels /\ Len(subQueue') <= QueueLimit
    BY <1>1, <1>3, EventFacts
  <1> QED BY <1>1, <1>3, <1>6, <1>7, <1>8, EventFacts, EventsHold

\* The step of one stream: how it counts among the live ones.
LEMMA LiveMoves ==
  ASSUME EventsInv, NEW t \in Tabs, NEW next \in {"none", "starting", "live", "closing"},
         stream' = [stream EXCEPT ![t] = next]
  PROVE  /\ stream' \in [Tabs -> {"none", "starting", "live", "closing"}]
         /\ Cardinality(LiveTabs)' \in Nat /\ Cardinality(LiveTabs) \in Nat
         /\ next # "live" /\ stream[t] # "live" => LiveTabs' = LiveTabs
         /\ next = "live" /\ stream[t] # "live" =>
              Cardinality(LiveTabs)' = Cardinality(LiveTabs) + 1
         /\ next # "live" /\ stream[t] = "live" =>
              Cardinality(LiveTabs)' = Cardinality(LiveTabs) - 1
  <1>1. /\ stream' \in [Tabs -> {"none", "starting", "live", "closing"}]
        /\ LiveTabs' = IF next = "live" THEN LiveTabs \cup {t} ELSE LiveTabs \ {t}
    BY EventFacts DEF LiveTabs
  <1>2. IsFiniteSet(LiveTabs) /\ Cardinality(LiveTabs) \in Nat /\ (t \in LiveTabs <=> stream[t] = "live")
    BY LiveIsFinite DEF LiveTabs
  <1>3. /\ Cardinality(LiveTabs \cup {t}) =
             (IF t \in LiveTabs THEN Cardinality(LiveTabs) ELSE Cardinality(LiveTabs) + 1)
        /\ Cardinality(LiveTabs \ {t}) =
             (IF t \in LiveTabs THEN Cardinality(LiveTabs) - 1 ELSE Cardinality(LiveTabs))
        /\ IsFiniteSet(LiveTabs \cup {t}) /\ IsFiniteSet(LiveTabs \ {t})
    BY <1>2, FS_AddElement, FS_RemoveElement
  <1>4. Cardinality(LiveTabs \cup {t}) \in Nat /\ Cardinality(LiveTabs \ {t}) \in Nat
    BY <1>3, FS_CardinalityType
  <1>5. t \notin LiveTabs => LiveTabs \ {t} = LiveTabs
    OBVIOUS
  <1> QED BY <1>1, <1>2, <1>3, <1>4, <1>5

LEMMA OpenKeeps ==
  ASSUME EventsInv, NEW t \in Tabs, OpenStream(t) \/ Drain(t) PROVE EventsInv'
  <1>1. /\ UNCHANGED <<rowVersion, unannounced, redisLosses, refs, listening, subscribed,
                       subQueue, shown>>
        /\ snapshot' \in [Tabs -> [Channels -> Versions]]
        /\ \E next \in {"none", "starting"} : stream' = [stream EXCEPT ![t] = next]
        /\ stream[t] # "live"
    BY EventFacts DEF OpenStream, Drain, rowsVars, busVars
  <1>2. stream' \in [Tabs -> {"none", "starting", "live", "closing"}] /\ LiveTabs' = LiveTabs
    BY <1>1, LiveMoves
  <1> QED BY <1>1, <1>2, BusUntouched, EventFacts, EventsHold

LEMMA StartStreamKeeps ==
  ASSUME EventsInv, NEW t \in Tabs, StartStream(t) PROVE EventsInv'
  <1> DEFINE cs == {c \in Channels : refs[c] = 0}
  <1>1. /\ UNCHANGED <<rowVersion, unannounced, redisLosses, subscribed, snapshot>>
        /\ refs' = [c \in Channels |-> refs[c] + 1]
        /\ listening' = [c \in Channels |-> listening[c] \cup {t}]
        /\ Enqueue("subscribe", cs)
        /\ stream' = [stream EXCEPT ![t] = "live"] /\ stream[t] # "live"
        /\ shown' = [shown EXCEPT ![t] = snapshot[t]]
    BY DEF StartStream, Subscribe, rowsVars
  <1>2. /\ refs' \in [Channels -> Nat] /\ \A c \in Channels : refs'[c] = refs[c] + 1
        /\ listening' \in [Channels -> SUBSET Tabs]
        /\ shown' \in [Tabs -> [Channels -> Versions]]
    BY <1>1, EventFacts
  <1>3. /\ cs \in SUBSET Channels
        /\ \A c \in cs : refs'[c] > 0
        /\ \A c \in Channels \ cs : refs'[c] > 0 <=> refs[c] > 0
    BY <1>2, EventFacts
  <1> HIDE DEF cs
  <1>4. QueueEndsAsCounted' /\ subQueue' \in Seq(SubCommand) /\ Len(subQueue') <= QueueLimit
    BY <1>1, <1>3, EnqueueKeeps
  <1>5. /\ stream' \in [Tabs -> {"none", "starting", "live", "closing"}]
        /\ Cardinality(LiveTabs)' = Cardinality(LiveTabs) + 1 /\ Cardinality(LiveTabs) \in Nat
    BY <1>1, LiveMoves
  <1>6. NoMoreThanLive'
    BY <1>2, <1>5, EventFacts DEF EventsInv, NoMoreThanLive
  <1>7. subscribed' \subseteq Channels
    BY <1>1, EventFacts
  <1> QED BY <1>1, <1>2, <1>4, <1>5, <1>6, <1>7, EventFacts, EventsHold

LEMMA LeaveKeeps ==
  ASSUME EventsInv, NEW t \in Tabs, Cleanup(t) \/ Cancel(t) PROVE EventsInv'
  <1> DEFINE cs == {c \in Channels : Left(c) = 0}
  <1>1. PICK next \in {"none", "closing"} :
          /\ UNCHANGED <<rowVersion, unannounced, redisLosses, subscribed, snapshot, shown>>
          /\ refs' = [c \in Channels |-> Left(c)]
          /\ listening' = [c \in Channels |-> listening[c] \ {t}]
          /\ Enqueue("unsubscribe", cs)
          /\ stream' = [stream EXCEPT ![t] = next]
    BY DEF Cleanup, Cancel, Unsubscribe, rowsVars
  <1>2. /\ refs' \in [Channels -> Nat] /\ \A c \in Channels : refs'[c] = Left(c)
        /\ \A c \in Channels : refs[c] \in Nat
        /\ listening' \in [Channels -> SUBSET Tabs]
    BY <1>1, EventFacts DEF Left
  <1>3. /\ cs \in SUBSET Channels
        /\ \A c \in cs : ~(refs'[c] > 0)
        /\ \A c \in Channels \ cs : refs'[c] > 0 <=> refs[c] > 0
    BY <1>2 DEF Left
  <1> HIDE DEF cs
  <1>4. QueueEndsAsCounted' /\ subQueue' \in Seq(SubCommand) /\ Len(subQueue') <= QueueLimit
    BY <1>1, <1>3, EnqueueKeeps
  <1>5. /\ stream' \in [Tabs -> {"none", "starting", "live", "closing"}]
        /\ Cardinality(LiveTabs)' >= Cardinality(LiveTabs) - 1
        /\ Cardinality(LiveTabs) \in Nat /\ Cardinality(LiveTabs)' \in Nat
    <2>1. next # "live" /\ next \in {"none", "starting", "live", "closing"}
      OBVIOUS
    <2>2. /\ stream' \in [Tabs -> {"none", "starting", "live", "closing"}]
          /\ Cardinality(LiveTabs)' \in Nat /\ Cardinality(LiveTabs) \in Nat
          /\ stream[t] # "live" => LiveTabs' = LiveTabs
          /\ stream[t] = "live" => Cardinality(LiveTabs)' = Cardinality(LiveTabs) - 1
      BY <1>1, <2>1, LiveMoves
    <2> QED BY <2>2
  <1>6. NoMoreThanLive'
    <2> SUFFICES ASSUME NEW c \in Channels PROVE refs'[c] <= Cardinality(LiveTabs)'
      BY DEF NoMoreThanLive
    <2>1. refs[c] <= Cardinality(LiveTabs)
      BY DEF EventsInv, NoMoreThanLive
    <2> QED BY <1>2, <1>5, <2>1 DEF Left
  <1>7. subscribed' \subseteq Channels
    BY <1>1, EventFacts
  <1> QED BY <1>1, <1>2, <1>4, <1>5, <1>6, <1>7, EventFacts, EventsHold

LEMMA EventStepKeeps == EventsInv /\ [EventStreamNext]_eventVars => EventsInv'
  <1> SUFFICES ASSUME EventsInv, [EventStreamNext]_eventVars PROVE EventsInv'
    OBVIOUS
  <1>1. CASE UNCHANGED eventVars
    <2>1. /\ UNCHANGED <<rowVersion, unannounced, refs, listening, subscribed, subQueue,
                         stream, snapshot, shown, redisLosses>>
          /\ LiveTabs' = LiveTabs
      BY <1>1 DEF eventVars, LiveTabs
    <2> QED BY <2>1, BusUntouched, EventFacts, EventsHold
  <1> QED
    BY <1>1, RowsKeep, RunSubCommandKeeps, LoseRedisKeeps, OpenKeeps, StartStreamKeeps,
       LeaveKeeps DEF EventStreamNext, TabStep

\* With nothing on its way, Redis delivers exactly the channels that are counted,
\* whatever the order of opening, closing and reconnecting (bus.ts).
THEOREM SubscriptionsMatch == EventStreamSpec => []SubscribedAsCounted
  <1>1. EventsInv => SubscribedAsCounted
    <2> SUFFICES ASSUME EventsInv, subQueue = <<>>
                 PROVE  subscribed = {c \in Channels : refs[c] > 0}
      BY DEF SubscribedAsCounted
    <2>1. Len(subQueue) = 0
      OBVIOUS
    <2> QED BY <2>1, EventFacts DEF EventsInv, QueueEndsAsCounted
  <1> QED BY <1>1, EventStreamInitial, EventStepKeeps, PTL DEF EventStreamSpec

\* No channel is counted for more streams than are live, though a stream that
\* closes may leave twice (cleanup and cancel), and all state stays in its type.
THEOREM EventStreamTypeCorrect == EventStreamSpec => [](EventStreamTypeOK /\ NoMoreThanLive)
  <1>1. EventsInv => EventStreamTypeOK /\ NoMoreThanLive
    BY DEF EventsInv
  <1> QED BY <1>1, EventStreamInitial, EventStepKeeps, PTL DEF EventStreamSpec

-----------------------------------------------------------------------------
(* The groups of a device. A group is doomed from the moment a request     *)
(* goes about to delete it; unless that began while the group was being    *)
(* created, nobody creates it any more, and so what the broker has dropped *)
(* of it stays dropped: members are only added to a group that is there.   *)

EditorType ==
  [kind : {"none", "create", "delete", "move"},
   step : {"idle", "role", "group", "remove", "add", "dropGroup", "dropRole",
           "row", "undo", "notify"},
   from : GroupChoice, to : GroupChoice]
UpdaterType == [step : {"idle", "drop", "add", "save"}, old : Lists, new : Lists]

RowsTyped ==
  /\ groupRow \in [Groups -> {"none", "present", "deleted", "failed"}]
  /\ groupOf \in GroupChoice
AccessTyped ==
  /\ brokerRoles \subseteq Groups /\ brokerGroups \subseteq Groups
  /\ brokerMember \subseteq Groups
SessionTyped == connected \in BOOLEAN /\ pushed \subseteq Lists /\ subscribedTo \subseteq Groups
AgentTyped ==
  /\ pusher \in [Pushers -> Lists \cup {NoGroup}]
  /\ agentGroups \in Lists /\ savedGroups \in Lists
  /\ updater \in [Updaters -> UpdaterType]
CountsTyped ==
  edits \in 0..EditLimit /\ groupFaults \in 0..FaultLimit /\ hastened \subseteq Groups

\* Which request is at which step, and what it is about.
InKind(d) ==
  /\ d.step \in {"role", "group", "undo"} => d.kind = "create"
  /\ d.step \in {"dropGroup", "dropRole"} => d.kind = "delete"
  /\ d.step = "remove" => d.kind \in {"delete", "move"}
  /\ d.step = "add" => d.kind = "move"
AboutAGroup(d) ==
  /\ d.kind = "delete" => d.from \in Groups
  /\ d.kind = "create" => d.to \in Groups /\ groupRow[d.to] # "none"
KindsAndSteps == \A e \in Editors : InKind(editor[e]) /\ AboutAGroup(editor[e])

Deletes(d, g) == d.kind = "delete" /\ d.from = g
HasDropped(d, g) == Deletes(d, g) /\ d.step \in {"dropRole", "row", "notify"}
Creates(d, g) == d.kind = "create" /\ d.to = g

Doomed(g)  == groupRow[g] = "deleted" \/ \E e \in Editors : Deletes(editor[e], g)
DroppedGroup(g) == groupRow[g] = "deleted" \/ \E e \in Editors : HasDropped(editor[e], g)
AtBroker(g) == g \in brokerGroups \cup brokerMember

DoomedIsCreated ==
  \A g \in Groups \ hastened : Doomed(g) => ~BeingCreated(g) /\ groupRow[g] # "none"
DroppedIsGone ==
  \A g \in Groups \ hastened : DroppedGroup(g) => ~AtBroker(g)

Deletion == KindsAndSteps /\ DoomedIsCreated /\ DroppedIsGone

GroupsInv ==
  /\ RowsTyped /\ AccessTyped /\ SessionTyped /\ AgentTyped /\ CountsTyped
  /\ editor \in [Editors -> EditorType]
  /\ Deletion

LEMMA GroupsInitial == GroupsInit => GroupsInv
  <1> SUFFICES ASSUME GroupsInit PROVE GroupsInv
    OBVIOUS
  <1>1. RowsTyped /\ AccessTyped
    BY DEF GroupsInit, RowsTyped, AccessTyped, GroupChoice
  <1>2. SessionTyped
    BY Zenon DEF GroupsInit, SessionTyped
  <1>3. AgentTyped
    BY DEF GroupsInit, AgentTyped, Lists, UpdaterType, NotUpdating
  <1>4. CountsTyped
    BY GroupsAssumption DEF GroupsInit, CountsTyped
  <1>5. /\ editor \in [Editors -> EditorType]
        /\ \A e \in Editors : editor[e].kind = "none" /\ editor[e].step = "idle"
    BY DEF GroupsInit, EditorType, Unedited, GroupChoice
  <1>6. \A g \in Groups : ~Doomed(g) /\ ~DroppedGroup(g)
    BY <1>5 DEF GroupsInit, Doomed, DroppedGroup, Deletes, HasDropped
  <1>7. Deletion
    BY <1>5, <1>6 DEF Deletion, KindsAndSteps, InKind, AboutAGroup, DoomedIsCreated,
       DroppedIsGone
  <1> QED BY <1>1, <1>2, <1>3, <1>4, <1>5, <1>7 DEF GroupsInv

\* A step of one request that may change its row and the broker: what it has to
\* respect for deletions to be final.
LEMMA DeletionGoesOn ==
  ASSUME GroupsInv, NEW e \in Editors, NEW new \in EditorType,
         editor' = [editor EXCEPT ![e] = new],
         InKind(new), AboutAGroup(new)', hastened \subseteq hastened',
         \A g \in Groups : groupRow[g] # "none" => groupRow'[g] # "none",
         \A g \in Groups \ hastened' :
           /\ Creates(new, g) => Creates(editor[e], g) \/ groupRow[g] = "none"
           /\ Deletes(new, g) => Deletes(editor[e], g)
                                 \/ (~BeingCreated(g) /\ groupRow[g] # "none")
           /\ HasDropped(new, g) => HasDropped(editor[e], g) \/ ~AtBroker(g)'
           /\ groupRow'[g] = "deleted" => groupRow[g] = "deleted" \/ HasDropped(editor[e], g)
           /\ AtBroker(g)' => AtBroker(g) \/ BeingCreated(g)
  PROVE  Deletion'
  <1>1. \A f \in Editors : editor'[f] = IF f = e THEN new ELSE editor[f]
    BY DEF GroupsInv
  <1>2. KindsAndSteps'
    BY <1>1 DEF GroupsInv, Deletion, KindsAndSteps, InKind, AboutAGroup
  <1>3. ASSUME NEW g \in Groups \ hastened'
        PROVE  /\ Creates(new, g) => Creates(editor[e], g) \/ groupRow[g] = "none"
               /\ Deletes(new, g) => Deletes(editor[e], g)
                                     \/ (~BeingCreated(g) /\ groupRow[g] # "none")
               /\ HasDropped(new, g) => HasDropped(editor[e], g) \/ ~AtBroker(g)'
               /\ groupRow'[g] = "deleted" =>
                    groupRow[g] = "deleted" \/ HasDropped(editor[e], g)
               /\ AtBroker(g)' => AtBroker(g) \/ BeingCreated(g)
               /\ groupRow[g] # "none" => groupRow'[g] # "none"
               /\ g \in Groups \ hastened
    OBVIOUS
  <1>4. ASSUME NEW g \in Groups \ hastened'
        PROVE  /\ Doomed(g) => ~BeingCreated(g) /\ groupRow[g] # "none"
               /\ DroppedGroup(g) => ~AtBroker(g)
               /\ DroppedGroup(g) => Doomed(g)
               /\ Deletes(editor[e], g) => Doomed(g)
               /\ HasDropped(editor[e], g) => DroppedGroup(g)
               /\ Creates(editor[e], g) => BeingCreated(g)
               /\ groupRow[g] = "deleted" => DroppedGroup(g)
    BY <1>3 DEF GroupsInv, Deletion, DoomedIsCreated, DroppedIsGone, Doomed, DroppedGroup,
       Deletes, HasDropped, Creates, BeingCreated
  <1>5. ASSUME NEW g \in Groups \ hastened'
        PROVE  /\ Doomed(g)' => \/ groupRow'[g] = "deleted" \/ Deletes(new, g)
                                \/ \E f \in Editors : Deletes(editor[f], g)
               /\ DroppedGroup(g)' => \/ groupRow'[g] = "deleted" \/ HasDropped(new, g)
                                 \/ \E f \in Editors : HasDropped(editor[f], g)
               /\ BeingCreated(g)' => Creates(new, g) \/ BeingCreated(g)
    BY <1>1 DEF Doomed, DroppedGroup, Deletes, HasDropped, Creates, BeingCreated
  <1>6. ASSUME NEW g \in Groups \ hastened', Doomed(g)'
        PROVE  ~BeingCreated(g)' /\ groupRow'[g] # "none"
    <2>1. CASE Deletes(new, g) /\ ~Deletes(editor[e], g)
      <3>1. ~BeingCreated(g) /\ groupRow[g] # "none" /\ ~Creates(new, g)
        BY <1>3, <2>1 DEF Deletes, Creates
      <3> QED BY <1>3, <1>5, <3>1
    <2>2. CASE ~(Deletes(new, g) /\ ~Deletes(editor[e], g))
      <3>1. Doomed(g)
        BY <1>3, <1>4, <1>5, <1>6, <2>2 DEF Doomed
      <3> QED BY <1>3, <1>4, <1>5, <3>1
    <2> QED BY <2>1, <2>2
  <1>7. ASSUME NEW g \in Groups \ hastened', DroppedGroup(g)'
        PROVE  ~AtBroker(g)'
    <2>1. CASE HasDropped(new, g) /\ ~HasDropped(editor[e], g)
      BY <1>3, <2>1
    <2>2. CASE ~(HasDropped(new, g) /\ ~HasDropped(editor[e], g))
      <3>1. DroppedGroup(g)
        BY <1>3, <1>4, <1>5, <1>7, <2>2 DEF DroppedGroup
      <3> QED BY <1>3, <1>4, <3>1
    <2> QED BY <2>1, <2>2
  <1>8. DoomedIsCreated' /\ DroppedIsGone'
    BY <1>6, <1>7 DEF DoomedIsCreated, DroppedIsGone
  <1> QED BY <1>2, <1>8 DEF Deletion

LEMMA DeletionUntouched ==
  ASSUME GroupsInv, UNCHANGED <<groupRow, editor, brokerGroups, brokerMember, hastened>>
  PROVE  Deletion' /\ editor' \in [Editors -> EditorType]
  BY DEF GroupsInv, Deletion, KindsAndSteps, AboutAGroup, DoomedIsCreated, DroppedIsGone,
     Doomed, DroppedGroup, BeingCreated, AtBroker

EditorSteps == {"idle", "role", "group", "remove", "add", "dropGroup", "dropRole",
                "row", "undo", "notify"}
Stepped(d, s) == [d EXCEPT !.step = s]

\* A request that was begun goes on or ends.
LEMMA StepKeepsDeletion ==
  ASSUME GroupsInv, NEW e \in Editors, hastened' = hastened,
         \/ Stop(e)
         \/ \E s \in EditorSteps :
              /\ Go(e, s) /\ InKind(Stepped(editor[e], s))
              /\ editor[e].kind = "delete" /\ s \in {"dropRole", "row", "notify"} =>
                   \/ editor[e].step \in {"dropRole", "row", "notify"}
                   \/ \A g \in Groups : g = editor[e].from => ~AtBroker(g)',
         \A g \in Groups : groupRow[g] # "none" => groupRow'[g] # "none",
         \A g \in Groups :
           /\ groupRow'[g] = "deleted" => groupRow[g] = "deleted" \/ HasDropped(editor[e], g)
           /\ AtBroker(g)' => AtBroker(g) \/ BeingCreated(g)
  PROVE  Deletion' /\ editor' \in [Editors -> EditorType]
  <1>1. editor[e] \in EditorType /\ InKind(editor[e]) /\ AboutAGroup(editor[e])
        /\ editor \in [Editors -> EditorType]
    BY DEF GroupsInv, Deletion, KindsAndSteps
  <1>2. CASE Stop(e)
    <2>1. Unedited \in EditorType /\ Unedited.kind = "none" /\ Unedited.step = "idle"
      BY DEF Unedited, EditorType, GroupChoice
    <2>2. /\ InKind(Unedited) /\ AboutAGroup(Unedited)'
          /\ \A g \in Groups : ~Creates(Unedited, g) /\ ~Deletes(Unedited, g)
                               /\ ~HasDropped(Unedited, g)
      BY <2>1 DEF InKind, AboutAGroup, Creates, Deletes, HasDropped, Unedited
    <2>3. editor' = [editor EXCEPT ![e] = Unedited]
      BY <1>2 DEF Stop
    <2> QED BY <1>1, <2>1, <2>2, <2>3, DeletionGoesOn
  <1>3. ASSUME NEW s \in EditorSteps, Go(e, s), InKind(Stepped(editor[e], s)),
               editor[e].kind = "delete" /\ s \in {"dropRole", "row", "notify"} =>
                   \/ editor[e].step \in {"dropRole", "row", "notify"}
                   \/ \A g \in Groups : g = editor[e].from => ~AtBroker(g)'
        PROVE  Deletion' /\ editor' \in [Editors -> EditorType]
    <2>1. PICK new \in EditorType :
            /\ new = Stepped(editor[e], s)
            /\ new.kind = editor[e].kind /\ new.step = s
            /\ new.from = editor[e].from /\ new.to = editor[e].to
      <3>1. /\ Stepped(editor[e], s) \in EditorType
            /\ Stepped(editor[e], s).kind = editor[e].kind /\ Stepped(editor[e], s).step = s
            /\ Stepped(editor[e], s).from = editor[e].from
            /\ Stepped(editor[e], s).to = editor[e].to
        BY <1>1 DEF EditorType, EditorSteps, Stepped
      <3> QED BY <3>1
    <2>2. editor' = [editor EXCEPT ![e] = new] /\ InKind(new)
      <3>1. editor' = [editor EXCEPT ![e] = Stepped(editor[e], s)]
        BY <1>3 DEF Go, Stepped
      <3> QED BY <1>3, <2>1, <3>1
    <2>3. AboutAGroup(new)'
      BY <1>1, <2>1 DEF AboutAGroup
    <2>4. ASSUME NEW g \in Groups
          PROVE  /\ Creates(new, g) => Creates(editor[e], g)
                 /\ Deletes(new, g) => Deletes(editor[e], g)
                 /\ HasDropped(new, g) => HasDropped(editor[e], g) \/ ~AtBroker(g)'
      BY <1>3, <2>1 DEF Creates, Deletes, HasDropped
    <2> QED BY <1>1, <2>1, <2>2, <2>3, <2>4, DeletionGoesOn
  <1> QED BY <1>2, <1>3

LEMMA SessionMoves ==
  ASSUME GroupsInv,
         \/ EndSession \/ UNCHANGED sessionVars
         \/ \E list \in Lists : SendList(list)
         \/ \E new : SetMembers(new)
  PROVE  SessionTyped'
  <1>1. EndSession \/ UNCHANGED sessionVars \/ \E list \in Lists : SendList(list)
    BY DEF SetMembers
  <1>2. pushed' \subseteq Lists /\ subscribedTo' \subseteq Groups
    BY <1>1 DEF EndSession, sessionVars, SendList, GroupsInv, SessionTyped
  <1>3. connected' = FALSE \/ connected' = connected
    BY <1>1 DEF EndSession, sessionVars, SendList
  <1>4. connected' \in BOOLEAN
    BY <1>3, Zenon DEF GroupsInv, SessionTyped
  <1> QED BY <1>2, <1>4 DEF SessionTyped

LEMMA EditorFacts ==
  ASSUME GroupsInv, NEW e \in Editors
  PROVE  /\ editor[e].from \in GroupChoice /\ editor[e].to \in GroupChoice
         /\ editor[e].step \in EditorSteps
         /\ InKind(editor[e]) /\ AboutAGroup(editor[e])
         /\ groupRow \in [Groups -> {"none", "present", "deleted", "failed"}]
         /\ groupOf \in GroupChoice /\ NoGroup \in GroupChoice
         /\ Groups \subseteq GroupChoice
         /\ brokerRoles \subseteq Groups /\ brokerGroups \subseteq Groups
         /\ brokerMember \subseteq Groups
  BY DEF GroupsInv, Deletion, KindsAndSteps, EditorType, EditorSteps, RowsTyped,
     AccessTyped, GroupChoice

\* What else of the invariant there is, when a request takes a step.
LEMMA RequestKeeps ==
  ASSUME GroupsInv, Deletion', editor' \in [Editors -> EditorType], RowsTyped', AccessTyped',
         SessionTyped', UNCHANGED <<pusher, subscriberVars, countVars>>
  PROVE  GroupsInv'
  BY DEF GroupsInv, AgentTyped, CountsTyped, subscriberVars, countVars

LEMMA ProvisionKeeps ==
  ASSUME GroupsInv, NEW e \in Editors, ProvisionRole(e) \/ ProvisionGroup(e),
         UNCHANGED <<pusher, subscriberVars>>
  PROVE  GroupsInv'
  <1>1. /\ UNCHANGED <<groupRow, groupOf, brokerMember, sessionVars, countVars, hastened>>
        /\ editor[e].kind = "create" /\ editor[e].to \in Groups
        /\ brokerRoles' \subseteq brokerRoles \cup {editor[e].to}
        /\ brokerGroups' \subseteq brokerGroups \cup {editor[e].to}
        /\ Go(e, "group") \/ Go(e, "undo") \/ Stop(e)
    BY EditorFacts DEF ProvisionRole, ProvisionGroup, EditorAt, AboutAGroup, groupRowVars,
       countVars
  <1>2. AccessTyped' /\ RowsTyped'
    BY <1>1, EditorFacts DEF AccessTyped, RowsTyped
  <1>3. \A s \in {"group", "undo"} : s \in EditorSteps /\ InKind(Stepped(editor[e], s))
    <2>1. \A s \in {"group", "undo"} :
            Stepped(editor[e], s).step = s /\ Stepped(editor[e], s).kind = "create"
      BY <1>1 DEF Stepped, GroupsInv, EditorType
    <2> QED BY <2>1 DEF InKind, EditorSteps
  <1>4. \A g \in Groups : AtBroker(g)' => AtBroker(g) \/ BeingCreated(g)
    BY <1>1 DEF AtBroker, BeingCreated
  <1>5. Deletion' /\ editor' \in [Editors -> EditorType]
    BY <1>1, <1>3, <1>4, StepKeepsDeletion
  <1>6. SessionTyped'
    BY <1>1, SessionMoves
  <1> QED BY <1>1, <1>2, <1>5, <1>6, RequestKeeps

\* Steps that leave the broker alone, or end the request.
LEMMA EndKeepsGroups ==
  ASSUME GroupsInv, NEW e \in Editors, UndoCreate(e) \/ NotifyAgent(e) \/ FailEdit(e),
         UNCHANGED <<pusher, subscriberVars>>
  PROVE  GroupsInv'
  <1>1. /\ UNCHANGED <<accessVars, countVars, brokerGroups, brokerMember, hastened>>
        /\ Stop(e)
        /\ \/ UNCHANGED <<groupRow, groupOf>>
           \/ /\ editor[e].kind = "create"
              /\ groupRow' = [groupRow EXCEPT ![editor[e].to] = "failed"]
              /\ groupOf' = IF groupOf = editor[e].to THEN NoGroup ELSE groupOf
    BY DEF UndoCreate, NotifyAgent, FailEdit, EditorAt, DropRow, groupRowVars, accessVars,
       countVars
  <1>2. RowsTyped' /\ AccessTyped'
    BY <1>1, EditorFacts DEF RowsTyped, AccessTyped, accessVars
  <1>3. \A g \in Groups : /\ groupRow[g] # "none" => groupRow'[g] # "none"
                          /\ groupRow'[g] = "deleted" => groupRow[g] = "deleted"
                          /\ AtBroker(g)' => AtBroker(g)
    BY <1>1, EditorFacts DEF AtBroker
  <1>4. Deletion' /\ editor' \in [Editors -> EditorType]
    BY <1>1, <1>3, StepKeepsDeletion
  <1>5. SessionTyped'
    <2>1. ListOf(editor[e].to) \in Lists
      BY EditorFacts DEF ListOf, Lists, GroupChoice
    <2> QED BY <2>1, SessionMoves DEF UndoCreate, NotifyAgent, FailEdit
  <1> QED BY <1>1, <1>2, <1>4, <1>5, RequestKeeps

LEMMA RemoveKeepsGroups ==
  ASSUME GroupsInv, NEW e \in Editors, RemoveFromBroker(e),
         UNCHANGED <<pusher, subscriberVars>>
  PROVE  GroupsInv'
  <1>1. /\ UNCHANGED <<groupRow, groupOf, brokerRoles, brokerGroups, countVars, hastened>>
        /\ editor[e].kind \in {"delete", "move"}
        /\ brokerMember' \subseteq brokerMember /\ \E new : SetMembers(new)
        /\ \/ Stop(e)
           \/ editor[e].kind = "delete" /\ Go(e, "dropGroup")
           \/ editor[e].kind = "move" /\ (Go(e, "row") \/ Go(e, "add"))
    BY EditorFacts DEF RemoveFromBroker, SetMembers, InKind, groupRowVars, countVars
  <1>2. RowsTyped' /\ AccessTyped' /\ SessionTyped'
    BY <1>1, EditorFacts, SessionMoves DEF RowsTyped, AccessTyped
  <1>3. \A s \in {"dropGroup", "row", "add"} :
          Stepped(editor[e], s).step = s /\ Stepped(editor[e], s).kind = editor[e].kind
          /\ s \in EditorSteps
    BY DEF Stepped, GroupsInv, EditorType, EditorSteps
  <1>4. \A g \in Groups : AtBroker(g)' => AtBroker(g)
    BY <1>1 DEF AtBroker
  <1>5. /\ editor[e].kind = "delete" => InKind(Stepped(editor[e], "dropGroup"))
        /\ editor[e].kind = "move" => /\ InKind(Stepped(editor[e], "row"))
                                      /\ InKind(Stepped(editor[e], "add"))
    BY <1>3 DEF InKind
  <1>6. Deletion' /\ editor' \in [Editors -> EditorType]
    <2>1. \/ Stop(e)
          \/ \E s \in EditorSteps :
              /\ Go(e, s) /\ InKind(Stepped(editor[e], s))
              /\ editor[e].kind = "delete" => s \notin {"dropRole", "row", "notify"}
      BY <1>1, <1>3, <1>5
    <2> QED BY <1>1, <1>4, <2>1, StepKeepsDeletion
  <1> QED BY <1>1, <1>2, <1>6, RequestKeeps

\* A member is only added to a group that the broker has.
LEMMA AddKeepsGroups ==
  ASSUME GroupsInv, NEW e \in Editors, AddToBroker(e), UNCHANGED <<pusher, subscriberVars>>
  PROVE  GroupsInv'
  <1>1. /\ UNCHANGED <<groupRow, groupOf, brokerRoles, brokerGroups, countVars, hastened>>
        /\ editor[e].kind = "move"
        /\ brokerMember' \subseteq brokerMember \cup brokerGroups /\ \E new : SetMembers(new)
        /\ Stop(e) \/ Go(e, "row")
    BY EditorFacts DEF AddToBroker, SetMembers, InKind, groupRowVars, countVars
  <1>2. RowsTyped' /\ AccessTyped' /\ SessionTyped'
    BY <1>1, EditorFacts, SessionMoves DEF RowsTyped, AccessTyped
  <1>3. "row" \in EditorSteps /\ InKind(Stepped(editor[e], "row"))
    <2>1. Stepped(editor[e], "row").step = "row" /\ Stepped(editor[e], "row").kind = "move"
      BY <1>1 DEF Stepped, GroupsInv, EditorType
    <2> QED BY <2>1 DEF InKind, EditorSteps
  <1>4. \A g \in Groups : AtBroker(g)' => AtBroker(g)
    BY <1>1 DEF AtBroker
  <1>5. Deletion' /\ editor' \in [Editors -> EditorType]
    BY <1>1, <1>3, <1>4, StepKeepsDeletion
  <1> QED BY <1>1, <1>2, <1>5, RequestKeeps

LEMMA DropKeepsGroups ==
  ASSUME GroupsInv, NEW e \in Editors, DropBrokerGroup(e) \/ DropBrokerRole(e),
         UNCHANGED <<pusher, subscriberVars>>
  PROVE  GroupsInv'
  <1>1. /\ UNCHANGED <<groupRow, groupOf, countVars, hastened>>
        /\ editor[e].kind = "delete" /\ editor[e].from \in Groups
        /\ brokerRoles' \subseteq brokerRoles /\ brokerGroups' \subseteq brokerGroups
        /\ brokerMember' \subseteq brokerMember
        /\ UNCHANGED sessionVars \/ \E new : SetMembers(new)
        /\ \/ Stop(e)
           \/ Go(e, "dropRole") /\ editor[e].from \notin brokerGroups' \cup brokerMember'
           \/ Go(e, "row") /\ editor[e].step = "dropRole"
    BY EditorFacts DEF DropBrokerGroup, DropBrokerRole, SetMembers, InKind, AboutAGroup,
       groupRowVars, countVars
  <1>2. RowsTyped' /\ AccessTyped' /\ SessionTyped'
    BY <1>1, EditorFacts, SessionMoves DEF RowsTyped, AccessTyped
  <1>3. \A s \in {"dropRole", "row"} : s \in EditorSteps /\ InKind(Stepped(editor[e], s))
    <2>1. \A s \in {"dropRole", "row"} :
            Stepped(editor[e], s).step = s /\ Stepped(editor[e], s).kind = "delete"
      BY <1>1 DEF Stepped, GroupsInv, EditorType
    <2> QED BY <2>1 DEF InKind, EditorSteps
  <1>4. \A g \in Groups : AtBroker(g)' => AtBroker(g)
    BY <1>1 DEF AtBroker
  <1>5. Deletion' /\ editor' \in [Editors -> EditorType]
    <2>1. \/ Stop(e)
          \/ \E s \in EditorSteps :
              /\ Go(e, s) /\ InKind(Stepped(editor[e], s))
              /\ \/ editor[e].step \in {"dropRole", "row", "notify"}
                 \/ \A g \in Groups : g = editor[e].from => ~AtBroker(g)'
      BY <1>1, <1>3 DEF AtBroker
    <2> QED BY <1>1, <1>4, <2>1, StepKeepsDeletion
  <1> QED BY <1>1, <1>2, <1>5, RequestKeeps

\* The row goes last, when the broker has dropped the group.
LEMMA WriteRowKeepsGroups ==
  ASSUME GroupsInv, NEW e \in Editors, WriteRow(e), UNCHANGED <<pusher, subscriberVars>>
  PROVE  GroupsInv'
  <1>1. /\ UNCHANGED <<brokerRoles, brokerGroups, brokerMember, sessionVars, countVars,
                       hastened>>
        /\ editor[e].step = "row" /\ Go(e, "notify") /\ groupOf' \in GroupChoice
        /\ \/ groupRow' = groupRow
           \/ /\ editor[e].kind = "delete"
              /\ groupRow' = [groupRow EXCEPT ![editor[e].from] = "deleted"]
    BY EditorFacts DEF WriteRow, DropRow, accessVars, countVars
  <1>2. RowsTyped' /\ AccessTyped' /\ SessionTyped'
    BY <1>1, EditorFacts, SessionMoves DEF RowsTyped, AccessTyped
  <1>3. "notify" \in EditorSteps /\ InKind(Stepped(editor[e], "notify"))
    <2>1. Stepped(editor[e], "notify").step = "notify"
      BY DEF Stepped, GroupsInv, EditorType
    <2> QED BY <2>1 DEF InKind, EditorSteps
  <1>4. \A g \in Groups :
          /\ groupRow[g] # "none" => groupRow'[g] # "none"
          /\ groupRow'[g] = "deleted" => groupRow[g] = "deleted" \/ HasDropped(editor[e], g)
          /\ AtBroker(g)' => AtBroker(g)
    BY <1>1, EditorFacts DEF AtBroker, HasDropped, Deletes
  <1>5. Deletion' /\ editor' \in [Editors -> EditorType]
    BY <1>1, <1>3, <1>4, StepKeepsDeletion
  <1> QED BY <1>1, <1>2, <1>5, RequestKeeps

LEMMA BeginKeeps ==
  ASSUME GroupsInv, NEW e \in Editors,
         \/ BeginMove(e, NoGroup)
         \/ \E g \in Groups : BeginCreate(e, g) \/ BeginMove(e, g) \/ BeginDelete(e, g),
         UNCHANGED <<pusher, subscriberVars>>
  PROVE  GroupsInv'
  <1>1. ASSUME NEW kind \in {"create", "move", "delete"}, NEW step \in EditorSteps,
               NEW from \in GroupChoice, NEW to \in GroupChoice,
               Begin(e, kind, step, from, to)
        PROVE  /\ [kind |-> kind, step |-> step, from |-> from, to |-> to] \in EditorType
               /\ editor' = [editor EXCEPT ![e] =
                    [kind |-> kind, step |-> step, from |-> from, to |-> to]]
               /\ editor' \in [Editors -> EditorType]
               /\ edits' \in 0..EditLimit /\ UNCHANGED <<groupFaults, groupOf>>
               /\ AccessTyped' /\ SessionTyped'
               /\ UNCHANGED <<brokerGroups, brokerMember>>
    <2>1. UNCHANGED <<groupOf, accessVars, sessionVars, groupFaults>>
      BY <1>1 DEF Begin
    <2>2. edits' \in 0..EditLimit
      BY <1>1, GroupsAssumption DEF Begin, GroupsInv, CountsTyped
    <2>3. AccessTyped' /\ UNCHANGED <<brokerGroups, brokerMember>>
      BY <2>1 DEF GroupsInv, AccessTyped, accessVars
    <2>4. SessionTyped'
      BY <2>1, SessionMoves
    <2>5. /\ [kind |-> kind, step |-> step, from |-> from, to |-> to] \in EditorType
          /\ editor' = [editor EXCEPT ![e] =
               [kind |-> kind, step |-> step, from |-> from, to |-> to]]
      BY <1>1 DEF Begin, EditorType, EditorSteps
    <2>6. editor' \in [Editors -> EditorType]
      BY <2>5 DEF GroupsInv
    <2> QED BY <2>1, <2>2, <2>3, <2>4, <2>5, <2>6
  <1>2. ASSUME NEW g \in Groups, BeginCreate(e, g) PROVE GroupsInv'
    <2> DEFINE new == [kind |-> "create", step |-> "role", from |-> NoGroup, to |-> g]
    <2>1. /\ new \in EditorType /\ editor' = [editor EXCEPT ![e] = new]
          /\ editor' \in [Editors -> EditorType]
          /\ edits' \in 0..EditLimit /\ UNCHANGED <<groupFaults, groupOf>>
          /\ AccessTyped' /\ SessionTyped' /\ UNCHANGED <<brokerGroups, brokerMember>>
      BY <1>1, <1>2, EditorFacts DEF BeginCreate, EditorSteps
    <2>2. /\ new.kind = "create" /\ new.step = "role" /\ new.to = g
          /\ groupRow[g] = "none" /\ groupRow' = [groupRow EXCEPT ![g] = "present"]
          /\ hastened' = hastened
      BY <1>2 DEF BeginCreate
    <2> HIDE DEF new
    <2>3. RowsTyped'
      BY <2>1, <2>2, EditorFacts DEF RowsTyped
    <2>4. InKind(new) /\ AboutAGroup(new)'
      BY <2>2, EditorFacts DEF InKind, AboutAGroup
    <2>5. ASSUME NEW x \in Groups
          PROVE  /\ Creates(new, x) => groupRow[x] = "none"
                 /\ ~Deletes(new, x) /\ ~HasDropped(new, x)
                 /\ groupRow[x] # "none" => groupRow'[x] # "none"
                 /\ groupRow'[x] = "deleted" => groupRow[x] = "deleted"
                 /\ AtBroker(x)' => AtBroker(x)
      BY <2>1, <2>2, EditorFacts DEF Creates, Deletes, HasDropped, AtBroker
    <2>6. Deletion'
      BY <2>1, <2>2, <2>4, <2>5, DeletionGoesOn
    <2> QED BY <2>1, <2>2, <2>3, <2>6 DEF GroupsInv, AgentTyped, CountsTyped, subscriberVars
  <1>3. ASSUME NEW g \in GroupChoice, BeginMove(e, g) PROVE GroupsInv'
    <2>1. PICK step \in {"row", "add", "remove"} : Begin(e, "move", step, groupOf, g)
      BY <1>3 DEF BeginMove
    <2>2. step \in EditorSteps /\ groupOf \in GroupChoice
      BY EditorFacts DEF EditorSteps
    <2> PICK old \in GroupChoice : old = groupOf
      BY <2>2
    <2> DEFINE new == [kind |-> "move", step |-> step, from |-> old, to |-> g]
    <2>3. /\ new \in EditorType /\ editor' = [editor EXCEPT ![e] = new]
          /\ editor' \in [Editors -> EditorType]
          /\ edits' \in 0..EditLimit /\ UNCHANGED <<groupFaults, groupOf>>
          /\ AccessTyped' /\ SessionTyped' /\ UNCHANGED <<brokerGroups, brokerMember>>
      BY <1>1, <2>1, <2>2
    <2>4. new.kind = "move" /\ new.step = step /\ UNCHANGED <<groupRow, hastened>>
      BY <1>3 DEF BeginMove
    <2> HIDE DEF new
    <2>5. RowsTyped' /\ InKind(new) /\ AboutAGroup(new)'
      BY <2>3, <2>4, EditorFacts DEF RowsTyped, InKind, AboutAGroup
    <2>6. ASSUME NEW x \in Groups
          PROVE  /\ ~Creates(new, x) /\ ~Deletes(new, x) /\ ~HasDropped(new, x)
                 /\ AtBroker(x)' => AtBroker(x)
      BY <2>3, <2>4 DEF Creates, Deletes, HasDropped, AtBroker
    <2>7. Deletion'
      BY <2>3, <2>4, <2>5, <2>6, DeletionGoesOn
    <2> QED BY <2>3, <2>4, <2>5, <2>7 DEF GroupsInv, AgentTyped, CountsTyped, subscriberVars
  <1>4. ASSUME NEW g \in Groups, BeginDelete(e, g) PROVE GroupsInv'
    <2>1. PICK step \in {"remove", "dropGroup"} : Begin(e, "delete", step, g, NoGroup)
      BY <1>4 DEF BeginDelete
    <2> DEFINE new == [kind |-> "delete", step |-> step, from |-> g, to |-> NoGroup]
    <2>2. step \in EditorSteps /\ g \in GroupChoice /\ NoGroup \in GroupChoice
      BY EditorFacts DEF EditorSteps
    <2>3. /\ new \in EditorType /\ editor' = [editor EXCEPT ![e] = new]
          /\ editor' \in [Editors -> EditorType]
          /\ edits' \in 0..EditLimit /\ UNCHANGED <<groupFaults, groupOf>>
          /\ AccessTyped' /\ SessionTyped' /\ UNCHANGED <<brokerGroups, brokerMember>>
      BY <1>1, <2>1, <2>2
    <2>4. /\ new.kind = "delete" /\ new.step = step /\ new.from = g
          /\ groupRow[g] = "present" /\ groupRow' = groupRow
          /\ hastened' = IF BeingCreated(g) THEN hastened \cup {g} ELSE hastened
      BY <1>4 DEF BeginDelete
    <2> HIDE DEF new
    <2>5. RowsTyped' /\ InKind(new) /\ AboutAGroup(new)' /\ hastened \subseteq hastened'
          /\ hastened' \subseteq Groups
      BY <2>3, <2>4, EditorFacts DEF RowsTyped, InKind, AboutAGroup, GroupsInv, CountsTyped
    <2>6. ASSUME NEW x \in Groups \ hastened'
          PROVE  /\ ~Creates(new, x) /\ ~HasDropped(new, x)
                 /\ Deletes(new, x) => ~BeingCreated(x) /\ groupRow[x] # "none"
                 /\ AtBroker(x)' => AtBroker(x)
      BY <2>3, <2>4 DEF Creates, Deletes, HasDropped, AtBroker
    <2>7. Deletion'
      BY <2>3, <2>4, <2>5, <2>6, DeletionGoesOn
    <2> QED BY <2>3, <2>4, <2>5, <2>7 DEF GroupsInv, AgentTyped, CountsTyped, subscriberVars
  <1>5. NoGroup \in GroupChoice /\ Groups \subseteq GroupChoice
    BY EditorFacts
  <1> QED BY <1>2, <1>3, <1>4, <1>5

\* The worker that pushes lists, and the agent.
LEMMA AgentKeepsGroups ==
  ASSUME GroupsInv,
         \/ \E p \in Pushers : ReadGroup(p) \/ PushGroups(p)
         \/ Reconnect \/ LoseSession \/ RestartAgentProcess
         \/ \E list \in Lists : Receive(list)
         \/ \E k \in Updaters : UpdaterStep(k)
         \/ UNCHANGED groupVars
  PROVE  GroupsInv'
  <1>1. UNCHANGED <<groupRow, groupOf, brokerRoles, brokerGroups, brokerMember, editor,
                    hastened, edits>>
    BY DEF ReadGroup, PushGroups, Reconnect, LoseSession, RestartAgentProcess, Receive,
       UpdaterStep, DropTopics, SubscribeNew, SaveGroups, groupVars, groupRowVars,
       accessVars, countVars
  <1>2. Deletion' /\ editor' \in [Editors -> EditorType]
    BY <1>1, DeletionUntouched
  <1>3. RowsTyped' /\ AccessTyped'
    BY <1>1 DEF GroupsInv, RowsTyped, AccessTyped
  <1>4. groupFaults' \in 0..FaultLimit
    <2>1. groupFaults' = groupFaults
          \/ (groupFaults < FaultLimit /\ groupFaults' = groupFaults + 1)
      BY DEF ReadGroup, PushGroups, Reconnect, LoseSession, RestartAgentProcess, Receive,
         UpdaterStep, DropTopics, SubscribeNew, SaveGroups, groupVars, countVars
    <2> QED BY <2>1, GroupsAssumption DEF GroupsInv, CountsTyped
  <1>5. CountsTyped'
    BY <1>1, <1>4 DEF GroupsInv, CountsTyped
  <1>6. /\ pusher \in [Pushers -> Lists \cup {NoGroup}] /\ ListOf(groupOf) \in Lists
        /\ agentGroups \in Lists /\ savedGroups \in Lists
        /\ updater \in [Updaters -> UpdaterType] /\ NotUpdating \in UpdaterType
        /\ \A list \in Lists : list \subseteq Groups
        /\ pushed \subseteq Lists /\ subscribedTo \subseteq Groups /\ brokerMember \subseteq Groups
    BY DEF GroupsInv, AgentTyped, SessionTyped, AccessTyped, RowsTyped, ListOf, Lists,
       GroupChoice, UpdaterType, NotUpdating
  <1>7. CASE \E p \in Pushers : ReadGroup(p) \/ PushGroups(p)
    <2>1. PICK p \in Pushers : ReadGroup(p) \/ PushGroups(p)
      BY <1>7
    <2>2. AgentTyped'
      BY <1>6, <2>1 DEF AgentTyped, ReadGroup, PushGroups, subscriberVars
    <2>3. PushGroups(p) => pusher[p] \in Lists
      BY <1>6, <2>1 DEF PushGroups
    <2>4. SessionTyped'
      BY <2>1, <2>3, SessionMoves DEF ReadGroup, PushGroups
    <2> QED BY <1>2, <1>3, <1>5, <2>2, <2>4 DEF GroupsInv
  <1>8. CASE Reconnect
    <2>1. AgentTyped'
      BY <1>6, <1>8 DEF AgentTyped, Reconnect, subscriberVars
    <2>2. pushed' \subseteq Lists /\ subscribedTo' \subseteq Groups
      BY <1>6, <1>8 DEF Reconnect
    <2>3. connected' \in BOOLEAN
      BY <1>8, Zenon DEF Reconnect
    <2>4. SessionTyped'
      BY <2>2, <2>3 DEF SessionTyped
    <2> QED BY <1>2, <1>3, <1>5, <2>1, <2>4 DEF GroupsInv
  <1>9. CASE LoseSession \/ RestartAgentProcess
    <2>1. AgentTyped'
      BY <1>6, <1>9 DEF AgentTyped, LoseSession, RestartAgentProcess, subscriberVars
    <2>2. SessionTyped'
      BY <1>9, SessionMoves DEF LoseSession, RestartAgentProcess
    <2> QED BY <1>2, <1>3, <1>5, <2>1, <2>2 DEF GroupsInv
  <1>10. CASE \E list \in Lists : Receive(list)
    <2>1. PICK list \in Lists : Receive(list)
      BY <1>10
    <2>2. PICK k \in Updaters :
            updater' = [updater EXCEPT ![k] = [step |-> "drop", old |-> agentGroups,
                                               new |-> list]]
      BY <2>1 DEF Receive
    <2>3. updater' \in [Updaters -> UpdaterType]
      BY <1>6, <2>2 DEF UpdaterType
    <2>4. AgentTyped'
      BY <1>6, <2>1, <2>3 DEF AgentTyped, Receive
    <2>5. connected' = connected /\ pushed' \subseteq Lists /\ subscribedTo' = subscribedTo
      BY <1>6, <2>1 DEF Receive
    <2>6. SessionTyped'
      BY <2>5 DEF GroupsInv, SessionTyped
    <2> QED BY <1>2, <1>3, <1>5, <2>4, <2>6 DEF GroupsInv
  <1>11. ASSUME NEW k \in Updaters, UpdaterStep(k) PROVE GroupsInv'
    <2>1. /\ updater[k] \in UpdaterType /\ updater[k].old \subseteq Groups
          /\ updater[k].new \subseteq Groups
      BY <1>6 DEF UpdaterType
    <2>2. /\ [updater[k] EXCEPT !.step = "add"] \in UpdaterType
          /\ [updater[k] EXCEPT !.step = "save"] \in UpdaterType
      BY <2>1 DEF UpdaterType
    <2>3. \E new \in UpdaterType : updater' = [updater EXCEPT ![k] = new]
      <3>1. CASE DropTopics(k)
        <4>1. updater' = [updater EXCEPT ![k] = [updater[k] EXCEPT !.step = "add"]]
          BY <3>1 DEF DropTopics
        <4> QED BY <2>2, <4>1
      <3>2. CASE SubscribeNew(k)
        BY <1>6, <2>2, <3>2 DEF SubscribeNew
      <3>3. CASE SaveGroups(k)
        BY <1>6, <3>3 DEF SaveGroups
      <3> QED BY <1>11, <3>1, <3>2, <3>3 DEF UpdaterStep
    <2>4. updater' \in [Updaters -> UpdaterType]
      BY <1>6, <2>3
    <2>5. UNCHANGED <<pusher, agentGroups, connected, pushed>> /\ savedGroups' \in Lists
      BY <1>6, <1>11 DEF UpdaterStep, DropTopics, SubscribeNew, SaveGroups, sessionVars,
         UpdaterType
    <2>6. AgentTyped'
      BY <1>6, <2>4, <2>5 DEF AgentTyped
    <2>7. subscribedTo' \subseteq Groups
      BY <1>6, <1>11, <2>1 DEF UpdaterStep, DropTopics, SubscribeNew, SaveGroups, sessionVars
    <2>8. SessionTyped'
      BY <2>5, <2>7 DEF GroupsInv, SessionTyped
    <2> QED BY <1>2, <1>3, <1>5, <2>6, <2>8 DEF GroupsInv
  <1>12. CASE UNCHANGED groupVars
    <2>1. AgentTyped' /\ SessionTyped'
      BY <1>12 DEF GroupsInv, AgentTyped, SessionTyped, groupVars
    <2> QED BY <1>2, <1>3, <1>5, <2>1 DEF GroupsInv
  <1> QED BY <1>7, <1>8, <1>9, <1>10, <1>11, <1>12

LEMMA GroupsStepKeeps == GroupsInv /\ [GroupsNext]_groupVars => GroupsInv'
  <1> SUFFICES ASSUME GroupsInv, [GroupsNext]_groupVars PROVE GroupsInv'
    OBVIOUS
  <1>1. ASSUME NEW e \in Editors, Edit(e) PROVE GroupsInv'
    BY <1>1, ProvisionKeeps, EndKeepsGroups, RemoveKeepsGroups, AddKeepsGroups,
       DropKeepsGroups, WriteRowKeepsGroups, BeginKeeps DEF Edit, EditorStep
  <1> QED BY <1>1, AgentKeepsGroups DEF GroupsNext

\* However many requests move the device, create and delete groups at once, and
\* whichever call of them fails: what was deleted after it was created is gone at
\* the broker, for good (deleteGroup).
THEOREM DeletionIsFinal == GroupsSpec => []DeletedGroupIsGone
  <1>1. GroupsInv => DeletedGroupIsGone
    BY DEF GroupsInv, Deletion, DroppedIsGone, DroppedGroup, AtBroker, DeletedGroupIsGone
  <1> QED BY <1>1, GroupsInitial, GroupsStepKeeps, PTL DEF GroupsSpec

\* Type correctness of the groups.
THEOREM GroupsTypeCorrect == GroupsSpec => []GroupsTypeOK
  <1>1. GroupsInv => GroupsTypeOK
    BY DEF GroupsInv, RowsTyped, AccessTyped, SessionTyped, AgentTyped, CountsTyped,
       GroupsTypeOK, EditorType, UpdaterType
  <1> QED BY <1>1, GroupsInitial, GroupsStepKeeps, PTL DEF GroupsSpec

-----------------------------------------------------------------------------
(* Schedules. An occurrence that was claimed or dispatched lies in the past*)
(* and before the next run of its schedule (OccurrencesTaken), since the   *)
(* next run is always later than the minute it is counted from, unless a   *)
(* resumption that was late has set the schedule back. So no row that is   *)
(* read again, and no pass that holds an old one, matches it.              *)

\* The occurrence has come up, and the schedule has moved on.
Passed(o) ==
  /\ o.at <= minute /\ scheduleStatus[o.id] # "none"
  /\ o.id \in setBack \/ nextRunAt[o.id] = NoTime \/ nextRunAt[o.id] > o.at

\* A row is inserted once, and updated after that.
CallsAwaitRows ==
  \A c \in Callers :
    /\ scheduleCall[c].step = "create" =>
         /\ scheduleCall[c].id \in Schedules /\ scheduleCall[c].next \in Nat
         /\ scheduleStatus[scheduleCall[c].id] = "none"
         /\ \A d \in Callers :
              scheduleCall[d].step = "create" /\ d # c =>
                scheduleCall[d].id # scheduleCall[c].id
    /\ scheduleCall[c].step = "status" =>
         /\ scheduleCall[c].id \in Schedules
         /\ scheduleStatus[scheduleCall[c].id] # "none"

ReadInThePast ==
  \A r \in Runners :
    /\ runner[r].now <= minute
    /\ \A o \in runner[r].due : o.at <= runner[r].now

Dispatching(r) == runner[r].step = "dispatch"

OccurrencesTaken ==
  /\ \A o \in ran : Passed(o)
  /\ \A r \in Runners :
       Dispatching(r) => /\ runner[r].cur \in Occurrence /\ Passed(runner[r].cur)
                         /\ runner[r].cur \notin ran \/ runner[r].cur.id \in setBack
  /\ \A r1, r2 \in Runners :
       Dispatching(r1) /\ Dispatching(r2) /\ r1 # r2 =>
         runner[r1].cur # runner[r2].cur \/ runner[r1].cur.id \in setBack

SchedulesInv ==
  /\ SchedulesTypeOK /\ ActiveIffArmed /\ CallsAwaitRows
  /\ ReadInThePast /\ OccurrencesTaken

-----------------------------------------------------------------------------

LEMMA LaterSlot ==
  ASSUME NEW s \in Schedules, NEW t \in 0..LastMinute
  PROVE  NextSlot[s][t] \in Nat /\ NextSlot[s][t] > t /\ NextSlot[s][t] # NoTime
  BY SchedulesAssumption

LEMMA SchedulesInitially == SchedulesInit => SchedulesInv
  <1> SUFFICES ASSUME SchedulesInit PROVE SchedulesInv
    OBVIOUS
  <1> USE DEF SchedulesInit, Idle, NoCall
  <1>1. SchedulesTypeOK
    BY SchedulesAssumption DEF SchedulesTypeOK, RunnerType, CallType
  <1>2. ActiveIffArmed /\ CallsAwaitRows
    BY DEF ActiveIffArmed, CallsAwaitRows
  <1>3. ReadInThePast /\ OccurrencesTaken
    BY DEF ReadInThePast, OccurrencesTaken, Dispatching
  <1> QED BY <1>1, <1>2, <1>3 DEF SchedulesInv

-----------------------------------------------------------------------------
(* The server actions.                                                     *)

\* The passes are as they were, and what they took stays passed.
LEMMA TakenStaysPassed ==
  ASSUME SchedulesInv, UNCHANGED <<minute, runner, ran>>, setBack \subseteq setBack',
         \A o \in TakenUp : o \in Occurrence /\ Passed(o) => Passed(o)'
  PROVE  ReadInThePast' /\ OccurrencesTaken'
  <1>1. ReadInThePast'
    BY DEF SchedulesInv, ReadInThePast
  <1>2. \A o \in ran : o \in TakenUp /\ o \in Occurrence
    BY DEF TakenUp, SchedulesInv, SchedulesTypeOK
  <1>3. \A r \in Runners : Dispatching(r) => runner[r].cur \in TakenUp
    BY DEF TakenUp, Dispatching
  <1>4. \A r \in Runners : Dispatching(r)' <=> Dispatching(r)
    BY DEF Dispatching
  <1>5. \A o \in ran' : Passed(o)'
    BY <1>2 DEF SchedulesInv, OccurrencesTaken
  <1>6. \A r \in Runners : Dispatching(r) => Passed(runner[r].cur)'
    BY <1>3 DEF SchedulesInv, OccurrencesTaken
  <1>7. OccurrencesTaken'
    BY <1>4, <1>5, <1>6 DEF SchedulesInv, OccurrencesTaken, Passed
  <1> QED BY <1>1, <1>7

\* A request that only begins or ends.
LEMMA ScheduleCallKeeps ==
  ASSUME SchedulesInv, NEW c \in Callers,
         AbandonCall(c) \/ \E s \in Schedules : StartCreate(c, s) \/ ReadSchedule(c, s)
  PROVE  SchedulesInv'
  <1> USE DEF SchedulesInv
  <1>1. UNCHANGED <<minute, scheduleStatus, nextRunAt, runner, ran, setBack>>
    BY DEF AbandonCall, StartCreate, ReadSchedule, AskRow
  <1>2. minute \in 0..LastMinute
    BY DEF SchedulesTypeOK
  <1>3. scheduleCall' \in [Callers -> CallType] /\ CallsAwaitRows'
    <2>1. CASE AbandonCall(c)
      BY <1>1, <2>1 DEF AbandonCall, NoCall, CallType, SchedulesTypeOK, CallsAwaitRows
    <2>2. ASSUME NEW s \in Schedules, StartCreate(c, s)
          PROVE  scheduleCall' \in [Callers -> CallType] /\ CallsAwaitRows'
      <3>1. NextSlot[s][minute] \in Nat
        BY <1>2, LaterSlot
      <3>2. scheduleCall' = [scheduleCall EXCEPT ![c] =
              [step |-> "create", id |-> s, next |-> NextSlot[s][minute]]]
        BY <2>2 DEF StartCreate, AskRow
      <3>3. scheduleStatus[s] = "none" /\ \A d \in Callers : scheduleCall[d].id # s
        BY <2>2 DEF StartCreate
      <3>4. scheduleCall' \in [Callers -> CallType]
        BY <3>1, <3>2 DEF SchedulesTypeOK, CallType
      <3>5. CallsAwaitRows'
        BY <1>1, <3>1, <3>2, <3>3 DEF SchedulesTypeOK, CallsAwaitRows
      <3> QED BY <3>4, <3>5
    <2>3. ASSUME NEW s \in Schedules, ReadSchedule(c, s)
          PROVE  scheduleCall' \in [Callers -> CallType] /\ CallsAwaitRows'
      <3>1. PICK next \in {NoTime, NextSlot[s][minute]} :
              scheduleCall' = [scheduleCall EXCEPT ![c] =
                [step |-> "status", id |-> s, next |-> next]]
        BY <2>3 DEF ReadSchedule, AskRow
      <3>2. next \in Nat \cup {NoTime} /\ scheduleStatus[s] # "none"
        BY <1>2, <2>3, LaterSlot DEF ReadSchedule, Stored
      <3>3. scheduleCall' \in [Callers -> CallType]
        BY <3>1, <3>2 DEF SchedulesTypeOK, CallType
      <3>4. CallsAwaitRows'
        BY <1>1, <3>1, <3>2 DEF SchedulesTypeOK, CallsAwaitRows
      <3> QED BY <3>3, <3>4
    <2> QED BY <2>1, <2>2, <2>3
  <1>4. SchedulesTypeOK' /\ ActiveIffArmed'
    BY <1>1, <1>3 DEF SchedulesTypeOK, ActiveIffArmed
  <1>5. \A o \in TakenUp : Passed(o) => Passed(o)'
    BY <1>1 DEF Passed
  <1>6. ReadInThePast' /\ OccurrencesTaken'
    BY <1>1, <1>5, TakenStaysPassed
  <1> QED BY <1>3, <1>4, <1>6

LEMMA CreateKeeps ==
  ASSUME SchedulesInv, NEW c \in Callers, InsertSchedule(c) PROVE SchedulesInv'
  <1> USE DEF SchedulesInv
  <1> DEFINE s == scheduleCall[c].id
             next == scheduleCall[c].next
  <1>1. /\ s \in Schedules /\ next \in Nat /\ scheduleStatus[s] = "none"
        /\ \A d \in Callers : scheduleCall[d].step = "create" /\ d # c => scheduleCall[d].id # s
    BY DEF InsertSchedule, CallsAwaitRows
  <1>2. /\ scheduleStatus' = [scheduleStatus EXCEPT ![s] = "ACTIVE"]
        /\ nextRunAt' = [nextRunAt EXCEPT ![s] = next]
        /\ scheduleCall' = [scheduleCall EXCEPT ![c] = NoCall]
        /\ UNCHANGED <<minute, runner, ran, setBack>>
    BY DEF InsertSchedule
  <1> HIDE DEF s, next
  <1>3. SchedulesTypeOK'
    BY <1>1, <1>2 DEF SchedulesTypeOK, NoCall, CallType
  <1>4. ActiveIffArmed'
    BY <1>1, <1>2, SchedulesAssumption DEF SchedulesTypeOK, ActiveIffArmed
  <1>5. CallsAwaitRows'
    BY <1>1, <1>2 DEF SchedulesTypeOK, CallsAwaitRows, NoCall
  <1>6. ASSUME NEW o \in TakenUp, o \in Occurrence, Passed(o) PROVE Passed(o)'
    BY <1>1, <1>2, <1>6 DEF Passed, SchedulesTypeOK, Occurrence
  <1>7. ReadInThePast' /\ OccurrencesTaken'
    BY <1>2, <1>6, TakenStaysPassed
  <1> QED BY <1>3, <1>4, <1>5, <1>7

LEMMA SetStatusKeeps ==
  ASSUME SchedulesInv, NEW c \in Callers, WriteStatus(c) PROVE SchedulesInv'
  <1> USE DEF SchedulesInv
  <1> DEFINE s == scheduleCall[c].id
             next == scheduleCall[c].next
             new == IF next = NoTime THEN "PAUSED" ELSE "ACTIVE"
  <1>1. s \in Schedules /\ scheduleStatus[s] # "none" /\ next \in Nat \cup {NoTime}
    BY DEF WriteStatus, CallsAwaitRows, SchedulesTypeOK, CallType
  <1>2. /\ scheduleCall' = [scheduleCall EXCEPT ![c] = NoCall]
        /\ UNCHANGED <<minute, runner, ran>>
    BY DEF WriteStatus
  <1>3. \/ UNCHANGED <<scheduleStatus, nextRunAt, setBack>>
        \/ /\ scheduleStatus' = [scheduleStatus EXCEPT ![s] = new]
           /\ nextRunAt' = [nextRunAt EXCEPT ![s] = next]
           /\ setBack' = IF SetsBack(s, next) THEN setBack \cup {s} ELSE setBack
    BY DEF WriteStatus
  <1>4. new \in {"PAUSED", "ACTIVE"} /\ (new = "ACTIVE" <=> next # NoTime)
    OBVIOUS
  <1> HIDE DEF s, next, new
  <1>5. SchedulesTypeOK'
    <2>1. scheduleCall' \in [Callers -> CallType]
      BY <1>2 DEF SchedulesTypeOK, NoCall, CallType
    <2>2. setBack' \subseteq Schedules
      BY <1>1, <1>3 DEF SchedulesTypeOK
    <2>3. /\ nextRunAt' \in [Schedules -> Nat \cup {NoTime}]
          /\ scheduleStatus' \in [Schedules -> {"none", "ACTIVE", "PAUSED", "deleted"}]
      BY <1>1, <1>3, <1>4 DEF SchedulesTypeOK
    <2> QED BY <1>2, <2>1, <2>2, <2>3 DEF SchedulesTypeOK
  <1>6. ActiveIffArmed'
    BY <1>1, <1>3, <1>4 DEF SchedulesTypeOK, ActiveIffArmed
  <1>7. \A i \in Schedules : scheduleStatus'[i] = "none" <=> scheduleStatus[i] = "none"
    BY <1>1, <1>3, <1>4 DEF SchedulesTypeOK
  <1>8. CallsAwaitRows'
    BY <1>2, <1>7 DEF SchedulesTypeOK, CallsAwaitRows, NoCall
  <1>9. ASSUME NEW o \in TakenUp, o \in Occurrence, Passed(o) PROVE Passed(o)'
    <2>1. o.id \in Schedules /\ o.at \in Nat
      BY <1>9 DEF Occurrence
    <2>2. CASE o.id # s \/ UNCHANGED <<scheduleStatus, nextRunAt, setBack>>
      BY <1>2, <1>3, <1>7, <1>9, <2>1, <2>2 DEF Passed, SchedulesTypeOK
    <2>3. CASE o.id = s /\ ~UNCHANGED <<scheduleStatus, nextRunAt, setBack>>
      <3>1. /\ nextRunAt'[s] = next
            /\ setBack' = IF SetsBack(s, next) THEN setBack \cup {s} ELSE setBack
        BY <1>1, <1>3, <2>3 DEF SchedulesTypeOK
      <3>2. s \in setBack' \/ next = NoTime \/ next > o.at
        BY <1>1, <2>1, <2>3, <3>1 DEF SetsBack
      <3> QED BY <1>2, <1>7, <1>9, <2>1, <2>3, <3>1, <3>2 DEF Passed
    <2> QED BY <2>2, <2>3
  <1>10. setBack \subseteq setBack'
    BY <1>3
  <1>11. ReadInThePast' /\ OccurrencesTaken'
    BY <1>2, <1>9, <1>10, TakenStaysPassed
  <1> QED BY <1>5, <1>6, <1>8, <1>11

LEMMA DeleteKeeps ==
  ASSUME SchedulesInv, NEW s \in Schedules, DeleteSchedule(s) PROVE SchedulesInv'
  <1> USE DEF SchedulesInv, DeleteSchedule
  <1>1. SchedulesTypeOK' /\ ActiveIffArmed'
    BY DEF SchedulesTypeOK, ActiveIffArmed
  <1>2. \A i \in Schedules : scheduleStatus'[i] = "none" <=> scheduleStatus[i] = "none"
    BY DEF SchedulesTypeOK, Stored
  <1>3. CallsAwaitRows'
    BY <1>2 DEF CallsAwaitRows
  <1>4. ASSUME NEW o \in TakenUp, o \in Occurrence, Passed(o) PROVE Passed(o)'
    BY <1>2, <1>4 DEF Passed, SchedulesTypeOK, Occurrence
  <1>5. ReadInThePast' /\ OccurrencesTaken'
    BY <1>4, TakenStaysPassed
  <1> QED BY <1>1, <1>3, <1>5

-----------------------------------------------------------------------------
(* The passes.                                                             *)

\* They leave the requests alone.
LEMMA PassLeavesCalls ==
  ASSUME SchedulesInv, UNCHANGED <<scheduleStatus, scheduleCall>> PROVE CallsAwaitRows'
  BY DEF SchedulesInv, CallsAwaitRows

LEMMA StartKeeps ==
  ASSUME SchedulesInv, NEW r \in Runners, StartPass(r) PROVE SchedulesInv'
  <1> USE DEF SchedulesInv
  <1> PICK rows \in SUBSET DueRows :
        runner' = [runner EXCEPT ![r] =
          [step |-> "claim", now |-> minute, due |-> rows, cur |-> NoTime]]
    BY DEF StartPass
  <1>0. UNCHANGED <<minute, scheduleStatus, nextRunAt, scheduleCall, ran, setBack>>
    BY DEF StartPass
  <1>1. \A o \in rows : o \in Occurrence /\ o.at <= minute
    BY DEF DueRows, Due, Occurrence, ActiveIffArmed, SchedulesTypeOK
  <1>2. SchedulesTypeOK'
    BY <1>0, <1>1 DEF SchedulesTypeOK, RunnerType
  <1>3. ActiveIffArmed' /\ CallsAwaitRows'
    BY <1>0, PassLeavesCalls DEF ActiveIffArmed
  <1>4. ReadInThePast'
    BY <1>0, <1>1 DEF ReadInThePast, SchedulesTypeOK
  <1>5. OccurrencesTaken'
    BY <1>0 DEF OccurrencesTaken, Dispatching, Passed, SchedulesTypeOK
  <1> QED BY <1>2, <1>3, <1>4, <1>5

LEMMA ClaimKeeps ==
  ASSUME SchedulesInv, NEW r \in Runners, NEW o \in runner[r].due, Claim(r, o) PROVE SchedulesInv'
  <1> USE DEF SchedulesInv
  <1>0. /\ UNCHANGED <<minute, scheduleStatus, scheduleCall, ran, setBack>>
        /\ runner[r] \in RunnerType /\ runner[r].step = "claim"
        /\ o \in Occurrence /\ o.at <= runner[r].now /\ runner[r].now <= minute
        /\ minute \in Nat
    BY DEF Claim, SchedulesTypeOK, RunnerType, ReadInThePast
  <1>1. CASE nextRunAt[o.id] # o.at
    <2>1. /\ runner' = [runner EXCEPT ![r].due = @ \ {o}]
          /\ UNCHANGED nextRunAt
      BY <1>1 DEF Claim
    <2>2. SchedulesTypeOK'
      BY <1>0, <2>1 DEF SchedulesTypeOK, RunnerType
    <2>3. ActiveIffArmed' /\ CallsAwaitRows' /\ ReadInThePast'
      BY <1>0, <2>1, PassLeavesCalls DEF ActiveIffArmed, ReadInThePast, SchedulesTypeOK
    <2>4. OccurrencesTaken'
      BY <1>0, <2>1 DEF OccurrencesTaken, Dispatching, Passed, SchedulesTypeOK
    <2> QED BY <2>2, <2>3, <2>4
  <1>2. CASE nextRunAt[o.id] = o.at
    <2>1. /\ nextRunAt' = [nextRunAt EXCEPT ![o.id] = NextSlot[o.id][runner[r].now]]
          /\ runner' = [runner EXCEPT ![r] =
               [runner[r] EXCEPT !.step = "dispatch", !.due = @ \ {o}, !.cur = o]]
      BY <1>2 DEF Claim
    <2>2. /\ o.id \in Schedules /\ o.at \in Nat /\ runner[r].now \in 0..LastMinute
          /\ NextSlot[o.id][runner[r].now] \in Nat
          /\ NextSlot[o.id][runner[r].now] > runner[r].now
          /\ NextSlot[o.id][runner[r].now] # NoTime
      BY <1>0, LaterSlot DEF Occurrence, RunnerType
    <2>3. SchedulesTypeOK'
      BY <1>0, <2>1, <2>2 DEF SchedulesTypeOK, RunnerType
    <2>4. ActiveIffArmed' /\ CallsAwaitRows' /\ ReadInThePast'
      <3>1. nextRunAt[o.id] # NoTime /\ CallsAwaitRows'
        BY <1>0, <1>2, <2>2, PassLeavesCalls, SchedulesAssumption
      <3> QED
        BY <3>1, <1>0, <2>1, <2>2 DEF ActiveIffArmed, ReadInThePast, SchedulesTypeOK
    <2>5. ASSUME NEW p \in Occurrence, Passed(p)
          PROVE  Passed(p)' /\ (p # o \/ o.id \in setBack)
      <3>1. p.id = o.id => p.id \in setBack \/ p.at < o.at
        BY <1>2, <2>2, <2>5, SchedulesAssumption DEF Passed, Occurrence
      <3>2. p # o \/ o.id \in setBack
        BY <3>1, <2>2
      <3>3. CASE p.id = o.id
        <4>1. nextRunAt'[p.id] = NextSlot[o.id][runner[r].now]
          BY <2>1, <2>2, <3>3 DEF SchedulesTypeOK
        <4>2. p.id \in setBack \/ p.at < NextSlot[o.id][runner[r].now]
          BY <1>0, <2>2, <3>1, <3>3 DEF Occurrence, RunnerType
        <4> QED BY <1>0, <2>5, <4>1, <4>2, <3>2 DEF Passed
      <3>4. CASE p.id # o.id
        BY <1>0, <2>1, <2>2, <2>5, <3>2, <3>4 DEF Passed, SchedulesTypeOK, Occurrence
      <3> QED BY <3>3, <3>4
    <2>6. Passed(o)'
      <3>1. scheduleStatus[o.id] # "none"
        BY <1>2, <2>2, SchedulesAssumption DEF ActiveIffArmed
      <3> QED BY <1>0, <2>1, <2>2, <3>1 DEF Passed, SchedulesTypeOK
    <2>7. ran \subseteq Occurrence /\ (o \notin ran \/ o.id \in setBack)
      BY <2>5 DEF OccurrencesTaken, SchedulesTypeOK
    <2>8. \A q \in Runners \ {r} : runner'[q] = runner[q]
      BY <2>1 DEF SchedulesTypeOK
    <2>9. runner'[r].step = "dispatch" /\ runner'[r].cur = o
      BY <1>0, <2>1 DEF SchedulesTypeOK, RunnerType
    <2>10. OccurrencesTaken'
      <3>1. \A p \in ran' : Passed(p)'
        BY <1>0, <2>5, <2>7 DEF OccurrencesTaken
      <3>2. ASSUME NEW q \in Runners, Dispatching(q)'
            PROVE  /\ runner'[q].cur \in Occurrence /\ Passed(runner[q].cur)'
                   /\ runner'[q].cur \notin ran' \/ runner'[q].cur.id \in setBack'
        <4>1. CASE q = r
          BY <4>1, <2>9, <1>0, <2>6, <2>7 DEF Passed
        <4>2. CASE q # r
          <5>1. runner'[q].cur = runner[q].cur /\ Dispatching(q)
            BY <3>2, <4>2, <2>8 DEF Dispatching
          <5>2. /\ runner[q].cur \in Occurrence /\ Passed(runner[q].cur)
                /\ runner[q].cur \notin ran \/ runner[q].cur.id \in setBack
            BY <5>1 DEF OccurrencesTaken
          <5> QED BY <5>1, <5>2, <1>0, <2>5 DEF Passed
        <4> QED BY <4>1, <4>2
      <3>3. ASSUME NEW q \in Runners \ {r}, Dispatching(q)'
            PROVE  runner'[q].cur # o \/ o.id \in setBack
        BY <2>5, <2>8, <3>3 DEF OccurrencesTaken, Dispatching
      <3>4. ASSUME NEW q1 \in Runners, NEW q2 \in Runners,
                   Dispatching(q1)', Dispatching(q2)', q1 # q2
            PROVE  runner'[q1].cur # runner'[q2].cur \/ runner'[q1].cur.id \in setBack'
        <4>1. CASE q1 # r /\ q2 # r
          BY <1>0, <2>8, <3>4, <4>1 DEF OccurrencesTaken, Dispatching
        <4>2. CASE q1 = r \/ q2 = r
          BY <1>0, <2>9, <3>3, <3>4, <4>2
        <4> QED BY <4>1, <4>2
      <3> QED BY <3>1, <3>2, <3>4 DEF OccurrencesTaken
    <2> QED BY <2>3, <2>4, <2>10
  <1> QED BY <1>1, <1>2

LEMMA DispatchKeeps ==
  ASSUME SchedulesInv, NEW r \in Runners, DispatchDue(r) PROVE SchedulesInv'
  <1> USE DEF SchedulesInv
  <1>0. /\ UNCHANGED <<minute, scheduleStatus, nextRunAt, scheduleCall, setBack>>
        /\ Dispatching(r) /\ runner[r].cur \in Occurrence /\ Passed(runner[r].cur)
    BY DEF DispatchDue, Dispatching, OccurrencesTaken
  <1>1. ASSUME NEW step \in {"record", "fail"}, runner' = [runner EXCEPT ![r].step = step]
        PROVE  /\ runner' \in [Runners -> RunnerType]
               /\ ReadInThePast' /\ ~Dispatching(r)'
               /\ \A q \in Runners : Dispatching(q)' =>
                    q # r /\ Dispatching(q) /\ runner'[q].cur = runner[q].cur
    BY <1>0, <1>1 DEF SchedulesTypeOK, RunnerType, ReadInThePast, Dispatching
  <1>2. PICK step \in {"record", "fail"} : runner' = [runner EXCEPT ![r].step = step]
    BY DEF DispatchDue
  <1>3. ran' = ran \/ ran' = ran \cup {runner[r].cur}
    BY DEF DispatchDue
  <1>4. SchedulesTypeOK' /\ ReadInThePast'
    BY <1>0, <1>1, <1>2, <1>3 DEF SchedulesTypeOK
  <1>5. ActiveIffArmed' /\ CallsAwaitRows'
    BY <1>0, PassLeavesCalls DEF ActiveIffArmed
  <1>6. OccurrencesTaken'
    <2>1. \A o \in ran' : Passed(o)'
      BY <1>0, <1>3 DEF OccurrencesTaken, Passed
    <2>2. \A q \in Runners : Dispatching(q)' =>
            /\ q # r /\ Dispatching(q) /\ runner'[q].cur = runner[q].cur
            /\ runner[q].cur # runner[r].cur \/ runner[q].cur.id \in setBack
      BY <1>0, <1>1, <1>2 DEF OccurrencesTaken
    <2> QED BY <1>0, <1>3, <2>1, <2>2 DEF OccurrencesTaken, Passed
  <1> QED BY <1>4, <1>5, <1>6

\* The steps after a dispatch, and a crash: nobody begins to dispatch.
LEMMA EndingKeeps ==
  ASSUME SchedulesInv, NEW r \in Runners,
         RecordRun(r) \/ RecordFailure(r) \/ FinishPass(r) \/ CrashPass(r)
  PROVE  SchedulesInv'
  <1> USE DEF SchedulesInv
  <1>0. UNCHANGED <<minute, scheduleStatus, nextRunAt, scheduleCall, ran, setBack>>
    BY DEF RecordRun, RecordFailure, FinishPass, CrashPass
  <1>1. \/ runner' = [runner EXCEPT ![r] = Idle]
        \/ \E step \in {"claim", "fail"} : runner' = [runner EXCEPT ![r].step = step]
    BY DEF RecordRun, RecordFailure, FinishPass, CrashPass
  <1>2. /\ runner' \in [Runners -> RunnerType]
        /\ ReadInThePast' /\ ~Dispatching(r)'
        /\ \A q \in Runners : Dispatching(q)' =>
             q # r /\ Dispatching(q) /\ runner'[q].cur = runner[q].cur
    <2>1. CASE runner' = [runner EXCEPT ![r] = Idle]
      <3>1. Idle \in RunnerType /\ Idle.now = 0 /\ Idle.due = {} /\ Idle.step = "idle"
        BY SchedulesAssumption DEF Idle, RunnerType
      <3>2. minute \in Nat
        BY DEF SchedulesTypeOK
      <3> QED BY <1>0, <2>1, <3>1, <3>2 DEF SchedulesTypeOK, ReadInThePast, Dispatching
    <2>2. CASE \E step \in {"claim", "fail"} : runner' = [runner EXCEPT ![r].step = step]
      BY <1>0, <2>2 DEF SchedulesTypeOK, RunnerType, ReadInThePast, Dispatching
    <2> QED BY <1>1, <2>1, <2>2
  <1>3. SchedulesTypeOK' /\ ActiveIffArmed' /\ CallsAwaitRows'
    BY <1>0, <1>2, PassLeavesCalls DEF SchedulesTypeOK, ActiveIffArmed
  <1>4. OccurrencesTaken'
    BY <1>0, <1>2 DEF OccurrencesTaken, Passed
  <1> QED BY <1>2, <1>3, <1>4

LEMMA MinuteKeeps == ASSUME SchedulesInv, TickMinute PROVE SchedulesInv'
  <1> USE DEF SchedulesInv, TickMinute
  <1>1. SchedulesTypeOK' /\ ActiveIffArmed' /\ CallsAwaitRows'
    BY SchedulesAssumption, PassLeavesCalls DEF SchedulesTypeOK, ActiveIffArmed
  <1>2. ReadInThePast'
    BY DEF ReadInThePast, SchedulesTypeOK, RunnerType, Occurrence
  <1>3. \A o \in Occurrence : Passed(o) => Passed(o)'
    BY DEF Passed, SchedulesTypeOK, Occurrence
  <1>4. OccurrencesTaken'
    BY <1>3 DEF OccurrencesTaken, Dispatching, SchedulesTypeOK
  <1> QED BY <1>1, <1>2, <1>4

LEMMA SchedulesStep == SchedulesInv /\ [SchedulesNext]_scheduleVars => SchedulesInv'
  <1> SUFFICES ASSUME SchedulesInv, [SchedulesNext]_scheduleVars PROVE SchedulesInv'
    OBVIOUS
  <1>1. ASSUME \/ \E s \in Schedules : DeleteSchedule(s)
               \/ \E c \in Callers :
                    \/ \E s \in Schedules : StartCreate(c, s) \/ ReadSchedule(c, s)
                    \/ InsertSchedule(c) \/ WriteStatus(c) \/ AbandonCall(c)
        PROVE  SchedulesInv'
    BY <1>1, ScheduleCallKeeps, CreateKeeps, SetStatusKeeps, DeleteKeeps
  <1>2. ASSUME NEW r \in Runners, PassStep(r) \/ CrashPass(r) PROVE SchedulesInv'
    BY <1>2, StartKeeps, ClaimKeeps, DispatchKeeps, EndingKeeps DEF PassStep
  <1>3. CASE TickMinute
    BY <1>3, MinuteKeeps
  <1>4. CASE UNCHANGED scheduleVars
    BY <1>4 DEF scheduleVars, SchedulesInv, SchedulesTypeOK, ActiveIffArmed, CallsAwaitRows,
                ReadInThePast, OccurrencesTaken, Passed, Dispatching
  <1> QED BY <1>1, <1>2, <1>3, <1>4 DEF SchedulesNext

-----------------------------------------------------------------------------

\* A schedule is active exactly while it has a next run, whatever claims,
\* pauses, resumptions and deletions interleave (runDueSchedules).
THEOREM ArmedWhileActive == SchedulesSpec => []ActiveIffArmed
  <1>1. SchedulesInv => ActiveIffArmed
    BY DEF SchedulesInv
  <1> QED BY <1>1, SchedulesInitially, SchedulesStep, PTL DEF SchedulesSpec

\* Whatever passes of however many workers read, claim, dispatch and crash, and
\* however requests pause, resume and delete the schedule: an occurrence is
\* dispatched again only if a resumption landed late and set the schedule back (the
\* conditional update of runDueSchedules against setScheduleStatus).
THEOREM OccurrencesRunOnce == SchedulesSpec => []DispatchedOnce
  <1>1. SchedulesInv => DispatchedOnce
    BY DEF SchedulesInv, OccurrencesTaken, DispatchedOnce, DispatchesAgain, Dispatching
  <1> QED BY <1>1, SchedulesInitially, SchedulesStep, PTL DEF SchedulesSpec

\* The type invariant of schedules and passes.
THEOREM SchedulesTypeCorrect == SchedulesSpec => []SchedulesTypeOK
  <1>1. SchedulesInv => SchedulesTypeOK
    BY DEF SchedulesInv
  <1> QED BY <1>1, SchedulesInitially, SchedulesStep, PTL DEF SchedulesSpec
=============================================================================
