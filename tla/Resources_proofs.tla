-------------------------- MODULE Resources_proofs --------------------------
(***************************************************************************)
(* What the retention, the rate limiter, the output of a command and the   *)
(* config file of the agent keep: no sample is deleted but what its bucket *)
(* aggregates, no key admits more than its budget, no unit of output is    *)
(* lost or shown twice, no file bears the name before it is whole. Each    *)
(* part has an inductive invariant of its own.                             *)
(***************************************************************************)
EXTENDS MetricRetention, CommandBudget, CommandOutput, ConfigFile,
        FiniteSetTheorems, SequenceTheorems, TLAPS

-----------------------------------------------------------------------------
(* Arithmetic: what the integer divisions of the models are used for.      *)

LEMMA DivisionBounds ==
  ASSUME NEW a \in Nat, NEW n \in Nat \ {0}
  PROVE  /\ a \div n \in Nat
         /\ n * (a \div n) <= a /\ a < n * (a \div n) + n
  BY Z3

LEMMA MultiplesAreOrdered ==
  ASSUME NEW p \in Nat, NEW q \in Nat, NEW n \in Nat, p <= q
  PROVE  n * p \in Nat /\ n * q \in Nat /\ n * p <= n * q /\ n * (p + 1) = n * p + n
  BY Z3

\* A whole unit more is a higher quotient.
LEMMA LaterQuotient ==
  ASSUME NEW a \in Nat, NEW b \in Nat, NEW n \in Nat \ {0}, a + n <= b
  PROVE  a \div n < b \div n
  <1> DEFINE p == a \div n
             q == b \div n
  <1>1. /\ p \in Nat /\ q \in Nat /\ n * p <= a /\ b < n * q + n
    BY DivisionBounds
  <1> HIDE DEF p, q
  <1>2. n * p \in Nat /\ n * q \in Nat
    BY <1>1, MultiplesAreOrdered
  <1>3. ASSUME q <= p PROVE FALSE
    <2>1. n * q <= n * p
      BY <1>1, <1>3, MultiplesAreOrdered
    <2>2. a \in Nat /\ b \in Nat /\ n \in Nat
      OBVIOUS
    <2> QED BY <1>1, <1>2, <2>1, <2>2
  <1>4. p < q
    BY <1>1, <1>3
  <1> QED BY <1>4 DEF p, q

LEMMA QuotientIsMonotone ==
  ASSUME NEW a \in Nat, NEW b \in Nat, NEW n \in Nat \ {0}, a <= b
  PROVE  a \div n <= b \div n
  <1> DEFINE p == a \div n
             q == b \div n
  <1>1. /\ p \in Nat /\ q \in Nat /\ n * p <= a /\ b < n * q + n
    BY DivisionBounds
  <1> HIDE DEF p, q
  <1>2. ASSUME q + 1 <= p PROVE FALSE
    <2>1. n * (q + 1) <= n * p /\ n * (q + 1) = n * q + n
      BY <1>1, <1>2, MultiplesAreOrdered
    <2>2. n * p \in Nat /\ n * q \in Nat
      BY <1>1, MultiplesAreOrdered
    <2> QED BY <1>1, <2>1, <2>2
  <1>3. p <= q
    BY <1>1, <1>2
  <1> QED BY <1>3 DEF p, q

-----------------------------------------------------------------------------
(* Retention. What a pass is about to delete is in its bucket: it was      *)
(* there when the pass rolled up, because what has arrived since is too    *)
(* young, and whoever rolls up again before the pass deletes sees it too.  *)

ArrivingIsRecent ==
  \A t \in arriving : t <= slotNow /\ slotNow - t < SlotsPerHour
PassesBeganBefore == \A p \in Passes : retentionPass[p].began <= slotNow
InBucket(t) == hourly[Hour(t)] = NoBucket \/ t \in hourly[Hour(t)]
RolledBeforePruned ==
  \A p \in Passes : retentionPass[p].step = "prune" =>
    \A t \in raw : t < Before(retentionPass[p].began, RawRetention) => InBucket(t)

RetentionInv ==
  /\ RetentionTypeOK /\ ArrivingIsRecent /\ PassesBeganBefore
  /\ RolledBeforePruned

LEMMA RetentionFacts ==
  /\ SlotsPerHour \in Nat \ {0} /\ LastSlot \in Nat /\ RawRetention \in Nat
  /\ HourlyRetention \in Nat /\ RawRetention >= SlotsPerHour
  /\ Times \subseteq Nat /\ 0 \in Times
  BY RetentionAssumption DEF Times

LEMMA RetentionInitial == RetentionInit => RetentionInv
  <1> SUFFICES ASSUME RetentionInit PROVE RetentionInv
    OBVIOUS
  <1>1. /\ retentionPass \in [Passes -> [step : {"idle", "roll", "prune", "expire"},
                                         began : Times]]
        /\ \A p \in Passes : retentionPass[p].step = "idle" /\ retentionPass[p].began = 0
    BY RetentionFacts DEF RetentionInit, Resting
  <1>2. hourly \in [Hours -> (SUBSET Times) \cup {NoBucket}]
    BY DEF RetentionInit
  <1>3. RetentionTypeOK
    <2>1. {} \subseteq Times /\ 0 \in Times
      BY RetentionFacts
    <2> QED BY <1>1, <1>2, <2>1 DEF RetentionInit, RetentionTypeOK
  <1> QED
    BY <1>1, <1>3, RetentionFacts DEF RetentionInit, RetentionInv, ArrivingIsRecent, PassesBeganBefore,
       RolledBeforePruned

LEMMA SamplesKeep ==
  ASSUME RetentionInv, StampSample \/ \E t \in arriving : InsertSample(t)
  PROVE  RetentionInv'
  <1>1. UNCHANGED <<slotNow, hourly, retentionPass>>
    BY DEF StampSample, InsertSample
  <1>2. RetentionTypeOK'
    BY DEF StampSample, InsertSample, RetentionInv, RetentionTypeOK
  <1>3. ArrivingIsRecent'
    <2>1. arriving' \subseteq arriving \cup {slotNow}
      BY DEF StampSample, InsertSample
    <2>2. slotNow <= slotNow /\ slotNow - slotNow < SlotsPerHour
      BY RetentionFacts DEF RetentionInv, RetentionTypeOK
    <2> QED BY <1>1, <2>1, <2>2 DEF RetentionInv, ArrivingIsRecent
  <1>4. RolledBeforePruned'
    <2>1. CASE StampSample
      BY <2>1 DEF StampSample, RetentionInv, RolledBeforePruned, InBucket
    <2>2. ASSUME NEW t \in arriving, InsertSample(t)
          PROVE  RolledBeforePruned'
      <3>1. raw' = raw \cup {t}
        BY <2>2 DEF InsertSample
      <3>2. ASSUME NEW p \in Passes PROVE ~(t < Before(retentionPass[p].began, RawRetention))
        <4>1. /\ retentionPass[p].began \in Nat /\ slotNow \in Nat /\ t \in Nat
              /\ retentionPass[p].began <= slotNow /\ slotNow - t < SlotsPerHour
          BY RetentionFacts DEF RetentionInv, RetentionTypeOK, PassesBeganBefore,
             ArrivingIsRecent
        <4> QED BY <4>1, RetentionFacts DEF Before
      <3> QED
        BY <1>1, <3>1, <3>2 DEF RetentionInv, RolledBeforePruned, InBucket
    <2> QED BY <2>1, <2>2
  <1>5. PassesBeganBefore'
    BY <1>1 DEF RetentionInv, PassesBeganBefore
  <1> QED BY <1>2, <1>3, <1>4, <1>5 DEF RetentionInv

LEMMA TickSlotKeeps == RetentionInv /\ TickSlot => RetentionInv'
  <1> SUFFICES ASSUME RetentionInv, TickSlot PROVE RetentionInv'
    OBVIOUS
  <1>1. /\ slotNow' = slotNow + 1 /\ slotNow' \in Times /\ slotNow \in Nat
        /\ UNCHANGED <<arriving, raw, hourly, retentionPass>>
        /\ \A t \in arriving : t \in Nat /\ slotNow - t < SlotsPerHour - 1
        /\ \A p \in Passes : retentionPass[p].began \in Nat
    BY RetentionFacts DEF TickSlot, RetentionInv, RetentionTypeOK, Times
  <1>2. RetentionTypeOK'
    BY <1>1 DEF RetentionInv, RetentionTypeOK
  <1>3. ArrivingIsRecent' /\ PassesBeganBefore'
    BY <1>1, RetentionFacts DEF RetentionInv, ArrivingIsRecent, PassesBeganBefore
  <1> QED BY <1>1, <1>2, <1>3 DEF RetentionInv, RolledBeforePruned, InBucket

\* What changes of a pass, and what that leaves true of the passes.
LEMMA PassMoves ==
  ASSUME RetentionInv, NEW p \in Passes,
         NEW step \in {"idle", "roll", "prune", "expire"}, NEW began \in Times,
         began <= slotNow,
         retentionPass' = [retentionPass EXCEPT ![p] = [step |-> step, began |-> began]],
         slotNow' = slotNow
  PROVE  /\ retentionPass' \in [Passes -> [step : {"idle", "roll", "prune", "expire"},
                                           began : Times]]
         /\ PassesBeganBefore'
         /\ retentionPass'[p].step = step /\ retentionPass'[p].began = began
         /\ \A q \in Passes \ {p} : retentionPass'[q] = retentionPass[q]
  BY DEF RetentionInv, RetentionTypeOK, PassesBeganBefore

LEMMA PassFacts ==
  ASSUME RetentionInv, NEW p \in Passes
  PROVE  /\ retentionPass[p].began \in Times /\ retentionPass[p].began <= slotNow
         /\ slotNow \in Times /\ 0 <= slotNow
         /\ \A step \in {"idle", "roll", "prune", "expire"} :
              [retentionPass EXCEPT ![p].step = step] =
                [retentionPass EXCEPT ![p] =
                   [step |-> step, began |-> retentionPass[p].began]]
  <1>1. retentionPass[p] \in [step : {"idle", "roll", "prune", "expire"}, began : Times]
    BY DEF RetentionInv, RetentionTypeOK
  <1>2. /\ retentionPass[p].began \in Times /\ retentionPass[p].began <= slotNow
        /\ slotNow \in Times /\ 0 <= slotNow
    BY <1>1, RetentionFacts DEF RetentionInv, RetentionTypeOK, PassesBeganBefore
  <1>3. ASSUME NEW step \in {"idle", "roll", "prune", "expire"}
        PROVE  [retentionPass[p] EXCEPT !.step = step]
                 = [step |-> step, began |-> retentionPass[p].began]
    BY <1>1
  <1> QED BY <1>2, <1>3

LEMMA HourOfSample ==
  ASSUME RetentionInv, NEW t \in raw PROVE t \in Nat /\ Hour(t) \in Hours
  <1>1. t \in Nat /\ t <= LastSlot
    BY RetentionFacts DEF RetentionInv, RetentionTypeOK, Times
  <1>2. /\ t \div SlotsPerHour \in Nat /\ LastSlot \div SlotsPerHour \in Nat
        /\ t \div SlotsPerHour <= LastSlot \div SlotsPerHour
    BY <1>1, RetentionFacts, DivisionBounds, QuotientIsMonotone
  <1> QED BY <1>1, <1>2 DEF Hour, Hours

\* A step of a pass that leaves the samples alone.
LEMMA PassKeeps ==
  ASSUME RetentionInv, NEW p \in Passes,
         StartRetention(p) \/ PruneHourly(p) \/ FailRetention(p)
  PROVE  RetentionInv'
  <1>1. PICK step \in {"idle", "roll"}, began \in Times :
          /\ began <= slotNow
          /\ retentionPass' = [retentionPass EXCEPT ![p] = [step |-> step, began |-> began]]
    <2>1. CASE StartRetention(p)
      <3>1. slotNow \in Times /\ slotNow <= slotNow
        BY RetentionFacts DEF RetentionInv, RetentionTypeOK
      <3>2. retentionPass' = [retentionPass EXCEPT ![p] =
                                [step |-> "roll", began |-> slotNow]]
        BY <2>1 DEF StartRetention
      <3> QED BY <3>1, <3>2
    <2>2. CASE PruneHourly(p)
      <3>1. retentionPass' = [retentionPass EXCEPT ![p].step = "idle"]
        BY <2>2 DEF PruneHourly, Advance
      <3>2. retentionPass' = [retentionPass EXCEPT ![p] =
                                [step |-> "idle", began |-> retentionPass[p].began]]
        BY <3>1, PassFacts
      <3> QED BY <3>2, PassFacts
    <2>3. CASE FailRetention(p)
      BY <2>3, PassFacts, RetentionFacts DEF FailRetention, Resting
    <2> QED BY <2>1, <2>2, <2>3
  <1>2. /\ UNCHANGED <<slotNow, arriving, raw>>
        /\ hourly' \in [Hours -> (SUBSET Times) \cup {NoBucket}]
        /\ \A h \in Hours : hourly'[h] \in {NoBucket, hourly[h]}
    <2>1. UNCHANGED <<slotNow, arriving, raw>>
      BY DEF StartRetention, PruneHourly, FailRetention
    <2>2. hourly \in [Hours -> (SUBSET Times) \cup {NoBucket}]
      BY DEF RetentionInv, RetentionTypeOK
    <2>3. CASE PruneHourly(p)
      BY <2>1, <2>2, <2>3 DEF PruneHourly
    <2>4. CASE UNCHANGED hourly
      BY <2>1, <2>2, <2>4
    <2> QED BY <2>3, <2>4 DEF StartRetention, FailRetention
  <1>3. /\ retentionPass' \in [Passes -> [step : {"idle", "roll", "prune", "expire"},
                                          began : Times]]
        /\ PassesBeganBefore' /\ retentionPass'[p].step # "prune"
        /\ \A q \in Passes \ {p} : retentionPass'[q] = retentionPass[q]
    <2>1. step \in {"idle", "roll", "prune", "expire"} /\ step # "prune"
      OBVIOUS
    <2> QED BY <1>1, <1>2, <2>1, PassMoves
  <1>4. RolledBeforePruned'
    <2>1. ASSUME NEW t \in raw, InBucket(t) PROVE InBucket(t)'
      BY <1>2, <2>1, HourOfSample DEF InBucket
    <2> QED BY <1>2, <1>3, <2>1 DEF RetentionInv, RolledBeforePruned
  <1> QED BY <1>2, <1>3, <1>4 DEF RetentionInv, RetentionTypeOK, ArrivingIsRecent

LEMMA RollUpKeeps ==
  ASSUME RetentionInv, NEW p \in Passes, RollUp(p) PROVE RetentionInv'
  <1>1. /\ UNCHANGED <<slotNow, arriving, raw>>
        /\ retentionPass' = [retentionPass EXCEPT ![p] =
                               [step |-> "prune", began |-> retentionPass[p].began]]
        /\ hourly' \in [Hours -> (SUBSET Times) \cup {NoBucket}]
    <2>1. retentionPass' = [retentionPass EXCEPT ![p].step = "prune"]
      BY DEF RollUp, Advance
    <2>2. retentionPass' = [retentionPass EXCEPT ![p] =
                              [step |-> "prune", began |-> retentionPass[p].began]]
      BY <2>1, PassFacts
    <2>3. \A h \in Hours : InHour(h) \in SUBSET Times
      BY DEF InHour, RetentionInv, RetentionTypeOK
    <2> QED BY <2>2, <2>3 DEF RollUp, RetentionInv, RetentionTypeOK
  <1>2. /\ retentionPass' \in [Passes -> [step : {"idle", "roll", "prune", "expire"},
                                          began : Times]]
        /\ PassesBeganBefore' /\ retentionPass'[p].began = retentionPass[p].began
        /\ \A q \in Passes \ {p} : retentionPass'[q] = retentionPass[q]
    BY <1>1, PassFacts, PassMoves
  <1>3. ASSUME NEW t \in raw
        PROVE  hourly'[Hour(t)] = (IF Complete(Hour(t)) THEN InHour(Hour(t))
                                                        ELSE hourly[Hour(t)])
    <2>1. Hour(t) \in Hours /\ t \in InHour(Hour(t))
      BY HourOfSample DEF InHour
    <2> QED BY <2>1 DEF RollUp
  <1>4. ASSUME NEW t \in raw, InBucket(t) \/ Complete(Hour(t)) PROVE InBucket(t)'
    <2>1. t \in InHour(Hour(t))
      BY DEF InHour
    <2>2. CASE Complete(Hour(t))
      BY <1>3, <2>1, <2>2 DEF InBucket
    <2>3. CASE InBucket(t) /\ ~Complete(Hour(t))
      BY <1>3, <2>3 DEF InBucket
    <2> QED BY <1>4, <2>2, <2>3
  <1>5. ASSUME NEW t \in raw, t < Before(retentionPass[p].began, RawRetention)
        PROVE  Complete(Hour(t))
    <2>1. t \in Nat /\ slotNow \in Nat /\ t + SlotsPerHour <= slotNow
      <3>1. /\ t \in Nat /\ slotNow \in Nat
            /\ retentionPass[p].began \in Nat /\ retentionPass[p].began <= slotNow
        BY PassFacts, RetentionFacts DEF RetentionInv, RetentionTypeOK
      <3> QED BY <1>5, <3>1, RetentionFacts DEF Before
    <2>2. Hour(t) < Hour(slotNow)
      BY <2>1, LaterQuotient, RetentionFacts DEF Hour
    <2> QED BY <2>2 DEF Complete
  <1>6. RolledBeforePruned'
    BY <1>1, <1>2, <1>4, <1>5 DEF RetentionInv, RolledBeforePruned
  <1> QED BY <1>1, <1>2, <1>6 DEF RetentionInv, RetentionTypeOK, ArrivingIsRecent

LEMMA PruneRawKeeps ==
  ASSUME RetentionInv, NEW p \in Passes, PruneRaw(p) PROVE RetentionInv'
  <1>1. /\ UNCHANGED <<slotNow, arriving, hourly>>
        /\ retentionPass' = [retentionPass EXCEPT ![p] =
                               [step |-> "expire", began |-> retentionPass[p].began]]
        /\ raw' \subseteq raw
    <2>1. retentionPass' = [retentionPass EXCEPT ![p].step = "expire"]
      BY DEF PruneRaw, Advance
    <2>2. retentionPass' = [retentionPass EXCEPT ![p] =
                              [step |-> "expire", began |-> retentionPass[p].began]]
      BY <2>1, PassFacts
    <2> QED BY <2>2 DEF PruneRaw, Advance
  <1>2. /\ retentionPass' \in [Passes -> [step : {"idle", "roll", "prune", "expire"},
                                          began : Times]]
        /\ PassesBeganBefore' /\ retentionPass'[p].step = "expire"
        /\ \A q \in Passes \ {p} : retentionPass'[q] = retentionPass[q]
    BY <1>1, PassFacts, PassMoves
  <1>3. RolledBeforePruned'
    BY <1>1, <1>2 DEF RetentionInv, RolledBeforePruned, InBucket
  <1> QED BY <1>1, <1>2, <1>3 DEF RetentionInv, RetentionTypeOK, ArrivingIsRecent

LEMMA RetentionStepKeeps == RetentionInv /\ [RetentionNext]_retentionVars => RetentionInv'
  <1> SUFFICES ASSUME RetentionInv, [RetentionNext]_retentionVars PROVE RetentionInv'
    OBVIOUS
  <1>1. CASE UNCHANGED retentionVars
    BY <1>1 DEF retentionVars, RetentionInv, RetentionTypeOK, ArrivingIsRecent,
       PassesBeganBefore, RolledBeforePruned, InBucket
  <1> QED BY <1>1, SamplesKeep, TickSlotKeeps, PassKeeps, RollUpKeeps, PruneRawKeeps
             DEF RetentionNext

\* What a step deletes is in its bucket, and only PruneRaw deletes.
LEMMA RetentionStepDeletes ==
  ASSUME RetentionInv, [RetentionNext]_retentionVars, NEW t \in raw, t \notin raw'
  PROVE  hourly[Hour(t)] # NoBucket /\ t \in hourly[Hour(t)]
  <1>1. PICK p \in Passes : PruneRaw(p)
    BY DEF RetentionNext, retentionVars, StampSample, InsertSample, TickSlot,
       StartRetention, RollUp, PruneHourly, FailRetention
  <1>2. /\ retentionPass[p].step = "prune" /\ hourly[Hour(t)] # NoBucket
        /\ t < Before(retentionPass[p].began, RawRetention)
    BY <1>1 DEF PruneRaw, Advance
  <1>3. InBucket(t)
    BY <1>2 DEF RetentionInv, RolledBeforePruned
  <1> QED BY <1>2, <1>3 DEF InBucket

\* Whatever passes overlap and fail, and whenever samples arrive, none is deleted
\* but what its bucket aggregates at that moment (runMetricRetention).
THEOREM OnlyRolledIsPruned == RetentionSpec => PrunedIsRolled
  <1>1. RetentionInv /\ [RetentionNext]_retentionVars
          => [\A t \in raw \ raw' :
                hourly[Hour(t)] # NoBucket /\ t \in hourly[Hour(t)]]_retentionVars
    BY RetentionStepDeletes
  <1> QED BY <1>1, RetentionInitial, RetentionStepKeeps, PTL
             DEF RetentionSpec, PrunedIsRolled

\* Type correctness of the retention.
THEOREM RetentionTypeCorrect == RetentionSpec => []RetentionTypeOK
  <1>1. RetentionInv => RetentionTypeOK
    BY DEF RetentionInv
  <1> QED BY <1>1, RetentionInitial, RetentionStepKeeps, PTL DEF RetentionSpec

-----------------------------------------------------------------------------
(* The budgets. What a key may still take and what it was admitted, which  *)
(* drains, are together at most its capacity.                              *)

LEMMA PositiveProduct ==
  ASSUME NEW a \in Nat \ {0}, NEW b \in Nat \ {0}
  PROVE  a * b \in Nat \ {0}
  BY Z3

LEMMA OneMoreTime ==
  ASSUME NEW a \in Nat, NEW b \in Nat
  PROVE  (a + 1) * b = a * b + b /\ a * b \in Nat
  BY Z3

LEMMA RatesArePositive ==
  ASSUME NEW k \in Keys
  PROVE  /\ Cap(k) \in Nat /\ Rate(k) \in Nat \ {0}
         /\ UserCap \in Nat /\ UserRate \in Nat /\ Unit \in Nat
  <1>1. /\ PerMinute \in Nat \ {0} /\ Unit \in Nat \ {0} /\ TickSeconds \in Nat \ {0}
        /\ PerMinute * Unit \in Nat \ {0} /\ Unit * TickSeconds \in Nat \ {0}
        /\ PerMinute * Unit * TickSeconds \in Nat \ {0}
    <2>1. /\ PerMinute \in Nat \ {0} /\ Unit \in Nat \ {0} /\ TickSeconds \in Nat \ {0}
      BY BudgetAssumption
    <2>2. PerMinute * Unit \in Nat \ {0} /\ Unit * TickSeconds \in Nat \ {0}
      BY <2>1, PositiveProduct
    <2> QED BY <2>1, <2>2, PositiveProduct
  <1>2. UserRate \in Nat \ {0}
    <2> DEFINE w == PerMinute * Unit * TickSeconds
    <2>1. w \in Nat \ {0} /\ w % 60 = 0
      BY <1>1, BudgetAssumption
    <2> HIDE DEF w
    <2>2. w \div 60 \in Nat \ {0}
      BY <2>1
    <2> QED BY <2>2 DEF w, UserRate
  <1>3. DeviceRate \in Nat \ {0}
    <2> DEFINE v == Unit * TickSeconds
               w == PerMinute * Unit * TickSeconds
    <2>1. v \in Nat \ {0} /\ v % 5 = 0 /\ w \in Nat
      BY <1>1, BudgetAssumption
    <2> HIDE DEF v, w
    <2>2. v \div 5 \in Nat \ {0} /\ w \div 180 \in Nat
      BY <2>1
    <2> QED BY <2>2 DEF v, w, DeviceRate, Larger
  <1>4. DeviceCap \in Nat
    <2>1. CeilDiv(PerMinute, 3) \in Nat
      BY <1>1 DEF CeilDiv
    <2>2. Larger(2, CeilDiv(PerMinute, 3)) \in Nat \ {0}
      BY <2>1 DEF Larger
    <2> QED BY <1>1, <2>2, PositiveProduct DEF DeviceCap
  <1> QED BY <1>1, <1>2, <1>3, <1>4 DEF Cap, Rate, UserCap

\* An empty bucket is full again when its key expires.
LEMMA ExpiryRefills ==
  ASSUME NEW k \in Keys
  PROVE  /\ Ttl(k) \in Nat
         /\ \A age \in Nat : age + 1 >= Ttl(k) => Cap(k) <= age * Rate(k) + Rate(k)
  <1> DEFINE c == Cap(k)
             r == Rate(k)
             ttl == (c + r - 1) \div r
  <1>1. c \in Nat /\ r \in Nat \ {0} /\ Ttl(k) = ttl
    BY RatesArePositive DEF Ttl, CeilDiv
  <1> HIDE DEF c, r
  <1>2. c + r - 1 \in Nat
    BY <1>1
  <1>3. ttl \in Nat /\ c + r - 1 < r * ttl + r
    BY <1>1, <1>2, DivisionBounds
  <1> HIDE DEF ttl
  <1>4. ASSUME NEW age \in Nat, age + 1 >= ttl PROVE c <= age * r + r
    <2>1. r * ttl <= r * (age + 1) /\ r * (age + 1) = age * r + r
          /\ r * ttl \in Nat /\ age * r \in Nat
      BY <1>1, <1>3, <1>4, Z3
    <2> QED BY <1>1, <1>3, <2>1
  <1> QED BY <1>1, <1>3, <1>4 DEF c, r

Held(k) == bucket[k].tokens + bucket[k].age * Rate(k)
BucketsTyped == bucket \in [Keys -> [tokens : Nat, age : Int]]
BudgetsHold ==
  \A k \in Keys :
    /\ bucket[k] = Absent => used[k] = 0
    /\ bucket[k] # Absent =>
         bucket[k].age \in Nat /\ (used[k] = 0 \/ used[k] + Held(k) <= Cap(k))

BudgetInv == BudgetTypeOK /\ BucketsTyped /\ BudgetsHold

\* What the invariant says of one key, and what it takes to say so.
KeyOK(b, u, k) ==
  /\ b.tokens \in 0..Cap(k) /\ b.age \in -1..Ttl(k) /\ b \in [tokens : Nat, age : Int]
  /\ u \in Nat
  /\ b = Absent => u = 0
  /\ b # Absent => b.age \in Nat /\ (u = 0 \/ u + (b.tokens + b.age * Rate(k)) <= Cap(k))

LEMMA KeysAreOK == BudgetInv => \A k \in Keys : KeyOK(bucket[k], used[k], k)
  BY DEF BudgetInv, BudgetTypeOK, BucketsTyped, BudgetsHold, KeyOK, Held

LEMMA BudgetInvByKey ==
  ASSUME bucket' = [k \in Keys |-> bucket'[k]], used' = [k \in Keys |-> used'[k]],
         commands' \in [RateUsers -> Nat],
         \A k \in Keys : KeyOK(bucket'[k], used'[k], k)
  PROVE  BudgetInv'
  <1>1. BucketsTyped' /\ used' \in [Keys -> Nat]
    BY DEF KeyOK, BucketsTyped
  <1>2. BudgetTypeOK'
    BY <1>1 DEF KeyOK, BudgetTypeOK
  <1>3. BudgetsHold'
    BY DEF KeyOK, BudgetsHold, Held
  <1> QED BY <1>1, <1>2, <1>3 DEF BudgetInv

LEMMA BudgetInitial == BudgetInit => BudgetInv
  <1> SUFFICES ASSUME BudgetInit PROVE BudgetInv
    OBVIOUS
  <1>1. \A k \in Keys : Cap(k) \in Nat /\ Ttl(k) \in Nat
    BY RatesArePositive, ExpiryRefills
  <1> QED BY <1>1 DEF BudgetInit, BudgetInv, BudgetTypeOK, BucketsTyped, BudgetsHold, Absent

\* One take from a key.
LEMMA TakeKeeps ==
  ASSUME NEW k \in Keys, KeyOK(bucket[k], used[k], k)
  PROVE  KeyOK(Taken(k), used[k] + (IF Granted(k) THEN Unit ELSE 0), k)
  <1> DEFINE c == Cap(k)
             r == Rate(k)
             b == bucket[k]
             gained == b.age * r
  <1>1. /\ c \in Nat /\ r \in Nat \ {0} /\ Unit \in Nat /\ Ttl(k) \in Nat
        /\ used[k] \in Nat /\ b.tokens \in 0..c
    BY RatesArePositive, ExpiryRefills DEF KeyOK
  <1>2. b # Absent => gained \in Nat
    <2>1. ASSUME b.age \in Nat PROVE gained \in Nat
      BY <1>1, <2>1
    <2> QED BY <2>1 DEF KeyOK
  <1>3. /\ Refilled(k) \in 0..c
        /\ used[k] = 0 \/ used[k] + Refilled(k) <= c
    <2>1. CASE b = Absent
      BY <1>1, <2>1 DEF Refilled, KeyOK
    <2>2. CASE b # Absent
      <3>1. used[k] = 0 \/ used[k] + (b.tokens + gained) <= c
        BY <2>2 DEF KeyOK
      <3>2. Refilled(k) = IF b.tokens + gained > c \/ b.tokens + gained = c
                          THEN c ELSE b.tokens + gained
        <4>1. b.tokens + gained \in Nat
          BY <1>1, <1>2, <2>2
        <4> HIDE DEF gained
        <4> QED BY <1>1, <2>2, <4>1 DEF Refilled, Lesser, gained
      <3> HIDE DEF gained, c
      <3> QED BY <1>1, <1>2, <2>2, <3>1, <3>2
    <2> QED BY <2>1, <2>2
  <1>4. /\ Taken(k).age = 0 /\ Taken(k).tokens \in 0..c /\ Taken(k).tokens \in Nat
        /\ Taken(k).tokens + (IF Granted(k) THEN Unit ELSE 0) = Refilled(k)
        /\ Taken(k) \in [tokens : Nat, age : Int]
    <2>1. CASE Granted(k)
      BY <1>1, <1>3, <2>1 DEF Taken, Granted
    <2>2. CASE ~Granted(k)
      BY <1>1, <1>3, <2>2 DEF Taken
    <2> QED BY <2>1, <2>2
  <1>5. Taken(k) # Absent /\ 0 * r = 0
    BY <1>1 DEF Taken, Absent
  <1> DEFINE t == Taken(k)
             more == (IF Granted(k) THEN Unit ELSE 0)
  <1>6. more \in Nat
    BY <1>1
  <1> HIDE DEF t, more, c, r
  <1>7. used[k] + more = 0 \/ used[k] + more + (t.tokens + t.age * r) <= c
    BY <1>1, <1>3, <1>4, <1>5, <1>6 DEF t, more
  <1>8. t.age \in -1..Ttl(k) /\ t.age \in Nat /\ used[k] + more \in Nat
    BY <1>1, <1>4, <1>6 DEF t
  <1>9. KeyOK(t, used[k] + more, k)
    BY <1>4, <1>5, <1>7, <1>8 DEF KeyOK, t, c, r
  <1> QED BY <1>9 DEF t, more

LEMMA CheckKeeps ==
  ASSUME BudgetInv, NEW u \in RateUsers, NEW ds \in SUBSET RateDevices,
         CheckRateLimit(u, ds)
  PROVE  BudgetInv'
  <1>1. \A k \in Keys : KeyOK(bucket[k], used[k], k)
    BY KeysAreOK
  <1>2. ASSUME NEW k \in Keys PROVE KeyOK(bucket'[k], used'[k], k)
    <2>1. CASE k \in ds \cup {u}
      <3>1. /\ bucket'[k] = Taken(k)
            /\ used'[k] = used[k] + (IF Granted(k) THEN Unit ELSE 0)
        BY <2>1 DEF CheckRateLimit
      <3> QED BY <1>1, <3>1, TakeKeeps
    <2>2. CASE k \notin ds \cup {u}
      <3>1. bucket'[k] = bucket[k] /\ used'[k] = used[k]
        BY <1>1, <2>2 DEF CheckRateLimit, KeyOK
      <3> QED BY <1>1, <3>1
    <2> QED BY <2>1, <2>2
  <1>3. commands' \in [RateUsers -> Nat]
    <2> DEFINE n == Cardinality(Allowed(u, ds))
    <2>1. n \in Nat
      <3>1. Allowed(u, ds) \subseteq RateDevices
        BY DEF Allowed
      <3> QED BY <3>1, BudgetAssumption, FS_Subset, FS_CardinalityType
    <2>2. /\ UserCap \in Nat /\ Unit \in Nat /\ commands \in [RateUsers -> Nat]
      BY RatesArePositive DEF Keys, BudgetInv, BudgetTypeOK
    <2>3. Unit * n \in Nat
      BY <2>1, <2>2
    <2>4. commands' = [commands EXCEPT ![u] = Lesser(UserCap + Unit, @ + Unit * n)]
      BY DEF CheckRateLimit
    <2> HIDE DEF n
    <2>5. Lesser(UserCap + Unit, commands[u] + Unit * n) \in Nat
      BY <2>2, <2>3 DEF Lesser
    <2> QED BY <2>2, <2>4, <2>5
  <1>4. bucket' = [k \in Keys |-> bucket'[k]] /\ used' = [k \in Keys |-> used'[k]]
    BY DEF CheckRateLimit
  <1> QED BY <1>2, <1>3, <1>4, BudgetInvByKey

\* One tick of a key.
LEMMA BudgetTickKeeps ==
  ASSUME NEW k \in Keys, KeyOK(bucket[k], used[k], k)
  PROVE  KeyOK(IF ExpiresNow(k) THEN Absent ELSE [bucket[k] EXCEPT !.age = @ + 1],
               Drained(used[k], Rate(k)), k)
  <1> DEFINE c == Cap(k)
             r == Rate(k)
             b == bucket[k]
             later == [b EXCEPT !.age = b.age + 1]
             left == Drained(used[k], r)
  <1>1. /\ c \in Nat /\ r \in Nat \ {0} /\ Ttl(k) \in Nat /\ used[k] \in Nat
        /\ b.tokens \in 0..c /\ b.age \in Int
        /\ later = [tokens |-> b.tokens, age |-> b.age + 1]
    BY RatesArePositive, ExpiryRefills DEF KeyOK
  <1> HIDE DEF later
  <1>2. left \in Nat /\ (left = 0 \/ left = used[k] - r) /\ (used[k] <= r => left = 0)
    BY <1>1 DEF Drained, Larger
  <1>3. CASE ExpiresNow(k)
    <2>1. left = 0
      <3>1. CASE b = Absent
        BY <1>1, <1>2, <3>1 DEF KeyOK
      <3>2. CASE b # Absent
        <4>1. b.age \in Nat /\ b.age + 1 >= Ttl(k) /\ b.age * r \in Nat
          BY <1>1, <1>3, <3>2 DEF ExpiresNow, KeyOK
        <4>2. c <= b.age * r + r
          BY <4>1, ExpiryRefills
        <4>3. used[k] = 0 \/ used[k] + (b.tokens + b.age * r) <= c
          BY <3>2 DEF KeyOK
        <4> DEFINE gained == b.age * r
        <4> HIDE DEF gained, left, c, r
        <4>4. used[k] <= r
          BY <1>1, <4>1, <4>2, <4>3 DEF gained
        <4> QED BY <1>2, <4>4
      <3> QED BY <3>1, <3>2
    <2> HIDE DEF left
    <2>2. KeyOK(Absent, left, k)
      BY <1>1, <2>1 DEF KeyOK, Absent
    <2> QED BY <1>3, <2>2 DEF left
  <1>4. CASE ~ExpiresNow(k)
    <2>1. b # Absent /\ b.age \in Nat /\ b.age + 1 < Ttl(k)
      BY <1>1, <1>4 DEF ExpiresNow, KeyOK
    <2>2. later # Absent /\ later \in [tokens : Nat, age : Int] /\ later.age \in Nat
          /\ later.tokens = b.tokens /\ later.age = b.age + 1
          /\ later.age \in -1..Ttl(k)
      BY <1>1, <2>1 DEF Absent
    <2>3. left = 0 \/ left + (later.tokens + later.age * r) <= c
      <3>1. used[k] = 0 \/ used[k] + (b.tokens + b.age * r) <= c
        BY <2>1 DEF KeyOK
      <3>2. later.age * r = b.age * r + r /\ b.age * r \in Nat
        <4>1. (b.age + 1) * r = b.age * r + r /\ b.age * r \in Nat
          BY <1>1, <2>1, OneMoreTime
        <4> QED BY <2>2, <4>1
      <3> DEFINE gained == b.age * r
      <3>3. gained \in Nat
        BY <3>2
      <3> HIDE DEF gained, left, c, r
      <3>4. left = 0 \/ left + (b.tokens + (gained + r)) <= c
        BY <1>1, <1>2, <3>1, <3>3 DEF gained
      <3> QED BY <2>2, <3>2, <3>4 DEF gained
    <2> HIDE DEF left
    <2>4. KeyOK(later, left, k)
      BY <1>1, <1>2, <2>2, <2>3 DEF KeyOK
    <2> QED BY <1>4, <2>4 DEF left, later
  <1> QED BY <1>3, <1>4

LEMMA TickBudgetKeeps == BudgetInv /\ TickBudget => BudgetInv'
  <1> SUFFICES ASSUME BudgetInv, TickBudget PROVE BudgetInv'
    OBVIOUS
  <1>1. \A k \in Keys : KeyOK(bucket[k], used[k], k)
    BY KeysAreOK
  <1>2. ASSUME NEW k \in Keys PROVE KeyOK(bucket'[k], used'[k], k)
    <2>1. /\ bucket'[k] = IF ExpiresNow(k) THEN Absent ELSE [bucket[k] EXCEPT !.age = @ + 1]
          /\ used'[k] = Drained(used[k], Rate(k))
      BY DEF TickBudget
    <2> QED BY <1>1, <2>1, BudgetTickKeeps
  <1>3. commands' \in [RateUsers -> Nat]
    <2>1. ASSUME NEW u \in RateUsers PROVE Drained(commands[u], UserRate) \in Nat
      <3>1. commands[u] \in Nat /\ UserRate \in Nat
        BY RatesArePositive DEF Keys, BudgetInv, BudgetTypeOK
      <3> QED BY <3>1 DEF Drained, Larger
    <2> QED BY <2>1 DEF TickBudget
  <1>4. bucket' = [k \in Keys |-> bucket'[k]] /\ used' = [k \in Keys |-> used'[k]]
    BY DEF TickBudget
  <1> QED BY <1>2, <1>3, <1>4, BudgetInvByKey

LEMMA BudgetStepKeeps == BudgetInv /\ [BudgetNext]_budgetVars => BudgetInv'
  <1> SUFFICES ASSUME BudgetInv, [BudgetNext]_budgetVars PROVE BudgetInv'
    OBVIOUS
  <1>1. CASE UNCHANGED budgetVars
    BY <1>1 DEF budgetVars, BudgetInv, BudgetTypeOK, BucketsTyped, BudgetsHold, Held
  <1> QED BY <1>1, CheckKeeps, TickBudgetKeeps DEF BudgetNext

\* No user and no device is admitted more than its capacity and what its rate
\* adds meanwhile, whatever the rate, the resolution and the requests
\* (checkCommandRateLimit): an expiring key gives no tokens away.
THEOREM BudgetsAreKept == BudgetSpec => []AdmittedWithinBudget
  <1>1. BudgetInv => AdmittedWithinBudget
    <2> SUFFICES ASSUME BudgetInv, NEW k \in Keys PROVE used[k] <= Cap(k)
      BY DEF AdmittedWithinBudget
    <2> DEFINE gained == bucket[k].age * Rate(k)
    <2>1. /\ used[k] \in Nat /\ Cap(k) \in Nat /\ Rate(k) \in Nat
          /\ bucket[k].tokens \in Nat
          /\ used[k] # 0 => bucket[k].age \in Nat
          /\ used[k] # 0 => used[k] + (bucket[k].tokens + gained) <= Cap(k)
      BY KeysAreOK, RatesArePositive DEF KeyOK
    <2>2. used[k] # 0 => gained \in Nat
      BY <2>1
    <2> HIDE DEF gained
    <2> QED BY <2>1, <2>2
  <1> QED BY <1>1, BudgetInitial, BudgetStepKeeps, PTL DEF BudgetSpec

\* Type correctness of the rate limiter.
THEOREM BudgetTypeCorrect == BudgetSpec => []BudgetTypeOK
  <1>1. BudgetInv => BudgetTypeOK
    BY DEF BudgetInv
  <1> QED BY <1>1, BudgetInitial, BudgetStepKeeps, PTL DEF BudgetSpec

-----------------------------------------------------------------------------
(* The capture. Where each unit of a ring is, full or not, by the place it *)
(* is written at next and by what was written.                             *)

RingFilling(ring, place, written) ==
  /\ Len(ring) < Half /\ place = 0
  /\ (written <= Half /\ Len(ring) = 0) \/ written = Half + Len(ring)
  /\ \A i \in 1..Len(ring) : ring[i] = Half + i
At(i, place, written) ==
  IF i <= place THEN (written - place) + i ELSE (written - place - Half) + i
RingFull(ring, place, written) ==
  /\ Len(ring) = Half /\ place < Half /\ written >= Half + Half
  /\ \A i \in 1..Half : ring[i] = At(i, place, written)
RingOK(ring, place, written) ==
  RingFilling(ring, place, written) \/ RingFull(ring, place, written)

\* OrderedTail, of a ring and its place.
InOrder(ring, place) ==
  IF Len(ring) < Half THEN ring
  ELSE SubSeq(ring, place + 1, Len(ring)) \o SubSeq(ring, 1, place)

LEMMA HalfIsPositive == Half \in Nat /\ Half >= 1
  <1>1. MaxOutput \in Nat /\ MaxOutput >= 2
    BY CommandOutputAssumption
  <1> QED BY <1>1 DEF Half

LEMMA WrapsAround ==
  ASSUME NEW a \in Nat, NEW n \in Nat \ {0}, a <= n
  PROVE  a % n = IF a = n THEN 0 ELSE a
  BY Z3

\* The three ways in which a write leaves a ring.
LEMMA RingGrows ==
  ASSUME NEW S \in SUBSET Nat, NEW ring \in Seq(S), NEW place \in Nat, NEW written \in Nat,
         written + 1 \in S, RingOK(ring, place, written)
  PROVE  /\ written + 1 <= Half => RingOK(ring, place, written + 1)
         /\ written + 1 > Half /\ Len(ring) < Half =>
              /\ Append(ring, written + 1) \in Seq(S)
              /\ RingOK(Append(ring, written + 1), place, written + 1)
         /\ written + 1 > Half /\ ~(Len(ring) < Half) =>
              /\ [ring EXCEPT ![place + 1] = written + 1] \in Seq(S)
              /\ RingOK([ring EXCEPT ![place + 1] = written + 1],
                        (place + 1) % Half, written + 1)
              /\ (place + 1) % Half \in Nat
  <1>1. Half \in Nat /\ Half >= 1 /\ Len(ring) \in Nat /\ \A i \in 1..Len(ring) : ring[i] \in Nat
    BY HalfIsPositive, LenProperties, ElementOfSeq
  <1>2. ASSUME written + 1 <= Half PROVE RingOK(ring, place, written + 1)
    <2>1. RingFilling(ring, place, written)
      BY <1>1, <1>2 DEF RingOK, RingFull
    <2>2. RingFilling(ring, place, written + 1)
      BY <1>1, <1>2, <2>1 DEF RingFilling
    <2> QED BY <2>2 DEF RingOK
  <1>3. ASSUME written + 1 > Half, Len(ring) < Half
        PROVE  /\ Append(ring, written + 1) \in Seq(S)
               /\ RingOK(Append(ring, written + 1), place, written + 1)
    <2> DEFINE new == Append(ring, written + 1)
    <2>1. /\ new \in Seq(S) /\ Len(new) = Len(ring) + 1
          /\ \A i \in 1..Len(ring) : new[i] = ring[i]
          /\ new[Len(ring) + 1] = written + 1
      BY AppendProperties
    <2>2. /\ place = 0 /\ written = Half + Len(ring)
          /\ \A i \in 1..Len(ring) : ring[i] = Half + i
      BY <1>1, <1>3 DEF RingOK, RingFilling, RingFull
    <2> HIDE DEF new
    <2>3. \A i \in 1..Len(new) : new[i] = Half + i
      <3>1. \A i \in 1..Len(new) : i \in 1..Len(ring) \/ i = Len(ring) + 1
        BY <1>1, <2>1
      <3>2. new[Len(ring) + 1] = Half + (Len(ring) + 1)
        BY <1>1, <2>1, <2>2
      <3> QED BY <2>1, <2>2, <3>1, <3>2
    <2>4. ASSUME Len(new) < Half PROVE RingFilling(new, place, written + 1)
      BY <1>1, <2>1, <2>2, <2>3, <2>4 DEF RingFilling
    <2>5. ASSUME Len(new) = Half PROVE RingFull(new, place, written + 1)
      <3>1. written + 1 = Half + Half
        BY <1>1, <2>1, <2>2, <2>5
      <3>2. \A i \in 1..Half : new[i] = At(i, place, written + 1)
        <4> TAKE i \in 1..Half
        <4>1. ~(i <= place) /\ new[i] = (written + 1 - place - Half) + i
          BY <1>1, <2>2, <2>3, <2>5, <3>1
        <4>2. i \in Nat /\ place = 0 /\ written \in Nat /\ Half \in Nat
          BY <1>1, <2>2
        <4> QED BY <4>1, <4>2 DEF At
      <3>3. place < Half /\ written + 1 >= Half + Half
        BY <1>1, <2>2, <3>1
      <3> QED BY <2>5, <3>2, <3>3, Zenon DEF RingFull
    <2>6. RingOK(new, place, written + 1)
      <3>1. Len(new) < Half \/ Len(new) = Half
        BY <1>1, <1>3, <2>1
      <3> QED BY <2>4, <2>5, <3>1 DEF RingOK
    <2> QED BY <2>1, <2>6 DEF new
  <1>4. ASSUME written + 1 > Half, ~(Len(ring) < Half)
        PROVE  /\ [ring EXCEPT ![place + 1] = written + 1] \in Seq(S)
               /\ RingOK([ring EXCEPT ![place + 1] = written + 1],
                         (place + 1) % Half, written + 1)
               /\ (place + 1) % Half \in Nat
    <2> DEFINE new == [ring EXCEPT ![place + 1] = written + 1]
               next == (place + 1) % Half
    <2>1. /\ Len(ring) = Half /\ place < Half /\ written >= Half + Half
          /\ \A i \in 1..Half : ring[i] = At(i, place, written)
      BY <1>1, <1>4 DEF RingOK, RingFilling, RingFull
    <2>2. /\ new \in Seq(S) /\ Len(new) = Half
          /\ \A j \in 1..Half : new[j] = IF j = place + 1 THEN written + 1 ELSE ring[j]
      BY <1>1, <2>1, ExceptSeq
    <2>3. next = IF place + 1 = Half THEN 0 ELSE place + 1
      <3>1. place + 1 \in Nat /\ Half \in Nat \ {0} /\ place + 1 <= Half
        BY <1>1, <2>1
      <3> QED BY <3>1, WrapsAround
    <2> HIDE DEF new, next
    <2>4. ASSUME NEW i \in 1..Half
          PROVE  new[i] = At(i, next, written + 1)
      <3>1. i \in Nat /\ i <= Half /\ i >= 1
        BY <1>1
      <3>2. /\ new[i] = IF i = place + 1 THEN written + 1 ELSE ring[i]
            /\ ring[i] = At(i, place, written)
        BY <2>1, <2>2
      <3>3. CASE place + 1 = Half
        <4>1. next = 0
          BY <2>3, <3>3
        <4> QED BY <1>1, <3>1, <3>2, <3>3, <4>1 DEF At
      <3>4. CASE place + 1 # Half
        <4>1. next = place + 1
          BY <2>3, <3>4
        <4> QED BY <1>1, <3>1, <3>2, <4>1 DEF At
      <3> QED BY <3>3, <3>4
    <2>5. RingOK(new, next, written + 1) /\ next \in Nat
      <3>1. next < Half /\ next \in Nat /\ written + 1 >= Half + Half
        BY <1>1, <2>1, <2>3
      <3> QED BY <2>2, <2>4, <3>1, Zenon DEF RingOK, RingFull
    <2> QED BY <2>2, <2>5 DEF new, next
  <1> QED BY <1>2, <1>3, <1>4

\* Read in the order of OrderedTail, a ring holds the units written last.
LEMMA RingInOrder ==
  ASSUME NEW S \in SUBSET Nat, NEW ring \in Seq(S), NEW place \in Nat, NEW written \in Nat,
         RingOK(ring, place, written)
  PROVE  InOrder(ring, place) = [i \in 1..Len(ring) |-> (written - Len(ring)) + i]
  <1>1. /\ Half \in Nat /\ Half >= 1 /\ Len(ring) \in Nat
        /\ ring \in [1..Len(ring) -> S] /\ \A i \in 1..Len(ring) : ring[i] \in S
    BY HalfIsPositive, LenProperties, ElementOfSeq
  <1>2. CASE Len(ring) < Half
    <2>1. \A i \in 1..Len(ring) : ring[i] = (written - Len(ring)) + i
      <3>1. /\ (written <= Half /\ Len(ring) = 0) \/ written = Half + Len(ring)
            /\ \A i \in 1..Len(ring) : ring[i] = Half + i
        <4>1. RingFilling(ring, place, written)
          <5>1. Len(ring) # Half
            <6>1. Half \in Nat /\ Len(ring) \in Nat
              BY <1>1
            <6> QED BY <1>2, <6>1
          <5> QED BY <5>1, Zenon DEF RingOK, RingFull
        <4> QED BY <4>1 DEF RingFilling
      <3>2. CASE Len(ring) = 0
        BY <3>2
      <3>3. CASE written = Half + Len(ring)
        <4>1. written - Len(ring) = Half
          BY <1>1, <3>3
        <4> QED BY <3>1, <4>1
      <3> QED BY <3>1, <3>2, <3>3
    <2> QED BY <1>1, <1>2, <2>1 DEF InOrder
  <1>3. CASE ~(Len(ring) < Half)
    <2> DEFINE old == SubSeq(ring, place + 1, Len(ring))
               young == SubSeq(ring, 1, place)
    <2>1. /\ Len(ring) = Half /\ place < Half /\ written >= Half + Half
          /\ \A i \in 1..Half : ring[i] = At(i, place, written)
      BY <1>1, <1>3 DEF RingOK, RingFilling, RingFull
    <2>2. /\ old \in Seq(S) /\ Len(old) = Half - place
          /\ \A i \in 1..Half - place : old[i] = ring[place + i]
      <3>1. \A i \in place + 1..Len(ring) : ring[i] \in S
        BY <1>1
      <3>2. /\ old \in Seq(S)
            /\ Len(old) = IF place + 1 <= Len(ring) THEN Len(ring) - (place + 1) + 1 ELSE 0
            /\ \A i \in 1..Len(ring) - (place + 1) + 1 : old[i] = ring[place + 1 + i - 1]
        <4>1. place + 1 \in Int /\ Len(ring) \in Int
          BY <1>1
        <4> QED BY <3>1, <4>1, SubSeqProperties
      <3> HIDE DEF old
      <3>3. \A i \in 1..Half - place : place + 1 + i - 1 = place + i
        BY <1>1, <2>1
      <3> QED BY <1>1, <2>1, <3>2, <3>3
    <2>3. /\ young \in Seq(S) /\ Len(young) = place
          /\ \A i \in 1..place : young[i] = ring[i]
      <3>1. \A i \in 1..place : ring[i] \in S
        BY <1>1, <2>1
      <3>2. /\ young \in Seq(S) /\ Len(young) = IF 1 <= place THEN place - 1 + 1 ELSE 0
            /\ \A i \in 1..place - 1 + 1 : young[i] = ring[1 + i - 1]
        <4>1. 1 \in Int /\ place \in Int
          OBVIOUS
        <4> QED BY <3>1, <4>1, SubSeqProperties
      <3> HIDE DEF young
      <3>3. \A i \in 1..place : 1 + i - 1 = i
        OBVIOUS
      <3> QED BY <1>1, <2>1, <3>2, <3>3
    <2> HIDE DEF old, young
    <2>4. /\ old \o young \in Seq(S) /\ Len(old \o young) = Half
          /\ \A i \in 1..Half : (old \o young)[i] =
                IF i <= Half - place THEN old[i] ELSE young[i - (Half - place)]
      <3>1. /\ old \o young \in Seq(S) /\ Len(old \o young) = Len(old) + Len(young)
            /\ \A i \in 1..Len(old) + Len(young) : (old \o young)[i] =
                 IF i <= Len(old) THEN old[i] ELSE young[i - Len(old)]
        BY <2>2, <2>3, ConcatProperties
      <3>2. Len(old) + Len(young) = Half
        BY <1>1, <2>1, <2>2, <2>3
      <3> QED BY <2>2, <3>1, <3>2
    <2> DEFINE whole == old \o young
    <2>5. whole \in [1..Half -> S]
      BY <2>4, LenProperties
    <2> HIDE DEF whole
    <2>6. ASSUME NEW i \in 1..Half PROVE whole[i] = (written - Half) + i
      <3>1. CASE i <= Half - place
        <4>1. whole[i] = ring[place + i] /\ place + i \in 1..Half /\ ~(place + i <= place)
          BY <1>1, <2>1, <2>2, <2>4, <3>1 DEF whole
        <4>2. ring[place + i] = (written - place - Half) + (place + i)
          BY <2>1, <4>1 DEF At
        <4> QED BY <1>1, <2>1, <4>1, <4>2
      <3>2. CASE ~(i <= Half - place)
        <4> DEFINE j == i - (Half - place)
        <4>1. j \in 1..place /\ j \in 1..Half /\ j <= place
          BY <1>1, <2>1, <3>2
        <4>2. whole[i] = ring[j]
          BY <2>3, <2>4, <3>2, <4>1 DEF whole
        <4>3. ring[j] = (written - place) + j
          BY <2>1, <4>1 DEF At
        <4> QED BY <1>1, <2>1, <4>2, <4>3
      <3> QED BY <3>1, <3>2
    <2>7. whole = [i \in 1..Half |-> (written - Half) + i]
      BY <2>5, <2>6
    <2> QED BY <1>3, <2>1, <2>7 DEF whole, old, young, InOrder
  <1> QED BY <1>2, <1>3

CaptureInv ==
  /\ total \in [Streams -> Nat] /\ \A s \in Streams : total[s] <= LastUnit[s]
  /\ tail \in [Streams -> Seq(Units)] /\ tailPos \in [Streams -> Nat]
  /\ \A s \in Streams : RingOK(tail[s], tailPos[s], total[s])

LEMMA UnitFacts ==
  /\ Units \in SUBSET Nat
  /\ \A s \in Streams : LastUnit[s] \in Nat /\ \A u \in 1..LastUnit[s] : u \in Units
  <1>1. \A s \in Streams : LastUnit[s] \in Nat
    BY CommandOutputAssumption
  <1> QED BY <1>1 DEF Units

LEMMA CaptureKeeps ==
  ASSUME CaptureInv, NEW s \in Streams, WriteUnit(s) PROVE CaptureInv'
  <1> DEFINE unit == total[s] + 1
  <1>1. /\ total' = [total EXCEPT ![s] = unit] /\ Capture(s, unit)
        /\ total[s] \in Nat /\ total[s] < LastUnit[s] /\ LastUnit[s] \in Nat
    BY UnitFacts DEF WriteUnit, CaptureInv
  <1>2. unit \in Units /\ unit \in Nat /\ unit <= LastUnit[s]
    BY <1>1, UnitFacts
  <1>3. total' \in [Streams -> Nat] /\ \A r \in Streams : total'[r] <= LastUnit[r]
    BY <1>1, <1>2 DEF CaptureInv
  <1>4. /\ tail[s] \in Seq(Units) /\ tailPos[s] \in Nat
        /\ RingOK(tail[s], tailPos[s], total[s])
        /\ tail \in [Streams -> Seq(Units)] /\ tailPos \in [Streams -> Nat]
    BY DEF CaptureInv
  <1>5. /\ tail' \in [Streams -> Seq(Units)] /\ tailPos' \in [Streams -> Nat]
        /\ RingOK(tail'[s], tailPos'[s], unit)
        /\ \A r \in Streams \ {s} : tail'[r] = tail[r] /\ tailPos'[r] = tailPos[r]
    <2>1. CASE unit <= Half
      <3>1. RingOK(tail[s], tailPos[s], unit)
        BY <1>1, <1>2, <1>4, <2>1, UnitFacts, RingGrows
      <3> QED BY <1>1, <1>4, <2>1, <3>1 DEF Capture
    <2>2. CASE ~(unit <= Half) /\ Len(tail[s]) < Half
      <3> DEFINE new == Append(tail[s], unit)
      <3>1. new \in Seq(Units) /\ RingOK(new, tailPos[s], unit)
        <4>1. unit > Half
          BY <1>2, <2>2, HalfIsPositive
        <4> QED BY <1>1, <1>2, <1>4, <2>2, <4>1, UnitFacts, RingGrows
      <3>2. tail' = [tail EXCEPT ![s] = new] /\ tailPos' = tailPos
        BY <1>1, <2>2 DEF Capture
      <3> HIDE DEF new
      <3> QED BY <1>4, <3>1, <3>2
    <2>3. CASE ~(unit <= Half) /\ ~(Len(tail[s]) < Half)
      <3> DEFINE new == [tail[s] EXCEPT ![tailPos[s] + 1] = unit]
                 next == (tailPos[s] + 1) % Half
      <3>1. new \in Seq(Units) /\ next \in Nat /\ RingOK(new, next, unit)
        <4>1. unit > Half
          BY <1>2, <2>3, HalfIsPositive
        <4> QED BY <1>1, <1>2, <1>4, <2>3, <4>1, UnitFacts, RingGrows
      <3>2. tail' = [tail EXCEPT ![s] = new] /\ tailPos' = [tailPos EXCEPT ![s] = next]
        BY <1>1, <1>4, <2>3 DEF Capture
      <3> HIDE DEF new, next
      <3> QED BY <1>4, <3>1, <3>2
    <2> QED BY <2>1, <2>2, <2>3
  <1> HIDE DEF unit
  <1>6. ASSUME NEW r \in Streams PROVE RingOK(tail'[r], tailPos'[r], total'[r])
    <2>1. CASE r = s
      <3>1. total'[s] = unit
        BY <1>1 DEF CaptureInv
      <3> QED BY <1>5, <2>1, <3>1
    <2>2. CASE r # s
      <3>1. total'[r] = total[r]
        BY <1>1, <2>2 DEF CaptureInv
      <3>2. tail'[r] = tail[r] /\ tailPos'[r] = tailPos[r]
        BY <1>5, <2>2
      <3> QED BY <3>1, <3>2 DEF CaptureInv
    <2> QED BY <2>1, <2>2
  <1> QED BY <1>3, <1>5, <1>6 DEF CaptureInv

LEMMA CaptureInOrder == CaptureInv => CaptureIsHeadAndTail
  <1> SUFFICES ASSUME CaptureInv, NEW s \in Streams
      PROVE  OrderedTail(s) = [i \in 1..Len(tail[s]) |-> HeadLength(s) + Dropped(s) + i]
    BY DEF CaptureIsHeadAndTail
  <1>1. /\ tail[s] \in Seq(Units) /\ tailPos[s] \in Nat /\ total[s] \in Nat
        /\ RingOK(tail[s], tailPos[s], total[s]) /\ Len(tail[s]) \in Nat
    BY LenProperties DEF CaptureInv
  <1>2. HeadLength(s) + Dropped(s) = total[s] - Len(tail[s])
    <2>1. HeadLength(s) \in Nat
      BY <1>1, HalfIsPositive DEF HeadLength
    <2> QED BY <1>1, <2>1 DEF Dropped
  <1>3. OrderedTail(s) = [i \in 1..Len(tail[s]) |-> (total[s] - Len(tail[s])) + i]
    <2>1. OrderedTail(s) = InOrder(tail[s], tailPos[s])
      BY DEF OrderedTail, InOrder
    <2>2. Units \in SUBSET Nat
      BY UnitFacts
    <2>3. /\ tail[s] \in Seq(Units) /\ tailPos[s] \in Nat /\ total[s] \in Nat
          /\ RingOK(tail[s], tailPos[s], total[s])
      BY <1>1
    <2>4. InOrder(tail[s], tailPos[s])
            = [i \in 1..Len(tail[s]) |-> (total[s] - Len(tail[s])) + i]
      BY <2>2, <2>3, RingInOrder, Zenon
    <2> QED BY <2>1, <2>4, Zenon
  <1> QED BY <1>2, <1>3

-----------------------------------------------------------------------------
(* The chunks. The pieces that were taken from a buffer, published or in   *)
(* the hand of a goroutine, are behind what is in it, apart from each      *)
(* other, and together all that was taken.                                 *)

Apart(c, d) == c.stream = d.stream => c.to < d.from \/ d.to < c.from
Behind(c) == c.to < bufFrom[c.stream]

PiecesAreBehind ==
  /\ \A c \in sent : Behind(c.chunk)
  /\ \A g \in Goroutines : hand[g] # Empty => Behind(hand[g])
PiecesAreApart ==
  /\ \A c, d \in sent : c # d => Apart(c.chunk, d.chunk)
  /\ \A c \in sent, g \in Goroutines : hand[g] # Empty => Apart(c.chunk, hand[g])
  /\ \A g, h \in Goroutines : g # h /\ hand[g] # Empty /\ hand[h] # Empty =>
       Apart(hand[g], hand[h])
Contains(c, s, u) == c.stream = s /\ u \in c.from..c.to
NothingIsLost ==
  \A s \in Streams : \A u \in 1..bufFrom[s] - 1 : \E c \in Chunks : Contains(c, s, u)

PieceInv ==
  /\ bufFrom \in [Streams -> Nat]
  /\ \A s \in Streams : 1 <= bufFrom[s] /\ bufFrom[s] <= total[s] + 1
  /\ hand \in [Goroutines -> Chunk \cup {Empty}]
  /\ nextSeq \in Nat /\ sent \subseteq [seq : Nat, chunk : Chunk]
  /\ \A c \in sent : c.seq < nextSeq
  /\ PiecesAreBehind /\ PiecesAreApart /\ NothingIsLost

LifeInv ==
  /\ runStep \in {"running", "closing", "finished"} /\ emitterClosed \subseteq Streams
  /\ runStep = "running" => emitterClosed = {}
  /\ \A s \in emitterClosed : bufFrom[s] = total[s] + 1
  /\ runStep = "finished" => emitterClosed = Streams

LinesAreChunks ==
  \A l \in run.lines : (\E c \in sent : l = AsLine(c)) \/ (runStep = "finished" /\ l \in Fallback)
RunInv ==
  /\ run \in [known : BOOLEAN, finished : BOOLEAN, lines : SUBSET Line]
  /\ LinesAreChunks

OutputInv == CaptureInv /\ PieceInv /\ LifeInv /\ RunInv

LEMMA ChunkFacts ==
  ASSUME NEW c \in Chunk
  PROVE  /\ c # Empty /\ c.stream \in Streams /\ c.from \in Nat /\ c.to \in Nat
         /\ c.from \in Units /\ c.to \in Units
  <1>1. c.stream \in Streams /\ c.from \in Units /\ c.to \in Units
    BY DEF Chunk
  <1>2. c # Empty
    <2>1. "stream" \in DOMAIN c
      BY DEF Chunk
    <2>2. DOMAIN Empty = {}
      BY DEF Empty
    <2> QED BY <2>1, <2>2
  <1> QED BY <1>1, <1>2, UnitFacts

LEMMA PieceFacts ==
  ASSUME PieceInv
  PROVE  /\ \A c \in sent : c.chunk \in Chunk /\ c.seq \in Nat /\ c \in [seq : Nat, chunk : Chunk]
         /\ \A g \in Goroutines : hand[g] # Empty => hand[g] \in Chunk
         /\ Chunks \subseteq Chunk
  BY DEF PieceInv, Chunks

LEMMA OutputInitial == OutputInit => OutputInv
  <1> SUFFICES ASSUME OutputInit PROVE OutputInv
    OBVIOUS
  <1>1. CaptureInv
    <2>1. /\ total = [s \in Streams |-> 0] /\ tail = [s \in Streams |-> <<>>]
          /\ tailPos = [s \in Streams |-> 0]
      BY DEF OutputInit
    <2>2. <<>> \in Seq(Units) /\ Len(<<>>) = 0
      BY EmptySeq
    <2>3. RingFilling(<<>>, 0, 0)
      BY <2>2, HalfIsPositive DEF RingFilling
    <2> QED BY <2>1, <2>2, <2>3, UnitFacts DEF CaptureInv, RingOK
  <1>2. PieceInv
    <2>1. /\ total = [s \in Streams |-> 0] /\ bufFrom = [s \in Streams |-> 1]
          /\ hand = [g \in Goroutines |-> Empty] /\ nextSeq = 0 /\ sent = {}
      BY DEF OutputInit
    <2> QED BY <2>1 DEF PieceInv, PiecesAreBehind, PiecesAreApart, NothingIsLost
  <1>3. LifeInv
    BY DEF OutputInit, LifeInv
  <1>4. RunInv
    BY DEF OutputInit, NoRun, RunInv, LinesAreChunks
  <1> QED BY <1>1, <1>2, <1>3, <1>4 DEF OutputInv

LEMMA OutputWriteKeeps ==
  ASSUME OutputInv, NEW s \in Streams, WriteUnit(s) PROVE OutputInv'
  <1>1. /\ UNCHANGED <<bufFrom, emitterClosed, hand, runStep, nextSeq, sent, run>>
        /\ total' = [total EXCEPT ![s] = @ + 1] /\ runStep = "running"
        /\ total \in [Streams -> Nat]
    BY DEF WriteUnit, OutputInv, CaptureInv
  <1>2. CaptureInv'
    BY CaptureKeeps DEF OutputInv
  <1>3. PieceInv'
    <2>1. \A r \in Streams : total'[r] \in Nat /\ total[r] \in Nat /\ total'[r] >= total[r]
      BY <1>1
    <2>2. \A r \in Streams : 1 <= bufFrom'[r] /\ bufFrom'[r] <= total'[r] + 1
      BY <1>1, <2>1 DEF OutputInv, PieceInv
    <2>3. Chunks' = Chunks
      BY <1>1 DEF Chunks
    <2> QED BY <1>1, <2>2, <2>3 DEF OutputInv, PieceInv, PiecesAreBehind, PiecesAreApart,
               NothingIsLost, Behind
  <1>4. LifeInv'
    BY <1>1 DEF OutputInv, LifeInv
  <1>5. RunInv'
    BY <1>1 DEF OutputInv, RunInv, LinesAreChunks
  <1> QED BY <1>2, <1>3, <1>4, <1>5 DEF OutputInv

\* What is not about the pieces stays with them.
LEMMA CaptureStays ==
  ASSUME OutputInv, UNCHANGED captureVars
  PROVE  /\ CaptureInv' /\ Fallback' = Fallback
         /\ total' = total
  <1>1. UNCHANGED <<total, tail, tailPos>>
    BY DEF captureVars
  <1>2. CaptureInv'
    BY <1>1 DEF OutputInv, CaptureInv
  <1>3. Fallback' = Fallback
    BY <1>1 DEF Fallback, Captured, HeadLength
  <1> QED BY <1>1, <1>2, <1>3

LEMMA TakeBufferKeeps ==
  ASSUME OutputInv, NEW g \in Goroutines, NEW s \in Streams, TakeBuffer(g, s)
  PROVE  OutputInv'
  <1> DEFINE taken == [stream |-> s, from |-> bufFrom[s], to |-> total[s]]
  <1>1. PICK new : new = taken
    OBVIOUS
  <1>2. /\ UNCHANGED captureVars /\ UNCHANGED <<emitterClosed, runStep, nextSeq, sent, run>>
        /\ hand[g] = Empty /\ s \notin emitterClosed
        /\ hand' = [hand EXCEPT ![g] = new]
        /\ bufFrom' = [bufFrom EXCEPT ![s] = total[s] + 1]
    BY <1>1 DEF TakeBuffer
  <1>3. /\ total[s] \in Nat /\ bufFrom[s] \in Nat /\ 1 <= bufFrom[s] /\ bufFrom[s] <= total[s]
        /\ total[s] <= LastUnit[s]
        /\ new.stream = s /\ new.from = bufFrom[s] /\ new.to = total[s]
    <2>1. /\ total[s] \in Nat /\ bufFrom[s] \in Nat /\ 1 <= bufFrom[s]
          /\ total[s] <= LastUnit[s]
      BY DEF OutputInv, CaptureInv, PieceInv
    <2>2. total[s] + 1 - bufFrom[s] > 0
      BY DEF TakeBuffer, Buffered
    <2> QED BY <1>1, <2>1, <2>2
  <1>4. new \in Chunk /\ new # Empty
    <2>1. bufFrom[s] \in Units /\ total[s] \in Units
      BY <1>3, UnitFacts
    <2>2. new \in Chunk
      BY <1>1, <2>1 DEF Chunk
    <2> QED BY <2>2, ChunkFacts
  <1> HIDE DEF taken
  <1>5. CaptureInv' /\ Fallback' = Fallback /\ total' = total
    BY <1>2, CaptureStays
  <1>6. /\ bufFrom' \in [Streams -> Nat] /\ bufFrom'[s] = total[s] + 1
        /\ \A r \in Streams : /\ 1 <= bufFrom'[r] /\ bufFrom'[r] <= total'[r] + 1
                              /\ bufFrom[r] <= bufFrom'[r] /\ bufFrom[r] \in Nat
                              /\ bufFrom'[r] \in Nat
        /\ \A r \in Streams \ {s} : bufFrom'[r] = bufFrom[r]
    <2>1. /\ bufFrom' = [bufFrom EXCEPT ![s] = total[s] + 1] /\ bufFrom \in [Streams -> Nat]
          /\ \A r \in Streams : 1 <= bufFrom[r] /\ bufFrom[r] <= total[r] + 1
      BY <1>2 DEF OutputInv, PieceInv
    <2>2. /\ bufFrom' \in [Streams -> Nat] /\ bufFrom'[s] = total[s] + 1
          /\ \A r \in Streams \ {s} : bufFrom'[r] = bufFrom[r]
      BY <1>3, <2>1
    <2>3. ASSUME NEW r \in Streams
          PROVE  /\ 1 <= bufFrom'[r] /\ bufFrom'[r] <= total'[r] + 1
                 /\ bufFrom[r] <= bufFrom'[r] /\ bufFrom[r] \in Nat /\ bufFrom'[r] \in Nat
      <3>1. CASE r = s
        BY <1>3, <1>5, <2>1, <2>2, <3>1
      <3>2. CASE r # s
        BY <1>5, <2>1, <2>2, <3>2
      <3> QED BY <3>1, <3>2
    <2> QED BY <2>2, <2>3
  <1>7. /\ hand' \in [Goroutines -> Chunk \cup {Empty}] /\ hand'[g] = new
        /\ \A h \in Goroutines \ {g} : hand'[h] = hand[h]
    BY <1>2, <1>4 DEF OutputInv, PieceInv
  <1>8. \A c \in Chunk : Behind(c) => c.to < bufFrom'[c.stream] /\ Apart(c, new) /\ Apart(new, c)
    <2> TAKE c \in Chunk
    <2>1. c.to \in Nat /\ c.from \in Nat /\ c.stream \in Streams
      BY ChunkFacts
    <2>2. bufFrom[c.stream] \in Nat /\ bufFrom'[c.stream] \in Nat
          /\ bufFrom[c.stream] <= bufFrom'[c.stream]
      BY <1>6, <2>1
    <2> QED BY <1>3, <2>1, <2>2 DEF Behind, Apart
  <1>9. PiecesAreBehind'
    <2>1. \A c \in sent' : (Behind(c.chunk))'
      BY <1>2, <1>8, PieceFacts DEF OutputInv, PieceInv, PiecesAreBehind, Behind
    <2>2. \A h \in Goroutines \ {g} : hand'[h] # Empty => hand'[h].to < bufFrom'[hand'[h].stream]
      BY <1>7, <1>8, PieceFacts DEF OutputInv, PieceInv, PiecesAreBehind
    <2>3. hand'[g].to < bufFrom'[hand'[g].stream]
      BY <1>3, <1>6, <1>7
    <2> QED BY <2>1, <2>2, <2>3 DEF PiecesAreBehind, Behind
  <1>10. PiecesAreApart'
    <2>1. /\ \A c \in sent : Apart(c.chunk, new)
          /\ \A h \in Goroutines : hand[h] # Empty => Apart(hand[h], new) /\ Apart(new, hand[h])
      BY <1>8, PieceFacts DEF OutputInv, PieceInv, PiecesAreBehind
    <2>2. \A c, d \in sent' : c # d => Apart(c.chunk, d.chunk)
      BY <1>2 DEF OutputInv, PieceInv, PiecesAreApart
    <2>3. \A c \in sent', h \in Goroutines : hand'[h] # Empty => Apart(c.chunk, hand'[h])
      BY <1>2, <1>7, <2>1 DEF OutputInv, PieceInv, PiecesAreApart
    <2>4. \A h, k \in Goroutines : h # k /\ hand'[h] # Empty /\ hand'[k] # Empty =>
            Apart(hand'[h], hand'[k])
      BY <1>7, <2>1 DEF OutputInv, PieceInv, PiecesAreApart
    <2> QED BY <2>2, <2>3, <2>4 DEF PiecesAreApart, Apart
  <1>11. Chunks \subseteq Chunks' /\ new \in Chunks'
    BY <1>2, <1>4, <1>7 DEF Chunks
  <1>12. NothingIsLost'
    <2> SUFFICES ASSUME NEW r \in Streams, NEW u \in 1..bufFrom'[r] - 1
        PROVE  \E c \in Chunks' : Contains(c, r, u)
      BY DEF NothingIsLost, Contains
    <2>1. CASE u <= bufFrom[r] - 1
      <3>1. u \in 1..bufFrom[r] - 1
        BY <1>6, <2>1
      <3>2. PICK c \in Chunks : Contains(c, r, u)
        BY <3>1 DEF OutputInv, PieceInv, NothingIsLost
      <3> QED BY <1>11, <3>2
    <2>2. CASE ~(u <= bufFrom[r] - 1)
      <3>1. r = s
        BY <1>6, <2>2
      <3>2. Contains(new, r, u)
        BY <1>3, <1>6, <2>2, <3>1 DEF Contains
      <3> QED BY <1>11, <3>2
    <2> QED BY <2>1, <2>2
  <1>13. PieceInv'
    BY <1>2, <1>6, <1>7, <1>9, <1>10, <1>12 DEF OutputInv, PieceInv
  <1>14. LifeInv'
    BY <1>2, <1>5, <1>6 DEF OutputInv, LifeInv
  <1>15. RunInv'
    BY <1>2, <1>5 DEF OutputInv, RunInv, LinesAreChunks
  <1> QED BY <1>5, <1>13, <1>14, <1>15 DEF OutputInv

LEMMA HandOverKeeps ==
  ASSUME OutputInv, NEW g \in Goroutines, HandOver(g) PROVE OutputInv'
  <1>1. PICK new : new = [seq |-> nextSeq, chunk |-> hand[g]]
    OBVIOUS
  <1>2. /\ UNCHANGED captureVars /\ UNCHANGED <<bufFrom, emitterClosed, runStep, run>>
        /\ hand[g] # Empty /\ sent' = sent \cup {new} /\ nextSeq' = nextSeq + 1
        /\ hand' = [hand EXCEPT ![g] = Empty]
    BY <1>1 DEF HandOver
  <1>3. /\ hand[g] \in Chunk /\ nextSeq \in Nat
        /\ new \in [seq : Nat, chunk : Chunk] /\ new.chunk = hand[g] /\ new.seq = nextSeq
    <2>1. hand[g] \in Chunk /\ nextSeq \in Nat
      BY <1>2, PieceFacts DEF OutputInv, PieceInv
    <2> QED BY <1>1, <2>1
  <1>4. CaptureInv' /\ Fallback' = Fallback /\ total' = total
    BY <1>2, CaptureStays
  <1>5. /\ hand' \in [Goroutines -> Chunk \cup {Empty}] /\ hand'[g] = Empty
        /\ \A h \in Goroutines \ {g} : hand'[h] = hand[h]
    BY <1>2 DEF OutputInv, PieceInv
  <1>6. /\ nextSeq' \in Nat /\ sent' \subseteq [seq : Nat, chunk : Chunk]
        /\ \A c \in sent' : c.seq < nextSeq'
    <2>1. \A c \in sent : c.seq \in Nat /\ c.seq < nextSeq
      BY PieceFacts DEF OutputInv, PieceInv
    <2>2. sent' \subseteq [seq : Nat, chunk : Chunk]
      BY <1>2, <1>3 DEF OutputInv, PieceInv
    <2> QED BY <1>2, <1>3, <2>1, <2>2
  <1>7. PiecesAreBehind'
    BY <1>2, <1>3, <1>5 DEF OutputInv, PieceInv, PiecesAreBehind, Behind
  <1>8. PiecesAreApart'
    <2>1. \A c \in sent : Apart(c.chunk, new.chunk) /\ Apart(new.chunk, c.chunk)
      BY <1>2, <1>3 DEF OutputInv, PieceInv, PiecesAreApart, Apart
    <2>2. \A h \in Goroutines \ {g} : hand[h] # Empty => Apart(new.chunk, hand[h])
      BY <1>2, <1>3 DEF OutputInv, PieceInv, PiecesAreApart
    <2>3. \A c, d \in sent' : c # d => Apart(c.chunk, d.chunk)
      BY <1>2, <2>1 DEF OutputInv, PieceInv, PiecesAreApart
    <2>4. \A c \in sent', h \in Goroutines : hand'[h] # Empty => Apart(c.chunk, hand'[h])
      BY <1>2, <1>5, <2>2 DEF OutputInv, PieceInv, PiecesAreApart
    <2>5. \A h, k \in Goroutines : h # k /\ hand'[h] # Empty /\ hand'[k] # Empty =>
            Apart(hand'[h], hand'[k])
      BY <1>5 DEF OutputInv, PieceInv, PiecesAreApart
    <2> QED BY <2>3, <2>4, <2>5 DEF PiecesAreApart, Apart
  <1>9. Chunks \subseteq Chunks'
    <2> SUFFICES ASSUME NEW c \in Chunks PROVE c \in Chunks'
      OBVIOUS
    <2>1. CASE \E d \in sent : c = d.chunk
      BY <1>2, <2>1 DEF Chunks
    <2>2. CASE \E h \in Goroutines : hand[h] # Empty /\ c = hand[h]
      <3>1. PICK h \in Goroutines : hand[h] # Empty /\ c = hand[h]
        BY <2>2
      <3>2. CASE h = g
        <4>1. new \in sent' /\ c = new.chunk
          BY <1>2, <1>3, <3>1, <3>2
        <4> QED BY <4>1 DEF Chunks
      <3>3. CASE h # g
        <4>1. hand'[h] = c /\ c # Empty
          BY <1>5, <3>1, <3>3
        <4> QED BY <4>1 DEF Chunks
      <3> QED BY <3>2, <3>3
    <2> QED BY <2>1, <2>2 DEF Chunks
  <1>10. NothingIsLost'
    BY <1>2, <1>9 DEF OutputInv, PieceInv, NothingIsLost, Contains
  <1>11. PieceInv'
    BY <1>2, <1>4, <1>5, <1>6, <1>7, <1>8, <1>10 DEF OutputInv, PieceInv
  <1>12. LifeInv'
    BY <1>2, <1>4 DEF OutputInv, LifeInv
  <1>13. RunInv'
    BY <1>2, <1>4 DEF OutputInv, RunInv, LinesAreChunks
  <1> QED BY <1>4, <1>11, <1>12, <1>13 DEF OutputInv

\* A step that moves no piece.
LEMMA PiecesStay ==
  ASSUME OutputInv, UNCHANGED <<bufFrom, hand, nextSeq, sent>>, total' = total
  PROVE  PieceInv'
  <1>1. Chunks' = Chunks
    BY DEF Chunks
  <1> QED BY <1>1 DEF OutputInv, PieceInv, PiecesAreBehind, PiecesAreApart,
             NothingIsLost, Behind

LEMMA RunStepsKeep ==
  ASSUME OutputInv,
         ProcessEnds \/ FinishRun \/ \E s \in Streams : CloseEmitter(s)
  PROVE  OutputInv'
  <1>1. UNCHANGED captureVars /\ UNCHANGED <<bufFrom, hand, nextSeq, sent, run>>
    BY DEF ProcessEnds, FinishRun, CloseEmitter
  <1>2. CaptureInv' /\ Fallback' = Fallback /\ total' = total
    BY <1>1, CaptureStays
  <1>3. PieceInv'
    BY <1>1, <1>2, PiecesStay
  <1>4. LifeInv'
    <2>1. CASE ProcessEnds
      BY <1>1, <1>2, <2>1 DEF ProcessEnds, OutputInv, LifeInv
    <2>2. CASE FinishRun
      BY <1>1, <1>2, <2>2 DEF FinishRun, OutputInv, LifeInv
    <2>3. ASSUME NEW s \in Streams, CloseEmitter(s) PROVE LifeInv'
      <3>1. bufFrom[s] = total[s] + 1
        <4>1. bufFrom[s] \in Nat /\ total[s] \in Nat /\ total[s] + 1 - bufFrom[s] = 0
          BY <2>3 DEF CloseEmitter, Buffered, OutputInv, PieceInv, CaptureInv
        <4> QED BY <4>1
      <3> QED BY <1>1, <1>2, <2>3, <3>1 DEF CloseEmitter, OutputInv, LifeInv
    <2> QED BY <2>1, <2>2, <2>3
  <1>5. RunInv'
    <2>1. runStep = "finished" => runStep' = "finished"
      BY DEF ProcessEnds, FinishRun, CloseEmitter
    <2> QED BY <1>1, <1>2, <2>1 DEF OutputInv, RunInv, LinesAreChunks
  <1> QED BY <1>2, <1>3, <1>4, <1>5 DEF OutputInv

LEMMA FallbackFacts ==
  ASSUME OutputInv PROVE Fallback \subseteq Line
  <1> SUFFICES ASSUME NEW s \in Streams
      PROVE  [seq |-> Position(s), stream |-> s, units |-> Captured(s)] \in Line
    BY DEF Fallback
  <1>1. Position(s) \in Nat
    BY DEF Position
  <1>2. Captured(s) \subseteq Units
    <2>1. \A u \in 1..HeadLength(s) : u \in 1..LastUnit[s]
      BY HalfIsPositive, UnitFacts DEF HeadLength, OutputInv, CaptureInv
    <2>2. \A i \in 1..Len(tail[s]) : tail[s][i] \in Units
      BY ElementOfSeq DEF OutputInv, CaptureInv
    <2> QED BY <2>1, <2>2, UnitFacts DEF Captured
  <1> QED BY <1>1, <1>2 DEF Line

LEMMA AsLineFacts ==
  ASSUME OutputInv, NEW c \in sent PROVE AsLine(c) \in Line
  <1>1. c.seq \in Nat /\ c.chunk \in Chunk
    BY PieceFacts DEF OutputInv
  <1>2. /\ c.chunk.stream \in Streams /\ c.chunk.from \in Units /\ c.chunk.to \in Units
        /\ c.chunk.from \in Nat /\ c.chunk.to \in Nat
    BY <1>1, ChunkFacts
  <1>3. c.chunk.from..c.chunk.to \subseteq Units
    <2>1. PICK r \in Streams : c.chunk.to \in 1..LastUnit[r]
      BY <1>2 DEF Units
    <2>2. PICK q \in Streams : c.chunk.from \in 1..LastUnit[q]
      BY <1>2 DEF Units
    <2>3. \A u \in c.chunk.from..c.chunk.to : u \in 1..LastUnit[r]
      BY <1>2, <2>1, <2>2, UnitFacts
    <2> QED BY <2>3, UnitFacts
  <1> QED BY <1>1, <1>2, <1>3 DEF AsLine, Line

LEMMA ReducerKeeps ==
  ASSUME OutputInv, OnAccepted \/ OnResult \/ \E c \in sent : OnChunk(c)
  PROVE  OutputInv'
  <1>1. /\ UNCHANGED captureVars
        /\ UNCHANGED <<bufFrom, emitterClosed, hand, runStep, nextSeq, sent>>
    BY DEF OnAccepted, OnResult, OnChunk, View
  <1>2. CaptureInv' /\ Fallback' = Fallback /\ total' = total
    BY <1>1, CaptureStays
  <1>3. PieceInv'
    BY <1>1, <1>2, PiecesStay
  <1>4. LifeInv'
    BY <1>1, <1>2 DEF OutputInv, LifeInv
  <1>5. /\ run \in [known : BOOLEAN, finished : BOOLEAN, lines : SUBSET Line]
        /\ run.lines \subseteq Line
    BY DEF OutputInv, RunInv
  <1>6. PICK lines \in SUBSET Line :
          /\ run' \in [known : BOOLEAN, finished : BOOLEAN, lines : SUBSET Line]
          /\ run'.lines = lines
          /\ \A l \in lines : \/ l \in run.lines \/ \E c \in sent : l = AsLine(c)
                              \/ (runStep = "finished" /\ l \in Fallback)
    <2>1. CASE OnAccepted
      <3>1. run' = [known |-> TRUE, finished |-> FALSE, lines |-> run.lines]
        BY <2>1 DEF OnAccepted, View
      <3> QED BY <1>5, <3>1
    <2>2. CASE OnResult
      <3>1. PICK lines \in SUBSET Line :
              /\ lines = IF run.lines = {} THEN Fallback ELSE run.lines
              /\ run' = [known |-> TRUE, finished |-> TRUE, lines |-> lines]
              /\ runStep = "finished"
        BY <1>5, <2>2, FallbackFacts DEF OnResult, View
      <3> QED BY <3>1
    <2>3. ASSUME NEW c \in sent, OnChunk(c)
          PROVE  \E lines \in SUBSET Line :
                   /\ run' \in [known : BOOLEAN, finished : BOOLEAN, lines : SUBSET Line]
                   /\ run'.lines = lines
                   /\ \A l \in lines : \/ l \in run.lines \/ \E d \in sent : l = AsLine(d)
                                       \/ (runStep = "finished" /\ l \in Fallback)
      <3>1. PICK lines \in SUBSET Line : lines = run.lines \cup {AsLine(c)}
        BY <1>5, AsLineFacts
      <3>2. run' = [known |-> TRUE, finished |-> run.finished, lines |-> lines]
        <4>1. run' = [run EXCEPT !.known = TRUE, !.lines = lines]
          BY <2>3, <3>1 DEF OnChunk, View
        <4> QED BY <1>5, <4>1
      <3>3. run.finished \in BOOLEAN
        BY <1>5, Zenon
      <3>4. run' \in [known : BOOLEAN, finished : BOOLEAN, lines : SUBSET Line]
        BY <3>2, <3>3
      <3>5. run'.lines = lines
        BY <3>2
      <3> QED BY <3>1, <3>4, <3>5
    <2> QED BY <2>1, <2>2, <2>3
  <1>7. RunInv'
    <2>1. LinesAreChunks'
      <3>1. \A l \in run'.lines : \/ \E c \in sent : l = AsLine(c)
                                  \/ (runStep = "finished" /\ l \in Fallback)
        BY <1>6 DEF OutputInv, RunInv, LinesAreChunks
      <3> QED BY <1>1, <1>2, <3>1 DEF LinesAreChunks
    <2> QED BY <1>6, <2>1 DEF RunInv
  <1> QED BY <1>2, <1>3, <1>4, <1>7 DEF OutputInv

LEMMA OutputStepKeeps == OutputInv /\ [OutputNext]_outputVars => OutputInv'
  <1> SUFFICES ASSUME OutputInv, [OutputNext]_outputVars PROVE OutputInv'
    OBVIOUS
  <1>1. CASE UNCHANGED outputVars
    <2>1. UNCHANGED captureVars
          /\ UNCHANGED <<bufFrom, emitterClosed, hand, runStep, nextSeq, sent, run>>
      BY <1>1 DEF outputVars, captureVars
    <2>2. CaptureInv' /\ Fallback' = Fallback /\ total' = total
      BY <2>1, CaptureStays
    <2>3. PieceInv'
      BY <2>1, <2>2, PiecesStay
    <2>4. LifeInv' /\ RunInv'
      BY <2>1, <2>2 DEF OutputInv, LifeInv, RunInv, LinesAreChunks
    <2> QED BY <2>2, <2>3, <2>4 DEF OutputInv
  <1>2. ASSUME NEW s \in Streams,
               FlushFull(s) \/ TakeBuffer("ticker", s) \/ FlushAtClose(s)
        PROVE  OutputInv'
    <2>1. \E g \in Goroutines : TakeBuffer(g, s)
      BY <1>2 DEF FlushFull, FlushAtClose, Goroutines
    <2> QED BY <2>1, TakeBufferKeeps
  <1> QED BY <1>1, <1>2, OutputWriteKeeps, HandOverKeeps, RunStepsKeep, ReducerKeeps DEF OutputNext

LEMMA UnitsAreOnce == OutputInv => EveryUnitOnce
  <1> SUFFICES ASSUME OutputInv, NEW s \in Streams
      PROVE  /\ \A u \in 1..total[s] :
                  Cardinality({c \in Chunks : c.stream = s /\ u \in c.from..c.to})
                    = (IF u < bufFrom[s] THEN 1 ELSE 0)
             /\ runStep = "finished" => Buffered(s) = 0
             /\ \A k, l \in run.lines : k # l /\ k.stream = s /\ l.stream = s
                  => k.units \cap l.units = {} \/ {k, l} \cap Fallback # {}
    BY DEF EveryUnitOnce
  <1>1. /\ bufFrom[s] \in Nat /\ total[s] \in Nat /\ PieceInv
        /\ \A c \in Chunks : c \in Chunk /\ Behind(c)
    BY PieceFacts DEF OutputInv, PieceInv, CaptureInv, PiecesAreBehind, Chunks
  <1>2. ASSUME NEW u \in 1..total[s]
        PROVE  Cardinality({c \in Chunks : c.stream = s /\ u \in c.from..c.to})
                 = (IF u < bufFrom[s] THEN 1 ELSE 0)
    <2> DEFINE holders == {c \in Chunks : c.stream = s /\ u \in c.from..c.to}
    <2>1. CASE u < bufFrom[s]
      <3>1. PICK c \in Chunks : c.stream = s /\ u \in c.from..c.to
        <4>1. u \in 1..bufFrom[s] - 1
          BY <1>1, <2>1
        <4> QED BY <1>1, <4>1 DEF PieceInv, NothingIsLost, Contains
      <3>2. ASSUME NEW d \in Chunks, d.stream = s, u \in d.from..d.to PROVE d = c
        <4>1. ~Apart(c, d) /\ ~Apart(d, c)
          <5>1. c.from \in Nat /\ c.to \in Nat /\ d.from \in Nat /\ d.to \in Nat
            BY <1>1, ChunkFacts
          <5> QED BY <3>1, <3>2, <5>1 DEF Apart
        <4> QED BY <1>1, <4>1 DEF Chunks, PieceInv, PiecesAreApart
      <3>3. holders = {c}
        BY <3>1, <3>2
      <3> HIDE DEF holders
      <3>4. Cardinality(holders) = 1
        BY <3>3, FS_Singleton
      <3> QED BY <2>1, <3>4 DEF holders
    <2>2. CASE ~(u < bufFrom[s])
      <3>1. holders = {}
        <4> SUFFICES ASSUME NEW c \in Chunks, c.stream = s, u \in c.from..c.to PROVE FALSE
          OBVIOUS
        <4>1. c.from \in Nat /\ c.to \in Nat /\ c.to < bufFrom[s]
          BY <1>1, ChunkFacts DEF Behind
        <4> QED BY <1>1, <2>2, <4>1
      <3> HIDE DEF holders
      <3>2. Cardinality(holders) = 0
        BY <3>1, FS_EmptySet
      <3> QED BY <2>2, <3>2 DEF holders
    <2> QED BY <2>1, <2>2
  <1>3. runStep = "finished" => Buffered(s) = 0
    BY <1>1 DEF OutputInv, LifeInv, Buffered
  <1>4. ASSUME NEW k \in run.lines, NEW l \in run.lines, k # l, k.stream = s, l.stream = s,
               k \notin Fallback, l \notin Fallback
        PROVE  k.units \cap l.units = {}
    <2>1. PICK c \in sent : k = AsLine(c)
      BY <1>4 DEF OutputInv, RunInv, LinesAreChunks
    <2>2. PICK d \in sent : l = AsLine(d)
      BY <1>4 DEF OutputInv, RunInv, LinesAreChunks
    <2>3. /\ Apart(c.chunk, d.chunk) /\ c.chunk.stream = s /\ d.chunk.stream = s
          /\ k.units = c.chunk.from..c.chunk.to /\ l.units = d.chunk.from..d.chunk.to
      BY <1>1, <1>4, <2>1, <2>2 DEF AsLine, PieceInv, PiecesAreApart
    <2>4. c.chunk \in Chunk /\ d.chunk \in Chunk
      BY <1>1, PieceFacts
    <2>5. /\ c.chunk.from \in Nat /\ c.chunk.to \in Nat
          /\ d.chunk.from \in Nat /\ d.chunk.to \in Nat
      BY <2>4, ChunkFacts
    <2> QED BY <2>3, <2>5 DEF Apart
  <1> QED BY <1>2, <1>3, <1>4

LEMMA OutputIsTyped == OutputInv => OutputTypeOK
  <1> SUFFICES ASSUME OutputInv PROVE OutputTypeOK
    OBVIOUS
  <1>1. ASSUME NEW s \in Streams
        PROVE  /\ total[s] \in 0..LastUnit[s] /\ bufFrom[s] \in 1..LastUnit[s] + 1
               /\ tail[s] \in Seq(Units) /\ Len(tail[s]) <= Half /\ tailPos[s] \in 0..Half
    <2>1. /\ total[s] \in Nat /\ total[s] <= LastUnit[s] /\ LastUnit[s] \in Nat
          /\ bufFrom[s] \in Nat /\ 1 <= bufFrom[s] /\ bufFrom[s] <= total[s] + 1
          /\ tail[s] \in Seq(Units) /\ tailPos[s] \in Nat
          /\ RingOK(tail[s], tailPos[s], total[s])
      BY UnitFacts DEF OutputInv, CaptureInv, PieceInv
    <2>2. Len(tail[s]) <= Half /\ tailPos[s] <= Half
      <3>1. Len(tail[s]) \in Nat /\ Half \in Nat
        BY <2>1, LenProperties, HalfIsPositive
      <3> QED BY <2>1, <3>1 DEF RingOK, RingFilling, RingFull
    <2> QED BY <2>1, <2>2, HalfIsPositive
  <1>2. tailPos \in [Streams -> 0..Half]
    BY <1>1 DEF OutputInv, CaptureInv
  <1>3. \A c \in sent : c.seq < nextSeq /\ c.chunk \in Chunk
    BY PieceFacts DEF OutputInv, PieceInv
  <1>4. run.known \in BOOLEAN /\ run.finished \in BOOLEAN
    BY Zenon DEF OutputInv, RunInv
  <1>5. run.lines \subseteq Line
    BY DEF OutputInv, RunInv
  <1> QED BY <1>1, <1>2, <1>3, <1>4, <1>5 DEF OutputTypeOK, OutputInv, PieceInv, LifeInv

\* Whatever the sizes of the chunks and however the copiers, the ticker, Close and
\* Run interleave, what a command writes is in one chunk, none is left in a
\* buffer at its end, and no delivery of the events shows a unit twice
\* (chunkEmitter, the sink of the dispatcher, event-stream.tsx).
THEOREM UnitsAreShownOnce == OutputSpec => []EveryUnitOnce
  <1> QED BY UnitsAreOnce, OutputInitial, OutputStepKeeps, PTL DEF OutputSpec

\* For every max_output_bytes of at least two the capture is the first half and the
\* last half of what was written, in order, and counts what it drops (capWriter).
THEOREM CaptureIsFaithful == OutputSpec => []CaptureIsHeadAndTail
  <1>1. OutputInv => CaptureIsHeadAndTail
    BY CaptureInOrder DEF OutputInv
  <1> QED BY <1>1, OutputInitial, OutputStepKeeps, PTL DEF OutputSpec

\* Type correctness of the output.
THEOREM OutputTypeCorrect == OutputSpec => []OutputTypeOK
  <1> QED BY OutputIsTyped, OutputInitial, OutputStepKeeps, PTL DEF OutputSpec

-----------------------------------------------------------------------------
(* The config file. A call of Save that is alone knows what has the name   *)
(* of its temporary file, and renames nothing that is not synced.          *)

AloneIn(s) == \A k, l \in Savers : s[k].step # "idle" /\ s[l].step # "idle" => k = l
NameIsWhole == configName # NoFile => content[configName] = "synced" /\ configName # tmpName
CallKnowsItsFile(s, k) ==
  /\ s[k].step \in {"write", "sync", "close"} => s[k].file = tmpName /\ tmpName \in Inodes
  /\ s[k].step = "close" => content[tmpName] = "synced"
  /\ s[k].step = "rename" => tmpName = NoFile \/ content[tmpName] = "synced"

ConfigInv ==
  /\ ConfigTypeOK
  /\ ~overlapped => /\ AloneIn(saver) /\ NameIsWhole
                    /\ \A k \in Savers : CallKnowsItsFile(saver, k)

SaverType == [step : SaveSteps \cup {"idle"}, file : Files]

LEMMA ConfigInitial == ConfigInit => ConfigInv
  <1> SUFFICES ASSUME ConfigInit PROVE ConfigInv
    OBVIOUS
  <1>1. overlapped \in BOOLEAN
    BY Zenon DEF ConfigInit
  <1>2. ConfigTypeOK
    BY <1>1, ConfigAssumption DEF ConfigInit, ConfigTypeOK, NotSaving, Files
  <1>3. AloneIn(saver) /\ NameIsWhole /\ \A k \in Savers : CallKnowsItsFile(saver, k)
    BY DEF ConfigInit, NotSaving, AloneIn, NameIsWhole, CallKnowsItsFile
  <1> QED BY <1>2, <1>3 DEF ConfigInv

\* How a call that goes on, or ends, shows in the calls.
LEMMA SaverMoves ==
  ASSUME ConfigTypeOK, NEW k \in Savers, NEW step \in SaveSteps \cup {"idle"},
         NEW file \in Files,
         \/ saver' = [saver EXCEPT ![k] = [step |-> step, file |-> file]]
         \/ saver' = [saver EXCEPT ![k].step = step] /\ file = saver[k].file
  PROVE  /\ saver' \in [Savers -> SaverType]
         /\ saver'[k].step = step /\ saver'[k].file = file
         /\ \A l \in Savers \ {k} : saver'[l] = saver[l]
  <1>1. saver \in [Savers -> SaverType] /\ saver[k] \in SaverType
    BY DEF ConfigTypeOK, SaverType
  <1>2. saver' = [saver EXCEPT ![k] = [step |-> step, file |-> file]]
    <2>1. CASE saver' = [saver EXCEPT ![k].step = step] /\ file = saver[k].file
      <3>1. [saver[k] EXCEPT !.step = step] = [step |-> step, file |-> file]
        BY <1>1, <2>1 DEF SaverType
      <3> QED BY <1>1, <2>1, <3>1
    <2> QED BY <2>1
  <1>3. [step |-> step, file |-> file] \in SaverType
    BY DEF SaverType
  <1> QED BY <1>1, <1>2, <1>3

\* A step of a call that was alone, of which the call it leads to is right.
LEMMA CallKeeps ==
  ASSUME ConfigInv, NEW k \in Savers, NEW step \in SaveSteps \cup {"idle"}, NEW file \in Files,
         saver[k].step # "idle",
         \/ saver' = [saver EXCEPT ![k] = [step |-> step, file |-> file]]
         \/ saver' = [saver EXCEPT ![k].step = step] /\ file = saver[k].file,
         configName' \in Files, tmpName' \in Files,
         content' \in [Inodes -> {"empty", "written", "synced"}],
         UNCHANGED <<daemon, configCrashes, overlapped>>,
         ~overlapped => NameIsWhole',
         ~overlapped => /\ step \in {"write", "sync", "close"} =>
                             file = tmpName' /\ tmpName' \in Inodes
                        /\ step = "close" => content'[tmpName'] = "synced"
                        /\ step = "rename" => tmpName' = NoFile \/ content'[tmpName'] = "synced"
  PROVE  ConfigInv'
  <1>1. /\ saver' \in [Savers -> SaverType]
        /\ saver'[k].step = step /\ saver'[k].file = file
        /\ \A l \in Savers \ {k} : saver'[l] = saver[l]
    BY SaverMoves DEF ConfigInv
  <1>2. ConfigTypeOK'
    <2>1. overlapped' \in BOOLEAN
      BY Zenon DEF ConfigInv, ConfigTypeOK
    <2> QED BY <1>1, <2>1 DEF ConfigInv, ConfigTypeOK, SaverType
  <1>3. ASSUME ~overlapped
        PROVE  AloneIn(saver)' /\ \A l \in Savers : CallKnowsItsFile(saver, l)'
    <2>1. \A l \in Savers \ {k} : saver'[l].step = "idle"
      BY <1>1, <1>3 DEF ConfigInv, AloneIn
    <2>2. \A l \in Savers \ {k} : CallKnowsItsFile(saver, l)'
      BY <2>1 DEF CallKnowsItsFile
    <2>3. CallKnowsItsFile(saver, k)'
      BY <1>1, <1>3 DEF CallKnowsItsFile
    <2> QED BY <2>1, <2>2, <2>3 DEF AloneIn
  <1> QED BY <1>2, <1>3 DEF ConfigInv

\* What the invariant says of the call whose step it is.
LEMMA CallFacts ==
  ASSUME ConfigInv, NEW k \in Savers
  PROVE  /\ configName \in Files /\ tmpName \in Files /\ NoFile \in Files /\ NoFile \notin Inodes
         /\ Inodes \subseteq Files /\ Files \subseteq Inodes \cup {NoFile}
         /\ content \in [Inodes -> {"empty", "written", "synced"}]
         /\ saver[k].step \in SaveSteps \cup {"idle"} /\ saver[k].file \in Files
         /\ ~overlapped => NameIsWhole /\ CallKnowsItsFile(saver, k)
         /\ \A s \in {"open", "remove", "reopen", "write", "sync", "close", "rename", "idle"} :
              s \in SaveSteps \cup {"idle"}
  BY ConfigAssumption DEF ConfigInv, ConfigTypeOK, Files, SaveSteps

LEMMA CreateTmpKeeps ==
  ASSUME ConfigInv, NEW k \in Savers, saver[k].step # "idle", CreateTmp(k),
         UNCHANGED <<configName, daemon, configCrashes, overlapped>>
  PROVE  ConfigInv'
  <1>1. PICK i \in Inodes :
          /\ i # configName /\ tmpName' = i
          /\ content' = [content EXCEPT ![i] = "empty"]
          /\ saver' = [saver EXCEPT ![k] = [step |-> "write", file |-> i]]
    BY DEF CreateTmp, Free
  <1>2. /\ i \in Files /\ configName' \in Files
        /\ content' \in [Inodes -> {"empty", "written", "synced"}]
        /\ "write" \in SaveSteps \cup {"idle"}
    BY <1>1, CallFacts
  <1>3. ~overlapped => NameIsWhole'
    BY <1>1, CallFacts DEF NameIsWhole
  <1> QED BY <1>1, <1>2, <1>3, CallKeeps

LEMMA TmpGoesKeeps ==
  ASSUME ConfigInv, NEW k \in Savers, NEW step \in {"remove", "reopen", "idle"},
         saver[k].step # "idle", tmpName' \in {tmpName, NoFile},
         SaverGoes(k, step) \/ (step = "idle" /\ SaverEnds(k)),
         UNCHANGED <<configName, content, daemon, configCrashes, overlapped>>
  PROVE  ConfigInv'
  <1>1. PICK file \in Files :
          \/ saver' = [saver EXCEPT ![k] = [step |-> step, file |-> file]]
          \/ saver' = [saver EXCEPT ![k].step = step] /\ file = saver[k].file
    BY CallFacts DEF SaverGoes, SaverEnds, NotSaving
  <1>2. /\ step \in SaveSteps \cup {"idle"} /\ configName' \in Files /\ tmpName' \in Files
        /\ content' \in [Inodes -> {"empty", "written", "synced"}]
    BY CallFacts
  <1>3. ~overlapped => NameIsWhole'
    BY CallFacts DEF NameIsWhole
  <1> QED BY <1>1, <1>2, <1>3, CallKeeps

LEMMA OpeningKeeps ==
  ASSUME ConfigInv, NEW k \in Savers,
         OpenTmp(k) \/ RemoveLeftover(k) \/ ReopenTmp(k) \/ FailSave(k)
  PROVE  ConfigInv'
  <1>1. CASE OpenTmp(k)
    <2>1. saver[k].step # "idle"
      BY <1>1 DEF OpenTmp, SaverAt
    <2>2. CASE tmpName = NoFile
      BY <1>1, <2>1, <2>2, CreateTmpKeeps DEF OpenTmp
    <2>3. CASE tmpName # NoFile
      <3>1. SaverGoes(k, "remove") /\ tmpName' \in {tmpName, NoFile}
        BY <1>1, <2>3 DEF OpenTmp
      <3> QED BY <1>1, <2>1, <2>3, <3>1, TmpGoesKeeps DEF OpenTmp
    <2> QED BY <2>2, <2>3
  <1>2. CASE RemoveLeftover(k)
    <2>1. saver[k].step # "idle" /\ SaverGoes(k, "reopen") /\ tmpName' \in {tmpName, NoFile}
      BY <1>2 DEF RemoveLeftover, SaverAt
    <2> QED BY <1>2, <2>1, TmpGoesKeeps DEF RemoveLeftover
  <1>3. CASE ReopenTmp(k)
    <2>1. saver[k].step # "idle"
      BY <1>3 DEF ReopenTmp, SaverAt
    <2>2. CASE tmpName = NoFile
      BY <1>3, <2>1, <2>2, CreateTmpKeeps DEF ReopenTmp
    <2>3. CASE tmpName # NoFile
      <3>1. SaverEnds(k) /\ tmpName' \in {tmpName, NoFile}
        BY <1>3, <2>3 DEF ReopenTmp
      <3> QED BY <1>3, <2>1, <2>3, <3>1, TmpGoesKeeps DEF ReopenTmp
    <2> QED BY <2>2, <2>3
  <1>4. CASE FailSave(k)
    <2>1. saver[k].step # "idle" /\ SaverEnds(k) /\ tmpName' \in {tmpName, NoFile}
      BY <1>4 DEF FailSave
    <2> QED BY <1>4, <2>1, TmpGoesKeeps DEF FailSave
  <1> QED BY <1>1, <1>2, <1>3, <1>4

\* What a call writes goes into a file that does not bear the name.
LEMMA WritingKeeps ==
  ASSUME ConfigInv, NEW k \in Savers, WriteTmp(k) \/ SyncTmp(k)
  PROVE  ConfigInv'
  <1>1. PICK what \in {"written", "synced"}, step \in {"sync", "close"} :
          /\ content' = [content EXCEPT ![saver[k].file] = what]
          /\ saver' = [saver EXCEPT ![k].step = step]
          /\ step = "close" => what = "synced"
    BY DEF WriteTmp, SyncTmp, SaverGoes
  <1>2. /\ UNCHANGED <<configName, tmpName, daemon, configCrashes, overlapped>>
        /\ saver[k].step \in {"write", "sync", "close"}
    BY DEF WriteTmp, SyncTmp, SaverAt, nameVars
  <1>3. content' \in [Inodes -> {"empty", "written", "synced"}]
    BY <1>1, CallFacts
  <1>4. ~overlapped => /\ saver[k].file = tmpName /\ tmpName \in Inodes
                       /\ content'[tmpName] = what
    BY <1>1, <1>2, CallFacts DEF CallKnowsItsFile
  <1>5. ~overlapped => NameIsWhole'
    BY <1>1, <1>2, <1>4, CallFacts DEF NameIsWhole
  <1>6. /\ step \in SaveSteps \cup {"idle"} /\ saver[k].file \in Files
        /\ configName' \in Files /\ tmpName' \in Files /\ saver[k].step # "idle"
    BY <1>2, CallFacts
  <1> QED BY <1>1, <1>2, <1>3, <1>4, <1>5, <1>6, CallKeeps

LEMMA RenamingKeeps ==
  ASSUME ConfigInv, NEW k \in Savers, CloseTmp(k) \/ RenameTmp(k)
  PROVE  ConfigInv'
  <1>1. CASE CloseTmp(k)
    <2>1. /\ UNCHANGED <<configName, tmpName, content, daemon, configCrashes, overlapped>>
          /\ saver[k].step = "close"
          /\ saver' = [saver EXCEPT ![k] = [step |-> "rename", file |-> NoFile]]
      BY <1>1 DEF CloseTmp, SaverAt, nameVars
    <2>2. /\ "rename" \in SaveSteps \cup {"idle"} /\ NoFile \in Files
          /\ configName' \in Files /\ tmpName' \in Files
          /\ content' \in [Inodes -> {"empty", "written", "synced"}]
      BY <2>1, CallFacts
    <2>3. ~overlapped => NameIsWhole' /\ content'[tmpName'] = "synced"
      BY <2>1, CallFacts DEF NameIsWhole, CallKnowsItsFile
    <2> QED BY <2>1, <2>2, <2>3, CallKeeps
  <1>2. CASE RenameTmp(k)
    <2>1. /\ UNCHANGED <<content, daemon, configCrashes, overlapped>>
          /\ saver[k].step = "rename" /\ tmpName' = NoFile
          /\ configName' = IF tmpName = NoFile THEN configName ELSE tmpName
          /\ saver' = [saver EXCEPT ![k] = [step |-> "idle", file |-> NoFile]]
      BY <1>2 DEF RenameTmp, SaverAt, SaverEnds, NotSaving
    <2>2. /\ "idle" \in SaveSteps \cup {"idle"} /\ NoFile \in Files
          /\ configName' \in Files /\ tmpName' \in Files
          /\ content' \in [Inodes -> {"empty", "written", "synced"}]
      BY <2>1, CallFacts
    <2>3. ~overlapped => NameIsWhole'
      BY <2>1, CallFacts DEF NameIsWhole, CallKnowsItsFile
    <2> QED BY <2>1, <2>2, <2>3, CallKeeps
  <1> QED BY <1>1, <1>2

LEMMA StartSaveKeeps ==
  ASSUME ConfigInv, NEW k \in Savers, StartSave(k) PROVE ConfigInv'
  <1>1. /\ saver' = [saver EXCEPT ![k].step = "open"]
        /\ UNCHANGED <<configName, tmpName, content, daemon, configCrashes>>
        /\ ~overlapped' => ~overlapped /\ \A l \in Savers : saver[l].step = "idle"
    BY DEF StartSave, SaverGoes, Saving, nameVars
  <1>2. overlapped' \in BOOLEAN
    BY Zenon DEF StartSave
  <1>3. /\ saver' \in [Savers -> SaverType] /\ saver'[k].step = "open"
        /\ \A l \in Savers \ {k} : saver'[l] = saver[l]
    <2>1. "open" \in SaveSteps \cup {"idle"} /\ saver[k].file \in Files
      BY CallFacts
    <2> QED BY <1>1, <2>1, SaverMoves DEF ConfigInv
  <1>4. ConfigTypeOK'
    BY <1>1, <1>2, <1>3 DEF ConfigInv, ConfigTypeOK, SaverType
  <1>5. ASSUME ~overlapped'
        PROVE  /\ AloneIn(saver)' /\ NameIsWhole'
               /\ \A l \in Savers : CallKnowsItsFile(saver, l)'
    <2>1. ~overlapped /\ \A l \in Savers \ {k} : saver'[l].step = "idle"
      BY <1>1, <1>3, <1>5
    <2>2. NameIsWhole'
      BY <1>1, <2>1 DEF ConfigInv, NameIsWhole
    <2> QED BY <1>3, <2>1, <2>2 DEF AloneIn, CallKnowsItsFile
  <1> QED BY <1>4, <1>5 DEF ConfigInv

\* What a crash of the host loses was not synced, and no call is left.
LEMMA CrashConfigKeeps ==
  ASSUME ConfigInv, NEW lost \in SUBSET {i \in Inodes : content[i] = "written"},
         CrashConfig(lost)
  PROVE  ConfigInv'
  <1>1. /\ saver' = [k \in Savers |-> NotSaving]
        /\ content' = [i \in Inodes |-> IF i \in lost THEN "empty" ELSE content[i]]
        /\ UNCHANGED <<configName, tmpName, overlapped>>
        /\ daemon' = "off" /\ configCrashes' = configCrashes + 1
        /\ configCrashes < ConfigCrashLimit
    BY DEF CrashConfig, nameVars
  <1>2. ConfigTypeOK'
    <2>1. overlapped' \in BOOLEAN
      BY <1>1, Zenon DEF ConfigInv, ConfigTypeOK
    <2>2. content' \in [Inodes -> {"empty", "written", "synced"}]
      BY <1>1 DEF ConfigInv, ConfigTypeOK
    <2>3. saver' \in [Savers -> [step : SaveSteps \cup {"idle"}, file : Files]]
      BY <1>1 DEF NotSaving, Files
    <2>4. configCrashes' \in 0..ConfigCrashLimit
      BY <1>1, ConfigAssumption DEF ConfigInv, ConfigTypeOK
    <2> QED BY <1>1, <2>1, <2>2, <2>3, <2>4 DEF ConfigInv, ConfigTypeOK
  <1>3. ~overlapped => NameIsWhole'
    BY <1>1 DEF ConfigInv, ConfigTypeOK, Files, NameIsWhole
  <1>4. AloneIn(saver)' /\ \A k \in Savers : CallKnowsItsFile(saver, k)'
    BY <1>1 DEF AloneIn, CallKnowsItsFile, NotSaving
  <1> QED BY <1>1, <1>2, <1>3, <1>4 DEF ConfigInv

LEMMA StartDaemonKeeps == ConfigInv /\ StartDaemon => ConfigInv'
  <1> SUFFICES ASSUME ConfigInv, StartDaemon PROVE ConfigInv'
    OBVIOUS
  <1>1. /\ UNCHANGED <<configName, tmpName, content, saver, configCrashes, overlapped>>
        /\ daemon' \in {"off", "up", "stuck"}
    BY DEF StartDaemon, nameVars
  <1> QED BY <1>1 DEF ConfigInv, ConfigTypeOK, NameIsWhole, AloneIn, CallKnowsItsFile

LEMMA ConfigStepKeeps == ConfigInv /\ [ConfigNext]_configVars => ConfigInv'
  <1> SUFFICES ASSUME ConfigInv, [ConfigNext]_configVars PROVE ConfigInv'
    OBVIOUS
  <1>1. CASE UNCHANGED configVars
    BY <1>1 DEF configVars, ConfigInv, ConfigTypeOK, NameIsWhole, AloneIn, CallKnowsItsFile
  <1>2. ASSUME NEW k \in Savers, SaveStep(k) PROVE ConfigInv'
    BY <1>2, OpeningKeeps, WritingKeeps, RenamingKeeps DEF SaveStep
  <1> QED BY <1>1, <1>2, StartSaveKeeps, StartDaemonKeeps, CrashConfigKeeps DEF ConfigNext

\* However many calls of Save follow each other, fail, or die with the agent or
\* its host: as long as no two overlap, the config file is absent or whole (Save).
THEOREM ConfigIsWhole == ConfigSpec => []WholeUnlessOverlapped
  <1>1. ConfigInv => WholeUnlessOverlapped
    BY DEF ConfigInv, NameIsWhole, WholeUnlessOverlapped
  <1> QED BY <1>1, ConfigInitial, ConfigStepKeeps, PTL DEF ConfigSpec

\* Type correctness of the config file's model.
THEOREM ConfigTypeCorrect == ConfigSpec => []ConfigTypeOK
  <1>1. ConfigInv => ConfigTypeOK
    BY DEF ConfigInv
  <1> QED BY <1>1, ConfigInitial, ConfigStepKeeps, PTL DEF ConfigSpec
=============================================================================
