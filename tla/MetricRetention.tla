-------------------------- MODULE MetricRetention --------------------------
(***************************************************************************)
(* retention.service.ts: the hourly roll-up of raw metric samples and the  *)
(* pruning that follows it, next to handleStatus, which inserts samples.   *)
(* One device: every statement groups or joins by device. An aggregate is  *)
(* represented by the set of samples it was computed from, a sample by its *)
(* time; an hour has SlotsPerHour times. Passes may overlap (one runs at   *)
(* the start of the worker, one every hour) and may fail at any statement. *)
(***************************************************************************)
EXTENDS Naturals, FiniteSets

CONSTANTS
  Passes,
  SlotsPerHour,
  RawRetention,    \* METRICS_RAW_RETENTION_HOURS, in slots
  HourlyRetention, \* METRICS_HOURLY_RETENTION_DAYS, in slots
  LastSlot,        \* bound on the clock
  NoBucket

ASSUME RetentionAssumption ==
  /\ SlotsPerHour \in Nat \ {0} /\ LastSlot \in Nat
  /\ RawRetention \in Nat /\ HourlyRetention \in Nat
  /\ RawRetention >= SlotsPerHour

VARIABLES
  slotNow,
  arriving,     \* samples stamped by handleStatus and not inserted yet
  raw,          \* device_metrics
  hourly,       \* device_metrics_hourly: per hour the samples aggregated
  retentionPass \* per pass: the statement it is at, and its start

retentionVars == <<slotNow, arriving, raw, hourly, retentionPass>>

Times == 0..LastSlot
Hour(t) == t \div SlotsPerHour
Hours == 0..Hour(LastSlot)
\* Mutated: the age is not subtracted.
BeforeNow(now, age) == now

Before(now, age) == IF now >= age THEN now - age ELSE 0
Resting == [step |-> "idle", began |-> 0]

RetentionTypeOK ==
  /\ slotNow \in Times
  /\ arriving \subseteq Times /\ raw \subseteq Times
  /\ hourly \in [Hours -> (SUBSET Times) \cup {NoBucket}]
  /\ retentionPass \in
       [Passes -> [step : {"idle", "roll", "prune", "expire"}, began : Times]]

RetentionInit ==
  /\ slotNow = 0 /\ arriving = {} /\ raw = {}
  /\ hourly = [h \in Hours |-> NoBucket]
  /\ retentionPass = [p \in Passes |-> Resting]

\* handleStatus: recordedAt is taken before the insertion.
StampSample ==
  /\ slotNow \notin raw \cup arriving
  /\ arriving' = arriving \cup {slotNow}
  /\ UNCHANGED <<slotNow, raw, hourly, retentionPass>>

InsertSample(t) ==
  /\ arriving' = arriving \ {t}
  /\ raw' = raw \cup {t}
  /\ UNCHANGED <<slotNow, hourly, retentionPass>>

StartRetention(p) ==
  /\ retentionPass[p].step = "idle"
  /\ retentionPass' = [retentionPass EXCEPT ![p] =
                                   [step |-> "roll", began |-> slotNow]]
  /\ UNCHANGED <<slotNow, arriving, raw, hourly>>

Advance(p, from, to) ==
  /\ retentionPass[p].step = from
  /\ retentionPass' = [retentionPass EXCEPT ![p].step = to]

\* INSERT ... SELECT ... GROUP BY the hour, ON CONFLICT DO UPDATE: every hour
\* before the current one that has raw samples gets a bucket of just those.
Complete(h) == h < Hour(slotNow)
InHour(h) == {t \in raw : Hour(t) = h}

RollUp(p) ==
  /\ Advance(p, "roll", "prune")
  /\ hourly' = [h \in Hours |-> IF Complete(h) /\ InHour(h) # {}
                                THEN InHour(h) ELSE hourly[h]]
  /\ UNCHANGED <<slotNow, arriving, raw>>

PruneRaw(p) ==
  /\ Advance(p, "prune", "expire")
  /\ raw' = {t \in raw : ~ (/\ t < Before(retentionPass[p].began, RawRetention)
                            /\ hourly[Hour(t)] # NoBucket)}
  /\ UNCHANGED <<slotNow, arriving, hourly>>

PruneHourly(p) ==
  /\ Advance(p, "expire", "idle")
  /\ hourly' = [h \in Hours |->
       IF h * SlotsPerHour < Before(retentionPass[p].began, HourlyRetention)
       THEN NoBucket ELSE hourly[h]]
  /\ UNCHANGED <<slotNow, arriving, raw>>

\* A statement fails, or the worker goes down.
FailRetention(p) ==
  /\ retentionPass[p].step # "idle"
  /\ retentionPass' = [retentionPass EXCEPT ![p] = Resting]
  /\ UNCHANGED <<slotNow, arriving, raw, hourly>>

\* An insertion and a pass take less than an hour.
TickSlot ==
  /\ slotNow < LastSlot
  /\ \A t \in arriving : slotNow - t < SlotsPerHour - 1
  /\ \A p \in Passes : retentionPass[p].step # "idle" =>
       slotNow - retentionPass[p].began < SlotsPerHour - 1
  /\ slotNow' = slotNow + 1
  /\ UNCHANGED <<arriving, raw, hourly, retentionPass>>

RetentionNext ==
  \/ StampSample \/ (\E t \in arriving : InsertSample(t)) \/ TickSlot
  \/ \E p \in Passes :
       StartRetention(p) \/ RollUp(p) \/ PruneRaw(p) \/ PruneHourly(p)
       \/ FailRetention(p)

RetentionSpec == RetentionInit /\ [][RetentionNext]_retentionVars

-----------------------------------------------------------------------------
(* Properties.                                                             *)

\* retention.service.ts, "so a failed roll-up can never silently destroy data":
\* a raw sample is deleted only while the bucket of its hour aggregates it,
\* whichever passes failed or overlapped and whenever the sample was inserted.
\* Whether the bucket keeps it is another question (ReRunIsHarmless).
PrunedIsRolled ==
  [][\A t \in raw \ raw' :
       hourly[Hour(t)] # NoBucket /\ t \in hourly[Hour(t)]]_retentionVars

\* retention.service.ts, "upserting so a re-run is harmless": a roll-up that
\* writes a bucket again keeps the samples the bucket aggregates.
ReRunIsHarmless ==
  [][\A h \in Hours : hourly[h] # NoBucket /\ hourly'[h] # NoBucket
       => hourly[h] \subseteq hourly'[h]]_retentionVars
============================================================================
