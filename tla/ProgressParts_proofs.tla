------------------------ MODULE ProgressParts_proofs ------------------------
(***************************************************************************)
(* What is proved of alerts, and that the parts which ProgressParts puts   *)
(* side by side keep together what each keeps alone.                       *)
(***************************************************************************)
EXTENDS ProgressParts, Delivery_proofs

-----------------------------------------------------------------------------
(* Alerts. A row that says FIRING has been a breach for the minutes of the *)
(* rule. Of the row alone that is not inductive: an evaluation writes the  *)
(* state of the row it has read, which need not be the row there is.       *)

\* The rule is said to fire only when its device has been in breach, as far as the
\* evaluations have seen, for at least as long as the rule asks.
FiringHasLasted == state.state = "FIRING" => state.since # NoSince /\ state.since >= ForMinutes

EvaluationType ==
  [step : {"idle", "device", "state", "write", "fire", "resolve"},
   age : 0..PassMinutes, breached : BOOLEAN, row : StateType, gone : BOOLEAN]

LastingRow(row) == row \in StateType /\ (row.state = "FIRING" => row.since >= ForMinutes)

AlertsInv ==
  /\ breached \in BOOLEAN /\ clearing \in BOOLEAN
  /\ rule \in {"none", "enabled", "disabled", "deleted"}
  /\ changes \in 0..ChangeLimit /\ failures \in 0..FailLimit
  /\ LastingRow(state)
  /\ evaluation \in [Evaluations -> EvaluationType]
  /\ \A p \in Evaluations : LastingRow(evaluation[p].row)

LEMMA AlertBounds ==
  /\ ForMinutes \in Nat /\ PassMinutes \in Nat /\ ChangeLimit \in Nat /\ FailLimit \in Nat
  /\ OldAge \in Nat /\ OldAge = ForMinutes + PassMinutes /\ NoSince = -1
  BY AlertsAssumption DEF OldAge, NoSince

LEMMA NoRowLasts == NoState \in StateType /\ LastingRow(NoState) /\ NoPass \in EvaluationType
                    /\ NoPass.row = NoState /\ NoState.since = NoSince
  <1>1. NoState \in StateType /\ NoState.state = "none" /\ NoState.since = NoSince
    BY AlertBounds DEF NoState, StateType
  <1>2. LastingRow(NoState)
    BY <1>1 DEF LastingRow
  <1>3. 0 \in 0..PassMinutes
    BY AlertBounds
  <1> QED BY <1>1, <1>2, <1>3 DEF NoPass, EvaluationType

\* A row that grows older.
LEMMA OlderLasts ==
  ASSUME NEW row, LastingRow(row)
  PROVE  LastingRow(Older(row))
  <1>1. row \in StateType /\ row.since \in NoSince..OldAge
    BY DEF LastingRow, StateType
  <1>2. CASE row.since = NoSince \/ row.since = OldAge
    BY <1>2 DEF Older
  <1>3. CASE ~(row.since = NoSince \/ row.since = OldAge)
    <2> DEFINE old == [row EXCEPT !.since = row.since + 1]
    <2>1. Older(row) = old
      BY <1>3 DEF Older
    <2>2. row.since + 1 \in NoSince..OldAge
      BY <1>1, <1>3, AlertBounds
    <2>3. old \in StateType /\ old.state = row.state /\ old.since = row.since + 1
      BY <1>1, <2>2 DEF StateType
    <2>4. old.state = "FIRING" => old.since >= ForMinutes
      BY <1>1, <2>3, AlertBounds DEF LastingRow
    <2> QED BY <2>1, <2>3, <2>4 DEF LastingRow
  <1> QED BY <1>2, <1>3

LEMMA AlertsInvImplies == AlertsInv => AlertsTypeOK /\ FiringHasLasted
  <1> SUFFICES ASSUME AlertsInv PROVE AlertsTypeOK /\ FiringHasLasted
    OBVIOUS
  <1>1. AlertsTypeOK
    BY DEF AlertsInv, AlertsTypeOK, EvaluationType, LastingRow
  <1>2. FiringHasLasted
    BY AlertBounds DEF AlertsInv, LastingRow, FiringHasLasted, StateType
  <1> QED BY <1>1, <1>2

LEMMA AlertsStart == AlertsInit => AlertsInv
  <1> SUFFICES ASSUME AlertsInit PROVE AlertsInv
    OBVIOUS
  <1>1. changes \in 0..ChangeLimit /\ failures \in 0..FailLimit
    BY AlertBounds DEF AlertsInit
  <1>2. breached \in BOOLEAN /\ clearing \in BOOLEAN
    BY DEF AlertsInit
  <1> QED BY <1>1, <1>2, NoRowLasts DEF AlertsInit, AlertsInv

\* The steps of one pass that leave the row as it is.
LEMMA PassMoves ==
  ASSUME AlertsInv, NEW p \in Evaluations, NEW next \in EvaluationType, Move(p, next),
         LastingRow(next.row), LastingRow(state'),
         breached' \in BOOLEAN, UNCHANGED <<rule, clearing, changes>>,
         failures' \in 0..FailLimit
  PROVE  AlertsInv'
  <1>1. /\ evaluation \in [Evaluations -> EvaluationType]
        /\ \A e \in Evaluations : LastingRow(evaluation[e].row)
        /\ rule \in {"none", "enabled", "disabled", "deleted"} /\ clearing \in BOOLEAN
        /\ changes \in 0..ChangeLimit
    BY DEF AlertsInv
  <1>2. evaluation' = [evaluation EXCEPT ![p] = next]
    BY DEF Move
  <1>3. evaluation' \in [Evaluations -> EvaluationType]
    BY <1>1, <1>2
  <1>4. \A e \in Evaluations : LastingRow(evaluation'[e].row)
    BY <1>1, <1>2
  <1>5. /\ rule' \in {"none", "enabled", "disabled", "deleted"} /\ clearing' \in BOOLEAN
        /\ changes' \in 0..ChangeLimit
    BY <1>1
  <1> QED BY <1>3, <1>4, <1>5 DEF AlertsInv

LEMMA EndSafe ==
  ASSUME AlertsInv, NEW p \in Evaluations, End(p), LastingRow(state'),
         UNCHANGED <<breached, rule, clearing, changes>>, failures' \in 0..FailLimit
  PROVE  AlertsInv'
  BY NoRowLasts, PassMoves DEF End, AlertsInv

\* A pass that goes on to a step, its row as it was.
LEMMA StepSafe ==
  ASSUME AlertsInv, NEW p \in Evaluations, NEW step \in {"fire", "resolve"}, Step(p, step),
         LastingRow(state'), UNCHANGED <<breached, rule, clearing, changes, failures>>
  PROVE  AlertsInv'
  <1> DEFINE next == [evaluation[p] EXCEPT !.step = step]
  <1>1. /\ evaluation[p] \in EvaluationType /\ LastingRow(evaluation[p].row)
        /\ breached' \in BOOLEAN /\ failures' \in 0..FailLimit
    BY DEF AlertsInv
  <1>2. next \in EvaluationType /\ next.row = evaluation[p].row
    BY <1>1 DEF EvaluationType
  <1>3. Move(p, next)
    BY DEF Step
  <1> HIDE DEF next
  <1> QED BY <1>1, <1>2, <1>3, PassMoves

LEMMA ReadsSafe ==
  ASSUME AlertsInv, NEW p \in Evaluations, ReadRules(p) \/ ReadReading(p) \/ ReadState(p)
  PROVE  AlertsInv'
  <1>1. /\ evaluation[p] \in EvaluationType /\ LastingRow(evaluation[p].row)
        /\ breached \in BOOLEAN /\ LastingRow(state) /\ state \in StateType
        /\ UNCHANGED <<breached, rule, clearing, state, changes, failures>>
        /\ failures \in 0..FailLimit
    BY DEF AlertsInv, ReadRules, ReadReading, ReadState, LastingRow
  <1>2. CASE ReadRules(p)
    <2> DEFINE next == [NoPass EXCEPT !.step = "device"]
    <2>1. next \in EvaluationType /\ next.row = NoState
      BY NoRowLasts DEF EvaluationType
    <2>2. Move(p, next)
      BY <1>2 DEF ReadRules
    <2> HIDE DEF next
    <2> QED BY <1>1, <2>1, <2>2, NoRowLasts, PassMoves
  <1>3. CASE ReadReading(p)
    <2> DEFINE next == [evaluation[p] EXCEPT !.step = "state", !.breached = breached]
    <2>1. next \in EvaluationType /\ next.row = evaluation[p].row
      BY <1>1 DEF EvaluationType
    <2>2. Move(p, next)
      BY <1>3 DEF ReadReading
    <2> HIDE DEF next
    <2> QED BY <1>1, <2>1, <2>2, PassMoves
  <1>4. CASE ReadState(p)
    <2> DEFINE next == [evaluation[p] EXCEPT !.step = "write", !.row = state, !.gone = FALSE]
    <2>1. next \in EvaluationType /\ next.row = state
      BY <1>1 DEF EvaluationType
    <2>2. Move(p, next)
      BY <1>4 DEF ReadState
    <2> HIDE DEF next
    <2> QED BY <1>1, <2>1, <2>2, PassMoves
  <1> QED BY <1>2, <1>3, <1>4

\* The row a breach writes: it keeps FIRING only from a row that was in breach for long
\* enough, and its instant.
LEMMA BreachSafe ==
  ASSUME AlertsInv, NEW p \in Evaluations, Breach(p)
  PROVE  AlertsInv'
  <1> DEFINE e == evaluation[p]
             written == IF ShouldFire(e) THEN "FIRING"
                        ELSE IF state = NoState \/ e.row = NoState THEN "OK"
                        ELSE e.row.state
  <1>1. /\ UNCHANGED <<breached, rule, clearing, changes, failures>>
        /\ state' = [since |-> Since(e), state |-> written]
        /\ Step(p, "fire") \/ End(p)
    BY DEF Breach
  <1>2. /\ e \in EvaluationType /\ LastingRow(e.row) /\ e.row \in StateType
        /\ e.age \in 0..PassMinutes /\ failures' \in 0..FailLimit
    BY <1>1 DEF AlertsInv, EvaluationType
  <1> HIDE DEF e
  <1>3. e.row.since \in NoSince..OldAge /\ e.row.state \in {"none", "OK", "FIRING"}
    BY <1>2 DEF StateType
  <1>4. Since(e) \in 0..OldAge /\ (e.row.since # NoSince => Since(e) = e.row.since)
    BY <1>2, <1>3, AlertBounds DEF Since
  <1>5. written = "FIRING" => Since(e) >= ForMinutes
    <2>1. ShouldFire(e) => Since(e) >= ForMinutes
      BY <1>2, <1>4, AlertBounds DEF ShouldFire
    <2>2. e.row.state = "FIRING" => Since(e) >= ForMinutes
      BY <1>2, <1>3, <1>4, AlertBounds DEF LastingRow
    <2> QED BY <2>1, <2>2
  <1>6. written \in {"none", "OK", "FIRING"}
    BY <1>3
  <1> HIDE DEF written
  <1>7. state' \in StateType /\ state'.state = written /\ state'.since = Since(e)
    BY <1>1, <1>4, <1>6, AlertBounds DEF StateType
  <1>8. LastingRow(state')
    BY <1>5, <1>7 DEF LastingRow
  <1> QED BY <1>1, <1>2, <1>8, StepSafe, EndSafe

LEMMA OtherStepsSafe ==
  ASSUME AlertsInv, NEW p \in Evaluations,
         Recovery(p) \/ NothingToWrite(p) \/ Notify(p) \/ FailPass(p)
  PROVE  AlertsInv'
  <1>1. LastingRow([state |-> "OK", since |-> NoSince])
    BY AlertBounds DEF LastingRow, StateType
  <1>2. LastingRow(state) /\ failures \in 0..FailLimit
    BY DEF AlertsInv
  <1>3. CASE Recovery(p)
    <2>1. /\ UNCHANGED <<breached, rule, clearing, changes, failures>>
          /\ state' = [state |-> "OK", since |-> NoSince]
          /\ Step(p, "resolve") \/ End(p)
      BY <1>3 DEF Recovery
    <2> QED BY <1>1, <1>2, <2>1, StepSafe, EndSafe
  <1>4. CASE NothingToWrite(p) \/ Notify(p)
    BY <1>2, <1>4, EndSafe DEF NothingToWrite, Notify
  <1>5. CASE FailPass(p)
    <2>1. failures' \in 0..FailLimit
      BY <1>2, <1>5, AlertBounds DEF FailPass
    <2> QED BY <1>2, <1>5, <2>1, EndSafe DEF FailPass
  <1> QED BY <1>3, <1>4, <1>5

\* The actions of the rule. The row goes, and passes that hold it know.
LEMMA DropStateSafe ==
  ASSUME AlertsInv, DropState
  PROVE  /\ LastingRow(state') /\ evaluation' \in [Evaluations -> EvaluationType]
         /\ \A p \in Evaluations : LastingRow(evaluation'[p].row)
  <1>1. /\ evaluation \in [Evaluations -> EvaluationType]
        /\ \A p \in Evaluations : LastingRow(evaluation[p].row)
    BY DEF AlertsInv
  <1>2. ASSUME NEW p \in Evaluations
        PROVE  evaluation'[p] \in EvaluationType /\ evaluation'[p].row = evaluation[p].row
    BY <1>1, <1>2 DEF DropState, EvaluationType
  <1>3. evaluation' \in [Evaluations -> EvaluationType]
    BY <1>2 DEF DropState
  <1> QED BY <1>1, <1>2, <1>3, NoRowLasts DEF DropState

LEMMA RuleSafe ==
  ASSUME AlertsInv,
         ChangeReading \/ CreateRule \/ ClearStates \/ DeleteRule
         \/ \E on \in BOOLEAN : SetRuleEnabled(on)
  PROVE  AlertsInv'
  <1>1. /\ LastingRow(state') /\ evaluation' \in [Evaluations -> EvaluationType]
        /\ \A p \in Evaluations : LastingRow(evaluation'[p].row)
    <2>1. DropState \/ UNCHANGED <<state, evaluation>>
      BY DEF ChangeReading, CreateRule, ClearStates, DeleteRule, SetRuleEnabled
    <2>2. CASE DropState
      BY <2>2, DropStateSafe
    <2>3. CASE UNCHANGED <<state, evaluation>>
      BY <2>3 DEF AlertsInv
    <2> QED BY <2>1, <2>2, <2>3
  <1>2. failures' \in 0..FailLimit /\ changes' \in 0..ChangeLimit
    BY AlertBounds DEF AlertsInv, ChangeReading, CreateRule, ClearStates, DeleteRule, SetRuleEnabled,
       ChangeRule
  <1>3. rule' \in {"none", "enabled", "disabled", "deleted"}
    BY DEF AlertsInv, ChangeReading, CreateRule, ClearStates, DeleteRule, SetRuleEnabled, ChangeRule
  <1>4. breached' \in BOOLEAN /\ clearing' \in BOOLEAN
    BY DEF AlertsInv, ChangeReading, CreateRule, ClearStates, DeleteRule, SetRuleEnabled
  <1> QED BY <1>1, <1>2, <1>3, <1>4 DEF AlertsInv

LEMMA AlertTickSafe ==
  ASSUME AlertsInv, AlertTick
  PROVE  AlertsInv'
  <1>1. /\ evaluation \in [Evaluations -> EvaluationType]
        /\ \A p \in Evaluations : LastingRow(evaluation[p].row)
        /\ LastingRow(state)
    BY DEF AlertsInv
  <1>2. ASSUME NEW p \in Evaluations
        PROVE  evaluation'[p] \in EvaluationType /\ LastingRow(evaluation'[p].row)
    <2>1. CASE evaluation[p].step = "idle"
      BY <1>1, <2>1 DEF AlertTick
    <2>2. CASE evaluation[p].step # "idle"
      <3>1. /\ evaluation[p].age \in 0..PassMinutes /\ evaluation[p].age < PassMinutes
            /\ evaluation[p] \in EvaluationType
        BY <1>1, <2>2 DEF AlertTick, EvaluationType
      <3>2. evaluation[p].age + 1 \in 0..PassMinutes
        BY <3>1, AlertBounds
      <3>3. LastingRow(Older(evaluation[p].row)) /\ Older(evaluation[p].row) \in StateType
        BY <1>1, OlderLasts DEF LastingRow
      <3>4. evaluation'[p] = [evaluation[p] EXCEPT !.age = evaluation[p].age + 1,
                                                   !.row = Older(evaluation[p].row)]
        BY <2>2 DEF AlertTick
      <3>5. evaluation'[p] \in EvaluationType /\ evaluation'[p].row = Older(evaluation[p].row)
        BY <3>1, <3>2, <3>3, <3>4 DEF EvaluationType
      <3> QED BY <3>3, <3>5
    <2> QED BY <2>1, <2>2
  <1>3. evaluation' \in [Evaluations -> EvaluationType]
    BY <1>2 DEF AlertTick
  <1>4. LastingRow(state')
    <2>1. state' = Older(state)
      BY DEF AlertTick
    <2> QED BY <1>1, <2>1, OlderLasts
  <1> QED BY <1>2, <1>3, <1>4 DEF AlertsInv, AlertTick

LEMMA AlertsStep ==
  ASSUME AlertsInv, [AlertsNext]_alertVars
  PROVE  AlertsInv'
  <1>1. CASE UNCHANGED alertVars
    BY <1>1 DEF AlertsInv, alertVars
  <1>2. CASE ChangeReading \/ CreateRule \/ ClearStates \/ DeleteRule
             \/ \E on \in BOOLEAN : SetRuleEnabled(on)
    BY <1>2, RuleSafe
  <1>3. CASE \E p \in Evaluations : EvaluationStep(p) \/ FailPass(p)
    BY <1>3, ReadsSafe, BreachSafe, OtherStepsSafe DEF EvaluationStep
  <1>4. CASE AlertTick
    BY <1>4, AlertTickSafe
  <1> QED BY <1>1, <1>2, <1>3, <1>4 DEF AlertsNext

\* The type invariant of the rule, its row and the passes that evaluate it.
THEOREM AlertsTypeCorrect == AlertsSpec => []AlertsTypeOK
  BY AlertsStart, AlertsStep, AlertsInvImplies, PTL DEF AlertsSpec

\* A rule fires for no device whose breach, by the record, is younger than the minutes
\* of the rule; however passes overlap, fail, and meet a rule that is switched or
\* deleted.
THEOREM NoEarlyAlert == AlertsSpec => []FiringHasLasted
  BY AlertsStart, AlertsStep, AlertsInvImplies, PTL DEF AlertsSpec

-----------------------------------------------------------------------------
(* The parts together. No part has a variable of another, so a step of the *)
(* whole is a step of one part and a stutter of the others.                *)

LEMMA StepsOfParts ==
  ASSUME [PartsNext]_partVars
  PROVE  /\ [SchedulesNext]_scheduleVars /\ [AlertsNext]_alertVars /\ [GroupsNext]_groupVars
         /\ [DynsecNext]_dynsecVars /\ [EventStreamNext]_eventVars
         /\ part' = part
  BY DEF PartsNext, partVars, ScheduleStep, AlertStep, GroupStep, DynsecStep, EventStep

\* Passes, streams and agents that progress side by side each behave as specified alone.
THEOREM ProgressPartsBehaveAsAlone ==
  PartsSpec => SchedulesSpec /\ AlertsSpec /\ GroupsSpec /\ DynsecSpec /\ EventStreamSpec
  <1>1. PartsInit => SchedulesInit /\ AlertsInit /\ GroupsInit /\ DynsecInit /\ EventStreamInit
    BY DEF PartsInit
  <1> QED BY <1>1, StepsOfParts, PTL
          DEF PartsSpec, SchedulesSpec, AlertsSpec, GroupsSpec, DynsecSpec, EventStreamSpec

\* The type invariant of the whole.
THEOREM ProgressPartsTypeCorrect == PartsSpec => []PartsTypeOK
  <1> DEFINE Named == part \in {"schedules", "alerts", "groups", "dynsec", "events"}
             Typed == /\ SchedulesTypeOK /\ AlertsTypeOK /\ GroupsTypeOK /\ DynsecTypeOK
                      /\ EventStreamTypeOK
  <1>1. PartsInit => Named
    BY DEF PartsInit
  <1>2. Named /\ [PartsNext]_partVars => Named'
    BY StepsOfParts
  <1>3. PartsSpec => []Typed
    BY ProgressPartsBehaveAsAlone, SchedulesTypeCorrect, AlertsTypeCorrect, GroupsTypeCorrect,
       DynsecTypeCorrect, EventStreamTypeCorrect, PTL
  <1>4. Named /\ Typed => PartsTypeOK
    BY DEF PartsTypeOK
  <1> HIDE DEF Named, Typed
  <1> QED BY <1>1, <1>2, <1>3, <1>4, PTL DEF PartsSpec

\* What the whole never gives up while it progresses.
THEOREM ProgressIsSafe ==
  PartsSpec => [](ActiveIffArmed /\ DispatchedOnce /\ FiringHasLasted /\ DeletedGroupIsGone
                  /\ AnswersMatchUntilAFailure /\ SubscribedAsCounted)
  BY ProgressPartsBehaveAsAlone, ArmedWhileActive, OccurrencesRunOnce, NoEarlyAlert,
     DeletionIsFinal, AnswersMatch, SubscriptionsMatch, PTL
============================================================================
