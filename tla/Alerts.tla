-------------------------------- MODULE Alerts --------------------------------
(***************************************************************************)
(* alert.service.ts: one rule and its state for one device, under passes   *)
(* of evaluateAlerts that the worker starts every minute without waiting   *)
(* for the one before, and under the actions that switch or delete the     *)
(* rule. Instants are kept as ages, in minutes. Which metric is compared,  *)
(* the channels of a notification and their settings are left out: what    *)
(* they do wrong is logged and changes nothing.                            *)
(***************************************************************************)
EXTENDS Integers, FiniteSets

CONSTANTS
  Evaluations, \* passes of evaluateAlerts under way at once
  ForMinutes,  \* the rule's
  PassMinutes, \* bound on the minutes a pass takes
  ChangeLimit, \* bound on the changes of the reading and of the rule together
  FailLimit    \* bound on the passes that end with an error

ASSUME AlertsAssumption ==
  /\ ForMinutes \in Nat /\ PassMinutes \in Nat
  /\ ChangeLimit \in Nat /\ FailLimit \in Nat

VARIABLES
  breached,   \* what the device reads now
  rule,       \* "none", "enabled", "disabled" or "deleted"
  clearing,   \* whether a request is about to delete the rule's states
  state,      \* the row of alert_rule_states, NoState if there is none
  evaluation, \* per pass: step, age, what it has read, and whether the row it
              \* has read was deleted since
  changes, failures

alertVars == <<breached, rule, clearing, state, evaluation, changes, failures>>

OldAge == ForMinutes + PassMinutes  \* older than this is all the same
NoSince == -1
NoState == [state |-> "none", since |-> NoSince]
StateType == [state : {"none", "OK", "FIRING"}, since : NoSince..OldAge]
NoPass == [step |-> "idle", age |-> 0, breached |-> FALSE, row |-> NoState,
           gone |-> FALSE]

AlertsTypeOK ==
  /\ breached \in BOOLEAN /\ clearing \in BOOLEAN
  /\ rule \in {"none", "enabled", "disabled", "deleted"}
  /\ state \in StateType
  /\ evaluation \in [Evaluations ->
       [step : {"idle", "device", "state", "write", "fire", "resolve"},
        age : 0..PassMinutes, breached : BOOLEAN, row : StateType,
        gone : BOOLEAN]]
  /\ changes \in 0..ChangeLimit
  /\ failures \in 0..FailLimit

AlertsInit ==
  /\ breached = FALSE /\ rule = "none" /\ clearing = FALSE
  /\ state = NoState
  /\ evaluation = [p \in Evaluations |-> NoPass]
  /\ changes = 0 /\ failures = 0

-----------------------------------------------------------------------------
(* The device, and the server actions.                                     *)

ChangeReading ==
  /\ changes < ChangeLimit
  /\ changes' = changes + 1
  /\ breached' = ~breached
  /\ UNCHANGED <<rule, clearing, state, evaluation, failures>>

ChangeRule(to) ==
  /\ rule \in {"enabled", "disabled"} /\ changes < ChangeLimit
  /\ changes' = changes + 1
  /\ rule' = to

CreateRule ==
  /\ rule = "none"
  /\ rule' = "enabled"
  /\ UNCHANGED <<breached, clearing, state, evaluation, changes, failures>>

SetRuleEnabled(on) ==
  /\ ChangeRule(IF on THEN "enabled" ELSE "disabled")
  /\ clearing' = (clearing \/ ~on)
  /\ UNCHANGED <<breached, state, evaluation, failures>>

DropState ==
  /\ state' = NoState
  /\ evaluation' = [p \in Evaluations |->
       IF evaluation[p].step = "write" THEN [evaluation[p] EXCEPT !.gone = TRUE]
       ELSE evaluation[p]]

\* The second call of setRuleEnabled, which may fail.
ClearStates ==
  /\ clearing
  /\ clearing' = FALSE
  /\ DropState \/ UNCHANGED <<state, evaluation>>
  /\ UNCHANGED <<breached, rule, changes, failures>>

DeleteRule ==
  /\ ChangeRule("deleted")
  /\ DropState
  /\ UNCHANGED <<breached, clearing, failures>>

-----------------------------------------------------------------------------
(* evaluateAlerts.                                                         *)

Move(p, next) == evaluation' = [evaluation EXCEPT ![p] = next]
Step(p, step) == Move(p, [evaluation[p] EXCEPT !.step = step])
End(p) == Move(p, NoPass)

ReadRules(p) ==
  /\ evaluation[p].step = "idle" /\ rule = "enabled"
  /\ Move(p, [NoPass EXCEPT !.step = "device"])
  /\ UNCHANGED <<breached, rule, clearing, state, changes, failures>>

ReadReading(p) ==
  /\ evaluation[p].step = "device"
  /\ Move(p, [evaluation[p] EXCEPT !.step = "state", !.breached = breached])
  /\ UNCHANGED <<breached, rule, clearing, state, changes, failures>>

ReadState(p) ==
  /\ evaluation[p].step = "state"
  /\ Move(p, [evaluation[p] EXCEPT !.step = "write", !.row = state, !.gone = FALSE])
  /\ UNCHANGED <<breached, rule, clearing, state, changes, failures>>

\* Mutated: every pass writes its own time.
SinceThisPass(e) == e.age

Since(e) == IF e.row.since = NoSince THEN e.age ELSE e.row.since
ShouldFire(e) == Since(e) - e.age >= ForMinutes /\ e.row.state # "FIRING"

\* The upsert. Its create branch knows nothing of the row that was read.
Breach(p) ==
  LET e == evaluation[p] IN
  /\ e.step = "write" /\ e.breached /\ rule # "deleted"
  /\ state' = [since |-> Since(e),
               state |-> IF ShouldFire(e) THEN "FIRING"
                         ELSE IF state = NoState \/ e.row = NoState THEN "OK"
                         ELSE e.row.state]
  /\ IF ShouldFire(e) THEN Step(p, "fire") ELSE End(p)
  /\ UNCHANGED <<breached, rule, clearing, changes, failures>>

\* The update by id.
Recovery(p) ==
  LET e == evaluation[p] IN
  /\ e.step = "write" /\ ~e.breached /\ e.row # NoState /\ ~e.gone
  /\ state' = [state |-> "OK", since |-> NoSince]
  /\ IF e.row.state = "FIRING" THEN Step(p, "resolve") ELSE End(p)
  /\ UNCHANGED <<breached, rule, clearing, changes, failures>>

\* Nothing to update; or the row, or the rule, is gone and the pass throws.
NothingToWrite(p) ==
  LET e == evaluation[p] IN
  /\ e.step = "write"
  /\ IF e.breached THEN rule = "deleted" ELSE e.row = NoState \/ e.gone
  /\ End(p)
  /\ UNCHANGED <<breached, rule, clearing, state, changes, failures>>

Notify(p) ==
  /\ evaluation[p].step \in {"fire", "resolve"}
  /\ End(p)
  /\ UNCHANGED <<breached, rule, clearing, state, changes, failures>>

\* A call throws, or the worker goes down.
FailPass(p) ==
  /\ evaluation[p].step # "idle" /\ failures < FailLimit
  /\ failures' = failures + 1
  /\ End(p)
  /\ UNCHANGED <<breached, rule, clearing, state, changes>>

Older(row) ==
  IF row.since = NoSince \/ row.since = OldAge THEN row
  ELSE [row EXCEPT !.since = @ + 1]

AlertTick ==
  /\ \A p \in Evaluations :
       evaluation[p].step # "idle" => evaluation[p].age < PassMinutes
  /\ state' = Older(state)
  /\ evaluation' = [p \in Evaluations |->
       IF evaluation[p].step = "idle" THEN evaluation[p]
       ELSE [evaluation[p] EXCEPT !.age = @ + 1, !.row = Older(@)]]
  /\ UNCHANGED <<breached, rule, clearing, changes, failures>>

EvaluationStep(p) ==
  \/ ReadRules(p) \/ ReadReading(p) \/ ReadState(p)
  \/ Breach(p) \/ Recovery(p) \/ NothingToWrite(p) \/ Notify(p)

AlertsNext ==
  \/ ChangeReading \/ CreateRule \/ ClearStates \/ DeleteRule
  \/ \E on \in BOOLEAN : SetRuleEnabled(on)
  \/ \E p \in Evaluations : EvaluationStep(p) \/ FailPass(p)
  \/ AlertTick

AlertsSpec == AlertsInit /\ [][AlertsNext]_alertVars

-----------------------------------------------------------------------------
(* Properties.                                                             *)

\* When the reading stops changing and the rule stays enabled, the rule comes
\* to fire if the reading is a breach and to be quiet if it is not, and stays
\* so: stale passes, failed ones and the rows a disabled rule has left behind
\* do not stick ("fires once per device and resolves on its own").
AlertSettles ==
  <>[](rule = "enabled" => (state.state = "FIRING" <=> breached))
=============================================================================
