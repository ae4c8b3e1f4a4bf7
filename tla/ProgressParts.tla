----------------------------- MODULE ProgressParts ----------------------------
(***************************************************************************)
(* Parts of the system that must make progress by themselves: schedules,   *)
(* alerts, the groups of a device, the control client of the broker, and   *)
(* the event stream of the dashboard. They share no state: what one of     *)
(* them does is a stutter of the others, so that a behaviour of the whole  *)
(* is a behaviour of each. "part" is the one whose steps are taken.        *)
(***************************************************************************)
EXTENDS Schedules, Alerts, GroupMembership, Dynsec, EventStream

VARIABLE part

partVars == <<part, scheduleVars, alertVars, groupVars, dynsecVars, eventVars>>

PartsTypeOK ==
  /\ part \in {"schedules", "alerts", "groups", "dynsec", "events"}
  /\ part = "schedules" => SchedulesTypeOK
  /\ part = "alerts" => AlertsTypeOK
  /\ part = "groups" => GroupsTypeOK
  /\ part = "dynsec" => DynsecTypeOK
  /\ part = "events" => EventStreamTypeOK

PartsInit ==
  /\ part \in {"schedules", "alerts", "groups", "dynsec", "events"}
  /\ SchedulesInit /\ AlertsInit /\ GroupsInit
  /\ DynsecInit /\ EventStreamInit

\* A step of one part, which leaves the others alone.
ScheduleStep(A) ==
  /\ part = "schedules" /\ A
  /\ UNCHANGED <<part, alertVars, groupVars, dynsecVars, eventVars>>
AlertStep(A) ==
  /\ part = "alerts" /\ A
  /\ UNCHANGED <<part, scheduleVars, groupVars, dynsecVars, eventVars>>
GroupStep(A) ==
  /\ part = "groups" /\ A
  /\ UNCHANGED <<part, scheduleVars, alertVars, dynsecVars, eventVars>>
DynsecStep(A) ==
  /\ part = "dynsec" /\ A
  /\ UNCHANGED <<part, scheduleVars, alertVars, groupVars, eventVars>>
EventStep(A) ==
  /\ part = "events" /\ A
  /\ UNCHANGED <<part, scheduleVars, alertVars, groupVars, dynsecVars>>

PartsNext ==
  \/ ScheduleStep(SchedulesNext) \/ AlertStep(AlertsNext) \/ GroupStep(GroupsNext)
  \/ DynsecStep(DynsecNext) \/ EventStep(EventStreamNext)

\* The worker starts passes for ever, and passes and requests that are under way
\* go on. Agents reconnect and send heartbeats, the worker handles them, and
\* messages that have arrived are handled. A batch whose turn it is goes on or
\* times out. The worker publishes what it has written, streams go on, and ioredis
\* and EventSource connect again. Time passes.
PartsFairness ==
  /\ \A r \in Runners : WF_partVars(ScheduleStep(PassStep(r)))
  /\ WF_partVars(ScheduleStep(TickMinute))
  /\ \A p \in Evaluations : WF_partVars(AlertStep(EvaluationStep(p)))
  /\ WF_partVars(AlertStep(AlertTick))
  /\ \A e \in Editors :
       WF_partVars(GroupStep(EditorStep(e) /\ UNCHANGED <<pusher, subscriberVars>>))
  /\ \A p \in Pushers :
       WF_partVars(GroupStep(ReadGroup(p))) /\ WF_partVars(GroupStep(PushGroups(p)))
  /\ WF_partVars(GroupStep(Reconnect))
  /\ WF_partVars(GroupStep(\E list \in Lists : Receive(list)))
  /\ \A k \in Updaters : WF_partVars(GroupStep(UpdaterStep(k)))
  /\ WF_partVars(DynsecStep(BatchStep))
  /\ WF_partVars(EventStep(\E c \in Channels : Publish(c)))
  /\ WF_partVars(EventStep(RunSubCommand))
  /\ \A t \in Tabs :
       WF_partVars(EventStep(OpenStream(t))) /\ WF_partVars(EventStep(TabStep(t)))

PartsSpec == PartsInit /\ [][PartsNext]_partVars /\ PartsFairness
=============================================================================
