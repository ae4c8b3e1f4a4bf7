------------------------------ MODULE SafetyParts ------------------------------
(***************************************************************************)
(* Parts of the system whose promise is that something never happens, how- *)
(* ever their requests, passes and goroutines interleave: teams, the       *)
(* credential of a device, schedules, the retention of metrics, the rate   *)
(* limit of commands, the output of a command, the event stream, the       *)
(* config file of the agent, signing in, the consoles and the groups of a  *)
(* device. They share no state: what one of them does is a stutter of the  *)
(* others, so that a behaviour of the whole is a behaviour of each. "part" *)
(* is the one whose steps are taken.                                       *)
(***************************************************************************)
EXTENDS Teams, Enrollment, Schedules, MetricRetention, CommandBudget, CommandOutput,
        EventStream, ConfigFile, SignIn, Consoles, GroupMembership

VARIABLE part

PartNames == {"teams", "enrollment", "schedules", "retention", "budget", "output",
              "events", "config", "signIn", "consoles", "groups"}

PartsTypeOK ==
  /\ part \in PartNames
  /\ part = "teams" => TeamsTypeOK
  /\ part = "enrollment" => EnrollmentTypeOK
  /\ part = "schedules" => SchedulesTypeOK
  /\ part = "retention" => RetentionTypeOK
  /\ part = "budget" => BudgetTypeOK
  /\ part = "output" => OutputTypeOK
  /\ part = "events" => EventStreamTypeOK
  /\ part = "config" => ConfigTypeOK
  /\ part = "signIn" => SignInTypeOK
  /\ part = "consoles" => ConsolesTypeOK
  /\ part = "groups" => GroupsTypeOK

PartsInit ==
  /\ part \in PartNames
  /\ TeamsInit /\ EnrollmentInit /\ SchedulesInit /\ RetentionInit
  /\ BudgetInit /\ OutputInit /\ EventStreamInit /\ ConfigInit /\ SignInInit
  /\ ConsolesInit /\ GroupsInit

TeamStep ==
  /\ part = "teams" /\ TeamsNext
  /\ UNCHANGED <<part, enrollmentVars, scheduleVars, retentionVars, budgetVars,
                 outputVars, eventVars, configVars, signInVars, consoleVars, groupVars>>
CredentialStep ==
  /\ part = "enrollment" /\ EnrollmentNext
  /\ UNCHANGED <<part, teamsVars, scheduleVars, retentionVars, budgetVars,
                 outputVars, eventVars, configVars, signInVars, consoleVars, groupVars>>
ScheduleStep ==
  /\ part = "schedules" /\ SchedulesNext
  /\ UNCHANGED <<part, teamsVars, enrollmentVars, retentionVars, budgetVars,
                 outputVars, eventVars, configVars, signInVars, consoleVars, groupVars>>
RetentionStep ==
  /\ part = "retention" /\ RetentionNext
  /\ UNCHANGED <<part, teamsVars, enrollmentVars, scheduleVars, budgetVars,
                 outputVars, eventVars, configVars, signInVars, consoleVars, groupVars>>
BudgetStep ==
  /\ part = "budget" /\ BudgetNext
  /\ UNCHANGED <<part, teamsVars, enrollmentVars, scheduleVars, retentionVars,
                 outputVars, eventVars, configVars, signInVars, consoleVars, groupVars>>
OutputStep ==
  /\ part = "output" /\ OutputNext
  /\ UNCHANGED <<part, teamsVars, enrollmentVars, scheduleVars, retentionVars,
                 budgetVars, eventVars, configVars, signInVars, consoleVars, groupVars>>
EventStep ==
  /\ part = "events" /\ EventStreamNext
  /\ UNCHANGED <<part, teamsVars, enrollmentVars, scheduleVars, retentionVars,
                 budgetVars, outputVars, configVars, signInVars, consoleVars, groupVars>>
ConfigStep ==
  /\ part = "config" /\ ConfigNext
  /\ UNCHANGED <<part, teamsVars, enrollmentVars, scheduleVars, retentionVars,
                 budgetVars, outputVars, eventVars, signInVars, consoleVars, groupVars>>
AccountStep ==
  /\ part = "signIn" /\ SignInNext
  /\ UNCHANGED <<part, teamsVars, enrollmentVars, scheduleVars, retentionVars,
                 budgetVars, outputVars, eventVars, configVars, consoleVars, groupVars>>
ConsoleStep ==
  /\ part = "consoles" /\ ConsolesNext
  /\ UNCHANGED <<part, teamsVars, enrollmentVars, scheduleVars, retentionVars,
                 budgetVars, outputVars, eventVars, configVars, signInVars, groupVars>>
MembershipStep ==
  /\ part = "groups" /\ GroupsNext
  /\ UNCHANGED <<part, teamsVars, enrollmentVars, scheduleVars, retentionVars,
                 budgetVars, outputVars, eventVars, configVars, signInVars, consoleVars>>

PartsNext ==
  \/ TeamStep \/ CredentialStep \/ ScheduleStep \/ RetentionStep
  \/ BudgetStep \/ OutputStep \/ EventStep \/ ConfigStep
  \/ AccountStep \/ ConsoleStep \/ MembershipStep

partsVars == <<part, teamsVars, enrollmentVars, scheduleVars, retentionVars,
               budgetVars, outputVars, eventVars, configVars, signInVars, consoleVars,
               groupVars>>

PartsSpec == PartsInit /\ [][PartsNext]_partsVars
=============================================================================
