----------------------------- MODULE Schedules -----------------------------
(***************************************************************************)
(* schedule.service.ts: schedules, and the passes of runDueSchedules that  *)
(* the worker starts every 30 seconds without waiting for the one before;  *)
(* two workers start passes of their own. A server action works out the    *)
(* next run before it writes the row, and the write may land after passes  *)
(* have moved on. Web process and workers read one clock. Names, commands, *)
(* targets and the display fields (lastRunAt, lastStatus, runCount) are    *)
(* left out: a dispatch succeeds or throws.                                *)
(***************************************************************************)
EXTENDS Naturals, FiniteSets

CONSTANTS
  Schedules,
  Callers,    \* server actions that may be under way at once
  Runners,    \* passes of runDueSchedules that may be under way at once
  NextSlot,   \* per schedule: the first time after t its cron expression names
  Take,       \* rows a pass reads at most
  LastMinute, \* bound on the clock
  NoTime

ASSUME SchedulesAssumption ==
  /\ LastMinute \in Nat /\ Take \in Nat \ {0}
  /\ NoTime \notin Nat
  /\ NextSlot \in [Schedules -> [0..LastMinute -> Nat]]
  /\ \A s \in Schedules, t \in 0..LastMinute : NextSlot[s][t] > t

VARIABLES
  minute,
  scheduleStatus, \* per schedule; "none" before it is created
  nextRunAt,
  scheduleCall,   \* per server action: the row it is about to write
  runner,         \* per pass: where it is, its now, and the rows it has read
  \* history
  ran,            \* occurrences that were dispatched
  setBack         \* schedules armed for a time that had been claimed already

scheduleVars ==
  <<minute, scheduleStatus, nextRunAt, scheduleCall, runner, ran, setBack>>

Occurrence == [id : Schedules, at : Nat]
NoCall == [step |-> "idle", id |-> NoTime, next |-> NoTime]
Idle == [step |-> "idle", now |-> 0, due |-> {}, cur |-> NoTime]

CallType == [step : {"idle", "create", "status"}, id : Schedules \cup {NoTime},
             next : Nat \cup {NoTime}]
RunnerType == [step : {"idle", "claim", "dispatch", "record", "fail"},
               now : 0..LastMinute, due : SUBSET Occurrence,
               cur : Occurrence \cup {NoTime}]

SchedulesTypeOK ==
  /\ minute \in 0..LastMinute
  /\ scheduleStatus \in [Schedules -> {"none", "ACTIVE", "PAUSED", "deleted"}]
  /\ nextRunAt \in [Schedules -> Nat \cup {NoTime}]
  /\ scheduleCall \in [Callers -> CallType]
  /\ runner \in [Runners -> RunnerType]
  /\ ran \subseteq Occurrence
  /\ setBack \subseteq Schedules

SchedulesInit ==
  /\ minute = 0
  /\ scheduleStatus = [s \in Schedules |-> "none"]
  /\ nextRunAt = [s \in Schedules |-> NoTime]
  /\ scheduleCall = [c \in Callers |-> NoCall]
  /\ runner = [r \in Runners |-> Idle]
  /\ ran = {} /\ setBack = {}

Stored(s) == scheduleStatus[s] \in {"ACTIVE", "PAUSED"}
Due(s) == scheduleStatus[s] = "ACTIVE" /\ nextRunAt[s] <= minute

-----------------------------------------------------------------------------
(* The server actions.                                                     *)

AskRow(c, step, s, next) ==
  /\ scheduleCall[c] = NoCall
  /\ scheduleCall' = [scheduleCall EXCEPT ![c] =
                        [step |-> step, id |-> s, next |-> next]]
  /\ UNCHANGED <<minute, scheduleStatus, nextRunAt, runner, ran, setBack>>

StartCreate(c, s) ==
  /\ scheduleStatus[s] = "none" /\ \A d \in Callers : scheduleCall[d].id # s
  /\ AskRow(c, "create", s, NextSlot[s][minute])

InsertSchedule(c) ==
  LET call == scheduleCall[c] IN
  /\ call.step = "create"
  /\ scheduleStatus' = [scheduleStatus EXCEPT ![call.id] = "ACTIVE"]
  /\ nextRunAt' = [nextRunAt EXCEPT ![call.id] = call.next]
  /\ scheduleCall' = [scheduleCall EXCEPT ![c] = NoCall]
  /\ UNCHANGED <<minute, runner, ran, setBack>>

\* Resuming counts from now, so that missed slots do not fire; a pause has no
\* next run.
ReadSchedule(c, s) ==
  /\ Stored(s)
  /\ \E next \in {NoTime, NextSlot[s][minute]} : AskRow(c, "status", s, next)

\* The occurrences that are dispatched, or claimed and about to be.
TakenUp ==
  ran \cup {runner[r].cur : r \in {r \in Runners : runner[r].step = "dispatch"}}

SetsBack(s, next) ==
  next # NoTime /\ \E o \in TakenUp : o.id = s /\ next <= o.at

\* The update throws if the row is gone.
WriteStatus(c) ==
  LET call == scheduleCall[c] IN
  /\ call.step = "status"
  /\ scheduleCall' = [scheduleCall EXCEPT ![c] = NoCall]
  /\ IF Stored(call.id)
     THEN /\ scheduleStatus' = [scheduleStatus EXCEPT
               ![call.id] = IF call.next = NoTime THEN "PAUSED" ELSE "ACTIVE"]
          /\ nextRunAt' = [nextRunAt EXCEPT ![call.id] = call.next]
          /\ setBack' = IF SetsBack(call.id, call.next)
                         THEN setBack \cup {call.id} ELSE setBack
     ELSE UNCHANGED <<scheduleStatus, nextRunAt, setBack>>
  /\ UNCHANGED <<minute, runner, ran>>

\* validateTargets throws, or a database call is rejected.
AbandonCall(c) ==
  /\ scheduleCall[c] # NoCall
  /\ scheduleCall' = [scheduleCall EXCEPT ![c] = NoCall]
  /\ UNCHANGED <<minute, scheduleStatus, nextRunAt, runner, ran, setBack>>

DeleteSchedule(s) ==
  /\ Stored(s)
  /\ scheduleStatus' = [scheduleStatus EXCEPT ![s] = "deleted"]
  /\ nextRunAt' = [nextRunAt EXCEPT ![s] = NoTime]
  /\ UNCHANGED <<minute, scheduleCall, runner, ran, setBack>>

-----------------------------------------------------------------------------
(* A pass of runDueSchedules.                                              *)

\* Mutated: only the slot of this very minute is looked for.
DueRowsOfThisMinute ==
  {[id |-> s, at |-> minute] :
     s \in {s \in Schedules : Due(s) /\ nextRunAt[s] = minute}}

DueRows == {[id |-> s, at |-> nextRunAt[s]] : s \in {s \in Schedules : Due(s)}}

\* A read that lands after the minute of its now finds no further rows due.
StartPass(r) ==
  /\ runner[r].step = "idle"
  /\ \E rows \in SUBSET DueRows :
       /\ Cardinality(rows) <= Take
       /\ rows = DueRows \/ Cardinality(rows) = Take
       /\ runner' = [runner EXCEPT ![r] =
            [step |-> "claim", now |-> minute, due |-> rows, cur |-> NoTime]]
  /\ UNCHANGED <<minute, scheduleStatus, nextRunAt, scheduleCall,
                 ran, setBack>>

\* Mutated: the update asks for the id only.
ClaimUnconditionally(r, o) ==
  LET pass == runner[r] IN
  /\ pass.step = "claim" /\ o \in pass.due
  /\ nextRunAt' = [nextRunAt EXCEPT ![o.id] = NextSlot[o.id][pass.now]]
  /\ runner' = [runner EXCEPT ![r] =
       [pass EXCEPT !.step = "dispatch", !.due = @ \ {o}, !.cur = o]]
  /\ UNCHANGED <<minute, scheduleStatus, scheduleCall, ran, setBack>>

\* The conditional update; no row matches if somebody has changed nextRunAt.
Claim(r, o) ==
  LET pass == runner[r] IN
  /\ pass.step = "claim" /\ o \in pass.due
  /\ IF nextRunAt[o.id] = o.at
     THEN /\ nextRunAt' = [nextRunAt EXCEPT ![o.id] = NextSlot[o.id][pass.now]]
          /\ runner' = [runner EXCEPT ![r] =
               [pass EXCEPT !.step = "dispatch", !.due = @ \ {o}, !.cur = o]]
     ELSE /\ runner' = [runner EXCEPT ![r].due = @ \ {o}]
          /\ UNCHANGED nextRunAt
  /\ UNCHANGED <<minute, scheduleStatus, scheduleCall, ran, setBack>>

\* dispatchCommand throws if nothing can be dispatched.
DispatchDue(r) ==
  /\ runner[r].step = "dispatch"
  /\ \/ /\ runner' = [runner EXCEPT ![r].step = "record"]
        /\ ran' = ran \cup {runner[r].cur}
     \/ /\ runner' = [runner EXCEPT ![r].step = "fail"]
        /\ UNCHANGED ran
  /\ UNCHANGED <<minute, scheduleStatus, nextRunAt, scheduleCall, setBack>>

\* Updating a deleted row throws: inside the try block it leads to the catch
\* block, and there it ends the pass with the remaining rows unvisited.
RecordRun(r) ==
  /\ runner[r].step = "record"
  /\ runner' = [runner EXCEPT ![r].step =
                  IF Stored(runner[r].cur.id) THEN "claim" ELSE "fail"]
  /\ UNCHANGED <<minute, scheduleStatus, nextRunAt, scheduleCall,
                 ran, setBack>>

RecordFailure(r) ==
  /\ runner[r].step = "fail"
  /\ runner' = [runner EXCEPT ![r] =
       IF Stored(@.cur.id) THEN [@ EXCEPT !.step = "claim"] ELSE Idle]
  /\ UNCHANGED <<minute, scheduleStatus, nextRunAt, scheduleCall,
                 ran, setBack>>

FinishPass(r) ==
  /\ runner[r].step = "claim" /\ runner[r].due = {}
  /\ runner' = [runner EXCEPT ![r] = Idle]
  /\ UNCHANGED <<minute, scheduleStatus, nextRunAt, scheduleCall,
                 ran, setBack>>

\* The worker goes down, or a database call of the pass fails; no longer once the
\* clock stands still (LastMinute).
CrashPass(r) ==
  /\ runner[r].step # "idle" /\ minute < LastMinute
  /\ runner' = [runner EXCEPT ![r] = Idle]
  /\ UNCHANGED <<minute, scheduleStatus, nextRunAt, scheduleCall,
                 ran, setBack>>

TickMinute ==
  /\ minute < LastMinute
  /\ minute' = minute + 1
  /\ UNCHANGED <<scheduleStatus, nextRunAt, scheduleCall, runner,
                 ran, setBack>>

PassStep(r) ==
  \/ StartPass(r) \/ (\E o \in runner[r].due : Claim(r, o))
  \/ DispatchDue(r) \/ RecordRun(r) \/ RecordFailure(r) \/ FinishPass(r)

SchedulesNext ==
  \/ \E s \in Schedules : DeleteSchedule(s)
  \/ \E c \in Callers :
       \/ \E s \in Schedules : StartCreate(c, s) \/ ReadSchedule(c, s)
       \/ InsertSchedule(c) \/ WriteStatus(c) \/ AbandonCall(c)
  \/ \E r \in Runners : PassStep(r) \/ CrashPass(r)
  \/ TickMinute

SchedulesSpec == SchedulesInit /\ [][SchedulesNext]_scheduleVars

-----------------------------------------------------------------------------
(* Properties.                                                             *)

\* A schedule is active exactly while it has a next run: a claim that meets a
\* pause or a deletion cannot arm the schedule again (the conditional update
\* of runDueSchedules against setScheduleStatus and deleteSchedule).
ActiveIffArmed ==
  \A s \in Schedules : scheduleStatus[s] = "ACTIVE" <=> nextRunAt[s] # NoTime

\* The pass has claimed an occurrence that was dispatched before.
DispatchesAgain(r) == runner[r].step = "dispatch" /\ runner[r].cur \in ran

\* The conditional update of runDueSchedules: passes and workers that race
\* dispatch an occurrence at most once, whatever crashes and edits come in
\* between; it is dispatched again only if a resumption that had worked out its
\* next run earlier was written after the claim and set the schedule back.
DispatchedOnce ==
  \A r \in Runners : DispatchesAgain(r) => runner[r].cur.id \in setBack

\* schedule.service.ts, "so two workers racing can never both dispatch the same
\* occurrence": an occurrence is dispatched at most once, with nothing excepted.
NeverDispatchedTwice == \A r \in Runners : ~DispatchesAgain(r)

\* When the clock stops (LastMinute), every occurrence that has come up comes to
\* be claimed, or given up by a pause, a resumption or a deletion: no pass that
\* is aborted, or that reads a part of the rows, leaves one behind for good.
EveryOccurrenceIsTaken == <>[](\A s \in Schedules : ~Due(s))
============================================================================
