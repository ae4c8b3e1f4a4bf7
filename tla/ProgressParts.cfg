\* Two passes of the scheduler and two of the alerts overlap; one group, one
\* editor and two executions of UpdateGroups; four batches, over a connection
\* that is lost twice.
CONSTANTS
  s1 = s1
  s2 = s2
  Schedules = {s1, s2}
  Callers = {q1}
  Runners = {r1, r2}
  NextSlot <- MCNextSlot
  Take = 1
  LastMinute = 2
  NoTime = NoTime
  Evaluations = {e1, e2}
  ForMinutes = 1
  PassMinutes = 1
  ChangeLimit = 2
  FailLimit = 1
  Groups = {g1}
  Editors = {w1}
  Pushers = {p1}
  Updaters = {k1, k2}
  EditLimit = 2
  FaultLimit = 1
  NoGroup = NoGroup
  LastBatch = 4
  DropLimit = 2
  Tabs = {t1}
  Channels = {c1}
  LastVersion = 2
  LossLimit = 1
  QueueLimit = 2
SPECIFICATION PartsSpec
INVARIANT PartsTypeOK
INVARIANT ActiveIffArmed
INVARIANT AnswersMatchUntilAFailure
PROPERTY EveryOccurrenceIsTaken
PROPERTY AlertSettles
PROPERTY ListConverges
PROPERTY EveryBatchSettles
PROPERTY DashboardConverges
CHECK_DEADLOCK FALSE
