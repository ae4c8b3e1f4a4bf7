\* One server action at a time is enough for a next run that was
\* worked out before a claim to be written after it; two workers run passes.
CONSTANTS
  Schedules = {s1}
  Callers = {q1}
  Runners = {r1, r2}
  NextSlot <- MCNextSlot
  Take = 1
  LastMinute = 3
  NoTime = NoTime
SPECIFICATION SchedulesSpec
INVARIANT NeverDispatchedTwice
CHECK_DEADLOCK FALSE
