\* A user with three tokens, and a group of two devices.
CONSTANTS
  RateUsers = {w1}
  RateDevices = {d1, d2}
  PerMinute = 3
  Unit = 4
  TickSeconds = 5
SPECIFICATION BudgetSpec
INVARIANT BroadcastSpendsPerTarget
