CONSTANTS
  Batches = {b1}
  Devices = {d1, d2}
  ReapLimit = 1
  ExitOutcomes = {"completed", "timeout"}
SPECIFICATION Spec
INVARIANT EveryExecutionIsRecorded
CHECK_DEADLOCK FALSE
