CONSTANTS
  Batches = {b1}
  Devices = {d1}
  ReapLimit = 1
  ExitOutcomes = {"completed", "timeout"}
SPECIFICATION Spec
PROPERTY LateRunningNeverOverwrites
CHECK_DEADLOCK FALSE
