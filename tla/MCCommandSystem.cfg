\* One batch for two devices, and a page of the reaper that holds one command.
CONSTANTS
  Batches = {b1}
  Devices = {d1, d2}
  ReapLimit = 1
  ExitOutcomes = {"completed", "timeout"}
SPECIFICATION FairSpec
INVARIANT TypeOK
INVARIANT ExecutionIsRecorded
INVARIANT SuccessMeansExecuted
INVARIANT NoEarlyTimeout
PROPERTY OnlyDispatchReopens
PROPERTY DispatchedSettles
CHECK_DEADLOCK FALSE
