CONSTANTS
  c1 = c1
  c2 = c2
  None = None
  Ids <- MCIds
  Quick <- MCQuick
  Cancelable <- MCCancelable
  Expirable <- MCExpirable
  ExitOutcomes <- MCExitOutcomes
  Handlers = {h1, h2}
  Workers = {w1}
  QueueDepth = 1
  Capacity = 2
  MaxDeliveries = 2
  MaxRestarts = 1
  Devices = {d1}
  Sessions = {s1}
  Slots = {k1}
  WireLimit = 2
  PassLimit = 2
  Nothing = Nothing
SPECIFICATION FairAgentPartsSpec
PROPERTY NothingDroppedSilently
PROPERTY QueuedIsAnswered
PROPERTY ConnectedEndsOnline
PROPERTY GoneEndsOffline
CHECK_DEADLOCK FALSE
