CONSTANTS
  c1 = c1
  c2 = c2
  None = None
  Ids <- MCIds
  Quick <- MCQuick
  Cancelable <- MCCancelable
  Expirable <- MCExpirable
  ExitOutcomes <- MCExitOutcomes
  Handlers = {h1, h2}
  Workers = {w1}
  QueueDepth = 1
  Capacity = 2
  MaxDeliveries = 3
  MaxRestarts = 1
  Devices = {d1}
  Sessions = {s1, s2}
  Slots = {k1, k2}
  WireLimit = 1
  PassLimit = 1
  Nothing = Nothing
SPECIFICATION AgentPartsSpec
SYMMETRY Symmetry
INVARIANT TypeOK
INVARIANT AtMostOnce
INVARIANT SingleVerdict
PROPERTY KeepsContract
INVARIANT PresenceTypeOK
INVARIANT NoFalseAlarm
CHECK_DEADLOCK FALSE
