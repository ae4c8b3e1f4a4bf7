CONSTANTS
  Devices = {d1}
  Sessions = {s1}
  Slots = {k1}
  WireLimit = 1
  PassLimit = 1
  Nothing = Nothing
SPECIFICATION PresenceSpec
PROPERTY LateWillIsFenced
