\* An hour of two times, raw samples kept for one hour: each pass after the first
\* finds the hour at the cutoff half pruned.
CONSTANTS
  Passes = {p1}
  SlotsPerHour = 2
  RawRetention = 2
  HourlyRetention = 4
  LastSlot = 5
  NoBucket = NoBucket
SPECIFICATION RetentionSpec
PROPERTY ReRunIsHarmless
CHECK_DEADLOCK FALSE
