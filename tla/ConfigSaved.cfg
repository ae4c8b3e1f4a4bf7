\* Two calls of UpdateGroups save their lists at once, and the host crashes once.
CONSTANTS
  Savers = {k1, k2}
  Inodes = {i1, i2, i3}
  ConfigCrashLimit = 1
  NoFile = NoFile
SPECIFICATION ConfigSpec
INVARIANT SavedAtomically
CHECK_DEADLOCK FALSE
