\* Two requests of each kind overlap, and two passes of each kind; the clocks
\* run until occurrences, samples and buckets have come up, expired and gone.
\* Two editors move the device and delete its group while it is created; the
\* session of the agent is lost in progress_parts only (FaultLimit).
CONSTANTS
  Users = {u1, u2}
  SeededUsers = {u1}
  Requests = {q1, q2}
  CustomRoles = {c1}
  CustomRank <- MCCustomRank
  InviteLimit = 1
  RoleGrants = {{}}
  NoRole = NoRole
  NoUser = NoUser
  Redeemers = {r1, r2}
  Removers = {m1}
  RedeemLimit = 2
  RemoveLimit = 1
  Schedules = {s1}
  Callers = {q1, q2}
  Runners = {x1, x2}
  NextSlot <- MCNextSlot
  Take = 1
  LastMinute = 2
  NoTime = NoTime
  Passes = {p1, p2}
  SlotsPerHour = 2
  RawRetention = 2
  HourlyRetention = 4
  LastSlot = 5
  NoBucket = NoBucket
  RateUsers = {w1}
  RateDevices = {d1, d2}
  PerMinute = 3
  Unit = 4
  TickSeconds = 5
  Streams = {"stdout", "stderr"}
  LastUnit <- MCLastUnit
  ChunkUnits = 3
  MaxOutput = 5
  Tabs = {t1, t2}
  Channels = {h1}
  LastVersion = 2
  LossLimit = 1
  QueueLimit = 2
  Savers = {k1, k2}
  Inodes = {i1, i2, i3}
  ConfigCrashLimit = 1
  NoFile = NoFile
  Accounts = {a1}
  Ips = {i1}
  Browsers = {b1, b2}
  Pages = {g1, g2}
  Secrets = {z1, z2}
  AccountLimit = 1
  IpLimit = 2
  WindowTicks = 1
  RecoveryCodes = {1}
  NoSecret = NoSecret
  NoOne = NoOne
  Hosts = {d1}
  Broadcasts = {g1}
  HostsOf <- MCHostsOf
  ShellCommands = {c1}
  Prose = Prose
  NotChosen = NotChosen
  NoBroadcast = NoBroadcast
  LineLimit = 2
  EntryLimit = 5
  BlockLimit = 2
  MaxMessages = 3
  MaxMessageBlocks = 1
  HistoryTurns = 2
  AiPerHour = 1
  Groups = {y1}
  Editors = {e1, e2}
  Pushers = {v1}
  Updaters = {n1}
  EditLimit = 2
  FaultLimit = 0
  NoGroup = NoGroup
SPECIFICATION PartsSpec
SYMMETRY MCSymmetry
INVARIANT PartsTypeOK
INVARIANT ExactlyOneOwner
INVARIANT RolesAreOfTheTeam
INVARIANT RevokedIsDead
INVARIANT HandedIsLive
INVARIANT DispatchedOnce
INVARIANT AdmittedWithinBudget
INVARIANT EveryUnitOnce
INVARIANT CaptureIsHeadAndTail
INVARIANT SubscribedAsCounted
INVARIANT WholeUnlessOverlapped
INVARIANT OvershootIsBounded
INVARIANT EnabledSecretIsScanned
INVARIANT NumbersMeanWhatIsShown
INVARIANT DeletedGroupIsGone
PROPERTY PrunedIsRolled
CHECK_DEADLOCK FALSE
