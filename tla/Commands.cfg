SPECIFICATION CommandsSpec
CONSTANTS
  n1 = n1
  n2 = n2
  Names = {n1, n2}
  Procs = {p1, p2}
  KindOf <- MCKindOf
  MaxBuild = 2
  MaxCommands = 2
  Requests = {r1, r2}
  CodeLives = {0, 2}
  PollIntervals = {2, 8}
  TokenLife = 2
  Margin = 1
  MaxIssued = 2
  DefaultLife = 3
  m1 = m1
  m2 = m2
  NoModel = NoModel
  ModelNames = {m1, m2}
  Backends <- MCBackends
  LoginBackend <- MCLogin
  LegacyTables <- MCLegacy
  Editors = {e1, e2}
  MaxEntries = 3
  MaxEdits = 2
  ProxyFlags = {"plain", "search"}
  Models = {"a", "b"}
  MaxStarts = 3
  Burst = 2
  MaxBuilds = 2
  Runners = {p1, p2}
  Blocks = 2
  MaxRuns = 3
SYMMETRY Alike
INVARIANTS
  NothingHalfWritten
  UpdateSettles
  DefaultsConfigured
  PollsInTime
  SessionKept
  LaunchdCurrent
  ModelWhole
PROPERTY ConnectionsKept
CHECK_DEADLOCK FALSE
