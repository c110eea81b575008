SPECIFICATION SetupSpec
CONSTANTS
  Procs = {p1, p2, p3}
  TIMEOUT = 1
  MARGIN = 1
  MaxBuilds = 0
  Faults = {"crash"}
INVARIANT OneLiveSetup
CHECK_DEADLOCK FALSE
