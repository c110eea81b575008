SPECIFICATION SetupSpec
CONSTANTS
  Procs = {p1}
  TIMEOUT = 1
  MARGIN = 1
  MaxBuilds = 1
  Faults = {}
INVARIANT DoneIsProvisioned
CHECK_DEADLOCK FALSE
