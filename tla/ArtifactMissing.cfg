SPECIFICATION Spec
CONSTANTS
  n1 = n1
  n2 = n2
  Names = {n1, n2}
  Procs = {p1, p2}
  KindOf <- MCRebuilt
  MaxBuild = 2
  MaxCommands = 2
INVARIANT FailureKeepsArtifact
CHECK_DEADLOCK FALSE
