SPECIFICATION JSpec
CONSTANTS
  j1 = j1
  j2 = j2
  n1 = n1
  n2 = n2
  Jobs = {j1, j2}
  Names = {n1, n2}
  NameOf <- OwnNames
  VersionOf <- OwnVersions
  CancelFrom = {"pending", "running"}
  Faults = {}
  MaxCrashes = 1
INVARIANT CancelFreesGpu
CHECK_DEADLOCK FALSE
