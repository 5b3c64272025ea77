SPECIFICATION LaneSpec
CONSTANTS
  j1 = j1
  n1 = n1
  b1 = b1
  m1 = m1
  a = a
  c1 = c1
  c2 = c2
  NoConfig = NoConfig
  NoRelease = NoRelease
  Jobs = {j1}
  Names = {n1}
  NameOf <- OwnNames
  VersionOf <- OwnVersions
  CancelFrom = {"running"}
  Faults = {"crash"}
  MaxCrashes = 1
  Runs = {b1}
  Scenarios = 1
  BCancelFrom = {"running"}
  BFaults = {"crash"}
  BMaxCrashes = 1
  RunConfig <- RunC1
  Core <- OwnCore
  Configs = {c1, c2}
  Presets = {c1}
  Manuals = {m1}
  ManualConfig <- ManualC1
  Releases = {a}
  ReleaseConfig <- ReleaseC1
  ReleaseVersion <- AVersion
  StopFrom = {"success"}
  RtFaults = {"crash"}
  RtMaxCrashes = 1
  Overlap = FALSE
  Concurrent = FALSE
INVARIANTS
  LaneInv
PROPERTIES
  LoadKeepsRuntime
CHECK_DEADLOCK FALSE
