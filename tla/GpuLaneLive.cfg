SPECIFICATION LaneFairSpec
CONSTANTS
  j1 = j1
  n1 = n1
  b1 = b1
  m1 = m1
  a = a
  c1 = c1
  c2 = c2
  NoConfig = NoConfig
  NoRelease = NoRelease
  Jobs = {j1}
  Names = {n1}
  NameOf <- OwnNames
  VersionOf <- OwnVersions
  CancelFrom = {"pending", "running", "succeeded", "failed", "cancelled"}
  Faults = {"lost_reply"}
  MaxCrashes = 1
  Runs = {b1}
  Scenarios = 1
  BCancelFrom = {"queued", "running"}
  BFaults = {}
  BMaxCrashes = 1
  RunConfig <- RunC1
  Core <- OwnCore
  Configs = {c1, c2}
  Presets = {c1}
  Manuals = {m1}
  ManualConfig <- ManualC1
  Releases = {}
  ReleaseConfig <- NoConfigs
  ReleaseVersion <- NoVersions
  StopFrom = {"running", "success"}
  RtFaults = {"agent"}
  RtMaxCrashes = 1
  Overlap = FALSE
  Concurrent = FALSE
PROPERTIES
  EveryJobSettles
  EveryRunEnds
CHECK_DEADLOCK FALSE
