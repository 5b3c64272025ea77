SPECIFICATION RelSpec
CONSTANTS
  m1 = m1
  a = a
  b = b
  c = c
  preset = preset
  sched = sched
  NoConfig = NoConfig
  NoRelease = NoRelease
  Configs = {preset, sched}
  Presets = {preset}
  Manuals = {}
  ManualConfig <- NoManual
  Releases = {a, b, c}
  ReleaseConfig <- ThreeConfigs
  ReleaseVersion <- ThreeVersions
  StopFrom = {"success"}
  Overlap = FALSE
  RtFaults = {"crash"}
  RtMaxCrashes = 1
INVARIANTS
  ReleaseInv
  FailedRestores
PROPERTIES
  ReleaseStaysEnded
CHECK_DEADLOCK FALSE
