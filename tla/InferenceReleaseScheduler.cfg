SPECIFICATION RelSpec
CONSTANTS
  m1 = m1
  a = a
  b = b
  c = c
  preset = preset
  sched = sched
  NoConfig = NoConfig
  NoRelease = NoRelease
  Configs = {preset, sched}
  Presets = {preset}
  Manuals = {}
  ManualConfig <- NoManual
  Releases = {a, b}
  ReleaseConfig <- SchedFirst
  ReleaseVersion <- TwoVersions
  StopFrom = {"success"}
  Overlap = FALSE
  RtFaults = {}
  RtMaxCrashes = 1
INVARIANTS
  FailedRestoresAny
CHECK_DEADLOCK FALSE
