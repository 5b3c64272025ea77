SPECIFICATION RelFairSpec
CONSTANTS
  m1 = m1
  a = a
  b = b
  c = c
  preset = preset
  sched = sched
  NoConfig = NoConfig
  NoRelease = NoRelease
  Configs = {preset, sched}
  Presets = {preset}
  Manuals = {m1}
  ManualConfig <- OneManual
  Releases = {a}
  ReleaseConfig <- OneConfig
  ReleaseVersion <- OneVersion
  StopFrom = {"running", "success"}
  Overlap = TRUE
  RtFaults = {"agent"}
  RtMaxCrashes = 1
PROPERTIES
  EveryLaunchSettles
CHECK_DEADLOCK FALSE
