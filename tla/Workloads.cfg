SPECIFICATION Spec
CONSTANTS
  j1 = j1
  j2 = j2
  n1 = n1
  n2 = n2
  r1 = r1
  r2 = r2
  m1 = m1
  m2 = m2
  c1 = c1
  c2 = c2
  e1 = e1
  e2 = e2
  p1 = p1
  p2 = p2
  q1 = q1
  q2 = q2
  Parts = {"training", "benchmark", "runtime", "launch", "verdict", "traces", "scraper", "graph", "cadvisor"}
  Jobs = {j1, j2}
  Names = {n1, n2}
  NameOf <- OwnNames
  VersionOf <- OwnVersions
  CancelFrom = {"running", "succeeded", "failed", "cancelled"}
  Faults = {"crash", "db"}
  MaxCrashes = 1
  Runs = {r1, r2}
  Scenarios = 2
  BCancelFrom = {"running"}
  BFaults = {"crash", "panic", "db", "disconnect"}
  BMaxCrashes = 1
  Manuals = {m1, m2}
  Configs = {c1, c2}
  ManualConfig <- OwnConfigs
  NoConfig = NoConfig
  RtFaults = {"crash", "db", "agent", "docker", "lost_reply", "disconnect"}
  Overlap = FALSE
  RtMaxCrashes = 1
  Plan <- TwoPoints
  MaxNumSeqs = 16
  Missing = Missing
  Overrides <- SomeOverrides
  Declarations <- SomeDeclarations
  Nothing = Nothing
  Rates = {0, 98, 100}
  Memories = {50, 92, 96}
  Ttfts = {400, 3500, 6000}
  Tpots = {50, 160}
  EndpointIds = {e1, e2}
  NoEndpoint = NoEndpoint
  Latencies = {1, 4}
  NoLatency = NoLatency
  TraceLimit = 3
  MaxRows = 4
  RateWarns = 30
  RateIsCritical = 60
  LatencyWarns = 2
  LatencyIsCritical = 3
  Pods = {p1, p2}
  Unread = Unread
  MaxServed = 2
  MaxRestarts = 1
  ScrapeFaults = {"read"}
  Links = {"in"}
  Window = 3
  LastSecond = 6
  MaxWait = 1
  MaxSpans = 3
  Readers = {q1, q2}
  NoReading = NoReading
  LastTick = 4
  MaxFetch = 1
  MaxAge = 1
INVARIANTS
  TypeOK
  TrainingInv
  BenchmarkInv
  ManualSawItself
  JudgesAgree
  LaunchInv
  AggregatesInv
  QpsIsEarned
  WindowIsExact
  CpuIsEarned
PROPERTIES
  EndedStaysEnded
CHECK_DEADLOCK FALSE
