SPECIFICATION Spec
CONSTANTS
  tx1 = tx1
  tx2 = tx2
  tx3 = tx3
  v1 = v1
  i1 = i1
  i2 = i2
  i3 = i3
  w1 = w1
  q1 = q1
  q2 = q2
  s1 = s1
  s2 = s2
  gw = gw
  rr = rr
  direct = direct
  ta = ta
  tb = tb
  p1 = p1
  p2 = p2
  a1 = a1
  a2 = a2
  a3 = a3
  k1 = k1
  g1 = g1
  g2 = g2
  h1 = h1
  h2 = h2
  h3 = h3
  b1 = b1
  o1 = o1
  m1 = m1
  u1 = u1
  u2 = u2
  va = va
  vb = vb
  vc = vc
  r1 = r1
  r2 = r2
  r3 = r3
  f1 = f1
  l1 = l1
  l2 = l2
  d1 = d1
  d2 = d2
  Parts = {"config", "incidents", "archiver", "endpoints", "cache", "bucket", "knowledge", "models", "container"}
  Txs = {tx1, tx2, tx3}
  First = v1
  Ids = {i1, i2, i3}
  Loads = {w1}
  Diagnoses = {q1, q2}
  About <- AboutW1
  AckFrom = {"open", "acknowledged"}
  IFaults = {"db", "ai"}
  NoIncident = NoIncident
  MaxRow = 3
  BatchLimit = 3
  Sweeps = {s1, s2}
  AFaults = {"blob", "lost_reply", "db", "crash"}
  Gateway = gw
  RoundRobin = rr
  Candidates <- CandidateList
  Targets <- TargetList
  Proxied = {p1, p2}
  Restless = {gw}
  EFaults = {"db", "upstream"}
  Posts = {a1, a2, a3}
  KeyOf <- SomeKeys
  NoKey = NoKey
  Gets = {g1, g2}
  CFaults = {"redis", "leaves", "refused"}
  Cost = 2
  Burst = 1
  MaxDelay = 1
  Hits = {h1, h2, h3}
  MaxTime = 4
  BucketFaults = {"redis"}
  BenchDocs <- BenchList
  OtherDocs <- OtherList
  Manual = {m1}
  Writers = {u1, u2}
  KbVersions = {"default", "v2"}
  Default = "default"
  MaxText = 2
  KbFaults = {"ai", "db", "leaves"}
  Versions = {va, vb, vc}
  RowsOf = {r1, r2, r3}
  Files = {f1}
  Uploads = {u1, u2}
  NoVersion = NoVersion
  NoObject = NoObject
  ModelFaults = {"blob", "lost_reply", "db"}
  Starts = {s1, s2}
  Stops = {d1, d2}
  Launches = {l1, l2}
  WantOf <- WantOwn
  Baseline = l1
  NoOne = NoOne
  MaxAttempts = 2
  EngineFaults = {"docker", "leaves", "exits"}
INVARIANTS
  TypeOK
  ConfigInv
  IncidentInv
  ArchiveInv
  ChoiceInv
  CacheInv
  RateIsBounded
  IndexInv
  ModelInv
  SlotInv
CHECK_DEADLOCK FALSE
