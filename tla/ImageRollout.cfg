SPECIFICATION RFairSpec
CONSTANTS
  d1 = d1
  d2 = d2
  old = old
  new = new
  bad = bad
  Nothing = Nothing
  Rows = {d1, d2}
  Workloads <- AllWorkloads
  Images = {old, new, bad}
  Broken = {bad}
  Offered <- SomeImages
  Current = old
  Serving = {"vllm"}
  Allowlist = {"app", "kube-system"}
  Hpas = {"web"}
  ScaleTo = {0}
  Judged = {d1}
  RFaults = {"k8s", "lost_reply", "db", "panic", "crash"}
INVARIANTS
  RolloutInv
PROPERTIES
  RolloutSteps
  ImplementsLedger
  EveryRolloutSettles
CHECK_DEADLOCK FALSE
