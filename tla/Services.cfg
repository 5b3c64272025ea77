SPECIFICATION Spec
CONSTANTS
  n1 = n1
  n2 = n2
  la = la
  lb = lb
  o1 = o1
  o2 = o2
  o3 = o3
  o4 = o4
  c1 = c1
  t1 = t1
  t2 = t2
  m1 = m1
  m2 = m2
  m3 = m3
  Parts = {"registry", "routing", "chat", "agent"}
  Instances = {n1, n2}
  Seeds = {n2}
  NoVariants = NoVariants
  Edits = {o1, o2, o3, o4}
  Calls = {c1}
  Mirrors = TRUE
  PFaults = {"db", "upstream", "crash"}
  Asks <- AskSet
  Turns = {t1, t2}
  MemoryLimit = 2
  ChatFaults = {"db", "upstream", "leaves", "crash"}
  Tools <- ToolList
  Unknown = Unknown
  MaxAgentSteps = 2
  StubMaxTools = 2
  AgentFaults = {"llm", "service", "db", "leaves", "crash"}
INVARIANTS
  TypeOK
  ChatInv
PROPERTIES
  HealthIsFollowed
  PolicyIsKept
  EveryCallIsSampled
  EveryTurnIsTraced
  DiagnosisIsKept
CHECK_DEADLOCK FALSE
