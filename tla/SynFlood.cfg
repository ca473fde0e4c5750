SPECIFICATION Spec
CONSTANTS
  Source = {s1, s2}
  Host = {h1}
  Port = {p1, p2}
  Uid = {u1, u2, u3, u4}
  None = None
  MaxTime = 3
  Time <- MCTime
  Log2 <- MCLog2
  Window = 1
  DedupTtl = 1
  Cooldown = 3
  MinEvents = 2
  MinSources = 2
  MaxActiveTargets = 2
  MaxEventsPerTarget = 3
  MaxTotalEvents = 3
  MaxDedupUids = 3
  MaxCooldownTargets = 1
SYMMETRY Symmetry
INVARIANTS EvidenceIsValid NoDoubleCount TargetsMatchWindow
PROPERTIES ImplementsAbs
