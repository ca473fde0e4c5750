SPECIFICATION Spec
CONSTANTS
  Source = {s1, s2}
  Host = {h1}
  Port = {p1, p2}
  Uid = {u1, u2, u3}
  None = None
  MaxTime = 2
  Time <- MCTime
  Log2 <- MCLog2
  DedupTtl = 1
  MaxDedupUids = 3
  ScanWindow = 1
  ScanCooldown = 2
  MinAttempts = 2
  MinPorts = 2
  MinHosts = 2
  MaxActiveSources = 2
  MaxAttemptsPerSource = 2
  MaxTotalAttempts = 3
  MaxCooldownSources = 1
  FloodWindow = 1
  FloodCooldown = 1
  MinEvents = 2
  MinSources = 2
  MaxActiveTargets = 2
  MaxEventsPerTarget = 2
  MaxTotalEvents = 2
  MaxCooldownTargets = 1
  MaxName = 1
  MaxLabel = 1
  RawName <- MCRawName
  Probability = {49, 85}
  Threshold = 50
SYMMETRY Symmetry
PROPERTIES EveryAlertReturned
