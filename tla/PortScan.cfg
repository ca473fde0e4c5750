SPECIFICATION Spec
CONSTANTS
  Source = {s1, s2, s3}
  Host = {h1, h2}
  Port = {p1}
  Uid = {u1, u2, u3, u4}
  None = None
  MaxTime = 3
  Time <- MCTime
  Window = 1
  DedupTtl = 2
  Cooldown = 3
  MinAttempts = 2
  MinPorts = 2
  MinHosts = 2
  MaxActiveSources = 2
  MaxAttemptsPerSource = 2
  MaxTotalAttempts = 3
  MaxDedupUids = 3
  MaxCooldownSources = 1
SYMMETRY Symmetry
INVARIANTS TypeOK EvidenceIsValid NoDoubleCount WindowSound SourcesMatchWindow TablesWithinLimits
PROPERTIES RejectionLeavesNoTrace AlertSpacing ImplementsAbs
