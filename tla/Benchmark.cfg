SPECIFICATION Spec
CONSTANTS
  Packaged <- MCPackaged
  Snapshots <- MCSnapshots
  BenignLimit = 3
  FamilyLimit = 2
  TestBenign <- MCTestBenign
  ShuffledFamilies <- MCShuffled
  MaxRuns = 3
  Flags <- MCFlags
  BenignName = "b"
  VerifiedName = "v"
  Candidates <- MCCandidates
  Captures <- MCCaptures
  MaxMeasured = 5
  SinkCap = 1
  MaxChanges = 1
INVARIANTS LoadedModelIsAccountedFor MetadataIsTrue ReplayedIsValidated ReportIsHonest
PROPERTIES BenchmarkEnds
CHECK_DEADLOCK FALSE
