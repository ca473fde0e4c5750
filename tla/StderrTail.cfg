CONSTANTS
  Cap = 4
  MaxChunk = 6
  MaxTotal = 12
SPECIFICATION Spec
INVARIANTS KeepsLatest
PROPERTIES SnapshotExact
