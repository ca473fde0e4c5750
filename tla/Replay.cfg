CONSTANTS
  MaxUnits = 3
  MaxErr = 1
  MaxTime = 2
  MaxAlerts = 1
  PipeCap = 2
  ErrCap = 1
  MaxLine = 2
  WaitTicks = 2
  ReserveTicks = 1
SPECIFICATION CliSpec
INVARIANTS TypeOK SuccessIsComplete DiagnosisIsTrue ChildReaped NoFreshBudget StatusIsTrue
PROPERTIES LateMeansLate Ends DrainerEnds
