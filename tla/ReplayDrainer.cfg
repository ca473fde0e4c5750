CONSTANTS
  MaxUnits = 2
  MaxErr = 1
  MaxTime = 2
  MaxAlerts = 1
  PipeCap = 2
  ErrCap = 1
  MaxLine = 1
  WaitTicks = 2
  ReserveTicks = 1
SPECIFICATION PromptSpec
INVARIANTS NoDrainerLeft
