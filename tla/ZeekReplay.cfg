CONSTANTS
  MaxUnits = 5
  MaxErr = 2
  MaxTime = 2
  MaxAlerts = 2
  PipeCap = 2
  ErrCap = 1
  MaxLine = 2
  WaitTicks = 2
  ReserveTicks = 1
SPECIFICATION ZeekSpec
PROPERTIES ZeekReplaySucceeds
