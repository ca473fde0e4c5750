CONSTANTS
  Sub = 4
  Grid = 1
  ConfiguredWindow = 13
  MaxTime = 40
  MaxEvents = 4
SPECIFICATION Spec
INVARIANTS AlertFitsWindow
CHECK_DEADLOCK FALSE
