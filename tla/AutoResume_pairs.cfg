SPECIFICATION Spec
CONSTANTS
  Path = {r1, r2}
  App = {a1}
  Press = {}
  Old = Old
  None = None
  StopWindow = 3
  OwnsRetry = 3
  SpontGap = 1
  MaxBackoff = 2
  MaxRePushes = 1
  MaxEvents = 1
SYMMETRY Symmetry
INVARIANTS OneRePusher
PROPERTIES  SleepersLeftAlone
CHECK_DEADLOCK FALSE
