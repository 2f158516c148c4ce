SPECIFICATION FairSpec
CONSTANTS
  Path = {r1}
  App = {}
  Press = {p1}
  Old = Old
  None = None
  StopWindow = 3
  OwnsRetry = 4
  SpontGap = 1
  MaxBackoff = 2
  MaxRePushes = 1
  MaxEvents = 2
INVARIANT StopsAreHeard
PROPERTY PathsEnd
CHECK_DEADLOCK FALSE
