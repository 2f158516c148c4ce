SPECIFICATION KeysSpec
CONSTANTS
  Press = {p1, p2}
  App = {}
  None = None
  RadioTries = 2
  SpotifyTries = 2
  AppTries = 1
  NudgeTry = 2
  MaxEvents = 1
  Asker = {a1, a2}
  Slot = {s1}
  MaxCycles = 1
  MaxBoxEvents = 2
  MaxFaults = 1
SYMMETRY AskerSymmetry
INVARIANTS LatePushAtMostOnce  RoutineStampBacked
CHECK_DEADLOCK FALSE
