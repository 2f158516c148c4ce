SPECIFICATION FairHealingSpec
CONSTANTS
  Press = {p1}
  App = {}
  None = None
  RadioTries = 1
  SpotifyTries = 1
  AppTries = 1
  NudgeTry = 1
  MaxEvents = 0
  Asker = {a1}
  Slot = {s1, s2}
  MaxCycles = 2
  MaxBoxEvents = 0
  MaxFaults = 1
PROPERTIES KeysComeBack LoopRests
