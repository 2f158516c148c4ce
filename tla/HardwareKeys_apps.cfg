SPECIFICATION FairRecallSpec
CONSTANTS
  Press = {p1}
  App = {a1, a2}
  None = None
  RadioTries = 1
  SpotifyTries = 2
  AppTries = 2
  NudgeTry = 1
  MaxEvents = 0
  Asker = {k1}
  Slot = {s1}
  MaxCycles = 0
  MaxBoxEvents = 0
  MaxFaults = 0
INVARIANTS OneOwner 
PROPERTIES ImplementsPushBudget EveryPlayEnds 
CHECK_DEADLOCK FALSE
