SPECIFICATION GuardSpec
CONSTANTS
  Path = {r1, r2}
  FirstPath = r1
  MaxAttempts = 2
  Window = 3
  StableAfter = 1
  Epoch = 10
  ColdClock = TRUE
  NandMayFail = TRUE
  MaxTime = 1
  MaxBoots = 2
  MaxPlays = 1
CHECK_DEADLOCK FALSE
INVARIANTS CrashLoopEnds AttemptsBounded
PROPERTIES OnlyStabilityForgets GuardHeals
