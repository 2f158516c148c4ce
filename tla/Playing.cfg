SPECIFICATION PlayingSpec
CONSTANTS
  QueueRepeats = {"off", "one"}
  TrackLen = 3
  QueueMargin = 1
  QueueEpsilon = 1
  QueueStall = 2
  MaxTracks = 2
  MaxCommands = 2
  MaxPushes = 2
  LapTracks = 3
  SleepMembers = {"m1", "m2"}
  MaxSleeps = 3
  Fetches = {f1, f2}
  Nobody = Nobody
  StreamMoves = 3
CHECK_DEADLOCK FALSE
INVARIANT PlayingInv
PROPERTIES   MovesOn
