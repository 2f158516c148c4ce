SPECIFICATION UpdateSpec
CONSTANTS
  AgentPushes = {"a1", "a2"}
  EnginePushes = {"e1"}
  MayOverlap = TRUE
  MaxFaults = 0
CHECK_DEADLOCK FALSE
INVARIANT PartialNeverLive
