SPECIFICATION SpeakerSpec
CONSTANTS
  AgentPushes = {"a1", "a2"}
  EnginePushes = {"e1"}
  MayOverlap = FALSE
  MaxFaults = 1
  KeySlotNumbers = {1, 2}
  Radios = {"r"}
  Playlists = {"p"}
  NativeFailureBudget = 2
  NativeDropBudget = 1
  MaxUpsets = 1
  BurstKinds = {"preset", "drop", "off", "stop", "on", "keys", "aux"}
  MaxBursts = 3
  Agents = {1, 2, 3}
  Checks = 3
  GraceChecks = 2
  FastCap = 1
  SelfhealMax = 1
  MaxAccidents = 1
CHECK_DEADLOCK FALSE
INVARIANTS SpeakerInv
PROPERTIES RebootsIntoUpdate SpeakerSettles 
