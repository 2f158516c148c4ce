SPECIFICATION AppSpec
CONSTANTS
  Presses = {"p"}
  MaxPresses = 2
  Rooms = {"wide", "tight", "full"}
  UploadAttempts = 2
  EnginePasses = 2
  MaxReboots = 1
  MaxLaunches = 1
  Devices = {"a"}
  Hosts = {1, 2}
  Scans = {"s"}
  Races = FALSE
  Reuse = FALSE
  MaxEvents = 2
  Overlap = FALSE
  MaxInstalls = 2
  MaxTroubles = 1
CHECK_DEADLOCK FALSE
 
PROPERTIES VerdictTrue UpdateEnds 
