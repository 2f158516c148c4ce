SPECIFICATION GroupSpec
CONSTANTS
  Followers = {"f1", "f2"}
  MaxPlays = 2
  MaxOrders = 2
  MaxActs = 2
CHECK_DEADLOCK FALSE
 
PROPERTIES RoundLeavesOthers  MirrorComesBack
