SPECIFICATION FairSpec
CONSTANTS
  Sessions = {s1, s2}
  Ids = {1}
  Kept = {s1}
  Symbols = {"a", "b", "/", "*"}
  Lanes <- MCLane
  Files <- MCFiles
  Wildcard = "*"
  Slash = "/"
  RootOf <- OneRoot
  PidOf <- OwnPids
  Expire = 3
  Throttle = 2
  None = None
PROPERTIES
  WorkingLeaseHeld
  CrashedLeaseLapses
