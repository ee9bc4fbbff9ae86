SPECIFICATION Spec
CONSTANTS
  Sessions = {s1, s2}
  Ids = {1, 2}
  Kept = {}
  Symbols = {"a", "b", "/", "*"}
  Lanes <- MCLanes
  Files <- MCFiles
  Wildcard = "*"
  Slash = "/"
  RootOf <- OneRoot
  PidOf <- OwnPids
  Expire = 0
  Throttle = 0
  None = None
INVARIANT OverlapNudged
