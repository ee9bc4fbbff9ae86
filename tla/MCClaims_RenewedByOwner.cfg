SPECIFICATION Spec
CONSTANTS
  Sessions = {s1, s2}
  Ids = {1, 2}
  Kept = {}
  Symbols = {"a", "b", "/", "*"}
  Lanes <- MCLanes
  Files <- MCFiles
  Wildcard = "*"
  Slash = "/"
  RootOf <- OneRoot
  PidOf <- OnePid
  Expire = 2
  Throttle = 1
  None = None
PROPERTY RenewedByOwner
