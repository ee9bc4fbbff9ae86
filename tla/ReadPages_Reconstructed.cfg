SPECIFICATION PagesSpec
CONSTANTS
  Bodies = {5036, 5037, 10072, 15108}
  Headers = {320, 321}
  Nudges = {0}
  MaxMoves = 1
INVARIANTS
  Reconstructed
CHECK_DEADLOCK FALSE
