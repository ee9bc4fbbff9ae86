SPECIFICATION Spec
CONSTANTS
  Decisions = {d1, d2}
  Lessons = {}
  Rows = {}
  Edges = {1}
  Agents = {o1}
  Operators = {}
  Tellers = {o2}
  Threshold = 1
  None = None
INVARIANTS
  CountersMatchRows
CHECK_DEADLOCK FALSE
