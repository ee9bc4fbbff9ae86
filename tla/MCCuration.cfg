SPECIFICATION Spec
CONSTANTS
  Decisions = {d1}
  Lessons = {l1, l2}
  Rows = {1, 2}
  Edges = {1}
  Agents = {o1}
  Operators = {o1, o2}
  Tellers = {o2}
  Threshold = 1
  None = None
INVARIANTS
  TypeOK
  OneRule
  OneOpenQuestion
PROPERTIES
  AtomicVerdicts
CONSTRAINT Small
SYMMETRY Symmetry
CHECK_DEADLOCK FALSE
