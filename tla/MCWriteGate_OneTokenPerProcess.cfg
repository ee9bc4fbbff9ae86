SPECIFICATION Spec
CONSTANTS
  Procs = {p1}
  Calls = {c1, c2, c3}
  Lessons = {l1}
  Decisions = {}
  Requests <- MCRequests
  None = None
SYMMETRY Symmetry
INVARIANT OneTokenPerProcess
CHECK_DEADLOCK FALSE
