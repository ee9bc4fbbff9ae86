SPECIFICATION Spec
CONSTANTS
  Procs = {p1, p2}
  Calls = {c1, c2, c3}
  Lessons = {l1}
  Decisions = {}
  Requests <- MCRequests
  None = None
SYMMETRY Symmetry
INVARIANTS
  TypeOK
  CitationWasRead
  NovelWasSearched
  ReadsStayCitable
  CitableWasSurfaced
  TalliesAddUp
  SuccessesWereWritten
CHECK_DEADLOCK FALSE
