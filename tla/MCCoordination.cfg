SPECIFICATION Spec
CONSTANTS
  BoardProcs = {"p", "q"}
  BoardCalls = {"c1", "c2", "c3"}
  BoardProcOf <- MCBoardProcOf
  Bodies = {a, b}
  MaxPosts = 3
  Statuses = {"draft", "approved", "executing"}
  Reviewers = {r1, r2}
  Runs = {"l"}
  MaxPasses = 2
  MaxEdits = 1
  IdeaCalls = {"i1", "i2"}
  Columns <- MCColumns
  Parked <- MCParked
  MaxIdeas = 2
  MaxIdeaWrites = 2
  TaskCalls = {"t1", "t2"}
  Checklist = 2
  MaxClicks = 4
  ShareCalls = {"s1", "s2"}
  MaxShares = 2
  MaxTexts = 1
  Hooks = {"h"}
  Sweeps = {w1, w2}
  Forced = {"h"}
  Lines <- MCLines
  MaxThinking = 1
  MaxFile = 3
  MaxWrites = 3
  MaxMtime = 1
INVARIANTS
  CoordinationTypeOK
  StoredOnce
  ReplyCloses
  SkippedOnlyIfOvertaken
  RefusedOnlyIfOvertakenTwice
  OneOpenNote
  DecisionStands
  RanksDistinct
  ReorderReplacesShown
  TrailTellsGrants
  NoCircle
  NothingSkipped
PROPERTIES
  ImplementsLedger
  RemovesWhatWasShown
  CopiesWhatStands
SYMMETRY Symmetry
CONSTRAINT TwoIngests
CHECK_DEADLOCK FALSE
