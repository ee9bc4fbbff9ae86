SPECIFICATION Spec
CONSTANTS
  Debounce = 1
  Interval = 2
  MaxChanges = 2
  MaxBuilds = 1
  MaxFaults = 1
  Stoppers = {"k1", "k2"}
  MaxLaunches = 2
  Models = {"local"}
  MaxJobs = 2
  MaxRevisions = 2
  MaxSymbol = 2
  Floors <- MCFloors
  Recoveries <- MCRecoveries
  Demands = {0, 1, 3, 6}
  Budgets = {3, 5, 6, 7, 8, 11, 18}
  Bodies = {0, 1, 5036, 5037, 45324, 45325, 50330, 50331}
  Headers = {320, 321, 1001, 1002}
  Nudges = {0, 40, 600}
  MaxMoves = 1
INVARIANTS
  HostTypeOK
  EveryServerIsOnRecord
  PrimeFits
  PagesReconstruct
PROPERTIES
  EventuallyIndexed
  IndexNeverGoesBack
  PhasesEnd
  SavesWhatIsWanted
CHECK_DEADLOCK FALSE
