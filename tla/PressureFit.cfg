SPECIFICATION SearchSpec
CONSTANTS
  None = None
  MaxRepairs = 2
  Capacities = {3, 4, 5}
  Problems <- MCProblems
  Specs <- MCSpecs
CHECK_DEADLOCK TRUE
INVARIANTS
  PressureExact
  SchedulesValidate
  FloorSuffices
  AnalyticFitRuns
PROPERTIES
  SearchEnds
