SPECIFICATION FairSpec
CONSTANTS
  Routes = {"a", "b"}
  Hosts = {"x"}
  Hostnames <- MCHostnames
  FirstRules <- MCFirstRules
  OtherRules <- MCOtherRules
  MaxChanges = 0
  MaxFaults = 0
PROPERTY NeighbourSurvivesDeletion
\* The system stops once every route is gone.
CHECK_DEADLOCK FALSE
