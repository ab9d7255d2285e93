SPECIFICATION FairSpec
CONSTANTS
  Routes = {"a", "b"}
  Hosts = {"x"}
  Hostnames <- MCHostnames
  FirstRules <- MCFirstRules
  OtherRules <- MCOtherRules
  MaxChanges = 1
  MaxFaults = 1
INVARIANTS TypeOK NothingLeftBehind
PROPERTIES NeighbourUndisturbed RoutesServed DeletionCompletes
\* The system stops once every route is gone.
CHECK_DEADLOCK FALSE
