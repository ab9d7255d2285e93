SPECIFICATION FairSpec
CONSTANTS
  Routes = {"a"}
  Hosts = {"x"}
  Hostnames <- MCOneHostname
  FirstRules <- MCTwinRules
  OtherRules <- MCNoOtherRules
  MaxChanges = 0
  MaxFaults = 0
PROPERTY EveryRuleHasATarget
\* The system stops once every route is gone.
CHECK_DEADLOCK FALSE
