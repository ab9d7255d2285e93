SPECIFICATION FairSpec
CONSTANTS
  Endpoints = {"e1", "e2"}
  FirstWant = {"e1"}
  MaxEdits = 1
  MaxFaults = 1
  MaxKills = 1
INVARIANTS TypeOK AtMostOneResource
PROPERTIES ImplementsPromise MakeBeforeBreak RouteServed TrafficStopsUndisturbed DeletionCompletes
\* The system stops once the route is gone.
CHECK_DEADLOCK FALSE
