SPECIFICATION FairSpec
CONSTANTS
  Endpoints = {"e1", "e2"}
  FirstWant = {"e1"}
  MaxChanges = 1
  MaxFaults = 2
INVARIANTS TypeOK AtMostOneRecreated
PROPERTIES ImplementsPromise RouteServedUndisturbed StatusSettles DeletionCompletes
\* The system stops once the route is gone.
CHECK_DEADLOCK FALSE
