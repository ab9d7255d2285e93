SPECIFICATION FairSpec
CONSTANTS
  MaxFaults = 2
  MaxKills = 1
INVARIANTS TypeOK AtMostOneSite
PROPERTIES ImplementsPromise LiveGatewayKeepsSite SecretBeforeLabel EventuallyProgrammed DeletionCompletes
\* The system stops once the Gateway is gone and collected.
CHECK_DEADLOCK FALSE
