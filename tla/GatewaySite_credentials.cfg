SPECIFICATION FairSpec
CONSTANTS
  MaxFaults = 0
  MaxKills = 1
PROPERTY CredentialsPreserved
CHECK_DEADLOCK FALSE
