SPECIFICATION FairSpec
CONSTANTS
  MaxFaults = 0
  MaxKills = 0
INVARIANT NoOrphanSite
CHECK_DEADLOCK FALSE
