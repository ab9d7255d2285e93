SPECIFICATION FairSpec
CONSTANTS
  MaxFaults = 0
  MaxKills = 1
PROPERTY PodFollowsSecret
CHECK_DEADLOCK FALSE
