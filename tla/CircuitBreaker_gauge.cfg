SPECIFICATION FairSpec
CONSTANTS
  Requests = {r1, r2}
  Threshold = 2
  Timeout = 1
  FailureCap = 3
INVARIANT GaugeTracksState
