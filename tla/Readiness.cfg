SPECIFICATION RFairSpec
CONSTANTS
  Requests = {r1, r2, r3}
  Threshold = 2
  Timeout = 2
  FailureCap = 3
  Probes = {p1, p2}
  CacheTTL = 2
  ErrorTTL = 1
INVARIANTS TypeOK CountMatchesState OnePingAtATime
PROPERTIES OneFailureEndsProbing ImplementsPromise RecoversWithApi ReadyWithApi
