\* setLatency called with smaller and larger values at any moment.
SPECIFICATION FairSpec
CONSTANTS
  InitialLatency = 2
  Latencies = {0, 1, 3}
  MaxPush = 3
  MaxTime = 4
INVARIANTS TypeOK NeverEarly PushOrder NothingLost ReadyItemIsFound
PROPERTIES EventuallyReleased IsDelayLine
