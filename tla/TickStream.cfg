SPECIFICATION MCSpec
CONSTANTS
  None = None
  RunLength <- ThreeRuns
  MaxInFlight = 2
  InOrder = FALSE
  PulseFirst = FALSE
  Lossy = TRUE
INVARIANT TickAxisReconstructs
PROPERTIES StepsEachTickOnce FollowsOrderly
CHECK_DEADLOCK FALSE
