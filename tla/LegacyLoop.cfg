SPECIFICATION LoopSpec
CONSTANTS
  None = None
  WarnSteps = 3
  Specs = {nav, pick}
  FirstSpec = nav
  Pushes = {pick}
  Passive = FALSE
  Breaches = {"live", "dead", "elsewhere"}
  MaxWire = 2
  MaxLag = 1
  MaxQueue = 1
INVARIANT NoBacklogOutlivesIdle
PROPERTIES RunsOnItsOwnEvaluations HaltStopsEvaluator HealthyRobotReleased
CHECK_DEADLOCK FALSE
