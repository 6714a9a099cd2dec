SPECIFICATION LoopSpec
CONSTANTS
  None = None
  WarnSteps = 3
  Specs = {nav}
  FirstSpec = nav
  Pushes = {}
  Passive = FALSE
  Breaches = {"live", "elsewhere"}
  MaxWire = 2
  MaxLag = 1
  MaxQueue = 1
PROPERTIES SafetyFaultHoldsRobot
CHECK_DEADLOCK FALSE
