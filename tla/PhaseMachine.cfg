SPECIFICATION Spec
CONSTANTS
  None = None
  WarnSteps = 1
  Phases <- TwoPhases
  Modes <- SafetyModes
  Sources = {"camera", "imu"}
  MaxTicks = 5
INVARIANTS OneDecision PhaseClock ProgressFaultEarned
PROPERTIES ProvenBreachEndsRun PhasesInOrder
CHECK_DEADLOCK FALSE
