SPECIFICATION Spec
CONSTANTS
  None = None
  Periods = {1, 2}
  Modes = {"wall", "manual"}
  Boot = 1
  Hold = 0
  MaxTime = 3
  MaxSeq = 2
INVARIANT NeverAheadOfClock
PROPERTIES PulsesAdvance SkipsOnlyLostTime
CHECK_DEADLOCK FALSE
