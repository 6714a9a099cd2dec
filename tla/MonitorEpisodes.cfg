SPECIFICATION Spec
CONSTANTS
  None = None
  Phases <- SpecPhases
  FirstSpec = "nav"
  Valid = {"nav", "short", "flat", "typo"}
  Buildable = {"nav", "short", "flat"}
  Sinks = {"formula", "mode"}
  FromFile = TRUE
  Commands = {"arm", "pause", "resume"}
  Wires = {"observation"}
  Pushes = {"nav", "short", "typo", "bad"}
  Files = {"short", "flat", "typo"}
  Passive = FALSE
  StopOnViolation = TRUE
  StallTicks = 2
  ReadmitTicks = 3
  MaxSeq = 3
  MaxRun = 0
  MaxGap = 1
INVARIANTS RunEndsWithItsVerdict PhaseIndexInSpec
CHECK_DEADLOCK FALSE
