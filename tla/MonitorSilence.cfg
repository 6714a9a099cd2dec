SPECIFICATION Spec
CONSTANTS
  None = None
  Phases <- FlatPhases
  FirstSpec = "flat"
  Valid = {"flat"}
  Buildable = {"flat"}
  Sinks = {"mode"}
  FromFile = FALSE
  Commands = {"reset", "pause", "resume"}
  Wires = {"observation", "legacy"}
  Pushes = {}
  Files = {}
  Passive = TRUE
  StopOnViolation = FALSE
  StallTicks = 2
  ReadmitTicks = 3
  MaxSeq = 5
  MaxRun = 1
  MaxGap = 2
INVARIANT StallNeverMissed
PROPERTIES StallCountIsHonest DeliberateSilenceQuiet LegacyReadmittedOnTime
CHECK_DEADLOCK FALSE
