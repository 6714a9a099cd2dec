SPECIFICATION Spec
CONSTANTS
  None = None
  Aps = {"a", "b"}
  Spec0 = "until"
  Automata <- Translated
  Observable <- Evaluated
  Commands = {"reset", "pause"}
  StallTicks = 2
  MaxInputs = 4
  MaxRuns = 2
INVARIANTS ReplayAgrees RequiredApsSuffice StatusIsJust
PROPERTIES ReplayEnds
CHECK_DEADLOCK FALSE
