SPECIFICATION Spec
CONSTANTS
  None = None
  h1 = h1
  h2 = h2
  h3 = h3
  Handlers <- Connections
  Mixes <- ClientMixes
  Specs = {nav, pick}
  MaxLen = 2
  MaxRequests = 2
  MaxStreams = 1
  MaxFrames = 5
  MaxWire = 1
INVARIANTS BudgetsAreThreads LonePushIsCertain
PROPERTIES StreamsCountLoss SlotsComeBack
CHECK_DEADLOCK FALSE
