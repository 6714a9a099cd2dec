SPECIFICATION Spec
CONSTANTS
  None = None
  Clients = {c1, c2}
  Http = {h1}
  Deltas = {10, 20}
  Floor = 2
  Ceiling = 4
  Divisor = 5
  Capacity = 1
  MaxPulses = 2
  MaxRates = 1
INVARIANT ClientsHearEveryPulse
PROPERTIES TimerFollowsRate GoneClientLetsGo
CHECK_DEADLOCK FALSE
