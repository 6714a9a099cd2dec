SPECIFICATION Spec
CONSTANTS
  None = None
  Pages = {p1}
  Operators = {o1, o2}
  Commands = {"reset", "pause"}
  Aps = {"collision_risk"}
  CollisionRisk = "collision_risk"
  Blind <- Blinds
  Specs <- AllSpecs
  Shipped <- ShippedSpec
  MaxSeq = 3
  MaxCommands = 2
SYMMETRY Handlers
INVARIANTS
  NewestIsHeard
  SinkHolds
  StepWithinEpisode
CHECK_DEADLOCK FALSE
