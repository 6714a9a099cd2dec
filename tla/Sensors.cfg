SPECIFICATION SensorsSpec
CONSTANTS
  NoSource = NoSource
  Keys <- SensorKeys
  Measured = {"range", "flag"}
  Threshold = 2
  Descriptors <- AllDescriptors
  Carries <- Traffic
  Every = 2
  MaxWindow = 2
  MaxTicks = 2
  MaxStreak = 3
INVARIANTS InputsAreSettled DebounceCountsTicks PoisonCostsOneWindow EchoAccounts FaultsBelievedOnTheirData
CHECK_DEADLOCK FALSE
