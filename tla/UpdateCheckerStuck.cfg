CONSTANTS
  stable = stable
  develop = develop
  Channels <- MCChannels
  Nobody = Nobody
  Lists <- AnyList
  Faults <- AllFaults
  MaxLoads = 2
  MaxChecks = 2
SPECIFICATION Spec
INVARIANT CheckingMeansCheck
CHECK_DEADLOCK FALSE
