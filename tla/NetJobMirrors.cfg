CONSTANTS
  InitialParts = 2
  Mirrors <- SecondIsMirrors
  Injected = 2
  EmptyLists = TRUE
  MaxParallel = 2
  MaxFailures = 1
SPECIFICATION FairSpec
INVARIANTS VerdictSettles
PROPERTIES EveryPartSettles
CHECK_DEADLOCK FALSE
