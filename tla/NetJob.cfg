CONSTANTS
  InitialParts = 3
  Mirrors <- NoMirrors
  Injected = 0
  EmptyLists = FALSE
  MaxParallel = 2
  MaxFailures = 3
SPECIFICATION FairSpec
INVARIANTS TypeOK SlotsPartitioned RetriesBounded
PROPERTIES VerdictJustified JobFinishes ImplementsBatch
CHECK_DEADLOCK FALSE
