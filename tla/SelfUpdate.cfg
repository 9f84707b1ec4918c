CONSTANTS
  Paths = {1, 2, 3, 4}
  Builds <- AllBuilds
  Updates <- MCUpdates
  Updaters <- OnlyThree
  MaxUpdates = 2
  MaxShort = 1
SPECIFICATION FairSpec
INVARIANTS TypeOK OriginalsKept EndsAsReported
PROPERTIES UpdaterEnds
CHECK_DEADLOCK FALSE
