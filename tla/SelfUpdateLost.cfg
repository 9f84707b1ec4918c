CONSTANTS
  Paths = {1, 2, 3, 4}
  Builds <- AllBuilds
  Updates <- MCUpdates
  Updaters <- OnlyThree
  MaxUpdates = 2
  MaxShort = 1
SPECIFICATION Spec
INVARIANT NoFileLost
CHECK_DEADLOCK FALSE
