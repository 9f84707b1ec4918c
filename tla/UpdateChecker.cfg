CONSTANTS
  stable = stable
  develop = develop
  Channels <- MCChannels
  Nobody = Nobody
  Lists <- AnyList
  Faults <- AllFaults
  MaxLoads = 2
  MaxChecks = 2
SPECIFICATION FairSpec
INVARIANTS TypeOK OnlyWhatWasAsked NullOnlyByDialogs
PROPERTIES ChecksReport
CHECK_DEADLOCK FALSE
