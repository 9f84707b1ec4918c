CONSTANTS
  MaxLaunches = 2
  Settings <- AllSettings
  MayProfile <- FirstLaunch
SPECIFICATION FairSpec
INVARIANTS TypeOK RunningWhileBusy ConsoleIsSafe
PROPERTIES LaunchEnds KillEndsLaunch
CHECK_DEADLOCK FALSE
