CONSTANTS
  Components = 5
  MaxSignals = 4
SPECIFICATION FairSpec
INVARIANTS TypeOK AbortOnlyIfHurried CleanExit StatsThreadHasComponents
PROPERTY SignalEndsServer
CHECK_DEADLOCK FALSE
