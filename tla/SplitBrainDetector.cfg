CONSTANTS
  Node = {n1, n2, n3}
  Configs <- MCConfigs
  MaxMissed = 1
  Age = {0, 2}
  MaxCalls = 1
SPECIFICATION FairSpec
INVARIANTS TypeOK IsolationIsReported DetectorKeepsMajority NoTwoQuorums
PROPERTIES LossIsReported StopReturnsUnlessIsolating
CHECK_DEADLOCK FALSE
