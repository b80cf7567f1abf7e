CONSTANTS
  Node = {n1, n2}
  Low <- MCLow
  High = 1
  Sample <- MCSample
  Manual = {0}
  MinSamples = 1
  ConfidentCount = 2
  NtpEnabled = TRUE
  Voter = {v1, v2, v3, v4}
SPECIFICATION FairSpec
INVARIANTS TypeOK OffsetWithinSamples RemovedNodeIsNotTrusted MedianIsRobust
PROPERTY StopReturnsUnlessInRound
CHECK_DEADLOCK FALSE
