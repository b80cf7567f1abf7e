CONSTANTS
  Ms = 2
  Drift = {0, 1}
  MaxDrift = 1
  Offset <- MCOffset
  Received <- MCReceived
  MaxReceived = 7
  MaxReceivedLogical = 2
  MaxTime = 3
  MaxLogical = 4
SPECIFICATION Spec
INVARIANTS AheadByDriftAtMost CausalUnlessAhead
PROPERTY TimestampsIncrease
