CONSTANT Tx = {s1, s2, s3, s4}
SPECIFICATION FairSpec
INVARIANTS SearchIsExact PathIsTheCycle
PROPERTY SearchReturns
CHECK_DEADLOCK FALSE
