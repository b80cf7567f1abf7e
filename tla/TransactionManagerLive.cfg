CONSTANTS
  Tx = {t1, t2}
  Key = {k1}
  Thread = {p1, p2}
  None = None
  MaxLockId = 1
  Node = {}
  Isolation = {"READ_UNCOMMITTED", "READ_COMMITTED"}
  Asked = {"INTENTION_SHARED"}
SPECIFICATION FairSpec
PROPERTIES LockManagerSpec LockingCallReturns StopReturnsUnlessCleanupBlocked
CHECK_DEADLOCK FALSE
