CONSTANTS
  Tx = {t1, t2}
  Key = {k1, k2}
  Thread = {p1, p2}
  None = None
  Request = {"SHARED", "EXCLUSIVE"}
  MaxLockId = 2
SPECIFICATION Spec
PROPERTY DeadlockIsReal
