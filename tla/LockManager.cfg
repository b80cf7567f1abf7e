CONSTANTS
  Tx = {t1, t2, t3}
  Key = {k1, k2}
  Thread = {p1, p2}
  None = None
  Request = {"SHARED", "EXCLUSIVE", "INTENTION_EXCLUSIVE"}
  MaxLockId = 3
SPECIFICATION Spec
INVARIANTS IndexesAgree HoldersCompatible WaitGraphAcyclic
SYMMETRY Symmetry
