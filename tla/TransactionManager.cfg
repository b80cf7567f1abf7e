CONSTANTS
  Tx = {t1, t2}
  Key = {k1}
  Thread = {p1, p2}
  None = None
  MaxLockId = 2
  Node = {n1}
  Isolation = {"READ_COMMITTED"}
  Asked = {}
SPECIFICATION Spec
INVARIANTS TypeOK HeldLocksAreHeld OrphanLocksOnlyAfterNoVote
PROPERTY FinishedStaysFinished
SYMMETRY Symmetry
CHECK_DEADLOCK FALSE
