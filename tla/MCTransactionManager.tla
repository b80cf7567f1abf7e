----------------------- MODULE MCTransactionManager -----------------------
(* TLC instances of TransactionManager.                                     *)
EXTENDS TransactionManager, TLC

Symmetry == Permutations(Tx) \cup Permutations(Key) \cup Permutations(Thread)
=============================================================================
