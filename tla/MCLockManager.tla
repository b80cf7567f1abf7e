--------------------------- MODULE MCLockManager ---------------------------
(* TLC instances of LockManager.  Transactions, keys and threads are only   *)
(* compared for equality, so permuting them is a symmetry of the safety     *)
(* runs.                                                                    *)
EXTENDS LockManager, TLC

Symmetry == Permutations(Tx) \cup Permutations(Key) \cup Permutations(Thread)
=============================================================================
