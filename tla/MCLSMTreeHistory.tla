-------------------------- MODULE MCLSMTreeHistory --------------------------
(* TLC instances of LSMTreeHistory.                                         *)
EXTENDS MCLSMTree, LSMTreeHistory
=============================================================================
