---------------------------- MODULE MCHybridClock ---------------------------
(* A TLC instance of HybridClock.                                           *)
EXTENDS HybridClock

CONSTANTS MaxReceived,        \* bound on the physical time of a peer
          MaxReceivedLogical  \* bound on its logical time

MCOffset == {-1, 0}
MCReceived == [p : 0..MaxReceived, l : 0..MaxReceivedLogical]
=============================================================================
