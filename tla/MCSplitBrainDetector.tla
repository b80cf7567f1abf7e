------------------------ MODULE MCSplitBrainDetector ------------------------
(* TLC instances of SplitBrainDetector.                                     *)
EXTENDS SplitBrainDetector

MCConfigs == {DefaultConfig,
              [strategy |-> "STATIC_QUORUM", min |-> 2, witness |-> {}]}

\* No two disjoint parts of a cluster both have a quorum (QuorumIsExclusive):
\* a fact about calculate_quorum alone, looked at in the initial state.
NoTwoQuorums == Init => QuorumIsExclusive
=============================================================================
