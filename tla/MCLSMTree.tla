----------------------------- MODULE MCLSMTree -----------------------------
(* TLC instances of LSMTree.  Scans are checked on all small stacks of      *)
(* layers, once, in the initial state.                                      *)
EXTENDS LSMTree, TLC

CONSTANTS ScanKey, ScanValue, Depth   \* the layers that are scanned

ASSUME ScanAssumption ==
  /\ IsFiniteSet(ScanKey) /\ ScanKey \subseteq Int /\ Depth \in Nat
  /\ Tombstone \notin ScanValue /\ Absent \notin ScanValue

CONSTANTS Colon, Alias, Other   \* ("user:1", "a"), the key that its string is
                                \* read back as, and ("vip", "a")

Primary ==
  [k \in Key |-> CASE k = Colon -> <<"user", "1">> [] k = Alias -> <<"user">>
                   [] k = Other -> <<"vip">>]
Secondary == [k \in Key |-> IF k = Alias THEN <<"1", "a">> ELSE <<"a">>]

\* What lower_bound comes to when the index has the key: the entry put under
\* it, or else the only other that may be read back as it.  (The indexes of
\* these keys are sorted when they are read back, too.)
FirstFound(index, k) == IF k \in DOMAIN index /\ index[k] = k THEN k ELSE Colon

Symmetry == Permutations(Stamp) \cup Permutations(Closer)

Scan == INSTANCE RangeScan

\* range_scan answers as get does (RangeScan!ScanAgreesWithGet), so long as the
\* limit does not bind or nothing was deleted.
ScanAgreesWithGet == Init => Scan!ScanAgreesWithGet
=============================================================================
