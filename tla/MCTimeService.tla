--------------------------- MODULE MCTimeService ---------------------------
(* A TLC instance of TimeService.                                           *)
EXTENDS TimeService

CONSTANT Voter   \* indexes of the vectors the median is checked on

ASSUME VoterAssumption == IsFiniteSet(Voter)

MCLow == -1
MCSample == {-1, 1}

\* The middle of the offsets is where most of them are, however far off the
\* others may be ("更鲁棒than平均值", time_sync.cpp:549): a range that holds more
\* than half of the values holds what berkeley_algorithm makes of them, for
\* even and odd numbers of values and across the cut towards zero.  (It is about
\* median alone, so looking at it in the initial state is enough.)
MedianIsRobust ==
  Init =>
    \A S \in (SUBSET Voter) \ {{}} : \A f \in [S -> -2..2] : \A lo, hi \in -2..2 :
      2 * Cardinality({x \in S : f[x] \in lo..hi}) > Cardinality(S)
        => median(f) \in lo..hi
=============================================================================
