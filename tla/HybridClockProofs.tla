------------------------- MODULE HybridClockProofs -------------------------
(***************************************************************************)
(* Proofs about HybridClock, for every granularity of the clock, drift     *)
(* limit, set of offsets and set of received timestamps.                   *)
(***************************************************************************)
EXTENDS HybridClock, TLAPS

\* A distance that is at most k whole units is shorter than k + 1 units: what
\* the cut of duration_cast in update_logical_clock lets through.
LEMMA DivisionBound ==
  ASSUME NEW d \in Nat, NEW m \in Nat \ {0}, NEW k \in Nat, d \div m <= k
  PROVE  d < (k + 1) * m
<1> DEFINE q == d \div m
<1>1. q \in Nat /\ d < (q + 1) * m
  BY Z3
<1>2. (q + 1) * m <= (k + 1) * m
  BY <1>1, Z3
<1> QED
  BY <1>1, <1>2, Z3

\* The synchronized time is a number.
LEMMA SynchronizedTimeInt ==
  ASSUME system_clock \in 0..MaxTime, local_offset \in Offset
  PROVE  now_synchronized \in Int
BY MsAssumption, OffsetAssumption, BoundAssumption, Z3 DEF now_synchronized

\* The clock is ahead of the synchronized time by a bounded distance; and while
\* no peer was ahead and nothing was set back, it is not ahead at all.
ClockInv ==
  /\ TypeOK
  /\ AheadByDriftAtMost
  /\ CausalUnlessAhead
  /\ now_synchronized <= peak
  /\ tame => hlc_enabled /\ hlc.p <= now_synchronized

\* A received timestamp within the drift limit is merged below the bound.
LEMMA MergedBound ==
  ASSUME TypeOK, now_synchronized <= peak, NEW r \in Received
  PROVE  /\ merged(r) \in Timestamp
         /\ merged(r).p < peak + (MaxDrift + 1) * Ms
<1> DEFINE S == now_synchronized
           B == (MaxDrift + 1) * Ms
<1>1. S \in Int /\ r \in Timestamp /\ B \in Int /\ B > 0
  BY SynchronizedTimeInt, ReceivedAssumption, MaxDriftAssumption, MsAssumption, Z3
     DEF TypeOK
<1>2. peak \in Int /\ hlc \in Timestamp /\ S <= peak
  BY DEF TypeOK
<1>d. max_clock_drift \in Nat /\ max_clock_drift <= MaxDrift
  BY MaxDriftAssumption DEF TypeOK
<1>3. CASE S >= r.p
  <2>1. merged(r) = [p |-> S, l |-> Greater(hlc.l, r.l) + 1]
    BY <1>3 DEF merged
  <2>2. Greater(hlc.l, r.l) \in Nat
    BY <1>1, <1>2 DEF Greater, Timestamp
  <2> HIDE DEF S, B
  <2> QED
    BY <1>1, <1>2, <2>1, <2>2 DEF Timestamp, B
<1>4. CASE S < r.p /\ (r.p - S) \div Ms > max_clock_drift
  <2>1. ~(S >= r.p) /\ r.p \in Int
    BY <1>1, <1>4 DEF Timestamp
  <2>2. merged(r) = [p |-> S, l |-> r.l + 1]
    BY <1>4, <2>1 DEF merged
  <2> HIDE DEF S, B
  <2> QED
    BY <1>1, <1>2, <2>2 DEF Timestamp, B
<1>5. CASE S < r.p /\ ~((r.p - S) \div Ms > max_clock_drift)
  <2>1. ~(S >= r.p) /\ r.p \in Int /\ r.p - S \in Nat
    BY <1>1, <1>5 DEF Timestamp
  <2>2. merged(r) = [p |-> r.p, l |-> r.l + 1]
    BY <1>5, <2>1 DEF merged
  <2>3. (r.p - S) \div Ms \in Int
    BY <2>1, MsAssumption, Z3
  <2>4. (r.p - S) \div Ms <= MaxDrift
    BY <2>3, <1>5, <1>d, MaxDriftAssumption
  <2>5. r.p - S < B
    BY <2>1, <2>4, DivisionBound, MsAssumption, MaxDriftAssumption
  <2> HIDE DEF S, B
  <2> QED
    BY <1>1, <1>2, <2>1, <2>2, <2>5 DEF Timestamp, B
<1> QED
  BY <1>1, <1>3, <1>4, <1>5 DEF Timestamp

LEMMA ClockInit == Init => ClockInv
<1> SUFFICES ASSUME Init PROVE ClockInv
  OBVIOUS
<1>1. system_clock \in Int /\ system_clock \in 0..MaxTime
  BY BoundAssumption DEF Init
<1>2. now_synchronized = system_clock
  BY <1>1, MsAssumption, Z3 DEF Init, now_synchronized
<1>3. (MaxDrift + 1) * Ms > 0 /\ (MaxDrift + 1) * Ms \in Int
  BY MaxDriftAssumption, MsAssumption, Z3
<1>4. hlc = [p |-> system_clock, l |-> 1] /\ past = [p |-> system_clock, l |-> 0]
  BY DEF Init
<1>5. TypeOK
  BY <1>1, <1>4, OffsetAssumption DEF Init, TypeOK, Timestamp
<1>6. AheadByDriftAtMost
  BY <1>1, <1>3, <1>4 DEF Init, AheadByDriftAtMost
<1>7. CausalUnlessAhead
  BY <1>1, <1>4 DEF CausalUnlessAhead, Before
<1> QED
  BY <1>1, <1>2, <1>4, <1>5, <1>6, <1>7 DEF ClockInv, Init

\* Facts about the order of timestamps.
LEMMA OrderFacts ==
  ASSUME NEW a \in Timestamp, NEW b \in Timestamp
  PROVE  /\ Later(a, b) \in Timestamp /\ Ticked(a) \in Timestamp
         /\ Before(a, Ticked(a))
         /\ NotAfter(a, b) \/ Before(b, a)
BY DEF Later, Ticked, Before, NotAfter, Timestamp

LEMMA BeforeLater ==
  ASSUME NEW a \in Timestamp, NEW b \in Timestamp, NEW c \in Timestamp,
         Before(a, c), Before(b, c)
  PROVE  Before(Later(a, b), c)
BY DEF Later, Before, Timestamp

LEMMA BeforeTransitive ==
  ASSUME NEW a \in Timestamp, NEW b \in Timestamp, NEW c \in Timestamp,
         Before(a, b), Before(b, c)
  PROVE  Before(a, c)
BY DEF Before, Timestamp

\* now_logical on an enabled clock: the clock advances, and not beyond the
\* bound.
LEMMA Incremented ==
  ASSUME TypeOK, now_synchronized <= peak, AheadByDriftAtMost
  PROVE  /\ increment_logical_clock \in Timestamp
         /\ Before(hlc, increment_logical_clock)
         /\ increment_logical_clock.p < peak + (MaxDrift + 1) * Ms
         /\ now_logical \in Timestamp
         /\ now_logical.p < peak + (MaxDrift + 1) * Ms
         /\ hlc.p <= now_synchronized => increment_logical_clock.p = now_synchronized
<1> DEFINE S == now_synchronized
           B == (MaxDrift + 1) * Ms
<1>1. S \in Int /\ B \in Int /\ B > 0
  BY SynchronizedTimeInt, MaxDriftAssumption, MsAssumption, Z3 DEF TypeOK
<1>2. peak \in Int /\ hlc \in Timestamp /\ S <= peak /\ hlc.p < peak + B
  BY DEF TypeOK, AheadByDriftAtMost
<1>3. increment_logical_clock = IF S > hlc.p THEN [p |-> S, l |-> 0] ELSE Ticked(hlc)
  BY DEF increment_logical_clock
<1>4. now_logical = IF hlc_enabled THEN increment_logical_clock ELSE [p |-> S, l |-> 0]
  BY DEF now_logical
<1> HIDE DEF S, B
<1>5. /\ increment_logical_clock \in Timestamp
      /\ Before(hlc, increment_logical_clock)
      /\ increment_logical_clock.p < peak + B
      /\ hlc.p <= S => increment_logical_clock.p = S
  BY <1>1, <1>2, <1>3 DEF Before, Ticked, Timestamp
<1>6. now_logical \in Timestamp /\ now_logical.p < peak + B
  <2>1. CASE hlc_enabled
    BY <2>1, <1>4, <1>5
  <2>2. CASE ~hlc_enabled
    BY <2>2, <1>1, <1>2, <1>4 DEF Timestamp
  <2> QED
    BY <2>1, <2>2
<1> QED
  BY <1>5, <1>6 DEF S, B

\* Moving the synchronized time keeps the invariant.
LEMMA TimeMovedStep ==
  ASSUME ClockInv, TimeMoved, UNCHANGED <<config, hlc, latest, past, calls>>,
         system_clock' \in 0..MaxTime, local_offset' \in Offset
  PROVE  ClockInv'
<1> DEFINE S == now_synchronized
           B == (MaxDrift + 1) * Ms
<1>1. S \in Int /\ B \in Int
  BY SynchronizedTimeInt, MaxDriftAssumption, MsAssumption, Z3 DEF ClockInv, TypeOK
<1>2. S' \in Int
  BY MsAssumption, OffsetAssumption, BoundAssumption, Z3 DEF now_synchronized
<1>3. /\ peak \in Int /\ hlc \in Timestamp /\ latest \in Timestamp
      /\ hlc.p < peak + B /\ latest.p < peak + B
      /\ S <= peak /\ tame \in BOOLEAN
      /\ tame => hlc_enabled /\ hlc.p <= S
  BY DEF ClockInv, TypeOK, AheadByDriftAtMost
<1>4. peak' = Greater(peak, S') /\ tame' = (tame /\ S' >= S)
  BY DEF TimeMoved
<1> HIDE DEF S, B
<1>5. peak' \in Int /\ peak' >= peak /\ S' <= peak'
  BY <1>1, <1>2, <1>3, <1>4 DEF Greater
<1>6. tame' \in BOOLEAN /\ (tame' => tame /\ S' >= S)
  BY <1>4
<1>7. TypeOK'
  BY <1>5, <1>6 DEF ClockInv, TypeOK, config
<1>8. hlc'.p < peak' + B /\ latest'.p < peak' + B
  BY <1>1, <1>3, <1>5 DEF Timestamp
<1>9. tame' => hlc_enabled' /\ hlc'.p <= S'
  <2> SUFFICES ASSUME tame' PROVE hlc_enabled' /\ hlc'.p <= S'
    OBVIOUS
  <2>1. hlc_enabled /\ hlc.p <= S /\ S <= S'
    BY <1>1, <1>2, <1>3, <1>6
  <2> QED
    BY <2>1, <1>1, <1>2, <1>3 DEF Timestamp, config
<1>10. CausalUnlessAhead'
  BY <1>6 DEF ClockInv, CausalUnlessAhead, Before
<1> QED
  BY <1>5, <1>7, <1>8, <1>9, <1>10 DEF ClockInv, AheadByDriftAtMost, S, B

\* The timestamp generate_timestamp gives is after the latest one and within
\* the bound.
LEMMA Succeeds ==
  ASSUME ClockInv
  PROVE  /\ successor(now_logical) \in Timestamp
         /\ Before(latest, successor(now_logical))
         /\ successor(now_logical).p < peak + (MaxDrift + 1) * Ms
<1>1. /\ now_logical \in Timestamp /\ latest \in Timestamp
      /\ now_logical.p < peak + (MaxDrift + 1) * Ms
      /\ latest.p < peak + (MaxDrift + 1) * Ms
  BY Incremented DEF ClockInv, AheadByDriftAtMost, TypeOK
<1>2. CASE NotAfter(now_logical, latest)
  <2>1. successor(now_logical) = Ticked(latest) /\ Ticked(latest).p = latest.p
    BY <1>2 DEF successor, Ticked
  <2> QED
    BY <1>1, <2>1, OrderFacts
<1>3. CASE ~NotAfter(now_logical, latest)
  <2>1. successor(now_logical) = now_logical
    BY <1>3 DEF successor
  <2>2. Before(latest, now_logical)
    BY <1>1, <1>3, OrderFacts
  <2> QED
    BY <1>1, <2>1, <2>2
<1> QED
  BY <1>2, <1>3

\* now_logical, alone or inside generate_timestamp, keeps what concerns the
\* hybrid clock.
LEMMA AdvanceStep ==
  ASSUME ClockInv, Advance,
         UNCHANGED <<system_clock, local_offset, config, peak, tame>>
  PROVE  /\ hlc' \in Timestamp /\ past' \in Timestamp
         /\ hlc'.p < peak + (MaxDrift + 1) * Ms
         /\ now_synchronized' = now_synchronized
         /\ tame => hlc'.p <= now_synchronized
         /\ CausalUnlessAhead'
<1>1. hlc \in Timestamp /\ past \in Timestamp /\ past' = Later(past, hlc)
  BY DEF ClockInv, TypeOK, Advance
<1>2. past' \in Timestamp
  BY <1>1, OrderFacts
<1>3. now_synchronized' = now_synchronized
  BY DEF now_synchronized
<1>4. CASE hlc_enabled
  <2> DEFINE I == increment_logical_clock
  <2>1. hlc' = I
    BY <1>4 DEF Advance
  <2>2. /\ I \in Timestamp /\ Before(hlc, I)
        /\ I.p < peak + (MaxDrift + 1) * Ms
        /\ hlc.p <= now_synchronized => I.p = now_synchronized
    BY Incremented DEF ClockInv
  <2>3. now_synchronized \in Int
    BY SynchronizedTimeInt DEF ClockInv, TypeOK
  <2> HIDE DEF I
  <2>4. tame => I.p <= now_synchronized
    BY <2>2, <2>3 DEF ClockInv
  <2>5. tame => Before(past', I)
    BY <1>1, <2>2, BeforeTransitive, BeforeLater DEF ClockInv, CausalUnlessAhead
  <2> QED
    BY <1>2, <1>3, <2>1, <2>2, <2>4, <2>5 DEF CausalUnlessAhead
<1>5. CASE ~hlc_enabled
  <2>1. hlc' = hlc /\ ~tame
    BY <1>5 DEF Advance, ClockInv
  <2> QED
    BY <1>1, <1>2, <1>3, <2>1 DEF ClockInv, AheadByDriftAtMost, CausalUnlessAhead
<1> QED
  BY <1>4, <1>5

LEMMA ClockStep == ClockInv /\ [Next]_vars => ClockInv'
<1> SUFFICES ASSUME ClockInv, [Next]_vars PROVE ClockInv'
  OBVIOUS
<1>1. CASE SystemClock
  BY <1>1, TimeMovedStep DEF SystemClock, ClockInv, TypeOK
<1>2. CASE SetLocalOffset
  BY <1>2, TimeMovedStep DEF SetLocalOffset, ClockInv, TypeOK
<1>3. CASE UpdateConfig
  <2>1. /\ tame' = (tame /\ hlc_enabled') /\ hlc_enabled' \in BOOLEAN
        /\ max_clock_drift' \in Drift
        /\ UNCHANGED <<system_clock, local_offset, hlc, latest, peak, past, calls>>
    BY <1>3 DEF UpdateConfig
  <2>2. now_synchronized' = now_synchronized
    BY <2>1 DEF now_synchronized
  <2>3. tame' \in BOOLEAN /\ (tame' => tame /\ hlc_enabled')
    BY <2>1
  <2> QED
    BY <2>1, <2>2, <2>3 DEF ClockInv, TypeOK, AheadByDriftAtMost, CausalUnlessAhead
<1>4. CASE NowLogical
  <2>1. Advance /\ UNCHANGED <<system_clock, local_offset, config, latest,
                               peak, calls, tame>>
    BY <1>4 DEF NowLogical
  <2> QED
    BY <2>1, AdvanceStep DEF ClockInv, TypeOK, AheadByDriftAtMost, config
<1>5. ASSUME NEW r \in Received, UpdateLogicalClock(r) PROVE ClockInv'
  <2> DEFINE S == now_synchronized
  <2>1. /\ hlc_enabled /\ hlc' = merged(r)
        /\ past' = Later(Later(past, hlc), r)
        /\ tame' = (tame /\ r.p <= S)
        /\ UNCHANGED <<system_clock, local_offset, config, latest, peak, calls>>
    BY <1>5 DEF UpdateLogicalClock
  <2>2. merged(r) \in Timestamp /\ merged(r).p < peak + (MaxDrift + 1) * Ms
    BY MergedBound DEF ClockInv
  <2>3. r \in Timestamp /\ hlc \in Timestamp /\ past \in Timestamp /\ S \in Int
    BY ReceivedAssumption, SynchronizedTimeInt DEF ClockInv, TypeOK
  <2>4. past' \in Timestamp /\ tame' \in BOOLEAN
    BY <2>1, <2>3, OrderFacts DEF ClockInv, TypeOK
  <2>5. S' = S
    BY <2>1 DEF now_synchronized
  <2>6. ASSUME tame' PROVE Before(past', hlc') /\ hlc'.p <= S
    <3>1. tame /\ r.p <= S /\ hlc.p <= S /\ Before(past, hlc)
      BY <2>1, <2>6 DEF ClockInv, CausalUnlessAhead
    <3>2. S >= r.p
      BY <3>1, <2>3 DEF Timestamp
    <3>3. merged(r) = [p |-> S, l |-> Greater(hlc.l, r.l) + 1]
      BY <3>2 DEF merged
    <3> HIDE DEF S
    <3>4. Before(hlc, merged(r)) /\ Before(r, merged(r)) /\ merged(r).p = S
      BY <3>1, <3>3, <2>3 DEF Before, Greater, Timestamp
    <3>5. Before(past, merged(r))
      BY <3>1, <3>4, <2>2, <2>3, BeforeTransitive
    <3>6. Before(Later(past, hlc), merged(r)) /\ Later(past, hlc) \in Timestamp
      BY <3>4, <3>5, <2>2, <2>3, BeforeLater, OrderFacts
    <3> QED
      BY <3>4, <3>6, <2>1, <2>2, <2>3, BeforeLater
  <2>7. CausalUnlessAhead'
    BY <2>6 DEF CausalUnlessAhead
  <2>8. tame' => hlc_enabled' /\ hlc'.p <= S'
    BY <2>1, <2>5, <2>6 DEF config
  <2>9. TypeOK' /\ AheadByDriftAtMost'
    BY <2>1, <2>2, <2>4 DEF ClockInv, TypeOK, AheadByDriftAtMost, config
  <2> QED
    BY <2>1, <2>5, <2>7, <2>8, <2>9 DEF ClockInv
<1>6. CASE GenerateTimestamp
  <2>1. Advance /\ UNCHANGED <<system_clock, local_offset, config, peak, tame>>
        /\ calls' = (calls + 1) % 2
        /\ latest' = successor(now_logical)
    BY <1>6 DEF GenerateTimestamp
  <2>2. /\ latest' \in Timestamp
        /\ latest'.p < peak + (MaxDrift + 1) * Ms
    BY <2>1, Succeeds
  <2>3. calls' \in 0..1
    BY <2>1 DEF ClockInv, TypeOK
  <2> QED
    BY <2>1, <2>2, <2>3, AdvanceStep DEF ClockInv, TypeOK, AheadByDriftAtMost, config
<1>7. CASE UNCHANGED vars
  BY <1>7 DEF vars, ClockInv, TypeOK, AheadByDriftAtMost, CausalUnlessAhead,
              now_synchronized, config
<1> QED
  BY <1>1, <1>2, <1>3, <1>4, <1>5, <1>6, <1>7 DEF Next

LEMMA ClockInvariant == Spec => []ClockInv
<1> QED
  BY ClockInit, ClockStep, PTL DEF Spec

-----------------------------------------------------------------------------
\* The state of the clock and of the ordering is well typed.
THEOREM ClockTypeCorrect == Spec => []TypeOK
<1>1. ClockInv => TypeOK
  BY DEF ClockInv
<1> QED
  BY <1>1, ClockInvariant, PTL

\* Whatever peers send, the hybrid clock and the generated timestamps stay
\* within the drift limit, and less than a millisecond more, of the largest
\* synchronized time (update_logical_clock, generate_timestamp).
THEOREM ClockDriftBounded == Spec => []AheadByDriftAtMost
<1>1. ClockInv => AheadByDriftAtMost
  BY DEF ClockInv
<1> QED
  BY <1>1, ClockInvariant, PTL

\* Without clocks that go back and timestamps from the future, every timestamp
\* the hybrid clock gives is after all that were received or given before.
THEOREM ClockCausality == Spec => []CausalUnlessAhead
<1>1. ClockInv => CausalUnlessAhead
  BY DEF ClockInv
<1> QED
  BY <1>1, ClockInvariant, PTL

\* Every call of generate_timestamp gives a strictly later timestamp, whatever
\* the clocks do.
THEOREM ClockTimestampsIncrease == Spec => TimestampsIncrease
<1>1. ClockInv /\ [Next]_vars => [calls' # calls => Before(latest, latest')]_vars
  <2> SUFFICES ASSUME ClockInv, Next, calls' # calls
               PROVE  Before(latest, latest')
    OBVIOUS
  <2>1. GenerateTimestamp
    BY DEF Next, SystemClock, SetLocalOffset, UpdateConfig, NowLogical,
           UpdateLogicalClock
  <2> QED
    BY <2>1, Succeeds DEF GenerateTimestamp
<1> QED
  BY <1>1, ClockInvariant, PTL DEF Spec, TimestampsIncrease
=============================================================================
