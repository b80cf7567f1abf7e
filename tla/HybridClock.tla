---------------------------- MODULE HybridClock ----------------------------
(***************************************************************************)
(* The hybrid logical clock of DefaultTimeService and the TimestampOrdering *)
(* built on it (src/src/time/time_sync.cpp), for one process.              *)
(*                                                                         *)
(* now_logical and update_logical_clock hold mutex_ and are one step each. *)
(* generate_timestamp holds the ordering's own mutex around a call of      *)
(* now_logical and a comparison with latest_timestamp_, which nothing else *)
(* writes: it takes effect at that call and is one step too.               *)
(*                                                                         *)
(* Physical times are readings of the system clock, in ticks; offsets and  *)
(* the drift limit are in milliseconds, of Ms ticks.  The system clock may *)
(* be set back, and the synchronisation threads may change local_offset_   *)
(* at any moment (module TimeService says how).  Timestamps come from      *)
(* peers whose clocks say anything, late, twice or never: every one of     *)
(* Received may arrive at any time.                                        *)
(***************************************************************************)
EXTENDS Integers

CONSTANTS Ms,          \* ticks of the system clock in a millisecond
          Drift,       \* the values config_.max_clock_drift takes (ms)
          MaxDrift,    \* the largest of them
          Offset,      \* the values local_offset_ takes (ms)
          Received,    \* the timestamps peers send
          MaxTime,     \* bound on the system clock
          MaxLogical   \* bound on logical times

ASSUME MsAssumption == Ms \in Nat \ {0}
ASSUME MaxDriftAssumption == MaxDrift \in Nat /\ Drift \subseteq 0..MaxDrift
ASSUME OffsetAssumption == Offset \subseteq Int /\ 0 \in Offset
ASSUME BoundAssumption == MaxTime \in Nat /\ MaxLogical \in Nat \ {0}

Timestamp == [p : Int, l : Nat]

ASSUME ReceivedAssumption == Received \subseteq Timestamp

VARIABLES
  system_clock,  \* std::chrono::system_clock::now()
  local_offset,  \* local_offset_
  hlc_enabled,   \* config_.enable_hybrid_logical_clock
  max_clock_drift, \* config_.max_clock_drift
  hlc,           \* last_physical_time_ and logical_time_, as one timestamp
  latest,        \* latest_timestamp_ of the TimestampOrdering
  \* History, read by no action:
  peak,          \* the largest synchronized time so far
  past,          \* the largest timestamp received, or given before hlc
  calls,         \* the number of calls of generate_timestamp, modulo 2
  tame           \* the clock was never set back or off and no timestamp
                 \* was ahead of it when it arrived

config == <<hlc_enabled, max_clock_drift>>

vars == <<system_clock, local_offset, config, hlc, latest, peak, past, calls, tame>>

-----------------------------------------------------------------------------
\* operator< and operator<= of HybridLogicalClock.
Before(a, b) == a.p < b.p \/ (a.p = b.p /\ a.l < b.l)
NotAfter(a, b) == Before(a, b) \/ a = b

\* The same physical time, one logical step later.
Ticked(ts) == [p |-> ts.p, l |-> ts.l + 1]

Later(a, b) == IF Before(a, b) THEN b ELSE a
Greater(i, j) == IF i < j THEN j ELSE i

now_synchronized == system_clock + local_offset * Ms

increment_logical_clock ==
  IF now_synchronized > hlc.p THEN [p |-> now_synchronized, l |-> 0]
                              ELSE Ticked(hlc)

\* The drift limit is not enforced.
merged_NoDriftLimitBug(r) ==
  IF now_synchronized >= r.p
    THEN [p |-> now_synchronized, l |-> Greater(hlc.l, r.l) + 1]
    ELSE [p |-> r.p, l |-> r.l + 1]

\* The local logical time is forgotten.
merged_ReceivedOnlyBug(r) ==
  [p |-> IF (r.p - now_synchronized) \div Ms \in 0..max_clock_drift
           THEN r.p ELSE now_synchronized,
   l |-> r.l + 1]

\* What update_logical_clock makes of received timestamp r.  It starts from
\* the synchronized time, not from last_physical_time_.  duration_cast cuts
\* the distance to whole milliseconds.
merged(r) ==
  IF now_synchronized >= r.p
    THEN [p |-> now_synchronized, l |-> Greater(hlc.l, r.l) + 1]
    ELSE [p |-> IF (r.p - now_synchronized) \div Ms > max_clock_drift
                  THEN now_synchronized ELSE r.p,
          l |-> r.l + 1]

-----------------------------------------------------------------------------
\* The constructors: last_physical_time_ is read from the system clock, and
\* the ordering takes its first timestamp in the same tick.
Init ==
  /\ system_clock \in 0..MaxTime
  /\ local_offset = 0
  /\ hlc_enabled = TRUE
  /\ max_clock_drift \in Drift
  /\ hlc = [p |-> system_clock, l |-> 1]
  /\ latest = hlc
  /\ peak = system_clock
  /\ past = [p |-> system_clock, l |-> 0]
  /\ calls = 0
  /\ tame = TRUE

\* Bookkeeping of a step that moves the synchronized time.
TimeMoved == /\ peak' = Greater(peak, now_synchronized')
             /\ tame' = (tame /\ now_synchronized' >= now_synchronized)

\* The system clock advances or is set to another time.
SystemClock ==
  /\ system_clock' \in 0..MaxTime
  /\ UNCHANGED <<local_offset, config, hlc, latest, past, calls>>
  /\ TimeMoved

\* A synchronisation thread stores a new local_offset_.
SetLocalOffset ==
  /\ local_offset' \in Offset
  /\ UNCHANGED <<system_clock, config, hlc, latest, past, calls>>
  /\ TimeMoved

\* update_config replaces the whole configuration: the hybrid clock may be
\* turned on or off and the drift limit raised or lowered.
UpdateConfig ==
  /\ hlc_enabled' \in BOOLEAN
  /\ max_clock_drift' \in Drift
  /\ tame' = (tame /\ hlc_enabled')
  /\ UNCHANGED <<system_clock, local_offset, hlc, latest, peak, past, calls>>

\* The state now_logical leaves.
Advance ==
  /\ hlc' = IF hlc_enabled THEN increment_logical_clock ELSE hlc
  /\ hlc'.l <= MaxLogical
  /\ past' = Later(past, hlc)

\* The timestamp now_logical answers.
now_logical == IF hlc_enabled THEN increment_logical_clock
                              ELSE [p |-> now_synchronized, l |-> 0]

NowLogical ==
  /\ Advance
  /\ UNCHANGED <<system_clock, local_offset, config, latest, peak, calls, tame>>

\* update_logical_clock with the hybrid clock on.  With the clock off it calls
\* now_logical under its own mutex_, which throws: nothing changes.
UpdateLogicalClock(r) ==
  /\ hlc_enabled
  /\ hlc' = merged(r)
  /\ hlc'.l <= MaxLogical
  /\ past' = Later(Later(past, hlc), r)
  /\ tame' = (tame /\ r.p <= now_synchronized)
  /\ UNCHANGED <<system_clock, local_offset, config, latest, peak, calls>>

\* A timestamp equal to the latest one is given again.
successor_RepeatBug(ts) ==
  IF Before(ts, latest) THEN Ticked(latest) ELSE ts

\* The timestamp generate_timestamp gives when now_logical says ts.
successor(ts) ==
  IF NotAfter(ts, latest) THEN Ticked(latest) ELSE ts

GenerateTimestamp ==
  /\ Advance
  /\ latest' = successor(now_logical)
  /\ latest'.l <= MaxLogical
  /\ calls' = (calls + 1) % 2
  /\ UNCHANGED <<system_clock, local_offset, config, peak, tame>>

Next ==
  \/ SystemClock
  \/ SetLocalOffset
  \/ UpdateConfig
  \/ NowLogical
  \/ \E r \in Received : UpdateLogicalClock(r)
  \/ GenerateTimestamp

Spec == Init /\ [][Next]_vars

-----------------------------------------------------------------------------
TypeOK ==
  /\ system_clock \in 0..MaxTime
  /\ local_offset \in Offset
  /\ hlc_enabled \in BOOLEAN
  /\ max_clock_drift \in Drift
  /\ hlc \in Timestamp
  /\ latest \in Timestamp
  /\ peak \in Int
  /\ past \in Timestamp
  /\ calls \in 0..1
  /\ tame \in BOOLEAN

\* Every call of generate_timestamp gives a timestamp strictly after the one
\* before it, never the same one again ("确保时间戳单调递增", time_sync.cpp:692),
\* whatever happens to the system clock, the offset, the configuration and the
\* hybrid clock in between.
TimestampsIncrease == [][calls' # calls => Before(latest, latest')]_vars

\* However many timestamps of fast clocks arrive, in any order, the hybrid
\* clock and the timestamps generated from it stay less than a millisecond
\* over the largest configured max_clock_drift ahead of the largest
\* synchronized time there was: timestamps taken over from peers do not add
\* up, not even when the limit is changed between them.
AheadByDriftAtMost ==
  /\ hlc.p < peak + (MaxDrift + 1) * Ms
  /\ latest.p < peak + (MaxDrift + 1) * Ms

\* As long as the synchronized time is not set back and no received timestamp
\* is ahead of it, the hybrid clock is later than every timestamp that was
\* received or given before: the order of events is kept ("HLC算法确保因果序",
\* IMPLEMENTATION_COMPLETE.md:100).  One timestamp ahead of the clock, even
\* within the drift limit, ends this: the next update falls back to the
\* synchronized time (time_sync.cpp:143-154).
CausalUnlessAhead == tame => Before(past, hlc)
=============================================================================
