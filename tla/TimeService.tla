---------------------------- MODULE TimeService ----------------------------
(***************************************************************************)
(* Clock synchronisation in DefaultTimeService (time_sync.cpp): the offsets *)
(* measured to other nodes, the synchronisation thread and the NTP thread, *)
(* start and stop.                                                         *)
(*                                                                         *)
(* A round of sync_loop takes and releases mutex_ for the list of nodes,   *)
(* for every sample, for the median and for the cleanup, each a step of    *)
(* its own; it stores local_offset_ without the mutex, and so does the NTP *)
(* thread, whose filter read it a moment before.  stop() holds mutex_      *)
(* exclusively while it joins both threads.                                *)
(*                                                                         *)
(* handle_sync_message holds mutex_ when TIME_RESPONSE and OFFSET_UPDATE   *)
(* reach update_offset_with_sample, whose own lock throws: no message      *)
(* changes anything, so there is no action for it.                         *)
(***************************************************************************)
EXTENDS Integers, FiniteSets

CONSTANTS Node,            \* peers
          Low, High,       \* all offsets lie between these (ms)
          Sample,          \* what measuring a peer or asking NTP can yield
          Manual,          \* the offsets callers set
          MinSamples,      \* config_.min_samples
          ConfidentCount,  \* syncs that make confidence exceed 0.5 (code: 6)
          NtpEnabled       \* config_.enable_ntp_sync, with a server

ASSUME NodeAssumption == IsFiniteSet(Node)
ASSUME OffsetsAssumption ==
  /\ Low \in Int /\ High \in Int /\ 0 \in Low..High
  /\ Sample \subseteq Low..High /\ Manual \subseteq Low..High
ASSUME CountAssumption == MinSamples \in Nat /\ ConfidentCount \in Nat \ {0, 1}
ASSUME NtpAssumption == NtpEnabled \in BOOLEAN

VARIABLES
  is_running,    \* is_running_
  stop_threads,  \* stop_threads_
  stopper,       \* where a call of stop() is: out of it, or at a join
  sync_nodes,    \* sync_nodes_
  node_offsets,  \* node_offsets_: [offset, count, confident], partial
  local_offset,  \* local_offset_
  sync,          \* where sync_thread_ is
  listed, todo,  \* its copy of sync_nodes_, and what is left of it
  ntp,           \* where ntp_thread_ is
  filtered,      \* the offset a thread is about to store: sync and ntp
  addressed      \* history: nodes that callers set or synchronised by hand
                 \* since they were last removed

threadVars == <<sync, listed, todo, ntp, filtered>>
lifeVars == <<is_running, stop_threads, stopper>>
vars == <<is_running, stop_threads, stopper, sync_nodes, node_offsets,
          local_offset, sync, listed, todo, ntp, filtered, addressed>>

OffsetInfo == [offset : Low..High, count : 1..ConfidentCount, confident : BOOLEAN]

-----------------------------------------------------------------------------
\* Division and conversion to int64_t cut towards zero.
Quotient(a, b) == IF a >= 0 THEN a \div b ELSE -((-a) \div b)

\* The two are added and not weighed.
filter_offset_SumBug(current, sample) == current + sample

\* filter_offset with the default offset_filter_alpha of 0.125, which doubles
\* represent exactly.
filter_offset(current, sample) == Quotient(7 * current + sample, 8)

\* The k-th smallest of the values of f, as std::sort puts them.
Kth(f, k) ==
  CHOOSE v \in {f[x] : x \in DOMAIN f} :
    /\ Cardinality({x \in DOMAIN f : f[x] < v}) < k
    /\ Cardinality({x \in DOMAIN f : f[x] <= v}) >= k

\* The middle of the range and not of the values.
median_MidRangeBug(f) == Quotient(Kth(f, 1) + Kth(f, Cardinality(DOMAIN f)), 2)

\* The sum of the two middle values is not halved.
median_NotHalvedBug(f) ==
  LET n == Cardinality(DOMAIN f)
  IN  IF n % 2 = 0 THEN Kth(f, n \div 2) + Kth(f, n \div 2 + 1)
                   ELSE Kth(f, n \div 2 + 1)

\* The median of berkeley_algorithm; index i of the vector is the (i+1)-th.
median(f) ==
  LET n == Cardinality(DOMAIN f)
  IN  IF n % 2 = 0 THEN Quotient(Kth(f, n \div 2) + Kth(f, n \div 2 + 1), 2)
                   ELSE Kth(f, n \div 2 + 1)

Confident == {n \in DOMAIN node_offsets : node_offsets[n].confident}

\* berkeley_algorithm has a result.
BerkeleyOK == Cardinality(DOMAIN node_offsets) >= MinSamples /\ Confident # {}

berkeley_algorithm == median([n \in Confident |-> node_offsets[n].offset])

\* sync_count, as far as confidence tells it apart.
Counted(c) == IF c < ConfidentCount THEN c + 1 ELSE c

\* node_offsets_ with a new entry for n.
Entered(n, info) ==
  [m \in DOMAIN node_offsets \cup {n} |-> IF m = n THEN info ELSE node_offsets[m]]

First(o) == [offset |-> o, count |-> 1, confident |-> FALSE]

update_offset_with_sample(n, s) ==
  node_offsets' = Entered(n,
    IF n \in DOMAIN node_offsets
      THEN LET c == Counted(node_offsets[n].count)
           IN  [offset |-> filter_offset(node_offsets[n].offset, s),
                count |-> c, confident |-> c = ConfidentCount]
      ELSE First(s))

\* Somebody holds mutex_ for long: stop(), at one of its joins.
Exclusive == stopper # "out"

-----------------------------------------------------------------------------
Init ==
  /\ is_running = FALSE /\ stop_threads = FALSE /\ stopper = "out"
  /\ sync_nodes = {} /\ addressed = {}
  /\ node_offsets = [n \in {} |-> First(0)]
  /\ local_offset = 0
  /\ sync = "none" /\ listed = {} /\ todo = {}
  /\ ntp = "none"
  /\ filtered = [sync |-> 0, ntp |-> 0]

Start ==
  /\ ~ Exclusive
  /\ ~ is_running
  /\ is_running' = TRUE
  /\ stop_threads' = FALSE
  /\ sync' = "check"
  /\ ntp' = IF NtpEnabled THEN "check" ELSE "none"
  /\ UNCHANGED <<stopper, sync_nodes, node_offsets, local_offset, listed, todo,
                 filtered, addressed>>

\* The flag is raised only after the joins.
Stop_FlagLateBug ==
  /\ ~ Exclusive
  /\ is_running
  /\ stopper' = "join_sync"
  /\ UNCHANGED <<is_running, stop_threads, sync_nodes, node_offsets, local_offset,
                 addressed>>
  /\ UNCHANGED threadVars

\* stop() up to its first join, then the two joins.  is_running_ becomes FALSE
\* only at the end, still under mutex_.
Stop ==
  /\ ~ Exclusive
  /\ is_running
  /\ stop_threads' = TRUE
  /\ stopper' = "join_sync"
  /\ UNCHANGED <<is_running, sync_nodes, node_offsets, local_offset, addressed>>
  /\ UNCHANGED threadVars

JoinSync ==
  /\ stopper = "join_sync"
  /\ sync = "done"
  /\ stopper' = "join_ntp"
  /\ UNCHANGED <<is_running, stop_threads, sync_nodes, node_offsets,
                 local_offset, addressed>>
  /\ UNCHANGED threadVars

JoinNtp ==
  /\ stopper = "join_ntp"
  /\ ntp \in {"none", "done"}
  /\ stopper' = "out"
  /\ is_running' = FALSE
  /\ UNCHANGED <<stop_threads, sync_nodes, node_offsets, local_offset, addressed>>
  /\ UNCHANGED threadVars

-----------------------------------------------------------------------------
AddNode(n) ==
  /\ ~ Exclusive
  /\ sync_nodes' = sync_nodes \cup {n}
  /\ UNCHANGED <<node_offsets, local_offset, addressed>>
  /\ UNCHANGED <<lifeVars, threadVars>>

\* The measured offset outlives the node.
RemoveNode_KeepsOffsetBug(n) ==
  /\ ~ Exclusive
  /\ sync_nodes' = sync_nodes \ {n}
  /\ addressed' = addressed \ {n}
  /\ UNCHANGED <<node_offsets, local_offset>>
  /\ UNCHANGED <<lifeVars, threadVars>>

RemoveNode(n) ==
  /\ ~ Exclusive
  /\ sync_nodes' = sync_nodes \ {n}
  /\ node_offsets' = [m \in DOMAIN node_offsets \ {n} |-> node_offsets[m]]
  /\ addressed' = addressed \ {n}
  /\ UNCHANGED local_offset
  /\ UNCHANGED <<lifeVars, threadVars>>

\* set_offset counts as a sync but leaves the confidence alone.
SetOffset(n, o) ==
  /\ ~ Exclusive
  /\ node_offsets' = Entered(n,
       IF n \in DOMAIN node_offsets
         THEN [node_offsets[n] EXCEPT !.offset = o, !.count = Counted(@)]
         ELSE First(o))
  /\ addressed' = addressed \cup {n}
  /\ UNCHANGED <<sync_nodes, local_offset>>
  /\ UNCHANGED <<lifeVars, threadVars>>

\* sync_with_node called from outside; measuring never fails.
SyncWithNode(n, s) ==
  /\ ~ Exclusive
  /\ update_offset_with_sample(n, s)
  /\ addressed' = addressed \cup {n}
  /\ UNCHANGED <<sync_nodes, local_offset>>
  /\ UNCHANGED <<lifeVars, threadVars>>

-----------------------------------------------------------------------------
\* sync_loop reads stop_threads_, at the start and after every sleep.
SyncCheck ==
  /\ sync = "check"
  /\ sync' = IF stop_threads THEN "done" ELSE "list"
  /\ UNCHANGED <<sync_nodes, node_offsets, local_offset, listed, todo, ntp,
                 filtered, addressed>>
  /\ UNCHANGED lifeVars

SyncList ==
  /\ sync = "list" /\ ~ Exclusive
  /\ listed' = sync_nodes
  /\ todo' = sync_nodes
  /\ sync' = "sample"
  /\ UNCHANGED <<sync_nodes, node_offsets, local_offset, ntp, filtered, addressed>>
  /\ UNCHANGED lifeVars

\* sync_with_node for the next node of the copied list, whether or not it has
\* been removed meanwhile.
SyncSample(n, s) ==
  /\ sync = "sample" /\ ~ Exclusive
  /\ update_offset_with_sample(n, s)
  /\ todo' = todo \ {n}
  /\ UNCHANGED <<sync_nodes, local_offset, sync, listed, ntp, filtered, addressed>>
  /\ UNCHANGED lifeVars

\* After the samples: the median if the list was long enough, else the cleanup.
SyncBerkeley ==
  /\ sync = "sample" /\ todo = {}
  /\ Cardinality(listed) >= MinSamples => ~ Exclusive
  /\ IF Cardinality(listed) >= MinSamples /\ BerkeleyOK
       THEN /\ filtered' = [filtered EXCEPT !.sync = berkeley_algorithm]
            /\ sync' = "store"
       ELSE /\ UNCHANGED filtered
            /\ sync' = "cleanup"
  /\ listed' = {}
  /\ UNCHANGED <<sync_nodes, node_offsets, local_offset, todo, ntp, addressed>>
  /\ UNCHANGED lifeVars

SyncStore ==
  /\ sync = "store"
  /\ local_offset' = filtered.sync
  /\ filtered' = [filtered EXCEPT !.sync = 0]
  /\ sync' = "cleanup"
  /\ UNCHANGED <<sync_nodes, node_offsets, listed, todo, ntp, addressed>>
  /\ UNCHANGED lifeVars

\* detect_clock_drift, which only notifies, cleanup_expired_offsets, which
\* erases the entries that have become too old, and the sleep.
SyncCleanup ==
  /\ sync = "cleanup" /\ ~ Exclusive
  /\ \E keep \in SUBSET DOMAIN node_offsets :
       node_offsets' = [n \in keep |-> node_offsets[n]]
  /\ sync' = "check"
  /\ UNCHANGED <<sync_nodes, local_offset, listed, todo, ntp, filtered, addressed>>
  /\ UNCHANGED lifeVars

\* ntp_sync_loop: check and query, read local_offset_, store it.  No mutex.
NtpCheck ==
  /\ ntp = "check"
  /\ ntp' = IF stop_threads THEN "done" ELSE "query"
  /\ UNCHANGED <<sync_nodes, node_offsets, local_offset, sync, listed, todo,
                 filtered, addressed>>
  /\ UNCHANGED lifeVars

NtpQuery(s) ==
  /\ ntp = "query"
  /\ filtered' = [filtered EXCEPT !.ntp = filter_offset(local_offset, s)]
  /\ ntp' = "store"
  /\ UNCHANGED <<sync_nodes, node_offsets, local_offset, sync, listed, todo, addressed>>
  /\ UNCHANGED lifeVars

NtpStore ==
  /\ ntp = "store"
  /\ local_offset' = filtered.ntp
  /\ filtered' = [filtered EXCEPT !.ntp = 0]
  /\ ntp' = "check"
  /\ UNCHANGED <<sync_nodes, node_offsets, sync, listed, todo, addressed>>
  /\ UNCHANGED lifeVars

Next ==
  \/ Start \/ Stop \/ JoinSync \/ JoinNtp
  \/ \E n \in Node : \/ AddNode(n) \/ RemoveNode(n)
                     \/ \E o \in Manual : SetOffset(n, o)
                     \/ \E s \in Sample : SyncWithNode(n, s)
  \/ SyncCheck \/ SyncList
  \/ \E n \in todo, s \in Sample : SyncSample(n, s)
  \/ SyncBerkeley \/ SyncStore \/ SyncCleanup
  \/ NtpCheck \/ (\E s \in Sample : NtpQuery(s)) \/ NtpStore

Spec == Init /\ [][Next]_vars

\* Both threads run, their sleeps being bounded; a join whose thread has ended
\* returns.
Fairness ==
  /\ WF_vars(SyncCheck) /\ WF_vars(SyncList)
  /\ WF_vars(\E n \in todo, s \in Sample : SyncSample(n, s))
  /\ WF_vars(SyncBerkeley) /\ WF_vars(SyncStore) /\ WF_vars(SyncCleanup)
  /\ WF_vars(NtpCheck) /\ WF_vars(\E s \in Sample : NtpQuery(s)) /\ WF_vars(NtpStore)
  /\ WF_vars(JoinSync) /\ WF_vars(JoinNtp)

FairSpec == Spec /\ Fairness

-----------------------------------------------------------------------------
TypeOK ==
  /\ is_running \in BOOLEAN /\ stop_threads \in BOOLEAN
  /\ stopper \in {"out", "join_sync", "join_ntp"}
  /\ sync_nodes \subseteq Node /\ addressed \subseteq Node
  /\ DOMAIN node_offsets \subseteq Node
  /\ \A n \in DOMAIN node_offsets : node_offsets[n] \in OffsetInfo
  /\ local_offset \in Int
  /\ sync \in {"none", "check", "list", "sample", "store", "cleanup", "done"}
  /\ listed \subseteq Node /\ todo \subseteq listed
  /\ ntp \in {"none", "check", "query", "store", "done"}
  /\ filtered \in [sync : Int, ntp : Int]

\* The local offset never leaves the range of what was measured: neither the
\* filter with its cut towards zero, nor the median, nor the two threads that
\* overwrite each other's result without a lock carry it outside.
OffsetWithinSamples == local_offset \in Low..High

\* A node that remove_node took out has no say in the local time, even when the
\* round in progress, which works on an older list, enters it again: what it
\* enters is one sample, which berkeley_algorithm does not trust.  (Callers may
\* still raise the count of a removed node themselves.)
RemovedNodeIsNotTrusted ==
  \A n \in Confident : n \in sync_nodes \cup addressed

\* stop() returns unless it took mutex_ while sync_loop was between its look at
\* stop_threads_ and the end of the round: that round can then never get mutex_
\* again, and stop waits for it for ever.
StopReturnsUnlessInRound ==
  (stopper = "join_sync" /\ sync \in {"check", "done"}) ~> stopper = "out"
=============================================================================
