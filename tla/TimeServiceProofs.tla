-------------------------- MODULE TimeServiceProofs --------------------------
(***************************************************************************)
(* Proofs about the time service for any nodes, samples and configuration. *)
(*                                                                         *)
(* What the median makes of any offsets lies where most of them are; with  *)
(* what the filter does this keeps every offset within the samples.        *)
(*                                                                         *)
(* A removed node has no say in the local time.  RemovedNodeIsNotTrusted   *)
(* is not inductive: a second sample of a removed node would make it       *)
(* trusted.  TrustInv adds why none comes: an entry of a node that is not  *)
(* synchronised any more was made in the round in progress, which has no   *)
(* further sample of it to take.                                           *)
(***************************************************************************)
EXTENDS MCTimeService, FiniteSetTheorems, TLAPS

\* Of finitely many numbers one is the greatest.
LEMMA GreatestExists ==
  ASSUME NEW T, IsFiniteSet(T), T # {}, NEW f, \A x \in T : f[x] \in Int
  PROVE  \E y \in T : \A z \in T : f[z] <= f[y]
<1> DEFINE Above(y) == {z \in T : f[z] > f[y]}
           A == {Above(y) : y \in T}
<1>1. IsWellFoundedOn(StrictSubsetOrdering(T), FiniteSubsetsOf(T))
  BY FS_StrictSubsetOrderingWellFounded
<1>2. A \subseteq FiniteSubsetsOf(T) /\ A # {}
  <2>1. FiniteSubsetsOf(T) = SUBSET T
    BY FS_FiniteSubsetsOfFinite
  <2>2. A \subseteq SUBSET T /\ A # {}
    OBVIOUS
  <2> QED
    BY <2>1, <2>2
<1>3. PICK a \in A : \A b \in A : ~ (<<b, a>> \in StrictSubsetOrdering(T))
  <2> HIDE DEF A
  <2> QED
    BY <1>1, <1>2, WFMin
<1>4. PICK y \in T : a = Above(y)
  OBVIOUS
<1>5. ASSUME NEW z \in T, ~ (f[z] <= f[y])
      PROVE  FALSE
  <2>1. f[z] > f[y] /\ f[z] \in Int /\ f[y] \in Int
    BY <1>5
  <2>2. Above(z) \subseteq Above(y) /\ z \in Above(y) /\ z \notin Above(z)
    BY <2>1
  <2>3. <<Above(z), Above(y)>> \in StrictSubsetOrdering(T)
    <3> HIDE DEF Above
    <3>1. Above(z) \in SUBSET T /\ Above(y) \in SUBSET T
      BY DEF Above
    <3> QED
      BY <2>2, <3>1 DEF StrictSubsetOrdering
  <2> QED
    BY <1>3, <1>4, <2>3
<1> QED
  BY <1>5

\* And one is the least.
LEMMA LeastExists ==
  ASSUME NEW T, IsFiniteSet(T), T # {}, NEW f, \A x \in T : f[x] \in Int
  PROVE  \E y \in T : \A z \in T : f[y] <= f[z]
<1> DEFINE g == [z \in T |-> - f[z]]
<1>1. \A z \in T : g[z] \in Int
  OBVIOUS
<1>2. PICK y \in T : \A z \in T : g[z] <= g[y]
  <2> HIDE DEF g
  <2> QED
    BY <1>1, GreatestExists
<1>3. ASSUME NEW z \in T PROVE f[y] <= f[z]
  <2>1. f[z] \in Int /\ f[y] \in Int /\ - f[z] <= - f[y]
    BY <1>2
  <2> QED
    BY <2>1
<1> QED
  BY <1>3

\* The nodes whose samples may count.
Wanted == sync_nodes \cup addressed

TrustInv ==
  \A n \in DOMAIN node_offsets :
    n \in Wanted \/ (n \notin todo /\ ~ node_offsets[n].confident)

\* update_offset_with_sample disturbs no other entry and makes no new one that
\* is trusted.
LEMMA SampledEntry ==
  ASSUME NEW n, NEW s, update_offset_with_sample(n, s)
  PROVE  /\ DOMAIN node_offsets' = DOMAIN node_offsets \cup {n}
         /\ \A m \in DOMAIN node_offsets \ {n} : node_offsets'[m] = node_offsets[m]
         /\ n \notin DOMAIN node_offsets => ~ node_offsets'[n].confident
BY DEF update_offset_with_sample, Entered, First

LEMMA TrustInit == Init => TrustInv
BY DEF Init, TrustInv

\* A sample taken in a round: of a node that is wanted, or the first of it.
LEMMA TrustSample ==
  ASSUME TrustInv, NEW n \in todo, NEW s, SyncSample(n, s)
  PROVE  TrustInv'
<1>1. /\ todo' = todo \ {n} /\ Wanted' = Wanted
      /\ update_offset_with_sample(n, s)
  BY DEF SyncSample, Wanted
<1>. SUFFICES ASSUME NEW m \in DOMAIN node_offsets', m \notin Wanted
              PROVE  m \notin todo' /\ ~ node_offsets'[m].confident
  BY <1>1 DEF TrustInv
<1>2. CASE m = n
  <2>1. n \notin DOMAIN node_offsets
    BY <1>2 DEF TrustInv
  <2>. QED
    BY <1>1, <1>2, <2>1, SampledEntry
<1>3. CASE m # n
  <2>. DEFINE D == DOMAIN node_offsets
              after == node_offsets'
  <2>0. DOMAIN after = D \cup {n} /\ \A k \in D \ {n} : after[k] = node_offsets[k]
    BY <1>1, SampledEntry
  <2>1. m \in D /\ after[m] = node_offsets[m]
    <3>. HIDE DEF D, after
    <3>1. m \in DOMAIN after
      BY DEF after
    <3>. QED
      BY <1>3, <2>0, <3>1
  <2>. QED
    BY <1>1, <2>1 DEF TrustInv
<1>. QED
  BY <1>2, <1>3

LEMMA TrustStep == TrustInv /\ [Next]_vars => TrustInv'
<1>. SUFFICES ASSUME TrustInv, [Next]_vars PROVE TrustInv'
  OBVIOUS
<1>1. CASE Start \/ Stop \/ JoinSync \/ JoinNtp
  BY <1>1 DEF Start, Stop, JoinSync, JoinNtp, threadVars, TrustInv, Wanted
<1>2. ASSUME NEW n \in Node, AddNode(n) PROVE TrustInv'
  BY <1>2 DEF AddNode, threadVars, TrustInv, Wanted
<1>3. ASSUME NEW n \in Node, RemoveNode(n) PROVE TrustInv'
  BY <1>3 DEF RemoveNode, threadVars, TrustInv, Wanted
<1>4. ASSUME NEW n \in Node, NEW o \in Manual, SetOffset(n, o) PROVE TrustInv'
  BY <1>4 DEF SetOffset, Entered, threadVars, TrustInv, Wanted
<1>5. ASSUME NEW n \in Node, NEW s \in Sample, SyncWithNode(n, s) PROVE TrustInv'
  <2>1. /\ todo' = todo /\ Wanted' = Wanted \cup {n}
        /\ update_offset_with_sample(n, s)
    BY <1>5 DEF SyncWithNode, threadVars, Wanted
  <2>. QED
    BY <2>1, SampledEntry DEF TrustInv
<1>6. CASE SyncCheck
  BY <1>6 DEF SyncCheck, TrustInv, Wanted
<1>7. CASE SyncList
  BY <1>7 DEF SyncList, TrustInv, Wanted
<1>8. ASSUME NEW n \in todo, NEW s \in Sample, SyncSample(n, s) PROVE TrustInv'
  BY <1>8, TrustSample
<1>9. CASE SyncBerkeley \/ SyncStore
  BY <1>9 DEF SyncBerkeley, SyncStore, TrustInv, Wanted
<1>10. CASE SyncCleanup
  BY <1>10 DEF SyncCleanup, TrustInv, Wanted
<1>11. CASE NtpCheck \/ NtpStore \/ \E s \in Sample : NtpQuery(s)
  BY <1>11 DEF NtpCheck, NtpStore, NtpQuery, TrustInv, Wanted
<1>12. CASE UNCHANGED vars
  BY <1>12 DEF vars, TrustInv, Wanted
<1>. QED
  BY <1>1, <1>2, <1>3, <1>4, <1>5, <1>6, <1>7, <1>8, <1>9, <1>10, <1>11, <1>12 DEF Next

\* berkeley_algorithm never uses an offset of a node that remove_node took out,
\* unless a caller has set or synchronised it by hand since.
THEOREM RemovedNodesHaveNoSay == Spec => []RemovedNodeIsNotTrusted
<1>1. TrustInv => RemovedNodeIsNotTrusted
  BY DEF TrustInv, RemovedNodeIsNotTrusted, Confident, Wanted
<1>. QED
  BY <1>1, TrustInit, TrustStep, PTL DEF Spec

-----------------------------------------------------------------------------
\* Kth finds a value: so many are smaller, and with the equal ones enough.
LEMMA KthValue ==
  ASSUME NEW f, IsFiniteSet(DOMAIN f), \A x \in DOMAIN f : f[x] \in Int,
         NEW k \in 1..Cardinality(DOMAIN f)
  PROVE  /\ Kth(f, k) \in Int
         /\ Cardinality({x \in DOMAIN f : f[x] < Kth(f, k)}) < k
         /\ Cardinality({x \in DOMAIN f : f[x] <= Kth(f, k)}) >= k
<1> DEFINE D == DOMAIN f
           Under(v) == {x \in D : f[x] < v}
           UpTo(v) == {x \in D : f[x] <= v}
           Enough == {x \in D : Cardinality(UpTo(f[x])) >= k}
<1>1. /\ Cardinality(D) \in Nat
      /\ \A T \in SUBSET D : /\ IsFiniteSet(T) /\ Cardinality(T) \in Nat
                             /\ Cardinality(T) <= Cardinality(D)
      /\ k \in Nat /\ k >= 1 /\ k <= Cardinality(D)
  BY FS_CardinalityType, FS_Subset
<1>2. D # {}
  BY <1>1, FS_EmptySet
<1>3. Enough # {}
  <2>1. PICK y \in D : \A z \in D : f[z] <= f[y]
    BY <1>2, GreatestExists
  <2>2. UpTo(f[y]) = D
    BY <2>1
  <2> QED
    BY <1>1, <2>1, <2>2
<1>4. PICK x \in Enough : \A z \in Enough : f[x] <= f[z]
  <2>1. Enough \in SUBSET D /\ \A z \in Enough : f[z] \in Int
    OBVIOUS
  <2> HIDE DEF Enough
  <2> QED
    BY <1>1, <1>3, <2>1, LeastExists
<1>5. Cardinality(UpTo(f[x])) >= k
  BY <1>4
<1>6. ASSUME ~ (Cardinality(Under(f[x])) < k)
      PROVE  FALSE
  <2> DEFINE U == Under(f[x])
  <2>1. U \in SUBSET D /\ IsFiniteSet(U) /\ Cardinality(U) \in Nat
    BY <1>1
  <2>2. U # {}
    <3>1. Cardinality(U) >= k
      BY <1>1, <1>6, <2>1
    <3> HIDE DEF U
    <3> QED
      BY <1>1, <3>1, FS_EmptySet
  <2>3. PICK y \in U : \A z \in U : f[z] <= f[y]
    <3>1. \A z \in U : f[z] \in Int
      OBVIOUS
    <3> HIDE DEF U
    <3> QED
      BY <2>1, <2>2, <3>1, GreatestExists
  <2>4. y \in D /\ f[y] < f[x] /\ f[y] \in Int /\ f[x] \in Int
    BY <1>4, <2>3
  <2>5. U \subseteq UpTo(f[y])
    BY <2>3
  <2>6. Cardinality(U) <= Cardinality(UpTo(f[y]))
    <3>1. UpTo(f[y]) \in SUBSET D
      OBVIOUS
    <3> HIDE DEF U, UpTo
    <3> QED
      BY <1>1, <2>5, <3>1, FS_Subset
  <2>7. Cardinality(UpTo(f[y])) >= k
    <3>1. UpTo(f[y]) \in SUBSET D
      OBVIOUS
    <3> HIDE DEF UpTo
    <3> QED
      BY <1>1, <1>6, <2>1, <2>6, <3>1
  <2>8. y \in Enough
    BY <2>4, <2>7
  <2> QED
    BY <1>4, <2>4, <2>8
<1>7. \E v \in {f[z] : z \in DOMAIN f} :
        /\ Cardinality({z \in DOMAIN f : f[z] < v}) < k
        /\ Cardinality({z \in DOMAIN f : f[z] <= v}) >= k
  BY <1>4, <1>5, <1>6
<1>8. /\ Kth(f, k) \in {f[z] : z \in DOMAIN f}
      /\ Cardinality({z \in DOMAIN f : f[z] < Kth(f, k)}) < k
      /\ Cardinality({z \in DOMAIN f : f[z] <= Kth(f, k)}) >= k
  BY <1>7 DEF Kth
<1> QED
  BY <1>8

\* The k-th value lies where most values are, for the one or two k in the middle.
LEMMA MiddleIsRobust ==
  ASSUME NEW f, IsFiniteSet(DOMAIN f), \A x \in DOMAIN f : f[x] \in Int,
         NEW k \in 1..Cardinality(DOMAIN f), NEW lo \in Int, NEW hi \in Int,
         2 * Cardinality({x \in DOMAIN f : f[x] \in lo..hi}) > Cardinality(DOMAIN f),
         2 * k >= Cardinality(DOMAIN f), 2 * (k - 1) <= Cardinality(DOMAIN f)
  PROVE  Kth(f, k) \in lo..hi
<1> DEFINE D == DOMAIN f
           v == Kth(f, k)
           In == {x \in D : f[x] \in lo..hi}
           Under == {x \in D : f[x] < v}
           UpTo == {x \in D : f[x] <= v}
           n == Cardinality(D)
           c == Cardinality(In)
           u == Cardinality(Under)
           w == Cardinality(UpTo)
<1>1. v \in Int /\ u < k /\ w >= k
  BY KthValue
<1>2. /\ IsFiniteSet(In) /\ IsFiniteSet(Under) /\ IsFiniteSet(UpTo)
      /\ n \in Nat /\ c \in Nat /\ u \in Nat /\ w \in Nat /\ k \in Nat
      /\ 2 * c > n /\ 2 * k >= n /\ 2 * (k - 1) <= n
  <2>1. IsFiniteSet(In) /\ IsFiniteSet(Under) /\ IsFiniteSet(UpTo)
    BY FS_Subset
  <2> QED
    BY <2>1, FS_CardinalityType
<1> HIDE DEF v
<1>3. CASE v < lo
  <2>1. In \cap UpTo = {}
    BY <1>1, <1>3
  <2>2. In \cup UpTo \subseteq D
    OBVIOUS
  <2>3. c + w <= n
    <3> HIDE DEF In, UpTo, D
    <3>1. /\ Cardinality(In \cup UpTo) = c + w - Cardinality(In \cap UpTo)
          /\ IsFiniteSet(In \cup UpTo)
      BY <1>2, FS_Union
    <3>2. Cardinality(In \cup UpTo) <= n
      BY <2>2, FS_Subset DEF D
    <3>3. Cardinality(In \cap UpTo) = 0
      BY <2>1, FS_EmptySet
    <3> QED
      BY <1>2, <3>1, <3>2, <3>3
  <2> HIDE DEF c, w, n
  <2> QED
    BY <1>1, <1>2, <2>3
<1>4. CASE v > hi
  <2>1. In \subseteq Under
    BY <1>1, <1>4
  <2>2. c <= u
    <3> HIDE DEF In, Under
    <3> QED
      BY <1>2, <2>1, FS_Subset
  <2> HIDE DEF c, u, n
  <2> QED
    BY <1>1, <1>2, <2>2
<1> QED
  BY <1>1, <1>3, <1>4 DEF v

\* What berkeley_algorithm makes of offsets lies where most of them are.
THEOREM MedianRobust ==
  ASSUME NEW f, IsFiniteSet(DOMAIN f), DOMAIN f # {}, \A x \in DOMAIN f : f[x] \in Int,
         NEW lo \in Int, NEW hi \in Int,
         2 * Cardinality({x \in DOMAIN f : f[x] \in lo..hi}) > Cardinality(DOMAIN f)
  PROVE  median(f) \in lo..hi
<1> DEFINE n == Cardinality(DOMAIN f)
           h == n \div 2
<1>1. n \in Nat /\ n # 0
  BY FS_CardinalityType, FS_EmptySet
<1>2. \A k \in 1..n : 2 * k >= n /\ 2 * (k - 1) <= n => Kth(f, k) \in lo..hi
  BY MiddleIsRobust
<1>3. CASE n % 2 = 0
  <2>1. h \in 1..n /\ h + 1 \in 1..n /\ 2 * h >= n /\ 2 * (h - 1) <= n
        /\ 2 * (h + 1) >= n /\ 2 * (h + 1 - 1) <= n
    <3> HIDE DEF n
    <3> QED
      BY <1>1, <1>3
  <2> HIDE DEF h, n
  <2>2. Kth(f, h) \in lo..hi /\ Kth(f, h + 1) \in lo..hi
    BY <1>2, <2>1
  <2>3. median(f) = Quotient(Kth(f, h) + Kth(f, h + 1), 2)
    BY <1>3 DEF median, h, n
  <2>4. \A a, b \in lo..hi : Quotient(a + b, 2) \in lo..hi
    BY DEF Quotient
  <2> QED
    BY <2>2, <2>3, <2>4
<1>4. CASE n % 2 # 0
  <2> DEFINE m == h + 1
  <2>1. m \in 1..n /\ 2 * m >= n /\ 2 * (m - 1) <= n
    <3> HIDE DEF n
    <3> QED
      BY <1>1, <1>4
  <2> HIDE DEF m, n
  <2>2. Kth(f, m) \in lo..hi
    BY <1>2, <2>1
  <2>3. median(f) = Kth(f, m)
    BY <1>4 DEF median, m, n
  <2> QED
    BY <2>2, <2>3
<1> QED
  BY <1>3, <1>4

\* The property as a run checks it, for any finite set of indexes.
THEOREM MedianRobustChecked == Spec => []MedianIsRobust
<1>1. MedianIsRobust
  <2> SUFFICES ASSUME NEW S \in (SUBSET Voter) \ {{}}, NEW f \in [S -> -2..2],
                      NEW lo \in -2..2, NEW hi \in -2..2,
                      2 * Cardinality({x \in S : f[x] \in lo..hi}) > Cardinality(S)
               PROVE  median(f) \in lo..hi
    BY DEF MedianIsRobust
  <2>1. DOMAIN f = S /\ S # {} /\ \A x \in S : f[x] \in Int
    OBVIOUS
  <2>2. IsFiniteSet(DOMAIN f)
    BY <2>1, VoterAssumption, FS_Subset
  <2> QED
    BY <2>1, <2>2, MedianRobust
<1> QED
  BY <1>1, PTL

-----------------------------------------------------------------------------
\* The offsets that the threads keep to themselves are within range as well;
\* one of them becomes the local offset a moment later.
OffsetInv ==
  /\ TypeOK
  /\ OffsetWithinSamples
  /\ filtered \in [sync : Low..High, ntp : Low..High]

\* The weighted mean, cut towards zero, lies between its arguments.
LEMMA FilterInRange ==
  ASSUME NEW c \in Low..High, NEW s \in Low..High
  PROVE  filter_offset(c, s) \in Low..High
<1>1. Low \in Int /\ High \in Int /\ c \in Int /\ s \in Int
  BY OffsetsAssumption
<1>2. 7 * c + s \in Int /\ 8 * Low <= 7 * c + s /\ 7 * c + s <= 8 * High
  BY <1>1
<1> QED
  BY <1>1, <1>2 DEF filter_offset, Quotient

LEMMA BerkeleyInRange ==
  ASSUME TypeOK, Confident # {}
  PROVE  berkeley_algorithm \in Low..High
<1> DEFINE f == [n \in Confident |-> node_offsets[n].offset]
<1>1. /\ DOMAIN f = Confident /\ IsFiniteSet(Confident)
      /\ \A x \in DOMAIN f : f[x] \in Low..High
  <2>1. Confident \subseteq Node /\ \A n \in Confident : node_offsets[n] \in OffsetInfo
    BY DEF TypeOK, Confident
  <2> QED
    BY <2>1, NodeAssumption, FS_Subset DEF OffsetInfo
<1>2. Low \in Int /\ High \in Int
  BY OffsetsAssumption
<1> HIDE DEF f
<1>3. \A x \in DOMAIN f : f[x] \in Int
  BY <1>1, <1>2
<1>4. {x \in DOMAIN f : f[x] \in Low..High} = DOMAIN f
  BY <1>1
<1>5. Cardinality(DOMAIN f) \in Nat /\ Cardinality(DOMAIN f) # 0
  BY <1>1, FS_CardinalityType, FS_EmptySet
<1>6. 2 * Cardinality({x \in DOMAIN f : f[x] \in Low..High}) > Cardinality(DOMAIN f)
  BY <1>4, <1>5
<1>7. median(f) \in Low..High
  BY <1>1, <1>2, <1>3, <1>6, MedianRobust
<1> QED
  BY <1>7 DEF berkeley_algorithm, f

\* A new or changed entry is an entry.
LEMMA EnteredTypes ==
  ASSUME TypeOK, NEW n \in Node, NEW info \in OffsetInfo, node_offsets' = Entered(n, info)
  PROVE  /\ DOMAIN node_offsets' \subseteq Node
         /\ \A m \in DOMAIN node_offsets' : node_offsets'[m] \in OffsetInfo
BY DEF TypeOK, Entered

LEMMA CountedTypes ==
  ASSUME NEW c \in 1..ConfidentCount
  PROVE  Counted(c) \in 1..ConfidentCount
BY CountAssumption DEF Counted

LEMMA FirstTypes ==
  ASSUME NEW o \in Low..High
  PROVE  First(o) \in OffsetInfo
<1>1. 1 \in 1..ConfidentCount
  BY CountAssumption
<1> QED
  BY <1>1 DEF First, OffsetInfo

LEMMA SampleTypes ==
  ASSUME TypeOK, NEW n \in Node, NEW s \in Sample, update_offset_with_sample(n, s)
  PROVE  /\ DOMAIN node_offsets' \subseteq Node
         /\ \A m \in DOMAIN node_offsets' : node_offsets'[m] \in OffsetInfo
<1>1. s \in Low..High
  BY OffsetsAssumption
<1>2. CASE n \in DOMAIN node_offsets
  <2> DEFINE c == Counted(node_offsets[n].count)
             info == [offset |-> filter_offset(node_offsets[n].offset, s),
                      count |-> c, confident |-> c = ConfidentCount]
  <2>1. node_offsets[n].offset \in Low..High /\ node_offsets[n].count \in 1..ConfidentCount
    BY <1>2 DEF TypeOK, OffsetInfo
  <2>2. filter_offset(node_offsets[n].offset, s) \in Low..High /\ c \in 1..ConfidentCount
    BY <1>1, <2>1, FilterInRange, CountedTypes
  <2>3. (c = ConfidentCount) \in BOOLEAN
    OBVIOUS
  <2>4. info \in OffsetInfo
    <3> HIDE DEF c
    <3> QED
      BY <2>2, <2>3 DEF OffsetInfo
  <2>5. node_offsets' = Entered(n, info)
    BY <1>2 DEF update_offset_with_sample
  <2> HIDE DEF info
  <2> QED
    BY <2>4, <2>5, EnteredTypes
<1>3. CASE n \notin DOMAIN node_offsets
  <2>1. node_offsets' = Entered(n, First(s))
    BY <1>3 DEF update_offset_with_sample
  <2> QED
    BY <1>1, <2>1, FirstTypes, EnteredTypes
<1> QED
  BY <1>2, <1>3

LEMMA SetTypes ==
  ASSUME TypeOK, NEW n \in Node, NEW o \in Manual, SetOffset(n, o)
  PROVE  /\ DOMAIN node_offsets' \subseteq Node
         /\ \A m \in DOMAIN node_offsets' : node_offsets'[m] \in OffsetInfo
<1>1. o \in Low..High
  BY OffsetsAssumption
<1>2. CASE n \in DOMAIN node_offsets
  <2> DEFINE r == node_offsets[n]
             info == [r EXCEPT !.offset = o, !.count = Counted(@)]
  <2>1. r \in OffsetInfo
    BY <1>2 DEF TypeOK
  <2>2. Counted(r.count) \in 1..ConfidentCount
    BY <2>1, CountedTypes DEF OffsetInfo
  <2>3. info \in OffsetInfo
    <3> HIDE DEF r
    <3> QED
      BY <1>1, <2>1, <2>2 DEF OffsetInfo
  <2>4. node_offsets' = Entered(n, info)
    BY <1>2 DEF SetOffset
  <2> HIDE DEF info
  <2> QED
    BY <2>3, <2>4, EnteredTypes
<1>3. CASE n \notin DOMAIN node_offsets
  <2>1. node_offsets' = Entered(n, First(o))
    BY <1>3 DEF SetOffset
  <2> QED
    BY <1>1, <2>1, FirstTypes, EnteredTypes
<1> QED
  BY <1>2, <1>3

LEMMA OffsetInit == Init => OffsetInv
<1> SUFFICES ASSUME Init PROVE OffsetInv
  OBVIOUS
<1>1. Low \in Int /\ High \in Int /\ 0 \in Low..High
  BY OffsetsAssumption
<1>2. is_running \in BOOLEAN /\ stop_threads \in BOOLEAN
  BY Zenon DEF Init
<1>3. DOMAIN node_offsets = {}
  BY DEF Init
<1>4. filtered \in [sync : Low..High, ntp : Low..High]
  BY <1>1 DEF Init
<1>5. TypeOK
  BY <1>2, <1>3 DEF Init, TypeOK
<1> QED
  BY <1>1, <1>4, <1>5 DEF OffsetInv, OffsetWithinSamples, Init

LEMMA OffsetStep == OffsetInv /\ [Next]_vars => OffsetInv'
<1> SUFFICES ASSUME OffsetInv, [Next]_vars PROVE OffsetInv'
  OBVIOUS
<1> DEFINE EntriesOK == /\ DOMAIN node_offsets \subseteq Node
                        /\ \A n \in DOMAIN node_offsets : node_offsets[n] \in OffsetInfo
           InRange == local_offset \in Low..High
                      /\ filtered \in [sync : Low..High, ntp : Low..High]
<1>1. /\ TypeOK /\ EntriesOK /\ InRange
      /\ \A f \in [sync : Low..High, ntp : Low..High] : f \in [sync : Int, ntp : Int]
      /\ Low \in Int /\ High \in Int /\ 0 \in Low..High
  BY OffsetsAssumption DEF OffsetInv, OffsetWithinSamples, TypeOK
<1>2. CASE Start \/ Stop \/ JoinSync \/ JoinNtp
  <2>1. is_running' \in BOOLEAN /\ stop_threads' \in BOOLEAN
    BY <1>1, <1>2, Zenon DEF TypeOK, Start, Stop, JoinSync, JoinNtp
  <2>2. stopper' \in {"out", "join_sync", "join_ntp"}
        /\ sync' \in {"none", "check", "list", "sample", "store", "cleanup", "done"}
        /\ ntp' \in {"none", "check", "query", "store", "done"}
    BY <1>1, <1>2 DEF TypeOK, Start, Stop, JoinSync, JoinNtp, threadVars
  <2>3. UNCHANGED <<sync_nodes, node_offsets, local_offset, listed, todo, filtered,
                    addressed>>
    BY <1>2 DEF Start, Stop, JoinSync, JoinNtp, threadVars
  <2> QED
    BY <1>1, <2>1, <2>2, <2>3 DEF OffsetInv, OffsetWithinSamples, TypeOK
<1>3. ASSUME NEW n \in Node, AddNode(n) PROVE OffsetInv'
  BY <1>1, <1>3 DEF AddNode, lifeVars, threadVars, OffsetInv, OffsetWithinSamples, TypeOK
<1>4. ASSUME NEW n \in Node, RemoveNode(n) PROVE OffsetInv'
  BY <1>1, <1>4 DEF RemoveNode, lifeVars, threadVars, OffsetInv, OffsetWithinSamples, TypeOK
<1>5. ASSUME NEW n \in Node, NEW o \in Manual, SetOffset(n, o) PROVE OffsetInv'
  <2>1. EntriesOK'
    BY <1>1, <1>5, SetTypes
  <2>2. UNCHANGED <<is_running, stop_threads, stopper, sync_nodes, local_offset, sync,
                    listed, todo, ntp, filtered>>
        /\ addressed' = addressed \cup {n}
    BY <1>5 DEF SetOffset, lifeVars, threadVars
  <2> QED
    BY <1>1, <2>1, <2>2 DEF OffsetInv, OffsetWithinSamples, TypeOK
<1>6. ASSUME NEW n \in Node, NEW s \in Sample, SyncWithNode(n, s) PROVE OffsetInv'
  <2>1. EntriesOK'
    BY <1>1, <1>6, SampleTypes DEF SyncWithNode
  <2>2. UNCHANGED <<is_running, stop_threads, stopper, sync_nodes, local_offset, sync,
                    listed, todo, ntp, filtered>>
        /\ addressed' = addressed \cup {n}
    BY <1>6 DEF SyncWithNode, lifeVars, threadVars
  <2> QED
    BY <1>1, <2>1, <2>2 DEF OffsetInv, OffsetWithinSamples, TypeOK
<1>7. CASE SyncCheck \/ SyncList
  BY <1>1, <1>7 DEF SyncCheck, SyncList, lifeVars, OffsetInv, OffsetWithinSamples, TypeOK
<1>8. ASSUME NEW n \in todo, NEW s \in Sample, SyncSample(n, s) PROVE OffsetInv'
  <2>1. n \in Node
    BY <1>1 DEF TypeOK
  <2>2. EntriesOK'
    BY <1>1, <1>8, <2>1, SampleTypes DEF SyncSample
  <2>3. UNCHANGED <<is_running, stop_threads, stopper, sync_nodes, local_offset, sync,
                    listed, ntp, filtered, addressed>>
        /\ todo' = todo \ {n}
    BY <1>8 DEF SyncSample, lifeVars
  <2> QED
    BY <1>1, <2>2, <2>3 DEF OffsetInv, OffsetWithinSamples, TypeOK
<1>9. CASE SyncBerkeley
  <2>1. UNCHANGED <<is_running, stop_threads, stopper, sync_nodes, node_offsets,
                    local_offset, todo, ntp, addressed>>
        /\ listed' = {} /\ todo = {} /\ sync' \in {"store", "cleanup"}
    BY <1>9 DEF SyncBerkeley, lifeVars
  <2>2. filtered' \in [sync : Low..High, ntp : Low..High]
    <3>1. CASE BerkeleyOK /\ filtered' = [filtered EXCEPT !.sync = berkeley_algorithm]
      <4>1. berkeley_algorithm \in Low..High
        BY <1>1, <3>1, BerkeleyInRange DEF BerkeleyOK
      <4> QED
        BY <1>1, <3>1, <4>1
    <3>2. CASE UNCHANGED filtered
      BY <1>1, <3>2
    <3> QED
      BY <1>9, <3>1, <3>2 DEF SyncBerkeley
  <2> QED
    BY <1>1, <2>1, <2>2 DEF OffsetInv, OffsetWithinSamples, TypeOK
<1>10. CASE SyncStore
  <2>1. UNCHANGED <<is_running, stop_threads, stopper, sync_nodes, node_offsets, listed,
                    todo, ntp, addressed>> /\ sync' = "cleanup"
    BY <1>10 DEF SyncStore, lifeVars
  <2>2. local_offset' \in Low..High /\ filtered' \in [sync : Low..High, ntp : Low..High]
    BY <1>1, <1>10 DEF SyncStore
  <2> QED
    BY <1>1, <2>1, <2>2 DEF OffsetInv, OffsetWithinSamples, TypeOK
<1>11. CASE SyncCleanup
  BY <1>1, <1>11 DEF SyncCleanup, lifeVars, OffsetInv, OffsetWithinSamples, TypeOK
<1>12. CASE NtpCheck
  BY <1>1, <1>12 DEF NtpCheck, lifeVars, OffsetInv, OffsetWithinSamples, TypeOK
<1>13. ASSUME NEW s \in Sample, NtpQuery(s) PROVE OffsetInv'
  <2>1. UNCHANGED <<is_running, stop_threads, stopper, sync_nodes, node_offsets, listed,
                    local_offset, todo, sync, addressed>> /\ ntp' = "store"
    BY <1>13 DEF NtpQuery, lifeVars
  <2>2. filter_offset(local_offset, s) \in Low..High
    BY <1>1, OffsetsAssumption, FilterInRange
  <2>3. filtered' \in [sync : Low..High, ntp : Low..High]
    BY <1>1, <1>13, <2>2 DEF NtpQuery
  <2> QED
    BY <1>1, <2>1, <2>3 DEF OffsetInv, OffsetWithinSamples, TypeOK
<1>14. CASE NtpStore
  <2>1. UNCHANGED <<is_running, stop_threads, stopper, sync_nodes, node_offsets, listed,
                    todo, sync, addressed>> /\ ntp' = "check"
    BY <1>14 DEF NtpStore, lifeVars
  <2>2. local_offset' \in Low..High /\ filtered' \in [sync : Low..High, ntp : Low..High]
    BY <1>1, <1>14 DEF NtpStore
  <2> QED
    BY <1>1, <2>1, <2>2 DEF OffsetInv, OffsetWithinSamples, TypeOK
<1>15. CASE UNCHANGED vars
  BY <1>1, <1>15 DEF vars, OffsetInv, OffsetWithinSamples, TypeOK
<1> QED
  BY <1>2, <1>3, <1>4, <1>5, <1>6, <1>7, <1>8, <1>9, <1>10, <1>11, <1>12, <1>13, <1>14,
     <1>15 DEF Next

\* The variables keep their types.
THEOREM TimeTypeCorrect == Spec => []TypeOK
<1>1. OffsetInv => TypeOK
  BY DEF OffsetInv
<1> QED
  BY <1>1, OffsetInit, OffsetStep, PTL DEF Spec

\* The local offset stays within what was measured or set, whichever of the two
\* threads stores last and whatever it read before.
THEOREM LocalOffsetInRange == Spec => []OffsetWithinSamples
<1>1. OffsetInv => OffsetWithinSamples
  BY DEF OffsetInv
<1> QED
  BY <1>1, OffsetInit, OffsetStep, PTL DEF Spec
=============================================================================
