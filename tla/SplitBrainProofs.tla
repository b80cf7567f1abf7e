-------------------------- MODULE SplitBrainProofs --------------------------
(***************************************************************************)
(* Proofs about QuorumRules and SplitBrainDetector for any finite set of   *)
(* nodes and any configurations.  Those about quorums rest on one count:   *)
(* disjoint parts of the cluster have together at most as many nodes as    *)
(* the cluster.                                                            *)
(*                                                                         *)
(* DetectorKeepsMajority is not inductive: between the decision and the    *)
(* last isolate_node a majority that is there now may be about to go.      *)
(* KeptInv counts without the nodes that are still to be isolated.         *)
(***************************************************************************)
EXTENDS MCSplitBrainDetector, FiniteSetTheorems, TLAPS

\* Two parts of a set that share no member have at most its size together.
LEMMA DisjointParts ==
  ASSUME NEW all, IsFiniteSet(all),
         NEW A \in SUBSET all, NEW B \in SUBSET all, A \cap B = {}
  PROVE  /\ Cardinality(all) \in Nat
         /\ Cardinality(A) \in Nat
         /\ Cardinality(B) \in Nat
         /\ Cardinality(A) + Cardinality(B) <= Cardinality(all)
<1>1. IsFiniteSet(A) /\ IsFiniteSet(B)
  BY FS_Subset
<1>2. /\ Cardinality(all) \in Nat
      /\ Cardinality(A) \in Nat
      /\ Cardinality(B) \in Nat
  BY <1>1, FS_CardinalityType
<1>3. Cardinality(A \cup B) = Cardinality(A) + Cardinality(B) - Cardinality(A \cap B)
  BY <1>1, FS_Union
<1>4. Cardinality(A \cap B) = 0
  BY FS_EmptySet
<1>5. A \cup B \in SUBSET all
  OBVIOUS
<1>6. Cardinality(A \cup B) <= Cardinality(all)
  BY <1>5, FS_Subset
<1>. QED
  BY <1>2, <1>3, <1>4, <1>6

-----------------------------------------------------------------------------
(* The quorum rules                                                        *)

\* Under every strategy but the majority a part with a quorum has at least
\* min_quorum_size nodes: the size dynamic_quorum computes is never below it.
LEMMA QuorumHasMinimum ==
  ASSUME NEW c \in QuorumConfig, NEW all, NEW A, Cardinality(A) \in Nat,
         c.strategy # "MAJORITY", calculate_quorum(c, all, A)
  PROVE  Cardinality(A) >= c.min
<1>1. c.min \in Nat /\ c.strategy \in QuorumStrategy
  BY DEF QuorumConfig
<1>2. CASE c.strategy = "STATIC_QUORUM"
  BY <1>2 DEF calculate_quorum, static_quorum
<1>3. CASE c.strategy = "DYNAMIC_QUORUM"
  BY <1>1, <1>3 DEF calculate_quorum, dynamic_quorum
<1>4. CASE c.strategy = "WITNESS_BASED"
  BY <1>4 DEF calculate_quorum, witness_based_quorum
<1>. QED
  BY <1>1, <1>2, <1>3, <1>4 DEF QuorumStrategy

\* calculate_quorum never answers yes on two sides of a divided cluster under a
\* configuration that OneQuorumOnly names, for any number of nodes and any
\* min_quorum_size.
THEOREM OneSideHasQuorum ==
  ASSUME NEW c \in QuorumConfig, NEW all, IsFiniteSet(all), OneQuorumOnly(c, all),
         NEW A \in SUBSET all, NEW B \in SUBSET all, A \cap B = {}
  PROVE  ~ (calculate_quorum(c, all, A) /\ calculate_quorum(c, all, B))
<1>. SUFFICES ASSUME calculate_quorum(c, all, A), calculate_quorum(c, all, B)
              PROVE  FALSE
  OBVIOUS
<1>. DEFINE n == Cardinality(all)
            a == Cardinality(A)
            b == Cardinality(B)
<1>1. n \in Nat /\ a \in Nat /\ b \in Nat /\ a + b <= n
  BY DisjointParts
<1>2. c.min \in Nat
  BY DEF QuorumConfig
<1>3. CASE c.strategy = "MAJORITY"
  <2>1. a >= n \div 2 + 1 /\ b >= n \div 2 + 1
    BY <1>3 DEF calculate_quorum, majority_quorum
  <2>. HIDE DEF n, a, b
  <2>. QED
    BY <1>1, <2>1
<1>4. CASE c.strategy # "MAJORITY" /\ 2 * c.min > n
  <2>1. a >= c.min /\ b >= c.min
    BY <1>1, <1>4, QuorumHasMinimum
  <2>. HIDE DEF n, a, b
  <2>. QED
    BY <1>1, <1>2, <1>4, <2>1
<1>5. CASE c.strategy = "WITNESS_BASED" /\ \A v, w \in c.witness \cap all : v = w
  <2>1. A \cap c.witness # {} /\ B \cap c.witness # {}
    BY <1>5 DEF calculate_quorum, witness_based_quorum
  <2>. QED
    BY <1>5, <2>1
<1>. QED
  BY <1>3, <1>4, <1>5 DEF OneQuorumOnly

\* The property the runs look at, for every finite set of nodes.
THEOREM QuorumExclusive ==
  ASSUME IsFiniteSet(Node)
  PROVE  QuorumIsExclusive
<1>. SUFFICES ASSUME NEW c \in [strategy : QuorumStrategy,
                                min : 0..Cardinality(Node) + 1, witness : SUBSET Node],
                     NEW all \in SUBSET Node, OneQuorumOnly(c, all),
                     NEW A \in SUBSET all, NEW B \in SUBSET all, A \cap B = {}
              PROVE  ~ (calculate_quorum(c, all, A) /\ calculate_quorum(c, all, B))
  BY DEF QuorumIsExclusive
<1>1. Cardinality(Node) \in Nat /\ IsFiniteSet(all)
  BY FS_CardinalityType, FS_Subset
<1>2. c \in QuorumConfig
  BY <1>1 DEF QuorumConfig
<1>. QED
  BY <1>1, <1>2, OneSideHasQuorum

-----------------------------------------------------------------------------
(* The detector                                                            *)

\* Nodes that are not isolated, and those of them that will stay so.
Free == {n \in Known : ~ nodes[n].isolated}
Kept == Free \ todo

KeptInv ==
  ~ expelled => /\ todo \subseteq Known
                /\ majority_quorum(Known, Kept) \/ Known = {}

\* The part of TypeOK that the other parts need.
NodesOK == Known \subseteq Node /\ \A n \in Known : nodes[n] \in NodeStatus

SplitInv == NodesOK /\ IsolationIsReported /\ KeptInv

-----------------------------------------------------------------------------
\* A larger part of the same nodes keeps the majority.
LEMMA MajorityGrows ==
  ASSUME NEW K, IsFiniteSet(K), NEW G \in SUBSET K, NEW F \in SUBSET G,
         majority_quorum(K, F)
  PROVE  majority_quorum(K, G)
<1>1. IsFiniteSet(G)
  BY FS_Subset
<1>2. Cardinality(F) <= Cardinality(G)
  BY <1>1, FS_Subset
<1>3. Cardinality(F) \in Nat /\ Cardinality(G) \in Nat /\ Cardinality(K) \in Nat
  BY <1>1, FS_Subset, FS_CardinalityType
<1>. QED
  BY <1>2, <1>3 DEF majority_quorum

\* A new node that counts on both sides keeps it too.
LEMMA MajorityAdds ==
  ASSUME NEW K, IsFiniteSet(K), NEW F \in SUBSET K, NEW n, n \notin K,
         majority_quorum(K, F) \/ K = {}
  PROVE  majority_quorum(K \cup {n}, F \cup {n})
<1>. DEFINE k == Cardinality(K)
            f == Cardinality(F)
<1>1. IsFiniteSet(F)
  BY FS_Subset
<1>2. k \in Nat /\ f \in Nat
  BY <1>1, FS_CardinalityType
<1>3. Cardinality(K \cup {n}) = k + 1 /\ Cardinality(F \cup {n}) = f + 1
  BY <1>1, FS_AddElement
<1>4. CASE K = {}
  <2>1. k = 0 /\ f = 0
    BY <1>4, FS_EmptySet
  <2>. QED
    BY <1>3, <2>1 DEF majority_quorum
<1>5. CASE majority_quorum(K, F)
  <2>1. f >= k \div 2 + 1
    BY <1>5 DEF majority_quorum
  <2>2. f + 1 >= (k + 1) \div 2 + 1
    <3>. HIDE DEF k, f
    <3>. QED
      BY <1>2, <2>1
  <2>. QED
    BY <1>3, <2>2 DEF majority_quorum
<1>. QED
  BY <1>4, <1>5

\* Steps that isolate and forget nobody.
LEMMA KeptGrows ==
  ASSUME NodesOK, KeptInv, Known' = Known, Kept \subseteq Kept',
         expelled' = expelled, todo' \subseteq todo \/ todo' \subseteq Known
  PROVE  KeptInv'
<1>. SUFFICES ASSUME ~ expelled
              PROVE  todo' \subseteq Known /\ (majority_quorum(Known, Kept') \/ Known = {})
  BY DEF KeptInv
<1>1. todo' \subseteq Known
  BY DEF KeptInv
<1>2. IsFiniteSet(Known)
  BY NodeAssumption, FS_Subset DEF NodesOK
<1>3. Kept' \in SUBSET Known /\ Kept \in SUBSET Kept'
  BY DEF Kept, Free
<1>. QED
  BY <1>1, <1>2, <1>3, MajorityGrows DEF KeptInv

-----------------------------------------------------------------------------
LEMMA SplitInit == Init => SplitInv
<1>. SUFFICES ASSUME Init PROVE SplitInv
  OBVIOUS
<1>1. Known = {}
  BY DEF Init, Known
<1>. QED
  BY <1>1 DEF Init, SplitInv, NodesOK, IsolationIsReported, KeptInv

\* Steps that leave the nodes and the decision alone.
LEMMA SplitFrame ==
  ASSUME SplitInv, UNCHANGED <<nodes, isolated_nodes, expelled, todo>>
  PROVE  SplitInv'
<1>1. Known' = Known /\ Kept' = Kept
  BY DEF Known, Free, Kept
<1>. QED
  BY <1>1 DEF SplitInv, NodesOK, NodeStatus, IsolationIsReported, KeptInv

\* Setting a field of a node's status.
LEMMA StatusField ==
  ASSUME NEW r \in NodeStatus, NEW b \in BOOLEAN
  PROVE  /\ [r EXCEPT !.isolated = b] \in NodeStatus
         /\ [r EXCEPT !.isolated = b].isolated = b
BY DEF NodeStatus

\* Start, stop, configuration, partitions, and the threads away from the nodes.
LEMMA SplitLife ==
  ASSUME SplitInv,
         \/ \E c \in Configs : Start(c) \/ UpdateConfig(c)
         \/ Stop \/ JoinDetection \/ JoinRecovery \/ ForceMergePartitions
         \/ DetectEnd \/ Recovery
  PROVE  SplitInv'
<1>1. UNCHANGED <<nodes, isolated_nodes, expelled, todo>>
  BY DEF Start, UpdateConfig, Stop, JoinDetection, JoinRecovery, ForceMergePartitions,
     DetectEnd, Recovery, RecoveryCheck, RecoveryBegin, RecoveryUpdate, RecoveryEnd,
     memberVars, threadVars
<1>. QED
  BY <1>1, SplitFrame

\* add_node starts a node over or enters a new one, which counts for both sides.
LEMMA SplitAdd ==
  ASSUME SplitInv, NEW n \in Node, AddNode(n)
  PROVE  SplitInv'
<1>1. /\ nodes' = [m \in Known \cup {n} |-> IF m = n THEN NewNode ELSE nodes[m]]
      /\ UNCHANGED <<isolated_nodes, expelled, todo>>
  BY DEF AddNode, Members, threadVars
<1>2. Known' = Known \cup {n}
  BY <1>1 DEF Known
<1>3. Free' = Free \cup {n}
  BY <1>1, <1>2 DEF Free, NewNode
<1>4. NodesOK'
  BY <1>1, <1>2, AgeAssumption, MaxMissedAssumption
  DEF SplitInv, NodesOK, NodeStatus, NewNode
<1>5. IsolationIsReported'
  BY <1>1, <1>2 DEF SplitInv, IsolationIsReported, NewNode
<1>6. KeptInv'
  <2>1. CASE n \in Known
    BY <1>1, <1>2, <1>3, <2>1, KeptGrows DEF SplitInv, Kept
  <2>2. CASE n \notin Known
    <3>. SUFFICES ASSUME ~ expelled
                  PROVE  todo \subseteq Known' /\ majority_quorum(Known', Kept')
      BY <1>1 DEF KeptInv
    <3>1. todo \subseteq Known /\ (majority_quorum(Known, Kept) \/ Known = {})
      BY DEF SplitInv, KeptInv
    <3>2. Kept' = Kept \cup {n}
      BY <1>1, <1>3, <2>2, <3>1 DEF Kept
    <3>3. IsFiniteSet(Known) /\ Kept \in SUBSET Known
      BY NodeAssumption, FS_Subset DEF SplitInv, NodesOK, Kept, Free
    <3>4. majority_quorum(Known \cup {n}, Kept \cup {n})
      BY <2>2, <3>1, <3>3, MajorityAdds
    <3>. QED
      BY <1>2, <3>1, <3>2, <3>4
  <2>. QED
    BY <2>1, <2>2
<1>. QED
  BY <1>4, <1>5, <1>6 DEF SplitInv

\* remove_node and isolate_node called from outside.
LEMMA SplitExpel ==
  ASSUME SplitInv, NEW n \in Node, RemoveNode(n) \/ IsolateNode(n)
  PROVE  SplitInv'
<1>1. expelled' = TRUE
  BY DEF RemoveNode, IsolateNode
<1>2. CASE RemoveNode(n)
  <2>1. /\ nodes' = [m \in Known \ {n} |-> nodes[m]]
        /\ isolated_nodes' = isolated_nodes \ {n}
    BY <1>2 DEF RemoveNode, Members
  <2>2. Known' = Known \ {n}
    BY <2>1 DEF Known
  <2>. QED
    BY <1>1, <2>1, <2>2 DEF SplitInv, NodesOK, NodeStatus, IsolationIsReported, KeptInv
<1>3. CASE IsolateNode(n)
  <2>1. /\ n \in Known /\ nodes' = [nodes EXCEPT ![n].isolated = TRUE]
        /\ isolated_nodes' = isolated_nodes \cup {n}
    BY <1>3 DEF IsolateNode, Members
  <2>2. Known' = Known
    BY <2>1 DEF Known
  <2>3. \A m \in Known : nodes'[m] = IF m = n THEN [nodes[n] EXCEPT !.isolated = TRUE]
                                              ELSE nodes[m]
    BY <2>1 DEF Known
  <2>4. /\ nodes'[n] \in NodeStatus /\ nodes'[n].isolated
        /\ \A m \in Known \ {n} : nodes'[m] = nodes[m]
    BY <2>1, <2>3, StatusField DEF SplitInv, NodesOK
  <2>5. NodesOK'
    BY <2>1, <2>2, <2>4 DEF SplitInv, NodesOK, NodeStatus
  <2>6. IsolationIsReported'
    BY <2>1, <2>2, <2>4 DEF SplitInv, IsolationIsReported
  <2>. QED
    BY <1>1, <2>5, <2>6 DEF SplitInv, KeptInv
<1>. QED
  BY <1>2, <1>3

\* Calls and the passing of time, which change one node and isolate none.
LEMMA SplitHeard ==
  ASSUME SplitInv, NEW n \in Known, DOMAIN nodes' = Known, nodes'[n] \in NodeStatus,
         \A m \in Known \ {n} : nodes'[m] = nodes[m],
         \/ /\ nodes'[n].isolated = nodes[n].isolated
            /\ isolated_nodes' = isolated_nodes
         \/ /\ ~ nodes'[n].isolated
            /\ isolated_nodes' = isolated_nodes \ {n},
         UNCHANGED <<expelled, todo>>
  PROVE  SplitInv'
<1>1. Known' = Known
  BY DEF Known
<1>2. \A m \in Known \ {n} : nodes'[m] = nodes[m]
  OBVIOUS
<1>3. NodesOK'
  BY <1>1, <1>2 DEF SplitInv, NodesOK, NodeStatus
<1>4. IsolationIsReported'
  BY <1>1, <1>2 DEF SplitInv, IsolationIsReported
<1>5. Kept \subseteq Kept'
  BY <1>1, <1>2 DEF Kept, Free
<1>6. KeptInv'
  BY <1>1, <1>5, KeptGrows DEF SplitInv
<1>. QED
  BY <1>3, <1>4, <1>6 DEF SplitInv

LEMMA SplitCall ==
  ASSUME SplitInv, NEW n \in Node,
         \/ RestoreNode(n) \/ TimePasses(n)
         \/ \E alive \in BOOLEAN : UpdateNodeStatus(n, alive)
         \/ \E a \in Age : ProcessHeartbeat(n, a)
  PROVE  SplitInv'
<1>1. n \in Known /\ nodes[n] \in NodeStatus
  BY DEF RestoreNode, TimePasses, UpdateNodeStatus, ProcessHeartbeat, SplitInv, NodesOK
<1>. USE <1>1
<1>2. CASE RestoreNode(n)
  <2>1. /\ nodes' = [nodes EXCEPT ![n] = [nodes[n] EXCEPT !.isolated = FALSE]]
        /\ isolated_nodes' = isolated_nodes \ {n} /\ UNCHANGED <<expelled, todo>>
    BY <1>2 DEF RestoreNode, Members, threadVars
  <2>2. DOMAIN nodes' = Known /\ \A m \in Known \ {n} : nodes'[m] = nodes[m]
    BY <2>1 DEF Known
  <2>3. nodes'[n] \in NodeStatus /\ ~ nodes'[n].isolated
    BY <2>1, StatusField DEF Known
  <2>. QED
    BY <2>1, <2>2, <2>3, SplitHeard
<1>3. CASE TimePasses(n)
  <2>1. PICK a \in Age : nodes' = [nodes EXCEPT ![n].age = a]
    BY <1>3 DEF TimePasses
  <2>2. DOMAIN nodes' = Known /\ \A m \in Known \ {n} : nodes'[m] = nodes[m]
    BY <2>1 DEF Known
  <2>3. nodes'[n] \in NodeStatus /\ nodes'[n].isolated = nodes[n].isolated
    BY <2>1 DEF Known, NodeStatus
  <2>4. UNCHANGED <<isolated_nodes, expelled, todo>>
    BY <1>3 DEF TimePasses, threadVars
  <2>. QED
    BY <2>2, <2>3, <2>4, SplitHeard
<1>4. ASSUME NEW alive \in BOOLEAN, UpdateNodeStatus(n, alive) PROVE SplitInv'
  <2>1. nodes' = [nodes EXCEPT ![n].alive = alive,
                               ![n].missed = IF alive THEN 0 ELSE @]
    BY <1>4 DEF UpdateNodeStatus, Members
  <2>2. DOMAIN nodes' = Known /\ \A m \in Known \ {n} : nodes'[m] = nodes[m]
    BY <2>1 DEF Known
  <2>3. nodes'[n] \in NodeStatus /\ nodes'[n].isolated = nodes[n].isolated
    BY <2>1, MaxMissedAssumption DEF Known, NodeStatus
  <2>4. UNCHANGED <<isolated_nodes, expelled, todo>>
    BY <1>4 DEF UpdateNodeStatus, Members, threadVars
  <2>. QED
    BY <2>2, <2>3, <2>4, SplitHeard
<1>5. ASSUME NEW a \in Age, ProcessHeartbeat(n, a) PROVE SplitInv'
  <2>1. nodes' = [nodes EXCEPT ![n].age = a, ![n].alive = TRUE, ![n].missed = 0]
    BY <1>5 DEF ProcessHeartbeat, Members
  <2>2. DOMAIN nodes' = Known /\ \A m \in Known \ {n} : nodes'[m] = nodes[m]
    BY <2>1 DEF Known
  <2>3. nodes'[n] \in NodeStatus /\ nodes'[n].isolated = nodes[n].isolated
    BY <2>1, MaxMissedAssumption DEF Known, NodeStatus
  <2>4. UNCHANGED <<isolated_nodes, expelled, todo>>
    BY <1>5 DEF ProcessHeartbeat, Members, threadVars
  <2>. QED
    BY <2>2, <2>3, <2>4, SplitHeard
<1>. QED
  BY <1>2, <1>3, <1>4, <1>5

-----------------------------------------------------------------------------
\* Counting missed heartbeats isolates nobody.
LEMMA SplitMark ==
  ASSUME SplitInv, NEW raced, NEW lost, DetectMark(raced, lost)
  PROVE  SplitInv'
<1>1. UNCHANGED <<isolated_nodes, expelled, todo>>
  BY DEF DetectMark
<1>2. DOMAIN nodes' = Known
  BY DEF DetectMark
<1>3. Known' = Known
  BY <1>2 DEF Known
<1>4. ASSUME NEW n \in Known
      PROVE  nodes'[n] \in NodeStatus /\ nodes'[n].isolated = nodes[n].isolated
  <2>. DEFINE read(m) == IF m \in raced \ lost THEN 0 ELSE nodes[m].missed
              count(m) == IF read(m) < MaxMissed THEN read(m) + 1 ELSE read(m)
  <2>1. nodes[n] \in NodeStatus
    BY DEF SplitInv, NodesOK
  <2>2. count(n) \in 0..MaxMissed
    BY <2>1, MaxMissedAssumption DEF NodeStatus
  <2>3. CASE n \in Overdue
    <3>1. nodes'[n] = [nodes[n] EXCEPT
                         !.missed = count(n),
                         !.alive = (@ \/ n \in raced) /\ count(n) < MaxMissed,
                         !.age = IF n \in raced THEN 0 ELSE @]
      BY <2>3 DEF DetectMark
    <3>. HIDE DEF count
    <3>. QED
      BY <2>1, <2>2, <3>1, AgeAssumption DEF NodeStatus
  <2>4. CASE n \notin Overdue
    BY <2>1, <2>4 DEF DetectMark
  <2>. QED
    BY <2>3, <2>4
<1>5. NodesOK'
  BY <1>3, <1>4 DEF SplitInv, NodesOK, NodeStatus
<1>6. IsolationIsReported'
  BY <1>1, <1>3, <1>4 DEF SplitInv, IsolationIsReported
<1>7. Kept \subseteq Kept'
  BY <1>1, <1>3, <1>4 DEF Kept, Free
<1>8. KeptInv'
  BY <1>1, <1>3, <1>7, KeptGrows DEF SplitInv
<1>. QED
  BY <1>5, <1>6, <1>8 DEF SplitInv

\* The decision: it isolates the rest of a majority, or nobody.
LEMMA SplitDecide ==
  ASSUME SplitInv, DetectDecide
  PROVE  SplitInv'
<1>1. UNCHANGED <<nodes, isolated_nodes, expelled>>
  BY DEF DetectDecide, memberVars
<1>2. Known' = Known /\ Free' = Free
  BY <1>1 DEF Known, Free
<1>3. NodesOK' /\ IsolationIsReported'
  BY <1>1, <1>2 DEF SplitInv, NodesOK, NodeStatus, IsolationIsReported
<1>4. CASE todo' = {}
  <2>1. Kept \subseteq Kept'
    BY <1>2, <1>4 DEF Kept
  <2>2. KeptInv'
    BY <1>1, <1>2, <1>4, <2>1, KeptGrows DEF SplitInv
  <2>. QED
    BY <1>3, <2>2 DEF SplitInv
<1>5. CASE todo' # {}
  <2>1. HasQuorum /\ todo' = nodes_to_isolate(config, Known, Active)
    BY <1>5 DEF DetectDecide
  <2>2. config.strategy = "MAJORITY" /\ todo' = Known \ Active
    BY <1>5, <2>1 DEF nodes_to_isolate
  <2>3. majority_quorum(Known, Active)
    BY <2>1, <2>2 DEF HasQuorum, calculate_quorum
  <2>4. Kept' = Active
    BY <1>2, <2>2 DEF Kept, Free, Active, Alive
  <2>5. KeptInv'
    BY <1>2, <2>2, <2>3, <2>4 DEF KeptInv
  <2>. QED
    BY <1>3, <2>5 DEF SplitInv
<1>. QED
  BY <1>4, <1>5

\* Isolating a node that the decision named takes nothing from the rest.
LEMMA SplitIsolate ==
  ASSUME SplitInv, NEW n \in todo, DetectIsolate(n)
  PROVE  SplitInv'
<1>1. /\ nodes' = IF n \in Known THEN [nodes EXCEPT ![n].isolated = TRUE] ELSE nodes
      /\ isolated_nodes' = isolated_nodes \cup ({n} \cap Known)
      /\ todo' = todo \ {n} /\ expelled' = expelled
  BY DEF DetectIsolate
<1>2. Known' = Known
  BY <1>1 DEF Known
<1>3. \A m \in Known \ {n} : nodes'[m] = nodes[m]
  BY <1>1 DEF Known
<1>4. n \in Known => nodes'[n] \in NodeStatus /\ nodes'[n].isolated
  <2>. SUFFICES ASSUME n \in Known
                PROVE  nodes'[n] \in NodeStatus /\ nodes'[n].isolated
    OBVIOUS
  <2>1. nodes'[n] = [nodes[n] EXCEPT !.isolated = TRUE]
    BY <1>1 DEF Known
  <2>. QED
    BY <2>1, StatusField DEF SplitInv, NodesOK
<1>5. NodesOK'
  BY <1>2, <1>3, <1>4 DEF SplitInv, NodesOK, NodeStatus
<1>6. IsolationIsReported'
  BY <1>1, <1>2, <1>3, <1>4 DEF SplitInv, IsolationIsReported
<1>7. Kept \subseteq Kept'
  BY <1>1, <1>2, <1>3 DEF Kept, Free
<1>8. KeptInv'
  BY <1>1, <1>2, <1>7, KeptGrows DEF SplitInv
<1>. QED
  BY <1>5, <1>6, <1>8 DEF SplitInv

LEMMA SplitStep == SplitInv /\ [Next]_vars => SplitInv'
<1>. SUFFICES ASSUME SplitInv, [Next]_vars PROVE SplitInv'
  OBVIOUS
<1>1. CASE \/ \E c \in Configs : Start(c) \/ UpdateConfig(c)
           \/ Stop \/ JoinDetection \/ JoinRecovery \/ ForceMergePartitions
           \/ Recovery
  BY <1>1, SplitLife
<1>2. ASSUME NEW n \in Node, Calls(n) PROVE SplitInv'
  BY <1>2, SplitAdd, SplitExpel, SplitCall DEF Calls
<1>3. CASE Detection
  BY <1>3, SplitMark, SplitLife, SplitDecide, SplitIsolate DEF Detection
<1>4. CASE UNCHANGED vars
  BY <1>4, SplitFrame DEF vars
<1>. QED
  BY <1>1, <1>2, <1>3, <1>4 DEF Next

LEMMA SplitInvariant == Spec => []SplitInv
BY SplitInit, SplitStep, PTL DEF Spec

\* is_node_isolated agrees with what the quorum counts with, for any cluster.
THEOREM IsolationReported == Spec => []IsolationIsReported
<1>1. SplitInv => IsolationIsReported
  BY DEF SplitInv
<1>. QED
  BY <1>1, SplitInvariant, PTL

\* The detector never isolates so many that the rest is no majority, for any
\* cluster and however the nodes change between decision and isolation.
THEOREM MajorityKept == Spec => []DetectorKeepsMajority
<1>1. SplitInv => DetectorKeepsMajority
  <2>. SUFFICES ASSUME SplitInv, ~ expelled, Known # {}
                PROVE  majority_quorum(Known, Free)
    BY DEF DetectorKeepsMajority, Free
  <2>1. majority_quorum(Known, Kept)
    BY DEF SplitInv, KeptInv
  <2>2. IsFiniteSet(Known) /\ Kept \in SUBSET Free /\ Free \in SUBSET Known
    BY NodeAssumption, FS_Subset DEF SplitInv, NodesOK, Kept, Free
  <2>. QED
    BY <2>1, <2>2, MajorityGrows
<1>. QED
  BY <1>1, SplitInvariant, PTL

-----------------------------------------------------------------------------
\* What TypeOK says besides NodesOK.
ControlOK ==
  /\ config \in Configs /\ calls \in 0..MaxCalls
  /\ expelled \in BOOLEAN /\ is_running \in BOOLEAN /\ stop_threads \in BOOLEAN
  /\ detected_partitions \in {"none", "unresolved", "resolved"}
  /\ status \in {"HEALTHY", "CONFIRMED", "RECOVERING"}
  /\ stopper \in {"out", "join_detection", "join_recovery"}
  /\ detection \in {"none", "check", "decide", "isolate", "done"}
  /\ recovery \in {"none", "check", "begin", "update", "end", "done"}

\* A node that counts as alive has not missed all its heartbeats, though the
\* detection thread counts them and heartbeats reset them without a lock.
AliveOK == \A n \in Known : nodes[n].alive => nodes[n].missed < MaxMissed

TypeInv == SplitInv /\ ControlOK /\ AliveOK /\ todo \subseteq Node

LEMMA BooleansStep ==
  ASSUME ControlOK, Next
  PROVE  expelled' \in BOOLEAN /\ is_running' \in BOOLEAN /\ stop_threads' \in BOOLEAN
<1>1. expelled \in BOOLEAN /\ is_running \in BOOLEAN /\ stop_threads \in BOOLEAN
  BY DEF ControlOK
<1>2. CASE \/ \E c \in Configs : Start(c) \/ UpdateConfig(c)
           \/ Stop \/ JoinDetection \/ JoinRecovery \/ ForceMergePartitions
  BY <1>1, <1>2, Zenon
  DEF Start, UpdateConfig, Stop, JoinDetection, JoinRecovery, ForceMergePartitions,
      memberVars, lifeVars
<1>3. ASSUME NEW n \in Node, Calls(n)
      PROVE  expelled' \in BOOLEAN /\ is_running' \in BOOLEAN /\ stop_threads' \in BOOLEAN
  BY <1>1, <1>3, Zenon
  DEF Calls, AddNode, RemoveNode, IsolateNode, RestoreNode, UpdateNodeStatus,
      ProcessHeartbeat, TimePasses, Members, lifeVars
<1>4. CASE Detection \/ Recovery
  BY <1>1, <1>4, Zenon
  DEF Detection, DetectMark, DetectEnd, DetectDecide, DetectIsolate, Recovery,
      RecoveryCheck, RecoveryBegin, RecoveryUpdate, RecoveryEnd, memberVars, lifeVars
<1> QED
  BY <1>2, <1>3, <1>4 DEF Next

LEMMA ControlStep ==
  ASSUME ControlOK, Next
  PROVE  ControlOK'
<1>1. expelled' \in BOOLEAN /\ is_running' \in BOOLEAN /\ stop_threads' \in BOOLEAN
  BY BooleansStep
<1>2. Call => calls' \in 0..MaxCalls
  BY MaxCallsAssumption DEF Call, ControlOK
<1>3. CASE \/ \E c \in Configs : Start(c) \/ UpdateConfig(c)
           \/ Stop \/ JoinDetection \/ JoinRecovery \/ ForceMergePartitions
  BY <1>1, <1>2, <1>3
  DEF ControlOK, Start, UpdateConfig, Stop, JoinDetection, JoinRecovery,
      ForceMergePartitions, callVars, partitionVars, threadVars, lifeVars
<1>4. ASSUME NEW n \in Node, Calls(n)
      PROVE  ControlOK'
  <2>1. calls' \in 0..MaxCalls
    BY <1>2, <1>4
    DEF ControlOK, Calls, AddNode, RemoveNode, IsolateNode, RestoreNode, UpdateNodeStatus,
        ProcessHeartbeat, TimePasses, callVars
  <2>2. UNCHANGED <<config, detected_partitions, status, stopper, detection, recovery>>
    BY <1>4
    DEF Calls, AddNode, RemoveNode, IsolateNode, RestoreNode, UpdateNodeStatus,
        ProcessHeartbeat, TimePasses, Members, callVars, partitionVars, threadVars, lifeVars
  <2> QED
    BY <1>1, <2>1, <2>2 DEF ControlOK
<1>5. CASE Detection
  <2>1. ASSUME NEW raced, NEW lost, DetectMark(raced, lost) PROVE ControlOK'
    <3>1. /\ detection' = "decide"
          /\ UNCHANGED <<recovery, config, calls, detected_partitions, status, stopper>>
      BY <2>1 DEF DetectMark, callVars, partitionVars, lifeVars
    <3> QED
      BY <1>1, <3>1 DEF ControlOK
  <2>2. CASE DetectEnd
    BY <1>1, <2>2 DEF ControlOK, DetectEnd, callVars, partitionVars, lifeVars
  <2>3. CASE DetectDecide
    <3>1. /\ detection' \in {"check", "isolate"} /\ status' \in {"CONFIRMED", status}
          /\ detected_partitions' \in {"unresolved", detected_partitions}
          /\ UNCHANGED <<recovery, config, calls, stopper>>
      BY <2>3 DEF DetectDecide, callVars, lifeVars
    <3> QED
      BY <1>1, <3>1 DEF ControlOK
  <2>4. ASSUME NEW n, DetectIsolate(n) PROVE ControlOK'
    BY <1>1, <2>4 DEF ControlOK, DetectIsolate, callVars, partitionVars, lifeVars
  <2> QED
    BY <1>5, <2>1, <2>2, <2>3, <2>4 DEF Detection
<1>6. CASE Recovery
  BY <1>1, <1>6
  DEF ControlOK, Recovery, RecoveryCheck, RecoveryBegin, RecoveryUpdate, RecoveryEnd,
      callVars, partitionVars, lifeVars
<1> QED
  BY <1>3, <1>4, <1>5, <1>6 DEF Next

\* Whatever a step does to a node, it does not leave it alive with all its
\* heartbeats missed.
LEMMA AliveCalls ==
  ASSUME NodesOK, AliveOK, NEW n \in Node, Calls(n)
  PROVE  AliveOK'
<1>1. CASE AddNode(n)
  BY <1>1 DEF AddNode, Members, AliveOK, Known, NewNode
<1>2. CASE RemoveNode(n)
  BY <1>2 DEF RemoveNode, Members, AliveOK, Known
<1>3. ASSUME n \in Known, DOMAIN nodes' = Known,
             \A m \in Known \ {n} : nodes'[m] = nodes[m],
             nodes'[n].alive => nodes'[n].missed < MaxMissed
      PROVE  AliveOK'
  BY <1>3 DEF AliveOK, Known
<1>4. ASSUME NEW b \in BOOLEAN, n \in Known, nodes' = [nodes EXCEPT ![n].isolated = b]
      PROVE  AliveOK'
  <2>1. nodes[n] \in NodeStatus /\ (nodes[n].alive => nodes[n].missed < MaxMissed)
    BY <1>4 DEF NodesOK, AliveOK
  <2>2. nodes'[n].alive = nodes[n].alive /\ nodes'[n].missed = nodes[n].missed
    BY <1>4, <2>1 DEF Known, NodeStatus
  <2> QED
    BY <1>3, <1>4, <2>1, <2>2 DEF Known
<1>5. CASE IsolateNode(n)
  BY <1>4, <1>5 DEF IsolateNode, Members
<1>6. CASE RestoreNode(n)
  BY <1>4, <1>6 DEF RestoreNode, Members
<1>7. ASSUME NEW alive \in BOOLEAN, UpdateNodeStatus(n, alive) PROVE AliveOK'
  <2>1. n \in Known /\ nodes[n] \in NodeStatus
    BY <1>7 DEF NodesOK, UpdateNodeStatus
  <2>2. nodes' = [nodes EXCEPT ![n].alive = alive, ![n].missed = IF alive THEN 0 ELSE @]
    BY <1>7 DEF UpdateNodeStatus, Members
  <2>3. nodes'[n].alive = alive /\ (alive => nodes'[n].missed = 0)
    BY <2>1, <2>2 DEF Known, NodeStatus
  <2> QED
    BY <1>3, <2>1, <2>2, <2>3, MaxMissedAssumption DEF Known
<1>8. ASSUME NEW a \in Age, ProcessHeartbeat(n, a) PROVE AliveOK'
  <2>1. n \in Known /\ nodes[n] \in NodeStatus
    BY <1>8 DEF NodesOK, ProcessHeartbeat
  <2>2. nodes' = [nodes EXCEPT ![n].age = a, ![n].alive = TRUE, ![n].missed = 0]
    BY <1>8 DEF ProcessHeartbeat, Members
  <2>3. nodes'[n].missed = 0
    BY <2>1, <2>2 DEF Known, NodeStatus
  <2> QED
    BY <1>3, <2>1, <2>2, <2>3, MaxMissedAssumption DEF Known
<1>9. CASE TimePasses(n)
  <2>1. n \in Known /\ nodes[n] \in NodeStatus
        /\ (nodes[n].alive => nodes[n].missed < MaxMissed)
    BY <1>9 DEF NodesOK, AliveOK, TimePasses
  <2>2. PICK a \in Age : nodes' = [nodes EXCEPT ![n].age = a]
    BY <1>9 DEF TimePasses
  <2>3. nodes'[n].alive = nodes[n].alive /\ nodes'[n].missed = nodes[n].missed
    BY <2>1, <2>2 DEF Known, NodeStatus
  <2> QED
    BY <1>3, <2>1, <2>2, <2>3 DEF Known
<1> QED
  BY <1>1, <1>2, <1>5, <1>6, <1>7, <1>8, <1>9 DEF Calls

LEMMA AliveMark ==
  ASSUME NodesOK, AliveOK, NEW raced, NEW lost, DetectMark(raced, lost)
  PROVE  AliveOK'
<1>1. DOMAIN nodes' = Known
  BY DEF DetectMark
<1>2. Known' = Known
  BY <1>1 DEF Known
<1>3. ASSUME NEW n \in Known
      PROVE  nodes'[n].alive => nodes'[n].missed < MaxMissed
  <2> DEFINE read(m) == IF m \in raced \ lost THEN 0 ELSE nodes[m].missed
             count(m) == IF read(m) < MaxMissed THEN read(m) + 1 ELSE read(m)
  <2>1. nodes[n] \in NodeStatus /\ (nodes[n].alive => nodes[n].missed < MaxMissed)
    BY DEF NodesOK, AliveOK
  <2>2. CASE n \in Overdue
    <3>1. nodes'[n] = [nodes[n] EXCEPT
                         !.missed = count(n),
                         !.alive = (@ \/ n \in raced) /\ count(n) < MaxMissed,
                         !.age = IF n \in raced THEN 0 ELSE @]
      BY <2>2 DEF DetectMark
    <3> HIDE DEF count
    <3>2. /\ nodes'[n].missed = count(n)
          /\ nodes'[n].alive = ((nodes[n].alive \/ n \in raced) /\ count(n) < MaxMissed)
      BY <2>1, <3>1 DEF NodeStatus
    <3> QED
      BY <3>2
  <2>3. CASE n \notin Overdue
    <3>1. nodes'[n] = nodes[n]
      BY <2>3 DEF DetectMark
    <3> QED
      BY <2>1, <3>1
  <2> QED
    BY <2>2, <2>3
<1> QED
  BY <1>2, <1>3 DEF AliveOK

LEMMA AliveIsolate ==
  ASSUME NodesOK, AliveOK, NEW n \in todo, DetectIsolate(n)
  PROVE  AliveOK'
<1>1. CASE n \notin Known
  BY <1>1 DEF DetectIsolate, AliveOK, Known
<1>2. CASE n \in Known
  <2>1. nodes[n] \in NodeStatus /\ nodes' = [nodes EXCEPT ![n].isolated = TRUE]
    BY <1>2 DEF DetectIsolate, NodesOK
  <2>2. DOMAIN nodes' = Known /\ \A m \in Known \ {n} : nodes'[m] = nodes[m]
    BY <2>1 DEF Known
  <2>3. nodes'[n].alive = nodes[n].alive /\ nodes'[n].missed = nodes[n].missed
    BY <1>2, <2>1 DEF Known, NodeStatus
  <2>4. Known' = Known
    BY <2>2 DEF Known
  <2> QED
    BY <2>2, <2>3, <2>4 DEF AliveOK
<1> QED
  BY <1>1, <1>2

LEMMA TypeStep == TypeInv /\ [Next]_vars => TypeInv'
<1> SUFFICES ASSUME TypeInv, [Next]_vars PROVE TypeInv'
  OBVIOUS
<1>1. SplitInv' /\ NodesOK /\ ControlOK /\ AliveOK /\ todo \subseteq Node
  BY SplitStep DEF TypeInv, SplitInv
<1>2. CASE UNCHANGED vars
  BY <1>1, <1>2 DEF vars, TypeInv, ControlOK, AliveOK, Known
<1>3. CASE Next
  <2>1. ControlOK'
    BY <1>1, <1>3, ControlStep
  <2>2. todo' \subseteq Node
    <3>1. CASE DetectDecide
      BY <1>1, <3>1 DEF DetectDecide, nodes_to_isolate, NodesOK
    <3>2. CASE ~ DetectDecide
      BY <1>1, <1>3, <3>2
      DEF Next, Start, UpdateConfig, Stop, JoinDetection, JoinRecovery,
          ForceMergePartitions, Calls, AddNode, RemoveNode, IsolateNode, RestoreNode,
          UpdateNodeStatus, ProcessHeartbeat, TimePasses, Members, Detection, DetectMark,
          DetectEnd, DetectIsolate, Recovery, RecoveryCheck, RecoveryBegin,
          RecoveryUpdate, RecoveryEnd, threadVars
    <3> QED
      BY <3>1, <3>2
  <2>3. AliveOK'
    <3>1. ASSUME UNCHANGED nodes PROVE AliveOK'
      BY <1>1, <3>1 DEF AliveOK, Known
    <3>2. CASE \/ \E c \in Configs : Start(c) \/ UpdateConfig(c)
               \/ Stop \/ JoinDetection \/ JoinRecovery \/ ForceMergePartitions
               \/ DetectEnd \/ DetectDecide \/ Recovery
      BY <3>1, <3>2
      DEF Start, UpdateConfig, Stop, JoinDetection, JoinRecovery, ForceMergePartitions,
          DetectEnd, DetectDecide, Recovery, RecoveryCheck, RecoveryBegin, RecoveryUpdate,
          RecoveryEnd, memberVars
    <3>3. CASE \E n \in Node : Calls(n)
      BY <1>1, <3>3, AliveCalls
    <3>4. CASE \E raced \in SUBSET Overdue : \E lost \in SUBSET raced : DetectMark(raced, lost)
      BY <1>1, <3>4, AliveMark
    <3>5. CASE \E n \in todo : DetectIsolate(n)
      BY <1>1, <3>5, AliveIsolate
    <3> QED
      BY <1>3, <3>2, <3>3, <3>4, <3>5 DEF Next, Detection
  <2> QED
    BY <1>1, <2>1, <2>2, <2>3 DEF TypeInv
<1> QED
  BY <1>2, <1>3

LEMMA TypeInit == Init => TypeInv
<1> SUFFICES ASSUME Init PROVE TypeInv
  OBVIOUS
<1>1. SplitInv /\ Known = {}
  BY SplitInit DEF Init, Known
<1>2. expelled \in BOOLEAN /\ is_running \in BOOLEAN /\ stop_threads \in BOOLEAN
  BY Zenon DEF Init
<1>3. ControlOK
  BY <1>2, ConfigsAssumption, MaxCallsAssumption DEF Init, ControlOK
<1> QED
  BY <1>1, <1>3 DEF Init, TypeInv, AliveOK

\* The variables keep their types, and a node marked alive is below the limit of
\* missed heartbeats, although the detection thread counts without the mutex.
THEOREM DetectorTypeCorrect == Spec => []TypeOK
<1>1. TypeInv => TypeOK
  BY DEF TypeInv, SplitInv, NodesOK, IsolationIsReported, ControlOK, AliveOK, TypeOK
<1> QED
  BY <1>1, TypeInit, TypeStep, PTL DEF Spec

\* In a divided cluster at most one side has a quorum.
THEOREM NoTwoQuorumsEver == Spec => []NoTwoQuorums
<1>1. NoTwoQuorums
  BY NodeAssumption, QuorumExclusive DEF NoTwoQuorums
<1> QED
  BY <1>1, PTL
=============================================================================
