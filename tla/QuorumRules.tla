---------------------------- MODULE QuorumRules ----------------------------
(***************************************************************************)
(* The quorum strategies of the split-brain detector                       *)
(* (src/src/cluster/split_brain_detector.cpp), as questions about its      *)
(* configuration c, the set of all nodes it knows and the subset that is   *)
(* active (alive and not isolated).                                        *)
(***************************************************************************)
EXTENDS Integers, FiniteSets

CONSTANT Node

QuorumStrategy == {"MAJORITY", "STATIC_QUORUM", "DYNAMIC_QUORUM", "WITNESS_BASED"}

\* quorum_strategy, min_quorum_size and witness_nodes of SplitBrainConfig.
QuorumConfig == [strategy : QuorumStrategy, min : Nat, witness : SUBSET Node]

\* Exactly half of the nodes is taken for a majority.
majority_quorum_HalfBug(all, active) ==
  Cardinality(active) >= (Cardinality(all) + 1) \div 2

majority_quorum(all, active) ==
  Cardinality(active) >= Cardinality(all) \div 2 + 1

static_quorum(c, active) == Cardinality(active) >= c.min

\* Half of the active nodes are always there, so only the minimum counts.
dynamic_quorum(c, active) ==
  LET half == (Cardinality(active) + 1) \div 2
  IN  Cardinality(active) >= IF c.min > half THEN c.min ELSE half

witness_based_quorum(c, active) ==
  active \cap c.witness # {} /\ Cardinality(active) >= c.min

\* has_quorum of calculate_quorum's decision.
calculate_quorum(c, all, active) ==
  CASE c.strategy = "MAJORITY" -> majority_quorum(all, active)
    [] c.strategy = "STATIC_QUORUM" -> static_quorum(c, active)
    [] c.strategy = "DYNAMIC_QUORUM" -> dynamic_quorum(c, active)
    [] c.strategy = "WITNESS_BASED" -> witness_based_quorum(c, active)

\* The lists of alive and of dead nodes are swapped.
nodes_to_isolate_ActiveBug(c, all, active) ==
  IF c.strategy = "MAJORITY" THEN active ELSE {}

\* Its isolated_nodes: only majority_quorum fills them in.
nodes_to_isolate(c, all, active) ==
  IF c.strategy = "MAJORITY" THEN all \ active ELSE {}

\* The configurations for which at most one part of a divided cluster of these
\* nodes has a quorum: the majority, a minimum that is one, or a single
\* witness.  The other strategies do not compare with the number of nodes.
OneQuorumOnly(c, all) ==
  \/ c.strategy = "MAJORITY"
  \/ 2 * c.min > Cardinality(all)
  \/ c.strategy = "WITNESS_BASED" /\ \A v, w \in c.witness \cap all : v = w

\* Two disjoint parts of a cluster never both have a quorum, under the
\* configurations above and for any membership: the majority in particular
\* needs more than half of an even number of nodes.
QuorumIsExclusive ==
  \A c \in [strategy : QuorumStrategy, min : 0..Cardinality(Node) + 1, witness : SUBSET Node],
     all \in SUBSET Node :
    OneQuorumOnly(c, all) =>
      \A A, B \in SUBSET all :
        A \cap B = {} =>
          ~ (calculate_quorum(c, all, A) /\ calculate_quorum(c, all, B))
=============================================================================
