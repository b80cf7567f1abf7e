------------------------------ MODULE WaitFor ------------------------------
(***************************************************************************)
(* Wait-for graphs of DefaultLockManager (wait_graph_ of                   *)
(* transaction_manager.h): functions from a transaction to the set of      *)
(* transactions it waits for.  A transaction without an entry in the map   *)
(* and one with an empty entry are both mapped to {}: no search tells them *)
(* apart.                                                                  *)
(***************************************************************************)
CONSTANT Tx   \* transaction ids

Graph == [Tx -> SUBSET Tx]

\* Only a two-party cycle is recognised.
find_cycle_in_wait_graph_DirectOnlyBug(graph, start) ==
  \E h \in graph[start] : start \in graph[h]

\* The depth-first search of find_cycle_in_wait_graph succeeds exactly when a
\* walk from start can go on for ever: when start lies in a set of nodes each
\* of which has an edge into the set.  (Module WaitForSearch has the search
\* itself, and WaitForSearchProofs shows that the two agree.)
find_cycle_in_wait_graph(graph, start) ==
  \E S \in SUBSET Tx : /\ start \in S
                       /\ \A x \in S : graph[x] \cap S # {}

\* Every non-empty set of transactions has a member that waits for none of
\* them.
Acyclic(graph) ==
  \A S \in SUBSET Tx : S # {} => \E x \in S : graph[x] \cap S = {}

\* wait_graph_[t].insert(h) and wait_graph_[t].erase(h).
WithEdge(graph, t, h) == [graph EXCEPT ![t] = @ \cup {h}]
WithoutEdge(graph, t, h) == [graph EXCEPT ![t] = @ \ {h}]
=============================================================================
