--------------------------- MODULE WaitForSearch ---------------------------
(***************************************************************************)
(* The depth-first search of find_cycle_in_wait_graph, one step for each   *)
(* neighbour that a call of dfs looks at and one for its return.  The      *)
(* recursion is the path: a node of it is a call of dfs that waits for the *)
(* next one's.  The search runs with the manager's mutex_ held, so that    *)
(* the graph does not change; LockManager has it as one step, with the     *)
(* formula of WaitFor in place of its answer.                              *)
(***************************************************************************)
EXTENDS WaitFor, Integers, Sequences

VARIABLES
  graph,      \* wait_graph_
  start,      \* the argument
  visited,    \* visited
  rec_stack,  \* rec_stack
  path,       \* path, and the calls of dfs in progress
  left,       \* the neighbours that each call's loop has not looked at yet
  answer      \* whether the search goes on, and if not what it found

vars == <<graph, start, visited, rec_stack, path, left, answer>>

\* No transaction waits for itself: acquire_lock passes its own locks by.
Loopless == {g \in Graph : \A t \in Tx : t \notin g[t]}

\* The innermost call's node.
Top == path[Len(path)]

\* dfs(start) is called.  unordered_set iterates in any order, so a set is
\* left to look at.
Init ==
  /\ graph \in Loopless
  /\ start \in Tx
  /\ visited = {start}
  /\ rec_stack = {start}
  /\ path = <<start>>
  /\ left = [t \in Tx |-> IF t = start THEN graph[t] ELSE {}]
  /\ answer = "searching"

\* Any node met before is taken for one of the path.
FindCycle_VisitedBug(n) ==
  /\ answer = "searching"
  /\ n \in left[Top]
  /\ n \in visited
  /\ answer' = "cycle"
  /\ UNCHANGED <<graph, start, visited, rec_stack, path, left>>

\* The neighbour is on the path: every call in progress returns true.
FindCycle(n) ==
  /\ answer = "searching"
  /\ n \in left[Top]
  /\ n \in rec_stack
  /\ answer' = "cycle"
  /\ UNCHANGED <<graph, start, visited, rec_stack, path, left>>

\* The neighbour is new: dfs(n) is called.
Descend(n) ==
  /\ answer = "searching"
  /\ n \in left[Top]
  /\ n \notin rec_stack
  /\ n \notin visited
  /\ visited' = visited \cup {n}
  /\ rec_stack' = rec_stack \cup {n}
  /\ path' = Append(path, n)
  /\ left' = [left EXCEPT ![Top] = @ \ {n}, ![n] = graph[n]]
  /\ UNCHANGED <<graph, start, answer>>

\* The loop does not get past a neighbour that it has nothing to do with.
Skip_StuckBug(n) ==
  /\ answer = "searching"
  /\ n \in left[Top]
  /\ n \notin rec_stack
  /\ n \in visited
  /\ UNCHANGED vars

\* The neighbour was left by an earlier call.
Skip(n) ==
  /\ answer = "searching"
  /\ n \in left[Top]
  /\ n \notin rec_stack
  /\ n \in visited
  /\ left' = [left EXCEPT ![Top] = @ \ {n}]
  /\ UNCHANGED <<graph, start, visited, rec_stack, path, answer>>

\* A call returns false after its first neighbour.
Leave_FirstOnlyBug ==
  /\ answer = "searching"
  /\ left[Top] # graph[Top] \/ left[Top] = {}
  /\ rec_stack' = rec_stack \ {Top}
  /\ path' = SubSeq(path, 1, Len(path) - 1)
  /\ answer' = IF Len(path) = 1 THEN "none" ELSE answer
  /\ UNCHANGED <<graph, start, visited, left>>

\* No neighbour is left: the call returns false, the outermost to the caller.
Leave ==
  /\ answer = "searching"
  /\ left[Top] = {}
  /\ rec_stack' = rec_stack \ {Top}
  /\ path' = SubSeq(path, 1, Len(path) - 1)
  /\ answer' = IF Len(path) = 1 THEN "none" ELSE answer
  /\ UNCHANGED <<graph, start, visited, left>>

Next ==
  \/ \E n \in Tx : FindCycle(n) \/ Descend(n) \/ Skip(n)
  \/ Leave

Spec == Init /\ [][Next]_vars

\* The thread that searches runs; nothing makes it wait.
FairSpec == Spec /\ WF_vars(Next)

-----------------------------------------------------------------------------
(* Properties                                                              *)

\* Every variable has its type, and a search that goes on has a call of dfs in
\* progress.
TypeOK ==
  /\ graph \in Graph /\ start \in Tx
  /\ visited \in SUBSET Tx /\ rec_stack \in SUBSET Tx
  /\ path \in Seq(Tx) /\ (answer = "searching" => path # <<>>)
  /\ left \in Graph
  /\ answer \in {"searching", "cycle", "none"}

\* The search finds a cycle exactly when one can be reached from its start,
\* in whatever order it meets the neighbours and whatever it has visited and
\* left on the way: it answers what LockManager takes it to answer.
SearchIsExact ==
  answer # "searching" =>
    (answer = "cycle" <=> find_cycle_in_wait_graph(graph, start))

\* Every cycle of the graph passes through start: acquire_lock searches from a
\* transaction after adding an edge of it to a graph that had no cycle.
CyclesPassStart == Acyclic([graph EXCEPT ![start] = {}])

\* The path that acquire_lock gets is itself the cycle, from start to a node
\* that waits for start: no transaction of a mere lead-in to a cycle is on it
\* (resolve_deadlock would choose its victim among them).
PathIsTheCycle ==
  answer = "cycle" /\ CyclesPassStart =>
    /\ path[1] = start
    /\ \A i \in 1..(Len(path) - 1) : path[i + 1] \in graph[path[i]]
    /\ start \in graph[Top]

\* The search returns, on graphs with cycles too: mutex_ is not kept for ever.
SearchReturns == <>(answer # "searching")
=============================================================================
