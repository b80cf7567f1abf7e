------------------------- MODULE SplitBrainDetector -------------------------
(***************************************************************************)
(* DefaultSplitBrainDetector (src/src/cluster/split_brain_detector.cpp):   *)
(* heartbeats and membership calls, the detection thread, the recovery     *)
(* thread, start and stop.                                                 *)
(*                                                                         *)
(* Public calls hold mutex_ and are one step.  The detection and recovery  *)
(* threads read and write the same data without it, except in isolate_node *)
(* which takes it: their loops are split where another thread's step can   *)
(* change the outcome.  stop() joins both threads with mutex_ held.        *)
(*                                                                         *)
(* The age of a node's last heartbeat: 0 is within heartbeat_timeout, 1 is *)
(* beyond it but within twice as much (still connected), 2 is older.       *)
(* process_heartbeat stores the sender's timestamp, so a late or reordered *)
(* heartbeat brings its own age.                                           *)
(***************************************************************************)
EXTENDS QuorumRules

CONSTANTS Configs,     \* the configurations that start and update_config set
          MaxMissed,   \* config_.max_missed_heartbeats
          Age,         \* the ages that occur: 0, 2 and perhaps 1
          MaxCalls     \* bound: calls other than start, first add and heartbeat

\* The default of SplitBrainConfig; auto_recovery_enabled is always on.
DefaultConfig == [strategy |-> "MAJORITY", min |-> 2, witness |-> {}]

ASSUME ConfigsAssumption == Configs \subseteq QuorumConfig /\ DefaultConfig \in Configs
ASSUME NodeAssumption == IsFiniteSet(Node)
ASSUME MaxMissedAssumption == MaxMissed \in Nat \ {0}
ASSUME AgeAssumption == {0, 2} \subseteq Age /\ Age \subseteq 0..2
ASSUME MaxCallsAssumption == MaxCalls \in Nat

VARIABLES
  config,          \* config_
  nodes,           \* nodes_: [alive, missed, age, isolated], partial
  isolated_nodes,  \* isolated_nodes_
  detected_partitions, \* "none" of them, some "unresolved" or all "resolved"
  status,          \* status_
  is_running, stop_threads,
  stopper,         \* where a call of stop() is: out of it, or at a join
  detection,       \* where detection_thread_ is
  todo,            \* nodes it is about to isolate
  recovery,        \* where recovery_thread_ is
  expelled,        \* history: a caller removed or isolated a node
  calls            \* number of calls made, bounded

lifeVars == <<is_running, stop_threads, stopper>>
threadVars == <<detection, todo, recovery>>
memberVars == <<nodes, isolated_nodes, expelled>>
callVars == <<config, calls>>
partitionVars == <<detected_partitions, status>>
vars == <<config, nodes, isolated_nodes, detected_partitions, status, is_running,
          stop_threads, stopper, detection, todo, recovery, expelled, calls>>

NodeStatus == [alive : BOOLEAN, missed : 0..MaxMissed, age : Age, isolated : BOOLEAN]

-----------------------------------------------------------------------------
Known == DOMAIN nodes
Alive == {n \in Known : nodes[n].alive}
Active == {n \in Alive : ~ nodes[n].isolated}
Overdue == {n \in Known : ~ nodes[n].isolated /\ nodes[n].age > 0}
HasQuorum == calculate_quorum(config, Known, Active)

\* A node just added: never heard of.
NewNode == [alive |-> FALSE, missed |-> 0, age |-> 2, isolated |-> FALSE]

are_nodes_connected(m, n) == /\ {m, n} \subseteq Known
                             /\ nodes[m].age < 2 /\ nodes[n].age < 2

\* Two nodes are connected if both have recent heartbeats; so what the
\* breadth-first search reaches from n is what n is connected to.
component(n) == {n} \cup {m \in Alive : are_nodes_connected(n, m)}

find_connected_components == {component(n) : n \in Alive}

Recent == {n \in Known : nodes[n].age < 2}

\* stop() holds mutex_ while it joins.
MutexHeld == stopper # "out"

-----------------------------------------------------------------------------
Init ==
  /\ config = DefaultConfig /\ calls = 0
  /\ nodes = [n \in {} |-> NewNode]
  /\ isolated_nodes = {} /\ expelled = FALSE
  /\ detected_partitions = "none" /\ status = "HEALTHY"
  /\ is_running = FALSE /\ stop_threads = FALSE /\ stopper = "out"
  /\ detection = "none" /\ todo = {}
  /\ recovery = "none"

Start(c) ==
  /\ ~ MutexHeld /\ ~ is_running
  /\ config' = c
  /\ is_running' = TRUE
  /\ stop_threads' = FALSE
  /\ status' = "HEALTHY"
  /\ detection' = "check" /\ recovery' = "check"
  /\ UNCHANGED <<stopper, detected_partitions, todo, calls>>
  /\ UNCHANGED memberVars

\* Callers make a bounded number of these calls.
Call == ~ MutexHeld /\ calls < MaxCalls /\ calls' = calls + 1

UpdateConfig(c) ==
  /\ Call
  /\ config' = c
  /\ UNCHANGED <<memberVars, partitionVars, lifeVars, threadVars>>

\* The flag is raised only after the joins.
Stop_FlagLateBug ==
  /\ Call /\ is_running
  /\ stopper' = "join_detection"
  /\ UNCHANGED <<config, is_running, stop_threads>>
  /\ UNCHANGED <<memberVars, partitionVars, threadVars>>

Stop ==
  /\ Call /\ is_running
  /\ stop_threads' = TRUE
  /\ stopper' = "join_detection"
  /\ UNCHANGED <<config, is_running>>
  /\ UNCHANGED <<memberVars, partitionVars, threadVars>>

JoinDetection ==
  /\ stopper = "join_detection" /\ detection = "done"
  /\ stopper' = "join_recovery"
  /\ UNCHANGED <<is_running, stop_threads>>
  /\ UNCHANGED <<callVars, memberVars, partitionVars, threadVars>>

JoinRecovery ==
  /\ stopper = "join_recovery" /\ recovery = "done"
  /\ stopper' = "out"
  /\ is_running' = FALSE
  /\ UNCHANGED stop_threads
  /\ UNCHANGED <<callVars, memberVars, partitionVars, threadVars>>

-----------------------------------------------------------------------------
Members(f) ==
  /\ nodes' = f
  /\ UNCHANGED <<config, partitionVars, lifeVars, threadVars>>

\* A known node starts over, but stays in isolated_nodes_.
AddNode(n) ==
  /\ IF n \in Known THEN Call ELSE ~ MutexHeld /\ UNCHANGED calls
  /\ Members([m \in Known \cup {n} |-> IF m = n THEN NewNode ELSE nodes[m]])
  /\ UNCHANGED <<isolated_nodes, expelled>>

\* The node stays in isolated_nodes_.
RemoveNode_KeepsMarkBug(n) ==
  /\ Call /\ n \in Known
  /\ Members([m \in Known \ {n} |-> nodes[m]])
  /\ expelled' = TRUE
  /\ UNCHANGED isolated_nodes

RemoveNode(n) ==
  /\ Call /\ n \in Known
  /\ Members([m \in Known \ {n} |-> nodes[m]])
  /\ isolated_nodes' = isolated_nodes \ {n}
  /\ expelled' = TRUE

\* The count of missed heartbeats stays.
UpdateNodeStatus_NoResetBug(n, alive) ==
  /\ Call /\ n \in Known
  /\ Members([nodes EXCEPT ![n].alive = alive])
  /\ UNCHANGED <<isolated_nodes, expelled>>

UpdateNodeStatus(n, alive) ==
  /\ Call /\ n \in Known
  /\ Members([nodes EXCEPT ![n].alive = alive,
                           ![n].missed = IF alive THEN 0 ELSE @])
  /\ UNCHANGED <<isolated_nodes, expelled>>

ProcessHeartbeat(n, a) ==
  /\ ~ MutexHeld /\ UNCHANGED calls
  /\ n \in Known
  /\ Members([nodes EXCEPT ![n].age = a, ![n].alive = TRUE, ![n].missed = 0])
  /\ UNCHANGED <<isolated_nodes, expelled>>

IsolateNode(n) ==
  /\ Call /\ n \in Known
  /\ Members([nodes EXCEPT ![n].isolated = TRUE])
  /\ isolated_nodes' = isolated_nodes \cup {n}
  /\ expelled' = TRUE

RestoreNode(n) ==
  /\ Call /\ n \in Known
  /\ Members([nodes EXCEPT ![n].isolated = FALSE])
  /\ isolated_nodes' = isolated_nodes \ {n}
  /\ UNCHANGED expelled

ForceMergePartitions ==
  /\ Call
  /\ detected_partitions' = "none" /\ status' = "HEALTHY"
  /\ UNCHANGED <<config, memberVars, lifeVars, threadVars>>

\* Time passes: the last heartbeat of n grows old.
TimePasses(n) ==
  /\ n \in Known
  /\ \E a \in Age : a > nodes[n].age /\ nodes' = [nodes EXCEPT ![n].age = a]
  /\ UNCHANGED <<isolated_nodes, expelled>>
  /\ UNCHANGED <<callVars, partitionVars, lifeVars, threadVars>>

-----------------------------------------------------------------------------
\* detection_loop looks at stop_threads_; detect_network_partitions then counts
\* another missed heartbeat for the nodes that are overdue.  It reads and
\* writes them without mutex_, so the heartbeat of a node in raced may arrive
\* between the test and the increment, and for one in lost the increment, which
\* is not atomic, overwrites the reset.
DetectMark(raced, lost) ==
  /\ detection = "check" /\ ~ stop_threads
  /\ detection' = "decide"
  /\ raced # {} => ~ MutexHeld
  /\ LET read(n) == IF n \in raced \ lost THEN 0 ELSE nodes[n].missed
         count(n) == IF read(n) < MaxMissed THEN read(n) + 1 ELSE read(n)
     IN  nodes' = [n \in Known |->
           IF n \notin Overdue THEN nodes[n]
           ELSE [nodes[n] EXCEPT
                   !.missed = count(n),
                   !.alive = (@ \/ n \in raced) /\ count(n) < MaxMissed,
                   !.age = IF n \in raced THEN 0 ELSE @]]
  /\ UNCHANGED <<isolated_nodes, expelled, todo, recovery>>
  /\ UNCHANGED <<callVars, partitionVars, lifeVars>>

DetectEnd ==
  /\ detection = "check" /\ stop_threads
  /\ detection' = "done"
  /\ UNCHANGED <<todo, recovery>>
  /\ UNCHANGED <<callVars, memberVars, partitionVars, lifeVars>>

\* Only partitions that are not resolved count.
detect_split_brain_UnresolvedOnlyBug == detected_partitions' = "unresolved"

detect_split_brain == detected_partitions' # "none"

\* The components are found and the quorum is decided on what the nodes look
\* like now, after the marking.  The two are one step: a partition stays
\* recorded, so a call between them acts like one before the next round.
DetectDecide ==
  /\ detection = "decide"
  /\ UNCHANGED <<recovery, callVars, memberVars, lifeVars>>
  /\ detected_partitions' = IF Cardinality(find_connected_components) > 1
                              THEN "unresolved" ELSE detected_partitions
  /\ status' = IF detect_split_brain /\ ~ HasQuorum THEN "CONFIRMED" ELSE status
  /\ todo' = IF detect_split_brain /\ HasQuorum
               THEN nodes_to_isolate(config, Known, Active) ELSE {}
  /\ detection' = IF todo' = {} THEN "check" ELSE "isolate"

\* isolate_node for the next of them, under mutex_.
DetectIsolate(n) ==
  /\ detection = "isolate" /\ ~ MutexHeld
  /\ nodes' = IF n \in Known THEN [nodes EXCEPT ![n].isolated = TRUE] ELSE nodes
  /\ isolated_nodes' = isolated_nodes \cup ({n} \cap Known)
  /\ todo' = todo \ {n}
  /\ detection' = IF todo' = {} THEN "check" ELSE "isolate"
  /\ UNCHANGED <<expelled, recovery>>
  /\ UNCHANGED <<callVars, partitionVars, lifeVars>>

\* recovery_loop looks at stop_threads_ and the status; it sleeps when there is
\* nothing to recover.
RecoveryCheck ==
  /\ recovery = "check"
  /\ stop_threads \/ status = "CONFIRMED"
  /\ recovery' = IF stop_threads THEN "done" ELSE "begin"
  /\ UNCHANGED <<detection, todo>>
  /\ UNCHANGED <<callVars, memberVars, partitionVars, lifeVars>>

RecoveryBegin ==
  /\ recovery = "begin"
  /\ status' = "RECOVERING"
  /\ recovery' = "update"
  /\ UNCHANGED <<detected_partitions, detection, todo>>
  /\ UNCHANGED <<callVars, memberVars, lifeVars>>

\* update_partition_status, and the test whether all are resolved: an entry is
\* resolved when a node of each of its sides is recent.  Which nodes are in the
\* entries is not kept: that takes two recent nodes, and happens when all are.
RecoveryUpdate(all_resolved) ==
  /\ recovery = "update"
  /\ detected_partitions = "unresolved" =>
       IF all_resolved THEN Cardinality(Recent) > 1 ELSE Recent # Node
  /\ detected_partitions # "unresolved" => all_resolved
  /\ detected_partitions' = IF detected_partitions = "unresolved" /\ all_resolved
                              THEN "resolved" ELSE detected_partitions
  /\ recovery' = IF all_resolved THEN "end" ELSE "check"
  /\ UNCHANGED <<status, detection, todo>>
  /\ UNCHANGED <<callVars, memberVars, lifeVars>>

\* The status is set whatever the detection thread has found meanwhile.
RecoveryEnd ==
  /\ recovery = "end"
  /\ status' = "HEALTHY"
  /\ recovery' = "check"
  /\ UNCHANGED <<detected_partitions, detection, todo>>
  /\ UNCHANGED <<callVars, memberVars, lifeVars>>

Calls(n) ==
  \/ AddNode(n) \/ RemoveNode(n) \/ IsolateNode(n) \/ RestoreNode(n)
  \/ \E alive \in BOOLEAN : UpdateNodeStatus(n, alive)
  \/ \E a \in Age : ProcessHeartbeat(n, a)
  \/ TimePasses(n)

Detection ==
  \/ \E raced \in SUBSET Overdue : \E lost \in SUBSET raced : DetectMark(raced, lost)
  \/ DetectEnd \/ DetectDecide
  \/ \E n \in todo : DetectIsolate(n)

Recovery == RecoveryCheck \/ RecoveryBegin \/ RecoveryEnd
            \/ \E all_resolved \in BOOLEAN : RecoveryUpdate(all_resolved)

Next ==
  \/ \E c \in Configs : Start(c) \/ UpdateConfig(c)
  \/ Stop \/ JoinDetection \/ JoinRecovery
  \/ \E n \in Node : Calls(n)
  \/ ForceMergePartitions
  \/ Detection
  \/ Recovery

Spec == Init /\ [][Next]_vars

\* Both threads run, their sleeps being bounded, and a join of a thread that
\* has ended returns.
Fairness == /\ WF_vars(Detection) /\ WF_vars(Recovery)
            /\ WF_vars(JoinDetection \/ JoinRecovery)

FairSpec == Spec /\ Fairness

-----------------------------------------------------------------------------
TypeOK ==
  /\ config \in Configs /\ calls \in 0..MaxCalls
  /\ Known \subseteq Node
  /\ \A n \in Known : nodes[n] \in NodeStatus
                       /\ (nodes[n].alive => nodes[n].missed < MaxMissed)
  /\ isolated_nodes \subseteq Node /\ expelled \in BOOLEAN
  /\ detected_partitions \in {"none", "unresolved", "resolved"}
  /\ status \in {"HEALTHY", "CONFIRMED", "RECOVERING"}
  /\ is_running \in BOOLEAN /\ stop_threads \in BOOLEAN
  /\ stopper \in {"out", "join_detection", "join_recovery"}
  /\ detection \in {"none", "check", "decide", "isolate", "done"}
  /\ todo \subseteq Node
  /\ recovery \in {"none", "check", "begin", "update", "end", "done"}

\* is_node_isolated never denies an isolation that the quorum counts with, and
\* names known nodes only, whatever callers and the detection thread do in
\* between.  (The converse fails: add_node of a known node clears its flag and
\* not its mark.)
IsolationIsReported ==
  {n \in Known : nodes[n].isolated} \subseteq isolated_nodes
  /\ isolated_nodes \subseteq Known

\* The detector never isolates itself out of a majority: as long as callers
\* remove and isolate nobody, a majority of the nodes is not isolated, although
\* the decision may be out of date when it is carried out one node at a time
\* and new nodes and heartbeats may arrive meanwhile.
DetectorKeepsMajority ==
  ~ expelled => majority_quorum(Known, {n \in Known : ~ nodes[n].isolated}) \/ Known = {}

\* A partition was recorded and the quorum is gone for good: the status does
\* not stay HEALTHY, even when the recovery thread, which tests and sets
\* without the mutex, overwrites the alarm.
LossIsReported ==
  <>[](is_running /\ ~ stop_threads /\ detected_partitions # "none" /\ ~ HasQuorum)
    => []<>(status # "HEALTHY")

\* stop() returns unless it took mutex_ while the detection thread had nodes to
\* isolate or was about to decide so: isolate_node then waits for mutex_, and
\* stop for the thread, for ever.
StopReturnsUnlessIsolating ==
  (stopper = "join_detection" /\ detection \in {"check", "done"}) ~> stopper = "out"
=============================================================================
