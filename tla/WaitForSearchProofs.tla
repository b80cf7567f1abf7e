------------------------ MODULE WaitForSearchProofs ------------------------
(***************************************************************************)
(* Proofs about the search of WaitForSearch, for every set of transactions *)
(* and every graph of them.                                                *)
(***************************************************************************)
EXTENDS WaitForSearch, SequenceTheorems, TLAPS

-----------------------------------------------------------------------------
(* The invariant                                                           *)

\* The nodes whose call of dfs has returned false.
Finished == visited \ rec_stack

\* The path is a walk from start along edges, it meets no node twice, and
\* rec_stack has its nodes.
PathOK ==
  /\ rec_stack \subseteq visited
  /\ \A t \in Tx : t \in rec_stack <=> \E i \in 1..Len(path) : path[i] = t
  /\ \A i, j \in 1..Len(path) : path[i] = path[j] => i = j
  /\ \A i \in 1..(Len(path) - 1) : path[i + 1] \in graph[path[i]]
  /\ path # <<>> => path[1] = start

\* What the loop of a call has looked at is finished, or is the node of the
\* call in progress.
LookedAt ==
  \A i \in 1..Len(path) : \A n \in graph[path[i]] :
    \/ n \in left[path[i]]
    \/ n \in Finished
    \/ i < Len(path) /\ n = path[i + 1]

\* Nothing leads from a finished node to a cycle.
FinishedOK ==
  /\ \A x \in Finished : graph[x] \subseteq Finished
  /\ \A S \in SUBSET Finished : S # {} => \E x \in S : graph[x] \cap S = {}

\* What each answer rests on.
AnswerOK ==
  /\ start \in visited
  /\ \A x \in Tx : left[x] \subseteq graph[x]
  /\ answer = "cycle" => path # <<>> /\ \E n \in graph[Top] : n \in rec_stack
  /\ answer = "none" => path = <<>>

SearchInv == TypeOK /\ PathOK /\ LookedAt /\ FinishedOK /\ AnswerOK

-----------------------------------------------------------------------------
LEMMA SearchInit == Init => SearchInv
<1>. SUFFICES ASSUME Init PROVE SearchInv
  OBVIOUS
<1>1. /\ graph \in Graph /\ start \in Tx /\ path = <<start>> /\ Len(path) = 1
      /\ path[1] = start /\ visited = {start} /\ rec_stack = {start}
      /\ answer = "searching"
  BY DEF Init, Loopless
<1>2. left \in Graph /\ (\A x \in Tx : left[x] \subseteq graph[x]) /\ left[start] = graph[start]
  BY <1>1 DEF Init, Graph
<1>3. TypeOK
  BY <1>1, <1>2 DEF TypeOK
<1>4. PathOK
  BY <1>1 DEF PathOK
<1>5. LookedAt
  BY <1>1, <1>2 DEF LookedAt
<1>6. FinishedOK
  BY <1>1 DEF FinishedOK, Finished
<1>7. AnswerOK
  BY <1>1, <1>2 DEF AnswerOK
<1>. QED
  BY <1>3, <1>4, <1>5, <1>6, <1>7 DEF SearchInv

\* The innermost call.
LEMMA TopOfPath ==
  ASSUME SearchInv, answer = "searching"
  PROVE  /\ Len(path) \in Nat /\ Len(path) >= 1 /\ Len(path) \in 1..Len(path)
         /\ Top \in Tx /\ Top \in rec_stack /\ Top = path[Len(path)]
         /\ \A i \in 1..Len(path) : path[i] \in Tx
<1>1. path \in Seq(Tx) /\ path # <<>>
  BY DEF SearchInv, TypeOK
<1>2. Len(path) \in Nat /\ Len(path) >= 1 /\ \A i \in 1..Len(path) : path[i] \in Tx
  BY <1>1
<1>3. Len(path) \in 1..Len(path) /\ Top \in Tx
  BY <1>2 DEF Top
<1>. QED
  BY <1>2, <1>3 DEF SearchInv, PathOK, Top

LEMMA FindCycleInv ==
  ASSUME SearchInv, NEW n \in Tx, FindCycle(n)
  PROVE  SearchInv'
<1>1. n \in graph[Top] /\ n \in rec_stack /\ path # <<>>
  BY TopOfPath DEF FindCycle, SearchInv, AnswerOK, TypeOK
<1>2. /\ UNCHANGED <<graph, start, visited, rec_stack, path, left>>
      /\ answer' = "cycle"
  BY DEF FindCycle
<1>3. Top' = Top /\ Finished' = Finished
  BY <1>2 DEF Top, Finished
<1>. QED
  BY <1>1, <1>2, <1>3 DEF SearchInv, TypeOK, PathOK, LookedAt, FinishedOK, AnswerOK

LEMMA SkipInv ==
  ASSUME SearchInv, NEW n \in Tx, Skip(n)
  PROVE  SearchInv'
<1>1. /\ UNCHANGED <<graph, start, visited, rec_stack, path, answer>>
      /\ left' = [left EXCEPT ![Top] = @ \ {n}] /\ answer = "searching"
      /\ n \in Finished
  BY DEF Skip, Finished
<1>2. Top' = Top /\ Finished' = Finished /\ Top \in Tx /\ left \in Graph
  BY <1>1, TopOfPath DEF Top, Finished, SearchInv, TypeOK
<1>3. /\ left' \in Graph
      /\ \A x \in Tx : left'[x] \subseteq left[x] /\ left[x] \subseteq left'[x] \cup {n}
  BY <1>1, <1>2 DEF Graph
<1>4. LookedAt'
  BY <1>1, <1>2, <1>3, TopOfPath DEF SearchInv, LookedAt
<1>. QED
  BY <1>1, <1>2, <1>3, <1>4 DEF SearchInv, TypeOK, PathOK, FinishedOK, AnswerOK

LEMMA DescendInv ==
  ASSUME SearchInv, NEW n \in Tx, Descend(n)
  PROVE  SearchInv'
<1> DEFINE l == Len(path)
<1>0. /\ l \in Nat /\ l >= 1 /\ Top \in Tx /\ Top \in rec_stack /\ Top = path[l]
      /\ \A i \in 1..l : path[i] \in Tx
      /\ path \in Seq(Tx) /\ graph \in Graph /\ left \in Graph
  BY TopOfPath DEF SearchInv, TypeOK, Descend
<1>1. /\ UNCHANGED <<graph, start, answer>> /\ answer = "searching"
      /\ visited' = visited \cup {n} /\ rec_stack' = rec_stack \cup {n}
      /\ n \notin visited /\ n \in left[Top] /\ n \notin rec_stack
      /\ path' = Append(path, n)
      /\ left' = [left EXCEPT ![Top] = @ \ {n}, ![n] = graph[n]]
  BY DEF Descend
<1>2. /\ path' \in Seq(Tx) /\ Len(path') = l + 1 /\ path'[l + 1] = n
      /\ \A i \in 1..l : path'[i] = path[i] /\ path[i] # n
  <2>1. \A i \in 1..l : path[i] # n
    BY <1>0, <1>1 DEF SearchInv, PathOK
  <2>. QED
    BY <1>0, <1>1, <2>1
<1>. HIDE DEF l
<1>3. Finished' = Finished
  BY <1>1 DEF Finished
<1>4. /\ left' \in Graph /\ left'[n] = graph[n]
      /\ \A x \in Tx : x # n => left[x] \subseteq left'[x] \cup (IF x = Top THEN {n} ELSE {})
      /\ \A x \in Tx : left'[x] \subseteq graph[x]
  <2>1. Top # n /\ \A x \in Tx : left[x] \subseteq graph[x]
    BY <1>0, <1>1 DEF SearchInv, AnswerOK
  <2>. QED
    BY <1>0, <1>1, <2>1 DEF Graph
<1>5. TypeOK'
  BY <1>0, <1>1, <1>2, <1>4 DEF SearchInv, TypeOK
<1>6. PathOK'
  <2>0. PathOK /\ l = Len(path)
    BY DEF SearchInv, l
  <2>1. \A i \in 1..Len(path') : i \in 1..l \/ i = l + 1
    BY <1>0, <1>2
  <2>1a. 1..l \subseteq 1..Len(path') /\ l + 1 \in 1..Len(path')
    BY <1>0, <1>2
  <2>2. rec_stack' \subseteq visited'
    BY <1>1, <2>0 DEF PathOK
  <2>3. ASSUME NEW t \in Tx PROVE t \in rec_stack' <=> \E i \in 1..Len(path') : path'[i] = t
    <3>1. t \in rec_stack <=> \E i \in 1..l : path[i] = t
      BY <2>0 DEF PathOK
    <3>2. (\E i \in 1..Len(path') : path'[i] = t) <=> (t = n \/ \E i \in 1..l : path[i] = t)
      BY <1>2, <2>1, <2>1a
    <3>. QED
      BY <1>1, <3>1, <3>2
  <2>4. ASSUME NEW i \in 1..Len(path'), NEW j \in 1..Len(path'), path'[i] = path'[j]
        PROVE  i = j
    BY <1>2, <2>0, <2>1, <2>4 DEF PathOK
  <2>5. ASSUME NEW i \in 1..(Len(path') - 1) PROVE path'[i + 1] \in graph'[path'[i]]
    <3>1. CASE i = l
      <4>1. n \in graph[Top]
        BY <1>0, <1>1 DEF SearchInv, AnswerOK
      <4>. QED
        BY <1>0, <1>1, <1>2, <3>1, <4>1
    <3>2. CASE i # l
      <4>1. i \in 1..(l - 1) /\ i \in 1..l /\ i + 1 \in 1..l
        BY <1>0, <1>2, <3>2
      <4>. QED
        BY <1>1, <1>2, <2>0, <4>1 DEF PathOK
    <3>. QED
      BY <3>1, <3>2
  <2>6. path' # <<>> => path'[1] = start'
    BY <1>0, <1>1, <1>2, <2>0 DEF PathOK
  <2>. QED
    BY <2>2, <2>3, <2>4, <2>5, <2>6 DEF PathOK
<1>7. LookedAt'
  <2>. SUFFICES ASSUME NEW i \in 1..Len(path'), NEW m \in graph[path'[i]]
                PROVE  \/ m \in left'[path'[i]]
                       \/ m \in Finished
                       \/ i < Len(path') /\ m = path'[i + 1]
    BY <1>1, <1>3 DEF LookedAt
  <2>1. CASE i = l + 1
    BY <1>2, <1>4, <2>1
  <2>2. CASE i # l + 1
    <3>1. i \in 1..l /\ i \in Int
      BY <1>0, <1>2, <2>2
    <3>2. path'[i] = path[i] /\ path[i] # n /\ path[i] \in Tx
      BY <1>0, <1>2, <3>1
    <3>3. \/ m \in left[path[i]]
          \/ m \in Finished
          \/ i < l /\ m = path[i + 1]
      BY <3>1, <3>2 DEF SearchInv, LookedAt, l
    <3>4. CASE i < l /\ m = path[i + 1]
      <4>1. i + 1 \in 1..l /\ i < Len(path')
        BY <1>0, <1>2, <3>1, <3>4
      <4>. QED
        BY <1>2, <3>4, <4>1
    <3>5. CASE m \in left[path[i]]
      <4>1. CASE path[i] # Top
        BY <1>4, <3>2, <3>5, <4>1
      <4>2. CASE path[i] = Top
        <5>1. i = l
          <6>1. l \in 1..l
            BY <1>0
          <6>. QED
            BY <1>0, <3>1, <4>2, <6>1 DEF SearchInv, PathOK, l
        <5>2. m \in left'[path[i]] \/ m = n
          BY <1>4, <3>2, <3>5, <4>2
        <5>3. i < Len(path') /\ path'[i + 1] = n
          BY <1>0, <1>2, <5>1
        <5>. QED
          BY <3>2, <5>2, <5>3
      <4>. QED
        BY <4>1, <4>2
    <3>. QED
      BY <3>2, <3>3, <3>4, <3>5
  <2>. QED
    BY <2>1, <2>2
<1>8. FinishedOK'
  BY <1>1, <1>3 DEF SearchInv, FinishedOK
<1>9. AnswerOK'
  BY <1>1, <1>4 DEF SearchInv, AnswerOK
<1>. QED
  BY <1>5, <1>6, <1>7, <1>8, <1>9 DEF SearchInv

LEMMA LeaveInv ==
  ASSUME SearchInv, Leave
  PROVE  SearchInv'
<1> DEFINE l == Len(path)
<1>0. /\ l \in Nat /\ l >= 1 /\ l \in 1..l
      /\ Top \in Tx /\ Top \in rec_stack /\ Top = path[l]
      /\ \A i \in 1..l : path[i] \in Tx
      /\ path \in Seq(Tx) /\ graph \in Graph /\ left \in Graph
      /\ rec_stack \subseteq visited /\ visited \subseteq Tx
  BY TopOfPath DEF SearchInv, TypeOK, PathOK, Leave
<1>1. /\ UNCHANGED <<graph, start, visited, left>> /\ answer = "searching"
      /\ rec_stack' = rec_stack \ {Top}
      /\ path' = SubSeq(path, 1, l - 1)
      /\ left[Top] = {}
      /\ answer' = IF l = 1 THEN "none" ELSE answer
  BY DEF Leave
<1>2. /\ path' \in Seq(Tx) /\ Len(path') = l - 1
      /\ \A i \in 1..(l - 1) : path'[i] = path[i]
  <2>1. l - 1 \in 0..Len(path) /\ 1 \in 1..(Len(path) + 1)
    BY <1>0
  <2>2. /\ SubSeq(path, 1, l - 1) \in Seq(Tx)
        /\ Len(SubSeq(path, 1, l - 1)) = IF 1 <= l - 1 THEN l - 1 - 1 + 1 ELSE 0
        /\ \A i \in 1..(l - 1 - 1 + 1) : SubSeq(path, 1, l - 1)[i] = path[1 + i - 1]
    BY <1>0, <2>1, SubSeqProperties
  <2>3. l - 1 - 1 + 1 = l - 1 /\ \A i \in 1..(l - 1) : 1 + i - 1 = i
    BY <1>0
  <2>. QED
    BY <1>0, <1>1, <2>2, <2>3
<1>. HIDE DEF l
<1>3. l = Len(path) /\ PathOK /\ LookedAt /\ FinishedOK /\ AnswerOK
  BY DEF SearchInv, l
<1>4. Finished' = Finished \cup {Top} /\ Top \notin Finished /\ Finished \subseteq Tx
  BY <1>0, <1>1 DEF Finished
<1>5. graph[Top] \subseteq Finished
  BY <1>0, <1>1, <1>3 DEF LookedAt
<1>6. (path' = <<>> <=> l = 1) /\ \A i \in 1..(l - 1) : i \in 1..l /\ i # l
  BY <1>0, <1>2
<1>7. TypeOK'
  BY <1>0, <1>1, <1>2, <1>6 DEF SearchInv, TypeOK
<1>8. PathOK'
  <2>1. rec_stack' \subseteq visited'
    BY <1>0, <1>1
  <2>2. ASSUME NEW t \in Tx PROVE t \in rec_stack' <=> \E i \in 1..Len(path') : path'[i] = t
    <3>1. t \in rec_stack <=> \E i \in 1..l : path[i] = t
      BY <1>3 DEF PathOK
    <3>2. \A i \in 1..l : i = l \/ i \in 1..(l - 1)
      BY <1>0
    <3>3. \A i \in 1..(l - 1) : path[i] # Top
      BY <1>0, <1>3, <1>6 DEF PathOK
    <3>. QED
      BY <1>0, <1>1, <1>2, <1>6, <3>1, <3>2, <3>3
  <2>3. ASSUME NEW i \in 1..Len(path'), NEW j \in 1..Len(path'), path'[i] = path'[j]
        PROVE  i = j
    BY <1>2, <1>3, <1>6, <2>3 DEF PathOK
  <2>4. ASSUME NEW i \in 1..(Len(path') - 1) PROVE path'[i + 1] \in graph'[path'[i]]
    <3>1. i \in 1..(l - 1) /\ i + 1 \in 1..(l - 1)
      BY <1>0, <1>2
    <3>. QED
      BY <1>1, <1>2, <1>3, <3>1 DEF PathOK
  <2>5. path' # <<>> => path'[1] = start'
    <3>1. ASSUME l # 1 PROVE path'[1] = path[1] /\ path # <<>>
      <4>1. 1 \in 1..(l - 1)
        BY <1>0, <3>1
      <4>. QED
        BY <1>0, <1>2, <1>3, <4>1
    <3>. QED
      BY <1>1, <1>3, <1>6, <3>1 DEF PathOK
  <2>. QED
    BY <2>1, <2>2, <2>3, <2>4, <2>5 DEF PathOK
<1>9. LookedAt'
  <2>. SUFFICES ASSUME NEW i \in 1..Len(path'), NEW m \in graph[path'[i]]
                PROVE  \/ m \in left[path'[i]]
                       \/ m \in Finished'
                       \/ i < Len(path') /\ m = path'[i + 1]
    BY <1>1 DEF LookedAt
  <2>1. i \in 1..(l - 1) /\ i \in 1..l /\ i \in Int /\ path'[i] = path[i]
    BY <1>2, <1>6
  <2>2. \/ m \in left[path[i]]
        \/ m \in Finished
        \/ i < l /\ m = path[i + 1]
    BY <1>3, <2>1 DEF LookedAt
  <2>3. CASE i + 1 = l
    BY <1>0, <1>4, <2>1, <2>2, <2>3
  <2>4. CASE i + 1 # l
    <3>1. i + 1 \in 1..(l - 1) /\ i < Len(path')
      BY <1>0, <1>2, <2>1, <2>4
    <3>. QED
      BY <1>2, <1>4, <2>1, <2>2, <3>1
  <2>. QED
    BY <2>3, <2>4
<1>10. FinishedOK'
  <2>1. \A x \in Finished' : graph'[x] \subseteq Finished'
    BY <1>1, <1>3, <1>4, <1>5 DEF FinishedOK
  <2>2. ASSUME NEW S \in SUBSET Finished', S # {} PROVE \E x \in S : graph[x] \cap S = {}
    <3>1. CASE S \cap Finished # {}
      <4>1. PICK x \in S \cap Finished : graph[x] \cap (S \cap Finished) = {}
        BY <1>3, <3>1 DEF FinishedOK
      <4>2. graph[x] \subseteq Finished
        BY <1>3 DEF FinishedOK
      <4>. QED
        BY <4>1, <4>2
    <3>2. CASE S \cap Finished = {}
      <4>1. S = {Top}
        BY <1>4, <2>2, <3>2
      <4>. QED
        BY <1>4, <1>5, <4>1
    <3>. QED
      BY <3>1, <3>2
  <2>. QED
    BY <1>1, <2>1, <2>2 DEF FinishedOK
<1>11. AnswerOK'
  BY <1>1, <1>3, <1>6 DEF AnswerOK
<1>. QED
  BY <1>7, <1>8, <1>9, <1>10, <1>11 DEF SearchInv

LEMMA SearchStep == SearchInv /\ [Next]_vars => SearchInv'
<1>. SUFFICES ASSUME SearchInv, [Next]_vars PROVE SearchInv'
  OBVIOUS
<1>1. CASE UNCHANGED vars
  <2>1. Top' = Top /\ Finished' = Finished
    BY <1>1 DEF vars, Top, Finished
  <2>. QED
    BY <1>1, <2>1 DEF vars, SearchInv, TypeOK, PathOK, LookedAt, FinishedOK, AnswerOK
<1>. QED
  BY <1>1, FindCycleInv, DescendInv, SkipInv, LeaveInv DEF Next

-----------------------------------------------------------------------------
\* Every variable of the search keeps its type, and a search that goes on has
\* a call of dfs in progress.
THEOREM SearchTypeCorrect == Spec => []TypeOK
<1>1. SearchInv => TypeOK
  BY DEF SearchInv
<1>. QED
  BY <1>1, SearchInit, SearchStep, PTL DEF Spec

\* The nodes of the path, where one of them is a neighbour of the last, can be
\* walked for ever.
LEMMA PathClosed ==
  ASSUME SearchInv, answer = "cycle"
  PROVE  find_cycle_in_wait_graph(graph, start)
<1> DEFINE l == Len(path)
<1>1. /\ path \in Seq(Tx) /\ path # <<>> /\ rec_stack \in SUBSET Tx
      /\ PathOK /\ Top = path[l]
  BY DEF SearchInv, TypeOK, AnswerOK, Top
<1>2. l \in Nat /\ l >= 1 /\ 1 \in 1..l
  BY <1>1
<1>3. PICK n \in graph[Top] : n \in rec_stack
  BY DEF SearchInv, AnswerOK
<1>4. start \in rec_stack
  BY <1>1, <1>2 DEF PathOK, SearchInv, TypeOK
<1>5. ASSUME NEW x \in rec_stack PROVE graph[x] \cap rec_stack # {}
  <2>1. PICK i \in 1..l : path[i] = x
    BY <1>1 DEF PathOK
  <2>2. CASE i = l
    BY <1>1, <1>3, <2>1, <2>2
  <2>3. CASE i # l
    <3>1. i \in 1..(l - 1) /\ i + 1 \in 1..l
      BY <1>2, <2>3
    <3>2. path[i + 1] \in graph[x] /\ path[i + 1] \in Tx
      BY <1>1, <2>1, <3>1 DEF PathOK
    <3>3. path[i + 1] \in rec_stack
      BY <1>1, <3>1, <3>2 DEF PathOK
    <3>. QED
      BY <3>2, <3>3
  <2>. QED
    BY <2>2, <2>3
<1>. QED
  BY <1>1, <1>4, <1>5 DEF find_cycle_in_wait_graph

\* When the search has left start, it has left all that start leads to.
LEMMA NothingMissed ==
  ASSUME SearchInv, answer = "none"
  PROVE  ~ find_cycle_in_wait_graph(graph, start)
<1>. SUFFICES ASSUME NEW S \in SUBSET Tx, start \in S,
                     \A x \in S : graph[x] \cap S # {}
              PROVE  FALSE
  BY DEF find_cycle_in_wait_graph
<1>1. path = <<>> /\ start \in visited /\ start \in Tx /\ FinishedOK
  BY DEF SearchInv, AnswerOK, TypeOK
<1>2. start \in Finished
  <2>1. Len(path) = 0
    BY <1>1
  <2>2. start \notin rec_stack
    BY <1>1, <2>1 DEF SearchInv, PathOK
  <2>. QED
    BY <1>1, <2>2 DEF Finished
<1>3. PICK x \in S \cap Finished : graph[x] \cap (S \cap Finished) = {}
  BY <1>1, <1>2 DEF FinishedOK
<1>4. graph[x] \subseteq Finished
  BY <1>1 DEF FinishedOK
<1>. QED
  BY <1>3, <1>4

\* The depth-first search answers exactly what LockManager takes it to answer,
\* on every graph and for every order of the neighbours.
THEOREM SearchExact == Spec => []SearchIsExact
<1>1. SearchInv => SearchIsExact
  <2>. SUFFICES ASSUME SearchInv PROVE SearchIsExact
    OBVIOUS
  <2>1. answer \in {"searching", "cycle", "none"}
    BY DEF SearchInv, TypeOK
  <2>. QED
    BY <2>1, PathClosed, NothingMissed DEF SearchIsExact
<1>. QED
  BY <1>1, SearchInit, SearchStep, PTL DEF Spec

\* From the node where the cycle closes on, the path is a cycle; if it leaves
\* start out, the graph without start's edges has it too.
THEOREM PathExact == Spec => []PathIsTheCycle
<1>1. SearchInv => PathIsTheCycle
  <2>. SUFFICES ASSUME SearchInv, answer = "cycle", CyclesPassStart
                PROVE  /\ path[1] = start
                       /\ \A i \in 1..(Len(path) - 1) : path[i + 1] \in graph[path[i]]
                       /\ start \in graph[Top]
    BY DEF PathIsTheCycle
  <2> DEFINE l == Len(path)
             without == [graph EXCEPT ![start] = {}]
  <2>1. /\ path \in Seq(Tx) /\ path # <<>> /\ rec_stack \in SUBSET Tx /\ start \in Tx
        /\ PathOK /\ Top = path[l] /\ graph \in Graph
    BY DEF SearchInv, TypeOK, AnswerOK, Top
  <2>2. /\ l \in Nat /\ l >= 1 /\ 1 \in 1..l /\ l \in 1..l
        /\ \A i \in 1..l : path[i] \in Tx
    BY <2>1
  <2>3. PICK n \in graph[Top] : n \in rec_stack
    BY DEF SearchInv, AnswerOK
  <2>4. PICK c \in 1..l : path[c] = n
    BY <2>1, <2>3 DEF PathOK
  <2>5. path[1] = start /\ \A i \in 1..(l - 1) : path[i + 1] \in graph[path[i]]
    BY <2>1 DEF PathOK
  <2>6. ASSUME c # 1 PROVE FALSE
    <3> DEFINE S == {path[i] : i \in c..l}
    <3>1. c..l \subseteq 1..l /\ 1 \notin c..l /\ l \in c..l /\ c \in c..l
      BY <2>2, <2>6
    <3>2. start \notin S
      BY <2>1, <2>2, <2>5, <3>1 DEF PathOK
    <3>3. S \in SUBSET Tx /\ S # {}
      BY <2>2, <3>1
    <3>4. ASSUME NEW i \in c..l PROVE graph[path[i]] \cap S # {}
      <4>1. CASE i = l
        BY <2>1, <2>3, <2>4, <3>1, <4>1
      <4>2. CASE i # l
        <5>1. i \in 1..(l - 1) /\ i + 1 \in c..l
          BY <2>2, <4>2
        <5>. QED
          BY <2>5, <5>1
      <4>. QED
        BY <4>1, <4>2
    <3>5. \A x \in S : without[x] = graph[x] /\ graph[x] \cap S # {}
      BY <2>1, <3>2, <3>3, <3>4 DEF Graph
    <3>. HIDE DEF S
    <3>. QED
      BY <3>3, <3>5 DEF CyclesPassStart, Acyclic
  <2>. QED
    BY <2>3, <2>4, <2>5, <2>6
<1>. QED
  BY <1>1, SearchInit, SearchStep, PTL DEF Spec
=============================================================================
