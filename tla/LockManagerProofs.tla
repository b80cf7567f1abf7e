------------------------- MODULE LockManagerProofs -------------------------
(***************************************************************************)
(* Proofs about LockManager, for every set of transactions, keys and       *)
(* threads and every bound on lock ids.                                    *)
(***************************************************************************)
EXTENDS LockManager, TLAPS

-----------------------------------------------------------------------------
(* Lemmas about wait-for graphs                                            *)

\* Taking edges away (a grant, a timeout) cannot create a cycle.
LEMMA AcyclicSubgraph ==
  ASSUME NEW g \in Graph, NEW h \in Graph, Acyclic(g),
         \A x \in Tx : h[x] \subseteq g[x]
  PROVE  Acyclic(h)
<1> SUFFICES ASSUME NEW S \in SUBSET Tx, S # {}
             PROVE  \E x \in S : h[x] \cap S = {}
  BY DEF Acyclic
<1>1. PICK x \in S : g[x] \cap S = {}
  BY DEF Acyclic
<1>2. h[x] \cap S = {}
  BY <1>1
<1> QED
  BY <1>2

\* An edge that the search of acquire_lock accepts keeps the graph acyclic:
\* a new cycle would have to pass through the edge's source, where the search
\* starts.
LEMMA AcyclicWithEdge ==
  ASSUME NEW g \in Graph, NEW t \in Tx, NEW h \in Tx, Acyclic(g),
         ~ find_cycle_in_wait_graph(WithEdge(g, t, h), t)
  PROVE  Acyclic(WithEdge(g, t, h))
<1> DEFINE w == WithEdge(g, t, h)
<1> SUFFICES ASSUME NEW S \in SUBSET Tx, S # {},
                    \A x \in S : w[x] \cap S # {}
             PROVE  FALSE
  BY DEF Acyclic
<1>1. t \notin S
  BY DEF find_cycle_in_wait_graph
<1>2. \A x \in S : w[x] = g[x]
  BY <1>1 DEF WithEdge, Graph
<1>3. PICK x \in S : g[x] \cap S = {}
  BY DEF Acyclic
<1> QED
  BY <1>2, <1>3

\* From no node of an acyclic graph does the search find a cycle.
LEMMA AcyclicHasNoCycle ==
  ASSUME NEW g \in Graph, Acyclic(g), NEW t \in Tx
  PROVE  ~ find_cycle_in_wait_graph(g, t)
BY DEF Acyclic, find_cycle_in_wait_graph

\* The two operations on edges yield graphs.
LEMMA EdgesType ==
  ASSUME NEW g \in Graph, NEW t \in Tx, NEW h
  PROVE  /\ h \in Tx => WithEdge(g, t, h) \in Graph
         /\ WithoutEdge(g, t, h) \in Graph
         /\ \A x \in Tx : WithoutEdge(g, t, h)[x] \subseteq g[x]
BY DEF WithEdge, WithoutEdge, Graph

\* The compatibility matrix is symmetric: that the older lock admits the
\* newer is as good as the converse.
LEMMA CompatibleSymmetric ==
  ASSUME NEW a \in LockType, NEW b \in LockType, is_lock_compatible(a, b)
  PROVE  is_lock_compatible(b, a)
BY DEF LockType, is_lock_compatible

-----------------------------------------------------------------------------
(* The inductive invariant                                                 *)

\* Each conjunct needs the others: a grant keeps the indexes only if no id is
\* reused, and keeps the holders compatible only because key_locks_ lists them
\* all and the matrix is symmetric; the detection finds nothing because the
\* graph is acyclic.
LockInv ==
  /\ TypeOK
  /\ IndexesAgree
  /\ HoldersCompatible
  /\ WaitGraphAcyclic
  /\ DetectFindsNothing

\* The empty lock table of the constructor satisfies the invariant.
LEMMA InitInv == Init => LockInv
<1> SUFFICES ASSUME Init PROVE LockInv
  OBVIOUS
<1>1. TypeOK
  BY DEF Init, TypeOK, Answer
<1>2. IndexesAgree
  BY DEF Init, IndexesAgree
<1>3. HoldersCompatible
  BY DEF Init, HoldersCompatible
<1>4. WaitGraphAcyclic
  BY DEF Init, WaitGraphAcyclic, Acyclic
<1>5. DetectFindsNothing
  BY DEF Init, DetectFindsNothing
<1> QED
  BY <1>1, <1>2, <1>3, <1>4, <1>5 DEF LockInv

\* A grant enters the new lock under its key and its transaction, beside
\* locks that all admit it.
LEMMA GrantInv ==
  ASSUME LockInv, NEW p \in Thread, NEW t \in Tx, NEW k \in Key,
         NEW y \in LockType, AcquireGrant(p, t, k, y)
  PROVE  LockInv'
<1> DEFINE n == next_lock_id
           info == [tx |-> t, key |-> k, type |-> y]
<1> USE DEF LockInv
<1>0. n \in Nat /\ n \notin DOMAIN locks
  BY DEF TypeOK, IndexesAgree
<1>1. /\ DOMAIN locks' = DOMAIN locks \cup {n}
      /\ locks'[n] = info
      /\ \A i \in DOMAIN locks : locks'[i] = locks[i]
  BY <1>0 DEF AcquireGrant
<1>2. TypeOK'
  <2>1. info \in LockInfo
    BY DEF LockInfo
  <2>2. locks' = [i \in DOMAIN locks' |-> locks'[i]]
    BY <1>1 DEF AcquireGrant
  <2>3. /\ DOMAIN locks' \subseteq Nat
        /\ \A i \in DOMAIN locks' : locks'[i] \in LockInfo
    BY <1>0, <1>1, <2>1 DEF TypeOK
  <2>4. /\ key_locks' \in [Key -> SUBSET Nat]
        /\ transaction_locks' \in [Tx -> SUBSET Nat]
    BY <1>0 DEF TypeOK, AcquireGrant
  <2>5. /\ wait_graph' \in [Tx -> SUBSET Tx]
        /\ next_lock_id' \in Nat \ {0}
        /\ waiting' \in [Thread -> Wait \cup {None}]
        /\ outcome' \in Answer
    BY <1>0 DEF TypeOK, AcquireGrant, Answer
  <2> QED
    BY <2>2, <2>3, <2>4, <2>5 DEF TypeOK
<1>3. IndexesAgree'
  <2>1. \A kk \in Key : key_locks'[kk] = {i \in DOMAIN locks' : locks'[i].key = kk}
    BY <1>0, <1>1 DEF TypeOK, IndexesAgree, AcquireGrant
  <2>2. \A tt \in Tx : transaction_locks'[tt] = {i \in DOMAIN locks' : locks'[i].tx = tt}
    BY <1>0, <1>1 DEF TypeOK, IndexesAgree, AcquireGrant
  <2>3. \A i \in DOMAIN locks' : i < next_lock_id'
    BY <1>0, <1>1 DEF TypeOK, IndexesAgree, AcquireGrant
  <2> QED
    BY <2>1, <2>2, <2>3 DEF IndexesAgree
<1>4. HoldersCompatible'
  <2>1. ASSUME NEW i \in DOMAIN locks, locks[i].key = k, locks[i].tx # t
        PROVE  /\ is_lock_compatible(locks[i].type, y)
               /\ is_lock_compatible(y, locks[i].type)
    <3>1. i \in key_locks[k]
      BY <2>1 DEF IndexesAgree
    <3>2. is_lock_compatible(locks[i].type, y)
      BY <2>1, <3>1 DEF AcquireGrant, Blockers
    <3>3. locks[i].type \in LockType
      BY DEF TypeOK, LockInfo
    <3> QED
      BY <3>2, <3>3, CompatibleSymmetric
  <2> SUFFICES ASSUME NEW i \in DOMAIN locks', NEW j \in DOMAIN locks',
                      locks'[i].key = locks'[j].key,
                      locks'[i].tx # locks'[j].tx
               PROVE  is_lock_compatible(locks'[i].type, locks'[j].type)
    BY DEF HoldersCompatible
  <2>2. CASE i = n /\ j = n
    BY <2>2
  <2>3. CASE i = n /\ j # n
    BY <1>1, <2>1, <2>3
  <2>4. CASE i # n /\ j = n
    BY <1>1, <2>1, <2>4
  <2>5. CASE i # n /\ j # n
    BY <1>1, <2>5 DEF HoldersCompatible
  <2> QED
    BY <2>2, <2>3, <2>4, <2>5
<1>5. WaitGraphAcyclic'
  <2>1. wait_graph \in Graph /\ wait_graph' \in Graph
    BY DEF TypeOK, Graph, AcquireGrant
  <2>2. \A x \in Tx : wait_graph'[x] \subseteq wait_graph[x]
    BY DEF TypeOK, AcquireGrant
  <2> QED
    BY <2>1, <2>2, AcyclicSubgraph DEF WaitGraphAcyclic
<1>6. DetectFindsNothing'
  BY DEF AcquireGrant, DetectFindsNothing
<1> QED
  BY <1>2, <1>3, <1>4, <1>5, <1>6

\* A refused, waiting or returning acquire_lock touches the graph only.
LEMMA AcquireFailsInv ==
  ASSUME LockInv, NEW p \in Thread,
         \/ \E t \in Tx, k \in Key, y \in LockType :
              AcquireDeadlock(p, t, k, y) \/ AcquireWait(p, t, k, y)
         \/ AcquireWake(p)
  PROVE  LockInv'
<1> USE DEF LockInv
<1>0. wait_graph \in Graph
  BY DEF TypeOK, Graph
<1>1. /\ UNCHANGED <<locks, key_locks, transaction_locks, next_lock_id>>
      /\ outcome' # "DEADLOCK_REPORTED"
  BY DEF AcquireDeadlock, AcquireWait, AcquireWake, AcquireTimeout,
         AcquireRetry, DetectFindsNothing
<1> DEFINE Kept == /\ wait_graph' \in Graph
                   /\ WaitGraphAcyclic'
                   /\ waiting' \in [Thread -> Wait \cup {None}]
                   /\ outcome' \in Answer
<1>2. Kept
  <2>1. ASSUME NEW t \in Tx, NEW k \in Key, NEW y \in LockType,
               AcquireDeadlock(p, t, k, y)
        PROVE  Kept
    <3>1. PICK h : wait_graph' = WithoutEdge(wait_graph, t, h)
      BY <2>1 DEF AcquireDeadlock
    <3>2. wait_graph' \in Graph /\ WaitGraphAcyclic'
      BY <1>0, <3>1, EdgesType, AcyclicSubgraph DEF WaitGraphAcyclic
    <3> QED
      BY <2>1, <3>2 DEF AcquireDeadlock, TypeOK, Answer
  <2>2. ASSUME NEW t \in Tx, NEW k \in Key, NEW y \in LockType,
               AcquireWait(p, t, k, y)
        PROVE  Kept
    <3>0. PICK i \in FirstBlocker(t, k, y) :
            /\ wait_graph' = WithEdge(wait_graph, t, locks[i].tx)
            /\ ~ find_cycle_in_wait_graph(WithEdge(wait_graph, t, locks[i].tx), t)
            /\ waiting' = [waiting EXCEPT
                 ![p] = [tx |-> t, key |-> k, type |-> y,
                         holder |-> locks[i].tx, on |-> i]]
      BY <2>2 DEF AcquireWait
    <3>1. PICK h : h = locks[i].tx
      OBVIOUS
    <3>2. i \in Nat /\ h \in Tx
      BY <3>0, <3>1 DEF FirstBlocker, Blockers, TypeOK, LockInfo
    <3>3. wait_graph' \in Graph /\ WaitGraphAcyclic'
      BY <1>0, <3>0, <3>1, <3>2, EdgesType, AcyclicWithEdge DEF WaitGraphAcyclic
    <3>4. waiting' \in [Thread -> Wait \cup {None}]
      <4>1. [tx |-> t, key |-> k, type |-> y, holder |-> h, on |-> i] \in Wait
        BY <3>2 DEF Wait
      <4> QED
        BY <3>0, <3>1, <4>1 DEF TypeOK
    <3> QED
      BY <2>2, <3>3, <3>4 DEF AcquireWait, TypeOK
  <2>3. CASE AcquireTimeout(p)
    <3>1. waiting[p] \in Wait
      BY <2>3 DEF AcquireTimeout, TypeOK
    <3>2. PICK h : wait_graph' = WithoutEdge(wait_graph, waiting[p].tx, h)
      BY <2>3 DEF AcquireTimeout
    <3>3. wait_graph' \in Graph /\ WaitGraphAcyclic'
      BY <1>0, <3>1, <3>2, EdgesType, AcyclicSubgraph DEF WaitGraphAcyclic, Wait
    <3> QED
      BY <2>3, <3>1, <3>3 DEF AcquireTimeout, TypeOK, Answer, Wait
  <2>4. CASE AcquireRetry(p)
    <3>1. waiting[p] \in Wait
      BY <2>4 DEF AcquireRetry, TypeOK
    <3> QED
      BY <1>0, <2>4, <3>1 DEF AcquireRetry, TypeOK, Answer, Wait,
                              WaitGraphAcyclic, Acyclic
  <2> QED
    BY <2>1, <2>2, <2>3, <2>4 DEF AcquireWake
<1>3. TypeOK'
  BY <1>1, <1>2 DEF TypeOK, Graph
<1> QED
  BY <1>1, <1>2, <1>3 DEF IndexesAgree, HoldersCompatible, DetectFindsNothing

\* A release takes the lock out of the three maps at once.
LEMMA ReleaseInv ==
  ASSUME LockInv, NEW p \in Thread, NEW i \in Nat, ReleaseLock(p, i)
  PROVE  LockInv'
<1> USE DEF LockInv
<1>1. /\ DOMAIN locks' = DOMAIN locks \ {i}
      /\ \A j \in DOMAIN locks' : locks'[j] = locks[j]
  BY DEF ReleaseLock
<1>2. locks[i].key \in Key /\ locks[i].tx \in Tx
  BY DEF ReleaseLock, TypeOK, LockInfo
<1>3. TypeOK'
  <2>1. /\ locks' = [j \in DOMAIN locks' |-> locks'[j]]
        /\ DOMAIN locks' \subseteq Nat
        /\ \A j \in DOMAIN locks' : locks'[j] \in LockInfo
    BY <1>1 DEF TypeOK, ReleaseLock
  <2>2. /\ key_locks' \in [Key -> SUBSET Nat]
        /\ transaction_locks' \in [Tx -> SUBSET Nat]
    BY <1>2 DEF TypeOK, ReleaseLock
  <2> QED
    BY <2>1, <2>2 DEF TypeOK, ReleaseLock, Answer
<1>4. IndexesAgree'
  <2>1. \A k \in Key : key_locks'[k] = {j \in DOMAIN locks' : locks'[j].key = k}
    BY <1>1, <1>2 DEF TypeOK, IndexesAgree, ReleaseLock
  <2>2. \A t \in Tx : transaction_locks'[t] = {j \in DOMAIN locks' : locks'[j].tx = t}
    BY <1>1, <1>2 DEF TypeOK, IndexesAgree, ReleaseLock
  <2>3. \A j \in DOMAIN locks' : j < next_lock_id'
    BY <1>1 DEF IndexesAgree, ReleaseLock
  <2> QED
    BY <2>1, <2>2, <2>3 DEF IndexesAgree
<1>5. HoldersCompatible'
  BY <1>1 DEF HoldersCompatible
<1>6. WaitGraphAcyclic' /\ DetectFindsNothing'
  BY DEF ReleaseLock, WaitGraphAcyclic, Acyclic, DetectFindsNothing
<1> QED
  BY <1>3, <1>4, <1>5, <1>6

\* The calls that only answer: no lock to release, release_all_locks, and the
\* detection thread, which finds an acyclic graph.
LEMMA AnswerInv ==
  ASSUME LockInv,
         \/ \E p \in Thread, i \in Nat : ReleaseLockNotFound(p, i)
         \/ \E p \in Thread, t \in Tx : ReleaseAllLocks(p, t)
         \/ DetectDeadlocks
  PROVE  LockInv'
<1> USE DEF LockInv
<1>1. UNCHANGED <<locks, key_locks, transaction_locks, wait_graph, next_lock_id, waiting>>
  BY DEF ReleaseLockNotFound, ReleaseAllLocks, DetectDeadlocks
<1>2. /\ outcome' \in Answer
      /\ outcome' # "DEADLOCK_REPORTED"
  <2>1. CASE \E p \in Thread, i \in Nat : ReleaseLockNotFound(p, i)
    BY <2>1 DEF ReleaseLockNotFound, Answer
  <2>2. CASE \E p \in Thread, t \in Tx : ReleaseAllLocks(p, t)
    BY <2>2 DEF ReleaseAllLocks, release_all_locks, Answer
  <2>3. CASE DetectDeadlocks
    <3>1. \A t \in Tx : ~ find_cycle_in_wait_graph(wait_graph, t)
      BY AcyclicHasNoCycle DEF WaitGraphAcyclic, TypeOK, Graph
    <3> QED
      BY <2>3, <3>1 DEF DetectDeadlocks, Answer
  <2> QED
    BY <2>1, <2>2, <2>3
<1> QED
  BY <1>1, <1>2 DEF TypeOK, IndexesAgree, HoldersCompatible, Blockers,
     WaitGraphAcyclic, Acyclic, DetectFindsNothing

\* Every step of the lock manager preserves the invariant.
LEMMA NextInv == LockInv /\ [Next]_lmVars => LockInv'
<1> SUFFICES ASSUME LockInv, [Next]_lmVars PROVE LockInv'
  OBVIOUS
<1>1. ASSUME NEW p \in Thread, NEW t \in Tx, NEW k \in Key, NEW y \in Request,
             Acquire(p, t, k, y)
      PROVE  LockInv'
  <2>1. y \in LockType
    BY RequestAssumption
  <2> QED
    BY <1>1, <2>1, GrantInv, AcquireFailsInv DEF Acquire
<1>2. ASSUME NEW p \in Thread, AcquireWake(p)
      PROVE  LockInv'
  BY <1>2, AcquireFailsInv
<1>3. ASSUME NEW p \in Thread, NEW i \in 1..MaxLockId,
             ReleaseLock(p, i) \/ ReleaseLockNotFound(p, i)
      PROVE  LockInv'
  BY <1>3, ReleaseInv, AnswerInv, MaxLockIdAssumption
<1>4. ASSUME NEW p \in Thread, NEW t \in Tx, ReleaseAllLocks(p, t)
      PROVE  LockInv'
  BY <1>4, AnswerInv
<1>5. CASE DetectDeadlocks
  BY <1>5, AnswerInv
<1>6. CASE UNCHANGED lmVars
  BY <1>6 DEF lmVars, LockInv, TypeOK, IndexesAgree, HoldersCompatible,
     WaitGraphAcyclic, Acyclic, DetectFindsNothing
<1> QED
  BY <1>1, <1>2, <1>3, <1>4, <1>5, <1>6 DEF Next

-----------------------------------------------------------------------------
(* Theorems                                                                *)

\* Whatever threads acquire, wait, time out, throw and release, and in which
\* order, the variables keep their types.
THEOREM LockTypeCorrect == Spec => []TypeOK
<1>1. LockInv => TypeOK
  BY DEF LockInv
<1> QED
  BY <1>1, InitInv, NextInv, PTL DEF Spec

\* The lock table and its indexes by key and by transaction never disagree.
THEOREM LockIndexesAgree == Spec => []IndexesAgree
<1>1. LockInv => IndexesAgree
  BY DEF LockInv
<1> QED
  BY <1>1, InitInv, NextInv, PTL DEF Spec

\* Two transactions never hold incompatible locks on one key.
THEOREM LockCompatibility == Spec => []HoldersCompatible
<1>1. LockInv => HoldersCompatible
  BY DEF LockInv
<1> QED
  BY <1>1, InitInv, NextInv, PTL DEF Spec

\* The wait-for graph has no cycle between calls, so the detection thread
\* never has a deadlock to resolve.
THEOREM LockNoDeadlock == Spec => [](WaitGraphAcyclic /\ DetectFindsNothing)
<1>1. LockInv => WaitGraphAcyclic /\ DetectFindsNothing
  BY DEF LockInv
<1> QED
  BY <1>1, InitInv, NextInv, PTL DEF Spec
=============================================================================
