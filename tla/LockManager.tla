---------------------------- MODULE LockManager ----------------------------
(***************************************************************************)
(* DefaultLockManager of src/src/transaction/transaction_manager.cpp: the  *)
(* lock table, its two indexes, and the wait-for graph used for deadlock   *)
(* detection.                                                              *)
(*                                                                         *)
(* Every operation holds mutex_ from its first line to its return, so it   *)
(* is one step, except acquire_lock: when it meets an incompatible lock it *)
(* releases mutex_, sleeps 10ms and takes it again.  That call is a first  *)
(* step (AcquireGrant, AcquireDeadlock or AcquireWait) and, after a wait,  *)
(* a second one (AcquireTimeout or AcquireRetry).                          *)
(*                                                                         *)
(* mutex_ is a std::shared_mutex, a glibc rwlock: locking it again in the  *)
(* thread that already holds it exclusively fails with EDEADLK and the     *)
(* lock constructor throws std::system_error.  Two operations do that, the *)
(* retry of acquire_lock and release_all_locks of a transaction that holds *)
(* locks.                                                                  *)
(***************************************************************************)
EXTENDS Integers, WaitFor

CONSTANTS Key,       \* keys (MultiLevelKey)
          Thread,    \* threads that call the lock manager
          None,      \* "no value": a thread that does not wait
          Request,   \* the lock types that callers ask for
          MaxLockId  \* bound on the ids generate_lock_id hands out

ASSUME NoneAssumption == None \notin Tx
ASSUME MaxLockIdAssumption == MaxLockId \in Nat

VARIABLES
  locks,              \* locks_: id -> [tx, key, type], a partial function
  key_locks,          \* key_locks_: key -> ids, in the order of the ids
  transaction_locks,  \* transaction_locks_: transaction -> ids
  wait_graph,         \* wait_graph_: transaction -> transactions it waits for
  next_lock_id,       \* next_lock_id_
  waiting,            \* thread -> the acquire_lock call asleep in it, or None
  outcome             \* what the last completed call answered

lmVars == <<locks, key_locks, transaction_locks, wait_graph, next_lock_id,
            waiting, outcome>>

LockType == {"SHARED", "EXCLUSIVE", "INTENTION_SHARED", "INTENTION_EXCLUSIVE"}

ASSUME RequestAssumption == Request \subseteq LockType

LockInfo == [tx : Tx, key : Key, type : LockType]

\* A call of acquire_lock that sleeps: its arguments, and the transaction and
\* the id of the lock it met.
Wait == [tx : Tx, key : Key, type : LockType, holder : Tx, on : Nat]

\* OK, an error or exception (callers treat NOT_FOUND, TIMEOUT and a throw
\* alike), and the two answers that tell of a deadlock.
Answer == {"OK", "FAILED", "DEADLOCK_DETECTED", "DEADLOCK_REPORTED"}

-----------------------------------------------------------------------------
\* A matrix in which shared locks admit exclusive ones.
is_lock_compatible_AsymmetricBug(existing, requested) ==
  CASE existing = "SHARED" -> TRUE
    [] existing = "EXCLUSIVE" -> FALSE
    [] existing = "INTENTION_SHARED" -> requested # "EXCLUSIVE"
    [] existing = "INTENTION_EXCLUSIVE" ->
         requested \in {"INTENTION_SHARED", "INTENTION_EXCLUSIVE"}

is_lock_compatible(existing, requested) ==
  CASE existing = "SHARED" -> requested \in {"SHARED", "INTENTION_SHARED"}
    [] existing = "EXCLUSIVE" -> FALSE
    [] existing = "INTENTION_SHARED" -> requested # "EXCLUSIVE"
    [] existing = "INTENTION_EXCLUSIVE" ->
         requested \in {"INTENTION_SHARED", "INTENTION_EXCLUSIVE"}

\* The ids of key k's vector that stop transaction t from getting a lock of
\* type y: those of other transactions whose type is incompatible.
Blockers(t, k, y) ==
  {i \in key_locks[k] : /\ i \in DOMAIN locks
                        /\ locks[i].tx # t
                        /\ ~ is_lock_compatible(locks[i].type, y)}

\* The one of them where the loop of acquire_lock stops, if there is any.
\* push_back appends ever larger ids, so the first of the vector is the
\* smallest.
FirstBlocker(t, k, y) ==
  {i \in Blockers(t, k, y) : \A j \in Blockers(t, k, y) : i <= j}

-----------------------------------------------------------------------------
Init ==
  /\ locks = [i \in {} |-> None]
  /\ key_locks = [k \in Key |-> {}]
  /\ transaction_locks = [t \in Tx |-> {}]
  /\ wait_graph = [t \in Tx |-> {}]
  /\ next_lock_id = 1
  /\ waiting = [p \in Thread |-> None]
  /\ outcome = "OK"

\* The index by transaction is not updated.
AcquireGrant_NoTxIndexBug(p, t, k, y) ==
  /\ waiting[p] = None
  /\ next_lock_id <= MaxLockId
  /\ Blockers(t, k, y) = {}
  /\ locks' = [i \in DOMAIN locks \cup {next_lock_id} |->
                 IF i = next_lock_id THEN [tx |-> t, key |-> k, type |-> y]
                                     ELSE locks[i]]
  /\ key_locks' = [key_locks EXCEPT ![k] = @ \cup {next_lock_id}]
  /\ next_lock_id' = next_lock_id + 1
  /\ wait_graph' = [wait_graph EXCEPT ![t] = {}]
  /\ outcome' = "OK"
  /\ UNCHANGED <<transaction_locks, waiting>>

\* acquire_lock meets no incompatible lock: a new lock, entered in both
\* indexes; the transaction no longer waits for anyone.
AcquireGrant(p, t, k, y) ==
  /\ waiting[p] = None
  /\ next_lock_id <= MaxLockId
  /\ Blockers(t, k, y) = {}
  /\ locks' = [i \in DOMAIN locks \cup {next_lock_id} |->
                 IF i = next_lock_id THEN [tx |-> t, key |-> k, type |-> y]
                                     ELSE locks[i]]
  /\ key_locks' = [key_locks EXCEPT ![k] = @ \cup {next_lock_id}]
  /\ transaction_locks' = [transaction_locks EXCEPT ![t] = @ \cup {next_lock_id}]
  /\ next_lock_id' = next_lock_id + 1
  /\ wait_graph' = [wait_graph EXCEPT ![t] = {}]
  /\ outcome' = "OK"
  /\ UNCHANGED waiting

\* acquire_lock meets an incompatible lock and the new edge closes a cycle:
\* the edge is taken out again and the call fails.
AcquireDeadlock(p, t, k, y) ==
  /\ waiting[p] = None
  /\ \E i \in FirstBlocker(t, k, y) :
       LET h == locks[i].tx
       IN  /\ find_cycle_in_wait_graph(WithEdge(wait_graph, t, h), t)
           /\ wait_graph' = WithoutEdge(wait_graph, t, h)
  /\ outcome' = "DEADLOCK_DETECTED"
  /\ UNCHANGED <<locks, key_locks, transaction_locks, next_lock_id, waiting>>

\* acquire_lock meets an incompatible lock and no cycle: it sleeps with the
\* edge in the graph and mutex_ released.
AcquireWait(p, t, k, y) ==
  /\ waiting[p] = None
  /\ \E i \in FirstBlocker(t, k, y) :
       LET h == locks[i].tx
       IN  /\ ~ find_cycle_in_wait_graph(WithEdge(wait_graph, t, h), t)
           /\ wait_graph' = WithEdge(wait_graph, t, h)
           /\ waiting' = [waiting EXCEPT
                ![p] = [tx |-> t, key |-> k, type |-> y, holder |-> h, on |-> i]]
  /\ UNCHANGED <<locks, key_locks, transaction_locks, next_lock_id, outcome>>

\* The transaction whose edge a timed-out call erases.  existing_lock is a
\* reference into locks_ taken before the sleep: once the lock is gone it
\* dangles, and reads the old value or whatever reused the memory.
ReadExistingLock(w) ==
  IF w.on \in DOMAIN locks THEN {w.holder} ELSE Tx \cup {None}

\* The sleeping call wakes up past its deadline.
AcquireTimeout(p) ==
  /\ waiting[p] # None
  /\ \E h \in ReadExistingLock(waiting[p]) :
       wait_graph' = WithoutEdge(wait_graph, waiting[p].tx, h)
  /\ outcome' = "FAILED"
  /\ waiting' = [waiting EXCEPT ![p] = None]
  /\ UNCHANGED <<locks, key_locks, transaction_locks, next_lock_id>>

\* The sleeping call wakes up within its deadline and calls acquire_lock
\* again with mutex_ held: the inner call throws, the outer one unwinds and
\* unlocks; the edge stays.
AcquireRetry(p) ==
  /\ waiting[p] # None
  /\ outcome' = "FAILED"
  /\ waiting' = [waiting EXCEPT ![p] = None]
  /\ UNCHANGED <<locks, key_locks, transaction_locks, wait_graph, next_lock_id>>

\* release_lock: out of both indexes, then out of the table.
ReleaseLock(p, i) ==
  /\ waiting[p] = None
  /\ i \in DOMAIN locks
  /\ key_locks' = [key_locks EXCEPT ![locks[i].key] = @ \ {i}]
  /\ transaction_locks' = [transaction_locks EXCEPT ![locks[i].tx] = @ \ {i}]
  /\ locks' = [j \in DOMAIN locks \ {i} |-> locks[j]]
  /\ outcome' = "OK"
  /\ UNCHANGED <<wait_graph, next_lock_id, waiting>>

ReleaseLockNotFound(p, i) ==
  /\ waiting[p] = None
  /\ i \notin DOMAIN locks
  /\ outcome' = "FAILED"
  /\ UNCHANGED <<locks, key_locks, transaction_locks, wait_graph, next_lock_id,
                 waiting>>

\* release_all_locks calls release_lock with mutex_ held, so it throws before
\* it has released the first lock.  Without locks it returns early, and
\* leaves the transaction's edges alone.
release_all_locks(t) == IF transaction_locks[t] = {} THEN "OK" ELSE "FAILED"

ReleaseAllLocks(p, t) ==
  /\ waiting[p] = None
  /\ outcome' = release_all_locks(t)
  /\ UNCHANGED <<locks, key_locks, transaction_locks, wait_graph, next_lock_id,
                 waiting>>

\* detect_deadlocks searches from every transaction with an entry, and
\* resolve_deadlock, called on each cycle found, is release_all_locks of one
\* of its transactions.
DetectDeadlocks ==
  /\ outcome' = IF \E t \in Tx : find_cycle_in_wait_graph(wait_graph, t)
                THEN "DEADLOCK_REPORTED" ELSE "OK"
  /\ UNCHANGED <<locks, key_locks, transaction_locks, wait_graph, next_lock_id,
                 waiting>>

Acquire(p, t, k, y) ==
  \/ AcquireGrant(p, t, k, y)
  \/ AcquireDeadlock(p, t, k, y)
  \/ AcquireWait(p, t, k, y)

AcquireWake(p) == AcquireTimeout(p) \/ AcquireRetry(p)

Next ==
  \/ \E p \in Thread :
       \/ \E t \in Tx, k \in Key, y \in Request : Acquire(p, t, k, y)
       \/ AcquireWake(p)
       \/ \E i \in 1..MaxLockId : ReleaseLock(p, i) \/ ReleaseLockNotFound(p, i)
       \/ \E t \in Tx : ReleaseAllLocks(p, t)
  \/ DetectDeadlocks

Spec == Init /\ [][Next]_lmVars

-----------------------------------------------------------------------------
(* Properties                                                              *)

\* Every variable has its type.
TypeOK ==
  /\ DOMAIN locks \subseteq Nat
  /\ locks = [i \in DOMAIN locks |-> locks[i]]
  /\ \A i \in DOMAIN locks : locks[i] \in LockInfo
  /\ key_locks \in [Key -> SUBSET Nat]
  /\ transaction_locks \in [Tx -> SUBSET Nat]
  /\ wait_graph \in [Tx -> SUBSET Tx]
  /\ next_lock_id \in Nat \ {0}
  /\ waiting \in [Thread -> Wait \cup {None}]
  /\ outcome \in Answer

\* key_locks_ and transaction_locks_ list exactly the locks of locks_, each
\* under its own key and transaction, and no id is handed out twice: what
\* acquire_lock and release_lock maintain in three maps stays one lock table,
\* whatever the order in which threads acquire and release.
IndexesAgree ==
  /\ \A k \in Key : key_locks[k] = {i \in DOMAIN locks : locks[i].key = k}
  /\ \A t \in Tx : transaction_locks[t] = {i \in DOMAIN locks : locks[i].tx = t}
  /\ \A i \in DOMAIN locks : i < next_lock_id

\* Two transactions never hold locks on one key that is_lock_compatible
\* rejects, in whichever order they got them: acquire_lock only asks whether
\* the older lock admits the newer.
HoldersCompatible ==
  \A i, j \in DOMAIN locks :
    /\ locks[i].key = locks[j].key
    /\ locks[i].tx # locks[j].tx
    => is_lock_compatible(locks[i].type, locks[j].type)

\* wait_graph_ has no cycle between calls, although edges of calls that timed
\* out on a dangling reference or threw stay in it.
WaitGraphAcyclic == Acyclic(wait_graph)

\* The deadlock detection thread never finds a deadlock to resolve:
\* acquire_lock refuses every edge that would close one.
DetectFindsNothing == outcome # "DEADLOCK_REPORTED"

\* The transactions t's sleeping calls really wait for: holders of locks that
\* stand in their way now.
ReallyWaitsFor ==
  [t \in Tx |-> UNION {{locks[i].tx : i \in Blockers(t, waiting[p].key, waiting[p].type)} :
                        p \in {q \in Thread : waiting[q] # None /\ waiting[q].tx = t}}]

\* acquire_lock answers DEADLOCK_DETECTED only when the transactions really
\* wait for each other: giving the caller the edge it asks for closes a cycle
\* of calls that sleep now.
DeadlockIsReal ==
  [][\A p \in Thread, t \in Tx, k \in Key, y \in Request :
       AcquireDeadlock(p, t, k, y) =>
         \E i \in FirstBlocker(t, k, y) :
           find_cycle_in_wait_graph(WithEdge(ReallyWaitsFor, t, locks[i].tx), t)]_lmVars
=============================================================================
