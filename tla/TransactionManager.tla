------------------------- MODULE TransactionManager -------------------------
(***************************************************************************)
(* DefaultTransactionManager of transaction_manager.cpp over its           *)
(* DefaultLockManager (LockManager): the transaction table, the two-phase  *)
(* commit handlers, the two background threads, and mutex_, the manager's  *)
(* own lock.                                                               *)
(*                                                                         *)
(* mutex_ is held for the whole of every call: exclusively, except that    *)
(* read holds it shared.  A call therefore is one step, except where it    *)
(* sleeps with mutex_ held: in acquire_lock (the wait of LockManager), and *)
(* in stop, which joins the background threads.  call records such calls.  *)
(* abort_transaction takes mutex_ again when cleanup_expired_transactions  *)
(* calls it with mutex_ held, and throws (see LockManager on EDEADLK).     *)
(***************************************************************************)
EXTENDS Integers

CONSTANTS Tx, Key, Thread, None, MaxLockId,  \* as in LockManager
          Node,       \* nodes whose votes arrive
          Isolation,  \* the isolation levels transactions ask for
          Asked       \* the lock types that lock is called with

VARIABLES locks, key_locks, transaction_locks, wait_graph, next_lock_id,
          waiting, outcome,   \* the lock manager
          transactions,       \* transactions_: id -> transaction, or None
          begun,              \* the ids generate_transaction_id has handed out
          voted_no,           \* ids for which a PREPARE_ABORT has been handled
          call,               \* thread -> the call asleep in it, or None
          running,            \* is_running_
          stop_threads,       \* stop_threads_
          cleanup,            \* where cleanup_loop is
          detector            \* where deadlock_detection_loop is

\* read asks for SHARED, write and remove for EXCLUSIVE, lock for its argument.
LM == INSTANCE LockManager WITH Request <- Asked \cup {"SHARED", "EXCLUSIVE"}

lmVars == <<locks, key_locks, transaction_locks, wait_graph, next_lock_id,
            waiting, outcome>>
threadVars == <<running, stop_threads, cleanup, detector>>
vars == <<lmVars, transactions, begun, voted_no, call, threadVars>>

IsolationLevel == {"READ_UNCOMMITTED", "READ_COMMITTED", "REPEATABLE_READ",
                   "SERIALIZABLE"}

ASSUME IsolationAssumption == Isolation \subseteq IsolationLevel
ASSUME AskedAssumption == Asked \subseteq LM!LockType

TransactionState == {"ACTIVE", "PREPARING", "PREPARED", "COMMITTING",
                     "COMMITTED", "ABORTING", "ABORTED"}

\* expired is what is_expired() would answer: more time than the timeout has
\* passed since update_activity.  Of prepare_votes, no_votes keeps the nodes
\* whose latest vote is no: a missing vote has the effect of a yes.
DistributedTransaction ==
  [state : TransactionState, isolation : Isolation, held_locks : SUBSET Nat,
   no_votes : SUBSET Node, expired : BOOLEAN]

\* An id without a transaction is told from one with.
ASSUME NoneAssumption == None \notin Tx /\ None \notin DistributedTransaction
ASSUME BoundAssumption == MaxLockId \in Nat

NewTransaction(iso) ==
  [state |-> "ACTIVE", isolation |-> iso, held_locks |-> {},
   no_votes |-> {}, expired |-> FALSE]

-----------------------------------------------------------------------------
\* mutex_ can be taken exclusively, or shared, by a thread.
Exclusive == \A q \in Thread : call[q] = None
Shared == \A q \in Thread : call[q] # None => call[q].op = "read"

Idle(p) == call[p] = None

\* validate_transaction: the transaction is in the table and has not expired.
validate_transaction(t) ==
  /\ transactions[t] # None
  /\ ~ transactions[t].expired

SetState(t, s) == [transactions EXCEPT ![t].state = s]
Erased(t) == [transactions EXCEPT ![t] = None]

Init ==
  /\ LM!Init
  /\ transactions = [t \in Tx |-> None]
  /\ begun = {}
  /\ voted_no = {}
  /\ call = [p \in Thread |-> None]
  /\ running = FALSE
  /\ stop_threads = FALSE
  /\ cleanup = "none"
  /\ detector = "none"

-----------------------------------------------------------------------------
(* Transactions                                                            *)

BeginTransaction(p, t, iso) ==
  /\ Exclusive
  /\ running
  /\ t \notin begun
  /\ begun' = begun \cup {t}
  /\ transactions' = [transactions EXCEPT ![t] = NewTransaction(iso)]
  /\ UNCHANGED <<lmVars, voted_no, call, threadVars>>

\* An expired transaction is marked with the state TIMEOUT.
Expire_TimeoutStateBug(t) ==
  /\ transactions[t] # None
  /\ ~ transactions[t].expired
  /\ transactions' = [transactions EXCEPT ![t].expired = TRUE, ![t].state = "TIMEOUT"]
  /\ UNCHANGED <<lmVars, begun, voted_no, call, threadVars>>

\* Time passes: the transaction's timeout runs out.
Expire(t) ==
  /\ transactions[t] # None
  /\ ~ transactions[t].expired
  /\ transactions' = [transactions EXCEPT ![t].expired = TRUE]
  /\ UNCHANGED <<lmVars, begun, voted_no, call, threadVars>>

\* The id is entered in held_locks although the lock was refused.
LockingCall_RecordRefusedBug(p, t, k, y) ==
  /\ Exclusive
  /\ validate_transaction(t)
  /\ \/ /\ LM!AcquireGrant(p, t, k, y) \/ LM!AcquireDeadlock(p, t, k, y)
        /\ transactions' = [transactions EXCEPT ![t].held_locks = @ \cup {next_lock_id}]
        /\ UNCHANGED call
     \/ /\ LM!AcquireWait(p, t, k, y)
        /\ call' = [call EXCEPT ![p] = [op |-> "lock", tx |-> t, id |-> 0]]
        /\ UNCHANGED transactions
  /\ UNCHANGED <<begun, voted_no, threadVars>>

\* write, remove (type EXCLUSIVE) and lock (its argument): take the lock with
\* mutex_ held exclusively; nothing looks at the transaction's state.
LockingCall(p, t, k, y) ==
  /\ Exclusive
  /\ validate_transaction(t)
  /\ \/ /\ LM!AcquireGrant(p, t, k, y)
        /\ transactions' = [transactions EXCEPT ![t].held_locks = @ \cup {next_lock_id}]
        /\ UNCHANGED call
     \/ /\ LM!AcquireDeadlock(p, t, k, y)
        /\ UNCHANGED <<transactions, call>>
     \/ /\ LM!AcquireWait(p, t, k, y)
        /\ call' = [call EXCEPT ![p] = [op |-> "lock", tx |-> t, id |-> 0]]
        /\ UNCHANGED transactions
  /\ UNCHANGED <<begun, voted_no, threadVars>>

\* read: a SHARED lock, from READ_COMMITTED on, with mutex_ held shared.
Read(p, t, k) ==
  /\ Idle(p) /\ Shared
  /\ validate_transaction(t)
  /\ transactions[t].isolation # "READ_UNCOMMITTED"
  /\ \/ /\ LM!AcquireGrant(p, t, k, "SHARED")
        /\ call' = [call EXCEPT ![p] = [op |-> "read", tx |-> t, id |-> next_lock_id]]
     \/ /\ LM!AcquireDeadlock(p, t, k, "SHARED")
        /\ UNCHANGED call
     \/ /\ LM!AcquireWait(p, t, k, "SHARED")
        /\ call' = [call EXCEPT ![p] = [op |-> "read", tx |-> t, id |-> 0]]
  /\ UNCHANGED <<transactions, begun, voted_no, threadVars>>

\* A read enters the lock it got in held_locks and marks the transaction
\* active, expired or not by now.  Another read of the same transaction may be
\* doing so at the same time under the shared mutex_: a data race on the
\* unordered_set, in which the insertion may get lost.
ReadRecord(p) ==
  /\ call[p] # None /\ call[p].op = "read" /\ call[p].id # 0
  /\ \/ transactions' = [transactions EXCEPT
          ![call[p].tx].held_locks = @ \cup {call[p].id},
          ![call[p].tx].expired = FALSE]
     \/ /\ \E q \in Thread \ {p} : /\ call[q] # None
                                   /\ call[q].tx = call[p].tx
                                   /\ call[q].id # 0
        /\ transactions' = [transactions EXCEPT ![call[p].tx].expired = FALSE]
  /\ call' = [call EXCEPT ![p] = None]
  /\ UNCHANGED <<lmVars, begun, voted_no, threadVars>>

\* The call sleeps until the lock in its way has been released.
LockFails_UntilReleasedBug(p) ==
  /\ waiting[p] # None
  /\ waiting[p].on \notin DOMAIN locks
  /\ LM!AcquireWake(p)
  /\ call' = [call EXCEPT ![p] = None]
  /\ UNCHANGED <<transactions, begun, voted_no, threadVars>>

\* acquire_lock fails or throws after its sleep, and with it the call.
LockFails(p) ==
  /\ waiting[p] # None
  /\ LM!AcquireWake(p)
  /\ call' = [call EXCEPT ![p] = None]
  /\ UNCHANGED <<transactions, begun, voted_no, threadVars>>

\* commit_transaction, a participant has voted no: the transaction goes,
\* its locks stay.
CommitVotedDown(p, t) ==
  /\ Exclusive
  /\ validate_transaction(t)
  /\ transactions[t].state = "ACTIVE"
  /\ transactions[t].no_votes # {}
  /\ transactions' = Erased(t)
  /\ UNCHANGED <<lmVars, begun, voted_no, call, threadVars>>

\* The transaction is erased before its locks are released.
CommitTransaction_EraseFirstBug(p, t) ==
  /\ Exclusive
  /\ validate_transaction(t)
  /\ transactions[t].state = "ACTIVE"
  /\ transactions[t].no_votes = {}
  /\ LM!ReleaseAllLocks(p, t)
  /\ transactions' = Erased(t)
  /\ UNCHANGED <<begun, voted_no, call, threadVars>>

\* commit_transaction, no vote of no (a missing vote counts as yes; nothing
\* is sent, as participant_nodes is empty): PREPARING, COMMITTING, release of
\* the locks.  If that throws, the transaction stays as it is.
CommitTransaction(p, t) ==
  /\ Exclusive
  /\ validate_transaction(t)
  /\ transactions[t].state = "ACTIVE"
  /\ transactions[t].no_votes = {}
  /\ LM!ReleaseAllLocks(p, t)
  /\ transactions' = IF LM!release_all_locks(t) = "OK" THEN Erased(t)
                                                       ELSE SetState(t, "COMMITTING")
  /\ UNCHANGED <<begun, voted_no, call, threadVars>>

\* The locks are dropped from the index by transaction only.
AbortTransaction_HalfReleaseBug(p, t) ==
  /\ Exclusive
  /\ validate_transaction(t)
  /\ transaction_locks' = [transaction_locks EXCEPT ![t] = {}]
  /\ transactions' = Erased(t)
  /\ UNCHANGED <<locks, key_locks, wait_graph, next_lock_id, waiting, outcome,
                 begun, voted_no, call, threadVars>>

\* abort_transaction, from whatever state.
AbortTransaction(p, t) ==
  /\ Exclusive
  /\ validate_transaction(t)
  /\ LM!ReleaseAllLocks(p, t)
  /\ transactions' = IF LM!release_all_locks(t) = "OK" THEN Erased(t)
                                                       ELSE SetState(t, "ABORTING")
  /\ UNCHANGED <<begun, voted_no, call, threadVars>>

Prepare(p, t) ==
  /\ Exclusive
  /\ validate_transaction(t)
  /\ transactions[t].state = "ACTIVE"
  /\ transactions' = SetState(t, "PREPARED")
  /\ UNCHANGED <<lmVars, begun, voted_no, call, threadVars>>

\* handle_tpc_message: PREPARE, COMMIT and ABORT set the state of a known
\* transaction, whatever it is; an answer records the sender's vote.
HandlePrepareMessage(t) ==
  /\ Exclusive
  /\ transactions[t] # None
  /\ transactions' = SetState(t, "PREPARED")
  /\ UNCHANGED <<lmVars, begun, voted_no, call, threadVars>>

HandlePrepareResponse(t, n, vote) ==
  /\ Exclusive
  /\ transactions[t] # None
  /\ transactions' = [transactions EXCEPT ![t].no_votes =
                        IF vote = "no" THEN @ \cup {n} ELSE @ \ {n}]
  /\ voted_no' = IF vote = "no" THEN voted_no \cup {t} ELSE voted_no
  /\ UNCHANGED <<lmVars, begun, call, threadVars>>

\* transactions_[id] makes an entry for a transaction it does not have.
HandleCommitMessage_MakesEntryBug(t) ==
  /\ Exclusive
  /\ \E iso \in Isolation :
       transactions' = [transactions EXCEPT ![t] =
         [(IF @ = None THEN NewTransaction(iso) ELSE @) EXCEPT !.state = "COMMITTED"]]
  /\ UNCHANGED <<lmVars, begun, voted_no, call, threadVars>>

HandleCommitMessage(t) ==
  /\ Exclusive
  /\ transactions[t] # None
  /\ transactions' = SetState(t, "COMMITTED")
  /\ UNCHANGED <<lmVars, begun, voted_no, call, threadVars>>

HandleAbortMessage(t) ==
  /\ Exclusive
  /\ transactions[t] # None
  /\ transactions' = SetState(t, "ABORTED")
  /\ UNCHANGED <<lmVars, begun, voted_no, call, threadVars>>

-----------------------------------------------------------------------------
(* Lifecycle and background threads                                        *)

Start(p) ==
  /\ Exclusive
  /\ ~ running
  /\ running' = TRUE
  /\ stop_threads' = FALSE
  /\ cleanup' = "loop"
  /\ detector' = "loop"
  /\ UNCHANGED <<lmVars, transactions, begun, voted_no, call>>

\* stop sets the flag and joins both threads, with mutex_ held.
Stop(p) ==
  /\ Exclusive
  /\ running
  /\ stop_threads' = TRUE
  /\ call' = [call EXCEPT ![p] = [op |-> "stop", tx |-> None, id |-> 0]]
  /\ UNCHANGED <<lmVars, transactions, begun, voted_no, running, cleanup, detector>>

StopReturn(p) ==
  /\ call[p] # None /\ call[p].op = "stop"
  /\ cleanup = "none"
  /\ detector = "none"
  /\ running' = FALSE
  /\ call' = [call EXCEPT ![p] = None]
  /\ UNCHANGED <<lmVars, transactions, begun, voted_no, stop_threads, cleanup, detector>>

\* cleanup_loop reads the flag after its sleep of 30s.
CleanupCheck ==
  /\ cleanup = "loop"
  /\ cleanup' = IF stop_threads THEN "none" ELSE "locking"
  /\ UNCHANGED <<lmVars, transactions, begun, voted_no, call, running,
                 stop_threads, detector>>

\* cleanup_expired_transactions.  With an expired transaction, the call of
\* abort_transaction throws on mutex_ and cleanup_loop swallows the exception;
\* without one there is nothing to do.
CleanupExpiredTransactions ==
  /\ cleanup = "locking"
  /\ Exclusive
  /\ cleanup' = "loop"
  /\ UNCHANGED <<lmVars, transactions, begun, voted_no, call, running,
                 stop_threads, detector>>

\* The loop does not look at the flag.
DeadlockDetection_NoFlagBug ==
  /\ detector = "loop"
  /\ LM!DetectDeadlocks
  /\ UNCHANGED <<detector, transactions, begun, voted_no, call, running,
                 stop_threads, cleanup>>

\* deadlock_detection_loop, which needs the lock manager's mutex only.
DeadlockDetection ==
  /\ detector = "loop"
  /\ \/ /\ ~ stop_threads
        /\ LM!DetectDeadlocks
        /\ UNCHANGED detector
     \/ /\ stop_threads
        /\ detector' = "none"
        /\ UNCHANGED lmVars
  /\ UNCHANGED <<transactions, begun, voted_no, call, running, stop_threads, cleanup>>

Background == CleanupCheck \/ CleanupExpiredTransactions \/ DeadlockDetection

Next ==
  \/ \E p \in Thread :
       \/ Start(p) \/ Stop(p) \/ StopReturn(p)
       \/ ReadRecord(p) \/ LockFails(p)
       \/ \E t \in Tx :
            \/ \E iso \in Isolation : BeginTransaction(p, t, iso)
            \/ \E k \in Key : \/ Read(p, t, k)
                              \/ \E y \in Asked \cup {"EXCLUSIVE"} : LockingCall(p, t, k, y)
            \/ CommitVotedDown(p, t) \/ CommitTransaction(p, t)
            \/ AbortTransaction(p, t) \/ Prepare(p, t)
  \/ \E t \in Tx :
       \/ Expire(t)
       \/ HandlePrepareMessage(t) \/ HandleCommitMessage(t) \/ HandleAbortMessage(t)
       \/ \E n \in Node, vote \in {"yes", "no"} : HandlePrepareResponse(t, n, vote)
  \/ Background

\* Sleeps and joins end and the threads run; a call that sleeps in
\* acquire_lock needs only the lock manager's mutex_, which is free.
Fairness ==
  /\ \A p \in Thread : WF_vars(LockFails(p)) /\ WF_vars(ReadRecord(p))
                       /\ WF_vars(StopReturn(p))
  /\ WF_vars(CleanupCheck) /\ WF_vars(CleanupExpiredTransactions)
  /\ WF_vars(DeadlockDetection)

Spec == Init /\ [][Next]_vars

FairSpec == Spec /\ Fairness

-----------------------------------------------------------------------------
(* Properties                                                              *)

\* Every variable has its type: no transaction is ever in the state TIMEOUT,
\* which the code declares, and a call asleep is one of three kinds.
TypeOK ==
  /\ LM!TypeOK
  /\ transactions \in [Tx -> DistributedTransaction \cup {None}]
  /\ begun \subseteq Tx /\ voted_no \subseteq Tx
  /\ call \in [Thread -> [op : {"lock", "read", "stop"}, tx : Tx \cup {None},
                          id : Nat] \cup {None}]
  /\ running \in BOOLEAN /\ stop_threads \in BOOLEAN
  /\ cleanup \in {"none", "loop", "locking"}
  /\ detector \in {"none", "loop"}

\* Whatever the transaction manager does is something DefaultLockManager
\* allows: its calls from several threads implement LockManager's
\* specification, so what is proved of that holds of the lock table here.
LockManagerSpec == LM!Spec

\* held_locks of a transaction never names a lock that the lock manager does
\* not hold for it, through waits that fail, votes that erase transactions and
\* concurrent reads whose insertions race.
HeldLocksAreHeld ==
  \A t \in Tx : transactions[t] # None =>
    transactions[t].held_locks \subseteq transaction_locks[t]

\* A lock outlives its transaction in one way only: commit_transaction erased
\* the transaction because a participant had voted no.  (No other path gives
\* up transactions_'s entry before the locks.)
OrphanLocksOnlyAfterNoVote ==
  \A t \in Tx : transactions[t] = None /\ transaction_locks[t] # {}
                  => t \in voted_no

\* A call that sleeps in acquire_lock with mutex_ held returns, so the
\* manager is never blocked for good by transactions waiting for each other.
LockingCallReturns ==
  \A p \in Thread : call[p] # None /\ call[p].op # "stop" ~> call[p] = None

\* stop returns, unless cleanup_loop is about to take mutex_ when stop, which
\* holds mutex_, waits for it: then, and only then, both wait for ever.
StopReturnsUnlessCleanupBlocked ==
  \A p \in Thread : call[p] # None /\ call[p].op = "stop"
                      ~> call[p] = None \/ cleanup = "locking"

\* A transaction that commit or abort has taken out of the table is over: no
\* message or vote that comes late or twice, no answer of a call that slept
\* meanwhile, brings an entry for it back.
FinishedStaysFinished ==
  [][\A t \in begun : transactions[t] = None => transactions'[t] = None]_vars
=============================================================================
