---------------------- MODULE TransactionManagerProofs ----------------------
(***************************************************************************)
(* Proofs about TransactionManager for any transactions, keys, threads and *)
(* nodes.  First its steps are shown to be steps of LockManager, so that   *)
(* the theorems about the lock table hold here as well; then the           *)
(* transaction table is shown to agree with the lock table.                *)
(***************************************************************************)
EXTENDS TransactionManager, TLAPS

LMP == INSTANCE LockManagerProofs WITH Request <- Asked \cup {"SHARED", "EXCLUSIVE"}

-----------------------------------------------------------------------------
(* Refinement                                                              *)

\* Every step of the transaction manager is one call of the lock manager, or
\* leaves the lock manager alone.
LEMMA LockSteps == [Next]_vars => [LM!Next]_LM!lmVars
<1>. SUFFICES ASSUME [Next]_vars, ~ UNCHANGED LM!lmVars PROVE LM!Next
  OBVIOUS
<1>1. lmVars = LM!lmVars
  BY DEF lmVars, LM!lmVars
<1>2. ~ UNCHANGED lmVars /\ ~ UNCHANGED vars
  BY <1>1 DEF vars, lmVars, LM!lmVars
<1>3. ASSUME NEW p \in Thread, Start(p) \/ Stop(p) \/ StopReturn(p) \/ ReadRecord(p)
      PROVE  FALSE
  BY <1>2, <1>3 DEF Start, Stop, StopReturn, ReadRecord
<1>4. ASSUME NEW p \in Thread, LockFails(p) PROVE LM!Next
  BY <1>4 DEF LockFails, LM!Next
<1>5. ASSUME NEW p \in Thread, NEW t \in Tx,
             \/ \E iso \in Isolation : BeginTransaction(p, t, iso)
             \/ CommitVotedDown(p, t) \/ Prepare(p, t)
      PROVE  FALSE
  BY <1>2, <1>5 DEF BeginTransaction, CommitVotedDown, Prepare
<1>6. ASSUME NEW p \in Thread, NEW t \in Tx, CommitTransaction(p, t) \/ AbortTransaction(p, t)
      PROVE  LM!Next
  BY <1>6 DEF CommitTransaction, AbortTransaction, LM!Next
<1>7. ASSUME NEW p \in Thread, NEW t \in Tx, NEW k \in Key, Read(p, t, k)
      PROVE  LM!Next
  <2>1. LM!Acquire(p, t, k, "SHARED")
    BY <1>7 DEF Read, LM!Acquire
  <2>. QED
    BY <2>1 DEF LM!Next
<1>8. ASSUME NEW p \in Thread, NEW t \in Tx, NEW k \in Key,
             NEW y \in Asked \cup {"EXCLUSIVE"}, LockingCall(p, t, k, y)
      PROVE  LM!Next
  <2>1. LM!Acquire(p, t, k, y)
    BY <1>8 DEF LockingCall, LM!Acquire
  <2>. QED
    BY <2>1 DEF LM!Next
<1>9. ASSUME NEW t \in Tx,
             \/ Expire(t) \/ HandlePrepareMessage(t) \/ HandleCommitMessage(t)
             \/ HandleAbortMessage(t)
             \/ \E n \in Node, vote \in {"yes", "no"} : HandlePrepareResponse(t, n, vote)
      PROVE  FALSE
  BY <1>2, <1>9 DEF Expire, HandlePrepareMessage, HandleCommitMessage,
     HandleAbortMessage, HandlePrepareResponse
<1>10. CASE CleanupCheck \/ CleanupExpiredTransactions
  BY <1>2, <1>10 DEF CleanupCheck, CleanupExpiredTransactions
<1>11. CASE DeadlockDetection
  BY <1>2, <1>11 DEF DeadlockDetection, LM!Next
<1>. QED
  BY <1>2, <1>3, <1>4, <1>5, <1>6, <1>7, <1>8, <1>9, <1>10, <1>11 DEF Next, Background

\* The transaction manager uses the lock manager only as LockManager allows:
\* every behaviour of the one is, seen through the lock table, a behaviour of
\* the other.
THEOREM TransactionsUseLocks == Spec => LockManagerSpec
<1>1. Init => LM!Init
  BY DEF Init
<1>. QED
  BY <1>1, LockSteps, PTL DEF Spec, LM!Spec, LockManagerSpec

-----------------------------------------------------------------------------
(* What is proved of LockManager carries over                              *)

\* LM and LMP are two instances of one specification.
LEMMA SameLockManager == LM!Spec => LMP!Spec
<1>1. LM!Init <=> LMP!Init
  BY DEF LM!Init, LMP!Init
<1>2. LM!Next <=> LMP!Next
  BY DEF LM!Next, LM!Acquire, LM!AcquireGrant, LM!AcquireDeadlock, LM!AcquireWait,
     LM!AcquireWake, LM!AcquireTimeout, LM!AcquireRetry, LM!ReleaseLock,
     LM!ReleaseLockNotFound, LM!ReleaseAllLocks, LM!DetectDeadlocks,
     LM!release_all_locks, LM!ReadExistingLock, LM!FirstBlocker, LM!Blockers,
     LM!is_lock_compatible, LM!WithEdge, LM!WithoutEdge, LM!find_cycle_in_wait_graph,
     LMP!Next, LMP!Acquire, LMP!AcquireGrant, LMP!AcquireDeadlock, LMP!AcquireWait,
     LMP!AcquireWake, LMP!AcquireTimeout, LMP!AcquireRetry, LMP!ReleaseLock,
     LMP!ReleaseLockNotFound, LMP!ReleaseAllLocks, LMP!DetectDeadlocks,
     LMP!release_all_locks, LMP!ReadExistingLock, LMP!FirstBlocker, LMP!Blockers,
     LMP!is_lock_compatible, LMP!WithEdge, LMP!WithoutEdge, LMP!find_cycle_in_wait_graph
<1>3. [LM!Next]_LM!lmVars => [LMP!Next]_LMP!lmVars
  BY <1>2 DEF LM!lmVars, LMP!lmVars
<1>. QED
  BY <1>1, <1>3, PTL DEF LM!Spec, LMP!Spec

LEMMA LockAssumptions ==
  /\ None \notin Tx /\ MaxLockId \in Nat
  /\ Asked \cup {"SHARED", "EXCLUSIVE"} \subseteq LMP!LockType
BY NoneAssumption, BoundAssumption, AskedAssumption DEF LM!LockType, LMP!LockType

\* The lock table of a running transaction manager keeps its types.
LEMMA LockTypes == Spec => []LM!TypeOK
<1>1. LMP!Spec => []LMP!TypeOK
  BY LockAssumptions, LMP!LockTypeCorrect
<1>2. LMP!TypeOK => LM!TypeOK
  BY DEF LM!TypeOK, LMP!TypeOK, LM!LockInfo, LMP!LockInfo, LM!LockType, LMP!LockType,
     LM!Wait, LMP!Wait, LM!Answer, LMP!Answer
<1>. QED
  BY <1>1, <1>2, SameLockManager, TransactionsUseLocks, PTL DEF LockManagerSpec

\* Whatever transactions begin, read, write, vote, commit and abort, two of
\* them never hold locks on one key that is_lock_compatible rejects, and
\* wait_graph_ has no cycle.
THEOREM TransactionsIsolated ==
  Spec => [](LM!HoldersCompatible /\ LM!WaitGraphAcyclic /\ LM!IndexesAgree)
<1>1. LMP!Spec => []LMP!HoldersCompatible
  BY LockAssumptions, LMP!LockCompatibility
<1>2. LMP!Spec => [](LMP!WaitGraphAcyclic /\ LMP!DetectFindsNothing)
  BY LockAssumptions, LMP!LockNoDeadlock
<1>3. LMP!Spec => []LMP!IndexesAgree
  BY LockAssumptions, LMP!LockIndexesAgree
<1>4. LMP!HoldersCompatible => LM!HoldersCompatible
  BY DEF LM!HoldersCompatible, LMP!HoldersCompatible, LM!is_lock_compatible,
     LMP!is_lock_compatible
<1>5. LMP!WaitGraphAcyclic => LM!WaitGraphAcyclic
  BY DEF LM!WaitGraphAcyclic, LMP!WaitGraphAcyclic, LM!Acyclic, LMP!Acyclic
<1>6. LMP!IndexesAgree => LM!IndexesAgree
  BY DEF LM!IndexesAgree, LMP!IndexesAgree
<1>. QED
  BY <1>1, <1>2, <1>3, <1>4, <1>5, <1>6, SameLockManager, TransactionsUseLocks, PTL
  DEF LockManagerSpec

-----------------------------------------------------------------------------
(* The transaction table                                                   *)

\* TypeOK without the lock manager's variables.
TableTypes ==
  /\ transactions \in [Tx -> DistributedTransaction \cup {None}]
  /\ begun \subseteq Tx /\ voted_no \subseteq Tx
  /\ call \in [Thread -> [op : {"lock", "read", "stop"}, tx : Tx \cup {None},
                          id : Nat] \cup {None}]
  /\ running \in BOOLEAN /\ stop_threads \in BOOLEAN
  /\ cleanup \in {"none", "loop", "locking"}
  /\ detector \in {"none", "loop"}

\* A read that has given up the lock manager's mutex_ and not yet recorded its
\* lock finds its transaction in the table, and the lock still held.
ReadsInFlight ==
  \A p \in Thread : call[p] # None /\ call[p].op = "read" =>
    /\ call[p].tx \in Tx
    /\ transactions[call[p].tx] # None
    /\ call[p].id # 0 => call[p].id \in transaction_locks[call[p].tx]

\* A vote of no that stands has been handled.
VotesRemembered ==
  \A t \in Tx : transactions[t] # None /\ transactions[t].no_votes # {} => t \in voted_no

\* HeldLocksAreHeld needs ReadsInFlight, for what a read records after its
\* sleep; OrphanLocksOnlyAfterNoVote needs VotesRemembered, for what commit
\* erases.
TableInv ==
  /\ TableTypes
  /\ ReadsInFlight
  /\ VotesRemembered
  /\ HeldLocksAreHeld
  /\ OrphanLocksOnlyAfterNoVote

LEMMA TableInit == Init => TableInv
BY DEF Init, LM!Init, TableInv, TableTypes, ReadsInFlight, VotesRemembered,
   HeldLocksAreHeld, OrphanLocksOnlyAfterNoVote

\* Steps that leave the table alone and at most end a call or enter stop.
LEMMA TableFrame ==
  ASSUME TableInv, UNCHANGED <<transactions, begun, voted_no, transaction_locks>>,
         \/ UNCHANGED call
         \/ \E p \in Thread : call' = [call EXCEPT ![p] = None]
         \/ \E p \in Thread : call' = [call EXCEPT ![p] = [op |-> "stop", tx |-> None, id |-> 0]],
         running' \in BOOLEAN, stop_threads' \in BOOLEAN,
         cleanup' \in {"none", "loop", "locking"}, detector' \in {"none", "loop"}
  PROVE  TableInv'
<1>1. TableTypes'
  BY DEF TableInv, TableTypes
<1>2. ReadsInFlight'
  BY DEF TableInv, TableTypes, ReadsInFlight
<1>. QED
  BY <1>1, <1>2 DEF TableInv, VotesRemembered, HeldLocksAreHeld, OrphanLocksOnlyAfterNoVote

\* Steps that give one transaction a new record.
LEMMA TableRecord ==
  ASSUME TableInv, NEW t \in Tx, NEW r \in DistributedTransaction,
         transactions' = [transactions EXCEPT ![t] = r],
         r.held_locks \subseteq transaction_locks[t],
         voted_no \subseteq voted_no', voted_no' \subseteq Tx,
         r.no_votes # {} => t \in voted_no',
         begun' \subseteq Tx,
         UNCHANGED <<transaction_locks, call, threadVars>>
  PROVE  TableInv'
<1>0. /\ transactions'[t] = r /\ r # None
      /\ \A u \in Tx \ {t} : transactions'[u] = transactions[u]
  BY NoneAssumption DEF TableInv, TableTypes
<1>1. TableTypes'
  BY DEF TableInv, TableTypes, threadVars
<1>2. ReadsInFlight'
  BY <1>0 DEF TableInv, ReadsInFlight
<1>3. VotesRemembered'
  BY <1>0 DEF TableInv, VotesRemembered
<1>4. HeldLocksAreHeld'
  BY <1>0 DEF TableInv, HeldLocksAreHeld
<1>5. OrphanLocksOnlyAfterNoVote'
  BY <1>0 DEF TableInv, OrphanLocksOnlyAfterNoVote
<1>. QED
  BY <1>1, <1>2, <1>3, <1>4, <1>5 DEF TableInv

\* Steps that erase a transaction, with mutex_ held exclusively: it has no
\* locks or was voted down.
LEMMA TableErase ==
  ASSUME TableInv, Exclusive, NEW t \in Tx, transactions' = Erased(t),
         transaction_locks[t] = {} \/ t \in voted_no,
         UNCHANGED <<begun, voted_no, transaction_locks, call, threadVars>>
  PROVE  TableInv'
<1>0. /\ transactions'[t] = None
      /\ \A u \in Tx \ {t} : transactions'[u] = transactions[u]
  BY DEF TableInv, TableTypes, Erased
<1>1. TableTypes'
  BY DEF TableInv, TableTypes, threadVars, Erased
<1>2. ReadsInFlight'
  BY DEF Exclusive, ReadsInFlight
<1>3. VotesRemembered'
  BY <1>0 DEF TableInv, VotesRemembered
<1>4. HeldLocksAreHeld'
  BY <1>0 DEF TableInv, HeldLocksAreHeld
<1>5. OrphanLocksOnlyAfterNoVote'
  BY <1>0 DEF TableInv, OrphanLocksOnlyAfterNoVote
<1>. QED
  BY <1>1, <1>2, <1>3, <1>4, <1>5 DEF TableInv

\* Setting a field of a transaction.
LEMMA RecordField ==
  ASSUME NEW r \in DistributedTransaction
  PROVE  /\ \A s \in TransactionState :
              /\ [r EXCEPT !.state = s] \in DistributedTransaction
              /\ [r EXCEPT !.state = s].held_locks = r.held_locks
              /\ [r EXCEPT !.state = s].no_votes = r.no_votes
         /\ \A x \in BOOLEAN :
              /\ [r EXCEPT !.expired = x] \in DistributedTransaction
              /\ [r EXCEPT !.expired = x].held_locks = r.held_locks
              /\ [r EXCEPT !.expired = x].no_votes = r.no_votes
         /\ \A v \in SUBSET Node :
              /\ [r EXCEPT !.no_votes = v] \in DistributedTransaction
              /\ [r EXCEPT !.no_votes = v].held_locks = r.held_locks
              /\ [r EXCEPT !.no_votes = v].no_votes = v
         /\ \A l \in SUBSET Nat :
              /\ [r EXCEPT !.held_locks = l] \in DistributedTransaction
              /\ [r EXCEPT !.held_locks = l].held_locks = l
              /\ [r EXCEPT !.held_locks = l].no_votes = r.no_votes
BY DEF DistributedTransaction

\* A transaction that is in the table is one.
LEMMA InTable ==
  ASSUME TableInv, NEW t \in Tx, transactions[t] # None
  PROVE  /\ transactions[t] \in DistributedTransaction
         /\ transactions[t].held_locks \subseteq transaction_locks[t]
         /\ transactions[t].no_votes # {} => t \in voted_no
BY DEF TableInv, TableTypes, HeldLocksAreHeld, VotesRemembered

LEMMA TableBegin ==
  ASSUME TableInv, NEW p \in Thread, NEW t \in Tx, NEW iso \in Isolation,
         BeginTransaction(p, t, iso)
  PROVE  TableInv'
<1>1. NewTransaction(iso) \in DistributedTransaction
  BY DEF NewTransaction, DistributedTransaction, TransactionState
<1>2. NewTransaction(iso).held_locks = {} /\ NewTransaction(iso).no_votes = {}
  BY DEF NewTransaction
<1>3. begun' \subseteq Tx
  BY DEF BeginTransaction, TableInv, TableTypes
<1>4. voted_no' = voted_no /\ voted_no \subseteq Tx
  BY DEF BeginTransaction, TableInv, TableTypes
<1>5. UNCHANGED <<transaction_locks, call, threadVars>>
  BY DEF BeginTransaction, lmVars
<1>6. transactions' = [transactions EXCEPT ![t] = NewTransaction(iso)]
  BY DEF BeginTransaction
<1>. QED
  BY <1>1, <1>2, <1>3, <1>4, <1>5, <1>6, TableRecord

\* Steps that set the state of a transaction in the table.
LEMMA TableState ==
  ASSUME TableInv, NEW t \in Tx, transactions[t] # None, NEW s \in TransactionState,
         transactions' = SetState(t, s),
         UNCHANGED <<transaction_locks, begun, voted_no, call, threadVars>>
  PROVE  TableInv'
<1>. DEFINE r == [transactions[t] EXCEPT !.state = s]
<1>1. transactions' = [transactions EXCEPT ![t] = r]
  BY DEF SetState
<1>2. /\ r \in DistributedTransaction
      /\ r.held_locks = transactions[t].held_locks /\ r.no_votes = transactions[t].no_votes
  BY InTable, RecordField
<1>3. r.held_locks \subseteq transaction_locks[t] /\ (r.no_votes # {} => t \in voted_no')
  BY <1>2, InTable
<1>4. voted_no \subseteq voted_no' /\ voted_no' \subseteq Tx /\ begun' \subseteq Tx
  BY DEF TableInv, TableTypes
<1>. HIDE DEF r
<1>. QED
  BY <1>1, <1>2, <1>3, <1>4, TableRecord

LEMMA TableExpire ==
  ASSUME TableInv, NEW t \in Tx, Expire(t)
  PROVE  TableInv'
<1>. DEFINE r == [transactions[t] EXCEPT !.expired = TRUE]
<1>1. /\ transactions' = [transactions EXCEPT ![t] = r] /\ transactions[t] # None
      /\ UNCHANGED <<transaction_locks, begun, voted_no, call, threadVars>>
  BY DEF Expire, lmVars
<1>2. /\ r \in DistributedTransaction
      /\ r.held_locks = transactions[t].held_locks /\ r.no_votes = transactions[t].no_votes
  BY <1>1, InTable, RecordField
<1>3. r.held_locks \subseteq transaction_locks[t] /\ (r.no_votes # {} => t \in voted_no')
  BY <1>1, <1>2, InTable
<1>4. voted_no \subseteq voted_no' /\ voted_no' \subseteq Tx /\ begun' \subseteq Tx
  BY <1>1 DEF TableInv, TableTypes
<1>. HIDE DEF r
<1>. QED
  BY <1>1, <1>2, <1>3, <1>4, TableRecord

LEMMA TableVote ==
  ASSUME TableInv, NEW t \in Tx, NEW n \in Node, NEW vote \in {"yes", "no"},
         HandlePrepareResponse(t, n, vote)
  PROVE  TableInv'
<1>. DEFINE old == transactions[t].no_votes
            v == IF vote = "no" THEN old \cup {n} ELSE old \ {n}
            r == [transactions[t] EXCEPT !.no_votes = v]
<1>1. /\ transactions' = [transactions EXCEPT ![t] = r] /\ transactions[t] # None
      /\ voted_no' = IF vote = "no" THEN voted_no \cup {t} ELSE voted_no
      /\ UNCHANGED <<transaction_locks, begun, call, threadVars>>
  BY DEF HandlePrepareResponse, lmVars
<1>2. transactions[t] \in DistributedTransaction /\ old \in SUBSET Node
  BY <1>1, InTable DEF DistributedTransaction
<1>3. /\ r \in DistributedTransaction
      /\ r.held_locks = transactions[t].held_locks /\ r.no_votes = v
  BY <1>2, RecordField
<1>4. r.held_locks \subseteq transaction_locks[t] /\ (r.no_votes # {} => t \in voted_no')
  BY <1>1, <1>3, InTable
<1>5. voted_no \subseteq voted_no' /\ voted_no' \subseteq Tx /\ begun' \subseteq Tx
  BY <1>1 DEF TableInv, TableTypes
<1>. HIDE DEF r
<1>. QED
  BY <1>1, <1>3, <1>4, <1>5, TableRecord

\* The messages of two-phase commit, and prepare.
LEMMA TableMessage ==
  ASSUME TableInv, NEW t \in Tx,
         \/ HandlePrepareMessage(t) \/ HandleCommitMessage(t) \/ HandleAbortMessage(t)
         \/ \E p \in Thread : Prepare(p, t)
  PROVE  TableInv'
<1>1. /\ transactions[t] # None
      /\ \E s \in TransactionState : transactions' = SetState(t, s)
  BY DEF HandlePrepareMessage, HandleCommitMessage, HandleAbortMessage, Prepare,
     validate_transaction, TransactionState
<1>2. UNCHANGED <<transaction_locks, begun, voted_no, call, threadVars>>
  BY DEF HandlePrepareMessage, HandleCommitMessage, HandleAbortMessage, Prepare, lmVars
<1>. QED
  BY <1>1, <1>2, TableState

\* commit and abort: the transaction goes, unless release_all_locks throws.
LEMMA TableFinish ==
  ASSUME TableInv, NEW p \in Thread, NEW t \in Tx,
         CommitVotedDown(p, t) \/ CommitTransaction(p, t) \/ AbortTransaction(p, t)
  PROVE  TableInv'
<1>1. /\ Exclusive /\ transactions[t] # None
      /\ UNCHANGED <<transaction_locks, begun, voted_no, call, threadVars>>
  BY DEF CommitVotedDown, CommitTransaction, AbortTransaction, validate_transaction,
     LM!ReleaseAllLocks, lmVars
<1>2. CASE CommitVotedDown(p, t)
  <2>1. t \in voted_no /\ transactions' = Erased(t)
    BY <1>1, <1>2, InTable DEF CommitVotedDown
  <2>. QED
    BY <1>1, <2>1, TableErase
<1>3. CASE CommitTransaction(p, t) \/ AbortTransaction(p, t)
  <2>1. CASE transaction_locks[t] = {}
    <3>1. transactions' = Erased(t)
      BY <1>3, <2>1 DEF CommitTransaction, AbortTransaction, LM!release_all_locks
    <3>. QED
      BY <1>1, <2>1, <3>1, TableErase
  <2>2. CASE transaction_locks[t] # {}
    <3>1. \E s \in TransactionState : transactions' = SetState(t, s)
      BY <1>3, <2>2 DEF CommitTransaction, AbortTransaction, LM!release_all_locks,
         TransactionState
    <3>. QED
      BY <1>1, <3>1, TableState
  <2>. QED
    BY <2>1, <2>2
<1>. QED
  BY <1>2, <1>3

-----------------------------------------------------------------------------
(* Calls that take locks                                                   *)

\* A grant adds the new lock to its transaction's and takes none away.
LEMMA GrantAdds ==
  ASSUME LM!TypeOK, NEW p, NEW t \in Tx, NEW k, NEW y, LM!AcquireGrant(p, t, k, y)
  PROVE  /\ next_lock_id \in Nat \ {0}
         /\ transaction_locks'[t] = transaction_locks[t] \cup {next_lock_id}
         /\ \A u \in Tx \ {t} : transaction_locks'[u] = transaction_locks[u]
BY DEF LM!TypeOK, LM!AcquireGrant

\* write, remove and lock, which record the lock at once or go to sleep.
LEMMA TableLocking ==
  ASSUME TableInv, LM!TypeOK, NEW p \in Thread, NEW t \in Tx, NEW k \in Key, NEW y,
         LockingCall(p, t, k, y)
  PROVE  TableInv'
<1>1. /\ Exclusive /\ transactions[t] # None
      /\ UNCHANGED <<begun, voted_no, threadVars>>
  BY DEF LockingCall, validate_transaction
<1>2. CASE /\ LM!AcquireGrant(p, t, k, y) /\ UNCHANGED call
           /\ transactions' = [transactions EXCEPT ![t].held_locks = @ \cup {next_lock_id}]
  <2>. DEFINE new == transactions[t].held_locks \cup {next_lock_id}
              r == [transactions[t] EXCEPT !.held_locks = new]
  <2>1. transactions' = [transactions EXCEPT ![t] = r]
    BY <1>2
  <2>2. /\ transactions[t] \in DistributedTransaction
        /\ transactions[t].held_locks \subseteq transaction_locks[t]
        /\ transactions[t].no_votes # {} => t \in voted_no
    BY <1>1, InTable
  <2>3. new \in SUBSET Nat /\ new \subseteq transaction_locks'[t]
    BY <1>2, <2>2, GrantAdds DEF DistributedTransaction
  <2>4. /\ r \in DistributedTransaction /\ r # None
        /\ r.held_locks = new /\ r.no_votes = transactions[t].no_votes
    <3>. HIDE DEF new
    <3>. QED
      BY <2>2, <2>3, RecordField, NoneAssumption
  <2>. HIDE DEF new, r
  <2>5. transactions'[t] = r /\ \A u \in Tx \ {t} : transactions'[u] = transactions[u]
    BY <2>1 DEF TableInv, TableTypes
  <2>6. TableTypes'
    BY <1>1, <1>2, <2>1, <2>4 DEF TableInv, TableTypes, threadVars
  <2>7. ReadsInFlight'
    BY <1>1, <1>2 DEF Exclusive, ReadsInFlight
  <2>8. VotesRemembered'
    BY <1>1, <2>2, <2>4, <2>5 DEF TableInv, VotesRemembered
  <2>9. HeldLocksAreHeld'
    BY <1>2, <2>3, <2>4, <2>5, GrantAdds DEF TableInv, HeldLocksAreHeld
  <2>10. OrphanLocksOnlyAfterNoVote'
    BY <1>1, <1>2, <2>4, <2>5, GrantAdds DEF TableInv, OrphanLocksOnlyAfterNoVote
  <2>. QED
    BY <2>6, <2>7, <2>8, <2>9, <2>10 DEF TableInv
<1>3. CASE /\ LM!AcquireDeadlock(p, t, k, y) /\ UNCHANGED <<transactions, call>>
  BY <1>1, <1>3, TableFrame DEF LM!AcquireDeadlock, threadVars, TableInv, TableTypes
<1>4. CASE /\ LM!AcquireWait(p, t, k, y) /\ UNCHANGED transactions
           /\ call' = [call EXCEPT ![p] = [op |-> "lock", tx |-> t, id |-> 0]]
  <2>1. UNCHANGED transaction_locks
    BY <1>4 DEF LM!AcquireWait
  <2>2. TableTypes'
    BY <1>1, <1>4 DEF TableInv, TableTypes, threadVars
  <2>3. ReadsInFlight'
    BY <1>1, <1>4 DEF TableInv, TableTypes, ReadsInFlight, Exclusive
  <2>. QED
    BY <1>1, <1>4, <2>1, <2>2, <2>3 DEF TableInv, VotesRemembered, HeldLocksAreHeld,
       OrphanLocksOnlyAfterNoVote
<1>. QED
  BY <1>2, <1>3, <1>4 DEF LockingCall

\* read up to its lock: under the shared mutex_, beside other reads.
LEMMA TableRead ==
  ASSUME TableInv, LM!TypeOK, NEW p \in Thread, NEW t \in Tx, NEW k \in Key, Read(p, t, k)
  PROVE  TableInv'
<1>1. transactions[t] # None /\ UNCHANGED <<transactions, begun, voted_no, threadVars>>
  BY DEF Read, validate_transaction
<1>2. CASE LM!AcquireDeadlock(p, t, k, "SHARED") /\ UNCHANGED call
  BY <1>1, <1>2, TableFrame DEF LM!AcquireDeadlock, threadVars, TableInv, TableTypes
<1>3. ASSUME NEW i \in Nat, call' = [call EXCEPT ![p] = [op |-> "read", tx |-> t, id |-> i]],
             \A u \in Tx : transaction_locks[u] \subseteq transaction_locks'[u],
             \A u \in Tx \ {t} : transaction_locks'[u] = transaction_locks[u],
             i # 0 => i \in transaction_locks'[t]
      PROVE  TableInv'
  <2>1. TableTypes'
    BY <1>1, <1>3 DEF TableInv, TableTypes, threadVars
  <2>2. ReadsInFlight'
    BY <1>1, <1>3 DEF TableInv, TableTypes, ReadsInFlight
  <2>3. HeldLocksAreHeld' /\ OrphanLocksOnlyAfterNoVote' /\ VotesRemembered'
    BY <1>1, <1>3 DEF TableInv, HeldLocksAreHeld, OrphanLocksOnlyAfterNoVote, VotesRemembered
  <2>. QED
    BY <2>1, <2>2, <2>3 DEF TableInv
<1>4. CASE /\ LM!AcquireGrant(p, t, k, "SHARED")
           /\ call' = [call EXCEPT ![p] = [op |-> "read", tx |-> t, id |-> next_lock_id]]
  BY <1>3, <1>4, GrantAdds
<1>5. CASE /\ LM!AcquireWait(p, t, k, "SHARED")
           /\ call' = [call EXCEPT ![p] = [op |-> "read", tx |-> t, id |-> 0]]
  <2>1. UNCHANGED transaction_locks
    BY <1>5 DEF LM!AcquireWait
  <2>. QED
    BY <1>3, <1>5, <2>1
<1>. QED
  BY <1>2, <1>4, <1>5 DEF Read

\* The end of read: it records its lock, or loses the insertion to another.
LEMMA TableReadRecord ==
  ASSUME TableInv, NEW p \in Thread, ReadRecord(p)
  PROVE  TableInv'
<1>. DEFINE t == call[p].tx
            new == transactions[t].held_locks \cup {call[p].id}
            kept == [transactions[t] EXCEPT !.expired = FALSE]
            full == [[transactions[t] EXCEPT !.held_locks = new] EXCEPT !.expired = FALSE]
<1>1. /\ call[p] # None /\ call[p].op = "read" /\ call[p].id # 0
      /\ call' = [call EXCEPT ![p] = None]
      /\ UNCHANGED <<transaction_locks, begun, voted_no, threadVars>>
  BY DEF ReadRecord, lmVars
<1>2. t \in Tx /\ transactions[t] # None /\ call[p].id \in transaction_locks[t]
  BY <1>1 DEF TableInv, ReadsInFlight
<1>3. /\ transactions[t] \in DistributedTransaction
      /\ transactions[t].held_locks \subseteq transaction_locks[t]
      /\ transactions[t].no_votes # {} => t \in voted_no
  BY <1>2, InTable
<1>4. new \in SUBSET Nat
  BY <1>1, <1>3 DEF TableInv, TableTypes, DistributedTransaction
<1>5. \/ transactions' = [transactions EXCEPT ![t] = kept]
      \/ transactions' = [transactions EXCEPT ![t] = full]
  BY <1>2 DEF ReadRecord, TableInv, TableTypes
<1>6. PICK r \in {kept, full} : transactions' = [transactions EXCEPT ![t] = r]
  BY <1>5
<1>7. /\ r \in DistributedTransaction /\ r # None
      /\ r.held_locks \subseteq transaction_locks[t]
      /\ r.no_votes = transactions[t].no_votes
  <2>. HIDE DEF new
  <2>1. CASE r = kept
    BY <1>3, <2>1, RecordField, NoneAssumption
  <2>2. CASE r = full
    <3>1. new \subseteq transaction_locks[t]
      BY <1>2, <1>3 DEF new
    <3>2. /\ [transactions[t] EXCEPT !.held_locks = new] \in DistributedTransaction
          /\ [transactions[t] EXCEPT !.held_locks = new].held_locks = new
          /\ [transactions[t] EXCEPT !.held_locks = new].no_votes = transactions[t].no_votes
      BY <1>3, <1>4, RecordField
    <3>. QED
      BY <2>2, <3>1, <3>2, RecordField, NoneAssumption
  <2>. QED
    BY <2>1, <2>2
<1>. HIDE DEF kept, full, new
<1>8. transactions'[t] = r /\ \A u \in Tx \ {t} : transactions'[u] = transactions[u]
  BY <1>2, <1>6 DEF TableInv, TableTypes
<1>9. TableTypes'
  BY <1>1, <1>2, <1>6, <1>7 DEF TableInv, TableTypes, threadVars
<1>10. ReadsInFlight'
  <2>. SUFFICES ASSUME NEW q \in Thread, call'[q] # None, call'[q].op = "read"
                PROVE  /\ call'[q].tx \in Tx
                       /\ transactions'[call'[q].tx] # None
                       /\ call'[q].id # 0 => call'[q].id \in transaction_locks'[call'[q].tx]
    BY DEF ReadsInFlight
  <2>1. call'[q] = call[q]
    BY <1>1 DEF TableInv, TableTypes
  <2>. QED
    BY <1>1, <1>7, <1>8, <2>1 DEF TableInv, ReadsInFlight
<1>11. VotesRemembered'
  BY <1>1, <1>3, <1>7, <1>8 DEF TableInv, VotesRemembered
<1>12. HeldLocksAreHeld'
  BY <1>1, <1>7, <1>8 DEF TableInv, HeldLocksAreHeld
<1>13. OrphanLocksOnlyAfterNoVote'
  BY <1>1, <1>7, <1>8 DEF TableInv, OrphanLocksOnlyAfterNoVote
<1>. QED
  BY <1>9, <1>10, <1>11, <1>12, <1>13 DEF TableInv

-----------------------------------------------------------------------------
(* Theorems                                                                *)

\* Start, stop, the background threads, and a call whose lock is refused.
LEMMA TableLife ==
  ASSUME TableInv,
         \/ \E p \in Thread : Start(p) \/ Stop(p) \/ StopReturn(p) \/ LockFails(p)
         \/ Background
  PROVE  TableInv'
<1>1. UNCHANGED <<transactions, begun, voted_no, transaction_locks>>
  BY DEF Start, Stop, StopReturn, LockFails, LM!AcquireWake, LM!AcquireTimeout,
     LM!AcquireRetry, Background, CleanupCheck, CleanupExpiredTransactions,
     DeadlockDetection, LM!DetectDeadlocks, lmVars
<1>2. /\ running \in BOOLEAN /\ stop_threads \in BOOLEAN
      /\ cleanup \in {"none", "loop", "locking"} /\ detector \in {"none", "loop"}
  BY DEF TableInv, TableTypes
<1>3. ASSUME NEW p \in Thread, Start(p) \/ Stop(p) \/ StopReturn(p) PROVE TableInv'
  BY <1>1, <1>2, <1>3, TableFrame DEF Start, Stop, StopReturn
<1>4. ASSUME NEW p \in Thread, LockFails(p) PROVE TableInv'
  BY <1>1, <1>2, <1>4, TableFrame DEF LockFails, threadVars
<1>5. CASE Background
  BY <1>1, <1>2, <1>5, TableFrame DEF Background, CleanupCheck,
     CleanupExpiredTransactions, DeadlockDetection
<1>. QED
  BY <1>3, <1>4, <1>5

LEMMA TableStep == TableInv /\ LM!TypeOK /\ [Next]_vars => TableInv'
<1>. SUFFICES ASSUME TableInv, LM!TypeOK, [Next]_vars PROVE TableInv'
  OBVIOUS
<1>1. CASE \/ \E p \in Thread : Start(p) \/ Stop(p) \/ StopReturn(p) \/ LockFails(p)
           \/ Background
  BY <1>1, TableLife
<1>2. ASSUME NEW p \in Thread, ReadRecord(p) PROVE TableInv'
  BY <1>2, TableReadRecord
<1>3. ASSUME NEW p \in Thread, NEW t \in Tx,
             \/ \E iso \in Isolation : BeginTransaction(p, t, iso)
             \/ CommitVotedDown(p, t) \/ CommitTransaction(p, t)
             \/ AbortTransaction(p, t) \/ Prepare(p, t)
      PROVE  TableInv'
  BY <1>3, TableBegin, TableFinish, TableMessage
<1>4. ASSUME NEW p \in Thread, NEW t \in Tx, NEW k \in Key,
             \/ Read(p, t, k)
             \/ \E y \in Asked \cup {"EXCLUSIVE"} : LockingCall(p, t, k, y)
      PROVE  TableInv'
  BY <1>4, TableRead, TableLocking
<1>5. ASSUME NEW t \in Tx,
             \/ Expire(t)
             \/ HandlePrepareMessage(t) \/ HandleCommitMessage(t) \/ HandleAbortMessage(t)
             \/ \E n \in Node, vote \in {"yes", "no"} : HandlePrepareResponse(t, n, vote)
      PROVE  TableInv'
  BY <1>5, TableExpire, TableMessage, TableVote
<1>6. CASE UNCHANGED vars
  BY <1>6, TableFrame DEF vars, lmVars, threadVars, TableInv, TableTypes
<1>. QED
  BY <1>1, <1>2, <1>3, <1>4, <1>5, <1>6 DEF Next

LEMMA TableInvariant == Spec => []TableInv
BY TableInit, TableStep, LockTypes, PTL DEF Spec

\* The variables of the transaction manager keep their types: whatever fails or
\* arrives late, no transaction gets into a state the code does not set.
THEOREM TransactionTypeCorrect == Spec => []TypeOK
<1>1. TableInv /\ LM!TypeOK => TypeOK
  BY DEF TableInv, TableTypes, TypeOK
<1>. QED
  BY <1>1, TableInvariant, LockTypes, PTL

\* What held_locks records is held, although reads record their locks after a
\* sleep, under a shared lock and in a race with each other.
THEOREM RecordedLocksHeld == Spec => []HeldLocksAreHeld
<1>1. TableInv => HeldLocksAreHeld
  BY DEF TableInv
<1>. QED
  BY <1>1, TableInvariant, PTL

\* Only a commit that a participant voted down leaves locks without a
\* transaction.
THEOREM OrphansWereVotedDown == Spec => []OrphanLocksOnlyAfterNoVote
<1>1. TableInv => OrphanLocksOnlyAfterNoVote
  BY DEF TableInv
<1>. QED
  BY <1>1, TableInvariant, PTL

\* Commit and abort are final: a late message or vote, or a read that slept
\* meanwhile, never brings a transaction back.
THEOREM FinishedForGood == Spec => FinishedStaysFinished
<1>. DEFINE Over == \A t \in begun : transactions[t] = None => transactions'[t] = None
<1>1. ASSUME TableInv, [Next]_vars PROVE Over
  <2>. SUFFICES ASSUME NEW t \in begun, transactions[t] = None PROVE transactions'[t] = None
    OBVIOUS
  <2>0. t \in Tx /\ transactions \in [Tx -> DistributedTransaction \cup {None}]
    BY <1>1 DEF TableInv, TableTypes
  <2>1. ASSUME NEW p \in Thread, Start(p) \/ Stop(p) \/ StopReturn(p) \/ LockFails(p)
        PROVE  UNCHANGED transactions
    BY <2>1 DEF Start, Stop, StopReturn, LockFails
  <2>2. ASSUME NEW p \in Thread, ReadRecord(p) PROVE transactions'[t] = None
    <3>1. transactions[call[p].tx] # None
      BY <1>1, <2>2 DEF ReadRecord, TableInv, ReadsInFlight
    <3>. QED
      BY <2>0, <2>2, <3>1 DEF ReadRecord
  <2>3. ASSUME NEW p \in Thread, NEW u \in Tx,
               \/ \E iso \in Isolation : BeginTransaction(p, u, iso)
               \/ CommitVotedDown(p, u) \/ CommitTransaction(p, u)
               \/ AbortTransaction(p, u) \/ Prepare(p, u)
        PROVE  transactions'[t] = None
    BY <2>0, <2>3 DEF BeginTransaction, CommitVotedDown, CommitTransaction,
       AbortTransaction, Prepare, validate_transaction, Erased, SetState
  <2>4. ASSUME NEW p \in Thread, NEW u \in Tx, NEW k \in Key,
               \/ Read(p, u, k)
               \/ \E y \in Asked \cup {"EXCLUSIVE"} : LockingCall(p, u, k, y)
        PROVE  transactions'[t] = None
    BY <2>0, <2>4 DEF Read, LockingCall, validate_transaction
  <2>5. ASSUME NEW u \in Tx,
               \/ Expire(u)
               \/ HandlePrepareMessage(u) \/ HandleCommitMessage(u) \/ HandleAbortMessage(u)
               \/ \E n \in Node, vote \in {"yes", "no"} : HandlePrepareResponse(u, n, vote)
        PROVE  transactions'[t] = None
    BY <2>0, <2>5 DEF Expire, HandlePrepareMessage, HandleCommitMessage,
       HandleAbortMessage, HandlePrepareResponse, SetState
  <2>6. CASE Background \/ UNCHANGED vars
    BY <2>6 DEF Background, CleanupCheck, CleanupExpiredTransactions,
       DeadlockDetection, vars
  <2>. QED
    BY <1>1, <2>1, <2>2, <2>3, <2>4, <2>5, <2>6 DEF Next
<1>2. TableInv /\ [Next]_vars => [Over]_vars
  BY <1>1
<1>. QED
  BY <1>2, TableInvariant, PTL DEF Spec, FinishedStaysFinished
=============================================================================
