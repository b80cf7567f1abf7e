# A TLA+ model of qc-database

qc-database (`src/`) is a C++17 key-value store: an LSM-tree storage engine, a
transaction manager with its lock manager, and further services (time
synchronisation, split-brain detection, hotspot management, a server shell).
This directory models them, checks the models with TLC and proves their safety
properties with TLAPS: of the lock manager and the transaction manager over it,
the LSM tree, the hybrid clock and the time service, the split-brain detector
and its quorum rules, and the server. `PROJECT.json` lists
components, runs, mutants, the source lines behind every definition, findings,
hazards and theorems.

## Inventory

| Component | State | Operations | Interacts with |
|---|---|---|---|
| **Lock manager** `DefaultLockManager` (`transaction_manager.cpp`) | `locks_`, `key_locks_`, `transaction_locks_`, `wait_graph_`, `next_lock_id_`, a `shared_mutex` | `acquire_lock`, `release_lock`, `release_all_locks`, `detect_deadlocks`, `resolve_deadlock` | called by the transaction manager and its detection thread |
| **Transaction manager** `DefaultTransactionManager` (same file) | `transactions_`, `is_running_`, `stop_threads_`, two threads, a `shared_mutex` | begin, commit, abort, read, write, remove, lock, prepare, `handle_tpc_message`, start, stop, `cleanup_expired_transactions` | lock manager; an event handler |
| **Transaction context** (same file) | committed/aborted flag | forwards to the manager; aborts in its destructor | transaction manager |
| **LSM tree engine** (`lsm_tree.cpp`) | memtable, immutable memtable, `sstables_`, WAL, `is_open_`, background thread | open, close, get, put, remove, range_scan, flush, compact, backup, restore | MemTable, SSTable, WAL, file system |
| **MemTable / SSTable / WAL** | ordered map / file and index / log file and stream | get, put, remove / write, read, load_index / append, replay_from, truncate | owned by the engine |
| **Time service** `DefaultTimeService` (`time_sync.cpp`) | `sync_nodes_`, `node_offsets_`, `local_offset_`, the hybrid clock (`last_physical_time_`, `logical_time_`), two threads, a `shared_mutex` | now_logical, update_logical_clock, add/remove node, set_offset, sync_with_node, sync and NTP loops, start, stop; `TimestampOrdering::generate_timestamp` on top | peers, NTP, system clock |
| **Split-brain detector** `DefaultSplitBrainDetector` (`split_brain_detector.cpp`) | `nodes_`, `isolated_nodes_`, `detected_partitions_`, `status_`, two threads, a `shared_mutex` | heartbeats, membership, isolate, restore, force_merge, detection and recovery loops, four quorum strategies, start, stop | event handler, system clock |
| **Hotspot manager** (`hotspot_manager.cpp`) | access statistics, hotspots, events | record_access, detection, handling and cleanup loops | an access recorder that is not implemented |
| **Cache server** (`cache_server.cpp`, `main.cpp`) | `is_running_`, `stop_stats_collection_`, statistics thread, `g_server` | start, stop, two signal handlers; data operations are NOT_IMPLEMENTED | the process |
| Raft, shard and cluster managers, service, security, monitoring | - | headers only, no implementation | - |

What is hard here: `acquire_lock` unlocks, sleeps and continues with a
reference taken before; several methods take a non-recursive mutex that their
caller already holds; `stop` and `close` join threads that need locks; two-phase
commit messages may come late or twice; flushes fail half-way and are retried;
files are named by a clock; a crash may tear a file; synchronisation and
detection threads work without the lock their callers hold; signal handlers
interrupt `start`, `stop` and each other. The properties that make
the components correct are in the tables below; the list of hazards, each at
its line, is in `PROJECT.json`.

A recurring fact behind several findings: `std::shared_mutex` is a glibc
rwlock. Locking it in the thread that already holds it exclusively returns
EDEADLK and the C++ lock throws `std::system_error`. The models carry this
outcome: the call fails at that point and leaves what it had changed before.

## Modules

| Module | Models | Correspondence |
|---|---|---|
| `WaitFor` | wait-for graphs | `find_cycle_in_wait_graph` as a closed formula (a set of nodes each with an edge into the set), the answer that `LockManager` takes |
| `WaitForSearch` | the same function as the code's depth-first search | the recursion as a state machine: `path` is the stack of `dfs` calls, `left` what each call's loop has still to look at; one step per neighbour (`FindCycle`, `Descend`, `Skip`) and per return (`Leave`) |
| `LockManager` | `DefaultLockManager` | one action per operation; `acquire_lock` is split at its unlock: `AcquireGrant`/`AcquireDeadlock`/`AcquireWait`, then `AcquireTimeout`/`AcquireRetry`. `waiting` holds the calls that sleep. A lock id is its number |
| `TransactionManager` | `DefaultTransactionManager` over `LM == INSTANCE LockManager` | shares the lock manager's variables; every locking step is a lock manager step. `call` holds calls that sleep with the manager's `mutex_`; `Exclusive`/`Shared` are that mutex |
| `KeyText` | `MultiLevelKey` and its string in a file | `to_string` joins the two parts with a colon, `from_string` is the split at the first colon in `load_index`. A string is the sequence of its parts between colons |
| `LSMTree` | `LSMTreeEngine`, MemTable, SSTable, WAL, process crash and restart | every call holds `mutex_` and is a step, except `close` (three steps around its join) and the background thread's rounds. `flush_memtable` is the set of engines it can leave, failures included. A table has an index of its own, made of keys when it is written and of strings when it is read back (`written_index`, `load_index`); `read` searches the index and compares the string found in the file |
| `LSMTreeHistory` | `LSMTree` with a history variable | what `get` answered at the end of close (`closed_view`) |
| `LSMTreeDurability` | `LSMTree` with a history variable | what `put` and `remove` acknowledged last (`last_op`) |
| `RangeScan` | `range_scan` of engine, MemTable and SSTable | pure operators over a sequence of layers, newest first |
| `HybridClock` | the hybrid logical clock and `TimestampOrdering` | each public call holds its mutex and is a step; the system clock and `local_offset_` move freely; `update_config` may replace the flag and the drift limit at any time; any timestamp of `Received` may arrive at any time. `peak`, `past`, `calls`, `tame` are history variables |
| `TimeService` | offsets, `sync_loop`, `ntp_sync_loop`, start and stop | a round of `sync_loop` is split at every take and release of `mutex_`; stores to `local_offset_` are steps of their own; `stopper` is a stop at one of its joins, holding `mutex_` |
| `QuorumRules` | the four quorum strategies | operators on configuration, known and active nodes |
| `SplitBrainDetector` | `DefaultSplitBrainDetector` over `QuorumRules` | public calls are steps; the detection round is `DetectMark`, `DetectDecide` and one `DetectIsolate` per node, the recovery round four steps; none takes the mutex except `DetectIsolate` |
| `CacheServer` | the process: `main()`, start, stop, statistics thread, signals | every thread has a stack of running handlers; each load, store, join and cleanup of `stop` is a step. `components` has no variable in the code: `initialize_*` and `cleanup_*` only log in this version, and it records in which order they are called |
| `MC*` | TLC instances | symmetry sets, values of structured constants, facts about pure operators, looked at in the initial state |
| `LockManagerProofs`, `WaitForSearchProofs`, `TransactionManagerProofs`, `LSMTreeProofs`, `HybridClockProofs`, `TimeServiceProofs`, `SplitBrainProofs`, `CacheServerProofs` | - | theorems and proofs about the module of that name (`SplitBrainProofs` also about `QuorumRules`, `LSMTreeProofs` also about `RangeScan`) |

Names ending in `Bug` are deliberate mutations of the definition after them:
each property is shown to fail when the code is changed that way.

### Abstractions

* Keys, transactions, nodes and threads are model values. A data value is its
  key and a stamp, so that an answer from the wrong key can be seen. A key's
  two strings are sequences of parts without a colon, compared for equality.
* `lower_bound` is a parameter: it finds what a sorted index has, and comes to
  any place in one that is out of order, as an index read back may be. An offset
  that leads into a file written later finds an entry of the same string if the
  file has one (the code may also miss it).
* Time: a sleeping call may find its deadline passed or not; `Expire` is the
  moment a transaction's timeout runs out; the file name clock moves by a
  member of `NameStep`.
* Dangling reference (`ReadExistingLock`): any transaction, or none. Racing
  insertions under a shared lock (`ReadRecord`): one may be lost. A torn SSTable
  file: `load_index` fails or yields an index without any key.
* Heartbeat ages are three classes: within the timeout, within twice the
  timeout, older. The unlocked counting of missed heartbeats (`DetectMark`) may
  meet a heartbeat of any overdue node and lose its reset. Recorded partitions
  are reduced to none, some unresolved, all resolved: which nodes they name only
  matters to whether the recovery thread resolves them, where the model takes
  both outcomes unless none or all of the nodes are recent.
* Offsets are milliseconds in a small range; confidence is the number of syncs
  up to the one that makes it exceed 0.5. Offsets too old may be cleaned up at
  the end of any round. `offset_filter_alpha` is the default, 1/8.
* Signals are delivered to the main thread unless it is handling the same one,
  then to the statistics thread (this is what `signal()` and the kernel do).
* `operations` of a transaction is left out: apply and rollback ignore it.
* The log never receives a record (see findings), so `wal` stays empty; the
  model keeps it so that a corrected stream would show at once.
* A disk that fills up in the middle of `SSTable::write` (whose stream is never
  checked: the call answers OK, `sstable.cpp:41-119`) is not modelled; failure to
  open the file and a crash in the middle are. `Restore` may end after any part
  of the files, by a failed copy or the end of the process, but copies each of
  them whole. An entry that MemTable refuses for its size
  (`memtable.cpp:32-40`) changes nothing and is left out.

## Runs

Passing runs:

| Run | Checks | Instance |
|---|---|---|
| `locks` | `IndexesAgree`, `HoldersCompatible`, `WaitGraphAcyclic` | 3 transactions, 2 keys, 2 threads, 3 lock ids, three lock types |
| `search` | `SearchIsExact`, `PathIsTheCycle`, `SearchReturns` | all graphs of 4 transactions, every start and every order of the neighbours |
| `transactions` | `TypeOK`, `HeldLocksAreHeld`, `OrphanLocksOnlyAfterNoVote`, `FinishedStaysFinished` | 2 transactions, 1 key, 2 threads, 1 voting node, 2 lock ids |
| `transactions_calls` | `LockManagerSpec` (refinement), `LockingCallReturns`, `StopReturnsUnlessCleanupBlocked` | 2 transactions, 1 key, 2 threads, 1 lock id, an intention lock asked for through `lock` |
| `lsm` | `TypeOK`, `FlushKeepsReads`, `ReopenKeepsReads` | 1 key stored, its secondary part with a colon, and another with the same string; 2 values, 2 closing threads, 2 file names, 3 tables, with history |
| `lsm_keys` | `GetAnswersItsString`, `ScanAgreesWithGet`, `CloseReturnsUnlessReopened` | 3 keys, two of them with the same string, 2 stored, 1 value, 2 closing threads, one file name that flushes share, 2 tables; scans of up to 2 layers of 3 keys |
| `clock` | `AheadByDriftAtMost`, `CausalUnlessAhead`, `TimestampsIncrease` | 4 readings of the clock, 2 ticks a millisecond, drift limits 0 and 1 ms, peers up to 4 ticks ahead, logical times to 4 |
| `time_service` | `TypeOK`, `OffsetWithinSamples`, `RemovedNodeIsNotTrusted`, `MedianIsRobust`, `StopReturnsUnlessInRound` | 2 nodes, samples -1 and 1, both threads; medians of up to 4 values |
| `split_brain` | `TypeOK`, `IsolationIsReported`, `DetectorKeepsMajority`, `NoTwoQuorums`, `LossIsReported`, `StopReturnsUnlessIsolating` | 3 nodes, majority and static quorum, 1 missed heartbeat, heartbeats and first additions unbounded, one further call |
| `server` | `TypeOK`, `AbortOnlyIfHurried`, `CleanExit`, `StatsThreadHasComponents`, `SignalEndsServer` | 4 signals of 3 kinds, 5 components |

Bounds. `MaxLockId` bounds the locks ever granted: two suffice for a conflict;
with three transactions, edges that earlier calls left behind close a cycle of
three over two keys. `Request` is the set of lock types asked for: shared,
exclusive and intention-exclusive meet every kind of row of the compatibility
matrix (the proofs hold for all four types). Four transactions are enough for the
search to meet a node again that it has left, on the way to a cycle and beside
one. `MaxTime` bounds the name clock and
`MaxTables` the length of `sstables_`, which every open extends: with two ticks
there are a failed and a retried flush and a table left over, and compactions
of what reopening has made two tables.
One stored key is enough where keys do not interact: `flush` and `open` treat
each key by itself, and `get` meets others only through their strings. In `lsm`
the stored key is ("user", "1:a"), which comes back from its string as it was
only because that is split at the first colon; ("user:1", "a"), with the same
string, is asked for too. `lsm_keys` stores ("user:1", "a") and ("vip", "a"), asks
for all three, and lets a flush replace the file of an earlier one; the theorem
`ValuesUnderTheirStrings` covers any movement of the clock. The lock
manager's `TypeOK` is part of the transaction manager's; that of the search is
left to its theorem.

For the clock, four readings and peers beyond the drift limit reach every branch
of `update_logical_clock`, with the clock set back after each; the theorems
cover all values. Two nodes and two opposite samples give the filter and the
median values on both sides of zero and let a round run on a list that is out of
date. In `split_brain` three nodes are the smallest cluster whose majority is
not all of it; `MaxCalls` bounds add_node of a known node, remove, isolate,
restore, update_node_status, update_config, force_merge and stop, and one such
call at any moment of the threads' rounds is where the races are. Four signals
suffice for handlers nested on both threads.

`CHECK_DEADLOCK FALSE` in the time service and split-brain runs: stop can block
with its threads, as their `StopReturns...` properties say exactly; in the
server run: the process ends; in the search run: the search returns. In the transaction manager's runs: `stop` and
`cleanup_loop` can block each other for ever, and then nothing else gets the
manager's mutex. `StopReturnsUnlessCleanupBlocked` says that this is the only
way stop can hang.

Runs that show a disagreement between the code and what its documents or
comments say:

| Run | Violated | What happens |
|---|---|---|
| `lock_stale_edge` | `DeadlockIsReal` | the retry of `acquire_lock` throws and leaves its edge; another transaction is refused for a deadlock that does not exist |
| `lsm_crash_loses` | `LoggedWritesSurvive` | replaying leaves the log's stream failed; nothing is logged |

Also visible in the models, without a run of their own:

* committing or aborting a transaction that holds locks releases nothing:
  `release_all_locks` holds the mutex that `release_lock` takes and throws
  (`transaction_manager.cpp:138-160`), and the transaction stays COMMITTING,
  although the comment at line 476 says that all locks are released;
* `handle_prepare_message` and `handle_abort_message` set their state whatever
  it was: a late message overwrites COMMITTED (`transaction_manager.cpp:1005`);
* a compaction drops the two oldest tables: it takes them out of `sstables_`,
  merges nothing and gives up when `SSTable::write` refuses the empty map
  (`lsm_tree.cpp:605`), although the comment at line 602 says that it
  merges them: every key that only these two tables have is lost. No property
  says otherwise: `FlushKeepsReads` is about rounds that do not compact;
* a key with a colon in its primary part changes when an index is read back:
  `to_string` joins the parts with a colon (`types.h:33-35`), `load_index` splits
  at the first (`sstable.cpp:352-359`). After an open, `get` of the key of the
  repository's own example, ("user:123", "account:456") (`README.md:262-263`), is
  NOT_FOUND, and its value is answered under ("user", "123:account:456"),
  because `read` compares strings (`sstable.cpp:169`). Other keys of the same
  table may be missed as well, for the index may come back out of order.
  `ReopenKeepsReads` is therefore about files without such keys (`PlainFiles`),
  and `GetAnswersItsString` speaks of strings;
* `range_scan` includes the end of the range whatever `inclusive_end` says
  (`types.h:117-119`; FALSE by default): `ScanAgreesWithGet`, which reads the
  query by the meaning of its fields, has to except that key. And each layer counts deletion marks against the limit: with a limit that binds,
  a scan may answer with an older value than get, or miss keys;
* one timestamp ahead of the synchronized time, even within the drift limit,
  makes the next `update_logical_clock` fall back behind it: causality
  (IMPLEMENTATION_COMPLETE.md:100) holds only as `CausalUnlessAhead` says;
* `wait_for_timestamp` is woken by `generate_timestamp` of the same object only;
  `handle_sync_message` throws for TIME_RESPONSE and OFFSET_UPDATE, so that
  messages never change an offset;
* a node the detector has isolated stays so: only a caller of `restore_node`
  brings it back, and nothing calls it (IMPLEMENTATION_COMPLETE.md:90 promises
  automatic recovery). `add_node` of a known node clears its isolated flag but
  leaves it in `isolated_nodes_`;
* `status_` can stay RECOVERING after the quorum is back, when a recorded
  partition is not resolved at the one moment the recovery thread looks;
* under the static, dynamic and witness strategies two sides can both have a
  quorum: `OneQuorumOnly` says for which minimum and witnesses they cannot.
  `dynamic_quorum` is the same as `static_quorum`, its half of the active nodes
  being always there;
* a signal before `is_running_` is set is lost: `stop` returns and `start` goes
  on. A signal during the handling of another, or SIGQUIT during `start`, can
  end in `std::terminate` (a thread still joinable, or joining itself), and
  nested calls of `stop` clean up twice;

* an expired transaction is never cleaned up: `cleanup_expired_transactions`
  calls `abort_transaction` under its own lock, which throws, and the loop
  swallows the exception (`CleanupExpiredTransactions` changes nothing);
* a removed key comes back: `MemTable::get` and `get_from_sstables` answer a
  deletion mark like a missing key, so `get` goes on to the older layers, which
  the mark is there to hide (`memtable.cpp:68`);
* two flushes in one millisecond share a file name and the second replaces the
  first one's data: `FlushKeepsReads` fails as soon as 0 is in `NameStep`;
* `close` joins the background thread without the mutex: an `open` that
  overlaps it can leave a running thread in a closed engine, or a close that
  joins a thread which has been started again. `CloseReturnsUnlessReopened` says
  that this is the only way a close can hang.

### Fairness

Weak fairness of the steps that code takes without waiting for a client: a
sleep of 10 ms in `acquire_lock` ends and the lock manager's mutex, which every
call holds for a bounded time only, is then available; joins of finished
threads return; background threads run, their waits being bounded (1 s, 5 s,
30 s); the main loop of the server looks at `is_running_` every second, and
handlers run to their end or to a join; the search for a cycle waits for
nothing.
No fairness is assumed of client calls, of `open`, of messages, heartbeats,
signals or the passing of time.

## Proofs

`LockManagerProofs` proves, for every set of transactions, keys and threads and
every bound `MaxLockId`, from `NoneAssumption`, `RequestAssumption` and
`MaxLockIdAssumption`:

* `LockTypeCorrect`: `Spec => []TypeOK`;
* `LockIndexesAgree`: `Spec => []IndexesAgree`;
* `LockCompatibility`: `Spec => []HoldersCompatible`;
* `LockNoDeadlock`: `Spec => [](WaitGraphAcyclic /\ DetectFindsNothing)`.

The inductive invariant `LockInv` is their conjunction; none of the last three
is inductive alone. A grant compares the request with the locks `key_locks_`
lists, so compatibility needs the index to be complete (`IndexesAgree`); it asks
only whether the older lock admits the newer, so it needs the matrix to be
symmetric (`CompatibleSymmetric`); the index needs ids not to be reused. For the
graph, `AcyclicWithEdge` says that an edge accepted by a search from its source
closes no cycle, and `AcyclicSubgraph` that erasing edges, whichever a dangling
reference names, closes none either; with an acyclic graph the detection thread
finds nothing (`AcyclicHasNoCycle`). The proofs rest on the closed formula of
`find_cycle_in_wait_graph`, which the next module justifies.

`WaitForSearchProofs` proves of the depth-first search, for every set of
transactions, every graph without loops and every order of the neighbours:

* `SearchTypeCorrect`: `Spec => []TypeOK`;
* `SearchExact`: `Spec => []SearchIsExact`, the answer is the closed formula;
* `PathExact`: `Spec => []PathIsTheCycle`, the path returned is the cycle.

The inductive invariant `SearchInv` says that the path is a walk from the start
that meets no node twice and that `rec_stack` has its nodes (`PathOK`); that
what a call's loop has looked at is finished or is the next node of the path
(`LookedAt`); and that finished nodes have edges to finished nodes only and no
cycle among them (`FinishedOK`), which is why skipping a visited node misses
nothing. An answer "none" finishes the start, so no set of nodes that keeps a
walk going contains it (`NothingMissed`); an answer "cycle" gives such a set,
the path (`PathClosed`). No step needs the set of transactions to be finite.
That the search returns does, and is liveness (`SearchReturns`, TLC).

`TransactionManagerProofs` proves, for any transactions, keys, threads and
nodes, from `NoneAssumption`, `AskedAssumption`, `IsolationAssumption` and
`BoundAssumption`:

* `TransactionsUseLocks`: `Spec => LockManagerSpec`, the refinement;
* `TransactionsIsolated`: compatibility, agreement of the indexes and the
  acyclic wait-for graph of the lock manager hold under the transaction manager;
* `TransactionTypeCorrect`: `Spec => []TypeOK`;
* `RecordedLocksHeld`: `Spec => []HeldLocksAreHeld`;
* `OrphansWereVotedDown`: `Spec => []OrphanLocksOnlyAfterNoVote`;
* `FinishedForGood`: `Spec => FinishedStaysFinished`.

For the refinement every step is shown to be one call of the lock manager or to
leave its variables alone (`LockSteps`); the theorems of `LockManagerProofs` then
carry over by instantiation. The rest follows from `TableInv`. Its two
additions to the properties are `ReadsInFlight`, which says what the calls that
sleep with the manager's mutex may find when they wake up (without it, such a
read could enter a lock for a transaction that is gone), and
`VotesRemembered`, which says that a transaction whose participants voted no is
remembered as such when commit erases it.

`LSMTreeProofs` proves, for any keys, values, closing threads, limits and
movements of the name clock, from `KeyAssumption`, `StoredAssumption`,
`SearchAssumption`, `TimeAssumption`, `LimitAssumption`, `MarkAssumption` and, for
scans, `ScanAssumption`:

* `LSMTypeCorrect`: `Spec => []TypeOK`;
* `ValuesUnderTheirStrings`: `Spec => []GetAnswersItsString`;
* `FlushesKeepReads`: `Spec => FlushKeepsReads`, if every member of `NameStep` is
  positive (`Forward`) and `MaxSSTables >= 2`;
* `ReopensKeepReads`: `HSpec => ReopenKeepsReads` (with the history variable of
  `LSMTreeHistory`), if `Forward`;
* `ScansAgree`: `Spec => []ScanAgreesWithGet`.

`Forward` says that no two files get the same name; without it `FlushKeepsReads`
is false, as said above. `max_sstables_` is 10 in the code (`lsm_tree.cpp:22`).
With a limit of one, a background round that starts without tables could write
two, a left-over immutable memtable and the memtable, and compact both away at
once.
The inductive invariant `LSMInv` has three parts beside the types: every value in
memory, in a file or in the backup lies under its own key (an overwritten file
is read through an index that it does not belong to, which is why the key found
there counts and not the one asked for); no table, file or backup
has a name that is still to come (so that a new file replaces none that a table
reads); and the log is empty, its stream never good, so that `open` recovers
nothing. What
`flush_memtable` and `compact_sstables` do is proved of engine records: a table
written under a new name answers before all older ones and changes none of
their answers (`WriteRead`), moving and dropping memtables keep the answers
(`MoveRead`, `DropRead`). `WrittenRead` says that a table that has just been
written answers with its entries, whatever their keys: its index is made of keys
and sorted.

Reopening needs a second invariant, `FilesInv`, about what the files would answer
to an engine that finds nothing but them (`FilesGet`: the file with the last
name decides). The index of every table is empty, or the one that was written
with the file of its name, or the one that is read from it, in the data directory
as in the backup, and where both have a file it is the same (`FitsBoth`): so a
table answers what its file has (`PlainRead`), as long as no primary key has a
colon and splitting a string undoes joining it (`PlainReread`), also after a
restore under a closed engine's tables. A file with a later name than a table's
has a later table (`Ordered`), when the engine is open or something is expected
of it (`InOrder`), so that what `get` answers from the tables is what the files
answer, although compactions drop tables whose files stay. And what was answered
when `close` finished can be read from the memtables and the files as long as the
engine is closed (`ViewKept`). `open` then loads the files in the order of their
names after the tables that are there (`LoadedInOrder`), and answers the same
(`OpenOrdered`).

For `range_scan` the point is that merging
the first entries of every layer and taking the first of the result is the same
as taking the first of all (`LowestOfPart`, `LowestOfEnough`), and that the one
key that is not asked for comes last (`RangeIsAsked`, `FirstAsked`).

`HybridClockProofs` proves, for every set of drift limits, every set of offsets and
received timestamps and every bound, from the assumptions of `HybridClock`:

* `ClockTypeCorrect`: `Spec => []TypeOK`;
* `ClockDriftBounded`: `Spec => []AheadByDriftAtMost`;
* `ClockCausality`: `Spec => []CausalUnlessAhead`;
* `ClockTimestampsIncrease`: `Spec => TimestampsIncrease`.

The inductive invariant `ClockInv` adds two facts to these: the synchronized
time never exceeds `peak`, without which a merged timestamp, which is compared
with the synchronized time, says nothing about `peak`; and while the history is
tame the clock's physical part is not ahead of the synchronized time, without
which falling back to that time would lose order. `MergedBound` turns the
division of `duration_cast` into the bound of one millisecond over the limit, which
is at most the largest that `update_config` sets. `TimestampsIncrease` counts the
calls of `generate_timestamp` (`calls`), so that one that gave the same timestamp
again would be seen although it changes nothing.

`TimeServiceProofs` proves, for any finite set of nodes, any samples and
configuration, from the assumptions of `TimeService` and `VoterAssumption`:

* `RemovedNodesHaveNoSay`: `Spec => []RemovedNodeIsNotTrusted`;
* `TimeTypeCorrect`: `Spec => []TypeOK`;
* `LocalOffsetInRange`: `Spec => []OffsetWithinSamples`;
* `MedianRobust`: the median of any offsets of finitely many nodes lies in every
  interval that has more than half of them; `MedianRobustChecked` is its
  instance `Spec => []MedianIsRobust`.

`RemovedNodeIsNotTrusted` is not inductive: a second sample of a removed node
would make it trusted. `TrustInv` says why none comes: an entry of a node that
is neither synchronised nor addressed by a caller was made by the round in
progress, is not in `todo` any more and holds one sample. `OffsetWithinSamples`
needs the offsets that the two threads have computed and not yet stored to be in
range as well (`OffsetInv`); that the filter and the median stay in range is
`FilterInRange` and `BerkeleyInRange`. The median rests on `KthValue`: the k-th
value exists, fewer than k values are smaller and at least k are not greater.

`SplitBrainProofs` proves, for every finite set of nodes and any configurations,
from `ConfigsAssumption`, `NodeAssumption`, `MaxMissedAssumption`,
`AgeAssumption` and `MaxCallsAssumption`:

* `OneSideHasQuorum` and `QuorumExclusive`: two disjoint parts of a cluster
  never both have a quorum under a configuration that `OneQuorumOnly` names;
  `NoTwoQuorumsEver` is the form `Spec => []NoTwoQuorums` that the run checks;
* `IsolationReported`: `Spec => []IsolationIsReported`;
* `MajorityKept`: `Spec => []DetectorKeepsMajority`;
* `DetectorTypeCorrect`: `Spec => []TypeOK`.

The quorum rules rest on one count, `DisjointParts`, and on `QuorumHasMinimum`.
The majority is not inductive: between the decision and the last `isolate_node`
the majority there is now may be about to go. `SplitInv` therefore counts it
without the nodes in `todo` (`KeptInv`). That a step keeps it rests on two
counts: `MajorityGrows` (fewer isolated nodes) and `MajorityAdds` (a new node
counts on both sides). The types need one more fact: a node that counts as
alive has not missed all its heartbeats (`AliveOK`), which bounds the counter
when a heartbeat and the detection thread meet without a lock.

`CacheServerProofs` proves, for any number of components and signals, from
`ComponentsAssumption` and `MaxSignalsAssumption`:

* `ServerTypeCorrect`: `Spec => []TypeOK`;
* `AbortNeedsTwoSignals`: `Spec => []AbortOnlyIfHurried`;
* `ExitIsClean`: `Spec => []CleanExit`;
* `ComponentsOutliveStats`: `Spec => []StatsThreadHasComponents`.

`ServerInv` says of every handler on either stack, however many are on top of
it, what its position implies (`FramesOK`), how far start and stop have come
(`Stages`), that a joined thread's components are cleaned up or about to be
(`CleanupDue`), and that without haste there is a single handler, on the main
thread, which does not leave the thread unjoined (`Unhurried`). The last is what
`AbortOnlyIfHurried` needs, the last two are what `CleanExit` needs: at the exit of
a single handler no cleanup is due.

Only model-checked: the liveness properties (fairness is outside the prover's
reach). The two runs that expect a violation show counterexamples.

## Not modelled

* The hotspot manager: `DefaultAccessRecorder`, which its constructor creates,
  and several virtual members of `DefaultHotspotManager` are declared and
  defined nowhere, so no program with it can be linked.
* `TransactionContext`: it forwards to the manager with its own id and only
  restricts the order of calls, which `TransactionManager` leaves open.
* `multi_get` and `multi_put` (loops over get and put);
  `put_if_version_match` and `remove_if_version_match`, which call `get` under
  their own exclusive lock and so always throw on an open engine without
  changing anything; WAL truncation (never called); scans of torn or
  overwritten files; all byte and string formats; CRC-32C.
* Iterating over `nodes_` in the detection thread while another thread inserts
  or erases is undefined behaviour of the container; the models let such a call
  come before or after the iteration. Callbacks of event handlers: the
  repository has no handler.
* Components with headers only (Raft, shards, cluster, service, security,
  monitoring).

## Plan

1. Done: the modules and runs above; theorems for every safety property that
   a passing run checks.
2. Proofs: a version of `FlushesKeepReads` and `ReopensKeepReads` for clocks that
   stand still or step back, as far as they hold without `Forward`: for keys that
   no overwritten file has.
