------------------------------ MODULE LSMTree ------------------------------
(***************************************************************************)
(* LSMTreeEngine (src/src/storage/lsm_tree.cpp) with its MemTable, SSTable *)
(* and WAL.  Each operation holds the engine's mutex_ throughout and is    *)
(* one step, except close, which unlocks to join the background thread,    *)
(* and the rounds of that thread.                                          *)
(*                                                                         *)
(* A table (memtable, or the data of a file) maps a key to a value, to     *)
(* Tombstone (an entry with deleted set), or to Absent.  In a file the     *)
(* keys are strings.  The CHECKPOINT records that a flush appends to the   *)
(* WAL are left out: recovery skips them.                                  *)
(***************************************************************************)
EXTENDS KeyText, FiniteSets

CONSTANTS Stored,         \* the keys that put is called with
          Removed,        \* those that remove is called with
          lower_bound(_, _),  \* std::lower_bound in an index
          Stamp,          \* tells the values of one key apart
          Closer,         \* threads that call close
          Absent,         \* no entry
          Tombstone,      \* a deletion mark
          None,           \* no immutable memtable, no file
          Torn,           \* a file whose writing a crash interrupted
          MemtableLimit,  \* entries at which should_flush answers TRUE
          MaxSSTables,    \* max_sstables_
          NameStep,       \* how the clock moves between two file names (ms)
          MaxTime,        \* bound on the clock, and so on the file names
          MaxTables       \* bound on sstables_, which flush and open extend

ASSUME StoredAssumption == Stored \subseteq Key /\ Removed \subseteq Key

\* A binary search finds what a sorted index has.  (An index is sorted as it is
\* written; keys read back from their strings may be out of order, and then
\* the search may come to any place.)
ASSUME SearchAssumption ==
  \A T \in SUBSET Key : \A k \in T : lower_bound([j \in T |-> j], k) = k

ASSUME TimeAssumption == MaxTime \in Nat /\ MaxTables \in Nat /\ NameStep \subseteq Int
ASSUME LimitAssumption == MemtableLimit \in Nat /\ MaxSSTables \in Nat

VARIABLES
  memtable,         \* memtable_
  immutable,        \* immutable_memtable_, or None
  sstables,         \* sstables_, oldest first: file name and index
  files,            \* the .sst files of the data directory
  now,              \* the time in the file name generated last
  wal,              \* records of wal.log
  wal_good,         \* the WAL's stream has no error flag set
  is_open,          \* is_open_
  stop_background,  \* stop_background_
  background,       \* where background_work is
  closing,          \* where each call of close is
  backup            \* the .sst files of the backup directory

engineVars == <<memtable, immutable, sstables, files, now>>
logVars == <<wal, wal_good>>
lifeVars == <<is_open, stop_background, background, closing>>
vars == <<engineVars, logVars, lifeVars, backup>>

SX == INSTANCE SequencesExt

Time == 1..MaxTime

\* A value carries the key it was put under, for GetAnswersItsString to see.
Value == Key \X Stamp
Table == [Key -> Value \cup {Tombstone, Absent}]
Empty == [k \in Key |-> Absent]

\* What is no value, no table or no file is told from what is one.
ASSUME MarkAssumption ==
  /\ Absent # Tombstone /\ None # Torn
  /\ Absent \notin Value /\ Tombstone \notin Value
  /\ None \notin Table /\ Torn \notin Table

Entries(table) == {k \in Key : table[k] # Absent}

-----------------------------------------------------------------------------
(* Reading                                                                 *)

\* The key that a key is read back as.
Reread == [k \in Key |-> from_string(to_string(k))]

\* An index has for each entry of its file the key to find it by: index_ as
\* SSTable::write leaves it, and as load_index reads it from the file.
written_index(table) == [j \in Entries(table) |-> j]
load_index(table) == [j \in Entries(table) |-> Reread[j]]
NoIndex == [j \in {} |-> j]

\* An empty index (a torn file's) is loaded again.
Index(s) ==
  IF s.index = NoIndex /\ files[s.name] \notin {None, Torn} THEN load_index(files[s.name])
                                                          ELSE s.index

\* The entry at the offset is returned whatever its key string.
read_NoKeyCheckBug(s, k) ==
  LET it == lower_bound(Index(s), k)
      file == files[s.name]
  IN  IF file \in {None, Torn} \/ it \notin DOMAIN Index(s) THEN Absent
      ELSE IF Index(s)[it] # k THEN Absent
      ELSE file[IF it \in Entries(file) THEN it ELSE CHOOSE j \in Entries(file) : TRUE]

\* SSTable::read of table s: the index must have the key, and the entry read
\* at the place it gives must be under the same string.  A file overwritten
\* since under the same name has other entries there (and when one of that
\* string lies elsewhere read may also miss it: no property depends on it).
read(s, k) ==
  LET file == files[s.name]
      index == Index(s)
      it == lower_bound(index, k)
      same == {j \in Entries(file) : to_string(j) = to_string(k)}
  IN  IF file \in {None, Torn} \/ it \notin DOMAIN index THEN Absent
      ELSE IF index[it] # k \/ same = {} THEN Absent
      ELSE file[IF it \in same THEN it ELSE CHOOSE j \in same : TRUE]

\* The tables from newest to oldest that hold a value for k.  A tombstone is
\* answered NOT_FOUND, as is a missing entry: the search goes on.
Hits(k) == {i \in DOMAIN sstables : read(sstables[i], k) \in Value}

get_from_sstables(k) ==
  LET hits == Hits(k)
  IN  IF hits = {} THEN Absent
      ELSE read(sstables[CHOOSE i \in hits : \A j \in hits : j <= i], k)

\* MemTable::get answers OK: a deleted entry is NOT_FOUND.
Found(table, k) == table[k] \in Value

\* get, as the caller sees it.
get(k) ==
  IF Found(memtable, k) THEN memtable[k]
  ELSE IF immutable # None /\ Found(immutable, k) THEN immutable[k]
  ELSE get_from_sstables(k)

-----------------------------------------------------------------------------
(* Writing tables                                                          *)

Engine == [mem |-> memtable, imm |-> immutable, sst |-> sstables,
           files |-> files, now |-> now]

EngineBecomes(e) ==
  /\ memtable' = e.mem
  /\ immutable' = e.imm
  /\ sstables' = e.sst
  /\ files' = e.files
  /\ now' = e.now

\* generate_sstable_filename: the local time in milliseconds.
generate_sstable_filename(t) == {t + d : d \in NameStep} \cap Time

\* SSTable::write of a non-empty table, and push_back.
WriteTable(e, table) ==
  {[e EXCEPT !.sst = Append(@, [name |-> n, index |-> written_index(table)]),
             !.files[n] = table,
             !.now = n] :
     n \in {m \in generate_sstable_filename(e.now) : Len(e.sst) < MaxTables}}

\* The immutable memtable of a failed flush is forgotten.
flush_memtable_DropImmutableBug(e) ==
  IF Entries(e.mem) = {} THEN {e}
  ELSE LET moved == [e EXCEPT !.imm = e.mem, !.mem = Empty]
       IN  {moved} \cup {[w EXCEPT !.imm = None] : w \in WriteTable(moved, moved.imm)}

\* flush_memtable: the engines it can leave.  An immutable memtable left by
\* an earlier failure is written first; then the memtable becomes immutable
\* and is written.  Either file may fail to open, which ends the flush.
flush_memtable(e) ==
  IF Entries(e.mem) = {} THEN {e}
  ELSE LET first == IF e.imm = None THEN {e} ELSE WriteTable(e, e.imm)
           moved == {[f EXCEPT !.imm = f.mem, !.mem = Empty] : f \in first}
           done  == UNION {{[w EXCEPT !.imm = None] : w \in WriteTable(m, m.imm)} :
                            m \in moved}
       IN  (IF e.imm = None THEN {} ELSE {e}) \cup moved \cup done

\* The two tables are moved out but not erased: null pointers stay.
compact_sstables_NoEraseBug(e) ==
  IF Len(e.sst) < 2 THEN e ELSE [e EXCEPT !.sst[1] = None, !.sst[2] = None]

\* compact_sstables takes the two oldest tables out of sstables_ and merges
\* them into a map that nothing is ever put in; SSTable::write refuses an
\* empty map, and the call returns with the two tables gone (their files
\* stay).
compact_sstables(e) ==
  IF Len(e.sst) < 2 THEN e ELSE [e EXCEPT !.sst = SubSeq(@, 3, Len(@))]

should_flush(table) == Cardinality(Entries(table)) >= MemtableLimit

need_compaction(e) == Len(e.sst) > MaxSSTables

-----------------------------------------------------------------------------
(* The log                                                                 *)

\* WAL::append writes through the stream, and does not ask whether it took
\* the record.
WalAppend(record) == wal' = IF wal_good THEN Append(wal, record) ELSE wal

\* WAL::replay_from reads records until the end of the file, which leaves the
\* stream with its error flags set; nothing clears them.
replay_from == [records |-> wal, good |-> FALSE]

\* MemTable::put and MemTable::remove: an entry, or a deletion mark, in place
\* of the key's old one if there is one.  (One too long is refused, and nothing
\* changes.)
MemTablePut(table, k, data) == [table EXCEPT ![k] = data]

\* recover_from_wal: MemTable::put or remove for each record, so that the last
\* of a key decides.
recover_from_wal(table) ==
  LET records == replay_from.records
      Of(k) == {i \in DOMAIN records : records[i].key = k}
  IN  [k \in Key |-> IF Of(k) = {} THEN table[k]
                     ELSE records[CHOOSE i \in Of(k) : \A j \in Of(k) : j <= i].data]

-----------------------------------------------------------------------------
Init ==
  /\ memtable = Empty
  /\ immutable = None
  /\ sstables = <<>>
  /\ files = [n \in Time |-> None]
  /\ now = 0
  /\ wal = <<>>
  /\ wal_good = FALSE
  /\ is_open = FALSE
  /\ stop_background = FALSE
  /\ background = "none"
  /\ closing = [c \in Closer |-> "no"]
  /\ backup = [n \in Time |-> None]

Put(k, n) ==
  /\ is_open
  /\ WalAppend([key |-> k, data |-> <<k, n>>])
  /\ memtable' = MemTablePut(memtable, k, <<k, n>>)
  /\ UNCHANGED <<immutable, sstables, files, now, wal_good, lifeVars, backup>>

\* remove marks the memtable's entry, or inserts a mark.
Remove(k) ==
  /\ is_open
  /\ WalAppend([key |-> k, data |-> Tombstone])
  /\ memtable' = MemTablePut(memtable, k, Tombstone)
  /\ UNCHANGED <<immutable, sstables, files, now, wal_good, lifeVars, backup>>

Flush ==
  /\ is_open
  /\ UNCHANGED <<logVars, lifeVars, backup>>
  /\ \E e \in flush_memtable(Engine) : EngineBecomes(e)

Compact ==
  /\ is_open
  /\ EngineBecomes(compact_sstables(Engine))
  /\ UNCHANGED <<logVars, lifeVars, backup>>

\* The files of a set of names, over what the directory has.
Copied(names, from, to) ==
  [n \in Time |-> IF n \in names THEN from[n] ELSE to[n]]

\* backup copies the file of each table in turn and stops at the first that
\* is missing (a table of before a restore); nothing is flushed first, and
\* files of earlier backups stay.
Backup ==
  /\ is_open
  /\ LET missing == {i \in DOMAIN sstables : files[sstables[i].name] = None}
         copied == {i \in DOMAIN sstables : \A j \in missing : i < j}
     IN  backup' = Copied({sstables[i].name : i \in copied}, files, backup)
  /\ UNCHANGED <<engineVars, logVars, lifeVars>>

\* restore empties the data directory and copies the backup's files, if there
\* are any; a copy that fails, or the end of the process, may stop it half way.
\* What the closed engine has in memory stays.  (The copy of the log is left
\* out of backup: the log never gets a record, see replay_from.)
Restore ==
  /\ ~ is_open
  /\ \E names \in SUBSET {n \in Time : backup[n] # None} :
       files' = Copied(names, backup, [n \in Time |-> None])
  /\ UNCHANGED <<memtable, immutable, sstables, now, logVars, lifeVars, backup>>

-----------------------------------------------------------------------------
(* Lifecycle                                                               *)

\* load_sstables takes the files in another order than their names'.
load_sstables_UnsortedBug(torn) ==
  LET names == {n \in Time : files[n] \notin {None, Torn}} \cup torn
      sorted == [i \in 1..Cardinality(names) |->
                   CHOOSE n \in names : Cardinality({m \in names : m >= n}) = i]
  IN  [i \in DOMAIN sorted |->
         [name |-> sorted[i],
          index |-> IF sorted[i] \in torn THEN NoIndex ELSE load_index(files[sorted[i]])]]

\* load_sstables: the tables of all files whose index can be read, by name.
\* Of a torn file, load_index reads an uninitialized number of index entries:
\* it fails, or answers OK with no key in the index (torn is where it does).
load_sstables(torn) ==
  LET names == {n \in Time : files[n] \notin {None, Torn}} \cup torn
      sorted == [i \in 1..Cardinality(names) |->
                   CHOOSE n \in names : Cardinality({m \in names : m <= n}) = i]
  IN  [i \in DOMAIN sorted |->
         [name |-> sorted[i],
          index |-> IF sorted[i] \in torn THEN NoIndex ELSE load_index(files[sorted[i]])]]

\* open: open and replay the WAL, load the tables, start the thread.  The
\* tables found are added to those the engine still has.
Open ==
  /\ ~ is_open
  /\ background = "none"
  /\ memtable' = recover_from_wal(memtable)
  /\ wal_good' = replay_from.good
  /\ \E torn \in SUBSET {n \in Time : files[n] = Torn} :
       sstables' = sstables \o load_sstables(torn)
  /\ Len(sstables') <= MaxTables
  /\ stop_background' = FALSE
  /\ background' = "loop"
  /\ is_open' = TRUE
  /\ UNCHANGED <<immutable, files, now, wal, closing, backup>>

\* close up to the join: mutex_ is released.
CloseBegin(c) ==
  /\ is_open
  /\ closing[c] = "no"
  /\ stop_background' = TRUE
  /\ closing' = [closing EXCEPT ![c] = "join"]
  /\ UNCHANGED <<engineVars, logVars, is_open, background, backup>>

\* The thread is joined, or was joined by another close.
CloseJoin(c) ==
  /\ closing[c] = "join"
  /\ background = "none"
  /\ closing' = [closing EXCEPT ![c] = "joined"]
  /\ UNCHANGED <<engineVars, logVars, is_open, stop_background, background,
                 backup>>

\* Joining a thread that another close is joining throws; close returns an
\* error.
CloseError(c) ==
  /\ closing[c] = "join"
  /\ \E d \in Closer \ {c} : closing[d] = "join"
  /\ closing' = [closing EXCEPT ![c] = "no"]
  /\ UNCHANGED <<engineVars, logVars, is_open, stop_background, background,
                 backup>>

\* The rest of close, with mutex_ taken again: flush, close the WAL.
CloseEnd(c) ==
  /\ closing[c] = "joined"
  /\ closing' = [closing EXCEPT ![c] = "no"]
  /\ is_open' = FALSE
  /\ UNCHANGED <<logVars, stop_background, background, backup>>
  /\ \E e \in flush_memtable(Engine) : EngineBecomes(e)

\* background_work: wait for a signal or 5s, and leave if told to.
BackgroundWait ==
  /\ background = "loop"
  /\ background' = IF stop_background THEN "none" ELSE "locking"
  /\ UNCHANGED <<engineVars, logVars, is_open, stop_background, closing, backup>>

\* What the thread does with mutex_ held.
BackgroundRound(e) ==
  {IF need_compaction(f) THEN compact_sstables(f) ELSE f :
     f \in IF should_flush(e.mem) THEN flush_memtable(e) ELSE {e}}

\* The join is made with mutex_ held, so the thread cannot get it.
BackgroundWork_LockedOutBug ==
  /\ background = "locking"
  /\ \A c \in Closer : closing[c] = "no"
  /\ \E e \in BackgroundRound(Engine) : EngineBecomes(e)
  /\ background' = "loop"
  /\ UNCHANGED <<logVars, is_open, stop_background, closing, backup>>

BackgroundWork ==
  /\ background = "locking"
  /\ background' = "loop"
  /\ UNCHANGED <<logVars, is_open, stop_background, closing, backup>>
  /\ \E e \in BackgroundRound(Engine) : EngineBecomes(e)

-----------------------------------------------------------------------------
(* The process                                                             *)

\* The engine's memory is gone, with or without a crash.
MemoryLost ==
  /\ memtable' = Empty
  /\ immutable' = None
  /\ sstables' = <<>>
  /\ wal_good' = FALSE
  /\ is_open' = FALSE
  /\ stop_background' = FALSE
  /\ background' = "none"
  /\ closing' = [c \in Closer |-> "no"]
  /\ UNCHANGED <<wal, backup>>

\* The process ends when the engine is closed.  What an earlier failed flush
\* left in memory is lost with it.
Exit ==
  /\ ~ is_open
  /\ background = "none"
  /\ \A c \in Closer : closing[c] = "no"
  /\ MemoryLost
  /\ UNCHANGED <<files, now>>

\* The process dies, perhaps in the middle of SSTable::write.  (open
\* assigning to background_thread_ while the thread runs is one way to die.)
Crash ==
  /\ is_open \/ background # "none" \/ \E c \in Closer : closing[c] # "no"
  /\ MemoryLost
  /\ \/ UNCHANGED <<files, now>>
     \/ /\ Entries(memtable) # {}
        /\ \E n \in generate_sstable_filename(now) :
             /\ files' = [files EXCEPT ![n] = Torn]
             /\ now' = n

Next ==
  \/ \E k \in Stored, n \in Stamp : Put(k, n)
  \/ \E k \in Removed : Remove(k)
  \/ Flush \/ Compact \/ Backup \/ Restore
  \/ Open \/ Exit \/ Crash
  \/ \E c \in Closer : CloseBegin(c) \/ CloseJoin(c) \/ CloseError(c) \/ CloseEnd(c)
  \/ BackgroundWait \/ BackgroundWork

\* The background thread runs (its waits end after 5s at the latest, and no
\* call keeps mutex_), and so does a thread in close.
Fairness ==
  /\ WF_vars(BackgroundWait) /\ WF_vars(BackgroundWork)
  /\ \A c \in Closer : WF_vars(CloseJoin(c)) /\ WF_vars(CloseEnd(c))

Spec == Init /\ [][Next]_vars

FairSpec == Spec /\ Fairness

-----------------------------------------------------------------------------
(* Properties                                                              *)

\* Every variable has its type; in particular sstables_ never holds the null
\* pointer of a table that a compaction has moved out.
TypeOK ==
  /\ memtable \in Table
  /\ immutable \in Table \cup {None}
  /\ sstables \in Seq([name : Time, index : UNION {[T -> Key] : T \in SUBSET Key}])
  /\ files \in [Time -> Table \cup {None, Torn}]
  /\ backup \in [Time -> Table \cup {None, Torn}]
  /\ now \in 0..MaxTime
  /\ wal \in Seq([key : Key, data : Value \cup {Tombstone}])
  /\ wal_good \in BOOLEAN /\ is_open \in BOOLEAN /\ stop_background \in BOOLEAN
  /\ background \in {"none", "loop", "locking"}
  /\ closing \in [Closer -> {"no", "join", "joined"}]

\* get answers with a value that was put under a key of the same string,
\* through overwritten files, torn files, restores over a live engine's tables,
\* crashes and indexes read back from the file: an index never leads into the
\* entry of a key with another string.  (Not of another key: see README.)
GetAnswersItsString ==
  is_open => \A k \in Key :
    get(k) = Absent \/ to_string(get(k)[1]) = to_string(k)

\* A flush, whether asked for, by the background thread or by close, and
\* whether its writes succeed, fail or retry an earlier failure, changes no
\* answer of get.  (A background round that also compacts loses what only the
\* two oldest tables have, see compact_sstables.)
FlushKeepsReads ==
  [][(\/ Flush
      \/ \E c \in Closer : CloseEnd(c)
      \/ BackgroundWork /\ SX!IsPrefix(sstables, sstables'))
       => \A k \in Key : get(k)' = get(k)]_vars

\* close returns: it waits for the background thread without mutex_, which
\* that thread needs to finish its round.  The exception is a close that
\* another close and an open overtake while it has no lock: it joins the new
\* thread, which nobody stops.
CloseReturnsUnlessReopened ==
  \A c \in Closer :
    closing[c] # "no" ~> closing[c] = "no" \/ (is_open /\ ~ stop_background)
=============================================================================
