--------------------------- MODULE LSMTreeHistory ---------------------------
(***************************************************************************)
(* LSMTree with a history variable: what a client was told when close      *)
(* returned, to compare it with what the engine answers later.             *)
(***************************************************************************)
EXTENDS LSMTree

VARIABLE closed_view   \* what get answered when close finished, or None

hvars == <<vars, closed_view>>

HInit ==
  /\ Init
  /\ closed_view = None

\* An engine that another close has closed already answers nothing any more.
HCloseEnd(c) ==
  /\ CloseEnd(c)
  /\ closed_view' = IF is_open THEN [k \in Key |-> get(k)] ELSE closed_view

\* What a failed flush left in memory is not expected to outlive the process.
HExit ==
  /\ Exit
  /\ closed_view' = IF immutable = None /\ Entries(memtable) = {} THEN closed_view
                                                                  ELSE None

\* After a crash or a restore the client expects nothing in particular.
HCrashOrRestore ==
  /\ Crash \/ Restore
  /\ closed_view' = None

HOther ==
  /\ \/ \E k \in Stored, n \in Stamp : Put(k, n)
     \/ \E k \in Removed : Remove(k)
     \/ Flush \/ Compact \/ Backup \/ Open \/ BackgroundWait \/ BackgroundWork
     \/ \E c \in Closer : CloseBegin(c) \/ CloseJoin(c) \/ CloseError(c)
  /\ UNCHANGED closed_view

HNext ==
  \/ \E c \in Closer : HCloseEnd(c)
  \/ HExit \/ HCrashOrRestore \/ HOther

HSpec == HInit /\ [][HNext]_hvars

-----------------------------------------------------------------------------
(* Properties                                                              *)

\* The keys of all entries in the files are the same when they are read back.
PlainFiles(fs) ==
  \A n \in Time : fs[n] \notin {None, Torn} => \A k \in Entries(fs[n]) : Plain(k)

\* A value that get answered when close finished is answered again when the
\* engine, or another one in a new process, opens the same directory: the
\* order of the file names, of sstables_ and of the layers agree, even when
\* tables dropped by a compaction come back, and the keys come back from their
\* strings; provided that no entry's primary key has a colon.
ReopenKeepsReads ==
  [][Open /\ closed_view # None /\ PlainFiles(files)
       => \A k \in Key : closed_view[k] # Absent => get(k)' = closed_view[k]]_hvars
=============================================================================
