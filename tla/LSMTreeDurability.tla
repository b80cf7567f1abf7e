------------------------- MODULE LSMTreeDurability -------------------------
(***************************************************************************)
(* LSMTree with a history variable: what put and remove acknowledged last, *)
(* to compare it with what the engine answers after a crash.               *)
(***************************************************************************)
EXTENDS MCLSMTree

VARIABLE last_op   \* the value put last under a key, Absent when removed or
                   \* never put, None when not known

dvars == <<vars, last_op>>

DInit ==
  /\ Init
  /\ last_op = [k \in Key |-> Absent]

DPut(k, n) ==
  /\ Put(k, n)
  /\ last_op' = [last_op EXCEPT ![k] = <<k, n>>]

DRemove(k) ==
  /\ Remove(k)
  /\ last_op' = [last_op EXCEPT ![k] = Absent]

\* After a restore the client expects nothing in particular.
DRestore ==
  /\ Restore
  /\ last_op' = [k \in Key |-> None]

DOther ==
  /\ \/ Flush \/ Compact \/ Backup \/ Open \/ Exit \/ Crash
     \/ BackgroundWait \/ BackgroundWork
     \/ \E c \in Closer : CloseBegin(c) \/ CloseJoin(c) \/ CloseError(c) \/ CloseEnd(c)
  /\ UNCHANGED last_op

DNext ==
  \/ \E k \in Stored, n \in Stamp : DPut(k, n)
  \/ \E k \in Removed : DRemove(k)
  \/ DRestore \/ DOther

DSpec == DInit /\ [][DNext]_dvars

-----------------------------------------------------------------------------
\* The log makes a write survive a crash: after the next open, get answers
\* the value that put acknowledged last.
LoggedWritesSurvive ==
  [][Open => \A k \in Key : last_op[k] \in Value => get(k)' = last_op[k]]_dvars
=============================================================================
