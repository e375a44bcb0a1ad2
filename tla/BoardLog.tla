------------------------------ MODULE BoardLog ------------------------------
(***************************************************************************)
(* What one command of Kanban is made of (kanban/store, Board::apply): the *)
(* projection of the caller, the lock of the event log, the check for      *)
(* drift, the append, and the snapshot, which is written after the lock    *)
(* was given back and is a cache.                                          *)
(*                                                                         *)
(* A projection is the number of events it was folded from.  The stamp of  *)
(* the file (length, mtime, ctime, inode) tells apart any two lengths of   *)
(* the log.                                                                *)
(***************************************************************************)
EXTENDS Naturals

CONSTANTS
  Writers,    \* tasks of one or two processes
  None,
  MaxEvents   \* bound: length of the log

VARIABLES
  log,        \* how many events the log holds
  snap,       \* snapshot.json: what it was folded from, and the stamp it claims
  lock,       \* the holder of the file lock
  at,         \* for each writer: the next step of its command
  base,       \*   the projection it holds
  seen,       \*   what it has read: a snapshot, or the stamp for its own
  late        \* ghost: the log grew since these writers compared their anchor

boardLog == <<log, snap, lock, at, base, seen, late>>

Reading == {"open", "reload"}
Locked == {"drift", "readAgain", "reload", "append"}
Saving == {"anchor", "stamp", "replace"}

Go(w, label) == at' = [at EXCEPT ![w] = label]
Unlock(w) == lock' = IF lock = w THEN None ELSE lock
Return(w) == Go(w, "idle") /\ Unlock(w)
Grows == log < MaxEvents /\ log' = log + 1 /\ late' = late \cup {v \in Writers : at[v] = "stamp"}

\* load_state: the snapshot is read ...
ReadSnapshot(w) ==
  /\ at[w] \in {"idle", "readAgain"}
  /\ seen' = [seen EXCEPT ![w] = snap]
  /\ Go(w, IF at[w] = "idle" THEN "open" ELSE "reload")
  /\ UNCHANGED <<log, snap, lock, base, late>>

\* ... and believed if its stamp is that of the log; else the log is read, and
\* the snapshot saves only the time to fold it.
Believed(s) == IF s # None /\ s.stamp = log THEN s.upto ELSE log

Load(w) ==
  /\ at[w] \in Reading
  /\ base' = [base EXCEPT ![w] = Believed(seen[w])]
  /\ seen' = [seen EXCEPT ![w] = None]
  /\ Go(w, IF at[w] = "open" THEN "opened" ELSE "append")
  /\ UNCHANGED <<log, snap, lock, late>>

\* lock_events; the caller may hold its projection for any time before.
TakeLock(w) ==
  /\ at[w] = "opened" /\ lock = None
  /\ lock' = w
  /\ Go(w, "drift")
  /\ UNCHANGED <<log, snap, base, seen, late>>

LockTimesOut(w) ==
  /\ at[w] = "opened" /\ lock # None
  /\ Return(w)
  /\ UNCHANGED <<log, snap, base, seen, late>>

CheckDrift(w) ==
  /\ at[w] = "drift"
  /\ Go(w, IF base[w] = log THEN "append" ELSE "readAgain")
  /\ UNCHANGED <<log, snap, lock, base, seen, late>>

Refused(w) ==
  /\ at[w] = "append"
  /\ Return(w)
  /\ UNCHANGED <<log, snap, base, seen, late>>

\* append_event_at; then both locks are dropped.
AppendEvent(w) ==
  /\ at[w] = "append" /\ base[w] = log
  /\ Grows
  /\ base' = [base EXCEPT ![w] = @ + 1]
  /\ Go(w, "anchor") /\ Unlock(w)
  /\ UNCHANGED <<snap, seen>>

\* The log is not as the projection says, or the line is written and not synced.
AppendFails(w) ==
  /\ at[w] = "append"
  /\ (base[w] = log /\ Grows) \/ UNCHANGED <<log, late>>
  /\ Return(w)
  /\ UNCHANGED <<snap, base, seen>>

\* Mutant of ReadAnchor: the stamp is taken whatever the log holds.
ReadNoAnchor(w) ==
  /\ at[w] = "anchor"
  /\ Go(w, "stamp")
  /\ late' = late \ {w}
  /\ UNCHANGED <<log, snap, lock, base, seen>>

\* save_snapshot: is the projection that of the log?
ReadAnchor(w) ==
  /\ at[w] = "anchor"
  /\ Go(w, IF base[w] = log THEN "stamp" ELSE "replace")
  /\ late' = late \ {w}
  /\ UNCHANGED <<log, snap, lock, base, seen>>

\* The stamp is that of the log as it is now.
ReadStamp(w) ==
  /\ at[w] = "stamp"
  /\ seen' = [seen EXCEPT ![w] = log]
  /\ Go(w, "replace")
  /\ UNCHANGED <<log, snap, lock, base, late>>

\* The caller may go on with the projection it has (recover_orphans).
Replace(w) ==
  /\ at[w] = "replace"
  /\ snap' = [upto |-> base[w], stamp |-> seen[w], late |-> w \in late]
  /\ seen' = [seen EXCEPT ![w] = None]
  /\ \E next \in {"idle", "opened"} : Go(w, next)
  /\ late' = late \ {w}
  /\ UNCHANGED <<log, lock, base>>

SaveFails(w) ==
  /\ at[w] \in Saving
  /\ seen' = [seen EXCEPT ![w] = None]
  /\ \E next \in {"idle", "opened"} : Go(w, next)
  /\ late' = late \ {w}
  /\ UNCHANGED <<log, snap, lock, base>>

\* The process of the writer dies, or the user deletes the cache.
WriterDies(w) ==
  /\ at[w] # "idle"
  /\ seen' = [seen EXCEPT ![w] = None]
  /\ Return(w)
  /\ late' = late \ {w}
  /\ UNCHANGED <<log, snap, base>>

DeleteSnapshot == snap # None /\ snap' = None /\ UNCHANGED <<log, lock, at, base, seen, late>>

InitBoardLog ==
  /\ log = 0 /\ snap = None /\ lock = None
  /\ at = [w \in Writers |-> "idle"]
  /\ base = [w \in Writers |-> 0]
  /\ seen = [w \in Writers |-> None]
  /\ late = {}

NextBoardLog ==
  \/ \E w \in Writers :
       \/ ReadSnapshot(w) \/ Load(w) \/ TakeLock(w) \/ LockTimesOut(w) \/ CheckDrift(w)
       \/ Refused(w) \/ AppendEvent(w) \/ AppendFails(w)
       \/ ReadAnchor(w) \/ ReadStamp(w) \/ Replace(w) \/ SaveFails(w) \/ WriterDies(w)
  \/ DeleteSnapshot

BoardLogSpec == InitBoardLog /\ [][NextBoardLog]_boardLog

-----------------------------------------------------------------------------
\* The snapshot there is, and those that are being read.
Snapshots == ({snap} \cup {seen[w] : w \in {v \in Writers : at[v] \in Reading}}) \ {None}

\* A snapshot hides events from the one who loads it only if the log grew while
\* it was being saved, between its anchor and its stamp (save_snapshot): a
\* projection that is behind already never gets the stamp of the log.
OnlyLateHides == \A s \in Snapshots : Believed(s) = log \/ s.late

\* "The cache never hides the truth": a load yields the whole log.
CacheNeverHides == Believed(snap) = log
=============================================================================
