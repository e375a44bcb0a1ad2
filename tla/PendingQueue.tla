---------------------------- MODULE PendingQueue ----------------------------
(***************************************************************************)
(* The durable message queue of one Session: core/pending_queue.rs and its *)
(* submodules enqueue, storage, recovery and restore.                      *)
(*                                                                         *)
(* Every operation first calls ensure_available without holding the map    *)
(* lock, then takes that lock, changes the in-memory queue and rewrites    *)
(* the whole file.  The two halves are separate steps here, so another     *)
(* caller may block the store between them.  A write may fail before the   *)
(* rename (nothing changed, the memory is rolled back: the operation is a  *)
(* step that only ends the call) or after it (the new file is visible but  *)
(* the directory entry is not known to be durable: the store is blocked).  *)
(*                                                                         *)
(* Queues of different Sessions share only load_error, so one Session is   *)
(* modelled.  Deliveries are opaque; their text never matters here.        *)
(***************************************************************************)
EXTENDS Integers, Sequences

CONSTANTS
  Deliveries,         \* stable delivery ids
  Callers,            \* threads that call the queue
  None,               \* absence of a delivery, a block, a repair or a scan
  Corrupt             \* a file that does not parse

VARIABLES
  phase,      \* "restoring" until PendingQueues::restore has run, then "up"
  scan,       \* the file content restore has read and not yet inserted
  mem,        \* map[id], Empty when the entry is absent
  disk,       \* what reading the queue file returns now; Empty when missing
  stable,     \* the contents a power loss may leave, disk among them
  blocked,    \* blocked[id]: [kind, expected], or None
  loadError,  \* load_error is set
  ready,      \* callers past ensure_available, before the map lock
  committing, \* delivery whose external commit runs under the map lock
  repair,     \* repair_recovery in progress: [step, block], or None
  early,      \* a request came in while restore was running (see Restart)
  owed,       \* accepted with Ok by their own write, not consumed since
  echoed,     \* accepted with Ok because the id was already queued
  done        \* consumed by an acknowledge or clear that returned Ok

qvars == <<mem, disk, stable, blocked>>
history == <<owed, echoed, done>>
vars ==
  <<phase, scan, qvars, loadError, ready, committing, repair, early, history>>

-----------------------------------------------------------------------------
(* Contents of the queue, in memory or on disk. *)

Empty == [queued |-> <<>>, inFlight |-> None]

Contents == [queued : Seq(Deliveries), inFlight : Deliveries \cup {None}]

Blocks == [kind : {"commit", "rollback"}, expected : Contents]
            \cup [kind : {"corrupt"}, expected : {None}]

Repairs == [step : {"sync", "unblock"}, block : Blocks]

\* None and Corrupt are values of their own, confused with nothing else.
ASSUME NoneAssumption ==
  None \notin Deliveries \cup Contents \cup Blocks \cup Repairs \cup {Corrupt}
ASSUME CorruptAssumption == Corrupt \notin Contents

Queued(q) == {q.queued[i] : i \in 1..Len(q.queued)}

Items(q) == Queued(q) \cup ({q.inFlight} \ {None})

\* What VecDeque::pop_back leaves.
FrontOf(s) == SubSeq(s, 1, Len(s) - 1)

\* The contents a restart may find, and those with the one in memory.
OnDisk == stable \ {Corrupt}
Readable == OnDisk \cup {mem}

PushBack(q, d) == [q EXCEPT !.queued = Append(@, d)]
PushFront(q, d) == [q EXCEPT !.queued = <<d>> \o @]

-----------------------------------------------------------------------------
(* persist_state: the whole content is written to the file, or the file is *)
(* removed when the content is empty.  Removing a missing file succeeds    *)
(* without touching the directory.                                         *)

NothingToRemove(new) == new = Empty /\ disk = Empty

\* Mutants of PersistOk: the directory is not synced at all, or not after
\* the file was removed.
PersistWithoutSync(new) ==
  /\ disk' = new
  /\ stable' = stable \cup {new}

RemoveWithoutSync(new) ==
  /\ disk' = new
  /\ stable' = IF new = Empty THEN stable \cup {new} ELSE {new}

PersistOk(new) ==
  /\ disk' = new
  /\ stable' = IF NothingToRemove(new) THEN stable ELSE {new}

PersistFailsAfter(new) ==
  /\ ~ NothingToRemove(new)
  /\ disk' = new
  /\ stable' = stable \cup {new}

\* The write succeeded: memory, file and directory agree.
Commit(new) ==
  /\ mem' = new
  /\ PersistOk(new)
  /\ UNCHANGED blocked

\* The write became visible and then failed: block_indeterminate.
Indeterminate(new) ==
  /\ mem' = new
  /\ PersistFailsAfter(new)
  /\ blocked' = [kind |-> "commit", expected |-> new]

-----------------------------------------------------------------------------
(* A call: ensure_available, then one of the operations below. *)

Available == blocked = None /\ ~ loadError

\* Nothing makes a caller wait for restore: the server listens before it runs.
EnsureAvailable(c) ==
  /\ c \notin ready
  /\ Available
  /\ ready' = ready \cup {c}
  /\ early' = (early \/ phase = "restoring")
  /\ UNCHANGED <<phase, scan, qvars, loadError, committing, repair, history>>

\* The caller holds the map lock from here to the end of its operation.
Enter(c) ==
  /\ c \in ready
  /\ committing = None
  /\ ready' = ready \ {c}
  /\ UNCHANGED <<phase, scan, loadError, repair, early>>

\* Refusals that change nothing: the delivery is not admitted, the id is not
\* the one in flight, or the write failed before the rename and the memory
\* was rolled back.
Refuse(c) ==
  /\ Enter(c)
  /\ UNCHANGED <<qvars, committing, history>>

\* Bookkeeping of promises.  A delivery enters the file again: whatever was
\* promised about an earlier one with the same id is void.
Accepted(d) == owed' = owed \cup {d} /\ done' = done \ {d}
Doubtful(d) == owed' = owed /\ done' = done \ {d}
Consumed(S) == owed' = owed \ S /\ done' = done \cup S /\ echoed' = echoed \ S
Dropped(S) == owed' = owed \ S /\ done' = done /\ echoed' = echoed \ S

-----------------------------------------------------------------------------
(* enqueue, enqueue_next: the id is new. *)

Fresh(d) == d \notin UNION {Items(q) : q \in Readable}

Enqueue(c, d, new) ==
  /\ Enter(c)
  /\ Fresh(d)
  /\ \/ Commit(new) /\ Accepted(d)
     \/ Indeterminate(new) /\ Doubtful(d)
  /\ UNCHANGED <<committing, echoed>>

EnqueueBack(c, d) == Enqueue(c, d, PushBack(mem, d))
EnqueueNext(c, d) == Enqueue(c, d, PushFront(mem, d))

\* enqueue_existing, and enqueue_existing_committed when the external commit
\* succeeds: the id is already queued, nothing is written, Ok is returned.
EnqueueDuplicate(c, d) ==
  /\ Enter(c)
  /\ d \in Items(mem)
  /\ echoed' = echoed \cup {d}
  /\ UNCHANGED <<qvars, committing, owed, done>>

\* Mutant of EnqueueExisting: a visible but unsynced write is reported as Ok.
EnqueueReportedEarly(c, d) ==
  /\ Enter(c)
  /\ d \notin Items(mem)
  /\ LET new == PushBack(mem, d) IN Commit(new) \/ Indeterminate(new)
  /\ Accepted(d)
  /\ UNCHANGED <<committing, echoed>>

EnqueueExisting(c, d) ==
  /\ Enter(c)
  /\ d \notin Items(mem)
  /\ LET new == PushBack(mem, d) IN
       \/ Commit(new) /\ Accepted(d)
       \/ Indeterminate(new) /\ Doubtful(d)
  /\ UNCHANGED <<committing, echoed>>

\* enqueue_existing_committed: the delivery is written, then the external
\* commit runs before the map lock is given back.
EnqueueCommitted(c, d) ==
  /\ Enter(c)
  /\ d \notin Items(mem)
  /\ Doubtful(d)
  /\ LET new == PushBack(mem, d) IN
       \/ Commit(new) /\ committing' = d
       \/ Indeterminate(new) /\ UNCHANGED committing
  /\ UNCHANGED echoed

\* The outcome of the external commit.  On failure the delivery is popped and
\* the file rewritten; if that write fails too the store is blocked, with the
\* delivery put back when the file still holds it.
ExternalCommitOk ==
  /\ committing # None
  /\ Accepted(committing)
  /\ committing' = None
  /\ UNCHANGED <<phase, scan, qvars, loadError, ready, repair, early, echoed>>

ExternalCommitFails ==
  LET old == [mem EXCEPT !.queued = FrontOf(@)]
      Block(q) == blocked' = [kind |-> "rollback", expected |-> q]
  IN
  /\ committing # None
  /\ \/ Commit(old)
     \/ Block(mem) /\ UNCHANGED <<mem, disk, stable>>
     \/ Block(old) /\ mem' = old /\ PersistFailsAfter(old)
  /\ committing' = None
  /\ UNCHANGED <<phase, scan, loadError, ready, repair, early, history>>

-----------------------------------------------------------------------------
(* claim, acknowledge, release, clear, clear_queued. *)

Claim(c) ==
  /\ Enter(c)
  /\ mem.inFlight = None
  /\ mem.queued # <<>>
  /\ LET new == [queued |-> Tail(mem.queued), inFlight |-> Head(mem.queued)]
     IN Commit(new) \/ Indeterminate(new)
  /\ UNCHANGED <<committing, history>>

Acknowledge(c, d) ==
  /\ Enter(c)
  /\ mem.inFlight = d
  /\ LET new == [mem EXCEPT !.inFlight = None] IN
       \/ Commit(new) /\ Consumed({d})
       \/ Indeterminate(new) /\ Dropped({d})
  /\ UNCHANGED committing

\* Mutant of Release: the delivery goes to the back of the queue.
ReleaseToBack(c, d) ==
  /\ Enter(c)
  /\ mem.inFlight = d
  /\ Commit(PushBack([mem EXCEPT !.inFlight = None], d))
  /\ UNCHANGED <<committing, history>>

Release(c, d) ==
  /\ Enter(c)
  /\ mem.inFlight = d
  /\ LET new == PushFront([mem EXCEPT !.inFlight = None], d)
     IN Commit(new) \/ Indeterminate(new)
  /\ UNCHANGED <<committing, history>>

Clear(c) ==
  /\ Enter(c)
  /\ \/ Commit(Empty) /\ Consumed(Items(mem))
     \/ Indeterminate(Empty) /\ Dropped(Items(mem))
  /\ UNCHANGED committing

\* An absent entry returns before anything is written.
ClearQueued(c) ==
  /\ Enter(c)
  /\ mem # Empty
  /\ LET new == [queued |-> <<>>, inFlight |-> mem.inFlight] IN
       \/ Commit(new) /\ Consumed(Queued(mem))
       \/ Indeterminate(new) /\ Dropped(Queued(mem))
  /\ UNCHANGED committing

-----------------------------------------------------------------------------
(* repair_recovery takes neither the map lock nor ensure_available.  It    *)
(* compares the file with the snapshot of the block, syncs file and        *)
(* directory, and removes the block if its message is still the same one.  *)
(* Two blocks of one kind carry the same message.                          *)

RepairCompare ==
  /\ repair = None
  /\ blocked # None
  /\ blocked.kind # "corrupt"
  /\ disk = blocked.expected
  /\ repair' = [step |-> "sync", block |-> blocked]
  /\ UNCHANGED <<phase, scan, qvars, loadError, ready, committing, early,
                 history>>

RepairSync ==
  /\ repair # None
  /\ repair.step = "sync"
  /\ repair.block.expected = Empty \/ disk # Empty
  /\ stable' = {disk}
  /\ repair' = [repair EXCEPT !.step = "unblock"]
  /\ UNCHANGED <<phase, scan, mem, disk, blocked, loadError, ready,
                 committing, early, history>>

RepairUnblock ==
  /\ repair # None
  /\ repair.step = "unblock"
  /\ blocked # None
  /\ blocked.kind = repair.block.kind
  /\ blocked' = None
  /\ repair' = None
  /\ UNCHANGED <<phase, scan, mem, disk, stable, loadError, ready,
                 committing, early, history>>

\* The sync failed, or the block changed or disappeared: nothing is changed.
RepairFails ==
  /\ repair # None
  /\ repair' = None
  /\ UNCHANGED <<phase, scan, qvars, loadError, ready, committing, early,
                 history>>

-----------------------------------------------------------------------------
(* The process ends at any point and is started again: the memory is gone  *)
(* and the file is what the page cache holds, or after a power loss one of *)
(* the contents that may have reached the disk.                            *)

\* What a request did while restore was running ends with the process, unless
\* it left two contents between which a power loss may still choose; what was
\* promised up to then is void.
Restart ==
  /\ phase' = "restoring"
  /\ scan' = None
  /\ mem' = Empty
  /\ blocked' = None
  /\ loadError' = FALSE
  /\ ready' = {}
  /\ committing' = None
  /\ repair' = None
  /\ early' = (early /\ stable' # {disk'})
  /\ IF early /\ ~ early'
     THEN owed' = {} /\ echoed' = {} /\ done' = {}
     ELSE UNCHANGED history

ProcessCrash ==
  /\ UNCHANGED <<disk, stable>>
  /\ Restart

PowerLoss ==
  /\ disk' \in stable
  /\ stable' = {disk'}
  /\ Restart

\* While the program is down the file may be replaced by something this
\* version cannot parse; what was promised about its content is void.
Damage ==
  /\ phase = "restoring"
  /\ scan = None
  /\ mem = Empty
  /\ ready = {}
  /\ disk' = Corrupt
  /\ stable' = {Corrupt}
  /\ owed' = {} /\ echoed' = {} /\ done' = {}
  /\ UNCHANGED <<phase, scan, mem, blocked, loadError, ready, committing,
                 repair, early>>

\* restore reads the file before it takes the map lock for the insertion, and
\* what it inserts replaces what the memory holds by then.
RestoreRead ==
  /\ phase = "restoring"
  /\ scan = None
  /\ scan' = disk
  /\ UNCHANGED <<phase, qvars, loadError, ready, committing, repair, early,
                 history>>

RestoreInsert ==
  /\ phase = "restoring"
  /\ scan # None
  /\ scan \notin {Empty, Corrupt} => committing = None
  /\ phase' = "up"
  /\ scan' = None
  /\ CASE scan = Corrupt -> /\ blocked' = [kind |-> "corrupt", expected |-> None]
                            /\ UNCHANGED mem
       [] scan = Empty   -> UNCHANGED <<mem, blocked>>
       [] OTHER          -> mem' = scan /\ UNCHANGED blocked
  /\ UNCHANGED <<disk, stable, loadError, ready, committing, repair, early,
                 history>>

\* The directory, or one of its entries, cannot be read: every queue becomes
\* unavailable; after a bad entry restore goes on with the next one.
RestoreError ==
  /\ phase = "restoring"
  /\ scan = None
  /\ loadError' = TRUE
  /\ phase' \in {"restoring", "up"}
  /\ UNCHANGED <<scan, qvars, ready, committing, repair, early, history>>

-----------------------------------------------------------------------------
Init ==
  /\ phase = "restoring"
  /\ scan = None
  /\ mem = Empty
  /\ disk = Empty
  /\ stable = {Empty}
  /\ blocked = None
  /\ loadError = FALSE
  /\ ready = {}
  /\ committing = None
  /\ repair = None
  /\ early = FALSE
  /\ owed = {} /\ echoed = {} /\ done = {}

Operation(c) ==
  \/ EnsureAvailable(c)
  \/ Refuse(c)
  \/ Claim(c)
  \/ Clear(c)
  \/ ClearQueued(c)
  \/ \E d \in Deliveries :
       \/ EnqueueBack(c, d)
       \/ EnqueueNext(c, d)
       \/ EnqueueDuplicate(c, d)
       \/ EnqueueExisting(c, d)
       \/ EnqueueCommitted(c, d)
       \/ Acknowledge(c, d)
       \/ Release(c, d)

Recovery ==
  \/ RepairCompare
  \/ RepairSync
  \/ RepairUnblock
  \/ RepairFails

Lifecycle ==
  \/ ProcessCrash
  \/ PowerLoss
  \/ Damage
  \/ RestoreRead
  \/ RestoreInsert
  \/ RestoreError

Next ==
  \/ \E c \in Callers : Operation(c)
  \/ ExternalCommitOk
  \/ ExternalCommitFails
  \/ Recovery
  \/ Lifecycle

Spec == Init /\ [][Next]_vars

-----------------------------------------------------------------------------
TypeOK ==
  /\ phase \in {"restoring", "up"}
  /\ scan \in Contents \cup {None, Corrupt}
  /\ mem \in Contents
  /\ disk \in Contents \cup {Corrupt}
  /\ stable \subseteq Contents \cup {Corrupt}
  /\ blocked \in Blocks \cup {None}
  /\ loadError \in BOOLEAN
  /\ ready \subseteq Callers
  /\ committing \in Deliveries \cup {None}
  /\ repair \in Repairs \cup {None}
  /\ early \in BOOLEAN
  /\ owed \subseteq Deliveries
  /\ echoed \subseteq Deliveries
  /\ done \subseteq Deliveries

Owed == \A q \in OnDisk : owed \subseteq Items(q)

Done == \A q \in Readable : done \cap Items(q) = {}

Agree ==
  phase = "up" /\ ~ loadError
    => disk = IF blocked # None /\ blocked.kind = "corrupt" THEN Corrupt ELSE mem

\* A delivery the queue accepted with Ok and nobody has consumed is in every
\* content a power loss may leave: no later failure, rollback, repair or
\* restart of any caller loses it (enqueue_inner, persist_state, restore).  A
\* request that comes in while restore is running voids the promise until the
\* program is started again.
OwedDurable == early \/ Owed

\* A delivery whose acknowledge or clear returned Ok is neither in memory nor
\* in any content a restart may find, so it is never replayed; void likewise.
DoneNeverReturns == early \/ Done

\* The two promises as the callers are told them, without that exception: a
\* request before the insertion of restore overwrites the file, or has what
\* it consumed put back.
OwedEver == Owed
DoneEver == Done

\* Once restored, the memory is exactly the visible file, whatever failed in
\* between: rollbacks restore both sides or neither.
SingleTruth == early \/ Agree

Distinct(q) ==
  /\ q.inFlight \notin Queued(q)
  /\ \A i, j \in 1..Len(q.queued) : q.queued[i] = q.queued[j] => i = j

\* No delivery is queued twice, in memory or in any file: a redelivered id
\* (schedule dispatch, background notice, recovery) cannot run twice.
NoDuplicates == \A q \in Readable : Distinct(q)

Line(q) == IF q.inFlight = None THEN q.queued ELSE <<q.inFlight>> \o q.queued

Before(q, a, b) ==
  \E i, j \in 1..Len(Line(q)) : i < j /\ Line(q)[i] = a /\ Line(q)[j] = b

OrderKept ==
  \A a, b \in owed :
    /\ disk # Corrupt /\ disk' # Corrupt
    /\ Before(disk, a, b)
    => ~ Before(disk', b, a)

\* Two accepted deliveries never change places: claiming, releasing,
\* interrupting, failing and restarting keep the order in which they wait.
OrderIsKept == [][early \/ early' \/ OrderKept]_vars

\* A blocked store keeps the exact content its file holds, so the repair that
\* compares the two can lift the block.
BlockIsRepairable ==
  blocked # None /\ blocked.kind # "corrupt" => disk = blocked.expected

\* Ok for an id that was already queued means that delivery is durable.
EchoDurable ==
  \A q \in OnDisk : echoed \subseteq Items(q)

-----------------------------------------------------------------------------
\* What a restart would find of a delivery.
Fate(d) ==
  IF \A q \in OnDisk : d \in Items(q) THEN "in"
  ELSE IF \E q \in OnDisk : d \in Items(q) THEN "unsure" ELSE "out"

Promise == INSTANCE DeliveryPromise
             WITH fate <- [d \in Deliveries |-> Fate(d)], suspended <- early

\* Every step of the queue, failures and restarts included, is one the
\* abstract promise allows: an accepted delivery is lost by no step that is
\* not about it.
ImplementsPromise == Promise!Spec

=============================================================================
