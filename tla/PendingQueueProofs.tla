------------------------- MODULE PendingQueueProofs -------------------------
(***************************************************************************)
(* The promise of the durable queue, proved for every set of deliveries    *)
(* and callers.                                                            *)
(***************************************************************************)
EXTENDS PendingQueue, TLAPS

CorruptQueue == blocked # None /\ blocked.kind = "corrupt"

\* No operation and no repair is under way while the queue is being restored
\* or when it could not be read, and then no failed commit blocks it.
Quiet ==
  /\ phase = "restoring" \/ loadError \/ CorruptQueue
       => ready = {} /\ committing = None /\ repair = None
  /\ loadError => blocked = None \/ CorruptQueue

Restoring ==
  phase = "restoring" =>
    /\ mem = Empty
    /\ blocked = None
    /\ scan \in {None, disk}

\* The delivery whose external commit runs is the last one queued, is durable,
\* and is promised to nobody yet.
CommittingIsLast ==
  committing # None =>
    /\ mem.queued # <<>>
    /\ mem.queued[Len(mem.queued)] = committing
    /\ committing \notin owed
    /\ \A q \in OnDisk : committing \in Items(q)

IInv ==
  /\ TypeOK
  /\ disk \in stable
  /\ Owed
  /\ Done
  /\ NoDuplicates
  /\ Agree
  /\ Quiet
  /\ Restoring
  /\ CommittingIsLast

-----------------------------------------------------------------------------
(* What the operations on the content return. *)

LEMMA EmptyContent ==
  /\ Empty \in Contents
  /\ Items(Empty) = {}
  /\ Distinct(Empty)
  /\ Queued(Empty) = {}
BY NoneAssumption DEF Empty, Contents, Items, Queued, Distinct

\* Only the empty content holds nothing.
LEMMA EmptyItems ==
  ASSUME NEW q \in Contents, Items(q) = {}
  PROVE  q = Empty
<1>1. q.inFlight = None
  BY DEF Items, Contents
<1>2. Len(q.queued) = 0
  <2>1. Len(q.queued) \in Nat
    BY DEF Contents
  <2>2. \A i \in 1..Len(q.queued) : q.queued[i] \in Items(q)
    BY DEF Items, Queued
  <2>3. 1 \notin 1..Len(q.queued)
    BY <2>2
  <2> QED
    BY <2>1, <2>3
<1>3. q.queued = <<>>
  BY <1>2 DEF Contents
<1> QED
  BY <1>1, <1>3 DEF Contents, Empty

LEMMA PushBackContent ==
  ASSUME NEW q \in Contents, NEW d \in Deliveries
  PROVE  /\ PushBack(q, d) \in Contents
         /\ Items(PushBack(q, d)) = Items(q) \cup {d}
         /\ PushBack(q, d).queued # <<>>
         /\ PushBack(q, d).queued[Len(PushBack(q, d).queued)] = d
         /\ Distinct(q) /\ d \notin Items(q) => Distinct(PushBack(q, d))
<1> DEFINE p == PushBack(q, d)
<1>1. /\ p.queued = Append(q.queued, d)
      /\ p.inFlight = q.inFlight
      /\ p \in Contents
  BY DEF PushBack, Contents
<1> HIDE DEF p
<1>2. /\ Len(p.queued) = Len(q.queued) + 1
      /\ Len(q.queued) \in Nat
      /\ p.queued[Len(p.queued)] = d
      /\ \A i \in 1..Len(q.queued) : p.queued[i] = q.queued[i]
  BY <1>1 DEF Contents
<1>3. Queued(p) = Queued(q) \cup {d}
  BY <1>2 DEF Queued
<1>4. Items(p) = Items(q) \cup {d}
  BY <1>1, <1>3, NoneAssumption DEF Items
<1>5. ASSUME Distinct(q), d \notin Items(q)
      PROVE  Distinct(p)
  <2>1. p.inFlight \notin Queued(p)
    BY <1>1, <1>3, <1>5, NoneAssumption DEF Distinct, Items
  <2>2. \A i \in 1..Len(q.queued) : q.queued[i] # d
    BY <1>5 DEF Items, Queued
  <2>3. ASSUME NEW i \in 1..Len(p.queued), NEW j \in 1..Len(p.queued),
               p.queued[i] = p.queued[j]
        PROVE  i = j
    <3>1. CASE i = Len(p.queued) \/ j = Len(p.queued)
      BY <1>2, <2>2, <2>3, <3>1
    <3>2. CASE i # Len(p.queued) /\ j # Len(p.queued)
      <4>1. i \in 1..Len(q.queued) /\ j \in 1..Len(q.queued)
        BY <1>2, <3>2
      <4>2. q.queued[i] = q.queued[j]
        BY <1>2, <2>3, <4>1
      <4> QED
        BY <1>5, <4>1, <4>2 DEF Distinct
    <3> QED
      BY <3>1, <3>2
  <2> QED
    BY <2>1, <2>3 DEF Distinct
<1>6. p.queued # <<>>
  BY <1>2
<1> QED
  BY <1>1, <1>2, <1>4, <1>5, <1>6 DEF p

LEMMA PushFrontContent ==
  ASSUME NEW q \in Contents, NEW d \in Deliveries
  PROVE  /\ PushFront(q, d) \in Contents
         /\ Items(PushFront(q, d)) = Items(q) \cup {d}
         /\ PushFront(q, d).inFlight = q.inFlight
         /\ Distinct(q) /\ d \notin Items(q) => Distinct(PushFront(q, d))
<1> DEFINE p == PushFront(q, d)
<1>1. /\ p.queued = <<d>> \o q.queued
      /\ p.inFlight = q.inFlight
      /\ p \in Contents
  <2>1. q.queued \in Seq(Deliveries) /\ <<d>> \in Seq(Deliveries)
    BY DEF Contents
  <2>2. <<d>> \o q.queued \in Seq(Deliveries)
    BY <2>1
  <2> QED
    BY <2>2 DEF PushFront, Contents
<1> HIDE DEF p
<1>2. /\ Len(p.queued) = Len(q.queued) + 1
      /\ Len(q.queued) \in Nat
      /\ p.queued[1] = d
      /\ \A i \in 1..Len(p.queued) : i # 1 => p.queued[i] = q.queued[i - 1]
  <2>1. q.queued \in Seq(Deliveries) /\ <<d>> \in Seq(Deliveries)
    BY DEF Contents
  <2>2. Len(<<d>>) = 1 /\ <<d>>[1] = d
    OBVIOUS
  <2> QED
    BY <1>1, <2>1, <2>2
<1>3. Queued(p) = Queued(q) \cup {d}
  <2>1. Queued(p) \subseteq Queued(q) \cup {d}
    BY <1>2 DEF Queued
  <2>2. ASSUME NEW i \in 1..Len(q.queued)
        PROVE  q.queued[i] \in Queued(p)
    <3>1. i + 1 \in 1..Len(p.queued) /\ i + 1 # 1 /\ (i + 1) - 1 = i
      BY <1>2
    <3>2. p.queued[i + 1] = q.queued[i]
      BY <1>2, <3>1
    <3> QED
      BY <3>1, <3>2 DEF Queued
  <2>3. d \in Queued(p)
    BY <1>2 DEF Queued
  <2> QED
    BY <2>1, <2>2, <2>3 DEF Queued
<1>4. Items(p) = Items(q) \cup {d}
  BY <1>1, <1>3, NoneAssumption DEF Items
<1>5. ASSUME Distinct(q), d \notin Items(q)
      PROVE  Distinct(p)
  <2>1. p.inFlight \notin Queued(p)
    BY <1>1, <1>3, <1>5, NoneAssumption DEF Distinct, Items
  <2>2. \A i \in 1..Len(q.queued) : q.queued[i] # d
    BY <1>5 DEF Items, Queued
  <2>3. ASSUME NEW i \in 1..Len(p.queued), NEW j \in 1..Len(p.queued),
               p.queued[i] = p.queued[j]
        PROVE  i = j
    <3> DEFINE At(k) == k - 1 \in 1..Len(q.queued)
    <3>1. \A k \in 1..Len(p.queued) : k # 1 => At(k)
      BY <1>2
    <3>2. CASE i = 1 \/ j = 1
      BY <1>2, <2>2, <2>3, <3>1, <3>2
    <3>3. CASE i # 1 /\ j # 1
      <4>1. i - 1 \in 1..Len(q.queued) /\ j - 1 \in 1..Len(q.queued)
        BY <3>1, <3>3
      <4>2. q.queued[i - 1] = q.queued[j - 1]
        BY <1>2, <2>3, <3>3
      <4> QED
        BY <1>5, <4>1, <4>2 DEF Distinct
    <3> QED
      BY <3>2, <3>3
  <2> QED
    BY <2>1, <2>3 DEF Distinct
<1> QED
  BY <1>1, <1>4, <1>5 DEF p

\* claim: the same deliveries, one of them in flight.
LEMMA ClaimContent ==
  ASSUME NEW q \in Contents, q.inFlight = None, q.queued # <<>>, Distinct(q)
  PROVE  LET p == [queued |-> Tail(q.queued), inFlight |-> Head(q.queued)] IN
         /\ p \in Contents
         /\ Items(p) = Items(q)
         /\ Distinct(p)
<1> DEFINE p == [queued |-> Tail(q.queued), inFlight |-> Head(q.queued)]
<1>1. /\ p.queued = Tail(q.queued)
      /\ p.inFlight = q.queued[1]
      /\ Len(q.queued) \in Nat \ {0}
      /\ q.queued[1] \in Deliveries
      /\ p \in Contents
  BY DEF Contents
<1>2. /\ Len(p.queued) = Len(q.queued) - 1
      /\ \A i \in 1..Len(p.queued) : p.queued[i] = q.queued[i + 1]
  BY <1>1 DEF Contents
<1>3. Queued(q) = Queued(p) \cup {p.inFlight}
  <2>1. Queued(p) \cup {p.inFlight} \subseteq Queued(q)
    BY <1>1, <1>2 DEF Queued
  <2>2. ASSUME NEW i \in 1..Len(q.queued), i # 1
        PROVE  q.queued[i] \in Queued(p)
    <3>1. i - 1 \in 1..Len(p.queued) /\ (i - 1) + 1 = i
      BY <1>1, <1>2, <2>2
    <3> QED
      BY <1>2, <3>1 DEF Queued
  <2> QED
    BY <1>1, <2>1, <2>2 DEF Queued
<1>4. Items(p) = Items(q)
  BY <1>1, <1>3, NoneAssumption DEF Items
<1>5. Distinct(p)
  BY <1>1, <1>2 DEF Distinct, Queued
<1> QED
  BY <1>1, <1>4, <1>5

\* acknowledge and release begin by taking the delivery out of in_flight.
LEMMA TakenContent ==
  ASSUME NEW q \in Contents, Distinct(q), q.inFlight # None
  PROVE  LET p == [q EXCEPT !.inFlight = None] IN
         /\ p \in Contents
         /\ Items(p) = Items(q) \ {q.inFlight}
         /\ Distinct(p)
<1> DEFINE p == [q EXCEPT !.inFlight = None]
<1>1. /\ p.queued = q.queued
      /\ p.inFlight = None
      /\ p \in Contents
  BY DEF Contents
<1>2. Queued(p) = Queued(q) /\ None \notin Queued(q)
  BY <1>1, NoneAssumption DEF Queued, Contents
<1>3. Items(p) = Items(q) \ {q.inFlight}
  BY <1>1, <1>2 DEF Items, Distinct
<1>4. Distinct(p)
  BY <1>1, <1>2 DEF Distinct
<1> QED
  BY <1>1, <1>3, <1>4

\* clear_queued keeps the delivery in flight.
LEMMA ClearedContent ==
  ASSUME NEW q \in Contents, Distinct(q)
  PROVE  LET p == [queued |-> <<>>, inFlight |-> q.inFlight] IN
         /\ p \in Contents
         /\ Items(p) = Items(q) \ Queued(q)
         /\ Distinct(p)
<1> DEFINE p == [queued |-> <<>>, inFlight |-> q.inFlight]
<1>1. /\ p.queued = <<>>
      /\ p.inFlight = q.inFlight
      /\ p \in Contents
  BY DEF Contents
<1> HIDE DEF p
<1>2. Len(p.queued) = 0
  BY <1>1
<1>3. Queued(p) = {}
  BY <1>2 DEF Queued
<1>4. Items(p) = Items(q) \ Queued(q)
  BY <1>1, <1>3 DEF Items, Distinct
<1>5. Distinct(p)
  BY <1>2, <1>3 DEF Distinct
<1> QED
  BY <1>1, <1>4, <1>5 DEF p

\* The rollback after a failed external commit: only the last delivery goes.
LEMMA PoppedContent ==
  ASSUME NEW q \in Contents, Distinct(q), q.queued # <<>>
  PROVE  LET p == [q EXCEPT !.queued = FrontOf(@)]
             last == q.queued[Len(q.queued)]
         IN
         /\ p \in Contents
         /\ Items(p) = Items(q) \ {last}
         /\ Distinct(p)
<1> DEFINE front == SubSeq(q.queued, 1, Len(q.queued) - 1)
           p == [q EXCEPT !.queued = front]
           last == q.queued[Len(q.queued)]
<1>1. /\ q.queued \in Seq(Deliveries)
      /\ Len(q.queued) \in Nat \ {0}
      /\ last \in Deliveries
  BY DEF Contents
<1>2. /\ front \in Seq(Deliveries)
      /\ Len(front) = Len(q.queued) - 1
      /\ \A i \in 1..Len(front) : front[i] = q.queued[i]
  BY <1>1
<1> HIDE DEF front
<1>3. /\ p \in Contents
      /\ p.queued = front
      /\ p.inFlight = q.inFlight
  BY <1>2 DEF Contents
<1> HIDE DEF p
<1>4. \A i \in 1..Len(front) : i \in 1..Len(q.queued) /\ i # Len(q.queued)
  BY <1>1, <1>2
<1>5. Queued(p) = Queued(q) \ {last}
  <2>1. \A i \in 1..Len(front) : front[i] # last
    BY <1>1, <1>2, <1>4 DEF Distinct
  <2>2. \A i \in 1..Len(q.queued) : i # Len(q.queued) => i \in 1..Len(front)
    BY <1>1, <1>2
  <2>3. Queued(p) = {front[i] : i \in 1..Len(front)}
    BY <1>3 DEF Queued
  <2>4. Queued(q) \subseteq Queued(p) \cup {last}
    BY <1>2, <2>2, <2>3 DEF Queued
  <2>5. Queued(p) \subseteq Queued(q) \ {last}
    BY <1>2, <1>4, <2>1, <2>3 DEF Queued
  <2>6. last \notin Queued(p)
    BY <2>5
  <2> QED
    BY <2>4, <2>5, <2>6
<1>6. last # q.inFlight
  BY <1>1 DEF Distinct, Queued
<1>7. Items(p) = Items(q) \ {last}
  BY <1>1, <1>3, <1>5, <1>6, NoneAssumption DEF Items
<1>8. Distinct(p)
  <2>1. \A i, j \in 1..Len(front) : front[i] = front[j] => i = j
    BY <1>2, <1>4 DEF Distinct
  <2> QED
    BY <1>3, <1>5, <2>1 DEF Distinct
<1> QED
  BY <1>3, <1>7, <1>8 DEF p, front, FrontOf

-----------------------------------------------------------------------------
(* What is known when an operation holds the map lock. *)

LEMMA Held ==
  ASSUME IInv, NEW c \in Callers, Enter(c)
  PROVE  /\ phase = "up" /\ ~ loadError /\ ~ CorruptQueue
         /\ committing = None
         /\ ready' \subseteq Callers
         /\ UNCHANGED <<phase, scan, loadError, repair, early>>
<1>1. ready # {}
  BY DEF Enter
<1> QED
  BY <1>1 DEF IInv, Quiet, Enter, TypeOK

LEMMA MemoryIsDisk ==
  ASSUME IInv, phase = "up", ~ loadError, ~ CorruptQueue
  PROVE  /\ disk = mem
         /\ mem \in Contents
         /\ mem \in OnDisk
         /\ owed \subseteq Items(mem)
         /\ done \cap Items(mem) = {}
         /\ Distinct(mem)
<1>1. disk = mem /\ mem \in Contents
  BY DEF IInv, Agree, CorruptQueue, TypeOK
<1>2. mem \in OnDisk
  BY <1>1, CorruptAssumption DEF IInv, OnDisk
<1> QED
  BY <1>1, <1>2 DEF IInv, Owed, Done, NoDuplicates, Readable

\* A write that succeeded: what is promised afterwards is in the new content,
\* what is done is not.
LEMMA CommitKeeps ==
  ASSUME IInv, NEW new \in Contents, Distinct(new), Commit(new),
         owed' \subseteq Items(new), done' \cap Items(new) = {},
         NothingToRemove(new) => owed' \subseteq owed /\ done' \subseteq done
  PROVE  /\ Owed' /\ Done' /\ NoDuplicates'
         /\ disk' \in stable'
         /\ mem' = new /\ disk' = new /\ blocked' = blocked
         /\ stable' \subseteq Contents \cup {Corrupt}
<1>1. mem' = new /\ disk' = new /\ blocked' = blocked
  BY DEF Commit, PersistOk
<1>2. CASE NothingToRemove(new)
  <2>1. stable' = stable
    BY <1>2 DEF Commit, PersistOk
  <2> QED
    BY <1>1, <1>2, <2>1
    DEF IInv, TypeOK, NothingToRemove, Owed, Done,
        NoDuplicates, Readable, OnDisk
<1>3. CASE ~ NothingToRemove(new)
  <2>1. stable' = {new}
    BY <1>3 DEF Commit, PersistOk
  <2> QED
    BY <1>1, <2>1
    DEF Owed, Done, NoDuplicates, Readable, OnDisk
<1> QED
  BY <1>2, <1>3

\* A write that became visible and failed: nothing new is promised.
LEMMA VisibleKeeps ==
  ASSUME IInv, NEW new \in Contents, Distinct(new),
         mem' = new, PersistFailsAfter(new),
         owed' \subseteq owed \cap Items(new),
         done' \subseteq done, done' \cap Items(new) = {}
  PROVE  /\ Owed' /\ Done' /\ NoDuplicates'
         /\ disk' \in stable'
         /\ disk' = new
         /\ stable' \subseteq Contents \cup {Corrupt}
<1>1. disk' = new /\ stable' = stable \cup {new}
  BY DEF PersistFailsAfter
<1> QED
  BY <1>1
  DEF IInv, TypeOK, Owed, Done, NoDuplicates, Readable,
      OnDisk

\* Both outcomes of a write, with everything an operation leaves alone.
LEMMA WriteKeeps ==
  ASSUME IInv, phase = "up", ~ loadError, ~ CorruptQueue,
         UNCHANGED <<phase, scan, loadError, repair, early>>,
         ready' \subseteq Callers,
         committing' \in Deliveries \cup {None}, CommittingIsLast',
         echoed' \subseteq Deliveries, owed' \subseteq Deliveries,
         done' \subseteq Deliveries,
         NEW new \in Contents, Distinct(new), done' \cap Items(new) = {},
         \/ /\ Commit(new)
            /\ owed' \subseteq Items(new)
            /\ NothingToRemove(new) => owed' \subseteq owed /\ done' \subseteq done
         \/ /\ Indeterminate(new)
            /\ owed' \subseteq owed \cap Items(new)
            /\ done' \subseteq done
  PROVE  IInv'
<1>1. CASE Commit(new) /\ owed' \subseteq Items(new)
           /\ (NothingToRemove(new) => owed' \subseteq owed /\ done' \subseteq done)
  <2>1. /\ Owed' /\ Done' /\ NoDuplicates'
        /\ disk' \in stable'
        /\ mem' = new /\ disk' = new /\ blocked' = blocked
        /\ stable' \subseteq Contents \cup {Corrupt}
    BY <1>1, CommitKeeps
  <2>2. TypeOK'
    BY <2>1 DEF IInv, TypeOK
  <2>3. Agree' /\ Quiet' /\ Restoring'
    BY <2>1 DEF IInv, Agree, Quiet, Restoring, CorruptQueue
  <2> QED
    BY <2>1, <2>2, <2>3 DEF IInv
<1>2. CASE Indeterminate(new) /\ owed' \subseteq owed \cap Items(new)
           /\ done' \subseteq done
  <2>1. mem' = new /\ PersistFailsAfter(new)
        /\ blocked' = [kind |-> "commit", expected |-> new]
    BY <1>2 DEF Indeterminate
  <2>2. /\ Owed' /\ Done' /\ NoDuplicates'
        /\ disk' \in stable'
        /\ disk' = new
        /\ stable' \subseteq Contents \cup {Corrupt}
    BY <1>2, <2>1, VisibleKeeps
  <2>3. TypeOK'
    BY <2>1, <2>2 DEF IInv, TypeOK, Blocks
  <2>4. Agree' /\ Quiet' /\ Restoring'
    BY <2>1, <2>2 DEF IInv, Agree, Quiet, Restoring, CorruptQueue
  <2> QED
    BY <2>1, <2>2, <2>3, <2>4 DEF IInv
<1> QED
  BY <1>1, <1>2

-----------------------------------------------------------------------------
(* One lemma per group of actions. *)

LEMMA InitIInv == Init => IInv
BY EmptyContent
DEF Init, IInv, TypeOK, Blocks, Repairs, Owed, Done,
    NoDuplicates, Readable, OnDisk, Agree, Quiet, Restoring,
    CommittingIsLast, CorruptQueue

LEMMA EnsureAvailableKeeps ==
  ASSUME IInv, NEW c \in Callers, EnsureAvailable(c), phase = "up"
  PROVE  IInv'
BY DEF EnsureAvailable, Available, IInv, TypeOK, qvars, history, Owed,
       Done, NoDuplicates, Readable, OnDisk, Agree, Quiet,
       Restoring, CommittingIsLast, CorruptQueue

LEMMA RefuseKeeps ==
  ASSUME IInv, NEW c \in Callers, Refuse(c)
  PROVE  IInv'
BY DEF Refuse, Enter, IInv, TypeOK, qvars, history, Owed,
       Done, NoDuplicates, Readable, OnDisk, Agree, Quiet,
       Restoring, CommittingIsLast, CorruptQueue

LEMMA EnqueueKeeps ==
  ASSUME IInv,
         NEW c \in Callers, NEW d \in Deliveries,
         EnqueueBack(c, d) \/ EnqueueNext(c, d) \/ EnqueueExisting(c, d)
  PROVE  IInv'
<1>1. /\ Enter(c) /\ d \notin Items(mem)
      /\ UNCHANGED <<committing, echoed>>
  BY DEF EnqueueBack, EnqueueNext, EnqueueExisting, Enqueue, Fresh, Readable
<1>2. /\ phase = "up" /\ ~ loadError /\ ~ CorruptQueue
      /\ committing = None
      /\ ready' \subseteq Callers
      /\ UNCHANGED <<phase, scan, loadError, repair, early>>
  BY <1>1, Held
<1>3. /\ mem \in Contents
      /\ owed \subseteq Items(mem)
      /\ done \cap Items(mem) = {}
      /\ Distinct(mem)
  BY <1>2, MemoryIsDisk
<1>4. PICK new \in {PushBack(mem, d), PushFront(mem, d)} :
        \/ Commit(new) /\ Accepted(d)
        \/ Indeterminate(new) /\ Doubtful(d)
  BY DEF EnqueueBack, EnqueueNext, EnqueueExisting, Enqueue
<1>5. new \in Contents /\ Distinct(new) /\ Items(new) = Items(mem) \cup {d}
  BY <1>1, <1>3, <1>4, PushBackContent, PushFrontContent
<1>6. ~ NothingToRemove(new)
  BY <1>5, EmptyContent DEF NothingToRemove
<1>7. /\ done' = done \ {d}
      /\ owed' \in {owed, owed \cup {d}}
      /\ Indeterminate(new) => owed' = owed \/ Commit(new)
  BY <1>4 DEF Accepted, Doubtful
<1>8. /\ owed' \subseteq Deliveries /\ done' \subseteq Deliveries
      /\ echoed' \subseteq Deliveries
      /\ committing' \in Deliveries \cup {None} /\ CommittingIsLast'
  BY <1>1, <1>2, <1>7 DEF IInv, TypeOK, CommittingIsLast
<1>9. /\ owed' \subseteq Items(new)
      /\ done' \cap Items(new) = {}
  BY <1>3, <1>5, <1>7
<1>10. CASE Commit(new)
  BY <1>2, <1>5, <1>6, <1>8, <1>9, <1>10, WriteKeeps
<1>11. CASE Indeterminate(new) /\ Doubtful(d)
  <2>1. owed' \subseteq owed \cap Items(new) /\ done' \subseteq done
    BY <1>7, <1>9, <1>11 DEF Doubtful
  <2> QED
    BY <1>2, <1>5, <1>8, <1>9, <1>11, <2>1, WriteKeeps
<1> QED
  BY <1>4, <1>10, <1>11

LEMMA EnqueueDuplicateKeeps ==
  ASSUME IInv, NEW c \in Callers, NEW d \in Deliveries,
         EnqueueDuplicate(c, d)
  PROVE  IInv'
BY DEF EnqueueDuplicate, Enter, IInv, TypeOK, qvars, Owed,
       Done, NoDuplicates, Readable, OnDisk, Agree, Quiet,
       Restoring, CommittingIsLast, CorruptQueue

LEMMA EnqueueCommittedKeeps ==
  ASSUME IInv,
         NEW c \in Callers, NEW d \in Deliveries, EnqueueCommitted(c, d)
  PROVE  IInv'
<1> DEFINE new == PushBack(mem, d)
<1>1. /\ Enter(c) /\ d \notin Items(mem) /\ Doubtful(d)
      /\ \/ Commit(new) /\ committing' = d
         \/ Indeterminate(new) /\ UNCHANGED committing
      /\ UNCHANGED echoed
  BY DEF EnqueueCommitted
<1>2. /\ phase = "up" /\ ~ loadError /\ ~ CorruptQueue
      /\ committing = None
      /\ ready' \subseteq Callers
      /\ UNCHANGED <<phase, scan, loadError, repair, early>>
  BY <1>1, Held
<1>3. /\ mem \in Contents
      /\ owed \subseteq Items(mem)
      /\ done \cap Items(mem) = {}
      /\ Distinct(mem)
  BY <1>2, MemoryIsDisk
<1>4. /\ new \in Contents /\ Distinct(new) /\ Items(new) = Items(mem) \cup {d}
      /\ new.queued # <<>> /\ new.queued[Len(new.queued)] = d
  BY <1>1, <1>3, PushBackContent
<1>5. ~ NothingToRemove(new)
  BY <1>4, EmptyContent DEF NothingToRemove
<1>6. mem' = new
  BY <1>1 DEF Commit, Indeterminate
<1> HIDE DEF new
<1>7. /\ committing' \in Deliveries \cup {None}
      /\ CommittingIsLast'
  <2>1. CASE Indeterminate(new) /\ UNCHANGED committing
    BY <1>2, <2>1 DEF CommittingIsLast
  <2>2. CASE Commit(new) /\ committing' = d
    <3>1. stable' = {new}
      BY <1>5, <2>2 DEF Commit, PersistOk
    <3>2. d \notin owed'
      BY <1>1, <1>3 DEF Doubtful
    <3> QED
      BY <1>4, <1>6, <2>2, <3>1, <3>2 DEF CommittingIsLast, OnDisk
  <2> QED
    BY <1>1, <2>1, <2>2
<1>8. /\ owed' = owed /\ done' \subseteq done
      /\ owed' \subseteq Deliveries /\ done' \subseteq Deliveries
      /\ echoed' \subseteq Deliveries
  BY <1>1 DEF IInv, TypeOK, Doubtful
<1>9. owed' \subseteq Items(new) /\ done' \cap Items(new) = {}
  BY <1>1, <1>3, <1>4 DEF Doubtful
<1>10. CASE Commit(new)
  BY <1>2, <1>4, <1>5, <1>7, <1>8, <1>9, <1>10, WriteKeeps
<1>11. CASE Indeterminate(new)
  BY <1>2, <1>4, <1>7, <1>8, <1>9, <1>11, WriteKeeps
<1> QED
  BY <1>1, <1>10, <1>11

LEMMA ExternalCommitOkKeeps ==
  ASSUME IInv, ExternalCommitOk
  PROVE  IInv'
<1>1. /\ committing \in Deliveries
      /\ \A q \in OnDisk : committing \in Items(q)
  BY DEF ExternalCommitOk, IInv, TypeOK, CommittingIsLast
<1>2. /\ owed' = owed \cup {committing} /\ done' \subseteq done
      /\ committing' = None
      /\ UNCHANGED <<phase, scan, mem, disk, stable, blocked, loadError,
                     ready, repair, early, echoed>>
  BY DEF ExternalCommitOk, Accepted, qvars
<1>3. TypeOK' /\ disk' \in stable'
  BY <1>1, <1>2 DEF IInv, TypeOK
<1>4. Owed' /\ Done' /\ NoDuplicates'
  BY <1>1, <1>2 DEF IInv, Owed, Done, NoDuplicates,
                   Readable, OnDisk
<1>5. Agree' /\ Quiet' /\ Restoring' /\ CommittingIsLast'
  BY <1>2 DEF IInv, Agree, Quiet, Restoring, CommittingIsLast,
             CorruptQueue
<1> QED
  BY <1>3, <1>4, <1>5 DEF IInv

LEMMA ExternalCommitFailsKeeps ==
  ASSUME IInv, ExternalCommitFails
  PROVE  IInv'
<1> DEFINE old == [mem EXCEPT !.queued = FrontOf(@)]
           Block(q) == blocked' = [kind |-> "rollback", expected |-> q]
<1>1. /\ committing # None /\ committing' = None
      /\ \/ Commit(old)
         \/ Block(mem) /\ UNCHANGED <<mem, disk, stable>>
         \/ Block(old) /\ mem' = old /\ PersistFailsAfter(old)
      /\ UNCHANGED <<phase, scan, loadError, ready, repair, early, owed, echoed,
                     done>>
  BY DEF ExternalCommitFails, history
<1>2. /\ phase = "up" /\ ~ loadError /\ ~ CorruptQueue
      /\ ready \subseteq Callers /\ ready' \subseteq Callers
      /\ mem.queued # <<>>
      /\ mem.queued[Len(mem.queued)] = committing
      /\ committing \notin owed
  BY <1>1 DEF IInv, Quiet, TypeOK, CommittingIsLast
<1>3. /\ disk = mem
      /\ mem \in Contents
      /\ owed \subseteq Items(mem)
      /\ done \cap Items(mem) = {}
      /\ Distinct(mem)
  BY <1>2, MemoryIsDisk
<1>4. /\ old \in Contents /\ Distinct(old)
      /\ Items(old) = Items(mem) \ {committing}
  BY <1>2, <1>3, PoppedContent
<1> HIDE DEF old
<1>5. /\ owed' = owed /\ done' = done /\ echoed' = echoed
      /\ owed' \subseteq Deliveries /\ done' \subseteq Deliveries
      /\ echoed' \subseteq Deliveries
      /\ owed' \subseteq Items(old) /\ done' \cap Items(old) = {}
  BY <1>1, <1>2, <1>3, <1>4 DEF IInv, TypeOK
<1>6. CommittingIsLast'
  BY <1>1 DEF CommittingIsLast
<1>7. CASE Commit(old)
  BY <1>1, <1>2, <1>4, <1>5, <1>6, <1>7, WriteKeeps
<1>8. CASE Block(mem) /\ UNCHANGED <<mem, disk, stable>>
  <2>1. TypeOK'
    BY <1>1, <1>2, <1>3, <1>5, <1>8 DEF IInv, TypeOK, Blocks
  <2>2. /\ Owed' /\ Done' /\ NoDuplicates'
        /\ disk' \in stable'
    BY <1>5, <1>8 DEF IInv, Owed, Done, NoDuplicates,
                     Readable, OnDisk
  <2>3. Agree' /\ Quiet' /\ Restoring'
    BY <1>1, <1>2, <1>3, <1>8 DEF Agree, Quiet, Restoring, CorruptQueue
  <2> QED
    BY <1>6, <2>1, <2>2, <2>3 DEF IInv
<1>9. CASE Block(old) /\ mem' = old /\ PersistFailsAfter(old)
  <2>1. /\ Owed' /\ Done' /\ NoDuplicates'
        /\ disk' \in stable'
        /\ disk' = old
        /\ stable' \subseteq Contents \cup {Corrupt}
    BY <1>4, <1>5, <1>9, VisibleKeeps
  <2>2. TypeOK'
    BY <1>1, <1>2, <1>4, <1>5, <1>9, <2>1 DEF IInv, TypeOK, Blocks
  <2>3. Agree' /\ Quiet' /\ Restoring'
    BY <1>1, <1>2, <1>9, <2>1 DEF Agree, Quiet, Restoring, CorruptQueue
  <2> QED
    BY <1>6, <2>1, <2>2, <2>3 DEF IInv
<1> QED
  BY <1>1, <1>7, <1>8, <1>9

LEMMA ClaimKeeps ==
  ASSUME IInv, NEW c \in Callers, Claim(c)
  PROVE  IInv'
<1> DEFINE new == [queued |-> Tail(mem.queued), inFlight |-> Head(mem.queued)]
<1>1. /\ Enter(c) /\ mem.inFlight = None /\ mem.queued # <<>>
      /\ Commit(new) \/ Indeterminate(new)
      /\ UNCHANGED <<committing, owed, echoed, done>>
  BY DEF Claim, history
<1>2. /\ phase = "up" /\ ~ loadError /\ ~ CorruptQueue
      /\ committing = None
      /\ ready' \subseteq Callers
      /\ UNCHANGED <<phase, scan, loadError, repair, early>>
  BY <1>1, Held
<1>3. /\ mem \in Contents
      /\ owed \subseteq Items(mem)
      /\ done \cap Items(mem) = {}
      /\ Distinct(mem)
  BY <1>2, MemoryIsDisk
<1>4. new \in Contents /\ Distinct(new) /\ Items(new) = Items(mem)
  BY <1>1, <1>3, ClaimContent
<1> HIDE DEF new
<1>5. /\ owed' = owed /\ done' = done
      /\ owed' \subseteq Deliveries /\ done' \subseteq Deliveries
      /\ echoed' \subseteq Deliveries
      /\ committing' \in Deliveries \cup {None} /\ CommittingIsLast'
      /\ owed' \subseteq Items(new) /\ done' \cap Items(new) = {}
  BY <1>1, <1>2, <1>3, <1>4 DEF IInv, TypeOK, CommittingIsLast
<1> QED
  BY <1>1, <1>2, <1>4, <1>5, WriteKeeps

LEMMA ReleaseKeeps ==
  ASSUME IInv,
         NEW c \in Callers, NEW d \in Deliveries, Release(c, d)
  PROVE  IInv'
<1> DEFINE taken == [mem EXCEPT !.inFlight = None]
           new == PushFront(taken, d)
<1>1. /\ Enter(c) /\ mem.inFlight = d
      /\ Commit(new) \/ Indeterminate(new)
      /\ UNCHANGED <<committing, owed, echoed, done>>
  BY DEF Release, history
<1>2. /\ phase = "up" /\ ~ loadError /\ ~ CorruptQueue
      /\ committing = None
      /\ ready' \subseteq Callers
      /\ UNCHANGED <<phase, scan, loadError, repair, early>>
  BY <1>1, Held
<1>3. /\ mem \in Contents
      /\ owed \subseteq Items(mem)
      /\ done \cap Items(mem) = {}
      /\ Distinct(mem)
  BY <1>2, MemoryIsDisk
<1>4. /\ taken \in Contents /\ Distinct(taken)
      /\ Items(taken) = Items(mem) \ {d}
  BY <1>1, <1>3, NoneAssumption, TakenContent
<1> HIDE DEF taken
<1>5. /\ new \in Contents /\ Distinct(new)
      /\ Items(new) = Items(taken) \cup {d}
  BY <1>4, PushFrontContent
<1> HIDE DEF new
<1>6. Items(new) = Items(mem)
  BY <1>1, <1>4, <1>5, NoneAssumption DEF Items
<1>7. /\ owed' = owed /\ done' = done
      /\ owed' \subseteq Deliveries /\ done' \subseteq Deliveries
      /\ echoed' \subseteq Deliveries
      /\ committing' \in Deliveries \cup {None} /\ CommittingIsLast'
      /\ owed' \subseteq Items(new) /\ done' \cap Items(new) = {}
  BY <1>1, <1>2, <1>3, <1>6 DEF IInv, TypeOK, CommittingIsLast
<1> QED
  BY <1>1, <1>2, <1>5, <1>7, WriteKeeps

\* acknowledge, clear and clear_queued: the deliveries S leave the queue.
LEMMA ConsumeKeeps ==
  ASSUME IInv, NEW c \in Callers, Enter(c),
         UNCHANGED committing,
         NEW S \in SUBSET Deliveries, S \subseteq Items(mem),
         NEW new \in Contents, Distinct(new), Items(new) = Items(mem) \ S,
         \/ Commit(new) /\ Consumed(S)
         \/ Indeterminate(new) /\ Dropped(S)
  PROVE  IInv'
<1>1. /\ phase = "up" /\ ~ loadError /\ ~ CorruptQueue
      /\ committing = None
      /\ ready' \subseteq Callers
      /\ UNCHANGED <<phase, scan, loadError, repair, early>>
  BY Held
<1>2. /\ disk = mem
      /\ owed \subseteq Items(mem)
      /\ done \cap Items(mem) = {}
  BY <1>1, MemoryIsDisk
<1>3. /\ owed' = owed \ S
      /\ echoed' = echoed \ S
      /\ \/ Commit(new) /\ done' = done \cup S
         \/ Indeterminate(new) /\ done' = done
  BY DEF Consumed, Dropped
<1>4. /\ owed' \subseteq Deliveries /\ done' \subseteq Deliveries
      /\ echoed' \subseteq Deliveries
      /\ committing' \in Deliveries \cup {None} /\ CommittingIsLast'
      /\ owed' \subseteq owed \cap Items(new) /\ done' \cap Items(new) = {}
  BY <1>1, <1>2, <1>3 DEF IInv, TypeOK, CommittingIsLast
<1>5. NothingToRemove(new) => S = {}
  BY <1>2, EmptyContent DEF NothingToRemove
<1>6. NothingToRemove(new) => owed' \subseteq owed /\ (Commit(new) => done' \subseteq done)
  BY <1>3, <1>5
<1>7. CASE Commit(new) /\ done' = done \cup S
  BY <1>1, <1>4, <1>6, <1>7, WriteKeeps
<1>8. CASE Indeterminate(new) /\ done' = done
  BY <1>1, <1>4, <1>8, WriteKeeps
<1> QED
  BY <1>3, <1>7, <1>8

LEMMA ConsumersKeep ==
  ASSUME IInv, NEW c \in Callers,
         \/ \E d \in Deliveries : Acknowledge(c, d)
         \/ Clear(c)
         \/ ClearQueued(c)
  PROVE  IInv'
<1>1. Enter(c) /\ UNCHANGED committing
  BY DEF Acknowledge, Clear, ClearQueued
<1>2. /\ mem \in Contents /\ Distinct(mem)
      /\ Items(mem) \subseteq Deliveries /\ Queued(mem) \subseteq Deliveries
  <2>1. mem \in Contents /\ Distinct(mem)
    BY <1>1, Held, MemoryIsDisk
  <2> QED
    BY <2>1 DEF Contents, Items, Queued
<1>3. ASSUME NEW d \in Deliveries, Acknowledge(c, d)
      PROVE  IInv'
  <2> DEFINE new == [mem EXCEPT !.inFlight = None]
  <2>1. /\ mem.inFlight = d
        /\ \/ Commit(new) /\ Consumed({d})
           \/ Indeterminate(new) /\ Dropped({d})
    BY <1>3 DEF Acknowledge
  <2>2. new \in Contents /\ Distinct(new) /\ Items(new) = Items(mem) \ {d}
    BY <1>2, <2>1, NoneAssumption, TakenContent
  <2>3. {d} \subseteq Items(mem)
    BY <2>1, NoneAssumption DEF Items
  <2> HIDE DEF new
  <2> QED
    BY <1>1, <2>1, <2>2, <2>3, ConsumeKeeps
<1>4. CASE Clear(c)
  <2>1. \/ Commit(Empty) /\ Consumed(Items(mem))
        \/ Indeterminate(Empty) /\ Dropped(Items(mem))
    BY <1>4 DEF Clear
  <2>2. Items(Empty) = Items(mem) \ Items(mem)
    BY EmptyContent
  <2> QED
    BY <1>1, <1>2, <2>1, <2>2, EmptyContent, ConsumeKeeps
<1>5. CASE ClearQueued(c)
  <2> DEFINE new == [queued |-> <<>>, inFlight |-> mem.inFlight]
  <2>1. \/ Commit(new) /\ Consumed(Queued(mem))
        \/ Indeterminate(new) /\ Dropped(Queued(mem))
    BY <1>5 DEF ClearQueued
  <2>2. /\ new \in Contents /\ Distinct(new)
        /\ Items(new) = Items(mem) \ Queued(mem)
    BY <1>2, ClearedContent
  <2>3. Queued(mem) \subseteq Items(mem)
    BY DEF Items
  <2> HIDE DEF new
  <2> QED
    BY <1>1, <1>2, <2>1, <2>2, <2>3, ConsumeKeeps
<1> QED
  BY <1>3, <1>4, <1>5

LEMMA RecoveryKeeps ==
  ASSUME IInv, Recovery
  PROVE  IInv'
<1>1. CASE RepairCompare
  BY <1>1
  DEF RepairCompare, IInv, TypeOK, Repairs, qvars, history, Owed,
      Done, NoDuplicates, Readable, OnDisk, Agree, Quiet,
      Restoring, CommittingIsLast, CorruptQueue
<1>2. CASE RepairSync
  <2>1. /\ stable' = {disk} /\ disk \in stable
        /\ repair' \in Repairs
        /\ UNCHANGED <<phase, scan, mem, disk, blocked, loadError, ready,
                       committing, early, owed, echoed, done>>
    BY <1>2 DEF RepairSync, history, IInv, TypeOK, Repairs
  <2>2. TypeOK' /\ disk' \in stable'
    BY <2>1 DEF IInv, TypeOK
  <2>3. OnDisk' \subseteq OnDisk /\ Readable' \subseteq Readable
    BY <2>1 DEF Readable, OnDisk
  <2>4. Owed' /\ Done' /\ NoDuplicates'
    BY <2>1, <2>3 DEF IInv, Owed, Done, NoDuplicates
  <2>5. Agree' /\ Quiet' /\ Restoring' /\ CommittingIsLast'
    BY <1>2, <2>1, <2>3
    DEF IInv, Agree, Quiet, Restoring, CommittingIsLast, CorruptQueue,
        RepairSync
  <2> QED
    BY <2>2, <2>4, <2>5 DEF IInv
<1>3. CASE RepairUnblock
  <2>1. ~ CorruptQueue
    BY <1>3 DEF RepairUnblock, IInv, Quiet
  <2>2. /\ blocked' = None /\ repair' = None
        /\ UNCHANGED <<phase, scan, mem, disk, stable, loadError, ready,
                       committing, early, owed, echoed, done>>
    BY <1>3 DEF RepairUnblock, history
  <2>3. /\ Owed' /\ Done' /\ NoDuplicates'
        /\ TypeOK' /\ disk' \in stable'
    BY <2>2 DEF IInv, TypeOK, Owed, Done, NoDuplicates,
               Readable, OnDisk
  <2>4. Agree' /\ Quiet' /\ Restoring' /\ CommittingIsLast'
    BY <2>1, <2>2
    DEF IInv, Agree, Quiet, Restoring, CommittingIsLast, CorruptQueue,
        OnDisk
  <2> QED
    BY <2>3, <2>4 DEF IInv
<1>4. CASE RepairFails
  BY <1>4
  DEF RepairFails, IInv, TypeOK, qvars, history, Owed,
      Done, NoDuplicates, Readable, OnDisk, Agree, Quiet,
      Restoring, CommittingIsLast, CorruptQueue
<1> QED
  BY <1>1, <1>2, <1>3, <1>4 DEF Recovery

LEMMA RestartKeeps ==
  ASSUME IInv, ~ early, ProcessCrash \/ PowerLoss
  PROVE  IInv'
<1>1. /\ phase' = "restoring" /\ scan' = None /\ mem' = Empty
      /\ blocked' = None /\ loadError' = FALSE /\ ready' = {}
      /\ committing' = None /\ repair' = None
      /\ early' = FALSE
      /\ UNCHANGED <<owed, echoed, done>>
  BY DEF ProcessCrash, PowerLoss, Restart, history
<1>2. stable' \subseteq stable /\ disk' \in stable'
  BY DEF ProcessCrash, PowerLoss, IInv
<1>3. TypeOK'
  BY <1>1, <1>2, EmptyContent DEF IInv, TypeOK
<1>4. Owed' /\ Done' /\ NoDuplicates'
  BY <1>1, <1>2, EmptyContent
  DEF IInv, Owed, Done, NoDuplicates, Readable, OnDisk
<1>5. Agree' /\ Quiet' /\ Restoring' /\ CommittingIsLast'
  BY <1>1 DEF Agree, Quiet, Restoring, CommittingIsLast, CorruptQueue
<1> QED
  BY <1>2, <1>3, <1>4, <1>5 DEF IInv

LEMMA RestoreKeeps ==
  ASSUME IInv, Damage \/ RestoreRead \/ RestoreInsert \/ RestoreError
  PROVE  IInv'
<1>1. phase = "restoring"
  BY DEF Damage, RestoreRead, RestoreInsert, RestoreError
<1>2. /\ ready = {} /\ committing = None /\ repair = None
      /\ mem = Empty /\ blocked = None /\ scan \in {None, disk}
  BY <1>1 DEF IInv, Quiet, Restoring
<1>3. CASE Damage
  BY <1>1, <1>2, <1>3, EmptyContent
  DEF Damage, IInv, TypeOK, Owed, Done, NoDuplicates,
      Readable, OnDisk, Agree, Quiet, Restoring, CommittingIsLast,
      CorruptQueue
<1>4. CASE RestoreRead
  BY <1>1, <1>2, <1>4
  DEF RestoreRead, qvars, history, IInv, TypeOK, Owed,
      Done, NoDuplicates, Readable, OnDisk, Agree, Quiet,
      Restoring, CommittingIsLast, CorruptQueue
<1>5. CASE RestoreError
  BY <1>1, <1>2, <1>5
  DEF RestoreError, qvars, history, IInv, TypeOK, Owed,
      Done, NoDuplicates, Readable, OnDisk, Agree, Quiet,
      Restoring, CommittingIsLast, CorruptQueue
<1>6. CASE RestoreInsert
  <2>1. /\ scan = disk /\ scan' = None /\ phase' = "up"
        /\ UNCHANGED <<disk, stable, loadError, ready, committing, repair,
                       early, owed, echoed, done>>
    BY <1>2, <1>6 DEF RestoreInsert, history
  <2>2. CASE disk = Corrupt
    <3>1. Corrupt # Empty
      BY EmptyContent, CorruptAssumption
    <3>2. /\ blocked' = [kind |-> "corrupt", expected |-> None]
          /\ mem' = mem
      BY <1>6, <2>1, <2>2, <3>1 DEF RestoreInsert
    <3> QED
      BY <1>1, <1>2, <2>1, <2>2, <3>2, NoneAssumption
      DEF IInv, TypeOK, Blocks, Owed, Done, NoDuplicates,
          Readable, OnDisk, Agree, Quiet, Restoring, CommittingIsLast,
          CorruptQueue
  <2>3. CASE disk # Corrupt
    <3>1. mem' = disk /\ blocked' = None
      <4>1. CASE disk = Empty
        BY <1>2, <1>6, <2>1, <2>3, <4>1 DEF RestoreInsert
      <4>2. CASE disk # Empty
        BY <1>2, <1>6, <2>1, <2>3, <4>2 DEF RestoreInsert
      <4> QED
        BY <4>1, <4>2
    <3>2. disk \in OnDisk /\ disk \in Contents
      BY <2>3 DEF IInv, TypeOK, OnDisk
    <3>3. TypeOK' /\ disk' \in stable'
      BY <2>1, <3>1, <3>2 DEF IInv, TypeOK
    <3>4. OnDisk' = OnDisk /\ Readable' \subseteq Readable
      BY <2>1, <3>1, <3>2 DEF Readable, OnDisk
    <3>5. Owed' /\ Done' /\ NoDuplicates'
      BY <2>1, <3>4 DEF IInv, Owed, Done, NoDuplicates
    <3>6. Agree' /\ Quiet' /\ Restoring' /\ CommittingIsLast'
      BY <1>2, <2>1, <3>1
      DEF Agree, Quiet, Restoring, CommittingIsLast, CorruptQueue
    <3> QED
      BY <3>3, <3>5, <3>6 DEF IInv
  <2> QED
    BY <2>2, <2>3
<1> QED
  BY <1>3, <1>4, <1>5, <1>6

LEMMA StutterKeeps ==
  ASSUME IInv, UNCHANGED vars
  PROVE  IInv'
BY DEF vars, qvars, history, IInv, TypeOK, Owed, Done,
       NoDuplicates, Readable, OnDisk, Agree, Quiet, Restoring,
       CommittingIsLast, CorruptQueue

LEMMA NextKeeps ==
  ASSUME IInv, ~ early, ~ early', [Next]_vars
  PROVE  IInv'
<1>1. ASSUME NEW c \in Callers, Operation(c)
      PROVE  IInv'
  <2>1. EnsureAvailable(c) => phase = "up"
    BY DEF EnsureAvailable, IInv, TypeOK
  <2> QED
    BY <1>1, <2>1, EnsureAvailableKeeps, RefuseKeeps, ClaimKeeps,
       ConsumersKeep, EnqueueKeeps, EnqueueDuplicateKeeps, EnqueueCommittedKeeps, ReleaseKeeps
    DEF Operation
<1>2. CASE ExternalCommitOk
  BY <1>2, ExternalCommitOkKeeps
<1>3. CASE ExternalCommitFails
  BY <1>3, ExternalCommitFailsKeeps
<1>4. CASE Recovery
  BY <1>4, RecoveryKeeps
<1>5. CASE Lifecycle
  BY <1>5, RestartKeeps, RestoreKeeps DEF Lifecycle
<1>6. CASE UNCHANGED vars
  BY <1>6, StutterKeeps
<1> QED
  BY <1>1, <1>2, <1>3, <1>4, <1>5, <1>6 DEF Next

-----------------------------------------------------------------------------
(* What holds whatever came in while restore was running: no content, in   *)
(* memory or in the file, holds a delivery twice.                          *)

Base ==
  /\ TypeOK
  /\ disk \in stable
  /\ NoDuplicates
  /\ scan \in Contents => Distinct(scan)

\* A rewrite of the file, whatever the memory and the file held before.
LEMMA RewriteBase ==
  ASSUME Base, NEW new \in Contents, Distinct(new),
         mem' = new, disk' = new,
         \/ stable' = {new}
         \/ stable' = stable \cup {new}
         \/ NothingToRemove(new) /\ stable' = stable
  PROVE  /\ disk' \in stable'
         /\ NoDuplicates'
         /\ mem' \in Contents /\ disk' \in Contents
         /\ stable' \subseteq Contents \cup {Corrupt}
<1>1. disk' \in stable' /\ stable' \subseteq stable \cup {new}
  BY DEF Base, NothingToRemove
<1>2. \A q \in Readable' : q \in Readable \/ q = new
  BY <1>1 DEF Readable, OnDisk
<1> QED
  BY <1>1, <1>2 DEF Base, TypeOK, NoDuplicates

LEMMA WriteBase ==
  ASSUME Base, NEW new \in Contents, Distinct(new),
         Commit(new) \/ Indeterminate(new)
  PROVE  /\ disk' \in stable'
         /\ NoDuplicates'
         /\ mem' \in Contents /\ disk' \in Contents
         /\ stable' \subseteq Contents \cup {Corrupt}
         /\ blocked' \in Blocks \cup {None}
<1>1. mem' = new /\ disk' = new
  BY DEF Commit, Indeterminate, PersistOk, PersistFailsAfter
<1>2. \/ stable' = {new}
      \/ stable' = stable \cup {new}
      \/ NothingToRemove(new) /\ stable' = stable
  BY DEF Commit, Indeterminate, PersistOk, PersistFailsAfter
<1>3. blocked' \in Blocks \cup {None}
  BY DEF Commit, Indeterminate, Base, TypeOK, Blocks
<1> QED
  BY <1>1, <1>2, <1>3, RewriteBase

\* The content an operation writes.
LEMMA NewContent ==
  ASSUME Base, NEW c \in Callers, NEW d \in Deliveries
  PROVE  /\ EnqueueBack(c, d) \/ EnqueueNext(c, d) \/ EnqueueExisting(c, d)
              \/ EnqueueCommitted(c, d) \/ Acknowledge(c, d) \/ Release(c, d)
            => \E new \in Contents : /\ Distinct(new)
                                     /\ Commit(new) \/ Indeterminate(new)
         /\ Claim(c) \/ Clear(c) \/ ClearQueued(c)
            => \E new \in Contents : /\ Distinct(new)
                                     /\ Commit(new) \/ Indeterminate(new)
<1>1. mem \in Contents /\ Distinct(mem)
  BY DEF Base, TypeOK, NoDuplicates, Readable
<1>2. ASSUME EnqueueBack(c, d) \/ EnqueueNext(c, d) \/ EnqueueExisting(c, d)
               \/ EnqueueCommitted(c, d)
      PROVE  \E new \in {PushBack(mem, d), PushFront(mem, d)} :
               /\ new \in Contents /\ Distinct(new)
               /\ Commit(new) \/ Indeterminate(new)
  <2>1. d \notin Items(mem)
    BY <1>2 DEF EnqueueBack, EnqueueNext, EnqueueExisting, EnqueueCommitted,
                Enqueue, Fresh, Readable
  <2>2. \E new \in {PushBack(mem, d), PushFront(mem, d)} :
          Commit(new) \/ Indeterminate(new)
    BY <1>2 DEF EnqueueBack, EnqueueNext, EnqueueExisting, EnqueueCommitted,
                Enqueue
  <2> QED
    BY <1>1, <2>1, <2>2, PushBackContent, PushFrontContent
<1>3. ASSUME Acknowledge(c, d) \/ Release(c, d)
      PROVE  \E new \in Contents : /\ Distinct(new)
                                   /\ Commit(new) \/ Indeterminate(new)
  <2> DEFINE taken == [mem EXCEPT !.inFlight = None]
  <2>1. mem.inFlight = d /\ d # None
    BY <1>3, NoneAssumption DEF Acknowledge, Release
  <2>2. /\ taken \in Contents /\ Distinct(taken)
        /\ Items(taken) = Items(mem) \ {d}
    BY <1>1, <2>1, TakenContent
  <2>3. \/ Commit(taken) \/ Indeterminate(taken)
        \/ Commit(PushFront(taken, d)) \/ Indeterminate(PushFront(taken, d))
    BY <1>3 DEF Acknowledge, Release
  <2> HIDE DEF taken
  <2>4. /\ PushFront(taken, d) \in Contents
        /\ Distinct(PushFront(taken, d))
    BY <2>2, PushFrontContent
  <2> QED
    BY <2>2, <2>3, <2>4
<1>4. ASSUME Claim(c)
      PROVE  \E new \in Contents : /\ Distinct(new)
                                   /\ Commit(new) \/ Indeterminate(new)
  BY <1>1, <1>4, ClaimContent DEF Claim
<1>5. ASSUME Clear(c) \/ ClearQueued(c)
      PROVE  \E new \in Contents : /\ Distinct(new)
                                   /\ Commit(new) \/ Indeterminate(new)
  BY <1>1, <1>5, ClearedContent, EmptyContent DEF Clear, ClearQueued
<1> QED
  BY <1>2, <1>3, <1>4, <1>5

LEMMA OperationBase ==
  ASSUME Base, NEW c \in Callers, Operation(c)
  PROVE  Base'
<1>1. CASE EnsureAvailable(c) \/ Refuse(c) \/ \E d \in Deliveries : EnqueueDuplicate(c, d)
  BY <1>1
  DEF EnsureAvailable, Refuse, EnqueueDuplicate, Enter, qvars, history, Base,
      TypeOK, NoDuplicates, Readable, OnDisk
<1>2. CASE Claim(c) \/ Clear(c) \/ ClearQueued(c) \/ \E d \in Deliveries :
              \/ EnqueueBack(c, d) \/ EnqueueNext(c, d) \/ EnqueueExisting(c, d)
              \/ EnqueueCommitted(c, d) \/ Acknowledge(c, d) \/ Release(c, d)
  <2>1. \E new \in Contents : /\ Distinct(new)
                              /\ Commit(new) \/ Indeterminate(new)
    <3>1. CASE Deliveries = {}
      <4>1. mem \in Contents /\ Distinct(mem)
        BY DEF Base, TypeOK, NoDuplicates, Readable
      <4>2. Claim(c) \/ Clear(c) \/ ClearQueued(c)
        BY <1>2, <3>1
      <4> QED
        BY <4>1, <4>2, ClaimContent, ClearedContent, EmptyContent
        DEF Claim, Clear, ClearQueued
    <3>2. CASE Deliveries # {}
      BY <1>2, <3>2, NewContent
    <3> QED
      BY <3>1, <3>2
  <2>2. /\ disk' \in stable'
        /\ NoDuplicates'
        /\ mem' \in Contents /\ disk' \in Contents
        /\ stable' \subseteq Contents \cup {Corrupt}
        /\ blocked' \in Blocks \cup {None}
    BY <2>1, WriteBase
  <2>3. Enter(c)
    BY <1>2 DEF Claim, Clear, ClearQueued, EnqueueBack, EnqueueNext, Enqueue,
                EnqueueExisting, EnqueueCommitted, Acknowledge, Release
  <2>4. /\ ready' \subseteq Callers
        /\ UNCHANGED <<phase, scan, loadError, repair, early>>
    BY <2>3 DEF Enter, Base, TypeOK
  <2>5. /\ committing' \in Deliveries \cup {None}
        /\ owed' \subseteq Deliveries
        /\ done' \subseteq Deliveries
        /\ echoed' \subseteq Deliveries
    <3>1. Items(mem) \subseteq Deliveries /\ Queued(mem) \subseteq Deliveries
      BY DEF Base, TypeOK, Contents, Items, Queued
    <3> QED
      BY <1>2, <3>1
      DEF Base, TypeOK, Claim, Clear, ClearQueued, EnqueueBack, EnqueueNext,
          Enqueue, EnqueueExisting, EnqueueCommitted, Acknowledge, Release,
          history, Accepted, Doubtful, Consumed, Dropped
  <2> QED
    BY <2>2, <2>4, <2>5 DEF Base, TypeOK
<1> QED
  BY <1>1, <1>2 DEF Operation

LEMMA ExternalCommitBase ==
  ASSUME Base, ExternalCommitOk \/ ExternalCommitFails
  PROVE  Base'
<1>1. CASE ExternalCommitOk
  BY <1>1 DEF ExternalCommitOk, Accepted, qvars, Base, TypeOK, NoDuplicates,
              Readable, OnDisk
<1>2. CASE ExternalCommitFails
  <2> DEFINE old == [mem EXCEPT !.queued = FrontOf(@)]
  <2>1. /\ \/ Commit(old)
           \/ /\ blocked' = [kind |-> "rollback", expected |-> mem]
              /\ UNCHANGED <<mem, disk, stable>>
           \/ /\ blocked' = [kind |-> "rollback", expected |-> old]
              /\ mem' = old /\ PersistFailsAfter(old)
        /\ committing' = None
        /\ UNCHANGED <<phase, scan, loadError, ready, repair, early, owed,
                       echoed, done>>
    BY <1>2 DEF ExternalCommitFails, history
  <2>2. mem \in Contents /\ Distinct(mem)
    BY DEF Base, TypeOK, NoDuplicates, Readable
  <2>3. old \in Contents /\ Distinct(old)
    <3>1. CASE mem.queued = <<>>
      <4>1. FrontOf(mem.queued) = <<>>
        BY <3>1 DEF FrontOf
      <4>2. old = mem
        BY <2>2, <3>1, <4>1 DEF Contents
      <4> QED
        BY <2>2, <4>2
    <3>2. CASE mem.queued # <<>>
      BY <2>2, <3>2, PoppedContent
    <3> QED
      BY <3>1, <3>2
  <2> HIDE DEF old
  <2>4. /\ disk' \in stable' /\ NoDuplicates'
        /\ mem' \in Contents /\ disk' \in Contents \cup {Corrupt}
        /\ stable' \subseteq Contents \cup {Corrupt}
        /\ blocked' \in Blocks \cup {None}
    <3>1. CASE Commit(old)
      BY <2>3, <3>1, WriteBase
    <3>2. CASE /\ blocked' = [kind |-> "rollback", expected |-> mem]
               /\ UNCHANGED <<mem, disk, stable>>
      BY <2>2, <3>2 DEF Base, TypeOK, NoDuplicates, Readable, OnDisk, Blocks
    <3>3. CASE /\ blocked' = [kind |-> "rollback", expected |-> old]
               /\ mem' = old /\ PersistFailsAfter(old)
      BY <2>3, <3>3, RewriteBase DEF PersistFailsAfter, Blocks
    <3> QED
      BY <2>1, <3>1, <3>2, <3>3
  <2> QED
    BY <2>1, <2>4 DEF Base, TypeOK
<1> QED
  BY <1>1, <1>2

LEMMA RecoveryBase ==
  ASSUME Base, Recovery
  PROVE  Base'
<1>1. CASE RepairSync
  BY <1>1 DEF RepairSync, history, Base, TypeOK, Repairs, NoDuplicates,
              Readable, OnDisk
<1>2. CASE RepairCompare \/ RepairUnblock \/ RepairFails
  BY <1>2 DEF RepairCompare, RepairUnblock, RepairFails, qvars, history, Base,
              TypeOK, Repairs, NoDuplicates, Readable, OnDisk
<1> QED
  BY <1>1, <1>2 DEF Recovery

LEMMA LifecycleBase ==
  ASSUME Base, Lifecycle
  PROVE  Base'
<1>1. CASE ProcessCrash \/ PowerLoss
  <2>1. /\ phase' = "restoring" /\ scan' = None /\ mem' = Empty
        /\ blocked' = None /\ loadError' = FALSE /\ ready' = {}
        /\ committing' = None /\ repair' = None /\ early' \in BOOLEAN
        /\ owed' \subseteq owed /\ echoed' \subseteq echoed
        /\ done' \subseteq done
    BY <1>1 DEF ProcessCrash, PowerLoss, Restart, history, Base, TypeOK
  <2>2. stable' \subseteq stable /\ disk' \in stable'
    BY <1>1 DEF ProcessCrash, PowerLoss, Base
  <2>3. \A q \in Readable' : q \in Readable \/ q = Empty
    BY <2>1, <2>2 DEF Readable, OnDisk
  <2> QED
    BY <2>1, <2>2, <2>3, EmptyContent, NoneAssumption DEF Base, TypeOK, NoDuplicates
<1>2. CASE Damage
  BY <1>2, NoneAssumption, EmptyContent
  DEF Damage, Base, TypeOK, NoDuplicates, Readable, OnDisk
<1>3. CASE RestoreRead \/ RestoreError
  BY <1>3, CorruptAssumption
  DEF RestoreRead, RestoreError, qvars, history, Base, TypeOK, NoDuplicates,
      Readable, OnDisk
<1>4. CASE RestoreInsert
  <2>1. /\ scan # None /\ phase' = "up" /\ scan' = None
        /\ UNCHANGED <<disk, stable, loadError, ready, committing, repair,
                       early, owed, echoed, done>>
    BY <1>4 DEF RestoreInsert, history
  <2>2. /\ blocked' \in Blocks \cup {None}
        /\ mem' = mem \/ (mem' = scan /\ scan # Corrupt)
    BY <1>4 DEF RestoreInsert, Base, TypeOK, Blocks
  <2>3. scan \in Contents \cup {Corrupt}
    BY <2>1 DEF Base, TypeOK
  <2> QED
    BY <2>1, <2>2, <2>3, NoneAssumption
    DEF Base, TypeOK, NoDuplicates, Readable, OnDisk
<1> QED
  BY <1>1, <1>2, <1>3, <1>4 DEF Lifecycle

LEMMA BaseKeeps ==
  ASSUME Base, [Next]_vars
  PROVE  Base'
<1>1. CASE UNCHANGED vars
  BY <1>1 DEF vars, qvars, history, Base, TypeOK, NoDuplicates, Readable,
              OnDisk
<1> QED
  BY <1>1, OperationBase, ExternalCommitBase, RecoveryBase, LifecycleBase
  DEF Next

-----------------------------------------------------------------------------
(* The order of two deliveries, without the sequence Line builds. *)

Ahead(s, a, b) ==
  \E i, j \in 1..Len(s) : i < j /\ s[i] = a /\ s[j] = b

LEMMA BeforeIs ==
  ASSUME NEW q \in Contents, NEW a \in Deliveries, NEW b \in Deliveries
  PROVE  Before(q, a, b) <=> \/ q.inFlight = a /\ b \in Queued(q)
                             \/ Ahead(q.queued, a, b)
<1>1. /\ q.queued \in Seq(Deliveries)
      /\ q.inFlight \in Deliveries \cup {None}
      /\ Len(q.queued) \in Nat
      /\ a # None /\ b # None
  BY NoneAssumption DEF Contents
<1>2. CASE q.inFlight = None
  <2>1. Line(q) = q.queued
    BY <1>2 DEF Line
  <2> QED
    BY <1>1, <1>2, <2>1 DEF Before, Ahead
<1>3. CASE q.inFlight # None
  <2> DEFINE l == <<q.inFlight>> \o q.queued
  <2>1. /\ Line(q) = l
        /\ Len(l) = Len(q.queued) + 1
        /\ l[1] = q.inFlight
        /\ \A i \in 1..Len(l) : i # 1 => l[i] = q.queued[i - 1]
    <3>1. <<q.inFlight>> \in Seq(Deliveries)
      BY <1>1, <1>3
    <3>2. Len(<<q.inFlight>>) = 1 /\ <<q.inFlight>>[1] = q.inFlight
      OBVIOUS
    <3> QED
      BY <1>1, <1>3, <3>1, <3>2 DEF Line
  <2> HIDE DEF l
  <2>2. ASSUME Before(q, a, b)
        PROVE  \/ q.inFlight = a /\ b \in Queued(q)
               \/ Ahead(q.queued, a, b)
    <3>1. PICK i \in 1..Len(l), j \in 1..Len(l) :
            i < j /\ l[i] = a /\ l[j] = b
      BY <2>1, <2>2 DEF Before
    <3>2. /\ j - 1 \in 1..Len(q.queued)
          /\ q.queued[j - 1] = b
      BY <1>1, <2>1, <3>1
    <3>3. CASE i = 1
      BY <2>1, <3>1, <3>2, <3>3 DEF Queued
    <3>4. CASE i # 1
      <4>1. i - 1 \in 1..Len(q.queued) /\ q.queued[i - 1] = a /\ i - 1 < j - 1
        BY <1>1, <2>1, <3>1, <3>4
      <4> QED
        BY <3>2, <4>1 DEF Ahead
    <3> QED
      BY <3>3, <3>4
  <2>3. ASSUME q.inFlight = a, b \in Queued(q)
        PROVE  Before(q, a, b)
    <3>1. PICK j \in 1..Len(q.queued) : q.queued[j] = b
      BY <2>3 DEF Queued
    <3>2. /\ 1 \in 1..Len(l) /\ j + 1 \in 1..Len(l) /\ 1 < j + 1
          /\ l[1] = a /\ l[j + 1] = b
      BY <1>1, <2>1, <2>3, <3>1
    <3> QED
      BY <2>1, <3>2 DEF Before
  <2>4. ASSUME Ahead(q.queued, a, b)
        PROVE  Before(q, a, b)
    <3>1. PICK i \in 1..Len(q.queued), j \in 1..Len(q.queued) :
            i < j /\ q.queued[i] = a /\ q.queued[j] = b
      BY <2>4 DEF Ahead
    <3>2. /\ i + 1 \in 1..Len(l) /\ j + 1 \in 1..Len(l) /\ i + 1 < j + 1
          /\ l[i + 1] = a /\ l[j + 1] = b
      BY <1>1, <2>1, <3>1
    <3> QED
      BY <2>1, <3>2 DEF Before
  <2> QED
    BY <2>2, <2>3, <2>4
<1> QED
  BY <1>2, <1>3

\* No delivery stands before and behind another one.
LEMMA BeforeIsStrict ==
  ASSUME NEW q \in Contents, Distinct(q),
         NEW a \in Deliveries, NEW b \in Deliveries, Before(q, a, b)
  PROVE  ~ Before(q, b, a)
<1>1. Len(q.queued) \in Nat
  BY DEF Contents
<1>2. Ahead(q.queued, a, b) => ~ Ahead(q.queued, b, a)
  BY <1>1 DEF Ahead, Distinct
<1>3. Ahead(q.queued, a, b) => a \in Queued(q) /\ b \in Queued(q)
  BY DEF Ahead, Queued
<1>4. Ahead(q.queued, b, a) => a \in Queued(q) /\ b \in Queued(q)
  BY DEF Ahead, Queued
<1> QED
  BY <1>2, <1>3, <1>4, BeforeIs DEF Distinct

\* p keeps the order of q, for the deliveries both knew.
Follows(p, q, S) == \A a, b \in S : Before(p, a, b) => Before(q, a, b)

LEMMA PushBackFollows ==
  ASSUME NEW q \in Contents, NEW d \in Deliveries
  PROVE  Follows(PushBack(q, d), q, Deliveries \ {d})
<1> DEFINE p == PushBack(q, d)
<1>1. /\ p \in Contents
      /\ p.queued = Append(q.queued, d)
      /\ p.inFlight = q.inFlight
  BY DEF PushBack, Contents
<1> HIDE DEF p
<1>2. /\ Len(p.queued) = Len(q.queued) + 1
      /\ Len(q.queued) \in Nat
      /\ p.queued[Len(p.queued)] = d
      /\ \A i \in 1..Len(q.queued) : p.queued[i] = q.queued[i]
  BY <1>1 DEF Contents
<1>3. ASSUME NEW i \in 1..Len(p.queued), p.queued[i] # d
      PROVE  i \in 1..Len(q.queued) /\ q.queued[i] = p.queued[i]
  BY <1>2, <1>3
<1>4. ASSUME NEW a \in Deliveries \ {d}, NEW b \in Deliveries \ {d},
             Before(p, a, b)
      PROVE  Before(q, a, b)
  <2>1. Ahead(p.queued, a, b) => Ahead(q.queued, a, b)
    BY <1>3 DEF Ahead
  <2>2. b \in Queued(p) => b \in Queued(q)
    BY <1>3 DEF Queued
  <2> QED
    BY <1>1, <1>4, <2>1, <2>2, BeforeIs
<1> QED
  BY <1>4 DEF Follows, p

\* The delivery put in front is d; the others move one place.
LEMMA PushFrontIndices ==
  ASSUME NEW q \in Contents, NEW d \in Deliveries
  PROVE  LET p == PushFront(q, d) IN
         /\ p \in Contents
         /\ p.inFlight = q.inFlight
         /\ Len(q.queued) \in Nat
         /\ Len(p.queued) = Len(q.queued) + 1
         /\ p.queued[1] = d
         /\ \A i \in 1..Len(p.queued) :
              i # 1 => /\ i - 1 \in 1..Len(q.queued)
                       /\ p.queued[i] = q.queued[i - 1]
<1> DEFINE p == PushFront(q, d)
<1>1. /\ q.queued \in Seq(Deliveries) /\ <<d>> \in Seq(Deliveries)
      /\ Len(<<d>>) = 1 /\ <<d>>[1] = d
      /\ Len(q.queued) \in Nat
  BY DEF Contents
<1>2. p.queued = <<d>> \o q.queued /\ p.inFlight = q.inFlight
  BY DEF PushFront, Contents
<1>3. p \in Contents
  BY PushFrontContent
<1> HIDE DEF p
<1>4. /\ Len(p.queued) = Len(q.queued) + 1
      /\ p.queued[1] = d
      /\ \A i \in 1..Len(p.queued) : i # 1 => p.queued[i] = q.queued[i - 1]
  BY <1>1, <1>2
<1>5. \A i \in 1..Len(p.queued) : i # 1 => i - 1 \in 1..Len(q.queued)
  BY <1>1, <1>4
<1> QED
  BY <1>1, <1>2, <1>3, <1>4, <1>5 DEF p

LEMMA PushFrontFollows ==
  ASSUME NEW q \in Contents, NEW d \in Deliveries
  PROVE  Follows(PushFront(q, d), q, Deliveries \ {d})
<1> DEFINE p == PushFront(q, d)
<1>1. /\ p \in Contents
      /\ p.inFlight = q.inFlight
      /\ Len(q.queued) \in Nat
      /\ Len(p.queued) = Len(q.queued) + 1
      /\ p.queued[1] = d
      /\ \A i \in 1..Len(p.queued) :
           i # 1 => /\ i - 1 \in 1..Len(q.queued)
                    /\ p.queued[i] = q.queued[i - 1]
  BY PushFrontIndices
<1> HIDE DEF p
<1>2. ASSUME NEW a \in Deliveries \ {d}, NEW b \in Deliveries \ {d},
             Before(p, a, b)
      PROVE  Before(q, a, b)
  <2>1. ASSUME Ahead(p.queued, a, b)
        PROVE  Ahead(q.queued, a, b)
    <3>1. PICK i \in 1..Len(p.queued), j \in 1..Len(p.queued) :
            i < j /\ p.queued[i] = a /\ p.queued[j] = b
      BY <2>1 DEF Ahead
    <3>2. i # 1 /\ j # 1
      BY <1>1, <3>1
    <3>3. /\ i - 1 \in 1..Len(q.queued) /\ j - 1 \in 1..Len(q.queued)
          /\ q.queued[i - 1] = p.queued[i] /\ q.queued[j - 1] = p.queued[j]
      BY <1>1, <3>2
    <3>4. i - 1 < j - 1
      BY <1>1, <3>1
    <3> QED
      BY <3>1, <3>3, <3>4 DEF Ahead
  <2>2. b \in Queued(p) => b \in Queued(q)
    BY <1>1 DEF Queued
  <2> QED
    BY <1>1, <1>2, <2>1, <2>2, BeforeIs
<1> QED
  BY <1>2 DEF Follows, p

LEMMA ClaimFollows ==
  ASSUME NEW q \in Contents, q.inFlight = None, q.queued # <<>>, Distinct(q)
  PROVE  Follows([queued |-> Tail(q.queued), inFlight |-> Head(q.queued)], q,
                 Deliveries)
<1> DEFINE p == [queued |-> Tail(q.queued), inFlight |-> Head(q.queued)]
<1>1. /\ p.queued = Tail(q.queued)
      /\ p.inFlight = q.queued[1]
      /\ Len(q.queued) \in Nat \ {0}
      /\ p \in Contents
  BY DEF Contents
<1>2. /\ Len(p.queued) = Len(q.queued) - 1
      /\ \A i \in 1..Len(p.queued) : /\ p.queued[i] = q.queued[i + 1]
                                     /\ i + 1 \in 1..Len(q.queued)
  BY <1>1 DEF Contents
<1> HIDE DEF p
<1>3. ASSUME NEW a \in Deliveries, NEW b \in Deliveries, Before(p, a, b)
      PROVE  Before(q, a, b)
  <2>1. CASE p.inFlight = a /\ b \in Queued(p)
    <3>1. PICK j \in 1..Len(p.queued) : p.queued[j] = b
      BY <2>1 DEF Queued
    <3>2. /\ 1 \in 1..Len(q.queued) /\ j + 1 \in 1..Len(q.queued) /\ 1 < j + 1
          /\ q.queued[1] = a /\ q.queued[j + 1] = b
      BY <1>1, <1>2, <2>1, <3>1
    <3>3. Ahead(q.queued, a, b)
      BY <3>2 DEF Ahead
    <3> QED
      BY <3>3, BeforeIs
  <2>2. CASE Ahead(p.queued, a, b)
    <3>1. PICK i \in 1..Len(p.queued), j \in 1..Len(p.queued) :
            i < j /\ p.queued[i] = a /\ p.queued[j] = b
      BY <2>2 DEF Ahead
    <3>2. /\ i + 1 \in 1..Len(q.queued) /\ j + 1 \in 1..Len(q.queued)
          /\ i + 1 < j + 1
          /\ q.queued[i + 1] = a /\ q.queued[j + 1] = b
      BY <1>2, <3>1
    <3>3. Ahead(q.queued, a, b)
      BY <3>2 DEF Ahead
    <3> QED
      BY <3>3, BeforeIs
  <2> QED
    BY <1>1, <1>3, <2>1, <2>2, BeforeIs
<1> QED
  BY <1>3 DEF Follows, p

\* The delivery in flight goes back to the front.
LEMMA ReleaseFollows ==
  ASSUME NEW q \in Contents, q.inFlight \in Deliveries, Distinct(q)
  PROVE  Follows(PushFront([q EXCEPT !.inFlight = None], q.inFlight), q,
                 Deliveries)
<1> DEFINE t == [q EXCEPT !.inFlight = None]
           d == q.inFlight
<1>1. t \in Contents /\ t.queued = q.queued /\ t.inFlight = None
  BY DEF Contents
<1> HIDE DEF t
<1>2. PICK p : p = PushFront(t, d)
  OBVIOUS
<1>3. /\ p \in Contents
      /\ p.inFlight = None
      /\ Len(q.queued) \in Nat
      /\ Len(p.queued) = Len(q.queued) + 1
      /\ p.queued[1] = d
      /\ \A i \in 1..Len(p.queued) :
           i # 1 => /\ i - 1 \in 1..Len(q.queued)
                    /\ p.queued[i] = q.queued[i - 1]
  BY <1>1, <1>2, PushFrontIndices
<1>4. ASSUME NEW a \in Deliveries, NEW b \in Deliveries, Before(p, a, b)
      PROVE  Before(q, a, b)
  <2>1. Ahead(p.queued, a, b)
    BY <1>3, <1>4, BeforeIs, NoneAssumption
  <2>2. PICK i \in 1..Len(p.queued), j \in 1..Len(p.queued) :
          i < j /\ p.queued[i] = a /\ p.queued[j] = b
    BY <2>1 DEF Ahead
  <2>3. j - 1 \in 1..Len(q.queued) /\ q.queued[j - 1] = b
    BY <1>3, <2>2
  <2>4. CASE i = 1
    <3>1. q.inFlight = a /\ b \in Queued(q)
      BY <1>3, <2>2, <2>3, <2>4 DEF Queued
    <3> QED
      BY <3>1, BeforeIs
  <2>5. CASE i # 1
    <3>1. i - 1 \in 1..Len(q.queued) /\ q.queued[i - 1] = a /\ i - 1 < j - 1
      BY <1>3, <2>2, <2>5
    <3>2. Ahead(q.queued, a, b)
      BY <2>3, <3>1 DEF Ahead
    <3> QED
      BY <3>2, BeforeIs
  <2> QED
    BY <2>4, <2>5
<1> QED
  BY <1>2, <1>4 DEF Follows, t

\* What only takes deliveries away keeps the order of the rest.
LEMMA LessFollows ==
  ASSUME NEW q \in Contents, Distinct(q)
  PROVE  /\ Follows([q EXCEPT !.inFlight = None], q, Deliveries)
         /\ Follows([queued |-> <<>>, inFlight |-> q.inFlight], q, Deliveries)
         /\ Follows(Empty, q, Deliveries)
         /\ q.queued # <<>> =>
              Follows([q EXCEPT !.queued = FrontOf(@)], q, Deliveries)
<1>1. /\ q.queued \in Seq(Deliveries) /\ Len(q.queued) \in Nat
      /\ q.inFlight \in Deliveries \cup {None}
      /\ None \notin Deliveries
  BY NoneAssumption DEF Contents
<1>2. ASSUME NEW p \in Contents, p.queued = <<>>
      PROVE  Follows(p, q, Deliveries)
  <2>1. Len(p.queued) = 0
    BY <1>2
  <2>2. Queued(p) = {} /\ \A a, b \in Deliveries : ~ Ahead(p.queued, a, b)
    BY <2>1 DEF Queued, Ahead
  <2> QED
    BY <2>2, BeforeIs DEF Follows
<1>3. ASSUME NEW p \in Contents, p.inFlight = None, p.queued = q.queued
      PROVE  Follows(p, q, Deliveries)
  BY <1>1, <1>3, BeforeIs DEF Follows
<1>4. ASSUME NEW p \in Contents, p.inFlight = q.inFlight,
             Len(p.queued) <= Len(q.queued), Len(p.queued) \in Nat,
             \A i \in 1..Len(p.queued) : p.queued[i] = q.queued[i]
      PROVE  Follows(p, q, Deliveries)
  <2>1. \A i \in 1..Len(p.queued) : i \in 1..Len(q.queued)
    BY <1>1, <1>4
  <2>2. Queued(p) \subseteq Queued(q)
    BY <1>4, <2>1 DEF Queued
  <2>3. \A a, b \in Deliveries : Ahead(p.queued, a, b) => Ahead(q.queued, a, b)
    BY <1>4, <2>1 DEF Ahead
  <2> QED
    BY <1>4, <2>2, <2>3, BeforeIs DEF Follows
<1>5. Follows([q EXCEPT !.inFlight = None], q, Deliveries)
  <2>1. PICK p : p = [q EXCEPT !.inFlight = None]
    OBVIOUS
  <2>2. p \in Contents /\ p.inFlight = None /\ p.queued = q.queued
    BY <2>1 DEF Contents
  <2> QED
    BY <1>3, <2>1, <2>2
<1>6. Follows([queued |-> <<>>, inFlight |-> q.inFlight], q, Deliveries)
  <2>1. PICK p : p = [queued |-> <<>>, inFlight |-> q.inFlight]
    OBVIOUS
  <2>2. p \in Contents /\ p.queued = <<>>
    BY <1>1, <2>1 DEF Contents
  <2> QED
    BY <1>2, <2>1, <2>2
<1>7. Follows(Empty, q, Deliveries)
  <2>1. Empty \in Contents /\ Empty.queued = <<>>
    BY EmptyContent DEF Empty
  <2> QED
    BY <1>2, <2>1
<1>8. ASSUME q.queued # <<>>
      PROVE  Follows([q EXCEPT !.queued = FrontOf(@)], q, Deliveries)
  <2>1. PICK p : p = [q EXCEPT !.queued = FrontOf(@)]
    OBVIOUS
  <2>2. p \in Contents
    BY <1>8, <2>1, PoppedContent
  <2>3. /\ p.inFlight = q.inFlight
        /\ p.queued = SubSeq(q.queued, 1, Len(q.queued) - 1)
    BY <2>1 DEF Contents, FrontOf
  <2>4. Len(q.queued) \in Nat \ {0}
    BY <1>1, <1>8
  <2>5. /\ Len(p.queued) = Len(q.queued) - 1
        /\ \A i \in 1..Len(p.queued) : p.queued[i] = q.queued[i]
    BY <1>1, <2>3, <2>4
  <2>6. Len(p.queued) \in Nat /\ Len(p.queued) <= Len(q.queued)
    BY <2>4, <2>5
  <2>7. Follows(p, q, Deliveries)
    BY <1>4, <2>2, <2>3, <2>5, <2>6
  <2> QED
    BY <2>1, <2>7
<1> QED
  BY <1>5, <1>6, <1>7, <1>8

-----------------------------------------------------------------------------
(* Order over every content a restart may find. *)

\* Two accepted deliveries stand in the same order in all of them.
SameOrder ==
  \A a, b \in owed, p, q \in OnDisk : Before(p, a, b) => ~ Before(q, b, a)

\* While an external commit runs, the file that holds its delivery is the
\* only one.
CommittingAlone == committing # None => stable = {mem}

\* A damaged file has no other content to go back to.
CorruptAlone == Corrupt \in stable => stable = {Corrupt}

OrderInv ==
  /\ IInv
  /\ SameOrder
  /\ CommittingAlone
  /\ CorruptAlone

\* The two ways a step changes what a restart finds.  A rewrite puts the
\* content new in the place of mem, for sure or not; only the deliveries of S
\* may come or go.
Written(new, S) ==
  /\ disk = mem /\ mem \in OnDisk /\ Distinct(mem)
  /\ disk' = new
  /\ new \in Contents /\ Distinct(new)
  /\ OnDisk' = {new} \/ OnDisk' = OnDisk \cup {new}
  /\ Corrupt \notin stable'
  /\ \A d \in Deliveries \ S : d \in Items(new) <=> d \in Items(mem)
  /\ Follows(new, mem, owed)
  /\ owed' \subseteq owed \/ OnDisk' = {new}

\* Or some of the contents are found not to be there, and none is new.
Narrowed ==
  /\ OnDisk' \subseteq OnDisk
  /\ OnDisk = {} \/ OnDisk' # {}
  /\ disk' = disk \/ disk' \in OnDisk
  /\ owed' \subseteq owed

LEMMA OnDiskContents ==
  ASSUME IInv
  PROVE  /\ \A q \in OnDisk : q \in Contents /\ Distinct(q)
         /\ owed \subseteq Deliveries
BY DEF IInv, TypeOK, OnDisk, NoDuplicates, Readable

LEMMA WrittenKeepsOrder ==
  ASSUME OrderInv, IInv', NEW new, NEW S, Written(new, S)
  PROVE  SameOrder' /\ CorruptAlone' /\ OrderKept
<1>1. /\ \A q \in OnDisk : q \in Contents /\ Distinct(q)
      /\ owed \subseteq Deliveries
      /\ owed' \subseteq Deliveries
      /\ mem \in Contents /\ new \in Contents
      /\ mem \in OnDisk
  BY OnDiskContents DEF OrderInv, IInv, TypeOK, Written
<1>2. ASSUME NEW a \in owed, NEW b \in owed, NEW p \in OnDisk,
             Before(new, a, b)
      PROVE  ~ Before(p, b, a)
  <2>1. Before(mem, a, b)
    BY <1>2 DEF Written, Follows
  <2> QED
    BY <1>1, <2>1 DEF OrderInv, SameOrder
<1>3. ASSUME NEW a \in Deliveries, NEW b \in Deliveries, Before(new, a, b)
      PROVE  ~ Before(new, b, a)
  BY <1>1, <1>3, BeforeIsStrict DEF Written
<1>4. ASSUME NEW a \in owed', NEW b \in owed', NEW p \in OnDisk',
             NEW q \in OnDisk', Before(p, a, b), Before(q, b, a)
      PROVE  FALSE
  <2>1. CASE p = new /\ q = new
    BY <1>1, <1>3, <1>4, <2>1
  <2>2. CASE p # new \/ q # new
    <3>1. a \in owed /\ b \in owed
      BY <1>4, <2>2 DEF Written
    <3>2. p \in OnDisk \cup {new} /\ q \in OnDisk \cup {new}
      BY <1>4 DEF Written
    <3>3. CASE p = new /\ q # new
      BY <1>2, <1>4, <3>1, <3>2, <3>3
    <3>4. CASE p # new /\ q = new
      BY <1>2, <1>4, <3>1, <3>2, <3>4
    <3>5. CASE p # new /\ q # new
      BY <1>4, <3>1, <3>2, <3>5 DEF OrderInv, SameOrder
    <3> QED
      BY <2>2, <3>3, <3>4, <3>5
  <2> QED
    BY <2>1, <2>2
<1>5. SameOrder'
  BY <1>4 DEF SameOrder
<1>6. OrderKept
  BY <1>1, <1>2 DEF OrderKept, Written
<1> QED
  BY <1>5, <1>6 DEF CorruptAlone, Written

LEMMA NarrowedKeepsOrder ==
  ASSUME OrderInv, IInv', Narrowed
  PROVE  SameOrder' /\ OrderKept
<1>1. SameOrder'
  BY DEF OrderInv, SameOrder, Narrowed
<1>2. ASSUME NEW a \in owed, NEW b \in owed,
             disk # Corrupt, disk' # Corrupt, Before(disk, a, b)
      PROVE  ~ Before(disk', b, a)
  <2>1. disk \in OnDisk
    BY <1>2 DEF OrderInv, IInv, OnDisk
  <2>2. disk' \in OnDisk
    BY <2>1 DEF Narrowed
  <2> QED
    BY <1>2, <2>1, <2>2 DEF OrderInv, SameOrder
<1> QED
  BY <1>1, <1>2 DEF OrderKept

-----------------------------------------------------------------------------
(* What the same two steps are to the promise. *)

LEMMA FateType ==
  /\ \A d \in Deliveries : Fate(d) \in {"in", "unsure", "out"}
  /\ \A d \in Deliveries : Fate(d)' \in {"in", "unsure", "out"}
BY DEF Fate

LEMMA OthersKeptIs ==
  ASSUME NEW S, \A d \in Deliveries \ S : Fate(d) \in {Fate(d)', "unsure"}
  PROVE  Promise!OthersKept(S)
BY FateType DEF Promise!OthersKept, Promise!Fates

LEMMA WrittenKeepsFates ==
  ASSUME NEW new, NEW S, Written(new, S)
  PROVE  Promise!OthersKept(S)
<1>1. /\ mem \in OnDisk
      /\ OnDisk' = {new} \/ OnDisk' = OnDisk \cup {new}
      /\ \A d \in Deliveries \ S : d \in Items(new) <=> d \in Items(mem)
  BY DEF Written
<1>2. ASSUME NEW d \in Deliveries \ S
      PROVE  Fate(d) \in {Fate(d)', "unsure"}
  <2>1. d \in Items(new) <=> d \in Items(mem)
    BY <1>1
  <2>2. CASE \A q \in OnDisk : d \in Items(q)
    <3>1. \A q \in OnDisk' : d \in Items(q)
      BY <1>1, <2>1, <2>2
    <3> QED
      BY <2>2, <3>1 DEF Fate
  <2>3. CASE \A q \in OnDisk : d \notin Items(q)
    <3>1. /\ \A q \in OnDisk' : d \notin Items(q)
          /\ new \in OnDisk'
      BY <1>1, <2>1, <2>3
    <3> QED
      BY <1>1, <2>3, <3>1 DEF Fate
  <2>4. CASE /\ \E q \in OnDisk : d \in Items(q)
             /\ \E q \in OnDisk : d \notin Items(q)
    BY <2>4 DEF Fate
  <2> QED
    BY <2>2, <2>3, <2>4
<1> QED
  BY <1>2, OthersKeptIs

LEMMA NarrowedKeepsFates ==
  ASSUME Narrowed
  PROVE  Promise!OthersKept({})
<1>1. /\ OnDisk' \subseteq OnDisk
      /\ OnDisk = {} \/ OnDisk' # {}
  BY DEF Narrowed
<1>2. ASSUME NEW d \in Deliveries
      PROVE  Fate(d) \in {Fate(d)', "unsure"}
  BY <1>1 DEF Fate
<1> QED
  BY <1>2, OthersKeptIs

\* A delivery in every content a restart may find, and one in none.
LEMMA SureFates ==
  ASSUME NEW d \in Deliveries
  PROVE  /\ (\A q \in OnDisk : d \in Items(q)) => Fate(d) = "in"
         /\ (\A q \in OnDisk' : d \in Items(q)) => Fate(d)' = "in"
         /\ (\A q \in OnDisk' : d \notin Items(q)) /\ OnDisk' # {}
              => Fate(d)' = "out"
BY DEF Fate

-----------------------------------------------------------------------------
(* Every step is one of the two. *)

LEMMA WriteIsWritten ==
  ASSUME OrderInv, phase = "up", ~ loadError, ~ CorruptQueue, committing = None \/ stable = {mem},
         NEW new \in Contents, Distinct(new), NEW S,
         \A d \in Deliveries \ S : d \in Items(new) <=> d \in Items(mem),
         Follows(new, mem, owed),
         Commit(new) \/ (disk' = new /\ PersistFailsAfter(new)),
         owed' \subseteq owed \/ (Commit(new) /\ ~ NothingToRemove(new))
  PROVE  /\ Written(new, S)
         /\ ~ NothingToRemove(new) /\ Commit(new) =>
              OnDisk' = {new} /\ stable' = {new} /\ mem' = new
<1>1. /\ disk = mem /\ mem \in OnDisk /\ Distinct(mem)
  BY MemoryIsDisk DEF OrderInv
<1>2. Corrupt \notin stable
  BY <1>1 DEF OrderInv, CorruptAlone, OnDisk
<1>3. new # Corrupt
  BY CorruptAssumption
<1>4. CASE Commit(new) /\ NothingToRemove(new)
  <2>1. stable' = stable /\ disk' = new /\ new = mem
    BY <1>1, <1>4 DEF Commit, PersistOk, NothingToRemove
  <2> QED
    BY <1>1, <1>2, <1>4, <2>1 DEF Written, OnDisk
<1>5. CASE Commit(new) /\ ~ NothingToRemove(new)
  <2>1. stable' = {new} /\ disk' = new /\ mem' = new
    BY <1>5 DEF Commit, PersistOk
  <2> QED
    BY <1>1, <1>3, <1>5, <2>1 DEF Written, OnDisk
<1>6. CASE disk' = new /\ PersistFailsAfter(new) /\ ~ Commit(new)
  <2>1. stable' = stable \cup {new}
    BY <1>6 DEF PersistFailsAfter
  <2> QED
    BY <1>1, <1>2, <1>3, <1>6, <2>1 DEF Written, OnDisk
<1> QED
  BY <1>4, <1>5, <1>6

\* A step of the queue keeps the order, and is one the promise allows.
Kept ==
  /\ SameOrder' /\ CommittingAlone' /\ CorruptAlone'
  /\ OrderKept
  /\ Promise!Call

LEMMA EnqueueKept ==
  ASSUME OrderInv, IInv',
         NEW c \in Callers, NEW d \in Deliveries,
         EnqueueBack(c, d) \/ EnqueueNext(c, d) \/ EnqueueExisting(c, d)
  PROVE  Kept
<1>1. /\ Enter(c) /\ d \notin Items(mem)
      /\ UNCHANGED <<committing, echoed>>
  BY DEF EnqueueBack, EnqueueNext, EnqueueExisting, Enqueue, Fresh, Readable
<1>2. /\ phase = "up" /\ ~ loadError /\ ~ CorruptQueue
      /\ committing = None
  BY <1>1, Held DEF OrderInv
<1>3. /\ mem \in Contents /\ Distinct(mem)
      /\ owed \subseteq Items(mem)
      /\ owed \subseteq Deliveries
  BY <1>2, MemoryIsDisk DEF OrderInv, IInv, TypeOK
<1>4. PICK new \in {PushBack(mem, d), PushFront(mem, d)} :
        \/ Commit(new) /\ Accepted(d)
        \/ Indeterminate(new) /\ Doubtful(d)
  BY DEF EnqueueBack, EnqueueNext, EnqueueExisting, Enqueue
<1>5. new \in Contents /\ Distinct(new) /\ Items(new) = Items(mem) \cup {d}
  BY <1>1, <1>3, <1>4, PushBackContent, PushFrontContent
<1>6. ~ NothingToRemove(new)
  BY <1>5, EmptyContent DEF NothingToRemove
<1>7. Follows(new, mem, owed)
  <2>1. Follows(new, mem, Deliveries \ {d})
    BY <1>3, <1>4, PushBackFollows, PushFrontFollows
  <2> QED
    BY <1>1, <1>3, <2>1 DEF Follows
<1>8. \A e \in Deliveries \ {d} : e \in Items(new) <=> e \in Items(mem)
  BY <1>5
<1>9. CommittingAlone'
  BY <1>1, <1>2 DEF CommittingAlone
<1>10. CASE Commit(new) /\ Accepted(d)
  <2>1. Written(new, {d}) /\ OnDisk' = {new}
    BY <1>2, <1>5, <1>6, <1>7, <1>8, <1>10, WriteIsWritten
  <2>2. Promise!OthersKept({d}) /\ SameOrder' /\ CorruptAlone' /\ OrderKept
    BY <2>1, WrittenKeepsFates, WrittenKeepsOrder
  <2>3. Fate(d)' = "in"
    BY <1>5, <2>1, SureFates
  <2>4. Promise!Accept(d)
    BY <1>10, <2>2, <2>3 DEF Accepted, Promise!Accept
  <2> QED
    BY <1>9, <2>2, <2>4 DEF Kept, Promise!Call
<1>11. CASE Indeterminate(new) /\ Doubtful(d)
  <2>1. Written(new, {d})
    BY <1>2, <1>5, <1>6, <1>7, <1>8, <1>11, WriteIsWritten
    DEF Indeterminate, PersistFailsAfter, Doubtful
  <2>2. Promise!OthersKept({d}) /\ SameOrder' /\ CorruptAlone' /\ OrderKept
    BY <2>1, WrittenKeepsFates, WrittenKeepsOrder
  <2>3. Promise!Doubt(d)
    BY <1>1, <1>3, <1>11, <2>2 DEF Doubtful, Promise!Doubt
  <2> QED
    BY <1>9, <2>2, <2>3 DEF Kept, Promise!Call
<1> QED
  BY <1>4, <1>10, <1>11

LEMMA EnqueueCommittedKept ==
  ASSUME OrderInv, IInv',
         NEW c \in Callers, NEW d \in Deliveries, EnqueueCommitted(c, d)
  PROVE  Kept
<1> DEFINE new == PushBack(mem, d)
<1>1. /\ Enter(c) /\ d \notin Items(mem) /\ Doubtful(d)
      /\ \/ Commit(new) /\ committing' = d
         \/ Indeterminate(new) /\ UNCHANGED committing
  BY DEF EnqueueCommitted
<1>2. /\ phase = "up" /\ ~ loadError /\ ~ CorruptQueue
      /\ committing = None
  BY <1>1, Held DEF OrderInv
<1>3. /\ mem \in Contents /\ Distinct(mem)
      /\ owed \subseteq Items(mem)
      /\ owed \subseteq Deliveries
  BY <1>2, MemoryIsDisk DEF OrderInv, IInv, TypeOK
<1>4. new \in Contents /\ Distinct(new) /\ Items(new) = Items(mem) \cup {d}
  BY <1>1, <1>3, PushBackContent
<1>5. Follows(new, mem, owed)
  <2>1. Follows(new, mem, Deliveries \ {d})
    BY <1>3, PushBackFollows
  <2> QED
    BY <1>1, <1>3, <2>1 DEF Follows
<1> HIDE DEF new
<1>6. ~ NothingToRemove(new)
  BY <1>4, EmptyContent DEF NothingToRemove
<1>7. \A e \in Deliveries \ {d} : e \in Items(new) <=> e \in Items(mem)
  BY <1>4
<1>8. owed' = owed
  BY <1>1 DEF Doubtful
<1>9. /\ Written(new, {d})
      /\ Commit(new) => stable' = {new} /\ mem' = new
  BY <1>1, <1>2, <1>4, <1>5, <1>6, <1>7, <1>8, WriteIsWritten
  DEF Indeterminate, PersistFailsAfter
<1>10. Promise!OthersKept({d}) /\ SameOrder' /\ CorruptAlone' /\ OrderKept
  BY <1>9, WrittenKeepsFates, WrittenKeepsOrder
<1>11. CommittingAlone'
  BY <1>1, <1>2, <1>9 DEF CommittingAlone
<1>12. Promise!Doubt(d)
  BY <1>1, <1>3, <1>10 DEF Doubtful, Promise!Doubt
<1> QED
  BY <1>10, <1>11, <1>12 DEF Kept, Promise!Call

\* claim and release: the same deliveries in another place.
LEMMA MovedKept ==
  ASSUME OrderInv, IInv', NEW c \in Callers,
         Claim(c) \/ \E d \in Deliveries : Release(c, d)
  PROVE  Kept
<1>1. Enter(c) /\ UNCHANGED <<committing, owed, echoed, done>>
  BY DEF Claim, Release, history
<1>2. /\ phase = "up" /\ ~ loadError /\ ~ CorruptQueue
      /\ committing = None
  BY <1>1, Held DEF OrderInv
<1>3. /\ mem \in Contents /\ Distinct(mem) /\ owed \subseteq Deliveries
  BY <1>2, MemoryIsDisk DEF OrderInv, IInv, TypeOK
<1>4. PICK new \in Contents :
        /\ Distinct(new) /\ Items(new) = Items(mem)
        /\ Follows(new, mem, Deliveries)
        /\ Commit(new) \/ Indeterminate(new)
  <2>1. CASE Claim(c)
    <3> DEFINE p == [queued |-> Tail(mem.queued), inFlight |-> Head(mem.queued)]
    <3>1. /\ mem.inFlight = None /\ mem.queued # <<>>
          /\ Commit(p) \/ Indeterminate(p)
      BY <2>1 DEF Claim
    <3>2. /\ p \in Contents /\ Distinct(p) /\ Items(p) = Items(mem)
          /\ Follows(p, mem, Deliveries)
      BY <1>3, <3>1, ClaimContent, ClaimFollows
    <3> HIDE DEF p
    <3> QED
      BY <3>1, <3>2
  <2>2. ASSUME NEW d \in Deliveries, Release(c, d)
        PROVE  \E new \in Contents :
                 /\ Distinct(new) /\ Items(new) = Items(mem)
                 /\ Follows(new, mem, Deliveries)
                 /\ Commit(new) \/ Indeterminate(new)
    <3> DEFINE t == [mem EXCEPT !.inFlight = None]
               p == PushFront(t, d)
    <3>1. /\ mem.inFlight = d
          /\ Commit(p) \/ Indeterminate(p)
      BY <2>2 DEF Release
    <3>2. Follows(p, mem, Deliveries)
      BY <1>3, <3>1, ReleaseFollows
    <3>3. /\ t \in Contents /\ Distinct(t)
          /\ Items(t) = Items(mem) \ {d}
      BY <1>3, <3>1, NoneAssumption, TakenContent
    <3>4. d \in Items(mem)
      BY <3>1, NoneAssumption DEF Items
    <3> HIDE DEF t
    <3>5. /\ p \in Contents /\ Distinct(p)
          /\ Items(p) = Items(t) \cup {d}
      BY <3>3, PushFrontContent
    <3> HIDE DEF p
    <3>6. Items(p) = Items(mem)
      BY <3>3, <3>4, <3>5
    <3> QED
      BY <3>1, <3>2, <3>5, <3>6
  <2> QED
    BY <2>1, <2>2
<1>5. Follows(new, mem, owed)
  BY <1>3, <1>4 DEF Follows
<1>6. Written(new, {})
  BY <1>1, <1>2, <1>4, <1>5, WriteIsWritten DEF Indeterminate, PersistFailsAfter
<1>7. Promise!OthersKept({}) /\ SameOrder' /\ CorruptAlone' /\ OrderKept
  BY <1>6, WrittenKeepsFates, WrittenKeepsOrder
<1>8. CommittingAlone'
  BY <1>1, <1>2 DEF CommittingAlone
<1>9. Promise!Recover
  BY <1>1, <1>7 DEF Promise!Recover
<1> QED
  BY <1>7, <1>8, <1>9 DEF Kept, Promise!Call

\* acknowledge, clear and clear_queued: the deliveries S leave the queue.
LEMMA ConsumeKept ==
  ASSUME OrderInv, IInv',
         NEW c \in Callers, Enter(c), UNCHANGED committing,
         NEW S \in SUBSET Deliveries, S \subseteq Items(mem),
         NEW new \in Contents, Distinct(new), Items(new) = Items(mem) \ S,
         Follows(new, mem, Deliveries),
         \/ Commit(new) /\ Consumed(S)
         \/ Indeterminate(new) /\ Dropped(S)
  PROVE  Kept
<1>1. /\ phase = "up" /\ ~ loadError /\ ~ CorruptQueue
      /\ committing = None
  BY Held DEF OrderInv
<1>2. /\ disk = mem
      /\ owed \subseteq Deliveries
      /\ done \cap Items(mem) = {}
  BY <1>1, MemoryIsDisk DEF OrderInv, IInv, TypeOK
<1>3. owed' = owed \ S
  BY DEF Consumed, Dropped
<1>4. Follows(new, mem, owed)
  BY <1>2 DEF Follows
<1>5. \A d \in Deliveries \ S : d \in Items(new) <=> d \in Items(mem)
  OBVIOUS
<1>6. /\ Written(new, S)
      /\ ~ NothingToRemove(new) /\ Commit(new) => OnDisk' = {new}
  BY <1>1, <1>3, <1>4, <1>5, WriteIsWritten DEF Indeterminate, PersistFailsAfter
<1>7. Promise!OthersKept(S) /\ SameOrder' /\ CorruptAlone' /\ OrderKept
  BY <1>6, WrittenKeepsFates, WrittenKeepsOrder
<1>8. CommittingAlone'
  BY <1>1 DEF CommittingAlone
<1>9. CASE Commit(new) /\ Consumed(S)
  <2>1. \A d \in S : Fate(d)' = "out"
    <3>1. CASE NothingToRemove(new)
      BY <1>2, <3>1, EmptyContent DEF NothingToRemove
    <3>2. CASE ~ NothingToRemove(new)
      BY <1>6, <1>9, <3>2, SureFates
    <3> QED
      BY <3>1, <3>2
  <2>2. Promise!Consume(S)
    BY <1>7, <1>9, <2>1 DEF Consumed, Promise!Consume
  <2> QED
    BY <1>7, <1>8, <2>2 DEF Kept, Promise!Call
<1>10. CASE Indeterminate(new) /\ Dropped(S)
  <2>1. Promise!Drop(S)
    BY <1>2, <1>7, <1>10 DEF Dropped, Promise!Drop
  <2> QED
    BY <1>7, <1>8, <2>1 DEF Kept, Promise!Call
<1> QED
  BY <1>9, <1>10

LEMMA ConsumersKept ==
  ASSUME OrderInv, IInv', NEW c \in Callers,
         \/ \E d \in Deliveries : Acknowledge(c, d)
         \/ Clear(c)
         \/ ClearQueued(c)
  PROVE  Kept
<1>1. Enter(c) /\ UNCHANGED committing
  BY DEF Acknowledge, Clear, ClearQueued
<1>2. /\ mem \in Contents /\ Distinct(mem)
      /\ Items(mem) \subseteq Deliveries /\ Queued(mem) \subseteq Deliveries
  <2>1. mem \in Contents /\ Distinct(mem)
    BY <1>1, Held, MemoryIsDisk DEF OrderInv
  <2> QED
    BY <2>1 DEF Contents, Items, Queued
<1>3. /\ Follows([mem EXCEPT !.inFlight = None], mem, Deliveries)
      /\ Follows([queued |-> <<>>, inFlight |-> mem.inFlight], mem, Deliveries)
      /\ Follows(Empty, mem, Deliveries)
  BY <1>2, LessFollows
<1>4. ASSUME NEW d \in Deliveries, Acknowledge(c, d)
      PROVE  Kept
  <2> DEFINE new == [mem EXCEPT !.inFlight = None]
  <2>1. /\ mem.inFlight = d
        /\ \/ Commit(new) /\ Consumed({d})
           \/ Indeterminate(new) /\ Dropped({d})
    BY <1>4 DEF Acknowledge
  <2>2. new \in Contents /\ Distinct(new) /\ Items(new) = Items(mem) \ {d}
    BY <1>2, <2>1, NoneAssumption, TakenContent
  <2>3. {d} \subseteq Items(mem)
    BY <2>1, NoneAssumption DEF Items
  <2>4. Follows(new, mem, Deliveries)
    BY <1>3
  <2> HIDE DEF new
  <2> QED
    BY <1>1, <2>1, <2>2, <2>3, <2>4, ConsumeKept
<1>5. CASE Clear(c)
  <2>1. \/ Commit(Empty) /\ Consumed(Items(mem))
        \/ Indeterminate(Empty) /\ Dropped(Items(mem))
    BY <1>5 DEF Clear
  <2>2. Items(Empty) = Items(mem) \ Items(mem)
    BY EmptyContent
  <2> QED
    BY <1>1, <1>2, <1>3, <2>1, <2>2, EmptyContent, ConsumeKept
<1>6. CASE ClearQueued(c)
  <2> DEFINE new == [queued |-> <<>>, inFlight |-> mem.inFlight]
  <2>1. \/ Commit(new) /\ Consumed(Queued(mem))
        \/ Indeterminate(new) /\ Dropped(Queued(mem))
    BY <1>6 DEF ClearQueued
  <2>2. /\ new \in Contents /\ Distinct(new)
        /\ Items(new) = Items(mem) \ Queued(mem)
    BY <1>2, ClearedContent
  <2>3. Queued(mem) \subseteq Items(mem)
    BY DEF Items
  <2>4. Follows(new, mem, Deliveries)
    BY <1>3
  <2> HIDE DEF new
  <2> QED
    BY <1>1, <1>2, <2>1, <2>2, <2>3, <2>4, ConsumeKept
<1> QED
  BY <1>4, <1>5, <1>6

LEMMA ExternalCommitOkKept ==
  ASSUME OrderInv, IInv', ExternalCommitOk
  PROVE  Kept
<1>1. /\ committing \in Deliveries
      /\ committing # None
      /\ \A q \in OnDisk : committing \in Items(q)
      /\ mem.queued # <<>>
  BY DEF ExternalCommitOk, OrderInv, IInv, TypeOK, CommittingIsLast
<1>2. /\ Accepted(committing)
      /\ committing' = None
      /\ UNCHANGED <<mem, disk, stable>>
  BY DEF ExternalCommitOk, qvars
<1>3. phase = "up" /\ ~ loadError /\ ~ CorruptQueue
  BY <1>1 DEF OrderInv, IInv, Quiet, TypeOK
<1>4. /\ disk = mem /\ mem \in Contents /\ mem \in OnDisk /\ Distinct(mem)
  BY <1>3, MemoryIsDisk DEF OrderInv
<1>5. /\ Follows(mem, mem, owed)
      /\ OnDisk' = {mem} /\ Corrupt \notin stable'
  BY <1>1, <1>2, <1>4, CorruptAssumption
  DEF Follows, OrderInv, CommittingAlone, OnDisk
<1>6. Written(mem, {})
  BY <1>2, <1>4, <1>5 DEF Written
<1>7. Promise!OthersKept({committing}) /\ SameOrder' /\ CorruptAlone' /\ OrderKept
  BY <1>6, WrittenKeepsFates, WrittenKeepsOrder DEF Promise!OthersKept
<1>8. PICK d \in Deliveries : d = committing
  BY <1>1
<1>9. Fate(d)' = "in"
  <2>1. \A q \in OnDisk' : d \in Items(q)
    BY <1>1, <1>2, <1>8 DEF OnDisk
  <2> QED
    BY <2>1, SureFates
<1>10. Promise!OthersKept({d}) /\ Accepted(d)
  BY <1>2, <1>7, <1>8
<1>11. Promise!Accept(d)
  BY <1>9, <1>10 DEF Accepted, Promise!Accept
<1>12. CommittingAlone'
  BY <1>2 DEF CommittingAlone
<1> QED
  BY <1>7, <1>11, <1>12 DEF Kept, Promise!Call

LEMMA ExternalCommitFailsKept ==
  ASSUME OrderInv, IInv', ExternalCommitFails
  PROVE  Kept
<1> DEFINE old == [mem EXCEPT !.queued = FrontOf(@)]
<1>1. /\ committing # None /\ committing' = None
      /\ \/ Commit(old)
         \/ UNCHANGED <<mem, disk, stable>>
         \/ disk' = old /\ PersistFailsAfter(old)
      /\ UNCHANGED <<owed, echoed, done>>
  BY DEF ExternalCommitFails, history, PersistFailsAfter
<1>2. /\ phase = "up" /\ ~ loadError /\ ~ CorruptQueue
      /\ mem.queued # <<>>
      /\ mem.queued[Len(mem.queued)] = committing
      /\ committing \notin owed /\ committing \in Deliveries
      /\ stable = {mem}
      /\ \A q \in OnDisk : committing \in Items(q)
  BY <1>1 DEF OrderInv, IInv, Quiet, TypeOK, CommittingIsLast, CommittingAlone
<1>3. /\ disk = mem /\ mem \in Contents /\ mem \in OnDisk /\ Distinct(mem)
      /\ owed \subseteq Deliveries
      /\ done \cap Items(mem) = {}
  BY <1>2, MemoryIsDisk DEF OrderInv, IInv, TypeOK
<1>4. /\ old \in Contents /\ Distinct(old)
      /\ Items(old) = Items(mem) \ {committing}
      /\ Follows(old, mem, Deliveries)
  BY <1>2, <1>3, PoppedContent, LessFollows
<1> HIDE DEF old
<1>5. PICK new : Written(new, {committing})
  <2>1. CASE UNCHANGED <<mem, disk, stable>>
    <3>1. Written(mem, {committing})
      BY <1>1, <1>2, <1>3, <2>1, CorruptAssumption
      DEF Written, Follows, OnDisk, Fate
    <3> QED
      BY <3>1
  <2>2. CASE Commit(old) \/ (disk' = old /\ PersistFailsAfter(old))
    <3>1. Follows(old, mem, owed)
      BY <1>3, <1>4 DEF Follows
    <3>2. Written(old, {committing})
      BY <1>1, <1>2, <1>4, <2>2, <3>1, WriteIsWritten
    <3> QED
      BY <3>2
  <2> QED
    BY <1>1, <2>1, <2>2
<1>6. /\ Promise!OthersKept({committing})
      /\ SameOrder' /\ CorruptAlone' /\ OrderKept
  BY <1>5, WrittenKeepsFates, WrittenKeepsOrder
<1>7. committing \notin done
  BY <1>2, <1>3
<1>8. Promise!Doubt(committing)
  BY <1>1, <1>2, <1>6, <1>7 DEF Promise!Doubt
<1>9. CommittingAlone'
  BY <1>1 DEF CommittingAlone
<1> QED
  BY <1>2, <1>6, <1>8, <1>9 DEF Kept, Promise!Call

\* Steps that promise nothing and write nothing.
LEMMA NarrowedKept ==
  ASSUME OrderInv, IInv', Narrowed, CommittingAlone', CorruptAlone',
         UNCHANGED <<owed, done>>
  PROVE  Kept
<1>1. SameOrder' /\ OrderKept
  BY NarrowedKeepsOrder
<1>2. Promise!OthersKept({})
  BY NarrowedKeepsFates
<1>3. Promise!Recover
  BY <1>2 DEF Promise!Recover
<1> QED
  BY <1>1, <1>3 DEF Kept, Promise!Call

LEMMA IdleKept ==
  ASSUME OrderInv, IInv',
         UNCHANGED <<mem, disk, stable, owed, done>>,
         UNCHANGED committing \/ committing' = None
  PROVE  Kept
<1>1. Narrowed
  BY DEF Narrowed, OnDisk
<1>2. CommittingAlone' /\ CorruptAlone'
  BY DEF OrderInv, CommittingAlone, CorruptAlone
<1> QED
  BY <1>1, <1>2, NarrowedKept

LEMMA RecoveryKept ==
  ASSUME OrderInv, IInv', Recovery
  PROVE  Kept
<1>1. CASE RepairSync
  <2>1. /\ stable' = {disk} /\ disk' = disk /\ mem' = mem
        /\ UNCHANGED <<committing, owed, done>>
    BY <1>1 DEF RepairSync, history
  <2>2. disk \in stable
    BY DEF OrderInv, IInv
  <2>3. OnDisk = {} \/ OnDisk' # {}
    BY <2>1, <2>2 DEF OrderInv, CorruptAlone, OnDisk
  <2>4. Narrowed
    BY <2>1, <2>2, <2>3 DEF Narrowed, OnDisk
  <2>5. CommittingAlone' /\ CorruptAlone'
    BY <2>1, <2>2 DEF OrderInv, CommittingAlone, CorruptAlone
  <2> QED
    BY <2>1, <2>4, <2>5, NarrowedKept
<1>2. CASE RepairCompare \/ RepairUnblock \/ RepairFails
  <2>1. UNCHANGED <<mem, disk, stable, owed, done, committing>>
    BY <1>2 DEF RepairCompare, RepairUnblock, RepairFails, qvars, history
  <2> QED
    BY <2>1, IdleKept
<1> QED
  BY <1>1, <1>2 DEF Recovery

LEMMA LifecycleKept ==
  ASSUME OrderInv, IInv', ~ early, Lifecycle
  PROVE  Kept
<1>1. CASE ProcessCrash \/ PowerLoss
  <2>1. /\ committing' = None
        /\ stable' \subseteq stable /\ disk' \in stable'
        /\ stable' = stable \/ stable' = {disk'}
        /\ disk' = disk \/ disk' \in stable
        /\ UNCHANGED <<owed, done>>
    BY <1>1 DEF ProcessCrash, PowerLoss, Restart, history, OrderInv, IInv
  <2>2. OnDisk = {} \/ OnDisk' # {}
    BY <2>1 DEF OrderInv, CorruptAlone, OnDisk
  <2>3. disk' = disk \/ disk' \in OnDisk
    <3>1. CASE disk' = Corrupt
      BY <2>1, <3>1 DEF OrderInv, IInv, CorruptAlone
    <3>2. CASE disk' # Corrupt
      BY <2>1, <3>2 DEF OnDisk
    <3> QED
      BY <3>1, <3>2
  <2>4. Narrowed
    BY <2>1, <2>2, <2>3 DEF Narrowed, OnDisk
  <2>5. CommittingAlone' /\ CorruptAlone'
    BY <2>1 DEF OrderInv, CommittingAlone, CorruptAlone
  <2> QED
    BY <2>1, <2>4, <2>5, NarrowedKept
<1>2. CASE Damage
  <2>1. /\ disk' = Corrupt /\ stable' = {Corrupt}
        /\ owed' = {} /\ done' = {}
        /\ phase = "restoring" /\ UNCHANGED committing
    BY <1>2 DEF Damage
  <2>2. committing' = None
    BY <2>1 DEF OrderInv, IInv, Quiet
  <2>3. SameOrder' /\ CommittingAlone' /\ CorruptAlone' /\ OrderKept
    BY <2>1, <2>2 DEF SameOrder, CommittingAlone, CorruptAlone, OrderKept
  <2>4. Promise!Damage
    BY <2>1, FateType DEF Promise!Damage, Promise!Fates
  <2> QED
    BY <2>3, <2>4 DEF Kept, Promise!Call
<1>3. CASE RestoreRead \/ RestoreError
  <2>1. UNCHANGED <<mem, disk, stable, owed, done, committing>>
    BY <1>3 DEF RestoreRead, RestoreError, qvars, history
  <2> QED
    BY <2>1, IdleKept
<1>4. CASE RestoreInsert
  <2>1. /\ committing = None
        /\ UNCHANGED <<disk, stable, owed, done, committing>>
    BY <1>4 DEF RestoreInsert, history, OrderInv, IInv, Quiet
  <2>2. Narrowed
    BY <2>1 DEF Narrowed, OnDisk
  <2>3. CommittingAlone' /\ CorruptAlone'
    BY <2>1 DEF OrderInv, CommittingAlone, CorruptAlone
  <2> QED
    BY <2>1, <2>2, <2>3, NarrowedKept
<1> QED
  BY <1>1, <1>2, <1>3, <1>4 DEF Lifecycle

LEMMA NextKept ==
  ASSUME OrderInv, ~ early, ~ early', Next
  PROVE  Kept
<1>1. IInv'
  BY NextKeeps DEF OrderInv
<1>2. ASSUME NEW c \in Callers, Operation(c)
      PROVE  Kept
  <2>1. CASE EnsureAvailable(c) \/ Refuse(c) \/ \E d \in Deliveries : EnqueueDuplicate(c, d)
    <3>1. UNCHANGED <<mem, disk, stable, owed, done, committing>>
      BY <2>1 DEF EnsureAvailable, Refuse, EnqueueDuplicate, qvars, history
    <3> QED
      BY <1>1, <3>1, IdleKept
  <2> QED
    BY <1>1, <1>2, <2>1, EnqueueKept, EnqueueCommittedKept, MovedKept,
       ConsumersKept DEF Operation
<1> QED
  BY <1>1, <1>2, ExternalCommitOkKept, ExternalCommitFailsKept, RecoveryKept,
     LifecycleKept DEF Next

\* A step that changes nothing.
LEMMA StutterKept ==
  ASSUME OrderInv, UNCHANGED vars
  PROVE  SameOrder' /\ CommittingAlone' /\ CorruptAlone'
<1>1. UNCHANGED <<mem, disk, stable, committing, owed, done>>
  BY DEF vars, qvars, history
<1>2. OnDisk' = OnDisk
  BY <1>1 DEF OnDisk
<1> QED
  BY <1>1, <1>2 DEF OrderInv, SameOrder, CommittingAlone, CorruptAlone

LEMMA StutterFates ==
  ASSUME UNCHANGED vars
  PROVE  UNCHANGED Promise!vars
<1>1. UNCHANGED <<stable, owed, done, early>>
  BY DEF vars, qvars, history
<1>2. \A d \in Deliveries : Fate(d)' = Fate(d)
  BY <1>1 DEF Fate, OnDisk
<1> QED
  BY <1>1, <1>2 DEF Promise!vars

-----------------------------------------------------------------------------
(* The whole invariant.  Undisturbed, everything holds; after a request    *)
(* that came in while restore was running, only what Base says, until a    *)
(* restart finds one content again and nobody is owed anything.            *)

Inv ==
  /\ Base
  /\ early \/ OrderInv

LEMMA InitInv == Init => Inv
<1>1. Init => OrderInv
  BY InitIInv, EmptyContent, CorruptAssumption
  DEF Init, OrderInv, SameOrder, CommittingAlone, CorruptAlone
<1>2. Init => scan \notin Contents
  BY NoneAssumption DEF Init
<1> QED
  BY <1>1, <1>2 DEF Inv, Base, OrderInv, IInv

LEMMA UndisturbedKept ==
  ASSUME Inv, ~ early, ~ early', Next
  PROVE  OrderInv' /\ Kept
BY NextKeeps, NextKept DEF Inv, OrderInv, Kept

\* A restart that finds one content takes the promise up again.
LEMMA ResumedKept ==
  ASSUME Inv, early, ~ early', Next
  PROVE  OrderInv' /\ Promise!Resume
<1>1. ProcessCrash \/ PowerLoss
  BY DEF Next, Operation, EnsureAvailable, Refuse, Claim, Clear, ClearQueued,
         EnqueueBack, EnqueueNext, Enqueue, EnqueueDuplicate, EnqueueExisting,
         EnqueueCommitted, Acknowledge, Release, Enter, ExternalCommitOk,
         ExternalCommitFails, Recovery, RepairCompare, RepairSync,
         RepairUnblock, RepairFails, Lifecycle, Damage, RestoreRead,
         RestoreInsert, RestoreError
<1>2. /\ phase' = "restoring" /\ scan' = None /\ mem' = Empty
      /\ blocked' = None /\ loadError' = FALSE /\ ready' = {}
      /\ committing' = None /\ repair' = None
      /\ stable' = {disk'} /\ owed' = {} /\ done' = {}
  BY <1>1 DEF ProcessCrash, PowerLoss, Restart
<1>3. Base'
  BY BaseKeeps DEF Inv
<1>4. IInv'
  BY <1>2, <1>3
  DEF Base, IInv, Owed, Done, Agree, Quiet, Restoring, CommittingIsLast,
      CorruptQueue
<1>5. SameOrder' /\ CommittingAlone' /\ CorruptAlone'
  BY <1>2 DEF SameOrder, CommittingAlone, CorruptAlone
<1>6. Promise!Resume
  BY <1>2, FateType DEF Promise!Resume, Promise!Damage, Promise!Fates
<1> QED
  BY <1>4, <1>5, <1>6 DEF OrderInv

LEMMA InvKept ==
  ASSUME Inv, [Next]_vars
  PROVE  Inv'
<1>1. Base'
  BY BaseKeeps DEF Inv
<1>2. CASE UNCHANGED vars
  BY <1>1, <1>2, StutterKeeps, StutterKept DEF Inv, OrderInv, vars
<1>3. CASE Next
  BY <1>1, <1>3, UndisturbedKept, ResumedKept DEF Inv
<1> QED
  BY <1>2, <1>3

-----------------------------------------------------------------------------
\* The inductive invariant holds of every reachable state, for every set of
\* deliveries and callers.
THEOREM Invariance == Spec => []Inv
<1>1. Inv /\ [Next]_vars => Inv'
  BY InvKept
<1> QED
  BY <1>1, InitInv, PTL DEF Spec

\* Type correctness of the queue (core/pending_queue.rs).
THEOREM TypeCorrect == Spec => []TypeOK
<1>1. Inv => TypeOK
  BY DEF Inv, Base
<1> QED
  BY <1>1, Invariance, PTL

\* An accepted delivery survives every failed write, rollback, repair, crash
\* and power loss until it is consumed, unless a request came in while restore
\* was running.
THEOREM AcceptedIsNeverLost == Spec => []OwedDurable
<1>1. Inv => OwedDurable
  BY DEF Inv, OrderInv, IInv, OwedDurable
<1> QED
  BY <1>1, Invariance, PTL

\* A delivery acknowledged or cleared with Ok is found by no later restart,
\* with the same exception.
THEOREM ConsumedIsNeverReplayed == Spec => []DoneNeverReturns
<1>1. Inv => DoneNeverReturns
  BY DEF Inv, OrderInv, IInv, DoneNeverReturns
<1> QED
  BY <1>1, Invariance, PTL

\* Memory and visible file agree after every failure, with the same exception,
\* and no content ever holds a delivery twice.
THEOREM MemoryAndFileAgree == Spec => [](SingleTruth /\ NoDuplicates)
<1>1. Inv => SingleTruth /\ NoDuplicates
  BY DEF Inv, Base, OrderInv, IInv, SingleTruth
<1> QED
  BY <1>1, Invariance, PTL

\* Two accepted deliveries never change places: claiming, releasing, failing,
\* repairing and restarting keep the order in which they wait.
THEOREM OrderIsKeptHolds == Spec => OrderIsKept
<1>1. Inv /\ Next => early \/ early' \/ OrderKept
  BY UndisturbedKept DEF Kept
<1>2. Inv /\ UNCHANGED vars => early \/ early' \/ OrderKept \/ UNCHANGED vars
  OBVIOUS
<1> QED
  BY <1>1, <1>2, Invariance, PTL DEF Spec, OrderIsKept

\* The queue keeps the promise of DeliveryPromise.tla: through failed writes,
\* rollbacks, repairs, crashes and power losses no step loses, brings back or
\* reports a delivery it is not about, and a request that comes in while
\* restore is running suspends the promise until a restart.
THEOREM ImplementsPromiseHolds == Spec => ImplementsPromise
<1>1. Init => Promise!Init
  <2>1. ASSUME Init
        PROVE  /\ owed = {} /\ done = {} /\ early = FALSE
               /\ \A d \in Deliveries : Fate(d) = "out"
    <3>1. OnDisk = {Empty} /\ owed = {} /\ done = {} /\ early = FALSE
      BY <2>1, EmptyContent, CorruptAssumption DEF Init, OnDisk
    <3> QED
      BY <3>1, EmptyContent DEF Fate
  <2> QED
    BY <2>1 DEF Promise!Init
<1>2. Inv /\ [Next]_vars => [Promise!Next]_(Promise!vars)
  <2>1. ASSUME Inv, Next
        PROVE  Promise!Next
    <3>1. CASE early'
      BY <3>1 DEF Promise!Next, Promise!Suspend
    <3>2. CASE early /\ ~ early'
      BY <2>1, <3>2, ResumedKept DEF Promise!Next
    <3>3. CASE ~ early /\ ~ early'
      <4>1. Promise!Call
        BY <2>1, <3>3, UndisturbedKept DEF Kept
      <4> QED
        BY <3>3, <4>1 DEF Promise!Next
    <3> QED
      BY <3>1, <3>2, <3>3
  <2>2. ASSUME Inv, UNCHANGED vars
        PROVE  UNCHANGED Promise!vars
    BY <2>2, StutterFates
  <2> QED
    BY <2>1, <2>2
<1> QED
  BY <1>1, <1>2, Invariance, PTL
  DEF Spec, ImplementsPromise, Promise!Spec

=============================================================================
