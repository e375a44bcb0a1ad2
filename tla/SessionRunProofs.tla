-------------------------- MODULE SessionRunProofs ---------------------------
(***************************************************************************)
(* The runs of a Session, for every set of messages, run tasks and kicks:  *)
(* types, the one writer, deletion, abort, the order of the queue, who     *)
(* continues it, and what the Session promises of every message.           *)
(***************************************************************************)
EXTENDS SessionRun, SequenceTheorems, TLAPS

-----------------------------------------------------------------------------
(* Types *)

Queues == [queued : Seq(Messages), inFlight : Messages \cup {None}]

RunTypes ==
  /\ pc \in [Runs -> Labels]
  /\ msg \in [Runs -> Messages \cup {None}]
  /\ fromQueue \in [Runs -> BOOLEAN]
  /\ outcome \in [Runs -> {"direct", "acked", "released", "inFlight"}]
  /\ cancelled \subseteq Runs /\ asked \subseteq Runs

OwnerTypes ==
  /\ slot \in Runs \cup {None}
  /\ lease \in Runs \cup {None, Other}

QueueTypes ==
  /\ queue \in Queues
  /\ qblocked \in BOOLEAN

LogTypes ==
  /\ log \in Seq(Messages)
  /\ synced \in 0..Len(log)
  /\ sblocked \in BOOLEAN

WakeTypes ==
  /\ armed \in BOOLEAN /\ resetting \in BOOLEAN /\ paused \in BOOLEAN
  /\ kick \in [Kickers -> {"idle", "claim", "look", "reset"}]
  /\ deleting \in {"no", "begun", "quiet"}

HistoryTypes ==
  /\ order \in Seq(Messages)
  /\ stopped \subseteq withdrawn /\ withdrawn \subseteq sent
  /\ accepted \subseteq sent /\ sent \subseteq Messages

\* What is queued or carried was sent.
Known ==
  /\ Items(queue) \subseteq sent
  /\ \A r \in Runs : pc[r] # "idle" => msg[r] \in sent

\* The inductive invariant of the types.
TypeInv ==
  /\ RunTypes /\ OwnerTypes /\ QueueTypes
  /\ LogTypes /\ WakeTypes /\ HistoryTypes
  /\ Known

-----------------------------------------------------------------------------
(* The content of the queue *)

LEMMA NoneIsNoMessage == None \notin Messages /\ None \notin Runs /\ None # Other
BY NoneAssumption

LEMMA ElemsTyped ==
  ASSUME NEW s \in Seq(Messages)
  PROVE  /\ Elems(s) \subseteq Messages
         /\ Elems(s) = {s[i] : i \in 1..Len(s)}
BY DEF Elems

LEMMA AppendElems ==
  ASSUME NEW s \in Seq(Messages), NEW m \in Messages
  PROVE  /\ Append(s, m) \in Seq(Messages)
         /\ Elems(Append(s, m)) = Elems(s) \cup {m}
<1>1. /\ Append(s, m) \in Seq(Messages)
      /\ Len(Append(s, m)) = Len(s) + 1
      /\ Len(s) \in Nat
      /\ \A i \in 1..Len(s) : Append(s, m)[i] = s[i]
      /\ Append(s, m)[Len(s) + 1] = m
  OBVIOUS
<1>2. DOMAIN s = 1..Len(s) /\ DOMAIN Append(s, m) = 1..(Len(s) + 1)
  BY <1>1
<1>3. Elems(Append(s, m)) \subseteq Elems(s) \cup {m}
  BY <1>1, <1>2 DEF Elems
<1>4. Elems(s) \cup {m} \subseteq Elems(Append(s, m))
  BY <1>1, <1>2 DEF Elems
<1> QED
  BY <1>1, <1>3, <1>4

LEMMA ConsElems ==
  ASSUME NEW s \in Seq(Messages), NEW m \in Messages
  PROVE  /\ <<m>> \o s \in Seq(Messages)
         /\ Len(<<m>> \o s) = Len(s) + 1
         /\ (<<m>> \o s)[1] = m
         /\ \A i \in 1..Len(s) : (<<m>> \o s)[i + 1] = s[i]
         /\ Elems(<<m>> \o s) = {m} \cup Elems(s)
<1> DEFINE t == <<m>> \o s
<1>1. <<m>> \in Seq(Messages) /\ Len(<<m>>) = 1 /\ <<m>>[1] = m /\ Len(s) \in Nat
  OBVIOUS
<1>2. /\ t \in Seq(Messages)
      /\ Len(t) = Len(s) + 1
      /\ \A i \in 1..Len(s) + 1 : t[i] = IF i <= 1 THEN m ELSE s[i - 1]
  BY <1>1, ConcatProperties
<1> HIDE DEF t
<1>3. t[1] = m /\ \A i \in 1..Len(s) : t[i + 1] = s[i]
  BY <1>1, <1>2
<1>4. DOMAIN s = 1..Len(s) /\ DOMAIN t = 1..(Len(s) + 1)
  BY <1>1, <1>2
<1>5. Elems(t) \subseteq {m} \cup Elems(s)
  BY <1>1, <1>2, <1>4 DEF Elems
<1>6. {m} \cup Elems(s) \subseteq Elems(t)
  BY <1>1, <1>3, <1>4 DEF Elems
<1> QED
  BY <1>2, <1>3, <1>5, <1>6 DEF t

LEMMA TailElems ==
  ASSUME NEW s \in Seq(Messages), s # <<>>
  PROVE  /\ Head(s) \in Messages /\ Tail(s) \in Seq(Messages)
         /\ Head(s) = s[1]
         /\ Len(s) \in Nat \ {0}
         /\ Len(Tail(s)) = Len(s) - 1
         /\ \A i \in 1..Len(s) - 1 : Tail(s)[i] = s[i + 1]
         /\ Elems(s) = {Head(s)} \cup Elems(Tail(s))
<1> DEFINE t == Tail(s)
<1>1. /\ Head(s) \in Messages /\ t \in Seq(Messages)
      /\ Head(s) = s[1]
      /\ Len(s) \in Nat \ {0}
      /\ Len(t) = Len(s) - 1
      /\ \A i \in 1..Len(s) - 1 : t[i] = s[i + 1]
  BY HeadTailProperties, EmptySeq
<1> HIDE DEF t
<1>2. DOMAIN s = 1..Len(s) /\ DOMAIN t = 1..(Len(s) - 1)
  BY <1>1
<1>3. Elems(s) \subseteq {Head(s)} \cup Elems(t)
  <2>1. ASSUME NEW i \in DOMAIN s
        PROVE  s[i] \in {Head(s)} \cup Elems(t)
    <3>1. CASE i = 1
      BY <1>1, <3>1
    <3>2. CASE i # 1
      <4>1. i - 1 \in DOMAIN t /\ t[i - 1] = s[i]
        BY <1>1, <1>2, <3>2
      <4> QED
        BY <4>1 DEF Elems
    <3> QED
      BY <3>1, <3>2
  <2> QED
    BY <2>1 DEF Elems
<1>4. {Head(s)} \cup Elems(t) \subseteq Elems(s)
  <2>1. \A i \in DOMAIN t : i + 1 \in DOMAIN s /\ t[i] = s[i + 1]
    BY <1>1, <1>2
  <2>2. 1 \in DOMAIN s
    BY <1>1, <1>2
  <2> QED
    BY <1>1, <2>1, <2>2 DEF Elems
<1> QED
  BY <1>1, <1>3, <1>4 DEF t

\* What an operation of the queue leaves, as an element of Queues.
LEMMA QueueShape ==
  ASSUME NEW q \in Queues
  PROVE  /\ q.queued \in Seq(Messages) /\ q.inFlight \in Messages \cup {None}
         /\ Elems(q.queued) \subseteq Messages
         /\ Items(q) = Elems(q.queued) \cup (IF q.inFlight = None THEN {} ELSE {q.inFlight})
         /\ Items(q) \subseteq Messages
BY ElemsTyped, NoneIsNoMessage DEF Queues, Items

LEMMA EmptyQueue ==
  /\ Empty \in Queues
  /\ Elems(Empty.queued) = {} /\ Empty.inFlight = None
  /\ Items(Empty) = {}
BY DEF Empty, Queues, Elems, Items

LEMMA PushedBack ==
  ASSUME NEW q \in Queues, NEW m \in Messages
  PROVE  LET p == [q EXCEPT !.queued = Append(@, m)] IN
         /\ p \in Queues
         /\ p.queued = Append(q.queued, m)
         /\ Elems(p.queued) = Elems(q.queued) \cup {m}
         /\ p.inFlight = q.inFlight
         /\ Items(p) = Items(q) \cup {m}
<1> DEFINE p == [q EXCEPT !.queued = Append(@, m)]
<1>1. q.queued \in Seq(Messages)
  BY QueueShape
<1>2. p.queued = Append(q.queued, m) /\ p.inFlight = q.inFlight /\ p \in Queues
  BY <1>1, AppendElems DEF Queues
<1> HIDE DEF p
<1>3. Elems(p.queued) = Elems(q.queued) \cup {m}
  BY <1>1, <1>2, AppendElems
<1>4. Items(p) = Items(q) \cup {m}
  BY <1>2, <1>3 DEF Items
<1> QED
  BY <1>2, <1>3, <1>4 DEF p

LEMMA PushedFront ==
  ASSUME NEW q \in Queues, NEW m \in Messages
  PROVE  LET p == [q EXCEPT !.queued = <<m>> \o @] IN
         /\ p \in Queues
         /\ p.queued = <<m>> \o q.queued
         /\ Elems(p.queued) = Elems(q.queued) \cup {m}
         /\ p.inFlight = q.inFlight
         /\ Items(p) = Items(q) \cup {m}
<1> DEFINE p == [q EXCEPT !.queued = <<m>> \o @]
<1>1. q.queued \in Seq(Messages)
  BY QueueShape
<1>2. <<m>> \o q.queued \in Seq(Messages)
  BY <1>1, ConsElems
<1>3. p.queued = <<m>> \o q.queued /\ p.inFlight = q.inFlight /\ p \in Queues
  BY <1>1, <1>2 DEF Queues
<1> HIDE DEF p
<1>4. Elems(p.queued) = Elems(q.queued) \cup {m}
  BY <1>1, <1>3, ConsElems
<1>5. Items(p) = Items(q) \cup {m}
  BY <1>3, <1>4 DEF Items
<1> QED
  BY <1>3, <1>4, <1>5 DEF p

LEMMA ReleasedQueue ==
  ASSUME NEW q \in Queues, NEW m \in Messages
  PROVE  LET p == [queued |-> <<m>> \o q.queued, inFlight |-> None] IN
         /\ p \in Queues
         /\ p.queued = <<m>> \o q.queued
         /\ Elems(p.queued) = Elems(q.queued) \cup {m}
         /\ p.inFlight = None
         /\ Items(p) = Elems(q.queued) \cup {m}
<1> DEFINE p == [queued |-> <<m>> \o q.queued, inFlight |-> None]
<1>1. q.queued \in Seq(Messages)
  BY QueueShape
<1>2. <<m>> \o q.queued \in Seq(Messages)
  BY <1>1, ConsElems
<1>3. p.queued = <<m>> \o q.queued /\ p.inFlight = None /\ p \in Queues
  BY <1>1, <1>2 DEF Queues
<1> HIDE DEF p
<1>4. Elems(p.queued) = Elems(q.queued) \cup {m}
  BY <1>1, <1>3, ConsElems
<1>5. Items(p) = Elems(q.queued) \cup {m}
  BY <1>3, <1>4, QueueShape
<1> QED
  BY <1>3, <1>4, <1>5 DEF p

LEMMA ClaimedQueue ==
  ASSUME NEW q \in Queues
  PROVE  /\ Claimed(q) \in Queues
         /\ Claimable(q) \in Messages \cup {None}
         /\ Claimed(q).inFlight = Claimable(q)
         /\ Items(Claimed(q)) = Items(q)
         /\ Elems(Claimed(q).queued) \subseteq Elems(q.queued)
         /\ Claimable(q) # None => Claimable(q) \in Items(q)
<1>1. q.queued \in Seq(Messages) /\ q.inFlight \in Messages \cup {None}
  BY QueueShape
<1>2. CASE q.inFlight # None \/ q.queued = <<>>
  BY <1>1, <1>2, QueueShape DEF Claimed, Claimable
<1>3. CASE q.inFlight = None /\ q.queued # <<>>
  <2> DEFINE p == [queued |-> Tail(q.queued), inFlight |-> Head(q.queued)]
  <2>1. p = Claimed(q) /\ Claimable(q) = Head(q.queued)
    BY <1>3 DEF Claimed, Claimable
  <2>2. /\ Tail(q.queued) \in Seq(Messages) /\ Head(q.queued) \in Messages
        /\ Elems(q.queued) = {Head(q.queued)} \cup Elems(Tail(q.queued))
    BY <1>1, <1>3, TailElems
  <2>3. p \in Queues /\ p.queued = Tail(q.queued) /\ p.inFlight = Head(q.queued)
    BY <2>2 DEF Queues
  <2> HIDE DEF p
  <2>4. Items(p) = Items(q)
    BY <1>3, <2>2, <2>3, NoneIsNoMessage, QueueShape
  <2> QED
    BY <2>1, <2>2, <2>3, <2>4, QueueShape
<1> QED
  BY <1>2, <1>3

LEMMA NothingClaimable ==
  ASSUME NEW q \in Queues, Claimable(q) = None
  PROVE  Items(q) = {} /\ q.inFlight = None /\ q.queued = <<>>
<1>1. q.queued \in Seq(Messages)
  BY QueueShape
<1>2. q.inFlight = None
  BY DEF Claimable
<1>3. q.queued = <<>>
  <2>1. q.queued # <<>> => Head(q.queued) \in Messages
    BY <1>1
  <2> QED
    BY <1>2, <2>1, NoneIsNoMessage DEF Claimable
<1> QED
  BY <1>2, <1>3 DEF Items, Elems

LEMMA SettledQueue ==
  ASSUME NEW q \in Queues
  PROVE  LET p == [q EXCEPT !.inFlight = None] IN
         /\ p \in Queues
         /\ p.queued = q.queued /\ p.inFlight = None
         /\ Items(p) = Elems(q.queued)
BY NoneIsNoMessage DEF Queues, Items

LEMMA ClearedQueue ==
  ASSUME NEW q \in Queues
  PROVE  LET p == [q EXCEPT !.queued = <<>>] IN
         /\ p \in Queues
         /\ p.queued = <<>> /\ Elems(p.queued) = {}
         /\ p.inFlight = q.inFlight
         /\ Items(p) = {q.inFlight} \ {None}
<1> DEFINE p == [q EXCEPT !.queued = <<>>]
<1>1. <<>> \in Seq(Messages)
  OBVIOUS
<1>2. p \in Queues /\ p.queued = <<>> /\ p.inFlight = q.inFlight
  BY <1>1 DEF Queues
<1> HIDE DEF p
<1>3. Elems(p.queued) = {}
  BY <1>2 DEF Elems
<1> QED
  BY <1>2, <1>3 DEF p, Items

\* Whatever an operation returns, the queue is as it was or as it should be.
LEMMA QueueWritten ==
  ASSUME NEW q, qblocked \in BOOLEAN,
         QueueOk(q) \/ QueueIndeterminate(q) \/ QueueErr(q)
  PROVE  queue' \in {queue, q} /\ qblocked' \in BOOLEAN
BY DEF QueueOk, QueueIndeterminate, QueueErr, QueueFails, queueVars


-----------------------------------------------------------------------------
(* Types are kept *)

\* What the queue may hold, as far as types go.
Holdable(q) == q \in Queues /\ Items(q) \subseteq sent

LEMMA WrittenTypes ==
  ASSUME TypeInv, NEW q, Holdable(q),
         QueueOk(q) \/ QueueIndeterminate(q) \/ QueueErr(q)
  PROVE  QueueTypes' /\ Items(queue') \subseteq sent
BY QueueWritten DEF TypeInv, QueueTypes, Known, Holdable

\* The operations of the queue on what is known already.
LEMMA HoldableQueues ==
  ASSUME TypeInv
  PROVE  /\ Holdable(queue) /\ Holdable(Empty)
         /\ Holdable(Claimed(queue))
         /\ Holdable([queue EXCEPT !.inFlight = None])
         /\ Holdable([queue EXCEPT !.queued = <<>>])
         /\ \A m \in sent :
              /\ Holdable([queue EXCEPT !.queued = Append(@, m)])
              /\ Holdable([queue EXCEPT !.queued = <<m>> \o @])
              /\ Holdable([queued |-> <<m>> \o queue.queued, inFlight |-> None])
<1> USE DEF TypeInv, QueueTypes, HistoryTypes, Known, Holdable
<1>1. Holdable(queue) /\ Holdable(Empty)
  BY EmptyQueue
<1>2. Holdable(Claimed(queue)) /\ Holdable([queue EXCEPT !.inFlight = None])
  BY ClaimedQueue, SettledQueue, QueueShape
<1>3. Holdable([queue EXCEPT !.queued = <<>>])
  BY ClearedQueue, QueueShape
<1>4. ASSUME NEW m \in sent
      PROVE  /\ Holdable([queue EXCEPT !.queued = Append(@, m)])
             /\ Holdable([queue EXCEPT !.queued = <<m>> \o @])
             /\ Holdable([queued |-> <<m>> \o queue.queued, inFlight |-> None])
  <2>1. m \in Messages /\ Elems(queue.queued) \subseteq sent
    BY QueueShape
  <2> DEFINE p == [queue EXCEPT !.queued = Append(@, m)]
             f == [queue EXCEPT !.queued = <<m>> \o @]
             g == [queued |-> <<m>> \o queue.queued, inFlight |-> None]
  <2>2. p \in Queues /\ Items(p) = Items(queue) \cup {m}
    BY <2>1, PushedBack
  <2>3. f \in Queues /\ Items(f) = Items(queue) \cup {m}
    BY <2>1, PushedFront
  <2>4. g \in Queues /\ Items(g) = Elems(queue.queued) \cup {m}
    BY <2>1, ReleasedQueue
  <2> HIDE DEF p, f, g
  <2>5. Holdable(p) /\ Holdable(f) /\ Holdable(g)
    BY <2>1, <2>2, <2>3, <2>4
  <2> QED
    BY <2>5 DEF p, f, g
<1> QED
  BY <1>1, <1>2, <1>3, <1>4

LEMMA ReleaseTypes ==
  ASSUME TypeInv, NEW r \in Runs, msg[r] \in sent, ReleaseDelivery(r)
  PROVE  /\ QueueTypes' /\ Items(queue') \subseteq sent
         /\ outcome' \in [Runs -> {"direct", "acked", "released", "inFlight"}]
         /\ outcome'[r] \in {"direct", "released", "inFlight"}
<1> DEFINE q == [queued |-> <<msg[r]>> \o queue.queued, inFlight |-> None]
<1>1. Holdable(q)
  BY HoldableQueues
<1>2. UNCHANGED queueVars \/ QueueOk(q) \/ QueueErr(q)
  BY DEF ReleaseDelivery, ReleaseTo
<1>3. QueueTypes' /\ Items(queue') \subseteq sent
  BY <1>1, <1>2, WrittenTypes DEF TypeInv, QueueTypes, Known, queueVars
<1>4. \E o \in {"direct", "released", "inFlight"} : outcome' = [outcome EXCEPT ![r] = o]
  BY DEF ReleaseDelivery, ReleaseTo
<1> QED
  BY <1>3, <1>4 DEF TypeInv, RunTypes

LEMMA ClaimErrTypes ==
  ASSUME TypeInv, ClaimErr
  PROVE  QueueTypes' /\ Items(queue') \subseteq sent
<1>1. QueueErr(Claimed(queue))
  BY DEF ClaimErr, QueueErr
<1> QED
  BY <1>1, HoldableQueues, WrittenTypes

\* The steps that do not touch the queue, the log or the history.
LEMMA QuietStepTypes ==
  ASSUME TypeInv, UNCHANGED <<queueVars, logVars, sent, accepted, order, withdrawn, stopped>>,
         RunTypes', OwnerTypes', WakeTypes',
         \A r \in Runs : pc'[r] # "idle" => msg'[r] = msg[r] /\ pc[r] # "idle"
  PROVE  TypeInv'
BY DEF TypeInv, QueueTypes, LogTypes, HistoryTypes, Known, queueVars, logVars, Items

LEMMA AppendedTypes ==
  ASSUME TypeInv, NEW m \in Messages
  PROVE  /\ Appended(m) \in Seq(Messages)
         /\ synced \in 0..Len(Appended(m)) /\ SyncedAfter(m) \in 0..Len(Appended(m))
         /\ Elems(Appended(m)) = Said \cup {m}
<1>1. log \in Seq(Messages) /\ Len(log) \in Nat /\ synced \in 0..Len(log)
  BY DEF TypeInv, LogTypes
<1>2. CASE m \in Said
  BY <1>1, <1>2 DEF Appended, SyncedAfter, Said
<1>3. CASE m \notin Said
  <2>1. Len(Append(log, m)) = Len(log) + 1
    BY <1>1
  <2> QED
    BY <1>1, <1>3, <2>1, AppendElems DEF Appended, SyncedAfter, Said
<1> QED
  BY <1>2, <1>3

-----------------------------------------------------------------------------
(* ... by a run *)

\* The steps of a run that only take it on.
LEMMA AdvanceTypes ==
  ASSUME TypeInv, NEW r \in Runs,
         \/ ClaimSlot(r) \/ ClaimRefused(r) \/ AcquireLease(r) \/ LeaseRefused(r)
         \/ Admit(r) \/ Turn(r) \/ HandoffEmpty(r)
         \/ GiveUp(r) \/ ScheduleRetry(r) \/ DropLease(r) \/ DropSlot(r)
  PROVE  TypeInv'
<1> USE NoneIsNoMessage DEF TypeInv, RunTypes, OwnerTypes, QueueTypes, LogTypes,
      WakeTypes, HistoryTypes, Known, Labels, Goto, Vanish, RemoveIfCurrent,
      queueVars, logVars, wakeVars, history
<1>1. CASE ClaimSlot(r)
  BY <1>1 DEF ClaimSlot
<1>2. CASE ClaimRefused(r)
  BY <1>2 DEF ClaimRefused
<1>3. CASE AcquireLease(r)
  BY <1>3 DEF AcquireLease
<1>4. CASE LeaseRefused(r)
  BY <1>4 DEF LeaseRefused
<1>5. CASE Admit(r)
  BY <1>5 DEF Admit
<1>6. CASE Turn(r)
  BY <1>6 DEF Turn
<1>7. CASE HandoffEmpty(r)
  BY <1>7 DEF HandoffEmpty
<1>8. CASE GiveUp(r)
  BY <1>8 DEF GiveUp
<1>9. CASE ScheduleRetry(r)
  BY <1>9 DEF ScheduleRetry
<1>10. CASE DropLease(r)
  BY <1>10 DEF DropLease
<1>11. CASE DropSlot(r)
  BY <1>11 DEF DropSlot
<1> QED
  BY <1>1, <1>2, <1>3, <1>4, <1>5, <1>6, <1>7, <1>8, <1>9, <1>10, <1>11

LEMMA ConcedeTypes ==
  ASSUME TypeInv, NEW r \in Runs, Concede(r)
  PROVE  TypeInv'
<1> DEFINE q == [queue EXCEPT !.queued = Append(@, msg[r])]
<1>1. msg[r] \in sent /\ Holdable(q)
  BY HoldableQueues DEF Concede, TypeInv, Known
<1>2. QueueTypes' /\ Items(queue') \subseteq sent
  <2>1. QueueOk(q) \/ QueueErr(q)
    BY DEF Concede
  <2> QED
    BY <1>1, <2>1, WrittenTypes
<1>3. HistoryTypes'
  <2>1. order' \in {order, Append(order, msg[r])} /\ accepted' \subseteq accepted \cup {msg[r]}
    BY DEF Concede, Accept
  <2>2. UNCHANGED <<sent, withdrawn, stopped>>
    BY DEF Concede
  <2>3. order' \in Seq(Messages)
    BY <1>1, <2>1, AppendElems DEF TypeInv, HistoryTypes
  <2> QED
    BY <1>1, <2>1, <2>2, <2>3 DEF TypeInv, HistoryTypes
<1>4. RunTypes' /\ OwnerTypes' /\ LogTypes' /\ WakeTypes'
  BY DEF Concede, Vanish, Goto, TypeInv, RunTypes, OwnerTypes, LogTypes, WakeTypes,
     Labels, logVars, wakeVars
<1>5. Known'
  BY <1>2 DEF Concede, Vanish, Goto, TypeInv, RunTypes, Known
<1> QED
  BY <1>2, <1>3, <1>4, <1>5 DEF TypeInv

\* A run that ends before its message is said.
LEMMA UnsaidTypes ==
  ASSUME TypeInv, NEW r \in Runs, AdmitFails(r) \/ CommitFails(r)
  PROVE  TypeInv'
<1>1. FinishUnsaid(r) /\ pc[r] # "idle"
  BY DEF AdmitFails, CommitFails
<1>2. msg[r] \in sent
  BY <1>1 DEF TypeInv, Known
<1>3. /\ QueueTypes' /\ Items(queue') \subseteq sent
      /\ outcome' \in [Runs -> {"direct", "acked", "released", "inFlight"}]
  BY <1>1, <1>2, ReleaseTypes DEF FinishUnsaid
<1>4. \E l \in {"handoff", "delayed"} : pc' = [pc EXCEPT ![r] = l]
  BY <1>1 DEF FinishUnsaid, Goto, Continuation
<1>5. RunTypes' /\ OwnerTypes' /\ LogTypes' /\ WakeTypes' /\ HistoryTypes'
  BY <1>1, <1>3, <1>4 DEF FinishUnsaid, TypeInv, RunTypes, OwnerTypes, LogTypes, WakeTypes,
     HistoryTypes, Labels, logVars, wakeVars, history
<1>6. Known'
  BY <1>1, <1>2, <1>3, <1>4 DEF FinishUnsaid, TypeInv, RunTypes, Known, history
<1> QED
  BY <1>3, <1>5, <1>6 DEF TypeInv

LEMMA CommitTypes ==
  ASSUME TypeInv, NEW r \in Runs,
         PrepareFails(r) \/ CommitUser(r) \/ CommitIndeterminate(r)
  PROVE  TypeInv'
<1>1. msg[r] \in sent /\ msg[r] \in Messages
  BY DEF PrepareFails, CommitUser, CommitIndeterminate, TypeInv, Known, HistoryTypes
<1>2. LogTypes'
  BY <1>1, AppendedTypes DEF PrepareFails, CommitUser, CommitIndeterminate, TypeInv, LogTypes, logVars
<1>3. /\ \E l \in {"settle", "exit"} : pc' = [pc EXCEPT ![r] = l]
      /\ \E o \in {outcome[r], "inFlight", "direct"} : outcome' = [outcome EXCEPT ![r] = o]
      /\ paused' \in {paused, TRUE}
      /\ UNCHANGED <<msg, fromQueue, cancelled, slot, lease, queueVars, wakeVars, deleting>>
      /\ UNCHANGED <<sent, accepted, order, withdrawn, stopped, asked>>
  BY DEF PrepareFails, CommitUser, CommitIndeterminate, FinishBlocked, Goto, TypeInv, RunTypes, history
<1>4. RunTypes' /\ OwnerTypes' /\ QueueTypes' /\ HistoryTypes'
  BY <1>3 DEF TypeInv, RunTypes, OwnerTypes, QueueTypes, HistoryTypes, Labels, queueVars
<1>5. WakeTypes'
  BY <1>3 DEF TypeInv, WakeTypes, wakeVars
<1>6. Known'
  BY <1>1, <1>3 DEF TypeInv, RunTypes, Known, queueVars
<1> QED
  BY <1>2, <1>4, <1>5, <1>6 DEF TypeInv

LEMMA SettleTypes ==
  ASSUME TypeInv, NEW r \in Runs, Settle(r) \/ SettleFails(r)
  PROVE  TypeInv'
<1> DEFINE q == [queue EXCEPT !.inFlight = None]
<1>1. UNCHANGED queueVars \/ QueueOk(q) \/ QueueErr(q)
  BY DEF Settle, SettleFails, QueueFails
<1>2. QueueTypes' /\ Items(queue') \subseteq sent
  BY <1>1, HoldableQueues, WrittenTypes DEF TypeInv, QueueTypes, Known, queueVars
<1>3. /\ pc[r] = "settle"
      /\ \E l \in {"turn", "terminal"} : pc' = [pc EXCEPT ![r] = l]
      /\ \E o \in {"direct", "acked", "inFlight"} : outcome' = [outcome EXCEPT ![r] = o]
      /\ armed' \in {armed, FALSE}
      /\ UNCHANGED <<msg, fromQueue, cancelled, slot, lease, logVars, kick, resetting,
                     deleting, history>>
  BY DEF Settle, SettleFails, Goto, wakeVars
<1>4. RunTypes'
  BY <1>3 DEF TypeInv, RunTypes, Labels, history
<1>5. OwnerTypes' /\ LogTypes' /\ WakeTypes' /\ HistoryTypes'
  BY <1>3 DEF TypeInv, OwnerTypes, LogTypes, WakeTypes, HistoryTypes, logVars, history
<1>6. Known'
  BY <1>2, <1>3 DEF TypeInv, RunTypes, Known, history
<1> QED
  BY <1>2, <1>4, <1>5, <1>6 DEF TypeInv

LEMMA TerminalTypes ==
  ASSUME TypeInv, NEW r \in Runs, Terminal(r) \/ TerminalFails(r)
  PROVE  TypeInv'
<1>1. /\ pc[r] = "terminal"
      /\ \E l \in {"handoff", "delayed", "exit"} : pc' = [pc EXCEPT ![r] = l]
      /\ synced' \in {synced, Len(log)} /\ sblocked' \in {sblocked, TRUE}
      /\ paused' \in {paused, TRUE}
      /\ UNCHANGED <<msg, fromQueue, outcome, cancelled, slot, lease, queueVars, log,
                     wakeVars, deleting, sent, accepted, order, withdrawn, stopped, asked>>
  BY DEF Terminal, TerminalFails, Goto, Continuation, history
<1>2. RunTypes' /\ OwnerTypes' /\ QueueTypes' /\ WakeTypes' /\ HistoryTypes'
  BY <1>1 DEF TypeInv, RunTypes, OwnerTypes, QueueTypes, WakeTypes, HistoryTypes, Labels,
     queueVars, wakeVars
<1>3. LogTypes'
  <2>1. log \in Seq(Messages) /\ Len(log) \in Nat /\ synced \in 0..Len(log) /\ sblocked \in BOOLEAN
    BY DEF TypeInv, LogTypes
  <2>2. synced' \in 0..Len(log)
    BY <1>1, <2>1
  <2> QED
    BY <1>1, <2>1, <2>2 DEF LogTypes
<1>4. Known'
  BY <1>1 DEF TypeInv, RunTypes, Known, queueVars
<1> QED
  BY <1>2, <1>3, <1>4 DEF TypeInv

LEMMA HandoffTypes ==
  ASSUME TypeInv, NEW r \in Runs, NEW next \in Runs, Handoff(r, next)
  PROVE  TypeInv'
<1>1. Claimable(queue) \in Items(queue) /\ Claimable(queue) \in sent
  BY ClaimedQueue DEF Handoff, TypeInv, QueueTypes, Known
<1>2. QueueTypes' /\ Items(queue') \subseteq sent
  BY HoldableQueues, WrittenTypes DEF Handoff
<1>3. RunTypes' /\ OwnerTypes' /\ LogTypes' /\ WakeTypes' /\ HistoryTypes'
  BY <1>1 DEF Handoff, TypeInv, RunTypes, OwnerTypes, LogTypes, WakeTypes, HistoryTypes, Labels,
     logVars, wakeVars
<1>4. Known'
  BY <1>1, <1>2 DEF Handoff, TypeInv, RunTypes, Known
<1> QED
  BY <1>2, <1>3, <1>4 DEF TypeInv

LEMMA HandoffFailsTypes ==
  ASSUME TypeInv, NEW r \in Runs, HandoffFails(r)
  PROVE  TypeInv'
<1>1. QueueTypes' /\ Items(queue') \subseteq sent
  BY ClaimErrTypes DEF HandoffFails, QueueFails, TypeInv, QueueTypes, Known, queueVars
<1>2. RunTypes' /\ OwnerTypes' /\ LogTypes' /\ WakeTypes' /\ HistoryTypes'
  BY DEF HandoffFails, Goto, TypeInv, RunTypes, OwnerTypes, LogTypes, WakeTypes, HistoryTypes,
     Labels, logVars, wakeVars, history
<1>3. Known'
  BY <1>1 DEF HandoffFails, Goto, TypeInv, RunTypes, Known, history
<1> QED
  BY <1>1, <1>2, <1>3 DEF TypeInv

LEMMA ReleaseAndKickTypes ==
  ASSUME TypeInv, NEW r \in Runs, NEW k \in Kickers, ReleaseAndKick(r, k)
  PROVE  TypeInv'
BY DEF ReleaseAndKick, Goto, RemoveIfCurrent, TypeInv, RunTypes, OwnerTypes, QueueTypes,
   LogTypes, WakeTypes, HistoryTypes, Known, Labels, queueVars, logVars, history

LEMMA RunTypesKept ==
  ASSUME TypeInv, NEW r \in Runs, RunGoesOn(r) \/ RunFails(r)
  PROVE  TypeInv'
BY AdvanceTypes, ConcedeTypes, UnsaidTypes, CommitTypes, SettleTypes, TerminalTypes,
   HandoffTypes, HandoffFailsTypes, ReleaseAndKickTypes
   DEF RunGoesOn, RunFails


-----------------------------------------------------------------------------
(* ... by a kick, the user, a deletion, or another process *)

LEMMA KickTypes ==
  ASSUME TypeInv, NEW k \in Kickers, KickGoesOn(k) \/ TimerFires(k)
  PROVE  TypeInv'
<1> USE DEF TypeInv, WakeTypes
<1>1. ASSUME NEW next \in Runs, KickStarts(k, next)
      PROVE  TypeInv'
  <2>1. Claimable(queue) \in Items(queue) /\ Claimable(queue) \in sent
    BY <1>1, ClaimedQueue DEF KickStarts, QueueTypes, Known
  <2>2. QueueTypes' /\ Items(queue') \subseteq sent
    BY <1>1, HoldableQueues, WrittenTypes DEF KickStarts
  <2>3. RunTypes' /\ OwnerTypes' /\ LogTypes' /\ WakeTypes' /\ HistoryTypes'
    BY <1>1, <2>1 DEF KickStarts, Start, Goto, Fresh, KickGoes, RunTypes, OwnerTypes, LogTypes,
       HistoryTypes, Labels, logVars
  <2>4. Known'
    BY <1>1, <2>1, <2>2 DEF KickStarts, Start, Goto, RunTypes, Known
  <2> QED
    BY <2>2, <2>3, <2>4
<1>2. CASE KickFails(k)
  <2>1. QueueTypes' /\ Items(queue') \subseteq sent
    BY <1>2, ClaimErrTypes DEF KickFails, QueueFails, QueueTypes, Known, queueVars
  <2>2. RunTypes' /\ OwnerTypes' /\ LogTypes' /\ WakeTypes' /\ HistoryTypes'
    BY <1>2 DEF KickFails, KickGoes, RunTypes, OwnerTypes, LogTypes, HistoryTypes,
       runVars, logVars, history
  <2>3. Known'
    BY <1>2, <2>1 DEF KickFails, Known, runVars, history
  <2> QED
    BY <2>1, <2>2, <2>3
<1>3. CASE KickYields(k) \/ KickLooks(k) \/ KickResets(k) \/ TimerFires(k)
  <2>1. /\ UNCHANGED <<runVars, slot, lease, queueVars, logVars, resetting, deleting, history>>
        /\ armed' \in {armed, FALSE}
        /\ \E l \in {"idle", "claim", "look", "reset"} : kick' = [kick EXCEPT ![k] = l]
    BY <1>3 DEF KickYields, KickLooks, KickResets, TimerFires, KickGoes
  <2>2. WakeTypes'
    BY <2>1 DEF history
  <2>3. RunTypes' /\ OwnerTypes' /\ QueueTypes' /\ LogTypes' /\ HistoryTypes'
    BY <2>1 DEF RunTypes, OwnerTypes, QueueTypes, LogTypes, HistoryTypes,
       runVars, queueVars, logVars, history
  <2>4. Known'
    BY <2>1 DEF Known, runVars, queueVars, history
  <2> QED
    BY <2>2, <2>3, <2>4
<1>4. \/ \E next \in Runs : KickStarts(k, next)
      \/ KickFails(k) \/ KickYields(k) \/ KickLooks(k) \/ KickResets(k) \/ TimerFires(k)
  BY DEF KickGoesOn
<1> HIDE DEF TypeInv, WakeTypes
<1> QED
  BY <1>1, <1>2, <1>3, <1>4

LEMMA SendTypes ==
  ASSUME TypeInv, NEW m \in Messages, SendQueued(m) \/ SendInterrupt(m)
  PROVE  TypeInv'
<1> DEFINE p == [queue EXCEPT !.queued = Append(@, m)]
           f == [queue EXCEPT !.queued = <<m>> \o @]
<1>1. p \in Queues /\ Items(p) = Items(queue) \cup {m}
  BY PushedBack DEF TypeInv, QueueTypes
<1>2. f \in Queues /\ Items(f) = Items(queue) \cup {m}
  BY PushedFront DEF TypeInv, QueueTypes
<1>3. QueueOk(p) \/ QueueIndeterminate(p) \/ QueueOk(f) \/ QueueIndeterminate(f)
  BY DEF SendQueued, SendInterrupt
<1> HIDE DEF p, f
<1>4. queue' \in {queue, p, f} /\ qblocked' \in BOOLEAN
  BY <1>3, QueueWritten DEF TypeInv, QueueTypes
<1>5. QueueTypes' /\ Items(queue') \subseteq sent \cup {m}
  BY <1>1, <1>2, <1>4 DEF TypeInv, QueueTypes, Known
<1>6. /\ sent' = sent \cup {m}
      /\ accepted' \subseteq accepted \cup {m}
      /\ order' \in {order, Append(order, m)}
      /\ cancelled' \subseteq cancelled \cup {slot}
      /\ slot # None
      /\ UNCHANGED <<pc, msg, fromQueue, outcome, slot, lease, logVars, wakeVars, deleting,
                     withdrawn, stopped, asked, paused>>
  BY DEF SendQueued, SendInterrupt, Accept, runVars
<1>7. HistoryTypes'
  BY <1>6, AppendElems DEF TypeInv, HistoryTypes
<1>8. RunTypes' /\ OwnerTypes' /\ LogTypes' /\ WakeTypes'
  BY <1>6 DEF TypeInv, RunTypes, OwnerTypes, LogTypes, WakeTypes, logVars, wakeVars
<1>9. Known'
  BY <1>5, <1>6 DEF TypeInv, Known
<1> QED
  BY <1>5, <1>7, <1>8, <1>9 DEF TypeInv

LEMMA SendDirectTypes ==
  ASSUME TypeInv, NEW m \in Messages, NEW r \in Runs, SendDirect(m, r)
  PROVE  TypeInv'
<1>1. RunTypes' /\ OwnerTypes' /\ QueueTypes' /\ LogTypes' /\ WakeTypes'
  BY DEF SendDirect, Start, Goto, Fresh, TypeInv, RunTypes, OwnerTypes, QueueTypes, LogTypes,
     WakeTypes, Labels, queueVars, logVars, wakeVars
<1>2. HistoryTypes'
  BY DEF SendDirect, TypeInv, HistoryTypes
<1>3. Known'
  BY DEF SendDirect, Start, Goto, TypeInv, RunTypes, Known, queueVars
<1> QED
  BY <1>1, <1>2, <1>3 DEF TypeInv

\* Abort and clear take messages out of the queue.
LEMMA WithdrawTypes ==
  ASSUME TypeInv, Abort \/ AbortFails \/ ClearPending
  PROVE  TypeInv'
<1> DEFINE q == [queue EXCEPT !.queued = <<>>]
<1>1. Holdable(Empty) /\ Holdable(q)
  BY HoldableQueues
<1>2. /\ UNCHANGED queueVars \/ QueueOk(Empty) \/ QueueIndeterminate(Empty)
            \/ QueueOk(q) \/ QueueIndeterminate(q)
      /\ withdrawn' \in {withdrawn, withdrawn \cup Items(queue), withdrawn \cup Elems(queue.queued)}
      /\ stopped' = stopped \/ (stopped' = stopped \cup Items(queue) /\ withdrawn' = withdrawn \cup Items(queue))
      /\ cancelled' \subseteq cancelled \cup ({slot} \ {None})
      /\ asked' \subseteq asked \cup ({slot} \ {None})
      /\ armed' \in {armed, FALSE} /\ resetting' \in {resetting, TRUE}
      /\ UNCHANGED <<pc, msg, fromQueue, outcome, slot, lease, logVars, kick,
                     deleting, sent, accepted, order, paused>>
  BY DEF Abort, AbortFails, ClearPending, QueueFails, runVars, wakeVars
<1> HIDE DEF q
<1>3. QueueTypes' /\ Items(queue') \subseteq sent
  BY <1>1, <1>2, WrittenTypes DEF TypeInv, QueueTypes, Known, queueVars
<1>4. Items(queue) \subseteq sent /\ Elems(queue.queued) \subseteq sent
  BY QueueShape DEF TypeInv, QueueTypes, Known
<1>5. HistoryTypes'
  BY <1>2, <1>4 DEF TypeInv, HistoryTypes
<1>6. RunTypes' /\ OwnerTypes' /\ LogTypes'
  BY <1>2 DEF TypeInv, RunTypes, OwnerTypes, LogTypes, logVars
<1>7. WakeTypes'
  BY <1>2 DEF TypeInv, WakeTypes
<1>8. Known'
  BY <1>2, <1>3 DEF TypeInv, Known
<1> QED
  BY <1>3, <1>5, <1>6, <1>7, <1>8 DEF TypeInv

LEMMA OtherUserTypes ==
  ASSUME TypeInv,
         AbortResets \/ GoalStops \/ Repair \/ DeleteBegins \/ DeleteQuiet \/ DeleteGivesUp
  PROVE  TypeInv'
<1>1. /\ UNCHANGED <<pc, msg, fromQueue, outcome, slot, lease, queue, log, kick>>
      /\ UNCHANGED history
      /\ cancelled' \subseteq cancelled \cup ({slot} \ {None})
      /\ qblocked' \in {qblocked, FALSE} /\ sblocked' \in {sblocked, FALSE}
      /\ synced' \in {synced, Len(log)}
      /\ armed' \in {armed, FALSE} /\ resetting' \in {resetting, FALSE}
      /\ deleting' \in {deleting, "no", "begun", "quiet"}
  BY DEF AbortResets, GoalStops, Repair, DeleteBegins, DeleteQuiet, DeleteGivesUp,
     runVars, queueVars, logVars, wakeVars
<1>2. LogTypes'
  <2>1. log \in Seq(Messages) /\ Len(log) \in Nat /\ synced \in 0..Len(log) /\ sblocked \in BOOLEAN
    BY DEF TypeInv, LogTypes
  <2>2. synced' \in 0..Len(log)
    BY <1>1, <2>1
  <2> QED
    BY <1>1, <2>1, <2>2 DEF LogTypes
<1>3. RunTypes' /\ OwnerTypes' /\ QueueTypes'
  BY <1>1 DEF TypeInv, RunTypes, OwnerTypes, QueueTypes, history
<1>4. WakeTypes' /\ HistoryTypes' /\ Known'
  BY <1>1 DEF TypeInv, WakeTypes, HistoryTypes, Known, history
<1> QED
  BY <1>2, <1>3, <1>4 DEF TypeInv

LEMMA EnvironmentTypes ==
  ASSUME TypeInv, Environment
  PROVE  TypeInv'
<1> USE DEF TypeInv, RunTypes, OwnerTypes, QueueTypes, LogTypes, WakeTypes, HistoryTypes,
      Known, Labels, runVars, queueVars, logVars, wakeVars, history
<1>1. CASE OtherTakesLease \/ OtherDropsLease
  BY <1>1 DEF OtherTakesLease, OtherDropsLease
<1>2. ASSUME NEW k \in Kickers, Crash(k)
      PROVE  TypeInv'
  BY <1>2 DEF Crash
<1> QED
  BY <1>1, <1>2 DEF Environment

LEMMA InitTypes == Init => TypeInv
<1> SUFFICES ASSUME Init PROVE TypeInv
  OBVIOUS
<1>1. <<>> \in Seq(Messages) /\ Len(<<>>) = 0
  OBVIOUS
<1>2. RunTypes /\ OwnerTypes /\ WakeTypes
  BY DEF Init, RunTypes, OwnerTypes, WakeTypes, Labels
<1>3. QueueTypes /\ Known
  BY EmptyQueue DEF Init, QueueTypes, Known
<1>4. LogTypes
  <2>1. log = <<>> /\ synced = 0 /\ sblocked = FALSE
    BY DEF Init
  <2>2. log \in Seq(Messages) /\ Len(log) = 0
    BY <1>1, <2>1
  <2>3. synced \in 0..Len(log)
    BY <2>1, <2>2
  <2> QED
    BY <2>1, <2>2, <2>3 DEF LogTypes
<1>5. HistoryTypes
  BY <1>1 DEF Init, HistoryTypes
<1> QED
  BY <1>2, <1>3, <1>4, <1>5 DEF TypeInv

LEMMA StepTypes == TypeInv /\ [Next]_vars => TypeInv'
<1> SUFFICES ASSUME TypeInv, [Next]_vars PROVE TypeInv'
  OBVIOUS
<1>1. CASE UNCHANGED vars
  BY <1>1 DEF vars, runVars, queueVars, logVars, wakeVars, history, TypeInv, RunTypes, OwnerTypes,
     QueueTypes, LogTypes, WakeTypes, HistoryTypes, Known
<1>2. CASE User
  BY <1>2, SendTypes, SendDirectTypes, WithdrawTypes, OtherUserTypes DEF User
<1> QED
  BY <1>1, <1>2, RunTypesKept, KickTypes, EnvironmentTypes DEF Next

LEMMA TypeInvariance == Spec => []TypeInv
BY InitTypes, StepTypes, PTL DEF Spec

LEMMA TypeInvIsTypeOK == TypeInv => TypeOK
BY DEF TypeInv, TypeOK, RunTypes, OwnerTypes, QueueTypes, Queues, LogTypes, WakeTypes, HistoryTypes

\* Types, for any number of messages, runs and kicks (the whole of SessionRun).
THEOREM TypeCorrect == Spec => []TypeOK
BY TypeInvariance, TypeInvIsTypeOK, PTL


-----------------------------------------------------------------------------
(* One writer, and a quiet deletion *)

\* A run owns the slot from its claim to its release, and the lease from its
\* acquisition to its drop.
OwnsSlot == {"lease", "admit", "commit", "settle", "turn", "terminal", "handoff", "free", "giveUp"}

OwnsLease ==
  {"admit", "commit", "settle", "turn", "terminal", "handoff", "free", "giveUp", "delayed", "exit"}

\* The inductive invariant of the slot and the lease.  Nobody takes the slot
\* while the Session has a tombstone.
Owners ==
  /\ \A r \in Runs : (pc[r] \in OwnsSlot => slot = r) /\ (pc[r] \in OwnsLease => lease = r)
  /\ deleting = "quiet" => slot = None

\* The steps of a run within its ownership.
LEMMA StayOwners ==
  ASSUME TypeInv, Owners, NEW r \in Runs, NEW l,
         pc' = [pc EXCEPT ![r] = l],
         l \in OwnsSlot => pc[r] \in OwnsSlot,
         l \in OwnsLease => pc[r] \in OwnsLease,
         UNCHANGED <<slot, lease, deleting>>
  PROVE  Owners'
BY DEF TypeInv, RunTypes, Owners

LEMMA RunOwners ==
  ASSUME TypeInv, Owners, NEW r \in Runs, RunGoesOn(r) \/ RunFails(r)
  PROVE  Owners'
<1> USE NoneIsNoMessage DEF TypeInv, RunTypes, Goto
<1>1. CASE ClaimSlot(r) \/ Concede(r) \/ ClaimRefused(r)
  BY <1>1 DEF ClaimSlot, Concede, ClaimRefused, Vanish, Owners, OwnsSlot, OwnsLease, Tombstoned
<1>2. CASE AcquireLease(r) \/ LeaseRefused(r)
  BY <1>2 DEF AcquireLease, LeaseRefused, Owners, OwnsSlot, OwnsLease
<1>3. CASE \/ Admit(r) \/ AdmitFails(r) \/ PrepareFails(r) \/ CommitUser(r) \/ CommitFails(r)
           \/ CommitIndeterminate(r) \/ Settle(r) \/ SettleFails(r) \/ Turn(r) \/ Terminal(r)
           \/ TerminalFails(r) \/ HandoffEmpty(r) \/ HandoffFails(r) \/ ScheduleRetry(r)
  <2>1. \E l \in Labels :
          /\ pc' = [pc EXCEPT ![r] = l]
          /\ l \in OwnsSlot => pc[r] \in OwnsSlot
          /\ l \in OwnsLease => pc[r] \in OwnsLease
    BY <1>3 DEF Admit, AdmitFails, PrepareFails, CommitUser, CommitFails, CommitIndeterminate,
       Settle, SettleFails, Turn, Terminal, TerminalFails, HandoffEmpty, HandoffFails, ScheduleRetry,
       FinishUnsaid, FinishBlocked, Continuation, OwnsSlot, OwnsLease, Labels
  <2>2. UNCHANGED <<slot, lease, deleting>>
    BY <1>3 DEF Admit, AdmitFails, PrepareFails, CommitUser, CommitFails, CommitIndeterminate,
       Settle, SettleFails, Turn, Terminal, TerminalFails, HandoffEmpty, HandoffFails, ScheduleRetry,
       FinishUnsaid, FinishBlocked, wakeVars
  <2> QED
    BY <2>1, <2>2, StayOwners
<1>4. ASSUME NEW next \in Runs, Handoff(r, next)
      PROVE  Owners'
  BY <1>4 DEF Handoff, Tombstoned, Owners, OwnsSlot, OwnsLease
<1>5. ASSUME NEW k \in Kickers, ReleaseAndKick(r, k)
      PROVE  Owners'
  BY <1>5 DEF ReleaseAndKick, RemoveIfCurrent, Owners, OwnsSlot, OwnsLease
<1>6. CASE GiveUp(r) \/ DropSlot(r)
  BY <1>6 DEF GiveUp, DropSlot, Vanish, RemoveIfCurrent, Owners, OwnsSlot, OwnsLease
<1>7. CASE DropLease(r)
  BY <1>7 DEF DropLease, Owners, OwnsSlot, OwnsLease
<1> QED
  BY <1>1, <1>2, <1>3, <1>4, <1>5, <1>6, <1>7 DEF RunGoesOn, RunFails

LEMMA KickOwners ==
  ASSUME TypeInv, Owners, NEW k \in Kickers, KickGoesOn(k) \/ TimerFires(k)
  PROVE  Owners'
<1>1. ASSUME NEW next \in Runs, KickStarts(k, next)
      PROVE  Owners'
  BY <1>1, NoneIsNoMessage DEF KickStarts, Start, Goto, Tombstoned, TypeInv, RunTypes, Owners, OwnsSlot, OwnsLease
<1>2. CASE KickYields(k) \/ KickFails(k) \/ KickLooks(k) \/ KickResets(k) \/ TimerFires(k)
  BY <1>2 DEF KickYields, KickFails, KickLooks, KickResets, TimerFires, runVars, Owners
<1> QED
  BY <1>1, <1>2 DEF KickGoesOn

LEMMA UserOwners ==
  ASSUME TypeInv, Owners, User
  PROVE  Owners'
<1>1. ASSUME NEW m \in Messages, NEW r \in Runs, SendDirect(m, r)
      PROVE  Owners'
  BY <1>1 DEF SendDirect, Start, Goto, TypeInv, RunTypes, Owners, OwnsSlot, OwnsLease
<1>2. ASSUME NEW m \in Messages, SendQueued(m) \/ SendInterrupt(m)
      PROVE  Owners'
  BY <1>2 DEF SendQueued, SendInterrupt, runVars, Owners
<1>3. CASE Abort \/ AbortResets \/ AbortFails \/ ClearPending \/ GoalStops \/ Repair
  BY <1>3 DEF Abort, AbortResets, AbortFails, ClearPending, GoalStops, Repair, runVars, Owners
<1>4. CASE DeleteBegins \/ DeleteQuiet \/ DeleteGivesUp
  BY <1>4 DEF DeleteBegins, DeleteQuiet, DeleteGivesUp, runVars, Owners
<1> QED
  BY <1>1, <1>2, <1>3, <1>4 DEF User

LEMMA EnvironmentOwners ==
  ASSUME TypeInv, Owners, Environment
  PROVE  Owners'
<1>1. CASE OtherTakesLease \/ OtherDropsLease
  BY <1>1, OtherAssumption, NoneIsNoMessage
     DEF OtherTakesLease, OtherDropsLease, runVars, Owners
<1>2. ASSUME NEW k \in Kickers, Crash(k)
      PROVE  Owners'
  BY <1>2 DEF Crash, Owners, OwnsSlot, OwnsLease
<1> QED
  BY <1>1, <1>2 DEF Environment

LEMMA InitOwners == Init => Owners
BY DEF Init, Owners, OwnsSlot, OwnsLease

LEMMA StepOwners == TypeInv /\ Owners /\ [Next]_vars => Owners'
<1> SUFFICES ASSUME TypeInv, Owners, [Next]_vars PROVE Owners'
  OBVIOUS
<1>1. CASE UNCHANGED vars
  BY <1>1 DEF vars, runVars, Owners
<1> QED
  BY <1>1, RunOwners, KickOwners, UserOwners, EnvironmentOwners DEF Next

LEMMA OwnersInvariance == Spec => []Owners
BY InitOwners, InitTypes, StepOwners, StepTypes, PTL DEF Spec

\* One run at a time works on the Session, through every hand-over, abort,
\* retry, restart and other process (active_runs, run_lease::acquire).
THEOREM OneWriterHolds == Spec => []OneWriter
<1>1. Owners => OneWriter
  BY DEF Owners, OneWriter, Working, OwnsSlot, OwnsLease
<1> QED
  BY <1>1, OwnersInvariance, PTL

\* A deletion that has found the slot free has the Session for itself until
\* it gives up: no claim, hand-over or kick takes the slot behind it.
THEOREM DeletionIsQuietHolds == Spec => []DeletionIsQuiet
<1>1. TypeInv /\ Owners => DeletionIsQuiet
  BY NoneIsNoMessage DEF Owners, DeletionIsQuiet, Working, OwnsSlot
<1> QED
  BY <1>1, OwnersInvariance, TypeInvariance, PTL

-----------------------------------------------------------------------------
(* Who continues the queue *)

\* A step after which the queue, if it is not empty, has somebody again, or
\* which is one of the two late ones.
Kept == SomebodyContinues' \/ LateReset \/ LateDrop

LEMMA RunContinues ==
  ASSUME TypeInv, Owners, SomebodyContinues, NEW r \in Runs, RunGoesOn(r) \/ RunFails(r)
  PROVE  Kept
<1> USE NoneIsNoMessage, OtherAssumption
    DEF TypeInv, RunTypes, OwnerTypes, WakeTypes, Goto, Kept, SomebodyContinues
<1>1. CASE ClaimSlot(r) \/ Concede(r) \/ ClaimRefused(r)
  BY <1>1 DEF ClaimSlot, Concede, ClaimRefused, Vanish, wakeVars, queueVars
<1>2. CASE AcquireLease(r) \/ LeaseRefused(r)
  BY <1>2 DEF AcquireLease, LeaseRefused, wakeVars, queueVars, history, Owners, OwnsSlot, OwnsLease
<1>3. CASE AdmitFails(r) \/ CommitFails(r)
  <2>1. slot = r /\ slot' = slot
    BY <1>3 DEF AdmitFails, CommitFails, FinishUnsaid, history, Owners, OwnsSlot
  <2> QED
    BY <2>1
<1>4. CASE PrepareFails(r) \/ CommitIndeterminate(r) \/ TerminalFails(r)
  BY <1>4 DEF PrepareFails, CommitIndeterminate, TerminalFails, FinishBlocked, wakeVars, queueVars,
     Owners, OwnsSlot, OwnsLease
<1>5. CASE Admit(r) \/ CommitUser(r) \/ Settle(r) \/ SettleFails(r) \/ Turn(r)
  <2>1. pc[r] \in OwnsSlot /\ slot = r /\ slot' = slot
    BY <1>5 DEF Admit, CommitUser, Settle, SettleFails, Turn, wakeVars, history, Owners, OwnsSlot
  <2> QED
    BY <2>1
<1>6. CASE Terminal(r) \/ HandoffEmpty(r) \/ HandoffFails(r)
  <2>1. slot = r /\ slot' = slot
    BY <1>6 DEF Terminal, HandoffEmpty, HandoffFails, history, Owners, OwnsSlot
  <2> QED
    BY <2>1
<1>7. ASSUME NEW next \in Runs, Handoff(r, next)
      PROVE  Kept
  BY <1>7 DEF Handoff, wakeVars
<1>8. ASSUME NEW k \in Kickers, ReleaseAndKick(r, k)
      PROVE  Kept
  BY <1>8 DEF ReleaseAndKick, RemoveIfCurrent, queueVars, history, Owners, OwnsSlot
<1>9. CASE GiveUp(r)
  BY <1>9 DEF GiveUp, RemoveIfCurrent, wakeVars, queueVars, history, Owners, OwnsSlot
<1>10. CASE ScheduleRetry(r)
  BY <1>10 DEF ScheduleRetry, queueVars, history
<1>11. CASE DropLease(r)
  BY <1>11 DEF DropLease, wakeVars, queueVars, history
<1>12. CASE DropSlot(r)
  BY <1>12 DEF DropSlot, RemoveIfCurrent, Vanish, wakeVars, queueVars, LateDrop
<1> QED
  BY <1>1, <1>2, <1>3, <1>4, <1>5, <1>6, <1>7, <1>8, <1>9, <1>10, <1>11, <1>12
     DEF RunGoesOn, RunFails

LEMMA KickContinues ==
  ASSUME TypeInv, SomebodyContinues, NEW k \in Kickers, KickGoesOn(k) \/ TimerFires(k)
  PROVE  Kept
<1> USE NoneIsNoMessage
    DEF TypeInv, RunTypes, OwnerTypes, WakeTypes, Goto, KickGoes, Kept, SomebodyContinues
<1>1. ASSUME NEW next \in Runs, KickStarts(k, next)
      PROVE  Kept
  BY <1>1 DEF KickStarts, Start, wakeVars
<1>2. CASE KickYields(k)
  <2>1. slot # None \/ Items(queue) = {}
    <3>1. ASSUME Claimable(queue) = None
          PROVE  Items(queue) = {}
      BY <3>1, NothingClaimable DEF QueueTypes
    <3> QED
      BY <1>2, <3>1 DEF KickYields
  <2> QED
    BY <1>2, <2>1 DEF KickYields, runVars, queueVars, history
<1>3. CASE KickFails(k)
  BY <1>3 DEF KickFails, runVars, history
<1>4. CASE KickLooks(k)
  BY <1>4 DEF KickLooks, Waiting, runVars, queueVars, history
<1>5. CASE KickResets(k)
  BY <1>5 DEF KickResets, runVars, queueVars, history, LateReset
<1>6. CASE TimerFires(k)
  BY <1>6 DEF TimerFires, TailsAreOver, runVars, queueVars, history
<1> QED
  BY <1>1, <1>2, <1>3, <1>4, <1>5, <1>6 DEF KickGoesOn

LEMMA UserContinues ==
  ASSUME TypeInv, SomebodyContinues, User \/ Environment
  PROVE  Kept
<1> USE NoneIsNoMessage
    DEF TypeInv, RunTypes, OwnerTypes, WakeTypes, Goto, Kept, SomebodyContinues
<1>1. ASSUME NEW m \in Messages, NEW r \in Runs, SendDirect(m, r)
      PROVE  Kept
  BY <1>1 DEF SendDirect, Start, wakeVars, queueVars
<1>2. ASSUME NEW m \in Messages, SendQueued(m) \/ SendInterrupt(m)
      PROVE  Kept
  BY <1>2 DEF SendQueued, SendInterrupt, runVars, wakeVars
<1>3. CASE Abort
  <2>1. Items(queue') = {}
    BY <1>3, EmptyQueue DEF Abort, QueueOk
  <2> QED
    BY <2>1
<1>4. CASE AbortFails
  <2>1. Items(queue') # {} => Items(queue) # {}
    BY <1>4, EmptyQueue DEF AbortFails, QueueFails, QueueIndeterminate, queueVars
  <2> QED
    BY <1>4, <2>1 DEF AbortFails, runVars, wakeVars
<1>5. CASE ClearPending
  <2> DEFINE q == [queue EXCEPT !.queued = <<>>]
  <2>1. Items(q) = {queue.inFlight} \ {None}
    BY ClearedQueue DEF QueueTypes
  <2>2. queue' = q
    BY <1>5 DEF ClearPending, QueueOk, QueueIndeterminate
  <2> HIDE DEF q
  <2>3. Items(queue') # {} => Items(queue) # {}
    BY <2>1, <2>2 DEF Items
  <2> QED
    BY <1>5, <2>3 DEF ClearPending, runVars, wakeVars
<1>6. CASE GoalStops \/ Repair \/ DeleteBegins \/ DeleteQuiet \/ DeleteGivesUp
  BY <1>6 DEF GoalStops, Repair, DeleteBegins, DeleteQuiet, DeleteGivesUp,
     runVars, wakeVars, queueVars, history
<1>7. CASE AbortResets
  BY <1>7 DEF AbortResets, LateReset, runVars, queueVars, history
<1>8. CASE OtherTakesLease \/ OtherDropsLease
  BY <1>8 DEF OtherTakesLease, OtherDropsLease, runVars, wakeVars, queueVars, history
<1>9. ASSUME NEW k \in Kickers, Crash(k)
      PROVE  Kept
  BY <1>9 DEF Crash
<1> QED
  BY <1>1, <1>2, <1>3, <1>4, <1>5, <1>6, <1>7, <1>8, <1>9 DEF User, Environment

LEMMA StepContinues ==
  ASSUME TypeInv, Owners, [Next]_vars, SomebodyContinues
  PROVE  Kept
<1>1. CASE UNCHANGED vars
  BY <1>1 DEF vars, runVars, queueVars, wakeVars, history, Kept, SomebodyContinues, Items, Elems
<1> QED
  BY <1>1, RunContinues, KickContinues, UserContinues DEF Next

\* Whoever continues a queue names another before he is gone: no failure,
\* hand-over, release, kick, crash or deletion leaves it behind, with several
\* threads and with other processes.  The exceptions are a reset_retry that
\* comes late and a run that still has the slot when it is dropped.
THEOREM OnlyLateForsakesHolds == Spec => OnlyLateForsakes
<1>1. TypeInv /\ Owners /\ [Next]_vars
        => [SomebodyContinues => SomebodyContinues' \/ LateReset \/ LateDrop]_vars
  BY StepContinues DEF Kept
<1> QED
  BY <1>1, TypeInvariance, OwnersInvariance, PTL DEF Spec, OnlyLateForsakes

-----------------------------------------------------------------------------
(* What a step does to the messages *)

\* A run whose message is not in the history yet.
Pre == {"claim", "lease", "admit", "commit"}

\* The run s is not new: it keeps its message, and it is not set back.
Onward(s) ==
  /\ pc'[s] # "idle" =>
       /\ pc[s] # "idle" /\ msg'[s] = msg[s] /\ fromQueue'[s] = fromQueue[s]
       /\ s \in cancelled => s \in cancelled'
  /\ pc'[s] \in Pre => pc[s] \in Pre
  /\ pc'[s] = "claim" => pc[s] = "claim"
  /\ pc'[s] = "settle" => pc[s] = "settle" \/ (pc[s] = "commit" /\ msg[s] \in Said')
  /\ Ahead(s)' => Ahead(s) \/ pc[s] = "claim"

\* The run s still has a message to say, if it had one.
Keeps(s) == pc[s] \in Pre => pc'[s] \in Pre

\* Nothing moves: what runs do between their steps on messages.
Resting ==
  /\ UNCHANGED <<queue, log, sent, accepted, order, withdrawn, stopped>>
  /\ \A s \in Runs : Onward(s)

\* r is a new run of the new message m.
Sends(m, r) ==
  /\ m \notin sent /\ sent' = sent \cup {m}
  /\ UNCHANGED <<queue, log, accepted, order, withdrawn, stopped>>
  /\ pc[r] = "idle" /\ pc'[r] = "claim" /\ msg'[r] = m /\ ~ fromQueue'[r]
  /\ \A s \in Runs \ {r} : Onward(s) /\ Keeps(s)

\* m, which is new or given up by its run, enters the queue.
Pushes(m) ==
  /\ \/ m \notin sent /\ \A s \in Runs : Keeps(s)
     \/ \E r \in Runs : /\ pc[r] = "claim" /\ msg[r] = m /\ pc'[r] = "idle"
                       /\ \A s \in Runs \ {r} : Keeps(s)
  /\ sent' = sent \cup {m}
  /\ UNCHANGED <<log, withdrawn, stopped>>
  /\ \/ /\ queue' = [queue EXCEPT !.queued = Append(@, m)]
        /\ \/ accepted' = accepted \cup {m} /\ order' = Append(order, m)
           \/ UNCHANGED <<accepted, order>>
     \/ /\ queue' = [queue EXCEPT !.queued = <<m>> \o @]
        /\ accepted' \in {accepted, accepted \cup {m}} /\ UNCHANGED order
  /\ \A s \in Runs : Onward(s)

\* The delivery at the head is in flight; the run next, if any, takes it.
Claims(next) ==
  /\ UNCHANGED <<log, sent, accepted, order, withdrawn, stopped>>
  /\ queue' = Claimed(queue)
  /\ \A s \in Runs \ {next} : Onward(s) /\ Keeps(s)
  /\ next \in Runs =>
       /\ pc[next] = "idle" /\ pc'[next] = "lease" /\ fromQueue'[next]
       /\ msg'[next] = Claimable(queue) /\ Claimable(queue) # None

\* r puts the delivery in flight back at the head.
Releases(r) ==
  /\ UNCHANGED <<log, sent, accepted, order, withdrawn, stopped>>
  /\ pc[r] \in {"admit", "commit"} /\ pc'[r] \in {"handoff", "delayed"}
  /\ fromQueue[r] /\ queue.inFlight = msg[r]
  /\ queue' = [queued |-> <<msg[r]>> \o queue.queued, inFlight |-> None]
  /\ Onward(r) /\ \A s \in Runs \ {r} : Onward(s) /\ pc'[s] = pc[s]

\* r takes the delivery, which it has said, out of the queue.
Settles(r) ==
  /\ UNCHANGED <<log, sent, accepted, order, withdrawn, stopped>>
  /\ pc[r] = "settle" /\ pc'[r] \in {"turn", "terminal"}
  /\ fromQueue[r] /\ queue.inFlight = msg[r]
  /\ queue' = [queue EXCEPT !.inFlight = None]
  /\ Onward(r) /\ \A s \in Runs \ {r} : Onward(s) /\ pc'[s] = pc[s]

\* r writes its message to the history.
Says(r) ==
  /\ UNCHANGED <<queue, sent, accepted, order, withdrawn, stopped>>
  /\ pc[r] = "commit" /\ pc'[r] \in {"settle", "exit"}
  /\ log' = Appended(msg[r])
  /\ Onward(r) /\ \A s \in Runs \ {r} : Onward(s) /\ Keeps(s)

\* The user takes the messages S out of the queue; after an abort that
\* returned Ok the run in the slot is cancelled.
Withdraws(S) ==
  /\ UNCHANGED <<log, sent, accepted, order, pc, msg, fromQueue>>
  /\ cancelled \subseteq cancelled'
  /\ withdrawn' = withdrawn \cup S
  /\ \/ /\ S = Items(queue) /\ queue' = Empty
        /\ \/ stopped' = stopped
           \/ stopped' = stopped \cup S /\ {slot} \ {None} \subseteq cancelled'
     \/ /\ S = Elems(queue.queued) /\ queue' = [queue EXCEPT !.queued = <<>>]
        /\ stopped' = stopped

\* Every step has one of these shapes.
Shaped ==
  \/ Resting
  \/ \E m \in Messages, r \in Runs : Sends(m, r)
  \/ \E m \in Messages : Pushes(m)
  \/ \E next \in Runs \cup {None} : Claims(next)
  \/ \E r \in Runs : Releases(r) \/ Settles(r) \/ Says(r)
  \/ \E S \in SUBSET Messages : Withdraws(S)

LEMMA RestingRun ==
  ASSUME TypeInv, NEW r \in Runs,
         \/ ClaimSlot(r) \/ ClaimRefused(r) \/ AcquireLease(r) \/ LeaseRefused(r) \/ Admit(r)
         \/ PrepareFails(r) \/ Turn(r) \/ Terminal(r) \/ TerminalFails(r) \/ HandoffEmpty(r)
         \/ GiveUp(r) \/ ScheduleRetry(r) \/ DropLease(r) \/ DropSlot(r)
         \/ \E k \in Kickers : ReleaseAndKick(r, k)
  PROVE  Resting
<1>1. /\ UNCHANGED <<queue, log, sent, accepted, order, withdrawn, stopped>>
      /\ \/ UNCHANGED <<msg, fromQueue, cancelled>>
         \/ pc'[r] = "idle" /\ \A s \in Runs \ {r} : msg'[s] = msg[s] /\ fromQueue'[s] = fromQueue[s]
                            /\ cancelled' = cancelled \ {r}
      /\ \E l \in Labels : /\ pc' = [pc EXCEPT ![r] = l]
                           /\ l # "idle" => pc[r] # "idle"
                           /\ l \in Pre => pc[r] \in Pre
                           /\ l # "claim" /\ l # "settle"
                           /\ l \in {"lease", "admit", "commit", "turn", "terminal"}
                                => pc[r] \in {"claim", "lease", "admit", "commit", "settle", "turn", "terminal"}
  BY DEF ClaimSlot, ClaimRefused, AcquireLease, LeaseRefused, Admit, PrepareFails, FinishBlocked, Turn,
     Terminal, TerminalFails, HandoffEmpty, GiveUp, ScheduleRetry, DropLease, DropSlot, ReleaseAndKick,
     Goto, Vanish, Continuation, Labels, Pre, queueVars, logVars, history, TypeInv, RunTypes
<1> QED
  BY <1>1 DEF Resting, Onward, Ahead, Working, TypeInv, RunTypes, Pre

LEMMA ShapedRun ==
  ASSUME TypeInv, NEW r \in Runs, RunGoesOn(r) \/ RunFails(r)
  PROVE  Shaped
<1> USE DEF TypeInv, RunTypes, Goto
<1>1. CASE Concede(r)
  <2> DEFINE q == [queue EXCEPT !.queued = Append(@, msg[r])]
  <2>1. /\ msg[r] \in Messages /\ msg[r] \in sent /\ pc[r] = "claim" /\ pc'[r] = "idle"
        /\ UNCHANGED <<log, sent, withdrawn, stopped>>
    BY <1>1 DEF Concede, Vanish, Known, HistoryTypes, logVars
  <2>2. (\A s \in Runs : Onward(s)) /\ \A s \in Runs \ {r} : Keeps(s)
    BY <1>1 DEF Concede, Vanish, Onward, Keeps, Ahead, Working, Pre
  <2>3. \/ UNCHANGED <<queue, accepted, order>>
        \/ /\ queue' = q
           /\ \/ accepted' = accepted \cup {msg[r]} /\ order' = Append(order, msg[r])
              \/ UNCHANGED <<accepted, order>>
    BY <1>1 DEF Concede, Accept, QueueOk, QueueErr, QueueFails, QueueIndeterminate, queueVars
  <2>4. CASE UNCHANGED <<queue, accepted, order>>
    BY <2>1, <2>2, <2>4 DEF Resting, Shaped
  <2>5. CASE queue' = q
    <3>1. sent' = sent \cup {msg[r]}
      BY <2>1
    <3>2. \/ accepted' = accepted \cup {msg[r]} /\ order' = Append(order, msg[r])
          \/ UNCHANGED <<accepted, order>>
      BY <2>3
    <3>3. Pushes(msg[r])
      BY <2>1, <2>2, <2>5, <3>1, <3>2 DEF Pushes
    <3> QED
      BY <2>1, <3>3 DEF Shaped
  <2> QED
    BY <2>3, <2>4, <2>5
<1>2. CASE AdmitFails(r) \/ CommitFails(r)
  <2> DEFINE q == [queued |-> <<msg[r]>> \o queue.queued, inFlight |-> None]
  <2>1. /\ pc[r] \in {"admit", "commit"}
        /\ \E l \in {"handoff", "delayed"} : pc' = [pc EXCEPT ![r] = l]
        /\ UNCHANGED <<msg, fromQueue, cancelled, log, sent, accepted, order, withdrawn, stopped>>
    BY <1>2 DEF AdmitFails, CommitFails, FinishUnsaid, Continuation, logVars, history
  <2>2. queue' = queue \/ (fromQueue[r] /\ queue.inFlight = msg[r] /\ queue' = q)
    BY <1>2 DEF AdmitFails, CommitFails, FinishUnsaid, ReleaseDelivery, ReleaseTo, QueueOk, QueueErr,
       QueueFails, QueueIndeterminate, queueVars
  <2>3. \A s \in Runs : Onward(s) /\ (s # r => pc'[s] = pc[s])
    BY <2>1 DEF Onward, Ahead, Working, Pre
  <2>4. pc'[r] \in {"handoff", "delayed"}
    BY <2>1
  <2>5. CASE queue' = queue
    BY <2>1, <2>3, <2>5 DEF Resting, Shaped
  <2>6. CASE fromQueue[r] /\ queue.inFlight = msg[r] /\ queue' = q
    <3>1. Releases(r)
      BY <2>1, <2>3, <2>4, <2>6 DEF Releases
    <3> QED
      BY <3>1 DEF Shaped
  <2> QED
    BY <2>2, <2>5, <2>6
<1>3. CASE CommitUser(r) \/ CommitIndeterminate(r)
  <2>1. /\ pc[r] = "commit" /\ log' = Appended(msg[r])
        /\ \E l \in {"settle", "exit"} : pc' = [pc EXCEPT ![r] = l]
        /\ UNCHANGED <<msg, fromQueue, cancelled, queue, sent, accepted, order, withdrawn, stopped>>
    BY <1>3 DEF CommitUser, CommitIndeterminate, FinishBlocked, queueVars, history
  <2>2. msg[r] \in Said'
    <3>1. msg[r] \in Messages
      BY <2>1 DEF Known, HistoryTypes
    <3>2. Said' = Elems(log')
      BY DEF Said
    <3> QED
      BY <2>1, <3>1, <3>2, AppendedTypes
  <2>3. Says(r)
    BY <2>1, <2>2 DEF Says, Onward, Keeps, Ahead, Working, Pre
  <2> QED
    BY <2>3 DEF Shaped
<1>4. CASE Settle(r) \/ SettleFails(r)
  <2> DEFINE q == [queue EXCEPT !.inFlight = None]
  <2>1. /\ pc[r] = "settle"
        /\ \E l \in {"turn", "terminal"} : pc' = [pc EXCEPT ![r] = l]
        /\ UNCHANGED <<msg, fromQueue, cancelled, log, sent, accepted, order, withdrawn, stopped>>
    BY <1>4 DEF Settle, SettleFails, logVars, history
  <2>2. queue' = queue \/ (fromQueue[r] /\ queue.inFlight = msg[r] /\ queue' = q)
    BY <1>4 DEF Settle, SettleFails, QueueOk, QueueErr, QueueFails, QueueIndeterminate, queueVars
  <2>3. \A s \in Runs : Onward(s) /\ (s # r => pc'[s] = pc[s])
    BY <2>1 DEF Onward, Ahead, Working, Pre
  <2>4. pc'[r] \in {"turn", "terminal"}
    BY <2>1
  <2>5. CASE queue' = queue
    BY <2>1, <2>3, <2>5 DEF Resting, Shaped
  <2>6. CASE fromQueue[r] /\ queue.inFlight = msg[r] /\ queue' = q
    <3>1. Settles(r)
      BY <2>1, <2>3, <2>4, <2>6 DEF Settles
    <3> QED
      BY <3>1 DEF Shaped
  <2> QED
    BY <2>2, <2>5, <2>6
<1>5. ASSUME NEW next \in Runs, Handoff(r, next)
      PROVE  Shaped
  <2>1. /\ UNCHANGED <<log, sent, accepted, order, withdrawn, stopped>>
        /\ queue' = Claimed(queue)
        /\ pc[next] = "idle" /\ pc'[next] = "lease" /\ fromQueue'[next]
        /\ msg'[next] = Claimable(queue) /\ Claimable(queue) # None
    BY <1>5 DEF Handoff, QueueOk, logVars, Labels
  <2>2. \A s \in Runs \ {next} : Onward(s) /\ Keeps(s)
    BY <1>5 DEF Handoff, Onward, Keeps, Ahead, Working, Pre
  <2>3. Claims(next)
    BY <2>1, <2>2 DEF Claims
  <2> QED
    BY <2>3 DEF Shaped
<1>6. CASE HandoffFails(r)
  <2>1. /\ UNCHANGED <<msg, fromQueue, cancelled, log, sent, accepted, order, withdrawn, stopped>>
        /\ pc' = [pc EXCEPT ![r] = "giveUp"] /\ pc[r] = "handoff"
        /\ queue' \in {queue, Claimed(queue)}
    BY <1>6 DEF HandoffFails, ClaimErr, QueueErr, QueueFails, QueueIndeterminate, queueVars, logVars, history
  <2>2. \A s \in Runs : Onward(s) /\ Keeps(s)
    BY <2>1 DEF Onward, Keeps, Ahead, Working, Pre
  <2>3. Resting \/ Claims(None)
    BY <2>1, <2>2, NoneIsNoMessage DEF Resting, Claims
  <2> QED
    BY <2>3 DEF Shaped
<1> QED
  BY <1>1, <1>2, <1>3, <1>4, <1>5, <1>6, RestingRun DEF RunGoesOn, RunFails, Shaped

LEMMA ShapedKick ==
  ASSUME TypeInv, NEW k \in Kickers, KickGoesOn(k) \/ TimerFires(k)
  PROVE  Shaped
<1>1. ASSUME NEW next \in Runs, KickStarts(k, next)
      PROVE  Shaped
  <2>1. /\ UNCHANGED <<log, sent, accepted, order, withdrawn, stopped>>
        /\ queue' = Claimed(queue)
        /\ pc[next] = "idle" /\ pc'[next] = "lease" /\ fromQueue'[next]
        /\ msg'[next] = Claimable(queue) /\ Claimable(queue) # None
    BY <1>1 DEF KickStarts, Start, Goto, QueueOk, logVars, TypeInv, RunTypes
  <2>2. \A s \in Runs \ {next} : Onward(s) /\ Keeps(s)
    BY <1>1 DEF KickStarts, Start, Goto, Fresh, Onward, Keeps, Ahead, Working, TypeInv, RunTypes
  <2>3. Claims(next)
    BY <2>1, <2>2 DEF Claims
  <2> QED
    BY <2>3 DEF Shaped
<1>2. CASE KickYields(k) \/ KickFails(k) \/ KickLooks(k) \/ KickResets(k) \/ TimerFires(k)
  <2>1. /\ UNCHANGED <<runVars, log, sent, accepted, order, withdrawn, stopped>>
        /\ queue' \in {queue, Claimed(queue)}
    BY <1>2 DEF KickYields, KickFails, KickLooks, KickResets, TimerFires, ClaimErr, QueueErr, QueueFails,
       QueueIndeterminate, queueVars, logVars, history
  <2>2. \A s \in Runs : Onward(s) /\ Keeps(s)
    BY <2>1 DEF Onward, Keeps, Ahead, Working, runVars
  <2>3. Resting \/ Claims(None)
    BY <2>1, <2>2, NoneIsNoMessage DEF Resting, Claims
  <2> QED
    BY <2>3 DEF Shaped
<1> QED
  BY <1>1, <1>2 DEF KickGoesOn

LEMMA ShapedUser ==
  ASSUME TypeInv, User
  PROVE  Shaped
<1>1. ASSUME NEW m \in Messages, NEW r \in Runs, SendDirect(m, r)
      PROVE  Shaped
  <2>1. Sends(m, r)
    BY <1>1 DEF SendDirect, Start, Goto, Fresh, Sends, Onward, Keeps, Ahead, Working, Pre, TypeInv, RunTypes,
       queueVars, logVars
  <2> QED
    BY <2>1 DEF Shaped
<1>2. ASSUME NEW m \in Messages, SendQueued(m)
      PROVE  Shaped
  <2> DEFINE q == [queue EXCEPT !.queued = Append(@, m)]
  <2>1. /\ m \notin sent /\ sent' = sent \cup {m}
        /\ UNCHANGED <<runVars, log, withdrawn, stopped>>
        /\ queue' = q
        /\ \/ accepted' = accepted \cup {m} /\ order' = Append(order, m)
           \/ UNCHANGED <<accepted, order>>
    BY <1>2 DEF SendQueued, Accept, QueueOk, QueueIndeterminate, logVars
  <2>2. \A s \in Runs : Onward(s) /\ Keeps(s)
    BY <2>1 DEF Onward, Keeps, Ahead, Working, runVars
  <2>3. Pushes(m)
    BY <2>1, <2>2 DEF Pushes
  <2> QED
    BY <2>3 DEF Shaped
<1>3. ASSUME NEW m \in Messages, SendInterrupt(m)
      PROVE  Shaped
  <2> DEFINE q == [queue EXCEPT !.queued = <<m>> \o @]
  <2>1. /\ m \notin sent /\ sent' = sent \cup {m}
        /\ UNCHANGED <<pc, msg, fromQueue, log, order, withdrawn, stopped>>
        /\ cancelled \subseteq cancelled'
        /\ queue' = q
        /\ accepted' \in {accepted, accepted \cup {m}}
    BY <1>3 DEF SendInterrupt, QueueOk, QueueIndeterminate, logVars
  <2>2. \A s \in Runs : Onward(s) /\ Keeps(s)
    BY <2>1 DEF Onward, Keeps, Ahead, Working
  <2>3. Pushes(m)
    BY <2>1, <2>2 DEF Pushes
  <2> QED
    BY <2>3 DEF Shaped
<1>4. CASE Abort \/ AbortFails
  <2>1. /\ UNCHANGED <<pc, msg, fromQueue, log, sent, accepted, order>>
        /\ cancelled \subseteq cancelled'
    BY <1>4 DEF Abort, AbortFails, runVars, logVars
  <2>2. \/ UNCHANGED <<queue, withdrawn, stopped>>
        \/ /\ queue' = Empty /\ withdrawn' = withdrawn \cup Items(queue)
           /\ \/ stopped' = stopped
              \/ stopped' = stopped \cup Items(queue) /\ {slot} \ {None} \subseteq cancelled'
    BY <1>4 DEF Abort, AbortFails, QueueOk, QueueFails, QueueIndeterminate, queueVars
  <2>3. CASE UNCHANGED <<queue, withdrawn, stopped>>
    BY <2>1, <2>3 DEF Shaped, Resting, Onward, Ahead, Working
  <2>4. CASE queue' = Empty
    <3>1. Resting \/ Withdraws(Items(queue))
      BY <2>1, <2>2, <2>3 DEF Withdraws, Shaped, Resting, Onward, Ahead, Working
    <3>2. Items(queue) \in SUBSET Messages
      BY QueueShape DEF TypeInv, QueueTypes
    <3> QED
      BY <3>1, <3>2 DEF Shaped
  <2> QED
    BY <2>2, <2>3, <2>4
<1>5. CASE ClearPending
  <2>1. Withdraws(Elems(queue.queued))
    BY <1>5 DEF ClearPending, Withdraws, QueueOk, QueueIndeterminate, runVars, logVars
  <2>2. Elems(queue.queued) \in SUBSET Messages
    BY QueueShape DEF TypeInv, QueueTypes
  <2> QED
    BY <2>1, <2>2 DEF Shaped
<1>6. CASE AbortResets \/ GoalStops \/ Repair \/ DeleteBegins \/ DeleteQuiet \/ DeleteGivesUp
  <2>1. /\ UNCHANGED <<pc, msg, fromQueue, queue, log, sent, accepted, order, withdrawn, stopped>>
        /\ cancelled \subseteq cancelled'
    BY <1>6 DEF AbortResets, GoalStops, Repair, DeleteBegins, DeleteQuiet, DeleteGivesUp,
       runVars, queueVars, logVars, history
  <2> QED
    BY <2>1 DEF Shaped, Resting, Onward, Ahead, Working
<1> QED
  BY <1>1, <1>2, <1>3, <1>4, <1>5, <1>6 DEF User

LEMMA StepShaped ==
  ASSUME TypeInv, [Next]_vars
  PROVE  Shaped
<1>1. CASE UNCHANGED vars
  BY <1>1 DEF vars, runVars, queueVars, logVars, history, Shaped, Resting, Onward, Ahead, Working
<1>2. CASE Environment
  <2>1. ASSUME NEW k \in Kickers, Crash(k)
        PROVE  Shaped
    BY <2>1 DEF Crash, Shaped, Resting, Onward, Ahead, Working, Pre
  <2>2. CASE OtherTakesLease \/ OtherDropsLease
    BY <2>2 DEF OtherTakesLease, OtherDropsLease, runVars, queueVars, logVars, history,
       Shaped, Resting, Onward, Ahead, Working
  <2> QED
    BY <1>2, <2>1, <2>2 DEF Environment
<1> QED
  BY <1>1, <1>2, ShapedRun, ShapedKick, ShapedUser DEF Next

-----------------------------------------------------------------------------
(* What a step does to the queue *)

\* x waits behind y.
Behind(q, x, y) ==
  \/ q.inFlight = y /\ x \in Elems(q.queued)
  \/ \E a, b \in DOMAIN q.queued : a < b /\ q.queued[a] = y /\ q.queued[b] = x

LEMMA BehindInside ==
  ASSUME NEW q \in Queues, NEW x \in Messages, NEW y \in Messages, Behind(q, x, y)
  PROVE  x \in Items(q) /\ y \in Items(q)
BY NoneIsNoMessage DEF Behind, Items, Elems

\* The queue with m in front of what waits, whatever is in flight.
LEMMA BehindCons ==
  ASSUME NEW q \in Queues, NEW p \in Queues, NEW m \in Messages, NEW x, NEW y,
         p.queued = <<m>> \o q.queued, Behind(p, x, y), p.inFlight # y
  PROVE  (y = m /\ x \in Elems(q.queued)) \/ Behind(q, x, y)
<1> DEFINE s == q.queued
           t == p.queued
<1>1. s \in Seq(Messages) /\ Len(s) \in Nat /\ DOMAIN s = 1..Len(s)
  BY QueueShape
<1>2. /\ Len(t) = Len(s) + 1 /\ t \in Seq(Messages)
      /\ t[1] = m /\ \A i \in 1..Len(s) : t[i + 1] = s[i]
  BY <1>1, ConsElems
<1> HIDE DEF s, t
<1>3. DOMAIN t = 1..Len(s) + 1
  BY <1>1, <1>2
<1>4. PICK a, b \in DOMAIN t : a < b /\ t[a] = y /\ t[b] = x
  BY DEF Behind, t
<1>5. b - 1 \in DOMAIN s /\ s[b - 1] = x
  BY <1>1, <1>2, <1>3, <1>4
<1>6. CASE a = 1
  BY <1>2, <1>4, <1>5, <1>6 DEF Elems, s
<1>7. CASE a # 1
  <2>1. a - 1 \in DOMAIN s /\ s[a - 1] = y /\ a - 1 < b - 1
    BY <1>1, <1>2, <1>3, <1>4, <1>7
  <2> QED
    BY <1>5, <2>1 DEF Behind, s
<1> QED
  BY <1>6, <1>7

LEMMA BehindBack ==
  ASSUME NEW q \in Queues, NEW p \in Queues, NEW m \in Messages, NEW x, NEW y,
         p.queued = Append(q.queued, m), p.inFlight = q.inFlight, Behind(p, x, y)
  PROVE  x = m \/ Behind(q, x, y)
<1> DEFINE s == q.queued
           t == p.queued
<1>1. s \in Seq(Messages) /\ Len(s) \in Nat /\ DOMAIN s = 1..Len(s)
  BY QueueShape
<1>2. /\ Len(t) = Len(s) + 1 /\ DOMAIN t = 1..Len(s) + 1
      /\ t[Len(s) + 1] = m /\ \A i \in 1..Len(s) : t[i] = s[i]
  BY <1>1
<1>3. Elems(t) = Elems(s) \cup {m}
  BY <1>1, AppendElems
<1>4. CASE p.inFlight = y /\ x \in Elems(p.queued)
  BY <1>3, <1>4 DEF Behind
<1>5. ASSUME NEW a \in DOMAIN t, NEW b \in DOMAIN t, a < b, t[a] = y, t[b] = x
      PROVE  x = m \/ Behind(q, x, y)
  <2>1. CASE b = Len(s) + 1
    BY <1>2, <1>5, <2>1
  <2>2. CASE b # Len(s) + 1
    <3> HIDE DEF s, t
    <3>1. a \in DOMAIN s /\ b \in DOMAIN s /\ s[a] = y /\ s[b] = x
      BY <1>1, <1>2, <1>5, <2>2
    <3> QED
      BY <1>5, <3>1 DEF Behind, s
  <2> QED
    BY <2>1, <2>2
<1> QED
  BY <1>4, <1>5 DEF Behind

LEMMA BehindClaimed ==
  ASSUME NEW q \in Queues, NEW x, NEW y, Behind(Claimed(q), x, y), y # None
  PROVE  Behind(q, x, y)
<1> DEFINE s == q.queued
           t == Tail(s)
<1>1. s \in Seq(Messages)
  BY QueueShape
<1>2. CASE q.inFlight # None \/ s = <<>>
  BY <1>2 DEF Claimed
<1>3. CASE q.inFlight = None /\ s # <<>>
  <2>1. Claimed(q).queued = t /\ Claimed(q).inFlight = Head(s)
    BY <1>3 DEF Claimed
  <2>2. /\ Head(s) = s[1] /\ Len(s) \in Nat \ {0} /\ DOMAIN s = 1..Len(s)
        /\ t \in Seq(Messages) /\ Len(t) = Len(s) - 1
        /\ \A i \in 1..Len(s) - 1 : t[i] = s[i + 1]
    BY <1>1, <1>3, TailElems
  <2> HIDE DEF s, t
  <2>3. DOMAIN t = 1..Len(s) - 1
    BY <2>2
  <2>4. CASE s[1] = y /\ x \in Elems(t)
    <3>1. PICK i \in DOMAIN t : t[i] = x
      BY <2>4 DEF Elems
    <3>2. 1 \in DOMAIN s /\ i + 1 \in DOMAIN s /\ 1 < i + 1 /\ s[i + 1] = x
      BY <2>2, <2>3, <3>1
    <3> QED
      BY <2>4, <3>2 DEF Behind, s
  <2>5. ASSUME NEW a \in DOMAIN t, NEW b \in DOMAIN t, a < b, t[a] = y, t[b] = x
        PROVE  Behind(q, x, y)
    <3>1. /\ a + 1 \in DOMAIN s /\ b + 1 \in DOMAIN s /\ a + 1 < b + 1
          /\ s[a + 1] = y /\ s[b + 1] = x
      BY <2>2, <2>3, <2>5
    <3> QED
      BY <3>1 DEF Behind, s
  <2> QED
    BY <2>1, <2>2, <2>4, <2>5 DEF Behind
<1> QED
  BY <1>2, <1>3

\* Everything else waits behind the head.
LEMMA HeadFirst ==
  ASSUME NEW q \in Queues, Claimable(q) # None, NEW x \in Items(q), x # Claimable(q)
  PROVE  Behind(q, x, Claimable(q))
<1> DEFINE s == q.queued
<1>1. s \in Seq(Messages) /\ Len(s) \in Nat /\ DOMAIN s = 1..Len(s)
  BY QueueShape
<1>2. CASE q.inFlight # None
  BY <1>2, QueueShape DEF Claimable, Behind
<1>3. CASE q.inFlight = None
  <2>1. s # <<>> /\ Claimable(q) = Head(s) /\ x \in Elems(s)
    BY <1>3, QueueShape DEF Claimable
  <2>2. Head(s) = s[1] /\ Len(s) # 0
    BY <1>1, <2>1, TailElems
  <2>3. PICK b \in DOMAIN s : s[b] = x
    BY <2>1 DEF Elems
  <2>4. 1 \in DOMAIN s /\ 1 < b
    BY <1>1, <2>1, <2>2, <2>3
  <2> QED
    BY <2>1, <2>2, <2>3, <2>4 DEF Behind
<1> QED
  BY <1>2, <1>3

LEMMA PushesQueue ==
  ASSUME TypeInv, NEW m \in Messages, Pushes(m)
  PROVE  /\ queue' \in Queues
         /\ queue'.inFlight = queue.inFlight
         /\ queue'.queued \in {Append(queue.queued, m), <<m>> \o queue.queued}
         /\ Elems(queue'.queued) = Elems(queue.queued) \cup {m}
         /\ Items(queue') = Items(queue) \cup {m}
         /\ \A x, y : Behind(queue', x, y) => x = m \/ y = m \/ Behind(queue, x, y)
         /\ order' # order => \A x, y : Behind(queue', x, y) => x = m \/ Behind(queue, x, y)
<1> DEFINE p == [queue EXCEPT !.queued = Append(@, m)]
           f == [queue EXCEPT !.queued = <<m>> \o @]
<1>1. queue \in Queues
  BY DEF TypeInv, QueueTypes
<1>2. /\ p \in Queues /\ p.queued = Append(queue.queued, m) /\ p.inFlight = queue.inFlight
      /\ Elems(p.queued) = Elems(queue.queued) \cup {m}
      /\ Items(p) = Items(queue) \cup {m}
  BY <1>1, PushedBack
<1>3. /\ f \in Queues /\ f.queued = <<m>> \o queue.queued /\ f.inFlight = queue.inFlight
      /\ Elems(f.queued) = Elems(queue.queued) \cup {m}
      /\ Items(f) = Items(queue) \cup {m}
  BY <1>1, PushedFront
<1>4. queue' = p \/ (queue' = f /\ order' = order)
  BY DEF Pushes
<1> HIDE DEF p, f
<1>5. \A x, y : Behind(p, x, y) => x = m \/ Behind(queue, x, y)
  BY <1>1, <1>2, BehindBack
<1>6. \A x, y : Behind(f, x, y) => x = m \/ y = m \/ Behind(queue, x, y)
  <2>1. ASSUME NEW x, NEW y, Behind(f, x, y), f.inFlight = y, x \in Elems(f.queued)
        PROVE  x = m \/ Behind(queue, x, y)
    BY <1>3, <2>1 DEF Behind
  <2>2. ASSUME NEW x, NEW y, Behind(f, x, y), f.inFlight # y
        PROVE  y = m \/ Behind(queue, x, y)
    BY <1>1, <1>3, <2>2, BehindCons
  <2>3. ASSUME NEW x, NEW y, Behind(f, x, y), f.inFlight = y, x \notin Elems(f.queued)
        PROVE  FALSE
    BY <2>3 DEF Behind, Elems
  <2> QED
    BY <2>1, <2>2, <2>3
<1> QED
  BY <1>2, <1>3, <1>4, <1>5, <1>6

LEMMA ClaimsQueue ==
  ASSUME TypeInv, NEW next \in Runs \cup {None}, Claims(next)
  PROVE  /\ queue' \in Queues
         /\ queue'.inFlight = Claimable(queue)
         /\ Elems(queue'.queued) \subseteq Elems(queue.queued)
         /\ Items(queue') = Items(queue)
         /\ Claimable(queue) # None => Claimable(queue) \in Items(queue)
         /\ \A x, y : y # None /\ Behind(queue', x, y) => Behind(queue, x, y)
BY ClaimedQueue, BehindClaimed DEF TypeInv, QueueTypes, Claims

LEMMA ReleasesQueue ==
  ASSUME TypeInv, NEW r \in Runs, Releases(r)
  PROVE  /\ queue' \in Queues
         /\ msg[r] \in Messages /\ queue.inFlight = msg[r] /\ queue'.inFlight = None
         /\ queue'.queued = <<msg[r]>> \o queue.queued
         /\ Elems(queue'.queued) = Elems(queue.queued) \cup {msg[r]}
         /\ Items(queue') = Items(queue)
         /\ \A x, y : y # None /\ Behind(queue', x, y) => Behind(queue, x, y)
<1> DEFINE q == [queued |-> <<msg[r]>> \o queue.queued, inFlight |-> None]
<1>1. /\ queue \in Queues /\ msg[r] \in Messages /\ msg[r] # None
      /\ queue.inFlight = msg[r] /\ queue' = q
  BY NoneIsNoMessage DEF Releases, TypeInv, QueueTypes, Known, HistoryTypes
<1>2. /\ q \in Queues /\ q.inFlight = None /\ q.queued = <<msg[r]>> \o queue.queued
      /\ Elems(q.queued) = Elems(queue.queued) \cup {msg[r]}
      /\ Items(q) = Elems(queue.queued) \cup {msg[r]}
  BY <1>1, ReleasedQueue
<1> HIDE DEF q
<1>3. Items(queue') = Items(queue)
  BY <1>1, <1>2, QueueShape
<1>4. ASSUME NEW x, NEW y, y # None, Behind(q, x, y)
      PROVE  Behind(queue, x, y)
  <2>1. (y = msg[r] /\ x \in Elems(queue.queued)) \/ Behind(queue, x, y)
    BY <1>1, <1>2, <1>4, BehindCons
  <2> QED
    BY <1>1, <2>1 DEF Behind
<1> QED
  BY <1>1, <1>2, <1>3, <1>4

LEMMA SettlesQueue ==
  ASSUME TypeInv, NEW r \in Runs, Settles(r)
  PROVE  /\ queue' \in Queues
         /\ queue.inFlight = msg[r] /\ queue'.inFlight = None
         /\ queue'.queued = queue.queued
         /\ Items(queue') = Elems(queue.queued)
         /\ Items(queue) = Items(queue') \cup {msg[r]}
         /\ \A x, y : y # None /\ Behind(queue', x, y) => Behind(queue, x, y)
<1> DEFINE q == [queue EXCEPT !.inFlight = None]
<1>1. queue \in Queues /\ queue.inFlight = msg[r] /\ queue' = q /\ msg[r] # None
  BY NoneIsNoMessage DEF Settles, TypeInv, QueueTypes, Known, HistoryTypes
<1>2. q \in Queues /\ q.queued = queue.queued /\ q.inFlight = None /\ Items(q) = Elems(queue.queued)
  BY <1>1, SettledQueue
<1> HIDE DEF q
<1> QED
  BY <1>1, <1>2, QueueShape DEF Behind

LEMMA WithdrawsQueue ==
  ASSUME TypeInv, NEW S \in SUBSET Messages, Withdraws(S)
  PROVE  /\ queue' \in Queues
         /\ queue'.queued = <<>> /\ Elems(queue'.queued) = {}
         /\ \/ queue'.inFlight = queue.inFlight
            \/ queue'.inFlight = None /\ queue.inFlight \in S \cup {None} /\ Items(queue') = {}
         /\ Elems(queue.queued) \subseteq S
         /\ Items(queue') \subseteq Items(queue) /\ Items(queue) \subseteq Items(queue') \cup S
         /\ S \subseteq Items(queue)
         /\ \A x, y : ~ Behind(queue', x, y)
<1> DEFINE q == [queue EXCEPT !.queued = <<>>]
<1>1. queue \in Queues
  BY DEF TypeInv, QueueTypes
<1>2. /\ q \in Queues /\ Elems(q.queued) = {} /\ q.inFlight = queue.inFlight
      /\ Items(q) = {queue.inFlight} \ {None} /\ q.queued = <<>>
  BY <1>1, ClearedQueue
<1>3. Empty.queued = <<>> /\ Empty.inFlight = None
  BY DEF Empty
<1>4. \/ S = Items(queue) /\ queue' = Empty
      \/ S = Elems(queue.queued) /\ queue' = q
  BY DEF Withdraws
<1>5. Items(queue) = Elems(queue.queued) \cup ({queue.inFlight} \ {None})
  BY DEF Items
<1> HIDE DEF q
<1>6. queue'.queued = <<>> /\ Elems(queue'.queued) = {}
  BY <1>2, <1>3, <1>4, EmptyQueue
<1>7. \A x, y : ~ Behind(queue', x, y)
  BY <1>6 DEF Behind
<1> QED
  BY <1>2, <1>4, <1>5, <1>6, <1>7, EmptyQueue

-----------------------------------------------------------------------------
(* Where a message may be *)

\* Queued, said or withdrawn; for good, once it is.
Touched == Items(queue) \cup Said \cup withdrawn

\* The inductive invariant of abort: the message of a run that did not come
\* through the queue is nowhere else, and what was accepted is never lost.
Apart ==
  /\ Elems(order) \subseteq accepted
  /\ accepted \subseteq Touched /\ Touched \subseteq sent
  /\ \A r \in Runs :
       /\ pc[r] = "claim" => ~ fromQueue[r]
       /\ pc[r] = "settle" => msg[r] \in Said
       /\ pc[r] \in Pre /\ fromQueue[r] => msg[r] \in Touched
       /\ pc[r] \in Pre /\ ~ fromQueue[r] =>
            /\ msg[r] \notin Touched
            /\ \A s \in Runs \ {r} : pc[s] \in Pre => msg[s] # msg[r]

\* A step that touches at most the messages in N and starts no run.
LEMMA OnwardApart ==
  ASSUME Apart, NEW N,
         Touched \subseteq Touched', Touched' \subseteq Touched \cup N,
         Said \subseteq Said', Touched' \subseteq sent',
         Elems(order') \subseteq accepted', accepted' \subseteq Touched',
         \A s \in Runs : Onward(s),
         \A s \in Runs : pc'[s] \in Pre /\ ~ fromQueue[s] => msg[s] \notin N
  PROVE  Apart'
<1>1. ASSUME NEW r \in Runs
      PROVE  /\ pc'[r] = "claim" => ~ fromQueue'[r]
             /\ pc'[r] = "settle" => msg'[r] \in Said'
             /\ pc'[r] \in Pre /\ fromQueue'[r] => msg'[r] \in Touched'
             /\ pc'[r] \in Pre /\ ~ fromQueue'[r] =>
                  /\ msg'[r] \notin Touched'
                  /\ \A s \in Runs \ {r} : pc'[s] \in Pre => msg'[s] # msg'[r]
  <2>1. "idle" \notin Pre /\ "claim" \in Pre
    BY DEF Pre
  <2>2. \A s \in Runs : pc'[s] \in Pre => pc[s] \in Pre /\ msg'[s] = msg[s] /\ fromQueue'[s] = fromQueue[s]
    BY <2>1 DEF Onward
  <2>3. pc'[r] = "settle" => msg'[r] = msg[r] /\ (pc[r] = "settle" \/ msg[r] \in Said')
    BY DEF Onward
  <2>4. pc'[r] = "claim" => pc[r] = "claim"
    BY DEF Onward
  <2> QED
    BY <2>1, <2>2, <2>3, <2>4 DEF Apart
<1>2. /\ Elems(order)' = Elems(order')
  BY DEF Elems
<1> QED
  BY <1>1, <1>2 DEF Apart

LEMMA UntouchedApart ==
  ASSUME Apart, Touched' = Touched, Said' = Said,
         UNCHANGED <<sent, accepted, order>>,
         \A s \in Runs : Onward(s)
  PROVE  Apart'
<1> DEFINE N == {}
<1>1. /\ Touched \subseteq Touched' /\ Touched' \subseteq Touched \cup N
      /\ Said \subseteq Said' /\ Touched' \subseteq sent'
  BY DEF Apart
<1>2. Elems(order') \subseteq accepted' /\ accepted' \subseteq Touched'
  BY DEF Apart
<1>3. \A s \in Runs : pc'[s] \in Pre /\ ~ fromQueue[s] => msg[s] \notin N
  OBVIOUS
<1> HIDE DEF N
<1> QED
  BY <1>1, <1>2, <1>3, OnwardApart

LEMMA PushedIsNew ==
  ASSUME TypeInv, Apart, NEW m \in Messages, Pushes(m)
  PROVE  /\ m \notin Touched
         /\ \A s \in Runs : pc'[s] \in Pre /\ ~ fromQueue[s] => msg[s] # m
<1>1. CASE m \notin sent
  BY <1>1 DEF Pushes, Onward, Pre, Apart, TypeInv, Known
<1>2. ASSUME NEW r \in Runs, pc[r] = "claim" /\ msg[r] = m /\ pc'[r] = "idle"
      PROVE  m \notin Touched /\ \A s \in Runs : pc'[s] \in Pre /\ ~ fromQueue[s] => msg[s] # m
  BY <1>2 DEF Pushes, Onward, Pre, Apart
<1> QED
  BY <1>1, <1>2 DEF Pushes

LEMMA ShapedApart ==
  ASSUME TypeInv, Apart, Shaped
  PROVE  Apart'
<1>0. /\ queue \in Queues /\ log \in Seq(Messages) /\ order \in Seq(Messages)
      /\ withdrawn \subseteq sent /\ sent \subseteq Messages
  BY DEF TypeInv, QueueTypes, LogTypes, HistoryTypes
<1>a. /\ Touched' = Items(queue') \cup Elems(log') \cup withdrawn'
      /\ Said' = Elems(log') /\ Elems(log) = Said
  BY DEF Touched, Said, Items, Elems
<1>1. CASE Resting
  <2>1. Touched' = Touched /\ Said' = Said /\ accepted' = accepted /\ order' = order /\ sent' = sent
    BY <1>1, <1>a DEF Resting, Touched, Said
  <2> QED
    BY <1>1, <2>1, UntouchedApart DEF Resting
<1>2. ASSUME NEW m \in Messages, NEW r \in Runs, Sends(m, r)
      PROVE  Apart'
  <2>1. /\ Touched' = Touched /\ Said' = Said /\ accepted' = accepted /\ order' = order
        /\ sent' = sent \cup {m} /\ m \notin Touched
    BY <1>2, <1>a DEF Sends, Touched, Said, Apart
  <2>2. \A s \in Runs : pc[s] # "idle" => msg[s] # m
    BY <1>2 DEF Sends, TypeInv, Known
  <2>3. \A s \in Runs \ {r} :
          /\ pc'[s] \in Pre => pc[s] \in Pre /\ pc[s] # "idle" /\ msg'[s] = msg[s] /\ fromQueue'[s] = fromQueue[s]
          /\ pc'[s] = "claim" => pc[s] = "claim"
          /\ pc'[s] = "settle" => msg'[s] = msg[s] /\ (pc[s] = "settle" \/ msg[s] \in Said')
    BY <1>2 DEF Sends, Onward, Pre
  <2>4. pc'[r] = "claim" /\ msg'[r] = m /\ ~ fromQueue'[r] /\ "claim" \in Pre
    BY <1>2 DEF Sends, Pre
  <2> QED
    BY <2>1, <2>2, <2>3, <2>4 DEF Apart
<1>3. ASSUME NEW m \in Messages, Pushes(m)
      PROVE  Apart'
  <2>1. m \notin Touched /\ \A s \in Runs : pc'[s] \in Pre /\ ~ fromQueue[s] => msg[s] # m
    BY <1>3, PushedIsNew
  <2>2. Items(queue') = Items(queue) \cup {m}
    BY <1>3, PushesQueue
  <2>3. Touched' = Touched \cup {m} /\ Said' = Said /\ sent' = sent \cup {m}
    BY <1>3, <1>a, <2>2 DEF Pushes, Touched
  <2>4. Elems(order') \subseteq accepted' /\ accepted' \subseteq Touched'
    <3>1. accepted' = accepted \/ accepted' = accepted \cup {m}
      BY <1>3 DEF Pushes
    <3>2. order' = order \/ (order' = Append(order, m) /\ accepted' = accepted \cup {m})
      BY <1>3 DEF Pushes
    <3>3. Elems(Append(order, m)) = Elems(order) \cup {m}
      BY <1>0, AppendElems
    <3> QED
      BY <2>3, <3>1, <3>2, <3>3 DEF Apart
  <2>5. \A s \in Runs : Onward(s)
    BY <1>3 DEF Pushes
  <2>6. /\ Touched \subseteq Touched' /\ Touched' \subseteq Touched \cup {m}
        /\ Said \subseteq Said' /\ Touched' \subseteq sent'
    BY <2>3 DEF Apart
  <2>7. \A s \in Runs : pc'[s] \in Pre /\ ~ fromQueue[s] => msg[s] \notin {m}
    BY <2>1
  <2> HIDE DEF Apart
  <2> QED
    BY <2>4, <2>5, <2>6, <2>7, OnwardApart
<1>4. ASSUME NEW next \in Runs \cup {None}, Claims(next)
      PROVE  Apart'
  <2>1. Items(queue') = Items(queue) /\ (Claimable(queue) # None => Claimable(queue) \in Items(queue))
    BY <1>4, ClaimsQueue
  <2>2. Touched' = Touched /\ Said' = Said /\ accepted' = accepted /\ order' = order /\ sent' = sent
    BY <1>4, <1>a, <2>1 DEF Claims, Touched
  <2>3. CASE next \notin Runs
    BY <1>4, <2>2, <2>3, UntouchedApart DEF Claims
  <2>4. CASE next \in Runs
    <3>1. \A s \in Runs \ {next} :
            /\ pc'[s] \in Pre => pc[s] \in Pre /\ pc[s] # "idle" /\ msg'[s] = msg[s] /\ fromQueue'[s] = fromQueue[s]
            /\ pc'[s] = "claim" => pc[s] = "claim"
            /\ pc'[s] = "settle" => msg'[s] = msg[s] /\ (pc[s] = "settle" \/ msg[s] \in Said')
      BY <1>4 DEF Claims, Onward, Pre
    <3>2. pc'[next] = "lease" /\ fromQueue'[next] /\ msg'[next] \in Touched
      BY <1>4, <2>1, <2>4 DEF Claims, Touched
    <3>3. ASSUME NEW s \in Runs
          PROVE  /\ pc'[s] = "claim" => ~ fromQueue'[s]
                 /\ pc'[s] = "settle" => msg'[s] \in Said'
                 /\ pc'[s] \in Pre /\ fromQueue'[s] => msg'[s] \in Touched'
                 /\ pc'[s] \in Pre /\ ~ fromQueue'[s] =>
                      /\ msg'[s] \notin Touched'
                      /\ \A t \in Runs \ {s} : pc'[t] \in Pre => msg'[t] # msg'[s]
      <4>1. CASE s = next
        BY <2>2, <3>2, <4>1
      <4>2. CASE s # next
        <5>1. /\ pc'[s] = "claim" => ~ fromQueue'[s]
              /\ pc'[s] = "settle" => msg'[s] \in Said'
              /\ pc'[s] \in Pre /\ fromQueue'[s] => msg'[s] \in Touched'
          <6>1. /\ pc[s] = "claim" => ~ fromQueue[s]
                /\ pc[s] = "settle" => msg[s] \in Said
                /\ pc[s] \in Pre /\ fromQueue[s] => msg[s] \in Touched
            BY DEF Apart
          <6>2. "claim" \in Pre /\ s \in Runs \ {next}
            BY <4>2 DEF Pre
          <6> QED
            BY <2>2, <3>1, <6>1, <6>2
        <5>2. ASSUME pc'[s] \in Pre, ~ fromQueue'[s]
              PROVE  msg[s] \notin Touched /\ msg'[s] = msg[s] /\ pc[s] \in Pre /\ ~ fromQueue[s]
          BY <3>1, <4>2, <5>2 DEF Apart
        <5>3. ASSUME pc'[s] \in Pre, ~ fromQueue'[s], NEW t \in Runs \ {s}, pc'[t] \in Pre
              PROVE  msg'[t] # msg'[s]
          <6>1. CASE t = next
            BY <3>2, <5>2, <5>3, <6>1
          <6>2. CASE t # next
            BY <3>1, <5>2, <5>3, <6>2 DEF Apart
          <6> QED
            BY <6>1, <6>2
        <5> QED
          BY <2>2, <5>1, <5>2, <5>3
      <4> QED
        BY <4>1, <4>2
    <3> QED
      BY <2>2, <3>3 DEF Apart
  <2> QED
    BY <2>3, <2>4
<1>5. ASSUME NEW r \in Runs, Releases(r)
      PROVE  Apart'
  <2>3. Items(queue') = Items(queue)
    BY <1>5, ReleasesQueue
  <2>4. Touched' = Touched /\ Said' = Said /\ accepted' = accepted /\ order' = order /\ sent' = sent
    BY <1>5, <1>a, <2>3 DEF Releases, Touched
  <2>5. \A s \in Runs : Onward(s)
    BY <1>5 DEF Releases
  <2> QED
    BY <2>4, <2>5, UntouchedApart
<1>6. ASSUME NEW r \in Runs, Settles(r)
      PROVE  Apart'
  <2>3. Items(queue') \subseteq Items(queue) /\ Items(queue) \subseteq Items(queue') \cup Said
    BY <1>6, SettlesQueue DEF Settles, Apart
  <2>4. Touched' = Touched /\ Said' = Said /\ accepted' = accepted /\ order' = order /\ sent' = sent
    BY <1>6, <1>a, <2>3 DEF Settles, Touched
  <2>5. \A s \in Runs : Onward(s)
    BY <1>6 DEF Settles
  <2> QED
    BY <2>4, <2>5, UntouchedApart
<1>7. ASSUME NEW r \in Runs, Says(r)
      PROVE  Apart'
  <2>1. msg[r] \in Messages /\ msg[r] \in sent
    BY <1>7 DEF Says, TypeInv, Known, HistoryTypes
  <2>2. Said' = Said \cup {msg[r]}
    BY <1>7, <1>a, <2>1, AppendedTypes DEF Says
  <2>3. /\ Touched' = Touched \cup {msg[r]} /\ accepted' = accepted /\ order' = order /\ sent' = sent
        /\ \A s \in Runs : Onward(s)
    BY <1>7, <1>a, <2>2 DEF Says, Touched
  <2>4. \A s \in Runs : pc'[s] \in Pre /\ ~ fromQueue[s] => msg[s] # msg[r]
    BY <1>7 DEF Says, Onward, Apart, Pre
  <2> QED
    BY <2>1, <2>2, <2>3, <2>4, OnwardApart DEF Apart
<1>8. ASSUME NEW S \in SUBSET Messages, Withdraws(S)
      PROVE  Apart'
  <2>1. Items(queue') \subseteq Items(queue) /\ Items(queue) \subseteq Items(queue') \cup S /\ S \subseteq Items(queue)
    BY <1>8, WithdrawsQueue
  <2>2. Touched' = Touched /\ Said' = Said /\ accepted' = accepted /\ order' = order /\ sent' = sent
    BY <1>8, <1>a, <2>1 DEF Withdraws, Touched
  <2>3. \A s \in Runs : Onward(s)
    BY <1>8 DEF Withdraws, Onward, Ahead, Working
  <2> QED
    BY <2>2, <2>3, UntouchedApart
<1> QED
  BY <1>1, <1>2, <1>3, <1>4, <1>5, <1>6, <1>7, <1>8 DEF Shaped

LEMMA InitApart == Init => Apart
BY EmptyQueue DEF Init, Apart, Touched, Said, Elems, Pre

LEMMA ApartInvariance == Spec => []Apart
<1>1. TypeInv /\ Apart /\ [Next]_vars => Apart'
  BY StepShaped, ShapedApart
<1> QED
  BY <1>1, InitApart, InitTypes, StepTypes, PTL DEF Spec

-----------------------------------------------------------------------------
(* Abort is final *)

\* A step that stops nothing more, queues nothing that was stopped and
\* starts no run.
LEMMA OnwardAbort ==
  ASSUME TypeInv, Apart, AbortIsFinal, NEW T \in SUBSET Runs,
         stopped' = stopped, stopped \cap Items(queue') = {},
         \A s \in Runs \ T : Onward(s),
         \A s \in T : Ahead(s)' => msg'[s] \notin stopped
  PROVE  AbortIsFinal'
<1>1. ASSUME NEW m \in stopped, NEW r \in Runs, msg'[r] = m, Ahead(r)'
      PROVE  r \in cancelled'
  <2>1. r \in Runs \ T
    BY <1>1
  <2>2. /\ pc'[r] # "idle" /\ msg[r] = m /\ (Ahead(r) \/ pc[r] = "claim")
        /\ r \in cancelled => r \in cancelled'
    BY <1>1, <2>1 DEF Onward, Ahead, Working
  <2>3. pc[r] # "claim"
    BY <2>2 DEF Apart, Pre, Touched, TypeInv, HistoryTypes
  <2> QED
    BY <2>2, <2>3 DEF AbortIsFinal
<1>2. Items(queue)' = Items(queue')
  BY DEF Items, Elems
<1> QED
  BY <1>1, <1>2 DEF AbortIsFinal

LEMMA ShapedAbort ==
  ASSUME TypeInv, Owners, Apart, AbortIsFinal, Shaped
  PROVE  AbortIsFinal'
<1>0. /\ queue \in Queues /\ stopped \subseteq withdrawn /\ withdrawn \subseteq sent
      /\ stopped \cap Items(queue) = {}
  BY DEF TypeInv, QueueTypes, HistoryTypes, AbortIsFinal
<1>1. ASSUME stopped' = stopped, stopped \cap Items(queue') = {}, \A s \in Runs : Onward(s)
      PROVE  AbortIsFinal'
  <2> DEFINE T == {}
  <2>1. T \in SUBSET Runs /\ (\A s \in Runs \ T : Onward(s)) /\ \A s \in T : Ahead(s)' => msg'[s] \notin stopped
    BY <1>1
  <2> HIDE DEF T
  <2> QED
    BY <1>1, <2>1, OnwardAbort
<1>2. CASE Resting
  BY <1>0, <1>1, <1>2 DEF Resting
<1>3. ASSUME NEW m \in Messages, NEW r \in Runs, Sends(m, r)
      PROVE  AbortIsFinal'
  <2>1. {r} \in SUBSET Runs /\ (\A s \in Runs \ {r} : Onward(s)) /\ \A s \in {r} : Ahead(s)' => msg'[s] \notin stopped
    BY <1>3 DEF Sends, Ahead, Working
  <2>2. stopped' = stopped /\ stopped \cap Items(queue') = {}
    BY <1>0, <1>3 DEF Sends
  <2> QED
    BY <2>1, <2>2, OnwardAbort
<1>4. ASSUME NEW m \in Messages, Pushes(m)
      PROVE  AbortIsFinal'
  <2>1. m \notin stopped /\ Items(queue') = Items(queue) \cup {m}
    BY <1>0, <1>4, PushedIsNew, PushesQueue DEF Touched
  <2> QED
    BY <1>0, <1>1, <1>4, <2>1 DEF Pushes
<1>5. ASSUME NEW next \in Runs \cup {None}, Claims(next)
      PROVE  AbortIsFinal'
  <2>1. Items(queue') = Items(queue) /\ (Claimable(queue) # None => Claimable(queue) \in Items(queue))
    BY <1>5, ClaimsQueue
  <2>2. stopped' = stopped /\ stopped \cap Items(queue') = {}
    BY <1>0, <1>5, <2>1 DEF Claims
  <2>3. CASE next \notin Runs
    BY <1>1, <1>5, <2>2, <2>3 DEF Claims
  <2>4. CASE next \in Runs
    <3>1. {next} \in SUBSET Runs /\ (\A s \in Runs \ {next} : Onward(s))
          /\ \A s \in {next} : Ahead(s)' => msg'[s] \notin stopped
      BY <1>0, <1>5, <2>1, <2>4 DEF Claims
    <3> QED
      BY <2>2, <3>1, OnwardAbort
  <2> QED
    BY <2>3, <2>4
<1>6. ASSUME NEW r \in Runs, Releases(r) \/ Settles(r) \/ Says(r)
      PROVE  AbortIsFinal'
  <2>1. stopped' = stopped /\ \A s \in Runs : Onward(s)
    BY <1>6 DEF Releases, Settles, Says
  <2>2. Items(queue') \subseteq Items(queue)
    BY <1>6, ReleasesQueue, SettlesQueue DEF Says
  <2> QED
    BY <1>0, <1>1, <2>1, <2>2
<1>7. ASSUME NEW S \in SUBSET Messages, Withdraws(S)
      PROVE  AbortIsFinal'
  <2>1. \A s \in Runs : Onward(s)
    BY <1>7 DEF Withdraws, Onward, Ahead, Working
  <2>2. CASE stopped' = stopped
    BY <1>0, <1>1, <1>7, <2>1, <2>2, WithdrawsQueue
  <2>3. CASE stopped' # stopped
    <3>1. queue' = Empty /\ {slot} \ {None} \subseteq cancelled' /\ UNCHANGED <<pc, msg>>
      BY <1>7, <2>3 DEF Withdraws
    <3>2. \A s \in Runs : Ahead(s)' => s \in cancelled'
      BY <3>1, NoneIsNoMessage DEF Ahead, Working, Owners, OwnsSlot
    <3>3. Items(queue)' = {}
      <4>1. Items(queue)' = Items(queue')
        BY DEF Items, Elems
      <4> QED
        BY <3>1, <4>1, EmptyQueue
    <3> QED
      BY <3>2, <3>3 DEF AbortIsFinal
  <2> QED
    BY <2>2, <2>3
<1> QED
  BY <1>2, <1>3, <1>4, <1>5, <1>6, <1>7 DEF Shaped

\* After an abort that returned Ok nothing it stopped is queued again or
\* carried by a run that is not cancelled: no release, late concession,
\* hand-over or restart brings it back (session.abort, queue_delivery::release).
THEOREM AbortIsFinalHolds == Spec => []AbortIsFinal
<1>1. Init => AbortIsFinal
  BY DEF Init, AbortIsFinal
<1>2. TypeInv /\ Owners /\ Apart /\ AbortIsFinal /\ [Next]_vars => AbortIsFinal'
  BY StepShaped, ShapedAbort
<1> QED
  BY <1>1, <1>2, TypeInvariance, OwnersInvariance, ApartInvariance, PTL DEF Spec

-----------------------------------------------------------------------------
(* The order of the queue *)

Gone == Said \cup withdrawn

\* What was accepted earlier never waits behind what was accepted later.
QueueOrder ==
  \A i, j \in DOMAIN order : i < j =>
    /\ order[i] # order[j]
    /\ order[i] \in Gone \/ ~ Behind(queue, order[i], order[j])

\* A run that carries a delivery has nothing before it.
RunOrder ==
  \A r \in Runs : pc[r] \in Pre /\ fromQueue[r] =>
    \A i, j \in DOMAIN order : i < j /\ order[j] = msg[r] => order[i] \in Gone

\* The inductive invariant of the order.
Ordered == QueueOrder /\ RunOrder /\ InOrder

LEMMA GoneGrows ==
  ASSUME TypeInv, Shaped
  PROVE  Gone \subseteq Gone'
<1>1. withdrawn \subseteq withdrawn'
  BY DEF Shaped, Resting, Sends, Pushes, Claims, Releases, Settles, Says, Withdraws
<1>2. Said \subseteq Said'
  <2>1. CASE log' = log
    BY <2>1 DEF Said, Elems
  <2>2. ASSUME NEW r \in Runs, Says(r)
        PROVE  Said \subseteq Said'
    <3>1. msg[r] \in Messages /\ log' = Appended(msg[r])
      BY <2>2 DEF Says, TypeInv, Known, HistoryTypes
    <3>2. Said' = Elems(log')
      BY DEF Said
    <3> QED
      BY <3>1, <3>2, AppendedTypes
  <2> QED
    BY <2>1, <2>2 DEF Shaped, Resting, Sends, Pushes, Claims, Releases, Settles, Withdraws
<1> QED
  BY <1>1, <1>2 DEF Gone

\* Positions of the order.
LEMMA OrderShape ==
  ASSUME TypeInv
  PROVE  /\ Len(order) \in Nat /\ DOMAIN order = 1..Len(order)
         /\ \A i \in DOMAIN order : order[i] \in Messages /\ order[i] \in Elems(order)
BY DEF TypeInv, HistoryTypes, Elems

\* A step leaves the order, or adds m, which is new, at its end.
LEMMA OrderGrows ==
  ASSUME TypeInv, NEW m \in Messages, order' = Append(order, m)
  PROVE  /\ DOMAIN order' = 1..Len(order) + 1
         /\ order'[Len(order) + 1] = m
         /\ \A i \in 1..Len(order) : order'[i] = order[i]
BY DEF TypeInv, HistoryTypes

LEMMA ShapedQueueOrder ==
  ASSUME TypeInv, Apart, QueueOrder, Shaped
  PROVE  QueueOrder'
<1>1. Gone \subseteq Gone'
  BY GoneGrows
<1>2. /\ Len(order) \in Nat /\ DOMAIN order = 1..Len(order)
      /\ \A i \in DOMAIN order : order[i] \in Messages /\ order[i] \in accepted /\ order[i] # None
  BY OrderShape, NoneIsNoMessage DEF Apart
<1>3. \A x, y : Behind(queue, x, y)' <=> Behind(queue', x, y)
  BY DEF Behind, Elems
<1>4. ASSUME order' = order,
             \A x, y \in Elems(order) : y # None /\ Behind(queue', x, y) => Behind(queue, x, y)
      PROVE  QueueOrder'
  BY <1>1, <1>2, <1>3, <1>4, OrderShape DEF QueueOrder
<1>5. ASSUME NEW m \in Messages, Pushes(m)
      PROVE  QueueOrder'
  <2>1. m \notin Touched /\ m \notin Elems(order)
    BY <1>5, PushedIsNew DEF Apart
  <2>2. CASE order' = order
    BY <1>4, <1>5, <2>1, <2>2, PushesQueue
  <2>3. CASE order' # order
    <3>1. order' = Append(order, m)
      BY <1>5, <2>3 DEF Pushes
    <3>2. \A x, y : Behind(queue', x, y) => x = m \/ Behind(queue, x, y)
      BY <1>5, <2>3, PushesQueue
    <3>3. \A x \in Messages : ~ Behind(queue, x, m)
      BY <2>1, BehindInside DEF Touched, TypeInv, QueueTypes
    <3> DEFINE n == Len(order)
    <3>4. /\ DOMAIN order' = 1..n + 1 /\ order'[n + 1] = m
          /\ \A i \in 1..n : order'[i] = order[i] /\ order[i] # m /\ order[i] \in Messages
      BY <1>2, <2>1, <3>1, OrderGrows, OrderShape
    <3>5. ASSUME NEW i \in 1..n + 1, NEW j \in 1..n + 1, i < j
          PROVE  /\ order'[i] # order'[j]
                 /\ order'[i] \in Gone' \/ ~ Behind(queue', order'[i], order'[j])
      <4> HIDE DEF n
      <4>1. n \in Nat /\ i \in 1..n
        BY <1>2, <3>5 DEF n
      <4>2. CASE j = n + 1
        BY <3>2, <3>3, <3>4, <4>1, <4>2
      <4>3. CASE j # n + 1
        <5>1. j \in 1..n
          BY <4>1, <4>3
        <5>2. i \in DOMAIN order /\ j \in DOMAIN order
          BY <1>2, <4>1, <5>1 DEF n
        <5>3. order[i] # order[j] /\ (order[i] \in Gone \/ ~ Behind(queue, order[i], order[j]))
          BY <3>5, <5>2 DEF QueueOrder
        <5> QED
          BY <1>1, <3>2, <3>4, <4>1, <5>1, <5>3
      <4> QED
        BY <4>2, <4>3
    <3> QED
      BY <1>3, <3>4, <3>5 DEF QueueOrder
  <2> QED
    BY <2>2, <2>3
<1>6. ASSUME NEW next \in Runs \cup {None}, Claims(next)
      PROVE  QueueOrder'
  BY <1>4, <1>6, ClaimsQueue DEF Claims
<1>7. ASSUME NEW r \in Runs, Releases(r)
      PROVE  QueueOrder'
  BY <1>4, <1>7, ReleasesQueue DEF Releases
<1>8. ASSUME NEW r \in Runs, Settles(r)
      PROVE  QueueOrder'
  BY <1>4, <1>8, SettlesQueue DEF Settles
<1>9. ASSUME NEW S \in SUBSET Messages, Withdraws(S)
      PROVE  QueueOrder'
  BY <1>4, <1>9, WithdrawsQueue DEF Withdraws
<1>10. CASE queue' = queue /\ order' = order
  BY <1>4, <1>10
<1> QED
  BY <1>5, <1>6, <1>7, <1>8, <1>9, <1>10 DEF Shaped, Resting, Sends, Says

LEMMA ShapedRunOrder ==
  ASSUME TypeInv, Apart, QueueOrder, RunOrder, Shaped
  PROVE  RunOrder'
<1>1. Gone \subseteq Gone'
  BY GoneGrows
<1>2. /\ Len(order) \in Nat /\ DOMAIN order = 1..Len(order)
      /\ \A i \in DOMAIN order : order[i] \in Messages /\ order[i] \in accepted
  BY OrderShape DEF Apart
\* An old run, when the order stays.
<1>3. ASSUME NEW r \in Runs, Onward(r), pc'[r] \in Pre, fromQueue'[r], order' = order,
             NEW i \in DOMAIN order', NEW j \in DOMAIN order', i < j, order'[j] = msg'[r]
      PROVE  order'[i] \in Gone'
  BY <1>1, <1>3 DEF Onward, Pre, RunOrder
<1>4. ASSUME NEW m \in Messages, NEW r \in Runs, Sends(m, r)
      PROVE  RunOrder'
  <2>1. order' = order /\ ~ fromQueue'[r] /\ \A s \in Runs \ {r} : Onward(s)
    BY <1>4 DEF Sends
  <2> QED
    BY <1>3, <2>1 DEF RunOrder
<1>5. ASSUME NEW m \in Messages, Pushes(m)
      PROVE  RunOrder'
  <2>1. m \notin Touched /\ \A s \in Runs : Onward(s)
    BY <1>5, PushedIsNew DEF Pushes
  <2>2. CASE order' = order
    BY <1>3, <2>1, <2>2 DEF RunOrder
  <2>3. CASE order' # order
    <3>1. order' = Append(order, m)
      BY <1>5, <2>3 DEF Pushes
    <3> DEFINE n == Len(order)
    <3>2. /\ DOMAIN order' = 1..n + 1 /\ order'[n + 1] = m
          /\ \A i \in 1..n : order'[i] = order[i]
      BY <3>1, OrderGrows
    <3>3. ASSUME NEW r \in Runs, pc'[r] \in Pre, fromQueue'[r],
                 NEW i \in 1..n + 1, NEW j \in 1..n + 1, i < j, order'[j] = msg'[r]
          PROVE  order'[i] \in Gone'
      <4>1. pc[r] \in Pre /\ fromQueue[r] /\ msg'[r] = msg[r] /\ msg[r] \in Touched
        BY <2>1, <3>3 DEF Onward, Pre, Apart
      <4>2. j # n + 1
        BY <2>1, <3>2, <3>3, <4>1
      <4> HIDE DEF n
      <4>3. n \in Nat /\ i \in 1..n /\ j \in 1..n
        BY <1>2, <3>3, <4>2 DEF n
      <4>4. i \in DOMAIN order /\ j \in DOMAIN order /\ order[j] = msg[r]
        BY <1>2, <3>2, <3>3, <4>1, <4>3 DEF n
      <4>5. order[i] \in Gone
        BY <3>3, <4>1, <4>4 DEF RunOrder
      <4> QED
        BY <1>1, <3>2, <4>3, <4>5
    <3> QED
      BY <3>2, <3>3 DEF RunOrder
  <2> QED
    BY <2>2, <2>3
<1>6. ASSUME NEW next \in Runs \cup {None}, Claims(next)
      PROVE  RunOrder'
  <2>1. order' = order /\ \A s \in Runs \ {next} : Onward(s)
    BY <1>6 DEF Claims
  <2>2. ASSUME next \in Runs,
               NEW i \in DOMAIN order, NEW j \in DOMAIN order, i < j, order[j] = msg'[next]
        PROVE  order[i] \in Gone
    <3>1. Claimable(queue) # None /\ order[j] = Claimable(queue)
      BY <1>6, <2>2 DEF Claims
    <3>2. SUFFICES ASSUME order[i] \notin Gone PROVE FALSE
      OBVIOUS
    <3>3. order[i] \in Items(queue) /\ order[i] # order[j]
      BY <1>2, <2>2, <3>2 DEF Apart, Touched, Gone, QueueOrder
    <3>4. Behind(queue, order[i], order[j])
      BY <3>1, <3>3, HeadFirst DEF TypeInv, QueueTypes
    <3> QED
      BY <2>2, <3>2, <3>4 DEF QueueOrder
  <2> QED
    BY <1>1, <1>3, <2>1, <2>2 DEF RunOrder
<1>7. CASE order' = order /\ \A s \in Runs : Onward(s)
  BY <1>3, <1>7 DEF RunOrder
<1>8. ASSUME NEW S \in SUBSET Messages, Withdraws(S)
      PROVE  RunOrder'
  <2>1. order' = order /\ \A s \in Runs : Onward(s)
    BY <1>8 DEF Withdraws, Onward, Ahead, Working
  <2> QED
    BY <1>7, <2>1
<1> QED
  BY <1>4, <1>5, <1>6, <1>7, <1>8 DEF Shaped, Resting, Releases, Settles, Says

LEMMA ShapedInOrder ==
  ASSUME TypeInv, Apart, RunOrder, InOrder, Shaped
  PROVE  InOrder'
<1>1. withdrawn \subseteq withdrawn'
  BY DEF Shaped, Resting, Sends, Pushes, Claims, Releases, Settles, Says, Withdraws
<1>2. /\ Len(order) \in Nat /\ DOMAIN order = 1..Len(order) /\ log \in Seq(Messages)
      /\ \A i \in DOMAIN order : order[i] \in Messages /\ order[i] \in accepted
  BY OrderShape DEF Apart, TypeInv, LogTypes
<1>3. Said' = Elems(log')
  BY DEF Said
<1>4. CASE log' = log /\ order' = order
  BY <1>1, <1>4 DEF InOrder, Said, Elems
<1>5. ASSUME NEW m \in Messages, Pushes(m), order' # order
      PROVE  InOrder'
  <2>1. m \notin Said /\ log' = log /\ order' = Append(order, m)
    BY <1>5, PushedIsNew DEF Pushes, Touched
  <2> DEFINE n == Len(order)
  <2>2. DOMAIN order' = 1..n + 1 /\ order'[n + 1] = m /\ \A i \in 1..n : order'[i] = order[i]
    BY <2>1, OrderGrows
  <2>3. ASSUME NEW i \in 1..n + 1, NEW j \in 1..n + 1, i < j, order'[j] \in Said
        PROVE  \/ order'[i] \in withdrawn'
               \/ \E a, b \in DOMAIN log : log[a] = order'[i] /\ log[b] = order'[j] /\ a < b
    <3>1. j # n + 1
      BY <2>1, <2>2, <2>3
    <3> HIDE DEF n
    <3>2. n \in Nat /\ i \in 1..n /\ j \in 1..n
      BY <1>2, <2>3, <3>1 DEF n
    <3>3. i \in DOMAIN order /\ j \in DOMAIN order /\ order'[i] = order[i] /\ order'[j] = order[j]
      BY <1>2, <2>2, <3>2 DEF n
    <3> QED
      BY <1>1, <2>3, <3>3 DEF InOrder
  <2>4. Said' = Said
    BY <2>1 DEF Said, Elems
  <2> QED
    BY <2>1, <2>2, <2>3, <2>4 DEF InOrder
<1>6. ASSUME NEW r \in Runs, Says(r)
      PROVE  InOrder'
  <2> DEFINE m == msg[r]
  <2>1. m \in Messages /\ order' = order /\ pc[r] \in Pre
    BY <1>6 DEF Says, Pre, TypeInv, Known, HistoryTypes
  <2>2. CASE m \in Said
    BY <1>4, <1>6, <2>1, <2>2 DEF Says, Appended
  <2>3. CASE m \notin Said
    <3>1. log' = Append(log, m)
      BY <1>6, <2>3 DEF Says, Appended
    <3> HIDE DEF m
    <3>2. /\ DOMAIN log = 1..Len(log) /\ Len(log) \in Nat
          /\ DOMAIN log' = 1..Len(log) + 1 /\ log'[Len(log) + 1] = m
          /\ \A a \in DOMAIN log : log'[a] = log[a]
      BY <1>2, <2>1, <3>1
    <3>3. Said' = Said \cup {m}
      BY <1>2, <1>3, <2>1, <3>1, AppendElems DEF Said
    <3>4. ASSUME NEW i \in DOMAIN order, NEW j \in DOMAIN order, i < j, order[j] \in Said'
          PROVE  \/ order[i] \in withdrawn'
                 \/ \E a, b \in DOMAIN log' : log'[a] = order[i] /\ log'[b] = order[j] /\ a < b
      <4>1. CASE order[j] \in Said
        <5>1. \/ order[i] \in withdrawn
              \/ \E a, b \in DOMAIN log : log[a] = order[i] /\ log[b] = order[j] /\ a < b
          BY <3>4, <4>1 DEF InOrder
        <5> QED
          BY <1>1, <3>2, <5>1
      <4>2. CASE order[j] = m
        <5>1. fromQueue[r]
          BY <1>2, <2>1, <4>2 DEF Apart, m
        <5>2. order[i] \in Gone
          BY <2>1, <3>4, <4>2, <5>1 DEF RunOrder, m
        <5>3. CASE order[i] \in Said
          <6>1. PICK a \in DOMAIN log : log[a] = order[i]
            BY <5>3 DEF Said, Elems
          <6>2. /\ a \in DOMAIN log' /\ Len(log) + 1 \in DOMAIN log' /\ a < Len(log) + 1
                /\ log'[a] = order[i] /\ log'[Len(log) + 1] = order[j]
            BY <3>2, <4>2, <6>1
          <6> QED
            BY <6>2
        <5> QED
          BY <1>1, <5>2, <5>3 DEF Gone
      <4> QED
        BY <3>3, <3>4, <4>1, <4>2
    <3> QED
      BY <2>1, <3>4 DEF InOrder
  <2> QED
    BY <2>2, <2>3
<1> QED
  BY <1>4, <1>5, <1>6 DEF Shaped, Resting, Sends, Pushes, Claims, Releases, Settles, Withdraws

LEMMA OrderedInvariance == Spec => []Ordered
<1>1. Init => Ordered
  BY DEF Init, Ordered, QueueOrder, RunOrder, InOrder, Pre
<1>2. TypeInv /\ Apart /\ Ordered /\ [Next]_vars => Ordered'
  BY StepShaped, ShapedQueueOrder, ShapedRunOrder, ShapedInOrder DEF Ordered
<1> QED
  BY <1>1, <1>2, TypeInvariance, ApartInvariance, PTL DEF Spec

\* Messages accepted at the back of the queue enter the history in that
\* order, for any number of them, through every release, interrupt, retry,
\* replay and restart (enqueue, claim, release, commit_user).
THEOREM InOrderHolds == Spec => []InOrder
BY OrderedInvariance, PTL DEF Ordered

-----------------------------------------------------------------------------
(* Every message is in one place *)

Injective(s) == \A a, b \in DOMAIN s : s[a] = s[b] => a = b

\* No message is queued twice, or queued and in flight.
Once ==
  /\ queue.inFlight \notin Elems(queue.queued)
  /\ Injective(queue.queued)

\* The delivery of a run is in flight, unless the user withdrew it.
Held ==
  \A r \in Runs : pc[r] \in {"lease", "admit", "commit", "settle"} /\ fromQueue[r] =>
    \/ queue.inFlight = msg[r]
    \/ msg[r] \in withdrawn /\ msg[r] \notin Items(queue)

LEMMA InjectiveAppend ==
  ASSUME NEW s \in Seq(Messages), Injective(s), NEW m \in Messages, m \notin Elems(s)
  PROVE  Injective(Append(s, m))
<1> DEFINE t == Append(s, m)
<1>1. /\ Len(s) \in Nat /\ DOMAIN s = 1..Len(s) /\ DOMAIN t = 1..Len(s) + 1
      /\ t[Len(s) + 1] = m /\ \A i \in 1..Len(s) : t[i] = s[i]
  OBVIOUS
<1>2. \A i \in DOMAIN s : s[i] # m
  BY DEF Elems
<1> HIDE DEF t
<1>3. ASSUME NEW a \in DOMAIN t, NEW b \in DOMAIN t, t[a] = t[b]
      PROVE  a = b
  <2>1. CASE a = Len(s) + 1
    BY <1>1, <1>2, <1>3, <2>1
  <2>2. CASE b = Len(s) + 1
    BY <1>1, <1>2, <1>3, <2>2
  <2>3. CASE a # Len(s) + 1 /\ b # Len(s) + 1
    <3>1. a \in DOMAIN s /\ b \in DOMAIN s
      BY <1>1, <2>3
    <3> QED
      BY <1>1, <1>3, <3>1 DEF Injective
  <2> QED
    BY <2>1, <2>2, <2>3
<1> QED
  BY <1>3 DEF Injective, t

LEMMA InjectiveCons ==
  ASSUME NEW s \in Seq(Messages), Injective(s), NEW m \in Messages, m \notin Elems(s)
  PROVE  Injective(<<m>> \o s)
<1> DEFINE t == <<m>> \o s
<1>1. /\ t \in Seq(Messages) /\ Len(t) = Len(s) + 1
      /\ t[1] = m /\ \A i \in 1..Len(s) : t[i + 1] = s[i]
  BY ConsElems
<1> HIDE DEF t
<1>2. Len(s) \in Nat /\ DOMAIN s = 1..Len(s) /\ DOMAIN t = 1..Len(s) + 1
  BY <1>1
<1>3. \A i \in DOMAIN s : s[i] # m
  BY DEF Elems
<1>4. \A a \in DOMAIN t : a = 1 \/ (a - 1 \in DOMAIN s /\ t[a] = s[a - 1])
  BY <1>1, <1>2
<1>5. ASSUME NEW a \in DOMAIN t, NEW b \in DOMAIN t, t[a] = t[b]
      PROVE  a = b
  <2>1. CASE a = 1 \/ b = 1
    BY <1>1, <1>3, <1>4, <1>5, <2>1
  <2>2. CASE a # 1 /\ b # 1
    <3>1. a - 1 \in DOMAIN s /\ b - 1 \in DOMAIN s /\ s[a - 1] = s[b - 1]
      BY <1>4, <1>5, <2>2
    <3>2. a - 1 = b - 1
      BY <3>1 DEF Injective
    <3> QED
      BY <1>2, <3>2
  <2> QED
    BY <2>1, <2>2
<1> QED
  BY <1>5 DEF Injective, t

LEMMA InjectiveTail ==
  ASSUME NEW s \in Seq(Messages), Injective(s), s # <<>>
  PROVE  Injective(Tail(s)) /\ Head(s) \notin Elems(Tail(s))
<1> DEFINE t == Tail(s)
<1>1. /\ Head(s) = s[1] /\ Len(s) \in Nat \ {0} /\ DOMAIN s = 1..Len(s)
      /\ t \in Seq(Messages) /\ Len(t) = Len(s) - 1
      /\ \A i \in 1..Len(s) - 1 : t[i] = s[i + 1]
  BY TailElems
<1> HIDE DEF t
<1>2. DOMAIN t = 1..Len(s) - 1
  BY <1>1
<1>3. \A a \in DOMAIN t : a + 1 \in DOMAIN s /\ t[a] = s[a + 1] /\ a + 1 # 1
  BY <1>1, <1>2
<1>4. Injective(t)
  <2>1. ASSUME NEW a \in DOMAIN t, NEW b \in DOMAIN t, t[a] = t[b]
        PROVE  a = b
    <3>1. a + 1 = b + 1
      BY <1>3, <2>1 DEF Injective
    <3> QED
      BY <1>2, <3>1
  <2> QED
    BY <2>1 DEF Injective
<1>5. Head(s) \notin Elems(t)
  <2>1. ASSUME NEW a \in DOMAIN t, t[a] = s[1]
        PROVE  FALSE
    BY <1>1, <1>3, <2>1 DEF Injective
  <2> QED
    BY <1>1, <2>1 DEF Elems
<1> QED
  BY <1>4, <1>5 DEF t

LEMMA ShapedOnce ==
  ASSUME TypeInv, Apart, Once, Shaped
  PROVE  Once'
<1>0. queue \in Queues /\ queue.queued \in Seq(Messages) /\ queue.inFlight \in Messages \cup {None}
  BY QueueShape DEF TypeInv, QueueTypes
<1>a. /\ Elems(queue.queued)' = Elems(queue'.queued)
      /\ Injective(queue.queued)' <=> Injective(queue'.queued)
  BY DEF Elems, Injective
<1>1. ASSUME NEW m \in Messages, Pushes(m)
      PROVE  Once'
  <2>1. m \notin Items(queue)
    BY <1>1, PushedIsNew DEF Touched
  <2>2. m \notin Elems(queue.queued) /\ queue.inFlight # m
    BY <1>0, <2>1, NoneIsNoMessage, QueueShape
  <2>3. Injective(queue'.queued)
    <3>1. Injective(Append(queue.queued, m)) /\ Injective(<<m>> \o queue.queued)
      BY <1>0, <2>2, InjectiveAppend, InjectiveCons DEF Once
    <3>2. queue'.queued \in {Append(queue.queued, m), <<m>> \o queue.queued}
      BY <1>1, PushesQueue
    <3>3. CASE queue'.queued = Append(queue.queued, m)
      BY <3>1, <3>3
    <3>4. CASE queue'.queued = <<m>> \o queue.queued
      BY <3>1, <3>4
    <3> QED
      BY <3>2, <3>3, <3>4
  <2> QED
    BY <1>a, <1>1, <2>2, <2>3, PushesQueue DEF Once
<1>2. ASSUME NEW next \in Runs \cup {None}, Claims(next)
      PROVE  Once'
  <2>1. CASE queue' = queue
    BY <2>1 DEF Once, Elems, Injective
  <2>2. CASE queue' # queue
    <3>1. /\ queue.queued # <<>>
          /\ queue'.queued = Tail(queue.queued) /\ queue'.inFlight = Head(queue.queued)
      BY <1>2, <2>2 DEF Claims, Claimed
    <3> QED
      BY <1>0, <1>a, <3>1, InjectiveTail DEF Once
  <2> QED
    BY <2>1, <2>2
<1>3. ASSUME NEW r \in Runs, Releases(r)
      PROVE  Once'
  <2>1. Injective(queue'.queued)
    BY <1>0, <1>3, ReleasesQueue, InjectiveCons DEF Once
  <2>2. None \notin Elems(queue'.queued)
    BY <1>3, ReleasesQueue, QueueShape, NoneIsNoMessage
  <2> QED
    BY <1>a, <1>3, <2>1, <2>2, ReleasesQueue DEF Once
<1>4. ASSUME NEW r \in Runs, Settles(r)
      PROVE  Once'
  BY <1>0, <1>a, <1>4, SettlesQueue, QueueShape, NoneIsNoMessage DEF Once
<1>5. ASSUME NEW S \in SUBSET Messages, Withdraws(S)
      PROVE  Once'
  BY <1>a, <1>5, WithdrawsQueue DEF Once, Injective
<1>6. CASE queue' = queue
  BY <1>6 DEF Once, Elems, Injective
<1> QED
  BY <1>1, <1>2, <1>3, <1>4, <1>5, <1>6 DEF Shaped, Resting, Sends, Says

LEMMA ShapedHeld ==
  ASSUME TypeInv, Owners, Apart, Held, Shaped
  PROVE  Held'
<1> DEFINE Carry == {"lease", "admit", "commit", "settle"}
<1>0. queue \in Queues /\ withdrawn \subseteq withdrawn'
  BY DEF TypeInv, QueueTypes, Shaped, Resting, Sends, Pushes, Claims, Releases, Settles, Says, Withdraws
<1>a. Items(queue)' = Items(queue')
  BY DEF Items, Elems
\* A run that is not new had its delivery before.
<1>1. ASSUME NEW s \in Runs, Onward(s), pc'[s] \in Carry, fromQueue'[s]
      PROVE  /\ pc[s] \in Carry /\ fromQueue[s] /\ msg'[s] = msg[s]
             /\ msg[s] \in Touched /\ msg[s] \in Messages
             /\ \/ queue.inFlight = msg[s]
                \/ msg[s] \in withdrawn /\ msg[s] \notin Items(queue)
  <2>1. pc[s] \in Carry /\ fromQueue[s] /\ msg'[s] = msg[s]
    BY <1>1 DEF Onward, Pre, Apart
  <2>2. msg[s] \in Messages
    BY <2>1 DEF TypeInv, Known, HistoryTypes
  <2>3. msg[s] \in Touched
    BY <2>1 DEF Apart, Pre, Touched
  <2>4. queue.inFlight = msg[s] \/ (msg[s] \in withdrawn /\ msg[s] \notin Items(queue))
    BY <2>1 DEF Held
  <2> QED
    BY <2>1, <2>2, <2>3, <2>4
<1>2. ASSUME \A s \in Runs : Onward(s) \/ pc'[s] \notin Carry \/ ~ fromQueue'[s],
             queue' = queue
      PROVE  Held'
  BY <1>0, <1>a, <1>1, <1>2 DEF Held
<1>3. ASSUME NEW m \in Messages, Pushes(m)
      PROVE  Held'
  <2>1. /\ m \notin Touched /\ queue'.inFlight = queue.inFlight
        /\ Items(queue') = Items(queue) \cup {m} /\ \A s \in Runs : Onward(s)
    BY <1>3, PushedIsNew, PushesQueue DEF Pushes
  <2> QED
    BY <1>0, <1>a, <1>1, <2>1 DEF Held
<1>4. ASSUME NEW next \in Runs \cup {None}, Claims(next)
      PROVE  Held'
  <2>1. /\ queue'.inFlight = Claimable(queue) /\ Items(queue') = Items(queue)
        /\ queue.inFlight # None => Claimable(queue) = queue.inFlight
    BY <1>4, ClaimsQueue DEF Claimable
  <2>2. ASSUME NEW s \in Runs, s # next, pc'[s] \in Carry, fromQueue'[s]
        PROVE  \/ queue'.inFlight = msg'[s]
               \/ msg'[s] \in withdrawn' /\ msg'[s] \notin Items(queue')
    <3>1. Onward(s)
      BY <1>4, <2>2 DEF Claims
    <3> QED
      BY <1>0, <1>1, <2>1, <2>2, <3>1, NoneIsNoMessage
  <2>3. next \in Runs => queue'.inFlight = msg'[next]
    BY <1>4, <2>1 DEF Claims
  <2> QED
    BY <1>a, <2>2, <2>3 DEF Held
<1>5. ASSUME NEW r \in Runs, Releases(r) \/ Settles(r)
      PROVE  Held'
  <2>1. ASSUME NEW s \in Runs
        PROVE  pc'[s] \notin Carry
    <3>1. CASE s = r
      BY <1>5, <3>1 DEF Releases, Settles
    <3>2. CASE s # r
      <4>1. pc'[s] = pc[s] /\ pc[r] \in OwnsSlot
        BY <1>5, <3>2 DEF Releases, Settles, OwnsSlot
      <4> QED
        BY <3>2, <4>1 DEF Owners, OwnsSlot
    <3> QED
      BY <3>1, <3>2
  <2> QED
    BY <2>1 DEF Held
<1>6. ASSUME NEW S \in SUBSET Messages, Withdraws(S)
      PROVE  Held'
  <2>1. withdrawn' = withdrawn \cup S /\ \A s \in Runs : Onward(s)
    BY <1>6 DEF Withdraws, Onward, Ahead, Working
  <2> QED
    BY <1>0, <1>a, <1>1, <1>6, <2>1, WithdrawsQueue, NoneIsNoMessage DEF Held
<1>7. ASSUME NEW m \in Messages, NEW r \in Runs, Sends(m, r)
      PROVE  Held'
  <2>1. queue' = queue /\ ~ fromQueue'[r] /\ \A s \in Runs \ {r} : Onward(s)
    BY <1>7 DEF Sends
  <2> HIDE DEF Carry
  <2> QED
    BY <1>2, <2>1
<1>8. CASE queue' = queue /\ \A s \in Runs : Onward(s)
  BY <1>2, <1>8
<1> QED
  BY <1>3, <1>4, <1>5, <1>6, <1>7, <1>8 DEF Shaped, Resting, Says

LEMMA PlacesInvariance == Spec => [](Once /\ Held)
<1>1. Init => Once /\ Held
  BY EmptyQueue DEF Init, Once, Held, Injective, Empty
<1>2. TypeInv /\ Owners /\ Apart /\ Once /\ Held /\ [Next]_vars => (Once /\ Held)'
  BY StepShaped, ShapedOnce, ShapedHeld
<1> QED
  BY <1>1, <1>2, TypeInvariance, OwnersInvariance, ApartInvariance, PTL DEF Spec

-----------------------------------------------------------------------------
(* What a Session promises *)

\* Where the messages are, and which of them are promised.
States == [m \in Messages |-> StateOf(m)]
Promised == (accepted \ Said) \ withdrawn

\* All that is known of the messages and that the proof uses.
Places == TypeInv /\ Owners /\ Apart /\ Once /\ Held

LEMMA StateSaid ==
  ASSUME NEW m, m \in Said
  PROVE  StateOf(m) = "said"
BY DEF StateOf

LEMMA StateQueued ==
  ASSUME NEW m, m \notin Said, m \in Elems(queue.queued)
  PROVE  StateOf(m) = "queued"
BY DEF StateOf

LEMMA StateCarried ==
  ASSUME NEW m, m \notin Said, m \notin Elems(queue.queued), Carried(m)
  PROVE  StateOf(m) = "carried"
BY DEF StateOf

LEMMA StateElsewhere ==
  ASSUME NEW m, m \notin Said, m \notin Elems(queue.queued), ~ Carried(m)
  PROVE  StateOf(m) = IF m \in sent THEN "dropped" ELSE "unsent"
BY DEF StateOf

\* A message whose surroundings do not change stays where it is.
LEMMA StateStays ==
  ASSUME NEW m,
         m \in Said' <=> m \in Said,
         m \in Elems(queue.queued)' <=> m \in Elems(queue.queued),
         Carried(m)' <=> Carried(m),
         m \in sent' <=> m \in sent
  PROVE  StateOf(m)' = StateOf(m)
BY DEF StateOf

LEMMA StatesMove ==
  ASSUME NEW m \in Messages, NEW t, StateOf(m)' = t,
         \A n \in Messages \ {m} : StateOf(n)' = StateOf(n)
  PROVE  States' = [States EXCEPT ![m] = t]
BY DEF States

LEMMA StatesStay ==
  ASSUME \A n \in Messages : StateOf(n)' = StateOf(n)
  PROVE  States' = States
BY DEF States

\* The abstract actions in terms of the definitions above.
LEMMA PromiseCarry ==
  ASSUME NEW m \in Messages, StateOf(m) \in {"unsent", "queued"}, StateOf(m)' = "carried",
         \A n \in Messages \ {m} : StateOf(n)' = StateOf(n),
         Promised' = Promised, log' = log
  PROVE  Promise!Next
<1>1. States' = [States EXCEPT ![m] = "carried"]
  BY StatesMove
<1>2. Promise!Carry(m)
  BY <1>1 DEF Promise!Carry, Promise!Moved, States, Promised
<1> QED
  BY <1>2 DEF Promise!Next

LEMMA PromiseQueue ==
  ASSUME NEW m \in Messages, StateOf(m) \in {"unsent", "carried"}, StateOf(m)' = "queued",
         \A n \in Messages \ {m} : StateOf(n)' = StateOf(n),
         Promised' \in {Promised, Promised \cup {m}}, log' = log
  PROVE  Promise!Next
<1>1. States' = [States EXCEPT ![m] = "queued"]
  BY StatesMove
<1>2. Promise!Queue(m)
  BY <1>1 DEF Promise!Queue, Promise!Moved, States, Promised
<1> QED
  BY <1>2 DEF Promise!Next

LEMMA PromiseSay ==
  ASSUME NEW m \in Messages, StateOf(m) = "carried", StateOf(m)' = "said",
         \A n \in Messages \ {m} : StateOf(n)' = StateOf(n),
         Promised' = Promised \ {m}, log' = Append(log, m)
  PROVE  Promise!Next
<1>1. States' = [States EXCEPT ![m] = "said"]
  BY StatesMove
<1>2. Promise!Say(m)
  BY <1>1 DEF Promise!Say, Promise!Moved, States, Promised
<1> QED
  BY <1>2 DEF Promise!Next

LEMMA PromiseStays ==
  ASSUME \A n \in Messages : StateOf(n)' = StateOf(n),
         Promised' = Promised, log' = log
  PROVE  UNCHANGED Promise!vars
BY StatesStay DEF States, Promised, Promise!vars

LEMMA PromiseCrash ==
  ASSUME NEW S \in SUBSET Messages, S \cap Promised = {},
         \A n \in S : StateOf(n) = "carried" /\ StateOf(n)' = "dropped",
         \A n \in Messages \ S : StateOf(n)' = StateOf(n),
         Promised' = Promised, log' = log
  PROVE  Promise!Next
<1>1. States' = [n \in Messages |-> IF n \in S THEN "dropped" ELSE States[n]]
  BY DEF States
<1>2. Promise!Crash(S)
  BY <1>1 DEF Promise!Crash, States, Promised
<1> QED
  BY <1>2 DEF Promise!Next

LEMMA PromiseWithdraw ==
  ASSUME NEW S \in SUBSET Messages,
         \A n \in S : \/ StateOf(n) = "queued" /\ StateOf(n)' = "dropped"
                      \/ StateOf(n) = "carried" /\ StateOf(n)' \in {"carried", "dropped"}
                      \/ StateOf(n) = "said" /\ StateOf(n)' = "said",
         \A n \in Messages \ S : StateOf(n)' = StateOf(n),
         Promised' = Promised \ S, log' = log
  PROVE  Promise!Next
<1>1. States' \in [Messages -> Promise!States]
  <2>1. \A n \in Messages : StateOf(n)' \in Promise!States
    BY DEF StateOf, Promise!States
  <2> QED
    BY <2>1 DEF States
<1>2. \A n \in S : States'[n] \in Promise!AfterWithdraw(States[n])
  BY DEF States, Promise!AfterWithdraw
<1>3. \A n \in Messages \ S : States'[n] = States[n]
  BY DEF States
<1>4. Promise!Withdraw(S)
  BY <1>1, <1>2, <1>3 DEF Promise!Withdraw, States, Promised
<1> QED
  BY <1>4 DEF Promise!Next

\* Where a message is, when it is nowhere near the run r.
LEMMA CarriedStays ==
  ASSUME NEW n, NEW r,
         \A s \in Runs \ {r} : Onward(s) /\ Keeps(s),
         r \in Runs /\ pc[r] \in Pre => msg[r] # n,
         r \in Runs /\ pc'[r] \in Pre => msg'[r] # n,
         queue'.inFlight = n <=> queue.inFlight = n
  PROVE  Carried(n)' <=> Carried(n)
<1>1. \A s \in Runs \ {r} :
        /\ pc'[s] \in Pre <=> pc[s] \in Pre
        /\ pc'[s] \in Pre => msg'[s] = msg[s]
  BY DEF Onward, Keeps, Pre
<1>2. /\ Carried(n) <=> queue.inFlight = n \/ \E s \in Runs : pc[s] \in Pre /\ msg[s] = n
      /\ Carried(n)' <=> queue'.inFlight = n \/ \E s \in Runs : pc'[s] \in Pre /\ msg'[s] = n
  BY DEF Carried, Pre
<1> QED
  BY <1>1, <1>2

\* What the invariants say of where a message is.
LEMMA PlaceFacts ==
  ASSUME Places
  PROVE  /\ \A m \in Messages : m \notin sent =>
              m \notin Said /\ m \notin Elems(queue.queued) /\ ~ Carried(m)
         /\ \A m \in Messages : Carried(m) => m \in sent
         /\ \A m \in Messages : m \in Elems(queue.queued) => ~ Carried(m)
         /\ Promised \subseteq Items(queue)
<1>1. Items(queue) \subseteq sent /\ \A r \in Runs : pc[r] # "idle" => msg[r] \in sent
  BY DEF Places, TypeInv, Known
<1>2. /\ queue \in Queues
      /\ Items(queue) = Elems(queue.queued) \cup (IF queue.inFlight = None THEN {} ELSE {queue.inFlight})
  BY QueueShape DEF Places, TypeInv, QueueTypes
<1>3. \A m \in Messages : Carried(m) => m \in sent
  BY <1>1, <1>2, NoneIsNoMessage DEF Carried
<1>4. Said \subseteq sent /\ Promised \subseteq Items(queue)
  BY DEF Places, Apart, Touched, Promised
<1>5. ASSUME NEW m \in Messages, m \in Elems(queue.queued), Carried(m)
      PROVE  FALSE
  <2>1. queue.inFlight # m /\ m \in Items(queue) /\ m \in Touched
    BY <1>2, <1>5 DEF Places, Once, Touched
  <2>2. PICK r \in Runs : msg[r] = m /\ pc[r] \in Pre
    BY <1>5, <2>1 DEF Carried, Pre
  <2>3. fromQueue[r] /\ pc[r] # "claim"
    BY <2>1, <2>2 DEF Places, Apart
  <2>4. pc[r] \in {"lease", "admit", "commit", "settle"}
    BY <2>2, <2>3 DEF Pre
  <2> QED
    BY <2>1, <2>2, <2>3, <2>4 DEF Places, Held
<1> QED
  BY <1>1, <1>2, <1>3, <1>4, <1>5

LEMMA RestingKeepsPromise ==
  ASSUME Places, Resting
  PROVE  Promise!Next
<1>1. /\ queue' = queue /\ log' = log /\ sent' = sent
      /\ accepted' = accepted /\ withdrawn' = withdrawn
      /\ \A s \in Runs : Onward(s)
  BY DEF Resting
<1>2. Said' = Said /\ Promised' = Promised
  BY <1>1 DEF Said, Promised, Elems
<1>3. ASSUME NEW n \in Messages, Carried(n)'
      PROVE  Carried(n)
  BY <1>1, <1>3 DEF Carried, Onward, Pre
<1> DEFINE S == {n \in Messages : StateOf(n) = "carried" /\ StateOf(n)' # "carried"}
<1>4. ASSUME NEW n \in S
      PROVE  /\ StateOf(n)' = "dropped" /\ Carried(n) /\ ~ Carried(n)'
             /\ n \notin Said /\ n \notin Elems(queue.queued)
  <2>1. n \notin Said /\ n \notin Elems(queue.queued) /\ Carried(n) /\ n \in sent
    BY PlaceFacts DEF StateOf
  <2> QED
    BY <1>1, <1>2, <2>1 DEF StateOf, Elems
<1>5. ASSUME NEW n \in Messages \ S
      PROVE  StateOf(n)' = StateOf(n)
  BY <1>1, <1>2, <1>3, <1>5 DEF StateOf, Elems
<1>6. ASSUME NEW n \in S
      PROVE  n \notin Promised
  <2>1. n \in Items(queue) => queue.inFlight = n
    BY <1>4 DEF Items
  <2>2. queue.inFlight # n
    BY <1>1, <1>4 DEF Carried
  <2> QED
    BY <2>1, <2>2, PlaceFacts
<1>7. S \in SUBSET Messages /\ S \cap Promised = {}
  BY <1>6
<1>8. /\ \A n \in S : StateOf(n) = "carried" /\ StateOf(n)' = "dropped"
      /\ \A n \in Messages \ S : StateOf(n)' = StateOf(n)
  BY <1>4, <1>5
<1> HIDE DEF S
<1> QED
  BY <1>1, <1>2, <1>7, <1>8, PromiseCrash

LEMMA SendsKeepsPromise ==
  ASSUME Places, NEW m \in Messages, NEW r \in Runs, Sends(m, r)
  PROVE  Promise!Next
<1>1. /\ queue' = queue /\ log' = log /\ accepted' = accepted /\ withdrawn' = withdrawn
      /\ m \notin sent /\ sent' = sent \cup {m}
      /\ pc[r] = "idle" /\ pc'[r] \in Pre /\ msg'[r] = m
      /\ \A s \in Runs \ {r} : Onward(s) /\ Keeps(s)
  BY DEF Sends, Pre
<1>2. Said' = Said /\ Promised' = Promised
  BY <1>1 DEF Said, Promised, Elems
<1>3. StateOf(m) = "unsent"
  BY <1>1, PlaceFacts DEF StateOf
<1>4. StateOf(m)' = "carried"
  <2>1. m \notin Said' /\ m \notin Elems(queue.queued)'
    BY <1>1, <1>2, PlaceFacts DEF Elems
  <2>2. Carried(m)'
    BY <1>1 DEF Carried, Pre
  <2> QED
    BY <2>1, <2>2 DEF StateOf
<1>5. ASSUME NEW n \in Messages \ {m}
      PROVE  StateOf(n)' = StateOf(n)
  <2>1. Carried(n)' <=> Carried(n)
    BY <1>1, CarriedStays DEF Pre
  <2> QED
    BY <1>1, <1>2, <2>1, StateStays DEF Elems
<1> QED
  BY <1>1, <1>2, <1>3, <1>4, <1>5, PromiseCarry

LEMMA PushesKeepsPromise ==
  ASSUME Places, NEW m \in Messages, Pushes(m)
  PROVE  Promise!Next
<1>1. /\ log' = log /\ withdrawn' = withdrawn /\ sent' = sent \cup {m}
      /\ accepted' \in {accepted, accepted \cup {m}}
  BY DEF Pushes
<1>2. /\ m \notin Touched /\ queue'.inFlight = queue.inFlight
      /\ Elems(queue'.queued) = Elems(queue.queued) \cup {m}
  BY PushedIsNew, PushesQueue DEF Places
<1>3. m \notin Said /\ m \notin withdrawn /\ m \notin Elems(queue.queued) /\ queue.inFlight # m
  BY <1>2, NoneIsNoMessage DEF Touched, Items
<1>4. Said' = Said
  BY <1>1 DEF Said, Elems
<1>5. Promised' \in {Promised, Promised \cup {m}}
  BY <1>1, <1>3, <1>4 DEF Promised
<1>6. StateOf(m)' = "queued"
  BY <1>2, <1>3, <1>4 DEF StateOf, Elems
<1>7. /\ StateOf(m) \in {"unsent", "carried"}
      /\ \E r : /\ \A s \in Runs \ {r} : Onward(s) /\ Keeps(s)
                /\ r \in Runs => msg[r] = m /\ pc'[r] \notin Pre
      /\ m \in sent => Carried(m)
  <2>1. CASE m \notin sent /\ \A s \in Runs : Onward(s) /\ Keeps(s)
    <3>1. StateOf(m) = "unsent"
      BY <2>1, PlaceFacts DEF StateOf
    <3>2. /\ \A s \in Runs \ {None} : Onward(s) /\ Keeps(s)
          /\ None \notin Runs
      BY <2>1, NoneIsNoMessage
    <3> QED
      BY <2>1, <3>1, <3>2
  <2>2. ASSUME NEW r \in Runs, pc[r] = "claim", msg[r] = m, pc'[r] = "idle",
               \A s \in Runs \ {r} : Onward(s) /\ Keeps(s)
        PROVE  <1>7!1 /\ <1>7!2 /\ <1>7!3
    <3>1. Carried(m)
      BY <2>2 DEF Carried
    <3>2. StateOf(m) = "carried"
      BY <1>3, <3>1, StateCarried
    <3>3. pc'[r] \notin Pre
      BY <2>2 DEF Pre
    <3> QED
      BY <2>2, <3>1, <3>2, <3>3
  <2>3. \/ m \notin sent /\ \A s \in Runs : Onward(s) /\ Keeps(s)
        \/ \E r \in Runs : /\ pc[r] = "claim" /\ msg[r] = m /\ pc'[r] = "idle"
                           /\ \A s \in Runs \ {r} : Onward(s) /\ Keeps(s)
    BY DEF Pushes
  <2> QED
    BY <2>1, <2>2, <2>3
<1>8. ASSUME NEW n \in Messages \ {m}
      PROVE  StateOf(n)' = StateOf(n)
  <2>1. PICK r : /\ \A s \in Runs \ {r} : Onward(s) /\ Keeps(s)
                 /\ r \in Runs => msg[r] = m /\ pc'[r] \notin Pre
    BY <1>7
  <2>2. Carried(n)' <=> Carried(n)
    BY <1>2, <2>1, CarriedStays
  <2>3. n \in Elems(queue.queued)' <=> n \in Elems(queue.queued)
    BY <1>2 DEF Elems
  <2> QED
    BY <1>1, <1>4, <2>2, <2>3, StateStays
<1> QED
  BY <1>1, <1>5, <1>6, <1>7, <1>8, PromiseQueue


LEMMA ClaimsKeepsPromise ==
  ASSUME Places, NEW next \in Runs \cup {None}, Claims(next)
  PROVE  Promise!Next \/ UNCHANGED Promise!vars
<1>0. PICK c : c = Claimable(queue)
  OBVIOUS
<1>1. /\ log' = log /\ sent' = sent /\ accepted' = accepted /\ withdrawn' = withdrawn
      /\ \A s \in Runs \ {next} : Onward(s) /\ Keeps(s)
      /\ next \in Runs => pc[next] = "idle" /\ msg'[next] = c
  BY <1>0 DEF Claims
<1>2. Said' = Said /\ Promised' = Promised
  BY <1>1 DEF Said, Promised, Elems
<1>3. queue'.inFlight = c
  BY <1>0, ClaimsQueue DEF Places
<1>4. ASSUME NEW n \in Messages, n # c, queue.inFlight # n
      PROVE  Carried(n)' <=> Carried(n)
  BY <1>1, <1>3, <1>4, CarriedStays DEF Pre
<1>5. CASE queue' = queue
  <2>1. ASSUME NEW n \in Messages
        PROVE  Carried(n)' <=> Carried(n)
    <3>1. CASE n = c
      BY <1>3, <1>5, <3>1 DEF Carried
    <3>2. CASE n # c
      BY <1>3, <1>4, <1>5, <3>2
    <3> QED
      BY <3>1, <3>2
  <2>2. \A n \in Messages : StateOf(n)' = StateOf(n)
    BY <1>1, <1>2, <1>5, <2>1, StateStays DEF Elems
  <2> QED
    BY <1>1, <1>2, <2>2, PromiseStays
<1>6. CASE queue' # queue
  <2>1. /\ queue.inFlight = None /\ queue.queued # <<>> /\ c = Head(queue.queued)
        /\ queue'.queued = Tail(queue.queued)
    BY <1>0, <1>6 DEF Claims, Claimed, Claimable
  <2>2. queue.queued \in Seq(Messages)
    BY QueueShape DEF Places, TypeInv, QueueTypes
  <2>3. /\ c \in Messages /\ c \in Elems(queue.queued) /\ c \notin Elems(queue'.queued)
        /\ \A n \in Messages \ {c} : n \in Elems(queue'.queued) <=> n \in Elems(queue.queued)
    BY <2>1, <2>2, TailElems, InjectiveTail DEF Places, Once
  <2>4. ASSUME NEW n \in Messages \ {c}
        PROVE  StateOf(n)' = StateOf(n)
    <3>1. Carried(n)' <=> Carried(n)
      BY <1>4, <2>1, NoneIsNoMessage
    <3> QED
      BY <1>1, <1>2, <2>3, <3>1, StateStays DEF Elems
  <2>5. CASE c \in Said
    <3>1. StateOf(c)' = StateOf(c)
      BY <1>2, <2>5 DEF StateOf
    <3>2. \A n \in Messages : StateOf(n)' = StateOf(n)
      BY <2>4, <3>1
    <3> QED
      BY <1>1, <1>2, <3>2, PromiseStays
  <2>6. CASE c \notin Said
    <3>1. StateOf(c) = "queued"
      BY <2>3, <2>6, StateQueued
    <3>2. c \notin Said' /\ c \notin Elems(queue.queued)'
      BY <1>2, <2>3, <2>6 DEF Elems
    <3>3. Carried(c)'
      BY <1>3 DEF Carried
    <3>4. StateOf(c)' = "carried"
      BY <3>2, <3>3 DEF StateOf
    <3> QED
      BY <1>1, <1>2, <2>3, <2>4, <3>1, <3>4, PromiseCarry
  <2> QED
    BY <2>5, <2>6
<1> QED
  BY <1>5, <1>6

LEMMA ReleasesKeepsPromise ==
  ASSUME Places, NEW r \in Runs, Releases(r)
  PROVE  Promise!Next \/ UNCHANGED Promise!vars
<1>0. PICK m : m = msg[r]
  OBVIOUS
<1>1. /\ log' = log /\ sent' = sent /\ accepted' = accepted /\ withdrawn' = withdrawn
      /\ \A s \in Runs \ {r} : Onward(s) /\ Keeps(s)
      /\ pc'[r] \notin Pre
  BY DEF Releases, Keeps, Pre
<1>2. Said' = Said /\ Promised' = Promised
  BY <1>1 DEF Said, Promised, Elems
<1>3. /\ m \in Messages /\ queue.inFlight = m /\ queue'.inFlight = None
      /\ Elems(queue'.queued) = Elems(queue.queued) \cup {m}
  BY <1>0, ReleasesQueue DEF Places
<1>4. ASSUME NEW n \in Messages \ {m}
      PROVE  StateOf(n)' = StateOf(n)
  <2>1. Carried(n)' <=> Carried(n)
    BY <1>0, <1>1, <1>3, CarriedStays, NoneIsNoMessage
  <2> QED
    BY <1>1, <1>2, <1>3, <2>1, StateStays DEF Elems
<1>5. CASE m \in Said
  <2>1. StateOf(m)' = StateOf(m)
    BY <1>2, <1>5 DEF StateOf
  <2>2. \A n \in Messages : StateOf(n)' = StateOf(n)
    BY <1>4, <2>1
  <2> QED
    BY <1>1, <1>2, <2>2, PromiseStays
<1>6. CASE m \notin Said
  <2>1. m \notin Elems(queue.queued) /\ Carried(m)
    BY <1>3 DEF Places, Once, Carried
  <2>2. StateOf(m) = "carried"
    BY <1>6, <2>1, StateCarried
  <2>3. m \notin Said' /\ m \in Elems(queue.queued)'
    BY <1>2, <1>3, <1>6 DEF Elems
  <2>4. StateOf(m)' = "queued"
    BY <2>3 DEF StateOf
  <2> QED
    BY <1>1, <1>2, <1>3, <1>4, <2>2, <2>4, PromiseQueue
<1> QED
  BY <1>5, <1>6

LEMMA SettlesKeepsPromise ==
  ASSUME Places, NEW r \in Runs, Settles(r)
  PROVE  UNCHANGED Promise!vars
<1>1. /\ log' = log /\ sent' = sent /\ accepted' = accepted /\ withdrawn' = withdrawn
      /\ \A s \in Runs \ {r} : Onward(s) /\ Keeps(s)
      /\ pc[r] \notin Pre /\ pc'[r] \notin Pre /\ msg[r] \in Said
  BY DEF Settles, Keeps, Pre, Places, Apart
<1>2. Said' = Said /\ Promised' = Promised
  BY <1>1 DEF Said, Promised, Elems
<1>3. queue.inFlight = msg[r] /\ queue'.inFlight = None /\ queue'.queued = queue.queued
  BY SettlesQueue DEF Places
<1>4. ASSUME NEW n \in Messages
      PROVE  StateOf(n)' = StateOf(n)
  <2>1. CASE n \in Said
    BY <1>2, <2>1 DEF StateOf
  <2>2. CASE n \notin Said
    <3>1. Carried(n)' <=> Carried(n)
      BY <1>1, <1>3, <2>2, CarriedStays, NoneIsNoMessage
    <3> QED
      BY <1>1, <1>2, <1>3, <3>1, StateStays DEF Elems
  <2> QED
    BY <2>1, <2>2
<1> QED
  BY <1>1, <1>2, <1>4, PromiseStays

LEMMA SaysKeepsPromise ==
  ASSUME Places, NEW r \in Runs, Says(r)
  PROVE  Promise!Next \/ UNCHANGED Promise!vars
<1>0. PICK m : m = msg[r]
  OBVIOUS
<1>1. /\ queue' = queue /\ sent' = sent /\ accepted' = accepted /\ withdrawn' = withdrawn
      /\ pc[r] = "commit" /\ pc'[r] \notin Pre /\ log' = Appended(m)
      /\ \A s \in Runs \ {r} : Onward(s) /\ Keeps(s)
  BY <1>0 DEF Says, Pre
<1>2. m \in Messages
  BY <1>0, <1>1 DEF Places, TypeInv, Known, HistoryTypes
<1>3. Said' = Said \cup {m}
  <2>1. Said' = Elems(log')
    BY DEF Said, Elems
  <2> QED
    BY <1>1, <1>2, <2>1, AppendedTypes DEF Places
<1>4. ASSUME NEW n \in Messages \ {m}
      PROVE  StateOf(n)' = StateOf(n)
  <2>1. Carried(n)' <=> Carried(n)
    BY <1>0, <1>1, <1>4, CarriedStays
  <2> QED
    BY <1>1, <1>3, <1>4, <2>1, StateStays DEF Elems
<1>5. StateOf(m)' = "said"
  BY <1>3 DEF StateOf
<1>6. CASE m \in Said
  <2>1. StateOf(m) = "said" /\ log' = log /\ Promised' = Promised
    BY <1>1, <1>3, <1>6 DEF StateOf, Appended, Promised
  <2>2. \A n \in Messages : StateOf(n)' = StateOf(n)
    BY <1>4, <1>5, <2>1
  <2> QED
    BY <2>1, <2>2, PromiseStays
<1>7. CASE m \notin Said
  <2>1. Carried(m)
    BY <1>0, <1>1 DEF Carried
  <2>2. m \notin Elems(queue.queued)
    BY <1>2, <2>1, PlaceFacts
  <2>3. StateOf(m) = "carried"
    BY <1>7, <2>1, <2>2, StateCarried
  <2>4. log' = Append(log, m) /\ Promised' = Promised \ {m}
    BY <1>1, <1>3, <1>7 DEF Appended, Promised
  <2> QED
    BY <1>2, <1>4, <1>5, <2>3, <2>4, PromiseSay
<1> QED
  BY <1>6, <1>7

LEMMA WithdrawsKeepsPromise ==
  ASSUME Places, NEW S \in SUBSET Messages, Withdraws(S)
  PROVE  Promise!Next
<1>1. /\ log' = log /\ sent' = sent /\ accepted' = accepted /\ withdrawn' = withdrawn \cup S
      /\ pc' = pc /\ msg' = msg
  BY DEF Withdraws
<1>2. Said' = Said /\ Promised' = Promised \ S
  BY <1>1 DEF Said, Promised, Elems
<1>3. /\ Elems(queue'.queued) = {} /\ Elems(queue.queued) \subseteq S /\ S \subseteq Items(queue)
      /\ \/ queue'.inFlight = queue.inFlight
         \/ queue'.inFlight = None /\ queue.inFlight \in S \cup {None}
  BY WithdrawsQueue DEF Places
<1>4. ASSUME NEW n \in Messages
      PROVE  /\ Carried(n)' => Carried(n)
             /\ n \notin S => (Carried(n)' <=> Carried(n))
             /\ n \notin Elems(queue.queued)'
  BY <1>1, <1>3, NoneIsNoMessage DEF Carried, Elems
<1>5. ASSUME NEW n \in S
      PROVE  \/ StateOf(n) = "queued" /\ StateOf(n)' = "dropped"
             \/ StateOf(n) = "carried" /\ StateOf(n)' \in {"carried", "dropped"}
             \/ StateOf(n) = "said" /\ StateOf(n)' = "said"
  <2>1. n \in sent /\ n \in sent'
    BY <1>1, <1>3 DEF Places, TypeInv, Known
  <2>2. CASE n \in Said
    BY <1>2, <2>2 DEF StateOf
  <2>3. CASE n \notin Said /\ n \in Elems(queue.queued)
    <3>1. ~ Carried(n)'
      BY <1>4, <2>3, PlaceFacts
    <3> QED
      BY <1>2, <1>4, <2>1, <2>3, <3>1 DEF StateOf
  <2>4. CASE n \notin Said /\ n \notin Elems(queue.queued)
    <3>1. Carried(n)
      BY <1>3, <2>4 DEF Carried, Items
    <3> QED
      BY <1>2, <1>4, <2>1, <2>4, <3>1 DEF StateOf
  <2> QED
    BY <2>2, <2>3, <2>4
<1>6. ASSUME NEW n \in Messages \ S
      PROVE  StateOf(n)' = StateOf(n)
  BY <1>1, <1>2, <1>3, <1>4, <1>6, StateStays
<1> QED
  BY <1>1, <1>2, <1>5, <1>6, PromiseWithdraw

\* The runs of a Session keep what it promises: a message is said once, and
\* one the queue accepted is dropped only when the user withdraws it, through
\* every failure, retry, hand-over and restart (Conversation.tla).
THEOREM ImplementsConversationHolds == Spec => ImplementsConversation
<1>1. Init => Promise!Init
  <2>1. ASSUME Init
        PROVE  /\ \A m \in Messages : StateOf(m) = "unsent"
               /\ (accepted \ Said) \ withdrawn = {} /\ log = <<>>
    <3>1. /\ queue = Empty /\ log = <<>> /\ sent = {} /\ accepted = {}
          /\ \A r \in Runs : pc[r] = "idle"
      BY <2>1 DEF Init
    <3>2. Said = {} /\ Elems(queue.queued) = {} /\ queue.inFlight = None
      BY <3>1, EmptyQueue DEF Said, Elems
    <3>3. \A m \in Messages : ~ Carried(m)
      BY <3>1, <3>2, NoneIsNoMessage DEF Carried
    <3> QED
      BY <3>1, <3>2, <3>3 DEF StateOf
  <2> QED
    BY <2>1 DEF Promise!Init
<1>2. Places /\ [Next]_vars => [Promise!Next]_(Promise!vars)
  <2>1. ASSUME Places, Shaped
        PROVE  Promise!Next \/ UNCHANGED Promise!vars
    BY <2>1, RestingKeepsPromise, SendsKeepsPromise, PushesKeepsPromise, ClaimsKeepsPromise,
       ReleasesKeepsPromise, SettlesKeepsPromise, SaysKeepsPromise, WithdrawsKeepsPromise DEF Shaped
  <2> QED
    BY <2>1, StepShaped DEF Places
<1>3. Spec => []Places
  BY TypeInvariance, OwnersInvariance, ApartInvariance, PlacesInvariance, PTL DEF Places
<1> QED
  BY <1>1, <1>2, <1>3, PTL DEF Spec, ImplementsConversation, Promise!Spec

=============================================================================
