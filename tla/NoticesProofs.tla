---------------------------- MODULE NoticesProofs ----------------------------
(***************************************************************************)
(* What is proved of Notices for every number of tasks, reports, runs,     *)
(* restarts and failures.                                                  *)
(***************************************************************************)
EXTENDS Notices, TLAPS

\* The notices of a router.
Waits == [who : Senders, saved : BOOLEAN]

Pending == [queued : Seq(Entries), inFlight : Entries \cup {None}]

MailBox == [queued : Seq(Entries), inFlight : Seq(Entries)]

Cursor == [next : Nat \ {0}, failed : BOOLEAN]

-----------------------------------------------------------------------------
(* The types *)

LEMMA EntryTypes ==
  /\ \A s \in Senders : Notice(s) \in Entries
  /\ \A s \in Reports : Letter(s) \in Entries
  /\ \A t \in Tasks \cup Foreign : Interrupted(t) \in Entries
  /\ None \notin Entries
BY EntryAssumption DEF Entries

LEMMA ActorFacts ==
  /\ Senders = Tasks \cup Reports /\ Actors = Senders \cup Runs
  /\ \A r \in Runs : r \notin Senders /\ r \notin Tasks /\ r \notin Reports
  /\ \A t \in Tasks : t \notin Reports
  /\ None \notin Runs /\ None \notin Senders /\ None \notin Actors
BY ActorAssumption DEF Senders, Actors

LEMMA OnceType ==
  ASSUME log \in Seq(Entries), NEW e \in Entries
  PROVE  Once(e) \in Seq(Entries)
BY DEF Once

LEMMA WithType ==
  ASSUME pend \in Pending, NEW e \in Entries
  PROVE  With(e) \in Pending
BY DEF With, Pending

LEMMA ClaimedType ==
  ASSUME pend \in Pending, Items(pend) # {}
  PROVE  Claimed(pend) \in Pending /\ Claimed(pend).inFlight \in Entries
<1>1. CASE pend.inFlight # None
  BY <1>1 DEF Claimed, Pending
<1>2. CASE pend.inFlight = None
  <2>1. pend.queued \in Seq(Entries)
    BY DEF Pending
  <2>2. pend.queued # <<>>
    BY <1>2, <2>1 DEF Items, ToSet
  <2>3. Tail(pend.queued) \in Seq(Entries) /\ Head(pend.queued) \in Entries
    BY <2>1, <2>2
  <2> QED
    BY <1>2, <2>3 DEF Claimed, Pending
<1> QED
  BY <1>1, <1>2

LEMMA MailFacts ==
  ASSUME NEW m \in MailBox
  PROVE  /\ m.queued \in Seq(Entries) /\ m.inFlight \in Seq(Entries)
         /\ [queued |-> <<>>, inFlight |-> m.queued] \in MailBox
         /\ [m EXCEPT !.inFlight = <<>>] \in MailBox
         /\ \A e \in Entries : [m EXCEPT !.queued = Append(@, e)] \in MailBox
<1>1. m.queued \in Seq(Entries) /\ m.inFlight \in Seq(Entries)
  BY DEF MailBox
<1>2. \A q, f \in Seq(Entries) :
        /\ [queued |-> q, inFlight |-> f] \in MailBox
        /\ [m EXCEPT !.queued = q] \in MailBox /\ [m EXCEPT !.inFlight = f] \in MailBox
  BY DEF MailBox
<1>3. ASSUME NEW e \in Entries
      PROVE  [m EXCEPT !.queued = Append(@, e)] \in MailBox
  <2>1. PICK q : q = m.queued
    OBVIOUS
  <2>2. Append(q, e) \in Seq(Entries)
    BY <1>1, <2>1
  <2> QED
    BY <1>2, <2>1, <2>2
<1>4. <<>> \in Seq(Entries)
  OBVIOUS
<1> QED
  BY <1>1, <1>2, <1>3, <1>4

LEMMA CursorFacts ==
  /\ FirstLetter \in Cursor
  /\ \A c \in Cursor :
       /\ c.next \in Nat \ {0} /\ c.failed \in BOOLEAN
       /\ [c EXCEPT !.next = @ + 1] \in Cursor
       /\ [next |-> c.next + 1, failed |-> TRUE] \in Cursor
BY DEF Cursor, FirstLetter

LEMMA WaitFacts ==
  /\ \A n \in Waits : n.who \in Senders /\ Notice(n.who) \in Entries
  /\ \A s \in Senders : \A b \in BOOLEAN : [who |-> s, saved |-> b] \in Waits
  /\ \A q \in Seq(Waits) : q # <<>> =>
       /\ Head(q) \in Waits /\ Tail(q) \in Seq(Waits)
       /\ Notice(Head(q).who) \in Entries
<1>1. \A n \in Waits : n.who \in Senders /\ Notice(n.who) \in Entries
  BY EntryTypes DEF Waits
<1>2. \A s \in Senders : \A b \in BOOLEAN : [who |-> s, saved |-> b] \in Waits
  BY DEF Waits
<1>3. \A q \in Seq(Waits) : q # <<>> => Head(q) \in Waits /\ Tail(q) \in Seq(Waits)
  OBVIOUS
<1> QED
  BY <1>1, <1>2, <1>3

\* A failure is counted up to its bound.
LEMMA FailType ==
  ASSUME failures \in 0..MaxFailures, NEW n \in {0, 1, 2}, Fail(n)
  PROVE  failures' \in 0..MaxFailures /\ failures' = failures + n
BY BoundAssumption DEF Fail

LEMMA CostType ==
  ASSUME NEW b, NEW c
  PROVE  Cost(b) \in {0, 1} /\ Cost(b) + Cost(c) \in {0, 1, 2} /\ (~ b => Cost(b) = 1)
BY DEF Cost

-----------------------------------------------------------------------------
(* The invariant *)

Stored(e) == e \in Said \cup Items(pend)

\* One run works at a time, and the delivery it claimed is in hand.
OneWorks == \A r, q \in Runs : Working(r) /\ Working(q) => r = q

InHand == \A r \in Runs : pc[r] = "commit" => pend.inFlight \in Entries

\* The letters before the cursor are in the Session, unless one failed.
LettersSaved ==
  /\ (\A r \in Runs : pc[r] # "letters") => saving = FirstLetter
  /\ \A r \in Runs : pc[r] = "letters" /\ ~ saving.failed =>
       \A i \in DOMAIN mail.inFlight : i < saving.next => mail.inFlight[i] \in Said
  /\ \A r \in Runs : pc[r] = "ack" => ToSet(mail.inFlight) \subseteq Said

\* Who notifies or flushes has a router, and flushes it once it is closed.
Routed ==
  /\ \A s \in Senders :
       pc[s] \in {"running", "exited", "public", "notify", "recheck", "flush", "front", "pop"} =>
         via[s] \in Runs
  /\ \A s \in Senders : pc[s] \in {"flush", "front", "pop"} => via[s] \in closed
  /\ \A r \in Runs : pc[r] \in {"flush", "front", "pop", "unregister"} => r \in closed
  /\ \A r \in Runs :
       pc[r] \in {"commit", "inbox", "letters", "ack", "active"} => r \notin closed

\* And who flushes it holds it, and pops what is stored.
Fine(a) ==
  /\ /\ a \in Senders
     /\ pc[a] \in {"running", "exited", "public", "notify", "recheck", "flush", "front", "pop"}
     => via[a] \in Runs
  /\ pc[a] \in {"flush", "front", "pop"} => Router(a) \in closed
  /\ a \in Runs /\ pc[a] = "unregister" => a \in closed
  /\ a \in Runs /\ pc[a] \in {"commit", "inbox", "letters", "ack", "active"} => a \notin closed
  /\ pc[a] \in {"front", "pop"} => holder[Router(a)] = a
  /\ pc[a] = "pop" =>
       rq[Router(a)] # <<>> /\ Stored(Notice(Head(rq[Router(a)]).who))

AllFine == \A a \in Actors : Fine(a)

SavedSaid ==
  \A r \in Runs : \A i \in DOMAIN rq[r] : rq[r][i].saved => Notice(rq[r][i].who) \in Said

Counted == sblocked => failures > 0


\* Where the notice of a sender is.
At(s) ==
  /\ pc[s] = "recheck" =>
       Stored(Notice(s)) \/ (failures > 0 /\ Notice(s) \in Waiting(via[s]))
  /\ pc[s] \in {"flush", "front", "pop"} =>
       Stored(Notice(s)) \/ Notice(s) \in Waiting(via[s])
  /\ pc[s] = "done" /\ (s \in Tasks => killed[s] = "no") =>
       \/ Safe(Notice(s)) \/ Safe(Letter(s))
       \/ failures > 0 /\ (s \in lost \/ \E r \in Runs : Notice(s) \in Waiting(r))

Whereabouts == \A s \in Senders : At(s)


\* The same types in five parts, one for each group of variables.
ControlOK ==
  /\ pc \in [Actors -> Labels]
  /\ via \in [Senders -> Runs \cup {None}]
  /\ journal \in [Tasks \cup Foreign -> {"none", "start", "exit", "killed", "reaped"}]
  /\ killed \in [Tasks -> {"no", "flag", "yes"}]

RoutersOK ==
  /\ rq \in [Runs -> Seq(Waits)]
  /\ closed \subseteq Runs /\ refused \subseteq Runs
  /\ holder \in [Runs -> Actors \cup {None}]
  /\ registered \in Runs \cup {None}

StoresOK ==
  /\ pend \in Pending /\ qblocked \in BOOLEAN
  /\ log \in Seq(Entries) /\ sblocked \in BOOLEAN
  /\ failures \in 0..MaxFailures

MailOK == mail \in MailBox /\ saving \in Cursor /\ mblocked \in BOOLEAN

BootOK ==
  /\ todo \subseteq Tasks \cup Foreign /\ lost \subseteq Senders
  /\ crashes \in 0..MaxCrashes

Typed == ControlOK /\ RoutersOK /\ StoresOK /\ MailOK /\ BootOK

LEMMA TypedIsTypeOK == Typed => TypeOK
BY DEF Typed, ControlOK, RoutersOK, StoresOK, BootOK, MailOK, TypeOK, Waits, Pending,
       MailBox, Cursor

\* Steps of an actor that leave the files alone.
LEMMA GotoTypes ==
  ASSUME pc \in [Actors -> Labels], NEW a \in Actors, NEW label \in Labels, Goto(a, label)
  PROVE  pc' \in [Actors -> Labels]
BY DEF Goto

LEMMA LabelFacts ==
  /\ {"idle", "commit", "inbox", "letters", "ack", "active", "unregister"} \subseteq Labels
  /\ {"running", "exited", "public", "notify", "recheck", "enqueue", "letter"} \subseteq Labels
  /\ {"flush", "front", "pop", "done", "told", "gone"} \subseteq Labels
BY DEF Labels

\* A variable nobody touches keeps its type.
LEMMA SameControl ==
  ASSUME Typed, UNCHANGED <<via, taskVars>>, pc' \in [Actors -> Labels]
  PROVE  ControlOK'
BY DEF Typed, ControlOK, taskVars

LEMMA SameRouters == ASSUME Typed, UNCHANGED routerVars PROVE RoutersOK'
BY DEF Typed, RoutersOK, routerVars

LEMMA SameMail == ASSUME Typed, UNCHANGED mailVars PROVE MailOK'
BY DEF Typed, MailOK, mailVars

LEMMA SameBoot == ASSUME Typed, UNCHANGED bootVars PROVE BootOK'
BY DEF Typed, BootOK, bootVars

LEMMA StoreTypes ==
  ASSUME Typed
  PROVE  /\ log \in Seq(Entries) /\ sblocked \in BOOLEAN
         /\ pend \in Pending /\ qblocked \in BOOLEAN
         /\ failures \in 0..MaxFailures
BY DEF Typed, StoresOK

LEMMA SessionTypes ==
  ASSUME Typed, NEW e \in Entries,
         SessionOk(e) \/ SessionFails \/ SessionIndeterminate(e)
  PROVE  log' \in Seq(Entries) /\ sblocked' \in BOOLEAN
BY StoreTypes, OnceType DEF SessionOk, SessionFails, SessionIndeterminate, logVars

LEMMA QueueTypes ==
  ASSUME Typed, NEW e \in Entries,
         QueueOk(e) \/ QueueRefuses(e) \/ QueueIndeterminate(e)
  PROVE  pend' \in Pending /\ qblocked' \in BOOLEAN
BY StoreTypes, WithType DEF QueueOk, QueueRefuses, QueueIndeterminate, queueVars

\* One more failure, or the one a blocked store already had.
LEMMA FailedTypes ==
  ASSUME Typed,
         \/ Fail(Cost(qblocked)) \/ Fail(Cost(sblocked)) \/ Fail(Cost(mblocked))
         \/ Fail(Cost(qblocked) + Cost(sblocked)) \/ Fail(1) \/ UNCHANGED failures
  PROVE  failures' \in 0..MaxFailures
<1>1. failures \in 0..MaxFailures
  BY StoreTypes
<1>2. /\ Cost(qblocked) \in {0, 1, 2} /\ Cost(sblocked) \in {0, 1, 2}
      /\ Cost(mblocked) \in {0, 1, 2}
      /\ Cost(qblocked) + Cost(sblocked) \in {0, 1, 2}
  BY DEF Cost
<1> QED
  BY <1>1, <1>2, FailType

LEMMA DeliveryTypes ==
  ASSUME Typed, NEW e \in Entries, DeliveredTo(e) \/ DeliveryRefused(e)
  PROVE  StoresOK'
<1>1. pend' \in Pending /\ qblocked' \in BOOLEAN
  BY QueueTypes DEF DeliveredTo, DeliveryRefused
<1>2. log' \in Seq(Entries) /\ sblocked' \in BOOLEAN
  BY SessionTypes, StoreTypes DEF DeliveredTo, DeliveryRefused, logVars
<1>3. failures' \in 0..MaxFailures
  BY FailedTypes DEF DeliveredTo, DeliveryRefused
<1> QED
  BY <1>1, <1>2, <1>3 DEF StoresOK

LEMMA StartTypes ==
  ASSUME Typed, NEW r \in Runs, StartDirect(r) \/ StartQueued(r)
  PROVE  Typed'
<1>1. PICK label \in {"inbox", "commit"} : Start(r, label)
  BY DEF StartDirect, StartQueued
<1>2. pend' \in Pending /\ qblocked' = qblocked
  BY StoreTypes, ClaimedType DEF StartDirect, StartQueued, queueVars
<1>3. StoresOK'
  BY <1>1, <1>2, StoreTypes DEF StoresOK, Start, logVars
<1>4. pc' \in [Actors -> Labels]
  <2>1. Goto(r, label) /\ label \in Labels /\ r \in Actors
    BY <1>1, ActorFacts, LabelFacts DEF Start
  <2> QED
    BY <2>1, GotoTypes DEF Typed, ControlOK
<1>5. ControlOK' /\ MailOK'
  BY <1>1, <1>4, SameControl, SameMail DEF Start
<1>6. RoutersOK'
  BY <1>1 DEF Start, Typed, RoutersOK
<1>7. BootOK'
  BY <1>1 DEF Start, Typed, BootOK, OnlyIn
<1> QED
  BY <1>3, <1>5, <1>6, <1>7 DEF Typed

LEMMA CommitTypes ==
  ASSUME Typed, InHand, NEW r \in Runs, Commit(r) \/ CommitFails(r)
  PROVE  Typed'
<1>1. pend.inFlight \in Entries
  BY DEF Commit, CommitFails, InHand
<1>2. log' \in Seq(Entries) /\ sblocked' \in BOOLEAN
  BY <1>1, SessionTypes DEF Commit, CommitFails
<1>3. failures' \in 0..MaxFailures
  BY FailedTypes DEF Commit, CommitFails
<1>4. pend' \in Pending /\ qblocked' = qblocked
  BY StoreTypes DEF Commit, CommitFails, queueVars, Pending
<1>5. StoresOK'
  BY <1>2, <1>3, <1>4, StoreTypes DEF StoresOK
<1>6. pc' \in [Actors -> Labels]
  <2>1. PICK label \in Labels : Goto(r, label)
    BY LabelFacts DEF Commit, CommitFails
  <2> QED
    BY <2>1, ActorFacts, GotoTypes DEF Typed, ControlOK
<1>7. UNCHANGED <<via, taskVars, routerVars, mailVars, bootVars>>
  BY DEF Commit, CommitFails
<1> QED
  BY <1>5, <1>6, <1>7, SameControl, SameRouters, SameMail, SameBoot DEF Typed

\* A run's step about its letters.
LEMMA InboxTypes ==
  ASSUME Typed, NEW r \in Runs,
         \/ ClaimInbox(r) \/ ClaimInboxFails(r)
         \/ SaveLetter(r) \/ LettersOver(r)
         \/ AckInbox(r) \/ AckInboxFails(r)
  PROVE  Typed'
<1>1. failures' \in 0..MaxFailures
  BY FailedTypes
  DEF ClaimInbox, ClaimInboxFails, SaveLetter, LettersOver, AckInbox, AckInboxFails
<1>2. /\ UNCHANGED <<via, taskVars, queueVars, bootVars>>
      /\ \/ UNCHANGED routerVars
         \/ registered' = r /\ UNCHANGED <<rq, closed, holder, refused>>
  BY DEF ClaimInbox, ClaimInboxFails, SaveLetter, LettersOver, AckInbox, AckInboxFails,
         routerVars
<1>3. RoutersOK'
  BY <1>2, SameRouters DEF Typed, RoutersOK
<1>4. pc' \in [Actors -> Labels]
  <2>1. CASE UNCHANGED pc
    BY <2>1 DEF Typed, ControlOK
  <2>2. CASE \E label \in Labels : Goto(r, label)
    BY <2>2, ActorFacts, GotoTypes DEF Typed, ControlOK
  <2> QED
    BY <2>1, <2>2, LabelFacts
    DEF ClaimInbox, ClaimInboxFails, SaveLetter, LettersOver, AckInbox, AckInboxFails
<1>5. /\ mail \in MailBox /\ saving \in Cursor /\ mblocked \in BOOLEAN
      /\ mail.queued \in Seq(Entries) /\ mail.inFlight \in Seq(Entries)
      /\ saving.next \in Nat \ {0}
  BY MailFacts, CursorFacts DEF Typed, MailOK
<1>6. log' \in Seq(Entries) /\ sblocked' \in BOOLEAN
  <2>1. CASE SaveLetter(r)
    <3>1. PICK e : e = mail.inFlight[saving.next]
      OBVIOUS
    <3>2. e \in Entries
      BY <1>5, <2>1, <3>1 DEF SaveLetter
    <3>3. SessionOk(e) \/ SessionFails \/ SessionIndeterminate(e)
      BY <2>1, <3>1 DEF SaveLetter
    <3> QED
      BY <3>2, <3>3, SessionTypes
  <2>2. CASE UNCHANGED logVars
    BY <2>2, StoreTypes DEF logVars
  <2> QED
    BY <2>1, <2>2
    DEF ClaimInbox, ClaimInboxFails, LettersOver, AckInbox, AckInboxFails
<1>7. StoresOK'
  BY <1>1, <1>2, <1>6, StoreTypes DEF StoresOK, queueVars
<1>8. mail' \in MailBox
  BY <1>5, MailFacts
  DEF ClaimInbox, ClaimInboxFails, SaveLetter, LettersOver, AckInbox, AckInboxFails, mailVars
<1>9. saving' \in Cursor /\ mblocked' \in BOOLEAN
  BY <1>5, CursorFacts
  DEF ClaimInbox, ClaimInboxFails, SaveLetter, LettersOver, AckInbox, AckInboxFails, mailVars
<1> QED
  BY <1>2, <1>3, <1>4, <1>7, <1>8, <1>9, SameControl, SameBoot DEF Typed, MailOK

LEMMA TurnTypes ==
  ASSUME Typed, NEW r \in Runs, Drain(r) \/ DrainFails(r) \/ Close(r) \/ Finish(r)
  PROVE  Typed'
<1>1. rq[r] \in Seq(Waits)
  BY DEF Typed, RoutersOK
<1>2. rq[r] # <<>> =>
        /\ Notice(Head(rq[r]).who) \in Entries
        /\ Tail(rq[r]) \in Seq(Waits)
  BY <1>1, WaitFacts
<1>3. log' \in Seq(Entries) /\ sblocked' \in BOOLEAN
  BY <1>2, SessionTypes, StoreTypes DEF Drain, DrainFails, Close, Finish, logVars
<1>4. failures' \in 0..MaxFailures
  BY FailedTypes DEF Drain, DrainFails, Close, Finish
<1>5. StoresOK'
  BY <1>3, <1>4, StoreTypes DEF Drain, DrainFails, Close, Finish, queueVars, StoresOK
<1>6. RoutersOK'
  <2>1. CASE Drain(r)
    BY <1>2, <2>1 DEF Drain, Typed, RoutersOK
  <2>2. CASE DrainFails(r)
    BY <2>2, SameRouters DEF DrainFails
  <2>3. CASE Close(r)
    BY <2>3 DEF Close, Typed, RoutersOK
  <2>4. CASE Finish(r)
    BY <2>4 DEF Finish, Typed, RoutersOK
  <2> QED
    BY <2>1, <2>2, <2>3, <2>4
<1>7. pc' \in [Actors -> Labels]
  <2>1. UNCHANGED pc \/ \E label \in Labels : Goto(r, label)
    BY LabelFacts DEF Drain, DrainFails, Close, Finish
  <2> QED
    BY <2>1, ActorFacts, GotoTypes DEF Typed, ControlOK
<1>8. UNCHANGED <<via, taskVars, mailVars, bootVars>>
  BY DEF Drain, DrainFails, Close, Finish
<1> QED
  BY <1>5, <1>6, <1>7, <1>8, SameControl, SameMail, SameBoot DEF Typed

LEMMA TaskTypes ==
  ASSUME Typed, NEW t \in Tasks,
         TaskGoesOn(t) \/ Kill(t) \/ Exit(t) \/ \E r \in Runs : Spawn(t, r)
  PROVE  Typed'
<1>1. failures' \in 0..MaxFailures
  BY FailedTypes DEF TaskGoesOn, WriteKilled, WriteExit, Watch, Kill, Exit, Spawn
<1>2. UNCHANGED <<routerVars, queueVars, logVars, mailVars, bootVars>>
  BY DEF TaskGoesOn, WriteKilled, WriteExit, Watch, Kill, Exit, Spawn
<1>3. StoresOK'
  BY <1>1, <1>2, StoreTypes DEF StoresOK, queueVars, logVars
<1>4. t \in Actors /\ t \in Senders
  BY ActorFacts
<1>5. pc' \in [Actors -> Labels]
  <2>1. UNCHANGED pc \/ \E label \in Labels : Goto(t, label)
    BY LabelFacts DEF TaskGoesOn, WriteKilled, WriteExit, Watch, Kill, Exit, Spawn
  <2> QED
    BY <1>4, <2>1, GotoTypes DEF Typed, ControlOK
<1>6. ControlOK'
  BY <1>4, <1>5
  DEF TaskGoesOn, WriteKilled, WriteExit, Watch, Kill, Exit, Spawn, Typed, ControlOK,
      taskVars
<1> QED
  BY <1>2, <1>3, <1>6, SameRouters, SameMail, SameBoot DEF Typed

LEMMA ReportTypes ==
  ASSUME Typed, NEW s \in Reports, Report(s) \/ ReportGoesOn(s)
  PROVE  Typed'
<1>1. s \in Actors /\ s \in Senders /\ Notice(s) \in Entries /\ Letter(s) \in Entries
  BY ActorFacts, EntryTypes
<1>2. failures' \in 0..MaxFailures
  BY FailedTypes
  DEF Report, ReportGoesOn, Enqueue, EnqueueFails, WriteLetter, WriteLetterFails
<1>3. pend' \in Pending /\ qblocked' \in BOOLEAN
  BY <1>1, QueueTypes, StoreTypes
  DEF Report, ReportGoesOn, Enqueue, EnqueueFails, WriteLetter, WriteLetterFails, queueVars
<1>4. UNCHANGED <<taskVars, routerVars, logVars, bootVars>>
  BY DEF Report, ReportGoesOn, Enqueue, EnqueueFails, WriteLetter, WriteLetterFails
<1>5. StoresOK'
  BY <1>2, <1>3, <1>4, StoreTypes DEF StoresOK, logVars
<1>6. MailOK'
  BY <1>1, MailFacts
  DEF Report, ReportGoesOn, Enqueue, EnqueueFails, WriteLetter, WriteLetterFails, mailVars,
      Typed, MailOK
<1>7. pc' \in [Actors -> Labels]
  <2>1. \E label \in Labels : Goto(s, label)
    BY LabelFacts
    DEF Report, ReportGoesOn, Enqueue, EnqueueFails, WriteLetter, WriteLetterFails
  <2> QED
    BY <1>1, <2>1, GotoTypes DEF Typed, ControlOK
<1>8. via' \in [Senders -> Runs \cup {None}]
  BY <1>1
  DEF Report, ReportGoesOn, Enqueue, EnqueueFails, WriteLetter, WriteLetterFails, Typed,
      ControlOK, RoutersOK
<1>9. ControlOK'
  BY <1>4, <1>7, <1>8 DEF Typed, ControlOK, taskVars
<1> QED
  BY <1>4, <1>5, <1>6, <1>9, SameRouters, SameBoot DEF Typed

LEMMA NotifyTypes ==
  ASSUME Typed, Routed, NEW s \in Senders, Notifies(s)
  PROVE  Typed'
<1>1. s \in Actors /\ Notice(s) \in Entries
  BY ActorFacts, EntryTypes
<1>2. failures' \in 0..MaxFailures
  BY FailedTypes DEF Notifies, NotifyLate, NotifyActive, Recheck
<1>3. log' \in Seq(Entries) /\ sblocked' \in BOOLEAN
  BY <1>1, SessionTypes, StoreTypes DEF Notifies, NotifyLate, NotifyActive, Recheck, logVars
<1>4. UNCHANGED <<taskVars, closed, holder, registered, refused, queueVars, mailVars, bootVars>>
  BY DEF Notifies, NotifyLate, NotifyActive, Recheck, routerVars
<1>5. StoresOK'
  BY <1>2, <1>3, <1>4, StoreTypes DEF StoresOK, queueVars
<1>6. pc' \in [Actors -> Labels]
  <2>1. \E label \in Labels : Goto(s, label)
    BY LabelFacts DEF Notifies, NotifyLate, NotifyActive, Recheck
  <2> QED
    BY <1>1, <2>1, GotoTypes DEF Typed, ControlOK
<1>7. via' \in [Senders -> Runs \cup {None}]
  BY DEF Notifies, NotifyLate, NotifyActive, Recheck, Typed, ControlOK
<1>8. rq' \in [Runs -> Seq(Waits)]
  <2>1. CASE Recheck(s)
    BY <2>1 DEF Recheck, routerVars, Typed, RoutersOK
  <2>2. CASE \E saved \in BOOLEAN : Push(s, saved)
    <3>1. PICK saved \in BOOLEAN : Push(s, saved)
      BY <2>2
    <3>2. PICK n \in Waits : n = [who |-> s, saved |-> saved]
      BY WaitFacts
    <3>3. rq' = [rq EXCEPT ![via[s]] = Append(@, n)]
      BY <3>1, <3>2 DEF Push
    <3>4. via[s] \in Runs
      BY DEF Routed, Notifies, NotifyLate, NotifyActive, Recheck
    <3>5. Append(rq[via[s]], n) \in Seq(Waits)
      BY <3>4 DEF Typed, RoutersOK
    <3> QED
      BY <3>3, <3>4, <3>5 DEF Typed, RoutersOK
  <2> QED
    BY <2>1, <2>2 DEF Notifies, NotifyLate, NotifyActive
<1>9. ControlOK' /\ RoutersOK'
  BY <1>4, <1>6, <1>7, <1>8 DEF Typed, ControlOK, RoutersOK, taskVars
<1> QED
  BY <1>4, <1>5, <1>9, SameMail, SameBoot DEF Typed

\* Who flushes has a router.
LEMMA FlusherHasRouter ==
  ASSUME Typed, Routed, NEW a \in Actors, pc[a] \in {"flush", "front", "pop"}
  PROVE  /\ Router(a) \in Runs /\ Router(a) \in closed
         /\ rq[Router(a)] \in Seq(Waits)
         /\ rq[Router(a)] # <<>> =>
              /\ Head(rq[Router(a)]).who \in Senders
              /\ Notice(Head(rq[Router(a)]).who) \in Entries
              /\ Tail(rq[Router(a)]) \in Seq(Waits)
<1>1. Router(a) \in Runs /\ Router(a) \in closed
  BY ActorFacts DEF Router, Routed
<1>2. rq[Router(a)] \in Seq(Waits)
  BY <1>1 DEF Typed, RoutersOK
<1>3. rq[Router(a)] # <<>> =>
        /\ Head(rq[Router(a)]) \in Waits
        /\ Tail(rq[Router(a)]) \in Seq(Waits)
  BY <1>2
<1> QED
  BY <1>1, <1>2, <1>3, WaitFacts

\* What a step of a flush does to the control of the actors.
FlushControl(a) ==
  /\ UNCHANGED taskVars
  /\ \E label \in Labels : Goto(a, label)
  /\ via' = via \/ (a \notin Runs /\ via' = [via EXCEPT ![a] = None])
  /\ holder' = holder \/ \E h \in {a, None} : holder' = [holder EXCEPT ![Router(a)] = h]
  /\ rq' = rq \/ (rq[Router(a)] # <<>> /\ rq' = [rq EXCEPT ![Router(a)] = Tail(@)])
  /\ refused' \in {refused, refused \ {Router(a)}, refused \cup {Router(a)}}
  /\ UNCHANGED <<closed, registered, mailVars, bootVars>>

LEMMA FlushIsControlled ==
  ASSUME NEW a \in Actors, Flushes(a)
  PROVE  FlushControl(a)
<1>1. CASE FlushBegins(a)
  BY <1>1, LabelFacts DEF FlushBegins, FlushControl
<1>2. CASE FlushEnds(a)
  BY <1>2, LabelFacts DEF FlushEnds, FlushOver, FlushControl
<1>3. CASE Deliver(a)
  BY <1>3, LabelFacts DEF Deliver, FlushControl, routerVars
<1>4. CASE Pop(a)
  BY <1>4, LabelFacts DEF Pop, FlushControl
<1>5. CASE Refuse(a)
  <2>1. PICK next \in Labels : FlushOver(a, next)
    <3>1. CASE a \in Runs
      BY <1>5, <3>1, LabelFacts DEF Refuse
    <3>2. CASE a \in Tasks
      BY <1>5, <3>2, ActorFacts, LabelFacts DEF Refuse
    <3>3. CASE a \notin Runs /\ a \notin Tasks
      BY <1>5, <3>3, LabelFacts DEF Refuse
    <3> QED
      BY <3>1, <3>2, <3>3
  <2>2. /\ rq' = rq /\ refused' = refused \cup {Router(a)}
        /\ UNCHANGED <<taskVars, closed, registered, mailVars, bootVars>>
    BY <1>5 DEF Refuse, Kept
  <2> QED
    BY <2>1, <2>2 DEF FlushOver, FlushControl
<1> QED
  BY <1>1, <1>2, <1>3, <1>4, <1>5 DEF Flushes

LEMMA FlushTypes ==
  ASSUME Typed, Routed, NEW a \in Actors, Flushes(a)
  PROVE  Typed'
<1>1. /\ Router(a) \in Runs
      /\ rq[Router(a)] # <<>> =>
           /\ Notice(Head(rq[Router(a)]).who) \in Entries
           /\ Tail(rq[Router(a)]) \in Seq(Waits)
  BY FlusherHasRouter DEF Flushes, FlushBegins, FlushEnds, Deliver, Pop, Refuse
<1>2. FlushControl(a)
  BY FlushIsControlled
<1>3. pc' \in [Actors -> Labels]
  BY <1>2, GotoTypes DEF FlushControl, Typed, ControlOK
<1>4. via' \in [Senders -> Runs \cup {None}]
  BY <1>2 DEF FlushControl, Typed, ControlOK
<1>5. ControlOK'
  BY <1>2, <1>3, <1>4 DEF FlushControl, Typed, ControlOK, taskVars
<1>6. rq' \in [Runs -> Seq(Waits)] /\ holder' \in [Runs -> Actors \cup {None}]
  <2>1. rq \in [Runs -> Seq(Waits)] /\ holder \in [Runs -> Actors \cup {None}]
    BY DEF Typed, RoutersOK
  <2>2. rq' \in [Runs -> Seq(Waits)]
    BY <1>1, <1>2, <2>1 DEF FlushControl
  <2>3. holder' \in [Runs -> Actors \cup {None}]
    BY <1>2, <2>1 DEF FlushControl
  <2> QED
    BY <2>2, <2>3
<1>7. RoutersOK'
  BY <1>1, <1>2, <1>6 DEF FlushControl, Typed, RoutersOK
<1>8. StoresOK'
  <2>1. CASE Deliver(a) \/ Refuse(a)
    BY <1>1, <2>1, DeliveryTypes DEF Deliver, Refuse
  <2>2. CASE FlushBegins(a) \/ FlushEnds(a) \/ Pop(a)
    BY <2>2, StoreTypes DEF FlushBegins, FlushEnds, Pop, StoresOK, queueVars, logVars
  <2> QED
    BY <2>1, <2>2 DEF Flushes
<1> QED
  BY <1>2, <1>5, <1>7, <1>8, SameMail, SameBoot DEF FlushControl, Typed

LEMMA BootTypes ==
  ASSUME Typed,
         \/ \E t \in Tasks \cup Foreign : Recover(t) \/ RecoverFails(t)
         \/ Crash \/ Repair
  PROVE  Typed'
<1>1. ASSUME NEW t \in Tasks \cup Foreign, Recover(t) \/ RecoverFails(t)
      PROVE  Typed'
  <2>1. Interrupted(t) \in Entries
    BY EntryTypes
  <2>2. StoresOK'
    <3>1. CASE UNCHANGED <<queueVars, logVars, failures>>
      BY <3>1, StoreTypes DEF StoresOK, queueVars, logVars
    <3>2. CASE DeliveredTo(Interrupted(t)) \/ DeliveryRefused(Interrupted(t))
      BY <2>1, <3>2, DeliveryTypes
    <3>3. CASE QueueOk(Interrupted(t)) /\ UNCHANGED logVars /\ Fail(1)
      BY <2>1, <3>3, QueueTypes, StoreTypes, FailedTypes DEF StoresOK, logVars
    <3> QED
      BY <1>1, <3>1, <3>2, <3>3 DEF Recover, RecoverFails
  <2>3. /\ UNCHANGED <<pc, via, killed, routerVars, mailVars, lost, crashes>>
        /\ journal' \in {journal, [journal EXCEPT ![t] = "reaped"]}
        /\ todo' = todo \ {t}
    BY <1>1 DEF Recover, RecoverFails, taskVars
  <2>4. ControlOK' /\ BootOK'
    BY <2>3 DEF Typed, ControlOK, BootOK
  <2> QED
    BY <2>2, <2>3, <2>4, SameRouters, SameMail DEF Typed
<1>2. CASE Crash
  <2>1. BootOK'
    BY <1>2, BoundAssumption DEF Crash, Typed, BootOK, OnlyIn
  <2>2. ControlOK'
    <3>1. pc' \in [Actors -> Labels]
      BY <1>2, LabelFacts DEF Crash, Typed, ControlOK
    <3> QED
      BY <1>2, <3>1 DEF Crash, Typed, ControlOK, taskVars
  <2>3. RoutersOK'
    BY <1>2 DEF Crash, Typed, RoutersOK
  <2>4. StoresOK'
    BY <1>2, StoreTypes DEF Crash, StoresOK
  <2>5. MailOK'
    BY <1>2, CursorFacts DEF Crash, Typed, MailOK
  <2> QED
    BY <2>1, <2>2, <2>3, <2>4, <2>5 DEF Typed
<1>3. CASE Repair
  <2>1. StoresOK'
    BY <1>3, StoreTypes DEF Repair, StoresOK
  <2>2. ControlOK'
    BY <1>3 DEF Repair, Typed, ControlOK, taskVars
  <2> QED
    BY <1>3, <2>1, <2>2, SameRouters, SameMail, SameBoot DEF Repair, Typed
<1> QED
  BY <1>1, <1>2, <1>3

-----------------------------------------------------------------------------
(* What is stored stays stored *)

LEMMA ToSetFacts ==
  ASSUME NEW S, NEW q \in Seq(S)
  PROVE  /\ \A e \in S : ToSet(Append(q, e)) = ToSet(q) \cup {e}
         /\ q # <<>> => ToSet(q) = {Head(q)} \cup ToSet(Tail(q))
         /\ ToSet(q) \subseteq S /\ (ToSet(q) = {} <=> q = <<>>)
         /\ ToSet(<<>>) = {}
<1>1. ASSUME NEW e \in S
      PROVE  ToSet(Append(q, e)) = ToSet(q) \cup {e}
  <2>1. PICK p : p = Append(q, e)
    OBVIOUS
  <2>2. /\ DOMAIN p = 1 .. Len(q) + 1 /\ DOMAIN q = 1 .. Len(q) /\ Len(q) \in Nat
        /\ \A i \in 1 .. Len(q) : p[i] = q[i]
        /\ p[Len(q) + 1] = e
    BY <1>1, <2>1
  <2> QED
    BY <2>1, <2>2 DEF ToSet
<1>2. ASSUME q # <<>>
      PROVE  ToSet(q) = {Head(q)} \cup ToSet(Tail(q))
  <2>1. ASSUME NEW i \in DOMAIN q
        PROVE  q[i] = Head(q) \/ q[i] \in ToSet(Tail(q))
    <3>1. CASE i = 1
      BY <3>1
    <3>2. CASE i # 1
      <4>1. i - 1 \in DOMAIN Tail(q) /\ Tail(q)[i - 1] = q[i]
        BY <1>2, <2>1, <3>2
      <4> QED
        BY <4>1 DEF ToSet
    <3> QED
      BY <3>1, <3>2
  <2>2. ASSUME NEW i \in DOMAIN Tail(q)
        PROVE  Tail(q)[i] \in ToSet(q)
    <3>1. i + 1 \in DOMAIN q /\ Tail(q)[i] = q[i + 1]
      BY <1>2, <2>2
    <3> QED
      BY <3>1 DEF ToSet
  <2>3. Head(q) \in ToSet(q)
    BY <1>2 DEF ToSet
  <2> QED
    BY <2>1, <2>2, <2>3 DEF ToSet
<1>3. ToSet(q) \subseteq S /\ (ToSet(q) = {} <=> q = <<>>) /\ ToSet(<<>>) = {}
  BY DEF ToSet
<1> QED
  BY <1>1, <1>2, <1>3

LEMMA SessionGrows ==
  ASSUME Typed, NEW e \in Entries
  PROVE  /\ SessionOk(e) \/ SessionIndeterminate(e) => Said' = Said \cup {e}
         /\ SessionFails => Said' = Said /\ sblocked' = sblocked
<1>1. ToSet(Once(e)) = Said \cup {e}
  BY StoreTypes, ToSetFacts DEF Once, Said
<1> QED
  BY <1>1 DEF SessionOk, SessionIndeterminate, SessionFails, logVars, Said

LEMMA QueueGrows ==
  ASSUME Typed, NEW e \in Entries
  PROVE  /\ QueueOk(e) \/ QueueIndeterminate(e) =>
              Items(pend') = Items(pend) \cup {e} /\ pend'.inFlight = pend.inFlight
         /\ QueueRefuses(e) => pend' = pend
<1>1. pend.queued \in Seq(Entries) /\ pend \in Pending
  BY StoreTypes DEF Pending
<1>2. CASE e \in Items(pend)
  BY <1>2 DEF QueueOk, QueueIndeterminate, QueueRefuses, With, queueVars
<1>3. CASE e \notin Items(pend)
  <2>1. PICK q : q = Append(pend.queued, e)
    OBVIOUS
  <2>2. ToSet(q) = ToSet(pend.queued) \cup {e}
    BY <1>1, <2>1, ToSetFacts
  <2>3. With(e).queued = q /\ With(e).inFlight = pend.inFlight
    BY <1>1, <1>3, <2>1 DEF With, Pending
  <2>4. Items(With(e)) = Items(pend) \cup {e}
    BY <2>2, <2>3 DEF Items
  <2> QED
    BY <2>3, <2>4 DEF QueueOk, QueueIndeterminate, QueueRefuses, queueVars
<1> QED
  BY <1>2, <1>3

LEMMA ClaimKeeps ==
  ASSUME Typed, Items(pend) # {}
  PROVE  Items(Claimed(pend)) = Items(pend)
<1>1. CASE pend.inFlight # None
  BY <1>1 DEF Claimed
<1>2. CASE pend.inFlight = None
  <2>1. pend.queued \in Seq(Entries)
    BY StoreTypes DEF Pending
  <2>2. pend.queued # <<>>
    BY <1>2, <2>1 DEF Items, ToSet
  <2>3. /\ ToSet(pend.queued) = {Head(pend.queued)} \cup ToSet(Tail(pend.queued))
        /\ Head(pend.queued) \in Entries
    BY <2>1, <2>2, ToSetFacts
  <2>4. Head(pend.queued) # None
    BY <2>3, EntryTypes
  <2>5. /\ Claimed(pend).queued = Tail(pend.queued)
        /\ Claimed(pend).inFlight = Head(pend.queued)
    BY <1>2 DEF Claimed
  <2> QED
    BY <1>2, <2>3, <2>4, <2>5 DEF Items
<1> QED
  BY <1>1, <1>2

\* What no step but a crash takes back, and a crash neither.
Grown ==
  /\ Said \subseteq Said'
  /\ \A e \in Entries : Stored(e) => Stored(e)'
  /\ \A e \in Entries : Safe(e) => Safe(e)'

LEMMA StoresGrow ==
  ASSUME Said \subseteq Said',
         \A e \in Entries : e \in Items(pend) => e \in Items(pend') \/ e \in Said',
         \A e \in Entries : e \in Letters => e \in Letters' \/ e \in Said'
  PROVE  Grown
BY DEF Grown, Stored, Safe

\* A delivery is in the Session or in the queue.
LEMMA DeliveryGrows ==
  ASSUME Typed, NEW e \in Entries, DeliveredTo(e) \/ DeliveryRefused(e)
  PROVE  /\ Said \subseteq Said' /\ Items(pend) \subseteq Items(pend')
         /\ pend'.inFlight = pend.inFlight
         /\ DeliveredTo(e) => Stored(e)'
<1>1. CASE DeliveredTo(e)
  BY <1>1, SessionGrows, QueueGrows DEF DeliveredTo, logVars, Said, Stored
<1>2. CASE DeliveryRefused(e) /\ ~ DeliveredTo(e)
  BY <1>2, SessionGrows, QueueGrows DEF DeliveryRefused
<1> QED
  BY <1>1, <1>2

\* A write that failed is counted, or its store was blocked already.
LEMMA FailureCounts ==
  ASSUME Typed, Counted
  PROVE  /\ Fail(Cost(sblocked)) \/ Fail(Cost(qblocked) + Cost(sblocked)) => failures' > 0
         /\ \A n \in {Cost(sblocked), Cost(qblocked), Cost(mblocked),
                      Cost(qblocked) + Cost(sblocked), 1} :
              Fail(n) => failures' \in Nat /\ failures' >= failures
<1>1. failures \in Nat /\ sblocked \in BOOLEAN
  BY StoreTypes, BoundAssumption
<1> QED
  BY <1>1 DEF Fail, Cost, Counted

\* What every step leaves true of the stores and of the counts.
Steady ==
  /\ Grown /\ Counted'
  /\ lost \subseteq lost' /\ (failures > 0 => failures' > 0)
  /\ \A t \in Tasks : killed'[t] = "no" => killed[t] = "no"

\* A step that writes no store.
LEMMA IdleIsSteady ==
  ASSUME Typed, Counted, UNCHANGED <<logVars, pend, mail, failures, lost>>,
         \A t \in Tasks : killed'[t] = "no" => killed[t] = "no"
  PROVE  Steady
BY StoresGrow DEF Steady, logVars, Said, Letters, Counted

\* A step that writes the Session or the queue, and counts what failed.
LEMMA WriteIsSteady ==
  ASSUME Typed, Counted, UNCHANGED <<mail, lost, killed>>,
         Said \subseteq Said',
         \A e \in Entries : e \in Items(pend) => e \in Items(pend') \/ e \in Said',
         sblocked' => sblocked \/ failures' > 0,
         failures' \in Nat /\ failures' >= failures
  PROVE  Steady
<1>1. Grown
  BY StoresGrow DEF Letters
<1>2. failures > 0 => failures' > 0
  BY StoreTypes, BoundAssumption
<1> QED
  BY <1>1, <1>2 DEF Steady, Counted

LEMMA StartIsSteady ==
  ASSUME Typed, Counted, NEW r \in Runs, StartDirect(r) \/ StartQueued(r)
  PROVE  Steady
<1>1. /\ UNCHANGED <<logVars, mail, failures, killed>> /\ lost \subseteq lost'
      /\ Items(pend') = Items(pend)
  BY ClaimKeeps
  DEF StartDirect, StartQueued, Start, queueVars, mailVars, taskVars
<1>2. Grown
  BY <1>1, StoresGrow DEF logVars, Said, Letters
<1> QED
  BY <1>1, <1>2 DEF Steady, Counted, logVars

LEMMA CommitIsSteady ==
  ASSUME Typed, Counted, InHand, NEW r \in Runs, Commit(r) \/ CommitFails(r)
  PROVE  Steady
<1>1. PICK e \in Entries : e = pend.inFlight
  BY DEF Commit, CommitFails, InHand
<1>2. Said \subseteq Said'
  BY <1>1, SessionGrows DEF Commit, CommitFails
<1>3. ASSUME NEW f \in Entries, f \in Items(pend)
      PROVE  f \in Items(pend') \/ f \in Said'
  <2>1. CASE Commit(r)
    <3>1. pend'.queued = pend.queued /\ e \in Said'
      BY <1>1, <2>1, StoreTypes, SessionGrows DEF Commit, Pending
    <3> QED
      BY <1>1, <1>3, <3>1 DEF Items
  <2>2. CASE CommitFails(r)
    BY <1>3, <2>2 DEF CommitFails, queueVars
  <2> QED
    BY <2>1, <2>2
<1>4. UNCHANGED <<mail, lost, killed>>
  BY DEF Commit, CommitFails, mailVars, bootVars, taskVars
<1>5. failures' \in Nat /\ failures' >= failures /\ (sblocked' => sblocked \/ failures' > 0)
  <2>1. CASE UNCHANGED failures /\ SessionOk(e)
    BY <2>1, StoreTypes, BoundAssumption DEF SessionOk
  <2>2. CASE SessionOk(e) /\ Fail(Cost(qblocked))
    BY <2>2, FailureCounts DEF SessionOk
  <2>3. CASE Fail(Cost(sblocked))
    BY <2>3, FailureCounts
  <2> QED
    BY <1>1, <2>1, <2>2, <2>3 DEF Commit, CommitFails
<1> QED
  BY <1>2, <1>3, <1>4, <1>5, WriteIsSteady

LEMMA InboxIsSteady ==
  ASSUME Typed, Counted, LettersSaved, NEW r \in Runs,
         \/ ClaimInbox(r) \/ ClaimInboxFails(r)
         \/ SaveLetter(r) \/ LettersOver(r)
         \/ AckInbox(r) \/ AckInboxFails(r)
  PROVE  Steady
<1>1. UNCHANGED <<pend, lost, killed>>
  BY DEF ClaimInbox, ClaimInboxFails, SaveLetter, LettersOver, AckInbox, AckInboxFails,
         queueVars, bootVars, taskVars
<1>2. CASE SaveLetter(r)
  <2>1. PICK e : e = mail.inFlight[saving.next]
    OBVIOUS
  <2>2. e \in Entries
    <3>1. mail.inFlight \in Seq(Entries) /\ saving.next \in Nat \ {0}
      BY MailFacts, CursorFacts DEF Typed, MailOK
    <3> QED
      BY <1>2, <2>1, <3>1 DEF SaveLetter
  <2>3. /\ SessionOk(e) \/ SessionFails \/ SessionIndeterminate(e)
        /\ (SessionOk(e) /\ UNCHANGED failures) \/ Fail(Cost(sblocked))
        /\ mail' = mail
    BY <1>2, <2>1 DEF SaveLetter
  <2>4. Said \subseteq Said'
    BY <2>2, <2>3, SessionGrows
  <2>5. failures' \in Nat /\ failures' >= failures /\ (sblocked' => sblocked \/ failures' > 0)
    BY <2>3, FailureCounts, StoreTypes, BoundAssumption DEF SessionOk
  <2> QED
    BY <1>1, <2>3, <2>4, <2>5, WriteIsSteady
<1>3. CASE ~ SaveLetter(r)
  <2>1. UNCHANGED logVars /\ failures' \in Nat /\ failures' >= failures
    BY <1>3, FailureCounts, StoreTypes, BoundAssumption
    DEF ClaimInbox, ClaimInboxFails, LettersOver, AckInbox, AckInboxFails
  <2>2. mail \in MailBox /\ \A m : m = [queued |-> <<>>, inFlight |-> mail.queued] =>
          m.queued = <<>> /\ m.inFlight = mail.queued
    BY DEF Typed, MailOK
  <2>3. \A m : m = [mail EXCEPT !.inFlight = <<>>] =>
          m.queued = mail.queued /\ m.inFlight = <<>>
    BY <2>2 DEF MailBox
  <2>4. ASSUME NEW e \in Entries, e \in Letters
        PROVE  e \in Letters' \/ e \in Said'
    <3>1. CASE mail' = mail
      BY <2>4, <3>1 DEF Letters
    <3>2. CASE mail.inFlight = <<>> /\ mail' = [queued |-> <<>>, inFlight |-> mail.queued]
      BY <2>2, <2>4, <3>2, ToSetFacts DEF Letters
    <3>3. CASE ToSet(mail.inFlight) \subseteq Said /\ mail' = [mail EXCEPT !.inFlight = <<>>]
      BY <2>1, <2>3, <2>4, <3>3 DEF Letters, Said, logVars
    <3>4. mail' = mail \/ pc[r] = "inbox" \/ pc[r] = "ack"
      BY <1>3 DEF ClaimInbox, ClaimInboxFails, LettersOver, AckInbox, AckInboxFails
    <3>5. pc[r] = "ack" => ToSet(mail.inFlight) \subseteq Said
      BY DEF LettersSaved
    <3> QED
      BY <1>3, <3>1, <3>2, <3>3, <3>5
      DEF ClaimInbox, ClaimInboxFails, LettersOver, AckInbox, AckInboxFails, mailVars
  <2>5. Grown
    BY <1>1, <2>1, <2>4, StoresGrow DEF logVars, Said
  <2> QED
    BY <1>1, <2>1, <2>5, StoreTypes, BoundAssumption DEF Steady, Counted, logVars
<1> QED
  BY <1>2, <1>3

LEMMA TurnIsSteady ==
  ASSUME Typed, Counted, NEW r \in Runs, Drain(r) \/ DrainFails(r) \/ Close(r) \/ Finish(r)
  PROVE  Steady
<1>1. UNCHANGED <<pend, mail, lost, killed>>
  BY DEF Drain, DrainFails, Close, Finish, queueVars, mailVars, bootVars, taskVars
<1>2. CASE UNCHANGED <<logVars, failures>>
  BY <1>1, <1>2, IdleIsSteady
<1>3. CASE ~ UNCHANGED <<logVars, failures>>
  <2>1. /\ pc[r] = "active" /\ rq[r] # <<>>
        /\ \/ SessionOk(Notice(Head(rq[r]).who)) /\ UNCHANGED failures
           \/ /\ SessionFails \/ SessionIndeterminate(Notice(Head(rq[r]).who))
              /\ Fail(Cost(sblocked))
    BY <1>3 DEF Drain, DrainFails, Close, Finish
  <2>2. PICK e \in Entries : e = Notice(Head(rq[r]).who)
    BY <2>1, WaitFacts DEF Typed, RoutersOK
  <2>3. Said \subseteq Said'
    BY <2>1, <2>2, SessionGrows
  <2>4. failures' \in Nat /\ failures' >= failures /\ (sblocked' => sblocked \/ failures' > 0)
    BY <2>1, FailureCounts, StoreTypes, BoundAssumption DEF SessionOk
  <2> QED
    BY <1>1, <2>3, <2>4, WriteIsSteady
<1> QED
  BY <1>2, <1>3

LEMMA TaskIsSteady ==
  ASSUME Typed, Counted, NEW t \in Tasks,
         TaskGoesOn(t) \/ Kill(t) \/ Exit(t) \/ \E r \in Runs : Spawn(t, r)
  PROVE  Steady
<1>1. UNCHANGED <<logVars, pend, mail, lost>>
  BY DEF TaskGoesOn, WriteKilled, WriteExit, Watch, Kill, Exit, Spawn, queueVars, mailVars,
         bootVars
<1>2. failures' \in Nat /\ failures' >= failures
  BY FailureCounts, StoreTypes, BoundAssumption
  DEF TaskGoesOn, WriteKilled, WriteExit, Watch, Kill, Exit, Spawn
<1>3. \A u \in Tasks : killed'[u] = "no" => killed[u] = "no"
  BY DEF TaskGoesOn, WriteKilled, WriteExit, Watch, Kill, Exit, Spawn, Typed, ControlOK,
         taskVars
<1>4. Grown
  BY <1>1, StoresGrow DEF logVars, Said, Letters
<1> QED
  BY <1>1, <1>2, <1>3, <1>4, StoreTypes, BoundAssumption DEF Steady, Counted, logVars

LEMMA ReportIsSteady ==
  ASSUME Typed, Counted, NEW s \in Reports, Report(s) \/ ReportGoesOn(s)
  PROVE  Steady
<1>1. UNCHANGED <<logVars, lost, killed>> /\ Notice(s) \in Entries /\ Letter(s) \in Entries
  BY ActorFacts, EntryTypes
  DEF Report, ReportGoesOn, Enqueue, EnqueueFails, WriteLetter, WriteLetterFails, bootVars,
      taskVars
<1>2. failures' \in Nat /\ failures' >= failures
  BY FailureCounts, StoreTypes, BoundAssumption
  DEF Report, ReportGoesOn, Enqueue, EnqueueFails, WriteLetter, WriteLetterFails
<1>3. Items(pend) \subseteq Items(pend')
  BY <1>1, QueueGrows
  DEF Report, ReportGoesOn, Enqueue, EnqueueFails, WriteLetter, WriteLetterFails, queueVars
<1>4. Letters \subseteq Letters'
  <2>1. CASE mail' = mail
    BY <2>1 DEF Letters
  <2>2. CASE mail' = [mail EXCEPT !.queued = Append(@, Letter(s))]
    <3>1. PICK q : q = Append(mail.queued, Letter(s))
      OBVIOUS
    <3>2. mail \in MailBox /\ mail.queued \in Seq(Entries)
      BY MailFacts DEF Typed, MailOK
    <3>3. ToSet(mail.queued) \subseteq ToSet(q)
      BY <1>1, <3>1, <3>2, ToSetFacts
    <3>4. mail'.queued = q /\ mail'.inFlight = mail.inFlight
      BY <2>2, <3>1, <3>2 DEF MailBox
    <3> QED
      BY <3>3, <3>4 DEF Letters
  <2> QED
    BY <2>1, <2>2
    DEF Report, ReportGoesOn, Enqueue, EnqueueFails, WriteLetter, WriteLetterFails, mailVars
<1>5. Grown
  BY <1>1, <1>3, <1>4, StoresGrow DEF logVars, Said
<1> QED
  BY <1>1, <1>2, <1>5, StoreTypes, BoundAssumption DEF Steady, Counted, logVars

LEMMA NotifyIsSteady ==
  ASSUME Typed, Counted, NEW s \in Senders, Notifies(s)
  PROVE  Steady
<1>1. UNCHANGED <<pend, mail, lost, killed>> /\ Notice(s) \in Entries
  BY EntryTypes
  DEF Notifies, NotifyLate, NotifyActive, Recheck, queueVars, mailVars, bootVars, taskVars
<1>2. Said \subseteq Said'
  BY <1>1, SessionGrows DEF Notifies, NotifyLate, NotifyActive, Recheck, Said, logVars
<1>3. failures' \in Nat /\ failures' >= failures /\ (sblocked' => sblocked \/ failures' > 0)
  <2>1. CASE UNCHANGED failures /\ UNCHANGED sblocked
    BY <2>1, StoreTypes, BoundAssumption
  <2>2. CASE Fail(Cost(sblocked))
    BY <2>2, FailureCounts
  <2> QED
    BY <2>1, <2>2 DEF Notifies, NotifyLate, NotifyActive, Recheck, SessionOk, logVars
<1> QED
  BY <1>1, <1>2, <1>3, WriteIsSteady

\* A delivery, of a notice or of the report of recovery.
LEMMA DeliveryIsSteady ==
  ASSUME Typed, Counted, NEW e \in Entries, DeliveredTo(e) \/ DeliveryRefused(e),
         UNCHANGED <<mail, lost, killed>>
  PROVE  Steady
<1>1. Said \subseteq Said' /\ Items(pend) \subseteq Items(pend')
  BY DeliveryGrows
<1>2. failures' \in Nat /\ failures' >= failures /\ (sblocked' => sblocked \/ failures' > 0)
  BY FailureCounts, StoreTypes, BoundAssumption
  DEF DeliveredTo, DeliveryRefused, SessionOk, logVars
<1> QED
  BY <1>1, <1>2, WriteIsSteady

LEMMA FlushIsSteady ==
  ASSUME Typed, Counted, Routed, NEW a \in Actors, Flushes(a)
  PROVE  Steady
<1>1. UNCHANGED <<mail, lost, killed>>
  BY DEF Flushes, FlushBegins, FlushEnds, Deliver, Pop, Refuse, mailVars, bootVars, taskVars
<1>2. CASE FlushBegins(a) \/ FlushEnds(a) \/ Pop(a)
  BY <1>1, <1>2, IdleIsSteady DEF FlushBegins, FlushEnds, Pop, queueVars
<1>3. CASE Deliver(a) \/ Refuse(a)
  <2>1. PICK e \in Entries : DeliveredTo(e) \/ DeliveryRefused(e)
    BY <1>3, FlusherHasRouter DEF Deliver, Refuse
  <2> QED
    BY <1>1, <2>1, DeliveryIsSteady
<1> QED
  BY <1>2, <1>3 DEF Flushes

LEMMA RecoverIsSteady ==
  ASSUME Typed, Counted, NEW t \in Tasks \cup Foreign, Recover(t) \/ RecoverFails(t)
  PROVE  Steady
<1>1. UNCHANGED <<mail, lost, killed>> /\ Interrupted(t) \in Entries
  BY EntryTypes DEF Recover, RecoverFails, mailVars, taskVars
<1>2. CASE UNCHANGED <<queueVars, logVars, failures>>
  BY <1>1, <1>2, IdleIsSteady DEF queueVars
<1>3. CASE DeliveredTo(Interrupted(t)) \/ DeliveryRefused(Interrupted(t))
  BY <1>1, <1>3, DeliveryIsSteady
<1>4. CASE QueueOk(Interrupted(t)) /\ UNCHANGED logVars /\ Fail(1)
  <2>1. Items(pend) \subseteq Items(pend') /\ Said' = Said
    BY <1>1, <1>4, QueueGrows DEF logVars, Said
  <2>2. failures' \in Nat /\ failures' >= failures /\ (sblocked' => sblocked \/ failures' > 0)
    BY <1>4, FailureCounts DEF logVars
  <2> QED
    BY <1>1, <2>1, <2>2, WriteIsSteady
<1> QED
  BY <1>2, <1>3, <1>4 DEF Recover, RecoverFails

LEMMA BootIsSteady ==
  ASSUME Typed, Counted, Crash \/ Repair
  PROVE  Steady
<1>1. UNCHANGED <<log, pend, mail, failures, killed>> /\ lost \subseteq lost' /\ ~ sblocked'
  BY DEF Crash, Repair, mailVars, bootVars, taskVars
<1>2. Grown
  BY <1>1, StoresGrow DEF Said, Letters
<1> QED
  BY <1>1, <1>2 DEF Steady, Counted

-----------------------------------------------------------------------------
(* One actor moves *)

Moves(a) ==
  /\ \A b \in Actors : b # a => pc'[b] = pc[b]
  /\ \A s \in Senders : s # a => via'[s] = via[s]

LEMMA GotoMoves ==
  ASSUME Typed, NEW a, NEW label,
         UNCHANGED pc \/ Goto(a, label),
         UNCHANGED via \/ \E x : via' = [via EXCEPT ![a] = x]
  PROVE  Moves(a)
BY DEF Moves, Goto, Typed, ControlOK

LEMMA RunMoves ==
  ASSUME Typed, NEW r \in Runs, RunGoesOn(r) \/ RunElse(r)
  PROVE  Moves(r) /\ UNCHANGED via
<1>1. UNCHANGED via
  BY DEF RunGoesOn, RunElse, StartQueued, StartDirect, Start, Commit, ClaimInbox, SaveLetter,
         LettersOver, AckInbox, Close, Finish, Drain, CommitFails, ClaimInboxFails,
         AckInboxFails, DrainFails
<1>2. UNCHANGED pc \/ \E label : Goto(r, label)
  BY DEF RunGoesOn, RunElse, StartQueued, StartDirect, Start, Commit, ClaimInbox, SaveLetter,
         LettersOver, AckInbox, Close, Finish, Drain, CommitFails, ClaimInboxFails,
         AckInboxFails, DrainFails
<1> QED
  BY <1>1, <1>2, GotoMoves

LEMMA TaskMoves ==
  ASSUME Typed, NEW t \in Tasks,
         TaskGoesOn(t) \/ Kill(t) \/ Exit(t) \/ \E r \in Runs : Spawn(t, r)
  PROVE  Moves(t)
<1>1. UNCHANGED pc \/ \E label : Goto(t, label)
  BY DEF TaskGoesOn, WriteKilled, WriteExit, Watch, Kill, Exit, Spawn
<1>2. UNCHANGED via \/ \E x : via' = [via EXCEPT ![t] = x]
  BY DEF TaskGoesOn, WriteKilled, WriteExit, Watch, Kill, Exit, Spawn
<1> QED
  BY <1>1, <1>2, GotoMoves

LEMMA ReportMoves ==
  ASSUME Typed, NEW s \in Reports, Report(s) \/ ReportGoesOn(s)
  PROVE  Moves(s)
<1>1. \E label : Goto(s, label)
  BY DEF Report, ReportGoesOn, Enqueue, EnqueueFails, WriteLetter, WriteLetterFails
<1>2. UNCHANGED via \/ \E x : via' = [via EXCEPT ![s] = x]
  BY DEF Report, ReportGoesOn, Enqueue, EnqueueFails, WriteLetter, WriteLetterFails
<1> QED
  BY <1>1, <1>2, GotoMoves

LEMMA NotifyMoves ==
  ASSUME Typed, NEW s \in Senders, Notifies(s)
  PROVE  Moves(s)
<1>1. \E label : Goto(s, label)
  BY DEF Notifies, NotifyLate, NotifyActive, Recheck
<1>2. UNCHANGED via \/ \E x : via' = [via EXCEPT ![s] = x]
  BY DEF Notifies, NotifyLate, NotifyActive, Recheck
<1> QED
  BY <1>1, <1>2, GotoMoves

LEMMA FlushMoves ==
  ASSUME Typed, NEW a \in Actors, Flushes(a)
  PROVE  Moves(a)
BY FlushIsControlled, GotoMoves DEF FlushControl

-----------------------------------------------------------------------------
(* One run works at a time *)

RunsOK == OneWorks /\ InHand /\ LettersSaved

\* While a run works, the others have nothing in hand.
LEMMA WorkerIsAlone ==
  ASSUME OneWorks, NEW r \in Runs, Working(r), Moves(r)
  PROVE  /\ \A q \in Runs : q # r => pc[q] = "idle" /\ pc'[q] = "idle"
         /\ OneWorks'
BY ActorFacts DEF OneWorks, Working, Moves

LEMMA OthersKeepRuns ==
  ASSUME RunsOK, NEW a, a \notin Runs, Moves(a), Said \subseteq Said',
         pend'.inFlight = pend.inFlight, mail'.inFlight = mail.inFlight,
         UNCHANGED saving
  PROVE  RunsOK'
<1>1. \A r \in Runs : pc'[r] = pc[r]
  BY ActorFacts DEF Moves
<1>2. OneWorks' /\ InHand'
  BY <1>1 DEF RunsOK, OneWorks, InHand, Working
<1>3. LettersSaved'
  BY <1>1 DEF RunsOK, LettersSaved
<1> QED
  BY <1>2, <1>3 DEF RunsOK

\* The run at work leaves a label where it has a delivery or letters in hand.
LEMMA WorkerKeepsRuns ==
  ASSUME RunsOK, NEW r \in Runs, Working(r), Moves(r),
         pc'[r] \notin {"commit", "letters", "ack"},
         saving' = FirstLetter \/ (pc[r] # "letters" /\ saving' = saving)
  PROVE  RunsOK'
<1>1. /\ \A q \in Runs : q # r => pc[q] = "idle" /\ pc'[q] = "idle"
      /\ OneWorks'
  BY WorkerIsAlone DEF RunsOK
<1>2. InHand'
  BY <1>1 DEF InHand
<1>3. saving' = FirstLetter
  BY <1>1 DEF RunsOK, LettersSaved
<1>4. LettersSaved'
  BY <1>1, <1>3 DEF LettersSaved
<1> QED
  BY <1>1, <1>2, <1>4 DEF RunsOK

LEMMA StartKeepsRuns ==
  ASSUME Typed, RunsOK, NEW r \in Runs, StartDirect(r) \/ StartQueued(r)
  PROVE  RunsOK'
<1>1. Moves(r)
  BY RunMoves DEF RunGoesOn, RunElse
<1>2. /\ \A q \in Runs : pc[q] = "idle"
      /\ pc'[r] \in {"inbox", "commit"} /\ saving' = saving
  BY ActorFacts
  DEF StartDirect, StartQueued, Start, NobodyWorks, Working, Goto, Typed, ControlOK, mailVars
<1>3. \A q \in Runs : q # r => pc'[q] = "idle"
  BY <1>1, <1>2, ActorFacts DEF Moves
<1>4. OneWorks'
  BY <1>3 DEF OneWorks, Working
<1>5. LettersSaved'
  BY <1>2, <1>3 DEF RunsOK, LettersSaved
<1>6. InHand'
  <2>1. CASE StartDirect(r)
    <3>1. pc'[r] = "inbox"
      BY <2>1, ActorFacts DEF StartDirect, Start, Goto, Typed, ControlOK
    <3> QED
      BY <1>3, <3>1 DEF InHand
  <2>2. CASE StartQueued(r)
    <3>1. pend'.inFlight \in Entries
      BY <2>2, StoreTypes, ClaimedType DEF StartQueued
    <3> QED
      BY <3>1 DEF InHand
  <2> QED
    BY <2>1, <2>2
<1> QED
  BY <1>4, <1>5, <1>6 DEF RunsOK

LEMMA InboxKeepsRuns ==
  ASSUME Typed, RunsOK, NEW r \in Runs,
         \/ ClaimInbox(r) \/ ClaimInboxFails(r)
         \/ SaveLetter(r) \/ LettersOver(r)
         \/ AckInbox(r) \/ AckInboxFails(r)
  PROVE  RunsOK'
<1>1. Moves(r) /\ r \in Actors
  BY RunMoves, ActorFacts DEF RunGoesOn, RunElse
<1>2. Working(r)
  BY DEF ClaimInbox, ClaimInboxFails, SaveLetter, LettersOver, AckInbox, AckInboxFails, Working
<1>3. /\ \A q \in Runs : q # r => pc[q] = "idle" /\ pc'[q] = "idle"
      /\ OneWorks'
  BY <1>1, <1>2, WorkerIsAlone DEF RunsOK
<1>4. pc'[r] # "commit"
  BY <1>1
  DEF ClaimInbox, ClaimInboxFails, SaveLetter, LettersOver, AckInbox, AckInboxFails, Goto,
      Typed, ControlOK
<1>5. InHand'
  BY <1>3, <1>4 DEF InHand
<1>6. pc[r] # "letters" => saving = FirstLetter
  BY <1>3 DEF RunsOK, LettersSaved
<1>7. CASE ClaimInboxFails(r) \/ AckInbox(r) \/ AckInboxFails(r)
  <2>1. pc'[r] \in {"idle", "active"} /\ pc[r] # "letters" /\ saving' = saving
    BY <1>1, <1>7 DEF ClaimInboxFails, AckInbox, AckInboxFails, Goto, Typed, ControlOK, mailVars
  <2> QED
    BY <1>1, <1>2, <2>1, WorkerKeepsRuns
<1>8. CASE ClaimInbox(r)
  <2>1. pc'[r] = "letters" /\ saving' = FirstLetter
    BY <1>1, <1>6, <1>8 DEF ClaimInbox, Goto, Typed, ControlOK
  <2>2. saving'.next = 1 /\ mail' \in MailBox
    BY <2>1, InboxTypes DEF FirstLetter, Typed, MailOK
  <2>3. \A i \in DOMAIN mail'.inFlight : ~ (i < saving'.next)
    <3>1. PICK m \in MailBox : m = mail'
      BY <2>2
    <3>2. m.inFlight \in Seq(Entries)
      BY MailFacts
    <3>3. \A i \in DOMAIN m.inFlight : i \in Nat /\ i >= 1
      BY <3>2
    <3> QED
      BY <2>2, <3>1, <3>3
  <2> QED
    BY <1>3, <1>5, <2>1, <2>3 DEF RunsOK, LettersSaved
<1>9. CASE LettersOver(r)
  <2>1. /\ saving' = FirstLetter /\ mail' = mail /\ Said' = Said
        /\ pc'[r] = IF saving.failed THEN "idle" ELSE "ack"
    BY <1>1, <1>9 DEF LettersOver, Goto, Typed, ControlOK, logVars, Said
  <2>2. ~ saving.failed => ToSet(mail.inFlight) \subseteq Said
    <3>1. mail.inFlight \in Seq(Entries) /\ saving.next \in Nat
      BY MailFacts, CursorFacts DEF Typed, MailOK
    <3>2. \A i \in DOMAIN mail.inFlight : i < saving.next
      BY <1>9, <3>1 DEF LettersOver
    <3> QED
      BY <1>9, <3>2 DEF LettersOver, RunsOK, LettersSaved, ToSet
  <2> QED
    BY <1>3, <1>5, <2>1, <2>2 DEF RunsOK, LettersSaved
<1>10. CASE SaveLetter(r)
  <2>1. PICK e : e = mail.inFlight[saving.next]
    OBVIOUS
  <2>2. /\ mail \in MailBox /\ mail.inFlight \in Seq(Entries)
        /\ saving \in Cursor /\ saving.next \in Nat \ {0}
    BY MailFacts, CursorFacts DEF Typed, MailOK
  <2>3. e \in Entries /\ pc[r] = "letters" /\ pc' = pc /\ mail' = mail
    BY <1>10, <2>1, <2>2 DEF SaveLetter
  <2>4. \/ SessionOk(e) /\ saving' = [saving EXCEPT !.next = @ + 1]
        \/ /\ SessionFails \/ SessionIndeterminate(e)
           /\ saving' = [next |-> saving.next + 1, failed |-> TRUE]
    BY <1>10, <2>1 DEF SaveLetter
  <2>5. Said \subseteq Said' /\ (SessionOk(e) => e \in Said')
    BY <2>3, <2>4, SessionGrows
  <2>6. ~ saving'.failed =>
          SessionOk(e) /\ ~ saving.failed /\ saving'.next = saving.next + 1
    BY <2>2, <2>4 DEF Cursor
  <2>7. ~ saving'.failed =>
          \A i \in DOMAIN mail'.inFlight : i < saving'.next => mail'.inFlight[i] \in Said'
    <3>1. SUFFICES ASSUME ~ saving'.failed, NEW i \in DOMAIN mail.inFlight, i < saving'.next
                   PROVE  mail.inFlight[i] \in Said'
      BY <2>3
    <3>2. i \in Nat /\ (i < saving.next \/ i = saving.next)
      BY <2>2, <2>6, <3>1
    <3>3. i < saving.next => mail.inFlight[i] \in Said
      BY <2>3, <2>6, <3>1 DEF RunsOK, LettersSaved
    <3> QED
      BY <2>1, <2>5, <2>6, <3>1, <3>2, <3>3
  <2> QED
    BY <1>3, <1>5, <2>3, <2>7 DEF RunsOK, LettersSaved
<1> QED
  BY <1>7, <1>8, <1>9, <1>10

LEMMA WorkKeepsRuns ==
  ASSUME Typed, RunsOK, NEW r \in Runs,
         \/ Commit(r) \/ CommitFails(r) \/ Drain(r) \/ DrainFails(r)
         \/ Close(r) \/ Finish(r) \/ Flushes(r)
  PROVE  RunsOK'
<1>1. Moves(r) /\ r \in Actors
  BY RunMoves, FlushMoves, ActorFacts DEF RunGoesOn, RunElse
<1>2. /\ pc[r] \in {"commit", "active", "flush", "front", "pop", "unregister"}
      /\ saving' = saving
  BY DEF Commit, CommitFails, Drain, DrainFails, Close, Finish, Flushes, FlushBegins, FlushEnds,
         Deliver, Pop, Refuse, mailVars
<1>3. pc'[r] \notin {"commit", "letters", "ack"}
  <2>1. CASE ~ Flushes(r)
    BY <1>1, <2>1
    DEF Commit, CommitFails, Drain, DrainFails, Close, Finish, Goto, Typed, ControlOK
  <2>2. CASE Flushes(r)
    BY <1>1, <2>2
    DEF Flushes, FlushBegins, FlushEnds, Deliver, Pop, Refuse, FlushOver, Goto, Typed, ControlOK
  <2> QED
    BY <2>1, <2>2
<1> QED
  BY <1>1, <1>2, <1>3, WorkerKeepsRuns DEF Working

LEMMA SendersKeepRuns ==
  ASSUME Typed, RunsOK, Routed, NEW s \in Senders, Said \subseteq Said',
         \/ s \in Tasks /\ (TaskGoesOn(s) \/ Kill(s) \/ Exit(s) \/ \E r \in Runs : Spawn(s, r))
         \/ s \in Reports /\ (Report(s) \/ ReportGoesOn(s))
         \/ Notifies(s) \/ Flushes(s)
  PROVE  RunsOK'
<1>1. Moves(s) /\ s \notin Runs /\ s \in Actors
  BY TaskMoves, ReportMoves, NotifyMoves, FlushMoves, ActorFacts
<1>2. UNCHANGED <<pend, mail, saving>> => RunsOK'
  BY <1>1, OthersKeepRuns
<1>3. CASE s \in Tasks /\ (TaskGoesOn(s) \/ Kill(s) \/ Exit(s) \/ \E r \in Runs : Spawn(s, r))
  BY <1>2, <1>3
  DEF TaskGoesOn, WriteKilled, WriteExit, Watch, Kill, Exit, Spawn, queueVars, mailVars
<1>4. CASE s \in Reports /\ (Report(s) \/ ReportGoesOn(s))
  <2>1. saving' = saving
    BY <1>4 DEF Report, ReportGoesOn, Enqueue, EnqueueFails, WriteLetter, WriteLetterFails,
                mailVars
  <2>2. pend'.inFlight = pend.inFlight
    BY <1>4, EntryTypes, QueueGrows
    DEF Report, ReportGoesOn, Enqueue, EnqueueFails, WriteLetter, WriteLetterFails, queueVars
  <2>3. mail'.inFlight = mail.inFlight
    <3>1. mail' = mail \/ mail' = [mail EXCEPT !.queued = Append(@, Letter(s))]
      BY <1>4 DEF Report, ReportGoesOn, Enqueue, EnqueueFails, WriteLetter, WriteLetterFails,
                  mailVars
    <3> QED
      BY <3>1 DEF Typed, MailOK, MailBox
  <2> QED
    BY <1>1, <2>1, <2>2, <2>3, OthersKeepRuns
<1>5. CASE Notifies(s)
  BY <1>2, <1>5 DEF Notifies, NotifyLate, NotifyActive, Recheck, queueVars, mailVars
<1>6. CASE Flushes(s)
  <2>1. saving' = saving /\ mail' = mail
    BY <1>6 DEF Flushes, FlushBegins, FlushEnds, Deliver, Pop, Refuse, mailVars
  <2>2. pend'.inFlight = pend.inFlight
    <3>1. CASE Deliver(s) \/ Refuse(s)
      <4>1. PICK e \in Entries : DeliveredTo(e) \/ DeliveryRefused(e)
        BY <1>1, <3>1, FlusherHasRouter DEF Deliver, Refuse
      <4> QED
        BY <4>1, DeliveryGrows
    <3>2. CASE FlushBegins(s) \/ FlushEnds(s) \/ Pop(s)
      BY <3>2 DEF FlushBegins, FlushEnds, Pop, queueVars
    <3> QED
      BY <1>6, <3>1, <3>2 DEF Flushes
  <2> QED
    BY <1>1, <2>1, <2>2, OthersKeepRuns
<1> QED
  BY <1>3, <1>4, <1>5, <1>6

LEMMA BootKeepsRuns ==
  ASSUME Typed, RunsOK, Said \subseteq Said',
         \/ \E t \in Tasks \cup Foreign : Recover(t) \/ RecoverFails(t)
         \/ Crash \/ Repair
  PROVE  RunsOK'
<1>1. ASSUME UNCHANGED <<pc, via, mail, saving>>, pend'.inFlight = pend.inFlight
      PROVE  RunsOK'
  BY <1>1, ActorFacts, OthersKeepRuns DEF Moves
<1>2. ASSUME NEW t \in Tasks \cup Foreign, Recover(t) \/ RecoverFails(t)
      PROVE  RunsOK'
  <2>1. UNCHANGED <<pc, via, mail, saving>> /\ Interrupted(t) \in Entries
    BY <1>2, EntryTypes DEF Recover, RecoverFails, mailVars
  <2>2. pend'.inFlight = pend.inFlight
    BY <1>2, <2>1, DeliveryGrows, QueueGrows DEF Recover, RecoverFails, queueVars
  <2> QED
    BY <1>1, <2>1, <2>2
<1>3. CASE Crash
  <2>1. (\A r \in Runs : pc'[r] = "idle") /\ saving' = FirstLetter
    BY <1>3, ActorFacts DEF Crash
  <2> QED
    BY <2>1 DEF RunsOK, OneWorks, InHand, LettersSaved, Working
<1>4. CASE Repair
  BY <1>1, <1>4 DEF Repair, mailVars
<1> QED
  BY <1>2, <1>3, <1>4

-----------------------------------------------------------------------------
(* Who flushes a router holds it *)

Flushing == {"flush", "front", "pop"}

LEMMA FineIsRouted == ASSUME AllFine PROVE Routed
BY ActorFacts DEF AllFine, Fine, Routed, Router

\* What the step of a leaves to the others.
Spares(a) ==
  /\ \A r \in Runs : r # a => (r \in closed' <=> r \in closed)
  /\ \A b \in Actors : b # a =>
       /\ pc[b] \in Flushing => Router(b) \in closed'
       /\ pc[b] \in {"front", "pop"} => holder'[Router(b)] = b
       /\ pc[b] = "pop" =>
            rq'[Router(b)] # <<>> /\ Head(rq'[Router(b)]).who = Head(rq[Router(b)]).who

LEMMA OthersAreFine ==
  ASSUME Typed, AllFine, NEW a, Moves(a), Spares(a), Steady
  PROVE  \A b \in Actors : b # a => Fine(b)'
<1>1. SUFFICES ASSUME NEW b \in Actors, b # a
               PROVE  Fine(b)'
  OBVIOUS
<1>2. /\ Fine(b) /\ pc'[b] = pc[b]
      /\ b \in Senders => via'[b] = via[b]
  BY <1>1 DEF AllFine, Moves
<1>3. Router(b)' = Router(b)
  BY <1>1, <1>2, ActorFacts DEF Router
<1>4. pc[b] \in Flushing => Router(b) \in Runs
  BY <1>1, <1>2, ActorFacts DEF Fine, Router, Flushing
<1>5. pc'[b] \in Flushing => Router(b)' \in closed'
  BY <1>1, <1>2, <1>3 DEF Spares
<1>6. b \in Runs => (b \in closed' <=> b \in closed)
  BY <1>1 DEF Spares
<1>7. pc'[b] \in {"front", "pop"} => holder'[Router(b)'] = b
  BY <1>1, <1>2, <1>3 DEF Spares
<1>8. ASSUME pc'[b] = "pop"
      PROVE  (rq[Router(b)] # <<>> /\ Stored(Notice(Head(rq[Router(b)]).who)))'
  <2>1. PICK x : x = Head(rq[Router(b)]).who
    OBVIOUS
  <2>2. /\ rq[Router(b)] # <<>> /\ Stored(Notice(x))
        /\ rq'[Router(b)] # <<>> /\ Head(rq'[Router(b)]).who = x
    BY <1>1, <1>2, <1>8, <2>1 DEF Spares, Fine
  <2>3. Notice(x) \in Entries
    <3>1. rq[Router(b)] \in Seq(Waits)
      BY <1>2, <1>4, <1>8 DEF Flushing, Typed, RoutersOK
    <3> QED
      BY <2>1, <2>2, <3>1, WaitFacts
  <2>4. Stored(Notice(x))'
    BY <2>2, <2>3 DEF Steady, Grown
  <2>5. PICK R : R = Router(b)
    OBVIOUS
  <2>6. rq'[R] # <<>> /\ Head(rq'[R]).who = x /\ Router(b)' = R
    BY <1>3, <2>2, <2>5
  <2> QED
    BY <2>4, <2>6 DEF Stored, Notice, Entry, Said
<1> QED
  BY <1>2, <1>3, <1>5, <1>6, <1>7, <1>8 DEF Fine, Flushing

LEMMA UntouchedSpares ==
  ASSUME AllFine, NEW a, UNCHANGED <<rq, closed, holder>>
  PROVE  Spares(a)
BY DEF Spares, AllFine, Fine, Flushing

LEMMA AppendHead ==
  ASSUME NEW S, NEW q \in Seq(S), NEW n \in S
  PROVE  Append(q, n) # <<>> /\ (q # <<>> => Head(Append(q, n)) = Head(q))
<1>1. PICK p : p = Append(q, n)
  OBVIOUS
<1>2. /\ p \in Seq(S) /\ Len(p) = Len(q) + 1 /\ Len(q) \in Nat
      /\ \A i \in 1 .. Len(q) : p[i] = q[i]
  BY <1>1
<1>3. q # <<>> => 1 \in 1 .. Len(q)
  BY <1>2
<1>4. p # <<>>
  BY <1>2
<1> QED
  BY <1>1, <1>2, <1>3, <1>4

LEMMA FineAll ==
  ASSUME Typed, AllFine, NEW a, Moves(a), Spares(a), Steady,
         a \in Actors => Fine(a)'
  PROVE  AllFine'
BY OthersAreFine DEF AllFine

LEMMA StartIsFine ==
  ASSUME Typed, AllFine, Steady, NEW r \in Runs, StartDirect(r) \/ StartQueued(r)
  PROVE  AllFine'
<1>1. Moves(r) /\ r \in Actors
  BY RunMoves, ActorFacts DEF RunGoesOn, RunElse
<1>2. PICK label \in {"inbox", "commit"} : Start(r, label)
  BY DEF StartDirect, StartQueued
<1>3. pc'[r] = label /\ r \notin closed'
  BY <1>1, <1>2 DEF Start, Goto, Typed, ControlOK
<1>4. Fine(r)'
  BY <1>3, ActorFacts DEF Fine
<1>5. ASSUME NEW b \in Actors, b # r, pc[b] \in Flushing
      PROVE  Router(b) # r
  BY <1>2, <1>5, ActorFacts DEF Router, Start, Forgotten
<1>6. Spares(r)
  <2>1. closed' = closed \ {r} /\ holder' = holder /\ \A q \in Runs : q # r => rq'[q] = rq[q]
    BY <1>2 DEF Start, Typed, RoutersOK
  <2>2. \A b \in Actors : b # r /\ pc[b] \in Flushing => Router(b) \in Runs \ {r}
    BY <1>5, ActorFacts DEF AllFine, Fine, Router, Flushing
  <2> QED
    BY <2>1, <2>2 DEF Spares, AllFine, Fine, Flushing
<1> QED
  BY <1>1, <1>4, <1>6, FineAll

\* The steps of a run before its turns touch no router.
LEMMA WorkIsFine ==
  ASSUME Typed, AllFine, Steady, NEW r \in Runs,
         \/ Commit(r) \/ CommitFails(r)
         \/ ClaimInbox(r) \/ ClaimInboxFails(r)
         \/ SaveLetter(r) \/ LettersOver(r)
         \/ AckInbox(r) \/ AckInboxFails(r)
         \/ DrainFails(r) \/ Finish(r)
  PROVE  AllFine'
<1>1. Moves(r) /\ r \in Actors /\ r \notin Senders
  BY RunMoves, ActorFacts DEF RunGoesOn, RunElse
<1>2. UNCHANGED <<rq, closed, holder>>
  BY DEF Commit, CommitFails, ClaimInbox, ClaimInboxFails, SaveLetter, LettersOver, AckInbox,
         AckInboxFails, DrainFails, Finish, routerVars
<1>3. /\ pc'[r] \in {"idle", "inbox", "letters", "ack", "active"}
      /\ pc[r] \in {"commit", "inbox", "letters", "ack", "active"} \/ pc'[r] = "idle"
  BY <1>1
  DEF Commit, CommitFails, ClaimInbox, ClaimInboxFails, SaveLetter, LettersOver, AckInbox,
      AckInboxFails, DrainFails, Finish, Goto, Typed, ControlOK
<1>4. Fine(r)'
  BY <1>1, <1>2, <1>3 DEF AllFine, Fine
<1> QED
  BY <1>1, <1>2, <1>4, UntouchedSpares, FineAll

LEMMA TurnIsFine ==
  ASSUME Typed, AllFine, Steady, NEW r \in Runs, Drain(r) \/ Close(r)
  PROVE  AllFine'
<1>1. Moves(r) /\ r \in Actors /\ r \notin Senders
  BY RunMoves, ActorFacts DEF RunGoesOn, RunElse
<1>2. pc[r] = "active" /\ r \notin closed /\ holder' = holder
  BY <1>1 DEF Drain, Close, AllFine, Fine
<1>3. \A b \in Actors : b # r /\ pc[b] \in Flushing => Router(b) \in closed /\ Router(b) # r
  BY <1>2 DEF AllFine, Fine, Flushing
<1>4. Spares(r)
  <2>1. closed \subseteq closed' /\ \A q \in Runs : q # r => (q \in closed' <=> q \in closed)
    BY DEF Drain, Close
  <2>2. closed \subseteq Runs /\ \A q \in Runs : q # r => rq'[q] = rq[q]
    BY DEF Drain, Close, Typed, RoutersOK
  <2> QED
    BY <1>2, <1>3, <2>1, <2>2 DEF Spares, AllFine, Fine, Flushing
<1>5. Fine(r)'
  <2>1. CASE Drain(r)
    BY <1>1, <1>2, <2>1 DEF Drain, Fine
  <2>2. CASE Close(r)
    <3>1. pc'[r] = "flush" /\ r \in closed'
      BY <1>1, <2>2 DEF Close, Goto, Typed, ControlOK
    <3> QED
      BY <1>1, <3>1 DEF Fine, Router
  <2> QED
    BY <2>1, <2>2
<1> QED
  BY <1>1, <1>4, <1>5, FineAll

LEMMA TaskIsFine ==
  ASSUME Typed, AllFine, Steady, NEW t \in Tasks,
         TaskGoesOn(t) \/ Kill(t) \/ Exit(t) \/ \E r \in Runs : Spawn(t, r)
  PROVE  AllFine'
<1>1. Moves(t) /\ t \in Actors /\ t \notin Runs /\ t \in Senders
  BY TaskMoves, ActorFacts
<1>2. UNCHANGED <<rq, closed, holder>>
  BY DEF TaskGoesOn, WriteKilled, WriteExit, Watch, Kill, Exit, Spawn, routerVars
<1>3. /\ pc'[t] \notin {"recheck", "flush", "front", "pop"} \/ UNCHANGED <<pc, via>>
      /\ \/ pc'[t] \in {"done", "idle"} \/ via'[t] \in Runs \/ UNCHANGED <<pc, via>>
         \/ pc[t] \in {"running", "exited", "public"} /\ via' = via
  BY <1>1
  DEF TaskGoesOn, WriteKilled, WriteExit, Watch, Kill, Exit, Spawn, Goto, Typed, ControlOK
<1>4. CASE UNCHANGED <<pc, via>>
  <2>1. Moves(None)
    BY <1>4 DEF Moves
  <2> QED
    BY <1>2, <2>1, ActorFacts, UntouchedSpares, FineAll
<1>5. CASE ~ UNCHANGED <<pc, via>>
  <2>1. Fine(t)'
    BY <1>1, <1>3, <1>5 DEF AllFine, Fine
  <2> QED
    BY <1>1, <1>2, <2>1, UntouchedSpares, FineAll
<1> QED
  BY <1>4, <1>5

LEMMA ReportIsFine ==
  ASSUME Typed, AllFine, Steady, NEW s \in Reports, Report(s) \/ ReportGoesOn(s)
  PROVE  AllFine'
<1>1. Moves(s) /\ s \in Actors /\ s \notin Runs /\ s \in Senders
  BY ReportMoves, ActorFacts
<1>2. UNCHANGED <<rq, closed, holder>>
  BY DEF Report, ReportGoesOn, Enqueue, EnqueueFails, WriteLetter, WriteLetterFails, routerVars
<1>3. /\ pc'[s] \in {"notify", "enqueue", "letter", "done", "told"}
      /\ pc'[s] = "notify" => via'[s] \in Runs
  BY <1>1
  DEF Report, ReportGoesOn, Enqueue, EnqueueFails, WriteLetter, WriteLetterFails, Goto, Typed,
      ControlOK, RoutersOK
<1>4. Fine(s)'
  BY <1>1, <1>3 DEF Fine
<1> QED
  BY <1>1, <1>2, <1>4, UntouchedSpares, FineAll

LEMMA NotifyIsFine ==
  ASSUME Typed, AllFine, Steady, NEW s \in Senders, Notifies(s)
  PROVE  AllFine'
<1>1. Moves(s) /\ s \in Actors /\ s \notin Runs
  BY NotifyMoves, ActorFacts
<1>2. pc[s] \in {"notify", "recheck"} /\ via[s] \in Runs /\ UNCHANGED <<closed, holder>>
  BY <1>1 DEF Notifies, NotifyLate, NotifyActive, Recheck, routerVars, AllFine, Fine
<1>3. PICK R \in Runs : R = via[s]
  BY <1>2
<1>4. rq[R] \in Seq(Waits)
  BY DEF Typed, RoutersOK
<1>5. rq' = rq \/ \E saved \in BOOLEAN : Push(s, saved)
  BY DEF Notifies, NotifyLate, NotifyActive, Recheck, routerVars
<1>6. ASSUME NEW saved \in BOOLEAN, Push(s, saved)
      PROVE  /\ holder[R] = None /\ \A q \in Runs : q # R => rq'[q] = rq[q]
             /\ rq'[R] # <<>> /\ (rq[R] # <<>> => Head(rq'[R]) = Head(rq[R]))
  <2>1. PICK n \in Waits : n = [who |-> s, saved |-> saved]
    BY WaitFacts
  <2>2. holder[R] = None /\ rq' = [rq EXCEPT ![R] = Append(@, n)]
    BY <1>3, <1>6, <2>1 DEF Push
  <2>3. rq'[R] = Append(rq[R], n) /\ \A q \in Runs : q # R => rq'[q] = rq[q]
    BY <2>2 DEF Typed, RoutersOK
  <2>4. Append(rq[R], n) # <<>> /\ (rq[R] # <<>> => Head(Append(rq[R], n)) = Head(rq[R]))
    BY <1>4, AppendHead
  <2> QED
    BY <2>2, <2>3, <2>4
<1>7. Spares(s)
  <2>1. CASE rq' = rq
    BY <1>2, <2>1, UntouchedSpares
  <2>2. CASE \E saved \in BOOLEAN : Push(s, saved)
    <3>1. \A b \in Actors : b # s /\ pc[b] \in Flushing => Router(b) \in Runs
      BY ActorFacts DEF AllFine, Fine, Router, Flushing
    <3>2. ASSUME NEW b \in Actors, b # s, pc[b] = "pop"
          PROVE  /\ rq'[Router(b)] # <<>>
                 /\ Head(rq'[Router(b)]).who = Head(rq[Router(b)]).who
      <4>1. PICK B \in Runs : B = Router(b)
        BY <3>1, <3>2 DEF Flushing
      <4>2. rq[B] # <<>>
        BY <3>2, <4>1 DEF AllFine, Fine
      <4> QED
        BY <1>6, <2>2, <4>1, <4>2
    <3> QED
      BY <1>2, <3>2 DEF Spares, AllFine, Fine, Flushing
  <2> QED
    BY <1>5, <2>1, <2>2
<1>8. Fine(s)'
  <2>1. \/ pc'[s] \in {"flush", "recheck"} /\ via'[s] = R
        \/ pc'[s] = "done"
    BY <1>1, <1>3 DEF Notifies, NotifyLate, NotifyActive, Recheck, Goto, Typed, ControlOK
  <2>2. pc'[s] = "flush" => R \in closed'
    BY <1>1, <1>3
    DEF Notifies, NotifyLate, NotifyActive, Recheck, Goto, Typed, ControlOK, routerVars
  <2> QED
    BY <1>1, <2>1, <2>2 DEF Fine, Router
<1> QED
  BY <1>1, <1>7, <1>8, FineAll

LEMMA FlushIsFine ==
  ASSUME Typed, AllFine, Steady, NEW a \in Actors, Flushes(a)
  PROVE  AllFine'
<1>1. Moves(a) /\ FlushControl(a)
  BY FlushMoves, FlushIsControlled
<1>2. pc[a] \in Flushing
  BY DEF Flushes, FlushBegins, FlushEnds, Deliver, Pop, Refuse, Flushing
<1>3. PICK R \in Runs : R = Router(a)
  BY <1>2, FineIsRouted, FlusherHasRouter DEF Flushing
<1>4. R \in closed /\ UNCHANGED closed
  BY <1>1, <1>2, <1>3 DEF AllFine, Fine, FlushControl, Flushing
<1>5. \A b \in Actors : b # a /\ pc[b] \in {"front", "pop"} => Router(b) # R
  <2>1. holder[R] \in {None, a}
    BY <1>3 DEF Flushes, FlushBegins, FlushEnds, Deliver, Pop, Refuse, AllFine, Fine
  <2> QED
    BY <2>1, ActorFacts DEF AllFine, Fine
<1>6. \A q \in Runs : q # R => rq'[q] = rq[q] /\ holder'[q] = holder[q]
  BY <1>1, <1>3 DEF FlushControl, Typed, RoutersOK
<1>7. \A b \in Actors : b # a /\ pc[b] \in Flushing => Router(b) \in Runs
  BY ActorFacts DEF AllFine, Fine, Router, Flushing
<1>8. Spares(a)
  BY <1>4, <1>5, <1>6, <1>7 DEF Spares, AllFine, Fine, Flushing
<1>9. Fine(a)'
  <2>1. CASE FlushEnds(a) \/ Refuse(a)
    <3>1. pc'[a] \in {"unregister", "done", "letter"} /\ (pc'[a] = "unregister" => a \in Runs)
      <4>1. PICK next : FlushOver(a, next) /\ next \in {"unregister", "done", "letter"}
                        /\ (next = "unregister" => a \in Runs)
        <5>1. CASE FlushEnds(a)
          BY <5>1 DEF FlushEnds
        <5>2. CASE Refuse(a) /\ a \in Runs
          BY <5>2 DEF Refuse
        <5>3. CASE Refuse(a) /\ a \in Tasks
          BY <5>3, ActorFacts DEF Refuse
        <5>4. CASE Refuse(a) /\ a \notin Runs /\ a \notin Tasks
          BY <5>4 DEF Refuse
        <5> QED
          BY <2>1, <5>1, <5>2, <5>3, <5>4
      <4> QED
        BY <4>1 DEF FlushOver, Goto, Typed, ControlOK
    <3>2. a \in Runs => a \in closed'
      BY <1>3, <1>4 DEF Router
    <3> QED
      BY <3>1, <3>2 DEF Fine
  <2>2. CASE FlushBegins(a) \/ Deliver(a) \/ Pop(a)
    <3>1. /\ via' = via /\ holder'[R] = a
          /\ pc'[a] \in {"front", "pop"}
      BY <1>3, <2>2
      DEF FlushBegins, Deliver, Pop, Goto, Typed, ControlOK, RoutersOK, routerVars, AllFine, Fine
    <3>2. Router(a)' = R /\ (a \in Senders => via'[a] \in Runs)
      BY <1>3, <3>1, ActorFacts DEF Router
    <3>3. ASSUME pc'[a] = "pop"
          PROVE  (rq[R] # <<>> /\ Stored(Notice(Head(rq[R]).who)))'
      <4>1. Deliver(a)
        BY <2>2, <3>3 DEF FlushBegins, Deliver, Pop, Goto, Typed, ControlOK
      <4>2. PICK e \in Entries : e = Notice(Head(rq[R]).who)
        BY <1>2, <1>3, <4>1, FlusherHasRouter, FineIsRouted DEF Flushing, Deliver
      <4>3. rq' = rq /\ rq[R] # <<>> /\ DeliveredTo(e)
        BY <1>3, <4>1, <4>2 DEF Deliver, routerVars
      <4>4. Stored(e)'
        BY <4>3, DeliveryGrows
      <4> QED
        BY <4>2, <4>3, <4>4 DEF Stored, Said
    <3> QED
      BY <1>4, <3>1, <3>2, <3>3, ActorFacts DEF Fine
  <2> QED
    BY <2>1, <2>2 DEF Flushes
<1> QED
  BY <1>1, <1>8, <1>9, FineAll

LEMMA BootIsFine ==
  ASSUME Typed, AllFine, Steady,
         \/ \E t \in Tasks \cup Foreign : Recover(t) \/ RecoverFails(t)
         \/ Crash \/ Repair
  PROVE  AllFine'
<1>1. CASE Crash
  <2>1. \A a \in Actors : pc'[a] \in {"idle", "done", "told", "gone"}
    BY <1>1 DEF Crash
  <2> QED
    BY <2>1 DEF AllFine, Fine
<1>2. CASE ~ Crash
  <2>1. UNCHANGED <<pc, via, rq, closed, holder>>
    BY <1>2 DEF Recover, RecoverFails, Repair, routerVars
  <2>2. Moves(None)
    BY <2>1 DEF Moves
  <2> QED
    BY <2>1, <2>2, ActorFacts, UntouchedSpares, FineAll
<1> QED
  BY <1>1, <1>2

-----------------------------------------------------------------------------
(* Where the notices are *)

\* A notice is pushed, popped, or dropped with the router of an earlier run.
Pushes(R, n) ==
  rq' = [rq EXCEPT ![R] = Append(@, n)] /\ (n.saved => Notice(n.who) \in Said')

Pops(R) ==
  /\ rq[R] # <<>> /\ rq' = [rq EXCEPT ![R] = Tail(@)]
  /\ \E s \in Senders : s = Head(rq[R]).who /\ Stored(Notice(s))'

Drops(R) == rq' = [rq EXCEPT ![R] = <<>>] /\ Forgotten(R) /\ OnlyIn({R}) \subseteq lost'

Waited ==
  \/ UNCHANGED rq
  \/ \E R \in Runs : Pops(R) \/ Drops(R) \/ \E n \in Waits : Pushes(R, n)

\* What waits still waits, is stored, or died with a router nobody uses.
WaitKept ==
  \A s \in Senders : \A r \in Runs : Notice(s) \in Waiting(r) =>
    \/ Notice(s) \in Waiting(r)' \/ Stored(Notice(s))'
    \/ s \in lost' /\ Forgotten(r)

LEMMA NoticeIsOnes ==
  ASSUME NEW s, NEW t, Notice(s) = Notice(t)
  PROVE  s = t
BY DEF Notice, Entry

LEMMA WaitingIs ==
  ASSUME NEW s, NEW r
  PROVE  Notice(s) \in Waiting(r) <=> \E i \in DOMAIN rq[r] : rq[r][i].who = s
BY NoticeIsOnes DEF Waiting

LEMMA WaitingWill ==
  ASSUME NEW s, NEW r
  PROVE  Notice(s) \in Waiting(r)' <=> \E i \in DOMAIN rq'[r] : rq'[r][i].who = s
BY NoticeIsOnes DEF Waiting

LEMMA AppendPlaces ==
  ASSUME NEW S, NEW q \in Seq(S), NEW n \in S
  PROVE  /\ \A i \in DOMAIN q : i \in DOMAIN Append(q, n) /\ Append(q, n)[i] = q[i]
         /\ \A i \in DOMAIN Append(q, n) : Append(q, n)[i] = n \/ (i \in DOMAIN q /\ Append(q, n)[i] = q[i])
         /\ \E i \in DOMAIN Append(q, n) : Append(q, n)[i] = n
<1>1. PICK p : p = Append(q, n)
  OBVIOUS
<1>2. /\ DOMAIN p = 1 .. Len(q) + 1 /\ DOMAIN q = 1 .. Len(q) /\ Len(q) \in Nat
      /\ \A i \in 1 .. Len(q) : p[i] = q[i]
      /\ p[Len(q) + 1] = n
  BY <1>1
<1> QED
  BY <1>1, <1>2

LEMMA TailPlaces ==
  ASSUME NEW S, NEW q \in Seq(S), q # <<>>
  PROVE  /\ \A i \in DOMAIN q : q[i] = Head(q) \/ \E j \in DOMAIN Tail(q) : Tail(q)[j] = q[i]
         /\ \A j \in DOMAIN Tail(q) : \E i \in DOMAIN q : q[i] = Tail(q)[j]
<1>1. ASSUME NEW i \in DOMAIN q, i # 1
      PROVE  \E j \in DOMAIN Tail(q) : Tail(q)[j] = q[i]
  <2>1. i - 1 \in DOMAIN Tail(q) /\ Tail(q)[i - 1] = q[i]
    BY <1>1
  <2> QED
    BY <2>1
<1>2. ASSUME NEW j \in DOMAIN Tail(q)
      PROVE  \E i \in DOMAIN q : q[i] = Tail(q)[j]
  <2>1. j + 1 \in DOMAIN q /\ Tail(q)[j] = q[j + 1]
    BY <1>2
  <2> QED
    BY <2>1
<1>3. q[1] = Head(q)
  OBVIOUS
<1> QED
  BY <1>1, <1>2, <1>3

LEMMA WaitedKeeps ==
  ASSUME Typed, Steady, SavedSaid, Waited
  PROVE  WaitKept /\ SavedSaid'
<1>1. rq \in [Runs -> Seq(Waits)]
  BY DEF Typed, RoutersOK
<1>2. CASE UNCHANGED rq
  BY <1>2, WaitingIs, WaitingWill DEF WaitKept, SavedSaid, Steady, Grown, Said
<1>3. ASSUME NEW R \in Runs, NEW n \in Waits, Pushes(R, n)
      PROVE  WaitKept /\ SavedSaid'
  <2>1. PICK p : p = Append(rq[R], n)
    OBVIOUS
  <2>2. /\ \A i \in DOMAIN rq[R] : i \in DOMAIN p /\ p[i] = rq[R][i]
        /\ \A i \in DOMAIN p : p[i] = n \/ (i \in DOMAIN rq[R] /\ p[i] = rq[R][i])
    BY <1>1, <2>1, AppendPlaces
  <2>3. rq'[R] = p /\ \A r \in Runs : r # R => rq'[r] = rq[r]
    BY <1>1, <1>3, <2>1 DEF Pushes
  <2>4. WaitKept
    BY <2>2, <2>3, WaitingIs, WaitingWill DEF WaitKept
  <2>5. SavedSaid'
    <3>1. Said \subseteq Said' /\ (n.saved => Notice(n.who) \in Said')
      BY <1>3 DEF Steady, Grown, Pushes
    <3>2. SUFFICES ASSUME NEW r \in Runs, NEW i \in DOMAIN rq'[r], rq'[r][i].saved
                   PROVE  Notice(rq'[r][i].who) \in Said'
      BY DEF SavedSaid
    <3>3. CASE r # R
      BY <2>3, <3>1, <3>2, <3>3 DEF SavedSaid
    <3>4. CASE r = R
      BY <2>2, <2>3, <3>1, <3>2, <3>4 DEF SavedSaid
    <3> QED
      BY <3>3, <3>4
  <2> QED
    BY <2>4, <2>5
<1>4. ASSUME NEW R \in Runs, Pops(R)
      PROVE  WaitKept /\ SavedSaid'
  <2>1. PICK p : p = Tail(rq[R])
    OBVIOUS
  <2>2. /\ \A i \in DOMAIN rq[R] :
             rq[R][i] = Head(rq[R]) \/ \E j \in DOMAIN p : p[j] = rq[R][i]
        /\ \A j \in DOMAIN p : \E i \in DOMAIN rq[R] : rq[R][i] = p[j]
    BY <1>1, <1>4, <2>1, TailPlaces DEF Pops
  <2>3. rq'[R] = p /\ \A r \in Runs : r # R => rq'[r] = rq[r]
    BY <1>1, <1>4, <2>1 DEF Pops
  <2>4. WaitKept
    <3>1. SUFFICES ASSUME NEW s \in Senders, NEW r \in Runs, Notice(s) \in Waiting(r)
                   PROVE  Notice(s) \in Waiting(r)' \/ Stored(Notice(s))'
      BY DEF WaitKept
    <3>2. PICK i \in DOMAIN rq[r] : rq[r][i].who = s
      BY <3>1, WaitingIs
    <3>3. CASE r = R /\ rq[R][i] = Head(rq[R])
      BY <1>4, <3>2, <3>3 DEF Pops
    <3>4. CASE ~ (r = R /\ rq[R][i] = Head(rq[R]))
      <4>1. \E j \in DOMAIN rq'[r] : rq'[r][j].who = s
        BY <2>2, <2>3, <3>2, <3>4
      <4> QED
        BY <4>1, WaitingWill
    <3> QED
      BY <3>3, <3>4
  <2>5. SavedSaid'
    <3>1. Said \subseteq Said'
      BY DEF Steady, Grown
    <3> QED
      BY <2>2, <2>3, <3>1 DEF SavedSaid
  <2> QED
    BY <2>4, <2>5
<1>5. ASSUME NEW R \in Runs, Drops(R)
      PROVE  WaitKept /\ SavedSaid'
  <2>1. rq'[R] = <<>> /\ \A r \in Runs : r # R => rq'[r] = rq[r]
    BY <1>1, <1>5 DEF Drops
  <2>2. WaitKept
    <3>1. SUFFICES ASSUME NEW s \in Senders, Notice(s) \in Waiting(R), ~ Stored(Notice(s))
                   PROVE  s \in lost'
      <4>1. \A s \in Senders : Stored(Notice(s)) => Stored(Notice(s))'
        BY EntryTypes DEF Steady, Grown
      <4> QED
        BY <1>5, <2>1, <4>1, WaitingIs, WaitingWill DEF WaitKept, Drops
    <3>2. s \in OnlyIn({R})
      BY <3>1 DEF OnlyIn, Stored
    <3> QED
      BY <1>5, <3>2 DEF Drops
  <2>3. SavedSaid'
    BY <2>1 DEF SavedSaid, Steady, Grown
  <2> QED
    BY <2>2, <2>3
<1> QED
  BY <1>2, <1>3, <1>4, <1>5 DEF Waited

LEMMA OthersAreAt ==
  ASSUME Typed, AllFine, Whereabouts, Steady, WaitKept, NEW a, Moves(a)
  PROVE  \A s \in Senders : s # a => At(s)'
<1>1. SUFFICES ASSUME NEW s \in Senders, s # a
               PROVE  At(s)'
  OBVIOUS
<1>2. pc'[s] = pc[s] /\ via'[s] = via[s] /\ At(s) /\ s \in Actors /\ s \notin Runs
  BY <1>1, ActorFacts DEF Moves, Whereabouts
<1>3. /\ Notice(s) \in Entries
      /\ (Stored(Notice(s)) => Stored(Notice(s))') /\ (Safe(Notice(s)) => Safe(Notice(s))')
      /\ (failures > 0 => failures' > 0) /\ lost \subseteq lost'
  BY EntryTypes DEF Steady, Grown
<1>4. Safe(Letter(s)) => Safe(Letter(s))'
  <2>1. CASE s \in Reports
    BY <2>1, EntryTypes DEF Steady, Grown
  <2>2. CASE s \notin Reports
    <3>1. ASSUME Safe(Letter(s))
          PROVE  Letter(s) \in Entries
      <4>1. log \in Seq(Entries) /\ pend \in Pending /\ mail \in MailBox
        BY DEF Typed, StoresOK, MailOK
      <4>2. /\ pend.queued \in Seq(Entries) /\ pend.inFlight \in Entries \cup {None}
            /\ mail.queued \in Seq(Entries) /\ mail.inFlight \in Seq(Entries)
        BY <4>1 DEF Pending, MailBox
      <4>3. Said \subseteq Entries /\ Items(pend) \subseteq Entries /\ Letters \subseteq Entries
        BY <4>1, <4>2, ToSetFacts DEF Said, Items, Letters
      <4> QED
        BY <3>1, <4>3 DEF Safe
    <3> QED
      BY <3>1 DEF Steady, Grown
  <2> QED
    BY <2>1, <2>2
<1>5. PICK v : v = via[s]
  OBVIOUS
<1>6. ASSUME pc[s] \in {"recheck", "flush", "front", "pop"}, Notice(s) \in Waiting(v)
      PROVE  Notice(s) \in Waiting(v)' \/ Stored(Notice(s))'
  <2>1. v \in Runs
    BY <1>1, <1>2, <1>5, <1>6 DEF AllFine, Fine
  <2>2. ~ Forgotten(v)
    BY <1>1, <1>5 DEF Forgotten
  <2> QED
    BY <1>1, <1>6, <2>1, <2>2 DEF WaitKept
<1>7. ASSUME NEW r \in Runs, Notice(s) \in Waiting(r)
      PROVE  Notice(s) \in Waiting(r)' \/ Stored(Notice(s))' \/ s \in lost'
  BY <1>1, <1>7 DEF WaitKept
<1>8. pc'[s] = "recheck" =>
        Stored(Notice(s))' \/ (failures' > 0 /\ Notice(s) \in Waiting(v)')
  BY <1>2, <1>3, <1>5, <1>6 DEF At
<1>9. pc'[s] \in {"flush", "front", "pop"} => Stored(Notice(s))' \/ Notice(s) \in Waiting(v)'
  BY <1>2, <1>3, <1>5, <1>6 DEF At
<1>10. pc'[s] = "done" /\ (s \in Tasks => killed'[s] = "no") =>
         \/ Safe(Notice(s))' \/ Safe(Letter(s))'
         \/ failures' > 0 /\ (s \in lost' \/ \E r \in Runs : Notice(s) \in Waiting(r)')
  <2>1. SUFFICES ASSUME pc[s] = "done", s \in Tasks => killed[s] = "no"
                 PROVE  \/ Safe(Notice(s))' \/ Safe(Letter(s))'
                        \/ failures' > 0 /\ (s \in lost' \/ \E r \in Runs : Notice(s) \in Waiting(r)')
    BY <1>2 DEF Steady
  <2>2. \/ Safe(Notice(s)) \/ Safe(Letter(s))
        \/ failures > 0 /\ (s \in lost \/ \E r \in Runs : Notice(s) \in Waiting(r))
    BY <1>2, <2>1 DEF At
  <2>3. Stored(Notice(s))' => Safe(Notice(s))'
    BY DEF Stored, Safe
  <2> QED
    BY <1>3, <1>4, <1>7, <2>2, <2>3
<1>11. Waiting(via[s])' = Waiting(v)'
  BY <1>2, <1>5 DEF Waiting
<1> QED
  BY <1>8, <1>9, <1>10, <1>11 DEF At

Sound == Typed /\ AllFine /\ SavedSaid /\ Counted /\ Whereabouts

LEMMA MoverIsLeft ==
  ASSUME Sound, Steady, Waited, NEW a, Moves(a),
         a \in Senders /\ WaitKept => At(a)'
  PROVE  SavedSaid' /\ Whereabouts'
<1>1. WaitKept /\ SavedSaid'
  BY WaitedKeeps DEF Sound
<1>2. \A s \in Senders : s # a => At(s)'
  BY <1>1, OthersAreAt DEF Sound
<1> QED
  BY <1>1, <1>2 DEF Whereabouts

LEMMA RunKnows ==
  ASSUME Sound, Steady, NEW r \in Runs, RunGoesOn(r) \/ RunElse(r)
  PROVE  SavedSaid' /\ Whereabouts'
<1>1. Moves(r) /\ r \notin Senders
  BY RunMoves, ActorFacts DEF Sound
<1>2. Waited
  <2>1. CASE StartDirect(r) \/ StartQueued(r)
    <3>1. Drops(r)
      BY <2>1 DEF StartDirect, StartQueued, Start, Drops
    <3> QED
      BY <3>1 DEF Waited
  <2>2. CASE Drain(r)
    <3>1. /\ rq[r] # <<>> /\ rq[r] \in Seq(Waits) /\ rq' = [rq EXCEPT ![r] = Tail(@)]
          /\ Head(rq[r]) \in Waits
      BY <2>2, WaitFacts DEF Drain, Sound, Typed, RoutersOK
    <3>2. PICK s \in Senders : s = Head(rq[r]).who
      BY <3>1, WaitFacts
    <3>3. Notice(s) \in Said'
      <4>1. CASE Head(rq[r]).saved /\ UNCHANGED logVars
        <5>1. 1 \in DOMAIN rq[r] /\ rq[r][1] = Head(rq[r])
          BY <3>1
        <5> QED
          BY <3>2, <4>1, <5>1 DEF Sound, SavedSaid, Said, logVars
      <4>2. CASE SessionOk(Notice(s))
        BY <4>2, SessionGrows, EntryTypes DEF Sound
      <4> QED
        BY <2>2, <3>2, <4>1, <4>2 DEF Drain
    <3> QED
      BY <3>1, <3>2, <3>3 DEF Waited, Pops, Stored, Said
  <2>3. CASE ~ (StartDirect(r) \/ StartQueued(r) \/ Drain(r))
    <3>1. UNCHANGED rq
      BY <2>3
      DEF RunGoesOn, RunElse, Commit, ClaimInbox, SaveLetter, LettersOver, AckInbox, Close,
          Finish, CommitFails, ClaimInboxFails, AckInboxFails, DrainFails, routerVars
    <3> QED
      BY <3>1 DEF Waited
  <2> QED
    BY <2>1, <2>2, <2>3
<1> QED
  BY <1>1, <1>2, MoverIsLeft

LEMMA TaskKnows ==
  ASSUME Sound, Steady, NEW t \in Tasks,
         TaskGoesOn(t) \/ Kill(t) \/ Exit(t) \/ \E r \in Runs : Spawn(t, r)
  PROVE  SavedSaid' /\ Whereabouts'
<1>1. Moves(t) /\ t \in Senders /\ t \in Actors
  BY TaskMoves, ActorFacts DEF Sound
<1>2. Waited
  BY DEF Waited, TaskGoesOn, WriteKilled, WriteExit, Watch, Kill, Exit, Spawn, routerVars
<1>3. CASE UNCHANGED <<pc, via>>
  <2>1. Moves(None)
    BY <1>3 DEF Moves
  <2> QED
    BY <1>2, <2>1, ActorFacts, MoverIsLeft
<1>4. CASE ~ UNCHANGED <<pc, via>>
  <2>1. /\ pc'[t] \in {"running", "exited", "public", "notify", "done"}
        /\ pc'[t] = "done" => killed'[t] # "no"
    BY <1>1, <1>4
    DEF TaskGoesOn, WriteKilled, WriteExit, Watch, Kill, Exit, Spawn, Goto, Sound, Typed,
        ControlOK, taskVars
  <2>2. At(t)'
    BY <2>1 DEF At
  <2> QED
    BY <1>1, <1>2, <2>2, MoverIsLeft
<1> QED
  BY <1>3, <1>4

LEMMA ReportKnows ==
  ASSUME Sound, Steady, NEW s \in Reports, Report(s) \/ ReportGoesOn(s)
  PROVE  SavedSaid' /\ Whereabouts'
<1>1. /\ Moves(s) /\ s \in Senders /\ s \in Actors
      /\ Notice(s) \in Entries /\ Letter(s) \in Entries
  BY ReportMoves, ActorFacts, EntryTypes DEF Sound
<1>2. Waited
  BY DEF Waited, Report, ReportGoesOn, Enqueue, EnqueueFails, WriteLetter, WriteLetterFails,
         routerVars
<1>3. pc'[s] \in {"notify", "enqueue", "letter", "done", "told"}
  BY <1>1
  DEF Report, ReportGoesOn, Enqueue, EnqueueFails, WriteLetter, WriteLetterFails, Goto, Sound,
      Typed, ControlOK
<1>4. pc'[s] = "done" => Safe(Notice(s))' \/ Safe(Letter(s))'
  <2>1. SUFFICES ASSUME pc'[s] = "done"
                 PROVE  Safe(Notice(s))' \/ Safe(Letter(s))'
    OBVIOUS
  <2>2. Enqueue(s) \/ WriteLetter(s)
    BY <1>1, <2>1
    DEF Report, ReportGoesOn, Enqueue, EnqueueFails, WriteLetter, WriteLetterFails, Goto, Sound,
        Typed, ControlOK
  <2>3. CASE Enqueue(s)
    BY <1>1, <2>3, QueueGrows DEF Enqueue, Safe, Sound
  <2>4. CASE WriteLetter(s)
    <3>1. mail \in MailBox /\ mail.queued \in Seq(Entries)
      BY MailFacts DEF Sound, Typed, MailOK
    <3>2. PICK q : q = Append(mail.queued, Letter(s))
      OBVIOUS
    <3>3. mail'.queued = q
      BY <2>4, <3>1, <3>2 DEF WriteLetter, MailBox
    <3>4. Letter(s) \in ToSet(q)
      BY <1>1, <3>1, <3>2, ToSetFacts
    <3> QED
      BY <3>3, <3>4 DEF Safe, Letters
  <2> QED
    BY <2>2, <2>3, <2>4
<1>5. At(s)'
  BY <1>3, <1>4 DEF At
<1> QED
  BY <1>1, <1>2, <1>5, MoverIsLeft

LEMMA NotifyKnows ==
  ASSUME Sound, Steady, NEW s \in Senders, Notifies(s)
  PROVE  SavedSaid' /\ Whereabouts'
<1>1. Moves(s) /\ s \in Actors /\ s \notin Runs /\ Notice(s) \in Entries
  BY NotifyMoves, ActorFacts, EntryTypes DEF Sound
<1>2. PICK R \in Runs : R = via[s]
  BY <1>1 DEF Notifies, NotifyLate, NotifyActive, Recheck, Sound, AllFine, Fine
<1>3. ASSUME NEW saved \in BOOLEAN, Push(s, saved), saved => Notice(s) \in Said'
      PROVE  Waited /\ Notice(s) \in Waiting(R)'
  <2>1. PICK n \in Waits : n = [who |-> s, saved |-> saved]
    BY WaitFacts
  <2>2. rq' = [rq EXCEPT ![R] = Append(@, n)] /\ n.who = s /\ n.saved = saved
    BY <1>2, <1>3, <2>1 DEF Push
  <2>3. Pushes(R, n)
    BY <1>3, <2>2 DEF Pushes
  <2>4. PICK p : p = Append(rq[R], n)
    OBVIOUS
  <2>5. rq[R] \in Seq(Waits) /\ rq'[R] = p
    BY <2>2, <2>4 DEF Sound, Typed, RoutersOK
  <2>6. \E i \in DOMAIN p : p[i] = n
    BY <2>4, <2>5, AppendPlaces
  <2> QED
    BY <2>2, <2>3, <2>5, <2>6, WaitingWill DEF Waited
<1>4. CASE NotifyLate(s)
  <2>1. Waited /\ Notice(s) \in Waiting(R)'
    BY <1>3, <1>4 DEF NotifyLate
  <2>2. pc'[s] = "flush" /\ via'[s] = R
    BY <1>1, <1>2, <1>4 DEF NotifyLate, Goto, Sound, Typed, ControlOK
  <2>3. At(s)'
    BY <2>1, <2>2 DEF At, Waiting
  <2> QED
    BY <1>1, <2>1, <2>3, MoverIsLeft
<1>5. CASE NotifyActive(s)
  <2>1. pc'[s] = "recheck" /\ via'[s] = R
    BY <1>1, <1>2, <1>5 DEF NotifyActive, Goto, Sound, Typed, ControlOK
  <2>2. CASE SessionOk(Notice(s)) /\ Push(s, TRUE)
    <3>1. Notice(s) \in Said'
      BY <1>1, <2>2, SessionGrows DEF Sound
    <3>2. At(s)'
      BY <2>1, <3>1 DEF At, Stored, Said
    <3> QED
      BY <1>1, <1>3, <2>2, <3>1, <3>2, MoverIsLeft
  <2>3. CASE Push(s, FALSE) /\ Fail(Cost(sblocked))
    <3>1. failures' > 0 /\ Waited /\ Notice(s) \in Waiting(R)'
      BY <1>3, <2>3, FailureCounts DEF Sound
    <3>2. At(s)'
      BY <2>1, <3>1 DEF At, Waiting
    <3> QED
      BY <1>1, <3>1, <3>2, MoverIsLeft
  <2> QED
    BY <1>5, <2>2, <2>3 DEF NotifyActive
<1>6. CASE Recheck(s)
  <2>1. UNCHANGED <<rq, closed>>
    BY <1>6 DEF Recheck, routerVars
  <2>2. \/ pc'[s] = "flush" /\ via'[s] = R
        \/ pc'[s] = "done"
    BY <1>1, <1>2, <1>6 DEF Recheck, Goto, Sound, Typed, ControlOK
  <2>3. Stored(Notice(s)) \/ (failures > 0 /\ Notice(s) \in Waiting(R))
    BY <1>2, <1>6 DEF Recheck, Sound, Whereabouts, At
  <2>4. Stored(Notice(s))' \/ (failures' > 0 /\ Notice(s) \in Waiting(R)')
    BY <1>1, <2>1, <2>3 DEF Steady, Grown, Waiting
  <2>5. At(s)'
    BY <2>2, <2>4 DEF At, Waiting, Safe, Stored
  <2>6. Waited
    BY <2>1 DEF Waited
  <2> QED
    BY <1>1, <2>5, <2>6, MoverIsLeft
<1> QED
  BY <1>4, <1>5, <1>6 DEF Notifies

LEMMA FlushKnows ==
  ASSUME Sound, Steady, NEW a \in Actors, Flushes(a)
  PROVE  SavedSaid' /\ Whereabouts'
<1>1. Moves(a)
  BY FlushMoves DEF Sound
<1>2. pc[a] \in Flushing
  BY DEF Flushes, FlushBegins, FlushEnds, Deliver, Pop, Refuse, Flushing
<1>3. PICK R \in Runs : R = Router(a)
  BY <1>2, FineIsRouted, FlusherHasRouter DEF Flushing, Sound
<1>4. rq[R] \in Seq(Waits)
  BY DEF Sound, Typed, RoutersOK
<1>5. Waited
  <2>1. CASE Pop(a)
    <3>1. PICK s \in Senders : s = Head(rq[R]).who
      BY <1>3, <1>4, <2>1, WaitFacts DEF Pop
    <3>2. rq[R] # <<>> /\ rq' = [rq EXCEPT ![R] = Tail(@)] /\ Stored(Notice(s))
      BY <1>3, <2>1, <3>1 DEF Pop, Sound, AllFine, Fine
    <3>3. Stored(Notice(s))'
      BY <3>2, EntryTypes DEF Steady, Grown
    <3> QED
      BY <3>1, <3>2, <3>3 DEF Waited, Pops
  <2>2. CASE ~ Pop(a)
    BY <2>2 DEF Waited, Flushes, FlushBegins, FlushEnds, Deliver, Refuse, Kept, routerVars
  <2> QED
    BY <2>1, <2>2
<1>6. ASSUME a \in Senders, WaitKept
      PROVE  At(a)'
  <2>1. a \notin Runs /\ R = via[a] /\ Notice(a) \in Entries
    BY <1>3, <1>6, ActorFacts, EntryTypes DEF Router
  <2>2. Stored(Notice(a)) \/ Notice(a) \in Waiting(R)
    BY <1>2, <1>6, <2>1 DEF Sound, Whereabouts, At, Flushing
  <2>3. ~ Forgotten(R)
    BY <1>6, <2>1 DEF Forgotten
  <2>4. Stored(Notice(a))' \/ Notice(a) \in Waiting(R)'
    BY <1>3, <1>6, <2>1, <2>2, <2>3 DEF WaitKept, Steady, Grown
  <2>5. CASE FlushBegins(a) \/ Deliver(a) \/ Pop(a)
    <3>1. pc'[a] \in {"front", "pop"} /\ via'[a] = R
      BY <2>1, <2>5 DEF FlushBegins, Deliver, Pop, Goto, Sound, Typed, ControlOK
    <3> QED
      BY <2>4, <3>1 DEF At, Waiting
  <2>6. CASE FlushEnds(a)
    <3>1. rq[R] = <<>>
      BY <1>3, <2>6 DEF FlushEnds
    <3>2. Notice(a) \notin Waiting(R)
      BY <3>1 DEF Waiting
    <3>3. Stored(Notice(a))' /\ pc'[a] = "done"
      BY <2>1, <2>2, <2>6, <3>2
      DEF FlushEnds, FlushOver, Goto, Sound, Typed, ControlOK, Steady, Grown
    <3> QED
      BY <3>3 DEF At, Safe, Stored
  <2>7. CASE Refuse(a)
    <3>1. pc'[a] \in {"done", "letter"}
      <4>1. CASE a \in Tasks
        BY <2>1, <2>7, <4>1 DEF Refuse, FlushOver, Goto, Sound, Typed, ControlOK
      <4>2. CASE a \notin Tasks
        BY <2>1, <2>7, <4>2 DEF Refuse, FlushOver, Goto, Sound, Typed, ControlOK
      <4> QED
        BY <4>1, <4>2
    <3>2. failures' > 0
      BY <2>7, FailureCounts DEF Refuse, DeliveryRefused, Sound
    <3> QED
      BY <2>4, <3>1, <3>2 DEF At, Safe, Stored
  <2> QED
    BY <2>5, <2>6, <2>7 DEF Flushes
<1> QED
  BY <1>1, <1>5, <1>6, MoverIsLeft

LEMMA BootKnows ==
  ASSUME Sound, Steady,
         \/ \E t \in Tasks \cup Foreign : Recover(t) \/ RecoverFails(t)
         \/ Crash \/ Repair
  PROVE  SavedSaid' /\ Whereabouts'
<1>1. CASE Crash
  <2>1. SavedSaid'
    BY <1>1 DEF Crash, SavedSaid
  <2>2. ASSUME NEW s \in Senders
        PROVE  At(s)'
    <3>1. pc'[s] \in {"idle", "done", "told", "gone"} /\ (pc'[s] = "done" => pc[s] = "done")
      BY <1>1, ActorFacts DEF Crash
    <3>2. SUFFICES ASSUME pc[s] = "done", s \in Tasks => killed[s] = "no"
                   PROVE  Safe(Notice(s))' \/ Safe(Letter(s))' \/ (failures' > 0 /\ s \in lost')
      BY <3>1 DEF At, Steady
    <3>3. \/ Safe(Notice(s)) \/ Safe(Letter(s))
          \/ failures > 0 /\ (s \in lost \/ \E r \in Runs : Notice(s) \in Waiting(r))
      BY <3>2 DEF Sound, Whereabouts, At
    <3>4. UNCHANGED <<log, pend, mail, failures>> /\ lost' = lost \cup OnlyIn(Runs)
      BY <1>1 DEF Crash
    <3>5. \A e : Safe(e) => Safe(e)'
      BY <3>4 DEF Safe, Said, Letters
    <3> QED
      BY <3>3, <3>4, <3>5 DEF OnlyIn, Safe
  <2> QED
    BY <2>1, <2>2 DEF Whereabouts
<1>2. CASE ~ Crash
  <2>1. UNCHANGED <<pc, via, rq>>
    BY <1>2 DEF Recover, RecoverFails, Repair, routerVars
  <2>2. Waited /\ Moves(None)
    BY <2>1 DEF Waited, Moves
  <2> QED
    BY <2>2, ActorFacts, MoverIsLeft
<1> QED
  BY <1>1, <1>2

-----------------------------------------------------------------------------
(* None is forgotten *)

\* Who will look at the notices of a closed router.
Minds(a, r) == pc[a] \in {"recheck", "flush", "front", "pop"} /\ Router(a) = r

LEMMA MindedStill ==
  ASSUME NoneForgotten, NEW a, Moves(a),
         \A r \in closed' : rq'[r] # <<>> =>
           \/ r \in refused'
           \/ a \in Actors /\ Minds(a, r)'
           \/ /\ r \in closed /\ rq[r] # <<>> /\ (r \in refused => r \in refused')
              /\ a \in Actors => ~ Minds(a, r)
  PROVE  NoneForgotten'
<1>1. SUFFICES ASSUME NEW r \in closed', rq'[r] # <<>>, r \notin refused',
                      ~ (a \in Actors /\ Minds(a, r)')
               PROVE  \E b \in Actors : Minds(b, r)'
  BY DEF NoneForgotten, Minds
<1>2. PICK b \in Actors : Minds(b, r)
  BY <1>1 DEF NoneForgotten, Minds
<1>3. b # a
  BY <1>1, <1>2
<1>4. Minds(b, r)'
  BY <1>2, <1>3, ActorFacts DEF Moves, Minds, Router
<1> QED
  BY <1>4

LEMMA RunMinds ==
  ASSUME Typed, AllFine, NoneForgotten, NEW r \in Runs, RunGoesOn(r) \/ RunElse(r)
  PROVE  NoneForgotten'
<1>1. Moves(r) /\ r \in Actors
  BY RunMoves, ActorFacts
<1>2. ~ Minds(r, r) /\ \A q \in Runs : Minds(r, q) => q = r
  BY DEF RunGoesOn, RunElse, StartQueued, StartDirect, Start, NobodyWorks, Working, Commit,
         ClaimInbox, SaveLetter, LettersOver, AckInbox, Close, Finish, Drain, CommitFails,
         ClaimInboxFails, AckInboxFails, DrainFails, Minds, Router
<1>3. closed' \subseteq Runs /\ closed \subseteq Runs /\ \A q \in Runs : q # r =>
        (q \in closed' <=> q \in closed) /\ rq'[q] = rq[q] /\ (q \in refused => q \in refused')
  <2>1. CASE StartDirect(r) \/ StartQueued(r)
    BY <2>1 DEF StartDirect, StartQueued, Start, Typed, RoutersOK
  <2>2. CASE Drain(r)
    BY <2>2 DEF Drain, Typed, RoutersOK
  <2>3. CASE Close(r)
    BY <2>3 DEF Close, Typed, RoutersOK
  <2>4. CASE ~ (StartDirect(r) \/ StartQueued(r) \/ Drain(r) \/ Close(r))
    <3>1. UNCHANGED <<rq, closed, refused>>
      BY <2>4
      DEF RunGoesOn, RunElse, Commit, ClaimInbox, SaveLetter, LettersOver, AckInbox,
          Finish, CommitFails, ClaimInboxFails, AckInboxFails, DrainFails, routerVars
    <3> QED
      BY <3>1 DEF Typed, RoutersOK
  <2> QED
    BY <2>1, <2>2, <2>3, <2>4
<1>4. r \in closed' /\ rq'[r] # <<>> =>
        \/ Minds(r, r)'
        \/ r \in closed /\ rq[r] # <<>> /\ (r \in refused => r \in refused')
  <2>1. CASE StartDirect(r) \/ StartQueued(r)
    BY <2>1 DEF StartDirect, StartQueued, Start
  <2>2. CASE Drain(r)
    BY <1>1, <2>2 DEF Drain, AllFine, Fine
  <2>3. CASE Close(r)
    BY <1>1, <2>3 DEF Close, Goto, Minds, Router, Typed, ControlOK
  <2>4. CASE ~ (StartDirect(r) \/ StartQueued(r) \/ Drain(r) \/ Close(r))
    BY <2>4
    DEF RunGoesOn, RunElse, Commit, ClaimInbox, SaveLetter, LettersOver, AckInbox,
        Finish, CommitFails, ClaimInboxFails, AckInboxFails, DrainFails, routerVars
  <2> QED
    BY <2>1, <2>2, <2>3, <2>4
<1> QED
  BY <1>1, <1>2, <1>3, <1>4, MindedStill

LEMMA SenderMinds ==
  ASSUME Typed, AllFine, NoneForgotten, NEW s \in Senders,
         \/ s \in Tasks /\ (TaskGoesOn(s) \/ Kill(s) \/ Exit(s) \/ \E r \in Runs : Spawn(s, r))
         \/ s \in Reports /\ (Report(s) \/ ReportGoesOn(s))
  PROVE  NoneForgotten'
<1>1. Moves(s)
  BY TaskMoves, ReportMoves
<1>2. UNCHANGED <<rq, closed, refused>>
  BY DEF TaskGoesOn, WriteKilled, WriteExit, Watch, Kill, Exit, Spawn, Report, ReportGoesOn,
         Enqueue, EnqueueFails, WriteLetter, WriteLetterFails, routerVars
<1>3. CASE pc[s] \notin {"recheck", "flush", "front", "pop"}
  BY <1>1, <1>2, <1>3, MindedStill DEF Minds
<1>4. CASE UNCHANGED <<pc, via>>
  <2>1. Moves(None)
    BY <1>4 DEF Moves
  <2> QED
    BY <1>2, <2>1, ActorFacts, MindedStill
<1>5. pc[s] \notin {"recheck", "flush", "front", "pop"} \/ UNCHANGED <<pc, via>>
  BY DEF TaskGoesOn, WriteKilled, WriteExit, Watch, Kill, Exit, Spawn, Report, ReportGoesOn,
         Enqueue, EnqueueFails, WriteLetter, WriteLetterFails
<1> QED
  BY <1>3, <1>4, <1>5

LEMMA NotifyMinds ==
  ASSUME Typed, AllFine, NoneForgotten, NEW s \in Senders, Notifies(s)
  PROVE  NoneForgotten'
<1>1. Moves(s) /\ s \in Actors /\ s \notin Runs
  BY NotifyMoves, ActorFacts
<1>2. PICK R \in Runs : R = via[s]
  BY <1>1 DEF Notifies, NotifyLate, NotifyActive, Recheck, AllFine, Fine
<1>3. /\ closed' = closed /\ refused' = refused /\ closed \subseteq Runs
      /\ \A q \in Runs : q # R => rq'[q] = rq[q]
  BY <1>2 DEF Notifies, NotifyLate, NotifyActive, Recheck, Push, routerVars, Typed, RoutersOK
<1>4. \A q : Minds(s, q) => q = R
  BY <1>1, <1>2 DEF Minds, Router
<1>5. R \in closed => Minds(s, R)'
  <2>1. R \in closed => pc'[s] = "flush" /\ via'[s] = R
    BY <1>1, <1>2
    DEF Notifies, NotifyLate, NotifyActive, Recheck, Goto, Typed, ControlOK
  <2> QED
    BY <1>1, <2>1 DEF Minds, Router
<1> QED
  BY <1>1, <1>3, <1>4, <1>5, MindedStill

LEMMA FlushMinds ==
  ASSUME Typed, AllFine, NoneForgotten, NEW a \in Actors, Flushes(a)
  PROVE  NoneForgotten'
<1>1. Moves(a) /\ FlushControl(a)
  BY FlushMoves, FlushIsControlled
<1>2. pc[a] \in Flushing
  BY DEF Flushes, FlushBegins, FlushEnds, Deliver, Pop, Refuse, Flushing
<1>3. PICK R \in Runs : R = Router(a)
  BY <1>2, FineIsRouted, FlusherHasRouter DEF Flushing
<1>4. /\ closed' = closed /\ closed \subseteq Runs
      /\ \A q \in Runs : q # R => rq'[q] = rq[q] /\ (q \in refused => q \in refused')
  BY <1>1, <1>3 DEF FlushControl, Typed, RoutersOK
<1>5. \A q : Minds(a, q) => q = R
  BY <1>3 DEF Minds
<1>6. rq'[R] # <<>> => R \in refused' \/ Minds(a, R)'
  <2>1. CASE FlushEnds(a)
    BY <1>3, <2>1 DEF FlushEnds
  <2>2. CASE Refuse(a)
    BY <1>3, <2>2 DEF Refuse
  <2>3. CASE FlushBegins(a) \/ Deliver(a) \/ Pop(a)
    <3>1. /\ via' = via
          /\ pc'[a] \in {"front", "pop"}
      BY <2>3 DEF FlushBegins, Deliver, Pop, Goto, Typed, ControlOK
    <3>2. Router(a)' = R
      BY <1>3, <3>1 DEF Router
    <3> QED
      BY <3>1, <3>2 DEF Minds
  <2> QED
    BY <2>1, <2>2, <2>3 DEF Flushes
<1> QED
  BY <1>1, <1>4, <1>5, <1>6, MindedStill

LEMMA BootMinds ==
  ASSUME NoneForgotten,
         \/ \E t \in Tasks \cup Foreign : Recover(t) \/ RecoverFails(t)
         \/ Crash \/ Repair
  PROVE  NoneForgotten'
<1>1. CASE Crash
  BY <1>1 DEF Crash, NoneForgotten
<1>2. CASE ~ Crash
  <2>1. UNCHANGED <<pc, via, rq, closed, refused>>
    BY <1>2 DEF Recover, RecoverFails, Repair, routerVars
  <2> QED
    BY <2>1 DEF NoneForgotten, Router
<1> QED
  BY <1>1, <1>2

-----------------------------------------------------------------------------
(* The invariant is kept *)

NoticesInv == Sound /\ RunsOK /\ NoneForgotten

LEMMA InitInv == Init => NoticesInv
<1> SUFFICES ASSUME Init
             PROVE  NoticesInv
  OBVIOUS
<1>1. Typed
  <2>1. ControlOK
    BY LabelFacts DEF Init, ControlOK
  <2>2. RoutersOK
    BY DEF Init, RoutersOK
  <2>3. StoresOK
    <3>1. <<>> \in Seq(Entries)
      OBVIOUS
    <3>2. \A q \in Seq(Entries) : [queued |-> q, inFlight |-> None] \in Pending
      BY DEF Pending
    <3>3. pend \in Pending
      BY <3>1, <3>2 DEF Init
    <3>4. log \in Seq(Entries) /\ qblocked \in BOOLEAN /\ sblocked \in BOOLEAN
      BY <3>1 DEF Init
    <3>5. failures \in 0 .. MaxFailures
      BY BoundAssumption DEF Init
    <3> QED
      BY <3>3, <3>4, <3>5 DEF StoresOK
  <2>4. MailOK
    <3>1. <<>> \in Seq(Entries)
      OBVIOUS
    <3>2. \A q, f \in Seq(Entries) : [queued |-> q, inFlight |-> f] \in MailBox
      BY DEF MailBox
    <3> QED
      BY <3>1, <3>2, CursorFacts DEF Init, MailOK
  <2>5. BootOK
    BY BoundAssumption DEF Init, BootOK
  <2> QED
    BY <2>1, <2>2, <2>3, <2>4, <2>5 DEF Typed
<1>2. \A a \in Actors : pc[a] = "idle"
  BY DEF Init
<1>3. AllFine /\ RunsOK /\ Whereabouts
  BY <1>2, ActorFacts
  DEF AllFine, Fine, RunsOK, OneWorks, InHand, LettersSaved, Working, Whereabouts, At, Init
<1>4. SavedSaid /\ Counted /\ NoneForgotten
  BY DEF SavedSaid, Counted, NoneForgotten, Init
<1> QED
  BY <1>1, <1>3, <1>4 DEF NoticesInv, Sound

LEMMA NextKeepsInv ==
  ASSUME NoticesInv, Next
  PROVE  NoticesInv'
<1>1. /\ Sound /\ Typed /\ AllFine /\ Counted /\ RunsOK /\ InHand /\ LettersSaved /\ Routed
      /\ NoneForgotten
  BY FineIsRouted DEF NoticesInv, Sound, RunsOK
<1>3. SUFFICES Steady /\ Typed' /\ RunsOK' /\ AllFine' /\ SavedSaid' /\ Whereabouts'
               /\ NoneForgotten'
  BY DEF NoticesInv, Sound, Steady
<1>4. Steady => Said \subseteq Said'
  BY DEF Steady, Grown
<1>5. ASSUME NEW r \in Runs, RunGoesOn(r) \/ RunElse(r)
      PROVE  Steady /\ Typed' /\ RunsOK' /\ AllFine' /\ SavedSaid' /\ Whereabouts'
             /\ NoneForgotten'
  <2>1. Steady
    BY <1>1, <1>5, StartIsSteady, CommitIsSteady, InboxIsSteady, TurnIsSteady
    DEF RunGoesOn, RunElse
  <2>2. Typed'
    BY <1>1, <1>5, StartTypes, CommitTypes, InboxTypes, TurnTypes DEF RunGoesOn, RunElse
  <2>3. RunsOK'
    BY <1>1, <1>5, StartKeepsRuns, InboxKeepsRuns, WorkKeepsRuns DEF RunGoesOn, RunElse
  <2>4. AllFine'
    BY <1>1, <1>5, <2>1, StartIsFine, WorkIsFine, TurnIsFine DEF RunGoesOn, RunElse
  <2> QED
    BY <1>1, <1>5, <2>1, <2>2, <2>3, <2>4, RunKnows, RunMinds
<1>6. ASSUME NEW t \in Tasks,
             TaskGoesOn(t) \/ Kill(t) \/ Exit(t) \/ \E r \in Runs : Spawn(t, r)
      PROVE  Steady /\ Typed' /\ RunsOK' /\ AllFine' /\ SavedSaid' /\ Whereabouts'
             /\ NoneForgotten'
  <2>1. Steady /\ Typed' /\ t \in Senders
    BY <1>1, <1>6, TaskIsSteady, TaskTypes, ActorFacts
  <2> QED
    BY <1>1, <1>4, <1>6, <2>1, SendersKeepRuns, TaskIsFine, TaskKnows, SenderMinds
<1>7. ASSUME NEW s \in Reports, Report(s) \/ ReportGoesOn(s)
      PROVE  Steady /\ Typed' /\ RunsOK' /\ AllFine' /\ SavedSaid' /\ Whereabouts'
             /\ NoneForgotten'
  <2>1. Steady /\ Typed' /\ s \in Senders
    BY <1>1, <1>7, ReportIsSteady, ReportTypes, ActorFacts
  <2> QED
    BY <1>1, <1>4, <1>7, <2>1, SendersKeepRuns, ReportIsFine, ReportKnows, SenderMinds
<1>8. ASSUME NEW s \in Senders, Notifies(s)
      PROVE  Steady /\ Typed' /\ RunsOK' /\ AllFine' /\ SavedSaid' /\ Whereabouts'
             /\ NoneForgotten'
  <2>1. Steady /\ Typed'
    BY <1>1, <1>8, NotifyIsSteady, NotifyTypes
  <2> QED
    BY <1>1, <1>4, <1>8, <2>1, SendersKeepRuns, NotifyIsFine, NotifyKnows, NotifyMinds
<1>9. ASSUME NEW a \in Actors, Flushes(a)
      PROVE  Steady /\ Typed' /\ RunsOK' /\ AllFine' /\ SavedSaid' /\ Whereabouts'
             /\ NoneForgotten'
  <2>1. Steady /\ Typed' /\ (a \in Runs \/ a \in Senders)
    BY <1>1, <1>9, FlushIsSteady, FlushTypes, ActorFacts
  <2> QED
    BY <1>1, <1>4, <1>9, <2>1, WorkKeepsRuns, SendersKeepRuns, FlushIsFine, FlushKnows, FlushMinds
<1>10. ASSUME \/ \E t \in Tasks \cup Foreign : Recover(t) \/ RecoverFails(t)
              \/ Crash \/ Repair
       PROVE  Steady /\ Typed' /\ RunsOK' /\ AllFine' /\ SavedSaid' /\ Whereabouts'
              /\ NoneForgotten'
  <2>1. Steady /\ Typed'
    BY <1>1, <1>10, RecoverIsSteady, BootIsSteady, BootTypes
  <2> QED
    BY <1>1, <1>4, <1>10, <2>1, BootKeepsRuns, BootIsFine, BootKnows, BootMinds
<1> QED
  BY <1>5, <1>6, <1>7, <1>8, <1>9, <1>10 DEF Next

LEMMA StutterKeepsInv ==
  ASSUME NoticesInv, UNCHANGED vars
  PROVE  NoticesInv'
<1>1. UNCHANGED <<pc, via, journal, killed, rq, closed, holder, registered, refused, pend,
                  qblocked, log, sblocked, mail, mblocked, saving, todo, lost, crashes,
                  failures>>
  BY DEF vars, taskVars, routerVars, queueVars, logVars, mailVars, bootVars
<1>2. Typed'
  BY <1>1 DEF NoticesInv, Sound, Typed, ControlOK, RoutersOK, StoresOK, MailOK, BootOK
<1>3. RunsOK'
  BY <1>1 DEF NoticesInv, RunsOK, OneWorks, InHand, LettersSaved, Working, Said
<1>4. AllFine'
  BY <1>1 DEF NoticesInv, Sound, AllFine, Fine, Router, Stored, Said
<1>5. SavedSaid' /\ Counted'
  BY <1>1 DEF NoticesInv, Sound, SavedSaid, Counted, Said
<1>6. Whereabouts'
  BY <1>1 DEF NoticesInv, Sound, Whereabouts, At, Stored, Safe, Said, Waiting, Letters
<1>7. NoneForgotten'
  BY <1>1 DEF NoticesInv, NoneForgotten, Router
<1> QED
  BY <1>2, <1>3, <1>4, <1>5, <1>6, <1>7 DEF NoticesInv, Sound

LEMMA NoticesInvariant == Spec => []NoticesInv
<1>1. NoticesInv /\ [Next]_vars => NoticesInv'
  BY NextKeepsInv, StutterKeepsInv
<1> QED
  BY InitInv, <1>1, PTL DEF Spec

\* Every state is of the declared types, the stores and the routers included.
THEOREM TypeCorrect == Spec => []TypeOK
<1>1. NoticesInv => TypeOK
  BY TypedIsTypeOK DEF NoticesInv, Sound
<1> QED
  BY NoticesInvariant, <1>1, PTL

\* What notify, the relay or the mailbox took is in the conversation, durably
\* on its way, or in a router; only a notice of which a write failed dies with
\* a router.
THEOREM NothingLostHolds == Spec => []NothingLost
<1>1. NoticesInv => NothingLost
  <2>1. SUFFICES ASSUME NoticesInv, NEW s \in Senders, pc[s] = "done",
                        s \in Tasks => killed[s] = "no"
                 PROVE  \/ Safe(Notice(s)) \/ Safe(Letter(s))
                        \/ \E r \in Runs : Notice(s) \in Waiting(r)
                        \/ s \in lost /\ failures > 0
    BY DEF NothingLost
  <2> QED
    BY <2>1 DEF NoticesInv, Sound, Whereabouts, At
<1> QED
  BY NoticesInvariant, <1>1, PTL

\* A notice in a closed router is minded by somebody, unless its delivery was
\* refused.
THEOREM NoneForgottenHolds == Spec => []NoneForgotten
<1>1. NoticesInv => NoneForgotten
  BY DEF NoticesInv
<1> QED
  BY NoticesInvariant, <1>1, PTL

=============================================================================
