---------------------------- MODULE KanbanProofs ----------------------------
(***************************************************************************)
(* One Kanban board, for every set of processes and cards and every        *)
(* workflow: what a command appends can be read again, and no open run is  *)
(* forsaken.                                                               *)
(*                                                                         *)
(* Both follow from one invariant with two parts.  BoardOK is about   *)
(* the log alone: an open run is the run of its card, which is Running, in *)
(* its column, and the ids of the runs count them.  RunnerOK is about one  *)
(* process: what it has paid for and what it has handled is over, or lost, *)
(* or is the run of the execution that holds the card.                     *)
(***************************************************************************)
EXTENDS Kanban, FiniteSetTheorems, TLAPS

-----------------------------------------------------------------------------
(* The board *)

RunsOf(c, column) == {r \in DOMAIN runs : r[1] = c /\ r[2] = column}

IsCard(x) == DOMAIN x = {"column", "status", "run"}

Counted ==
  /\ IsFiniteSet(DOMAIN runs)
  /\ \A r \in DOMAIN runs : r[3] \in Nat /\ r[3] <= Cardinality(RunsOf(r[1], r[2]))

\* The card of an open run is where the run was started, and Running.
Shown(r) ==
  /\ r[1] \in DOMAIN cards
  /\ cards[r[1]].status = "Running" /\ cards[r[1]].run = r /\ cards[r[1]].column = r[2]

BoardOK ==
  /\ Counted
  /\ \A c \in DOMAIN cards : IsCard(cards[c])
  /\ \A r \in Open : Shown(r)
  /\ ~corrupt

\* What the runner relies on: a run that is over stays over.
Forward ==
  /\ DOMAIN runs \subseteq DOMAIN runs'
  /\ \A r \in DOMAIN runs : r \in Open' => r \in Open

\* The id of the next run of a card is a new one.
LEMMA NextIsNew ==
  ASSUME Counted, NEW c
  PROVE  /\ NextRun(c) \notin DOMAIN runs
         /\ NextRun(c)[1] = c /\ NextRun(c)[2] = cards[c].column
         /\ NextRun(c)[3] = Cardinality(RunsOf(c, cards[c].column)) + 1
         /\ Cardinality(RunsOf(c, cards[c].column)) \in Nat
<1> DEFINE column == cards[c].column
<1>1. /\ NextRun(c)[1] = c /\ NextRun(c)[2] = column
      /\ NextRun(c)[3] = Cardinality(RunsOf(c, column)) + 1
  BY DEF NextRun, RunsOf
<1>2. IsFiniteSet(RunsOf(c, column))
  BY FS_Subset DEF RunsOf, Counted
<1>3. Cardinality(RunsOf(c, column)) \in Nat
  BY <1>2, FS_CardinalityType
<1>4. \A r \in DOMAIN runs : r[1] = c /\ r[2] = column => r[3] <= Cardinality(RunsOf(c, column))
  BY DEF Counted
<1>5. NextRun(c) \notin DOMAIN runs
  <2> HIDE DEF column
  <2> QED
    BY <1>1, <1>3, <1>4
<1> QED
  BY <1>1, <1>3, <1>5

LEMMA CountedGrows ==
  ASSUME Counted, NEW r, r \notin DOMAIN runs,
         r[3] = Cardinality(RunsOf(r[1], r[2])) + 1,
         DOMAIN runs' = DOMAIN runs \cup {r}
  PROVE  Counted'
<1>1. IsFiniteSet(DOMAIN runs')
  BY FS_AddElement DEF Counted
<1>2. ASSUME NEW q \in DOMAIN runs'
      PROVE  q[3] \in Nat /\ q[3] <= Cardinality(RunsOf(q[1], q[2])')
  <2> DEFINE Was == RunsOf(q[1], q[2])
             Is1 == RunsOf(q[1], q[2])'
  <2>1. IsFiniteSet(Was) /\ IsFiniteSet(Is1) /\ Was \subseteq Is1
    BY <1>1, FS_Subset DEF RunsOf, Counted
  <2>2. Cardinality(Was) \in Nat /\ Cardinality(Is1) \in Nat /\ Cardinality(Was) <= Cardinality(Is1)
    BY <2>1, FS_CardinalityType, FS_Subset
  <2>3. CASE q \in DOMAIN runs
    <3>1. q[3] \in Nat /\ q[3] <= Cardinality(Was)
      BY <2>3 DEF Counted
    <3> HIDE DEF Was, Is1
    <3> QED
      BY <2>2, <3>1 DEF Is1
  <2>4. CASE q = r
    <3>1. Is1 = Was \cup {r} /\ r \notin Was
      BY <2>4 DEF RunsOf
    <3>2. Cardinality(Is1) = Cardinality(Was) + 1
      BY <2>1, <3>1, FS_AddElement
    <3>3. q[3] = Cardinality(Was) + 1
      BY <2>4
    <3> HIDE DEF Was, Is1
    <3> QED
      BY <2>2, <3>2, <3>3 DEF Is1
  <2> QED
    BY <2>3, <2>4
<1> QED
  BY <1>1, <1>2 DEF Counted

LEMMA CountedSame ==
  ASSUME Counted, DOMAIN runs' = DOMAIN runs
  PROVE  Counted'
BY DEF Counted, RunsOf

\* A card that no open run is about may be put anywhere.
LEMMA CardPut ==
  ASSUME BoardOK, NEW c, NEW x, IsCard(x),
         \A r \in Open : r[1] # c,
         runs' = runs, corrupt' = FALSE,
         \/ cards' = [cards EXCEPT ![c] = x]
         \/ cards' = [d \in DOMAIN cards \cup {c} |-> IF d = c THEN x ELSE cards[d]]
  PROVE  BoardOK' /\ Forward
<1>1. Open' = Open /\ Counted'
  BY CountedSame DEF BoardOK, Open
<1>2. \A d \in DOMAIN cards : d \in DOMAIN cards' /\ (d # c => cards'[d] = cards[d])
  OBVIOUS
<1>3. \A r \in Open' : Shown(r)'
  BY <1>1, <1>2 DEF BoardOK, Shown
<1>4. \A d \in DOMAIN cards' : IsCard(cards'[d])
  BY DEF BoardOK
<1> QED
  BY <1>1, <1>3, <1>4 DEF BoardOK, Forward

LEMMA EnteredIsCard == \A column : IsCard(Entered(column))
BY DEF Entered, IsCard

LEMMA Idles ==
  ASSUME BoardOK, NEW c, c \notin DOMAIN cards \/ cards[c].status # "Running"
  PROVE  \A r \in Open : r[1] # c
BY DEF BoardOK, Shown

LEMMA StartKept ==
  ASSUME BoardOK, NEW c, StartRun(c)
  PROVE  /\ BoardOK' /\ Forward
         /\ NextRun(c) \notin DOMAIN runs /\ NextRun(c) \in DOMAIN runs'
         /\ NextRun(c)[1] = c
<1>0. PICK r : r = NextRun(c)
  OBVIOUS
<1>1. /\ r \notin DOMAIN runs /\ r[1] = c /\ r[2] = cards[c].column
      /\ r[3] = Cardinality(RunsOf(r[1], r[2])) + 1
  BY <1>0, NextIsNew DEF BoardOK
<1>2. /\ c \in DOMAIN cards /\ cards[c].status # "Running"
      /\ corrupt' = (corrupt \/ r \in DOMAIN runs)
      /\ cards' = [cards EXCEPT ![c].status = "Running", ![c].run = r]
      /\ runs' = [q \in DOMAIN runs \cup {r} |-> IF q = r THEN "open" ELSE runs[q]]
  BY <1>0 DEF StartRun, MayStart
<1>3. \A q \in Open : q[1] # c
  BY <1>2, Idles
<1>4. /\ DOMAIN cards' = DOMAIN cards
      /\ \A d \in DOMAIN cards : d # c => cards'[d] = cards[d]
  BY <1>2
<1>5. /\ IsCard(cards'[c]) /\ cards'[c].status = "Running" /\ cards'[c].run = r
      /\ cards'[c].column = cards[c].column
  BY <1>2 DEF BoardOK, IsCard
<1>6. Counted'
  <2>1. DOMAIN runs' = DOMAIN runs \cup {r}
    BY <1>2
  <2> QED
    BY <1>1, <2>1, CountedGrows DEF BoardOK
<1>7. Open' = Open \cup {r}
  BY <1>1, <1>2 DEF Open
<1>8. \A q \in Open' : Shown(q)'
  <2>1. Shown(r)'
    BY <1>1, <1>2, <1>4, <1>5 DEF Shown
  <2>2. ASSUME NEW q \in Open
        PROVE  Shown(q)'
    BY <1>3, <1>4 DEF BoardOK, Shown
  <2> QED
    BY <1>7, <2>1, <2>2
<1>9. ~corrupt'
  BY <1>1, <1>2 DEF BoardOK
<1>10. Forward
  BY <1>1, <1>2, <1>7 DEF Forward
<1>11. \A d \in DOMAIN cards' : IsCard(cards'[d])
  BY <1>4, <1>5 DEF BoardOK
<1> QED
  BY <1>0, <1>1, <1>2, <1>6, <1>8, <1>9, <1>10, <1>11 DEF BoardOK

LEMMA EndKept ==
  ASSUME BoardOK, NEW r, NEW outcome, outcome # "open", EndRun(r, outcome)
  PROVE  BoardOK' /\ Forward /\ r \notin Open'
<1>1. /\ r \in Open /\ runs' = [runs EXCEPT ![r] = outcome]
      /\ DOMAIN runs' = DOMAIN runs
  BY DEF EndRun, MayFinish
<1>2. Shown(r)
  BY <1>1 DEF BoardOK
<1>3. Open' = Open \ {r}
  BY <1>1 DEF Open
<1>4. ~corrupt'
  BY <1>2 DEF EndRun, MoveCard, Block, BoardOK, Shown
<1>5. PICK x : IsCard(x) /\ cards' = [cards EXCEPT ![r[1]] = x]
  <2>1. CASE Block(r[1])
    <3> DEFINE x == [cards[r[1]] EXCEPT !.status = "Blocked", !.run = None]
    <3>1. IsCard(x)
      BY <1>2 DEF BoardOK, Shown, IsCard
    <3>2. cards' = [cards EXCEPT ![r[1]] = x]
      BY <2>1 DEF Block
    <3> QED
      BY <3>1, <3>2
  <2>2. ASSUME NEW to, MoveCard(r[1], r[2], to)
        PROVE  \E x : IsCard(x) /\ cards' = [cards EXCEPT ![r[1]] = x]
    BY <2>2, EnteredIsCard DEF MoveCard
  <2> QED
    BY <2>1, <2>2 DEF EndRun
<1>6. \A q \in Open' : q[1] # r[1]
  BY <1>2, <1>3 DEF BoardOK, Shown
<1>7. /\ DOMAIN cards' = DOMAIN cards
      /\ \A d \in DOMAIN cards : d # r[1] => cards'[d] = cards[d]
      /\ \A d \in DOMAIN cards : IsCard(cards'[d])
  BY <1>5 DEF BoardOK
<1>8. \A q \in Open' : Shown(q)'
  BY <1>3, <1>6, <1>7 DEF BoardOK, Shown
<1>9. Counted'
  BY <1>1, CountedSame DEF BoardOK
<1> QED
  BY <1>1, <1>3, <1>4, <1>7, <1>8, <1>9 DEF BoardOK, Forward

LEMMA BoardSame ==
  ASSUME BoardOK, UNCHANGED <<cards, runs, corrupt>>
  PROVE  BoardOK' /\ Forward
<1>1. Counted' /\ Open' = Open
  BY CountedSame DEF BoardOK, Open
<1> QED
  BY <1>1 DEF BoardOK, Forward, Shown

\* The commands of people keep the board as it has to be.
LEMMA PeopleKeep ==
  ASSUME BoardOK, People
  PROVE  BoardOK' /\ Forward
<1>1. ASSUME NEW c, NEW column, CreateCard(c, column)
      PROVE  BoardOK' /\ Forward
  <2>1. \A r \in Open : r[1] # c
    BY <1>1, Idles DEF CreateCard
  <2>2. /\ runs' = runs /\ corrupt' = FALSE
        /\ cards' = [d \in DOMAIN cards \cup {c} |-> IF d = c THEN Entered(column) ELSE cards[d]]
    BY <1>1 DEF CreateCard, BoardOK
  <2> QED
    BY <2>1, <2>2, CardPut, EnteredIsCard
<1>2. ASSUME NEW c, NEW outcome, MoveByOutcome(c, outcome)
      PROVE  BoardOK' /\ Forward
  <2>1. PICK to : MoveCard(c, cards[c].column, to)
    BY <1>2 DEF MoveByOutcome
  <2>2. \A r \in Open : r[1] # c
    BY <1>2, Idles DEF MoveByOutcome, Movable
  <2>3. runs' = runs /\ corrupt' = FALSE /\ cards' = [cards EXCEPT ![c] = Entered(to)]
    BY <1>2, <2>1 DEF MoveByOutcome, MoveCard, BoardOK
  <2> QED
    BY <2>2, <2>3, CardPut, EnteredIsCard
<1>3. ASSUME NEW c, Retry(c)
      PROVE  BoardOK' /\ Forward
  BY <1>3, StartKept DEF Retry
<1>4. CASE SetPolicy
  BY <1>4, BoardSame DEF SetPolicy
<1> QED
  BY <1>1, <1>2, <1>3, <1>4 DEF People, Create, Move

-----------------------------------------------------------------------------
(* The runners *)

\* The runs whose outcome is still to be written, by somebody who can.
Ours == Open \ lost

\* The card of r is held by an execution of r in p.
Holds(p, r, places) ==
  /\ r[1] \in DOMAIN tasks[p]
  /\ tasks[p][r[1]].pc \in places /\ tasks[p][r[1]].run = r

IsTask(t) == DOMAIN t = {"pc", "run"} /\ t.pc \in {"launch", "adopt", "work", "end"}

TaskOK(p, c) ==
  LET t == tasks[p][c] IN
  /\ IsTask(t)
  /\ t.pc \in {"adopt", "work"} => t.run \in DOMAIN runs /\ t.run[1] = c
  /\ t.pc = "adopt" => t.run \notin paid[p] \cap Ours
  /\ t.pc = "end" /\ t.run # None => t.run \in DOMAIN runs \ Ours

PaidOK(p) == \A r \in paid[p] : r \in DOMAIN runs /\ (r \in Ours => Holds(p, r, {"work"}))

HandledOK(p) ==
  \A r \in handled[p] : r \in DOMAIN runs /\ (r \in Ours => Holds(p, r, {"adopt", "work"}))

RunnerOK(p) ==
  /\ inflight[p] = DOMAIN tasks[p]
  /\ \A c \in DOMAIN tasks[p] : TaskOK(p, c)
  /\ PaidOK(p)
  /\ HandledOK(p)
  /\ \A i \in todo[p] : i[1] # "ready" => i[2] \in DOMAIN runs
  /\ twice[p] \subseteq lost

\* Each process has its own part of everything.
Shaped ==
  /\ DOMAIN old = Processes /\ DOMAIN todo = Processes /\ DOMAIN inflight = Processes
  /\ DOMAIN handled = Processes /\ DOMAIN tasks = Processes
  /\ DOMAIN paid = Processes /\ DOMAIN twice = Processes

KInv == BoardOK /\ Shaped /\ \A p \in Processes : RunnerOK(p)

\* Nothing of the process q changes but what it has left to do.
Untouched(q) ==
  /\ tasks'[q] = tasks[q] /\ inflight'[q] = inflight[q] /\ handled'[q] = handled[q]
  /\ paid'[q] = paid[q] /\ twice'[q] = twice[q]

Advance == Forward /\ lost \subseteq lost'

LEMMA OursShrinks ==
  ASSUME Advance
  PROVE  /\ \A r \in DOMAIN runs : r \in DOMAIN runs' /\ (r \in Ours' => r \in Ours)
BY DEF Advance, Forward, Ours

LEMMA UntouchedKept ==
  ASSUME NEW q, RunnerOK(q), Advance, Untouched(q),
         \A i \in todo'[q] : i \in todo[q] \/ (i[1] # "ready" => i[2] \in DOMAIN runs')
  PROVE  RunnerOK(q)'
<1>1. \A c \in DOMAIN tasks[q] : TaskOK(q, c)'
  BY OursShrinks DEF RunnerOK, TaskOK, Untouched
<1>2. PaidOK(q)'
  BY OursShrinks DEF RunnerOK, PaidOK, Holds, Untouched
<1>3. HandledOK(q)'
  BY OursShrinks DEF RunnerOK, HandledOK, Holds, Untouched
<1>4. \A i \in todo'[q] : i[1] # "ready" => i[2] \in DOMAIN runs'
  BY OursShrinks DEF RunnerOK
<1>5. twice'[q] \subseteq lost'
  BY DEF RunnerOK, Untouched, Advance
<1> QED
  BY <1>1, <1>2, <1>3, <1>4, <1>5 DEF RunnerOK, Untouched

\* What a step of p does to the other processes.
OthersKept(p) ==
  \A q \in Processes \ {p} : Untouched(q) /\ todo'[q] = todo[q]

LEMMA StepKeeps ==
  ASSUME KInv, NEW p, BoardOK', Shaped', Advance, OthersKept(p),
         p \in Processes => RunnerOK(p)'
  PROVE  KInv'
<1>1. ASSUME NEW q \in Processes, q # p
      PROVE  RunnerOK(q)'
  BY <1>1, UntouchedKept DEF KInv, OthersKept
<1> QED
  BY <1>1 DEF KInv

\* The execution of c in p goes on as t, and nothing else in p changes but the
\* list of what it has paid.
LEMMA GoesShape ==
  ASSUME Shaped, NEW p \in Processes, NEW c \in DOMAIN tasks[p], NEW t, Goes(p, c, t)
  PROVE  /\ DOMAIN tasks' = Processes
         /\ \A q \in Processes \ {p} : tasks'[q] = tasks[q]
         /\ DOMAIN tasks'[p] = DOMAIN tasks[p]
         /\ \A d \in DOMAIN tasks[p] : tasks'[p][d] = IF d = c THEN t ELSE tasks[p][d]
BY DEF Goes, Shaped

\* An execution that ends leaves nothing that is ours.
LEMMA EndingKept ==
  ASSUME KInv, Advance, NEW p \in Processes, NEW c \in DOMAIN tasks[p], NEW r,
         Goes(p, c, Task("end", r)),
         r = None \/ r \in DOMAIN runs' \ Ours',
         tasks[p][c].pc \in {"adopt", "work"} => tasks[p][c].run \notin Ours',
         inflight' = inflight, handled' = handled, todo' = todo, paid' = paid, twice' = twice
  PROVE  RunnerOK(p)'
<1>1. /\ DOMAIN tasks'[p] = DOMAIN tasks[p]
      /\ \A d \in DOMAIN tasks[p] : tasks'[p][d] = IF d = c THEN Task("end", r) ELSE tasks[p][d]
  BY GoesShape DEF KInv
<1>2. RunnerOK(p)
  BY DEF KInv
<1>3. IsTask(Task("end", r)) /\ Task("end", r).pc = "end" /\ Task("end", r).run = r
  BY DEF Task, IsTask
<1>4. \A d \in DOMAIN tasks[p] : TaskOK(p, d)'
  <2>1. TaskOK(p, c)'
    BY <1>1, <1>3 DEF TaskOK
  <2>2. ASSUME NEW d \in DOMAIN tasks[p], d # c
        PROVE  TaskOK(p, d)'
    BY <1>1, <1>2, <2>2, OursShrinks DEF RunnerOK, TaskOK
  <2> QED
    BY <2>1, <2>2
<1>5. ASSUME NEW q \in DOMAIN runs, NEW places \in SUBSET {"adopt", "work"}, q \in Ours', Holds(p, q, places)
      PROVE  Holds(p, q, places)'
  BY <1>1, <1>5 DEF Holds
<1>6. PaidOK(p)'
  BY <1>2, <1>5, OursShrinks DEF RunnerOK, PaidOK
<1>7. HandledOK(p)'
  BY <1>2, <1>5, OursShrinks DEF RunnerOK, HandledOK
<1>8. /\ inflight'[p] = DOMAIN tasks'[p]
      /\ \A i \in todo'[p] : i[1] # "ready" => i[2] \in DOMAIN runs'
      /\ twice'[p] \subseteq lost'
  BY <1>1, <1>2, OursShrinks DEF RunnerOK, Advance
<1> QED
  BY <1>1, <1>4, <1>6, <1>7, <1>8 DEF RunnerOK

\* An execution starts work at r, which no execution of p had in hand.
LEMMA WorkingKept ==
  ASSUME KInv, Advance, NEW p \in Processes, NEW c \in DOMAIN tasks[p], NEW r,
         Goes(p, c, Task("work", r)), Executes(p, r),
         r \in DOMAIN runs', r[1] = c, r \notin paid[p] \cap Ours,
         r \in paid[p] => r \in Open,
         tasks[p][c].pc = "launch" \/ (tasks[p][c].pc = "adopt" /\ tasks[p][c].run = r),
         inflight' = inflight, handled' = handled, todo' = todo
  PROVE  RunnerOK(p)'
<1>1. /\ DOMAIN tasks'[p] = DOMAIN tasks[p]
      /\ \A d \in DOMAIN tasks[p] : tasks'[p][d] = IF d = c THEN Task("work", r) ELSE tasks[p][d]
  BY GoesShape DEF KInv
<1>2. RunnerOK(p) /\ Shaped
  BY DEF KInv
<1>3. IsTask(Task("work", r)) /\ Task("work", r).pc = "work" /\ Task("work", r).run = r
  BY DEF Task, IsTask
<1>4. /\ paid'[p] = paid[p] \cup {r}
      /\ twice'[p] = IF r \in paid[p] THEN twice[p] \cup {r} ELSE twice[p]
      /\ lost' = lost
  BY <1>2 DEF Executes, Shaped
<1>5. \A d \in DOMAIN tasks[p] : TaskOK(p, d)'
  <2>1. TaskOK(p, c)'
    BY <1>1, <1>3 DEF TaskOK
  <2>2. ASSUME NEW d \in DOMAIN tasks[p], d # c
        PROVE  TaskOK(p, d)'
    <3>1. tasks'[p][d] = tasks[p][d] /\ TaskOK(p, d)
      BY <1>1, <1>2, <2>2 DEF RunnerOK
    <3>2. tasks[p][d].pc = "adopt" => tasks[p][d].run # r
      BY <2>2, <3>1 DEF TaskOK
    <3> QED
      BY <1>4, <3>1, <3>2, OursShrinks DEF TaskOK
  <2> QED
    BY <2>1, <2>2
<1>6. Holds(p, r, {"work"})' /\ Holds(p, r, {"adopt", "work"})'
  BY <1>1, <1>3 DEF Holds
<1>7. ASSUME NEW q \in DOMAIN runs, q # r, NEW places \in SUBSET {"adopt", "work"}, Holds(p, q, places)
      PROVE  Holds(p, q, places)'
  BY <1>1, <1>7 DEF Holds
<1>8. PaidOK(p)'
  BY <1>2, <1>4, <1>6, <1>7, OursShrinks DEF RunnerOK, PaidOK
<1>9. HandledOK(p)'
  BY <1>2, <1>6, <1>7, OursShrinks DEF RunnerOK, HandledOK
<1>10. twice'[p] \subseteq lost'
  BY <1>2, <1>4 DEF RunnerOK, Ours
<1>11. /\ inflight'[p] = DOMAIN tasks'[p]
       /\ \A i \in todo'[p] : i[1] # "ready" => i[2] \in DOMAIN runs'
  BY <1>1, <1>2, OursShrinks DEF RunnerOK
<1> QED
  BY <1>1, <1>5, <1>8, <1>9, <1>10, <1>11 DEF RunnerOK

\* A card that is free is claimed for a new execution.
LEMMA SpawnKept ==
  ASSUME KInv, NEW p \in Processes, NEW c, Free(p, c), NEW t, Spawn(p, c, t), IsTask(t),
         \/ t.pc = "launch" /\ handled'[p] = handled[p]
         \/ /\ t.pc = "adopt" /\ t.run \in DOMAIN runs /\ t.run[1] = c
            /\ handled'[p] = handled[p] \cup {t.run},
         todo'[p] \subseteq todo[p],
         UNCHANGED <<board, ghosts>>
  PROVE  RunnerOK(p)'
<1>1. RunnerOK(p) /\ Shaped
  BY DEF KInv
<1>2. /\ DOMAIN tasks'[p] = DOMAIN tasks[p] \cup {c} /\ c \notin DOMAIN tasks[p]
      /\ tasks'[p][c] = t /\ \A d \in DOMAIN tasks[p] : tasks'[p][d] = tasks[p][d]
      /\ inflight'[p] = DOMAIN tasks'[p]
  BY <1>1 DEF Spawn, Free, RunnerOK, Shaped
<1>3. /\ runs' = runs /\ Ours' = Ours /\ paid' = paid /\ twice' = twice /\ lost' = lost
  BY DEF board, ghosts, Ours, Open
<1>4. \A q, places : Holds(p, q, places) => Holds(p, q, places)' /\ q[1] # c
  BY <1>2 DEF Holds
<1>5. TaskOK(p, c)'
  BY <1>1, <1>2, <1>3, <1>4 DEF TaskOK, RunnerOK, PaidOK
<1>6. \A d \in DOMAIN tasks[p] : TaskOK(p, d)'
  BY <1>1, <1>2, <1>3 DEF TaskOK, RunnerOK
<1>7. PaidOK(p)'
  BY <1>1, <1>3, <1>4 DEF PaidOK, RunnerOK
<1>8. t.pc = "adopt" => Holds(p, t.run, {"adopt", "work"})'
  BY <1>2 DEF Holds
<1>9. HandledOK(p)'
  BY <1>1, <1>3, <1>4, <1>8 DEF HandledOK, RunnerOK
<1> QED
  BY <1>1, <1>2, <1>3, <1>5, <1>6, <1>7, <1>9 DEF RunnerOK

-----------------------------------------------------------------------------
(* The steps *)

LEMMA PeopleStep == KInv /\ People => KInv'
<1> SUFFICES ASSUME KInv, People
             PROVE  KInv'
  OBVIOUS
<1>1. UNCHANGED <<runner, ghosts>>
  BY DEF People, Create, Move, Retry, SetPolicy, Command
<1>2. BoardOK' /\ Advance
  BY <1>1, PeopleKeep DEF KInv, Advance, ghosts
<1>3. \A q \in Processes : RunnerOK(q)'
  BY <1>1, <1>2, UntouchedKept DEF KInv, Untouched, runner, ghosts
<1>4. Shaped'
  BY <1>1 DEF KInv, Shaped, runner, ghosts
<1> QED
  BY <1>2, <1>3, <1>4 DEF KInv

\* A step of p that changes at most the board, and what is left to do.
LEMMA ListStep ==
  ASSUME KInv, NEW p \in Processes, BoardOK', Forward,
         UNCHANGED <<old, inflight, handled, tasks, ghosts>>,
         NEW items, todo' = [todo EXCEPT ![p] = items],
         \A i \in items : i \in todo[p] \/ (i[1] # "ready" => i[2] \in DOMAIN runs')
  PROVE  KInv'
<1>1. Advance /\ OthersKept(p) /\ Shaped' /\ todo'[p] = items /\ Untouched(p)
  BY DEF KInv, Advance, OthersKept, Untouched, Shaped, ghosts
<1>2. RunnerOK(p)'
  BY <1>1, UntouchedKept DEF KInv
<1> QED
  BY <1>1, <1>2, StepKeeps

LEMMA ScanStep ==
  ASSUME KInv, NEW p \in Processes, Scan(p)
  PROVE  KInv'
<1>1. BoardOK' /\ Forward
  BY BoardSame DEF Scan, KInv, board
<1>2. \A i \in Found(p) : i[1] # "ready" => i[2] \in DOMAIN runs'
  BY DEF Found, Open, Scan, board
<1> QED
  BY <1>1, <1>2, ListStep DEF Scan

LEMMA ItemStep ==
  ASSUME KInv, NEW p \in Processes, Item(p) \/ ItemFails(p)
  PROVE  KInv'
<1>1. ASSUME NEW r, Recover(p, r)
      PROVE  KInv'
  <2>1. BoardOK' /\ Forward
    BY <1>1, EndKept, BoardSame DEF Recover, KInv, board
  <2> QED
    BY <1>1, <2>1, ListStep DEF Recover, Done
<1>2. ASSUME NEW r, RecoverFails(p, r)
      PROVE  KInv'
  <2>1. BoardOK' /\ Forward
    BY <1>2, EndKept, BoardSame DEF RecoverFails, KInv, board
  <2> QED
    BY <1>2, <2>1, ListStep DEF RecoverFails, Done
<1>3. ASSUME NEW r, Look(p, r)
      PROVE  KInv'
  <2>1. BoardOK' /\ Forward
    BY <1>3, BoardSame DEF Look, KInv, board
  <2>2. r \in DOMAIN runs'
    BY <1>3 DEF Look, Due, KInv, RunnerOK, board
  <2>3. PICK more \in SUBSET {<<"claim", r>>} : todo' = [todo EXCEPT ![p] = (@ \ {<<"adopt", r>>}) \cup more]
    BY <1>3 DEF Look
  <2>4. \A i \in (todo[p] \ {<<"adopt", r>>}) \cup more :
          i \in todo[p] \/ (i[1] # "ready" => i[2] \in DOMAIN runs')
    BY <2>2
  <2>5. UNCHANGED <<old, inflight, handled, tasks, ghosts>>
    BY <1>3 DEF Look
  <2> QED
    BY <2>1, <2>3, <2>4, <2>5, ListStep
<1>4. ASSUME NEW r, Adopt(p, r)
      PROVE  KInv'
  <2>1. BoardOK' /\ Forward
    BY <1>4, BoardSame DEF Adopt, KInv, board
  <2>2. CASE ~ Free(p, r[1])
    BY <1>4, <2>1, <2>2, ListStep DEF Adopt, Done
  <2>3. CASE Free(p, r[1])
    <3>1. /\ Spawn(p, r[1], Task("adopt", r)) /\ handled' = [handled EXCEPT ![p] = @ \cup {r}]
          /\ todo' = [todo EXCEPT ![p] = @ \ {<<"claim", r>>}] /\ UNCHANGED <<board, old, ghosts>>
      BY <1>4, <2>3 DEF Adopt, Done
    <3>2. /\ IsTask(Task("adopt", r)) /\ Task("adopt", r).pc = "adopt" /\ Task("adopt", r).run = r
      BY DEF Task, IsTask
    <3>3. r \in DOMAIN runs
      BY <1>4 DEF Adopt, Due, KInv, RunnerOK
    <3>4. handled'[p] = handled[p] \cup {r} /\ todo'[p] \subseteq todo[p]
      BY <3>1 DEF KInv, Shaped
    <3>5. RunnerOK(p)'
      BY <2>3, <3>1, <3>2, <3>3, <3>4, SpawnKept
    <3>6. Shaped' /\ Advance /\ OthersKept(p)
      BY <2>1, <3>1 DEF KInv, Shaped, Advance, OthersKept, Untouched, Spawn, ghosts
    <3> QED
      BY <2>1, <3>5, <3>6, StepKeeps
  <2> QED
    BY <2>2, <2>3
<1>5. ASSUME NEW c, Launch(p, c)
      PROVE  KInv'
  <2>1. BoardOK' /\ Forward
    BY <1>5, BoardSame DEF Launch, KInv, board
  <2>2. CASE ~ Free(p, c)
    BY <1>5, <2>1, <2>2, ListStep DEF Launch, Done
  <2>3. CASE Free(p, c)
    <3>1. /\ Spawn(p, c, Task("launch", None)) /\ handled' = handled
          /\ todo' = [todo EXCEPT ![p] = @ \ {<<"ready", c>>}] /\ UNCHANGED <<board, old, ghosts>>
      BY <1>5, <2>3 DEF Launch, Done
    <3>2. IsTask(Task("launch", None)) /\ Task("launch", None).pc = "launch"
      BY DEF Task, IsTask
    <3>3. todo'[p] \subseteq todo[p]
      BY <3>1 DEF KInv, Shaped
    <3>4. RunnerOK(p)'
      BY <2>3, <3>1, <3>2, <3>3, SpawnKept
    <3>5. Shaped' /\ Advance /\ OthersKept(p)
      BY <2>1, <3>1 DEF KInv, Shaped, Advance, OthersKept, Untouched, Spawn, ghosts
    <3> QED
      BY <2>1, <3>4, <3>5, StepKeeps
  <2> QED
    BY <2>2, <2>3
<1> QED
  BY <1>1, <1>2, <1>3, <1>4, <1>5 DEF Item, ItemFails

\* A step of the execution of c that changes no more than the list of tasks.
LEMMA EndingStep ==
  ASSUME KInv, BoardOK', Advance, NEW p \in Processes, NEW c \in DOMAIN tasks[p], NEW r,
         Goes(p, c, Task("end", r)),
         r = None \/ r \in DOMAIN runs' \ Ours',
         tasks[p][c].pc \in {"adopt", "work"} => tasks[p][c].run \notin Ours',
         UNCHANGED <<old, todo, inflight, handled, paid, twice>>
  PROVE  KInv'
<1>1. RunnerOK(p)'
  BY EndingKept
<1>2. Shaped' /\ OthersKept(p)
  BY GoesShape DEF KInv, Shaped, OthersKept, Untouched
<1> QED
  BY <1>1, <1>2, StepKeeps

LEMMA WorkingStep ==
  ASSUME KInv, BoardOK', Forward, NEW p \in Processes, NEW c \in DOMAIN tasks[p], NEW r,
         Goes(p, c, Task("work", r)), Executes(p, r),
         r \in DOMAIN runs', r[1] = c, r \notin paid[p] \cap Ours,
         r \in paid[p] => r \in Open,
         tasks[p][c].pc = "launch" \/ (tasks[p][c].pc = "adopt" /\ tasks[p][c].run = r),
         UNCHANGED <<old, todo, inflight, handled>>
  PROVE  KInv'
<1>1. Advance
  BY DEF Advance, Executes
<1>2. RunnerOK(p)'
  BY <1>1, WorkingKept
<1>3. Shaped' /\ OthersKept(p)
  BY GoesShape DEF KInv, Shaped, OthersKept, Untouched, Executes
<1> QED
  BY <1>1, <1>2, <1>3, StepKeeps

\* What is known of the execution of c.
LEMMA TaskFacts ==
  ASSUME KInv, NEW p \in Processes, NEW c \in DOMAIN tasks[p]
  PROVE  /\ tasks[p][c].pc \in {"adopt", "work"} => tasks[p][c].run \in DOMAIN runs /\ tasks[p][c].run[1] = c
         /\ tasks[p][c].pc = "adopt" => tasks[p][c].run \notin paid[p] \cap Ours
         /\ tasks[p][c].pc = "end" /\ tasks[p][c].run # None => tasks[p][c].run \in DOMAIN runs \ Ours
         /\ inflight[p] = DOMAIN tasks[p]
BY DEF KInv, RunnerOK, TaskOK

LEMMA ClaimStep ==
  ASSUME KInv, NEW p \in Processes, NEW c \in DOMAIN tasks[p], Claim(p, c)
  PROVE  KInv'
<1>1. /\ BoardOK' /\ Forward
      /\ NextRun(c) \notin DOMAIN runs /\ NextRun(c) \in DOMAIN runs' /\ NextRun(c)[1] = c
  BY StartKept DEF Claim, KInv
<1>2. NextRun(c) \notin paid[p]
  BY <1>1 DEF KInv, RunnerOK, PaidOK
<1> QED
  BY <1>1, <1>2, WorkingStep DEF Claim, Is

LEMMA TakeOverStep ==
  ASSUME KInv, NEW p \in Processes, NEW c \in DOMAIN tasks[p], TakeOver(p, c)
  PROVE  KInv'
<1> DEFINE r == tasks[p][c].run
<1>1. BoardOK' /\ Forward /\ runs' = runs
  BY BoardSame DEF TakeOver, KInv, board
<1>2. /\ tasks[p][c].pc = "adopt" /\ r \in DOMAIN runs /\ r[1] = c /\ r \notin paid[p] \cap Ours
  BY TaskFacts DEF TakeOver, Is
<1>3. CASE r \in Open /\ ~corrupt
  BY <1>1, <1>2, <1>3, WorkingStep DEF TakeOver
<1>4. CASE ~ (r \in Open /\ ~corrupt)
  <2>1. r \notin Open
    BY <1>4 DEF KInv, BoardOK
  <2>2. /\ Goes(p, c, Task("end", r))
        /\ UNCHANGED <<old, todo, inflight, handled, paid, twice, lost>>
    BY <1>4 DEF TakeOver, ghosts
  <2>3. PICK q : q = r
    OBVIOUS
  <2>4. q \in DOMAIN runs' \ Ours' /\ Advance
    BY <1>1, <1>2, <2>1, <2>2, <2>3 DEF Ours, Open, Advance
  <2> QED
    BY <1>1, <2>2, <2>3, <2>4, EndingStep
<1> QED
  BY <1>3, <1>4

LEMMA LandStep ==
  ASSUME KInv, NEW p \in Processes, NEW c \in DOMAIN tasks[p], NEW outcome \in Outcomes,
         Land(p, c, outcome) \/ LandRefused(p, c, outcome)
  PROVE  KInv'
<1>1. PICK r : r = tasks[p][c].run
  OBVIOUS
<1>2. tasks[p][c].pc = "work" /\ r \in DOMAIN runs
  BY <1>1, TaskFacts DEF Land, LandRefused, Is
<1>3. CASE Land(p, c, outcome)
  <2>1. BoardOK' /\ Forward /\ r \notin Open'
    BY <1>1, <1>3, EndKept DEF Land, KInv, Outcomes
  <2>2. Goes(p, c, Task("end", r)) /\ UNCHANGED <<old, todo, inflight, handled, paid, twice, lost>>
    BY <1>1, <1>3 DEF Land, Ended, ghosts
  <2>3. r \in DOMAIN runs' \ Ours' /\ Advance
    BY <1>2, <2>1, <2>2 DEF Ours, Forward, Advance
  <2> QED
    BY <1>1, <2>1, <2>2, <2>3, EndingStep
<1>4. CASE LandRefused(p, c, outcome)
  <2>1. BoardOK' /\ Forward /\ runs' = runs
    BY <1>4, BoardSame DEF LandRefused, KInv, board
  <2>2. /\ Goes(p, c, Task("end", r)) /\ lost' = lost \cup {r}
        /\ UNCHANGED <<old, todo, inflight, handled, paid, twice>>
    BY <1>1, <1>4 DEF LandRefused, Ended
  <2>3. r \in DOMAIN runs' \ Ours' /\ Advance
    BY <1>2, <2>1, <2>2 DEF Ours, Advance
  <2> QED
    BY <1>1, <2>1, <2>2, <2>3, EndingStep
<1> QED
  BY <1>3, <1>4

LEMMA FailStep ==
  ASSUME KInv, NEW p \in Processes, NEW c \in DOMAIN tasks[p],
         ClaimRefused(p, c) \/ ClaimFails(p, c) \/ Drop(p, c)
  PROVE  KInv'
<1>1. BoardOK' /\ Forward
  <2>1. BoardOK
    BY DEF KInv
  <2>2. CASE UNCHANGED <<cards, runs, corrupt>>
    BY <2>1, <2>2, BoardSame
  <2>3. CASE StartRun(c)
    BY <2>1, <2>3, StartKept
  <2>4. CASE \E outcome \in Outcomes : EndRun(tasks[p][c].run, outcome)
    <3>1. PICK outcome \in Outcomes : EndRun(tasks[p][c].run, outcome)
      BY <2>4
    <3>2. outcome # "open"
      BY DEF Outcomes
    <3> QED
      BY <2>1, <3>1, <3>2, EndKept
  <2> QED
    BY <2>2, <2>3, <2>4 DEF ClaimRefused, ClaimFails, Drop, board
<1>2. CASE ClaimRefused(p, c) \/ ClaimFails(p, c)
  <2>1. /\ tasks[p][c].pc = "launch" /\ Goes(p, c, Task("end", None))
        /\ UNCHANGED <<old, todo, inflight, handled, paid, twice, lost>>
    BY <1>2 DEF ClaimRefused, ClaimFails, Is, ghosts
  <2>2. Advance
    BY <1>1, <2>1 DEF Advance
  <2> QED
    BY <1>1, <2>1, <2>2, EndingStep
<1>3. CASE Drop(p, c)
  <2>1. PICK r : r = tasks[p][c].run
    OBVIOUS
  <2>2. /\ Goes(p, c, Task("end", r)) /\ lost' = lost \cup {r} /\ r \in DOMAIN runs
        /\ UNCHANGED <<old, todo, inflight, handled, paid, twice>>
    BY <1>3, <2>1, TaskFacts DEF Drop, Ended, Is
  <2>3. r \in DOMAIN runs' \ Ours' /\ Advance
    BY <1>1, <2>2 DEF Ours, Forward, Advance
  <2> QED
    BY <1>1, <2>1, <2>2, <2>3, EndingStep
<1> QED
  BY <1>2, <1>3

LEMMA LeaveStep ==
  ASSUME KInv, NEW p \in Processes, NEW c \in DOMAIN tasks[p], Leave(p, c)
  PROVE  KInv'
<1>1. BoardOK' /\ Forward /\ Advance /\ Ours' = Ours /\ runs' = runs
  BY BoardSame DEF Leave, KInv, board, ghosts, Advance, Ours, Open
<1>2. RunnerOK(p) /\ Shaped
  BY DEF KInv
<1>3. /\ inflight'[p] = inflight[p] \ {c} /\ DOMAIN tasks'[p] = DOMAIN tasks[p] \ {c}
      /\ \A d \in DOMAIN tasks'[p] : tasks'[p][d] = tasks[p][d]
      /\ handled'[p] = handled[p] \cup ({tasks[p][c].run} \ {None})
      /\ todo' = todo /\ paid' = paid /\ twice' = twice /\ lost' = lost
      /\ tasks[p][c].pc = "end"
  BY <1>2 DEF Leave, Shaped, Restrict, ghosts, Is
<1>4. \A q, places : places \in SUBSET {"adopt", "work"} /\ Holds(p, q, places) => Holds(p, q, places)'
  BY <1>3 DEF Holds
<1>5. \A d \in DOMAIN tasks'[p] : TaskOK(p, d)'
  BY <1>1, <1>2, <1>3 DEF RunnerOK, TaskOK
<1>6. PaidOK(p)'
  BY <1>1, <1>2, <1>3, <1>4 DEF RunnerOK, PaidOK
<1>7. HandledOK(p)'
  BY <1>1, <1>2, <1>3, <1>4, TaskFacts DEF RunnerOK, HandledOK
<1>8. RunnerOK(p)'
  BY <1>1, <1>2, <1>3, <1>5, <1>6, <1>7 DEF RunnerOK
<1>9. Shaped' /\ OthersKept(p)
  BY <1>2 DEF Leave, Shaped, OthersKept, Untouched, ghosts
<1> QED
  BY <1>1, <1>8, <1>9, StepKeeps

LEMMA ApproveStep ==
  ASSUME KInv, NEW p \in Processes, NEW c \in DOMAIN tasks[p], Approve(p, c)
  PROVE  KInv'
<1>1. UNCHANGED <<cards, runs, corrupt, runner, ghosts>>
  BY DEF Approve, AutoApproved
<1>2. BoardOK' /\ Advance
  BY <1>1, BoardSame DEF KInv, Advance, ghosts
<1>3. \A q \in Processes : RunnerOK(q)'
  BY <1>1, <1>2, UntouchedKept DEF KInv, Untouched, runner, ghosts
<1> QED
  BY <1>1, <1>2, <1>3 DEF KInv, Shaped, runner, ghosts

LEMMA CrashStep ==
  ASSUME KInv, NEW p \in Processes, Crash(p)
  PROVE  KInv'
<1>1. BoardOK' /\ Forward /\ Advance
  BY BoardSame DEF Crash, KInv, board, Advance
<1>2. /\ inflight'[p] = {} /\ DOMAIN tasks'[p] = {} /\ handled'[p] = {} /\ paid'[p] = {}
      /\ twice'[p] = {} /\ todo'[p] = {}
  BY DEF Crash, KInv, Shaped, Restrict
<1>3. RunnerOK(p)'
  BY <1>2 DEF RunnerOK, PaidOK, HandledOK
<1>4. Shaped' /\ OthersKept(p)
  BY DEF Crash, KInv, Shaped, OthersKept, Untouched
<1> QED
  BY <1>1, <1>3, <1>4, StepKeeps

LEMMA KInvInit == Init => KInv
<1> SUFFICES ASSUME Init
             PROVE  KInv
  OBVIOUS
<1>1. BoardOK
  <2>1. DOMAIN runs = {} /\ DOMAIN cards = {} /\ corrupt = FALSE
    BY DEF Init
  <2> QED
    BY <2>1, FS_EmptySet DEF BoardOK, Counted, Open
<1>2. \A p \in Processes : RunnerOK(p)
  <2>1. ASSUME NEW p \in Processes
        PROVE  /\ inflight[p] = {} /\ DOMAIN tasks[p] = {} /\ handled[p] = {} /\ paid[p] = {}
               /\ twice[p] = {} /\ todo[p] = {}
    BY DEF Init
  <2> QED
    BY <2>1 DEF RunnerOK, PaidOK, HandledOK
<1>3. Shaped
  BY DEF Init, Shaped
<1> QED
  BY <1>1, <1>2, <1>3 DEF KInv

LEMMA KInvNext == KInv /\ [Next]_vars => KInv'
<1> SUFFICES ASSUME KInv, [Next]_vars
             PROVE  KInv'
  OBVIOUS
<1>1. CASE People
  BY <1>1, PeopleStep
<1>2. ASSUME NEW p \in Processes, Scan(p) \/ Item(p) \/ ItemFails(p) \/ Crash(p)
      PROVE  KInv'
  BY <1>2, ScanStep, ItemStep, CrashStep
<1>3. ASSUME NEW p \in Processes, NEW c \in DOMAIN tasks[p],
             Execution(p, c) \/ ExecutionFails(p, c) \/ Approve(p, c)
      PROVE  KInv'
  BY <1>3, ClaimStep, TakeOverStep, LandStep, FailStep, LeaveStep, ApproveStep
     DEF Execution, ExecutionFails
<1>4. CASE UNCHANGED vars
  <2>1. UNCHANGED <<cards, runs, corrupt, runner, ghosts>>
    BY <1>4 DEF vars, board
  <2>2. BoardOK' /\ Advance
    BY <2>1, BoardSame DEF KInv, Advance, ghosts
  <2>3. \A q \in Processes : RunnerOK(q)'
    BY <2>1, <2>2, UntouchedKept DEF KInv, Untouched, runner, ghosts
  <2> QED
    BY <2>1, <2>2, <2>3 DEF KInv, Shaped, runner, ghosts
<1> QED
  BY <1>1, <1>2, <1>3, <1>4 DEF Next

LEMMA KInvHolds == Spec => []KInv
BY KInvInit, KInvNext, PTL DEF Spec

-----------------------------------------------------------------------------
(* The properties *)

\* The board can always be loaded again: whatever commands people, agents and
\* the runners of several processes give, validate admits none that reduce
\* refuses, neither a move from where the card is not nor a run id used before.
THEOREM LogReplaysHolds == Spec => []LogReplays
<1>1. KInv => LogReplays
  BY DEF KInv, BoardOK, LogReplays
<1> QED
  BY <1>1, KInvHolds, PTL

\* An open run that was not lost is in the hands of an execution, or is taken
\* up by the next scan of some process, as long as there is one: a run is
\* marked as handled only when its execution is there, or over (spawn_run).
THEOREM NoneForsakenHolds ==
  ASSUME Processes # {}
  PROVE  Spec => []NoneForsaken
<1>1. KInv => NoneForsaken
  <2>1. ASSUME KInv, NEW r \in Open \ lost, NEW p \in Processes, r \in handled[p]
        PROVE  \E c \in DOMAIN tasks[p] : tasks[p][c].run = r /\ tasks[p][c].pc \in {"adopt", "work"}
    BY <2>1 DEF KInv, RunnerOK, HandledOK, Ours, Holds
  <2> QED
    BY <2>1 DEF NoneForsaken
<1> QED
  BY <1>1, KInvHolds, PTL

=============================================================================
