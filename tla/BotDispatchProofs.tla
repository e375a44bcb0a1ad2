------------------------- MODULE BotDispatchProofs --------------------------
(***************************************************************************)
(* The dispatch of a Bot Group, for every set of Bots, any number of       *)
(* instructions, tasks, interventions and restarts: of what is dispatched  *)
(* a Bot has one run at work, and a task is complete only after its        *)
(* children.                                                               *)
(***************************************************************************)
EXTENDS BotDispatch, FiniteSetTheorems, SequenceTheorems, TLAPS

-----------------------------------------------------------------------------
(* The places of the processes *)

\* What is needed of a place: it has the fields that Place gives it.
IsPlace(x) == DOMAIN x = {"pc", "delivery", "run", "saw", "todo"}

\* The tick is always somewhere.
Somewhere == Tick \in DOMAIN at /\ \A p \in DOMAIN at : IsPlace(at[p])

LEMMA GoShape ==
  ASSUME Somewhere, NEW p, NEW place, IsPlace(place), Go(p, place)
  PROVE  /\ Somewhere'
         /\ p = Tick => at'[Tick] = place
         /\ p # Tick => at'[Tick] = at[Tick]
BY DEF Go, Somewhere

\* No step but Admit brings the tick to the point where it appends a run.
Elsewhere == at'[Tick] = at[Tick] \/ at'[Tick].pc # "append"

\* The process p goes to a place that is not that point.
GoesOn(p) == \E place : Go(p, place) /\ IsPlace(place) /\ place.pc # "append"

LEMMA GoesElsewhere ==
  ASSUME Somewhere, NEW p, GoesOn(p) \/ (p # Tick /\ Leave(p)) \/ at' = at
  PROVE  Somewhere' /\ Elsewhere
<1>1. CASE GoesOn(p)
  BY <1>1, GoShape DEF GoesOn, Elsewhere
<1>2. CASE p # Tick /\ Leave(p)
  BY <1>2 DEF Leave, Somewhere, Elsewhere
<1> QED
  BY <1>1, <1>2 DEF Somewhere, Elsewhere

LEMMA Apart == Tick # Stop /\ \A r : Tool(r) # Tick /\ Tool(r) # Stop
BY DEF Tick, Stop, Tool

LEMMA RejectPlace ==
  ASSUME Somewhere, NEW p \in {Tick, Stop}, p \in DOMAIN at, NEW d, RejectDelivery(p, d)
  PROVE  GoesOn(p)
<1>1. IsPlace(at[p])
  BY DEF Somewhere
<1>2. CASE Rejected(p, d)
  BY <1>1, <1>2 DEF Rejected, GoesOn, IsPlace, Place, Idle
<1>3. CASE Go(p, [at[p] EXCEPT !.pc = "refuse", !.delivery = d, !.todo = @ \ {d}])
  <2> DEFINE place == [at[p] EXCEPT !.pc = "refuse", !.delivery = d, !.todo = @ \ {d}]
  <2>1. IsPlace(place) /\ place.pc = "refuse"
    BY <1>1 DEF IsPlace
  <2> HIDE DEF place
  <2> QED
    BY <1>3, <2>1 DEF GoesOn, place
<1> QED
  BY <1>2, <1>3 DEF RejectDelivery

LEMMA RefusePlace ==
  ASSUME Somewhere, NEW p \in {Tick, Stop}, RefuseTask(p)
  PROVE  GoesOn(p) \/ (p # Tick /\ Leave(p))
<1>1. Rejected(p, at[p].delivery) \/ GiveUp(p)
  BY DEF RefuseTask
<1>2. CASE Rejected(p, at[p].delivery)
  BY <1>2 DEF Rejected, GoesOn, IsPlace, Place, Idle
<1>3. CASE GiveUp(p)
  BY <1>3 DEF GiveUp, GoesOn, IsPlace, Place, Idle
<1> QED
  BY <1>1, <1>2, <1>3

LEMMA TickPlace ==
  ASSUME Somewhere, Ticks
  PROVE  GoesOn(Tick) \/ at' = at \/ Admit
<1>0. IsPlace(at[Tick])
  BY DEF Somewhere
<1>1. CASE RejectInactive \/ Refuse
  BY <1>1, RejectPlace DEF RejectInactive, Refuse, At
<1>2. CASE RefuseTask(Tick)
  BY <1>2, RefusePlace
<1>3. CASE CancelInactive \/ PauseGroup \/ Spawn
  BY <1>3 DEF CancelInactive, PauseGroup, Spawn
<1>4. ASSUME NEW r \in DOMAIN runs, SeeRun(r)
      PROVE  GoesOn(Tick)
  <2> DEFINE place == [Place("settle") EXCEPT !.run = r, !.saw = runs[r]]
  <2>1. IsPlace(place) /\ place.pc = "settle"
    BY DEF IsPlace, Place
  <2>2. Go(Tick, place)
    BY <1>4 DEF SeeRun
  <2> HIDE DEF place
  <2> QED
    BY <2>1, <2>2 DEF GoesOn
<1>5. CASE SyncTask
  <2>1. Settled(at[Tick].saw) \/ Go(Tick, Idle)
    BY <1>5 DEF SyncTask
  <2> QED
    BY <1>0, <2>1 DEF Settled, GoesOn, IsPlace, Place, Idle
<1>6. CASE Answer \/ Release \/ Acknowledge \/ DispatchFails
  <2>1. Go(Tick, Idle)
    BY <1>6 DEF Answer, Release, Acknowledge, DispatchFails
  <2> QED
    BY <2>1 DEF GoesOn, IsPlace, Place, Idle
<1>7. CASE Claim
  BY <1>7 DEF Claim, Dispatch, GoesOn, IsPlace, Place
<1>8. CASE AppendRun
  <2>1. \E l \in {"start", "ack"} : Go(Tick, [at[Tick] EXCEPT !.pc = l])
    BY <1>8 DEF AppendRun
  <2> QED
    BY <1>0, <2>1 DEF GoesOn, IsPlace
<1>9. CASE StartTask
  <2>1. Go(Tick, [at[Tick] EXCEPT !.pc = "ack"])
    BY <1>9 DEF StartTask
  <2> QED
    BY <1>0, <2>1 DEF GoesOn, IsPlace
<1> QED
  BY <1>1, <1>2, <1>3, <1>4, <1>5, <1>6, <1>7, <1>8, <1>9 DEF Ticks

LEMMA AdmitPlace ==
  ASSUME Somewhere, Admit
  PROVE  /\ Somewhere'
         /\ \E j : at'[Tick].run = <<at[Tick].delivery[1], at[Tick].delivery[2], j>>
<1> DEFINE r == <<at[Tick].delivery[1], at[Tick].delivery[2], rev[at[Tick].delivery[2]]>>
<1>1. PICK s : Go(Tick, [at[Tick] EXCEPT !.pc = "append", !.run = r, !.saw = s])
  BY DEF Admit
<1> DEFINE place == [at[Tick] EXCEPT !.pc = "append", !.run = r, !.saw = s]
<1>2. IsPlace(place) /\ place.run = r
  <2> HIDE DEF r
  <2> QED
    BY DEF Somewhere, IsPlace
<1>3. Go(Tick, place)
  BY <1>1
<1> HIDE DEF place
<1> QED
  BY <1>2, <1>3, GoShape

LEMMA StepPlace ==
  ASSUME Somewhere, [Next]_vars
  PROVE  Somewhere' /\ (Elsewhere \/ Admit)
<1>1. CASE Ticks
  BY <1>1, TickPlace, AdmitPlace, GoesElsewhere
<1>2. CASE Stops
  <2>1. GoesOn(Stop) \/ Leave(Stop)
    BY <1>2, RejectPlace, RefusePlace DEF Stops, StopDelivery, StopRuns, StopFails, At
  <2> QED
    BY <2>1, GoesElsewhere, Apart
<1>3. CASE Owns
  <2>1. CASE StopGroup
    <3>1. GoesOn(Stop)
      BY <2>1 DEF StopGroup, GoesOn, IsPlace, Place
    <3> QED
      BY <3>1, GoesElsewhere
  <2>2. CASE at' = at
    BY <2>2, GoesElsewhere
  <2> QED
    BY <1>3, <2>1, <2>2 DEF Owns, PauseBot, ResumeBot, Publish, Instruct, StartRun, BindInput,
       CancelRun, CancelTask, Reassign, ResumeGroup
<1>4. CASE Note \/ UNCHANGED vars
  BY <1>4, GoesElsewhere DEF Note, vars
<1>5. CASE Crash
  BY <1>5 DEF Crash, Somewhere, Elsewhere, Idle, IsPlace, Place
<1>6. ASSUME NEW r \in DOMAIN runs, Executes(r) \/ Tools(r)
      PROVE  Somewhere' /\ Elsewhere
  <2>1. CASE TellTask(r)
    BY <2>1, GoesElsewhere, Apart DEF TellTask
  <2>2. CASE Ask(r)
    <3>1. GoesOn(Tool(r))
      BY <2>2 DEF Ask, GoesOn, IsPlace, Place
    <3> QED
      BY <3>1, GoesElsewhere
  <2>3. CASE at' = at
    BY <2>3, GoesElsewhere
  <2> QED
    BY <1>6, <2>1, <2>2, <2>3 DEF Executes, Tools, Begin, Lapse, Finish, AwaitApproval, Delegate, Report
<1> QED
  BY <1>1, <1>2, <1>3, <1>4, <1>5, <1>6 DEF Next

-----------------------------------------------------------------------------
(* One run for a Bot *)

\* Two runs of one Bot that were dispatched, as the owner's are not.
Rivals(r, s) == r[1] # 0 /\ s[1] # 0 /\ r[2] = s[2]

\* The inductive invariant: what the tick is about to append is the run of a
\* Bot that has none at work which was dispatched.
OneRun ==
  /\ \A r, s \in Live : Rivals(r, s) => r = s
  /\ at[Tick].pc = "append" => \A r \in Live : ~ Rivals(r, at[Tick].run)

\* A run that is queued is the only one that becomes live.
LEMMA QueueOne ==
  ASSUME NEW r, Queue(r)
  PROVE  Live' \subseteq Live \cup {r}
BY DEF Queue, Live

\* A run that is over stays so: no step but AppendRun and StartRun makes one
\* live.
LEMMA NoneRevives ==
  ASSUME Somewhere, OneRun, [Next]_vars, ~ AppendRun, \A b \in Direct : ~ StartRun(b)
  PROVE  Live' \subseteq Live
<1>1. CASE runs' = runs
  BY <1>1 DEF Live, OneRun
<1>2. ASSUME NEW S \in SUBSET Live, NEW f,
             runs' = [r \in DOMAIN runs |-> IF r \in S THEN f[r] ELSE runs[r]]
      PROVE  Live' \subseteq Live
  BY <1>2 DEF Live
<1>3. ASSUME NEW r \in Live, NEW s, runs' = [runs EXCEPT ![r] = s]
      PROVE  Live' \subseteq Live
  BY <1>3 DEF Live
<1>4. CASE StopRuns
  <2>1. PICK some \in SUBSET Live :
          runs' = [r \in DOMAIN runs |-> IF r \in some THEN Canceling(runs[r]) ELSE runs[r]]
    BY <1>4 DEF StopRuns
  <2> QED
    BY <2>1 DEF Live
<1>5. CASE CancelInactive
  BY <1>3, <1>5 DEF CancelInactive, RequestCancel
<1>6. ASSUME NEW r \in DOMAIN runs, CancelRun(r) \/ BindInput(r) \/ Executes(r) \/ Tools(r)
      PROVE  Live' \subseteq Live
  <2>1. runs' = runs \/ (runs[r] \notin Over /\ \E s : runs' = [runs EXCEPT ![r] = s])
    BY <1>6 DEF CancelRun, RequestCancel, BindInput, Executes, Tools, Begin, TellTask, Lapse, Finish,
       Ask, AwaitApproval, Delegate, Report, Post, Over, run
  <2> QED
    BY <1>1, <1>3, <2>1 DEF Live
<1>7. runs' = runs \/ StopRuns \/ CancelInactive
        \/ \E r \in DOMAIN runs : CancelRun(r) \/ BindInput(r) \/ Executes(r) \/ Tools(r)
  BY DEF Next, vars, run, Ticks, Stops, Owns, RejectInactive, RejectDelivery, RefuseTask, PauseGroup,
     SeeRun, SyncTask, Answer, Claim, Release, Refuse, Admit, StartTask, Acknowledge, DispatchFails,
     Spawn, StopDelivery, StopFails, PauseBot, ResumeBot, Publish, Instruct, CancelTask, Reassign,
     ResumeGroup, StopGroup, Note, Crash
<1> QED
  BY <1>1, <1>4, <1>5, <1>6, <1>7

LEMMA OneRunKept ==
  ASSUME Somewhere, OneRun, [Next]_vars
  PROVE  OneRun'
<1>1. CASE AppendRun
  <2> DEFINE r == at[Tick].run
  <2>1. at[Tick].pc = "append" /\ Queue(r)
    BY <1>1 DEF AppendRun, At
  <2>2. at'[Tick].pc # "append"
    <3>1. \E l \in {"start", "ack"} : Go(Tick, [at[Tick] EXCEPT !.pc = l])
      BY <1>1 DEF AppendRun
    <3> QED
      BY <3>1, GoShape DEF Somewhere, IsPlace
  <2>3. Live' \subseteq Live \cup {r} /\ \A q \in Live : ~ Rivals(q, r)
    BY <2>1, QueueOne DEF OneRun
  <2> HIDE DEF r
  <2> QED
    BY <2>2, <2>3 DEF OneRun, Rivals
<1>2. ASSUME NEW b \in Direct, StartRun(b)
      PROVE  OneRun'
  <2> DEFINE r == <<0, b, rev[b]>>
  <2>1. Live' \subseteq Live \cup {r} /\ at' = at
    BY <1>2, QueueOne DEF StartRun
  <2>2. r[1] = 0
    OBVIOUS
  <2> HIDE DEF r
  <2> QED
    BY <2>1, <2>2 DEF OneRun, Rivals
<1>3. CASE ~ AppendRun /\ \A b \in Direct : ~ StartRun(b)
  <2>1. Live' \subseteq Live
    BY <1>3, NoneRevives
  <2>2. CASE at'[Tick] = at[Tick]
    BY <2>1, <2>2 DEF OneRun
  <2>3. CASE at'[Tick].pc # "append"
    BY <2>1, <2>3 DEF OneRun
  <2>4. CASE Admit
    <3>1. at'[Tick].run[2] = at[Tick].delivery[2]
      BY <2>4, AdmitPlace
    <3>2. Runs(at[Tick].delivery[2]) = {}
      BY <2>4 DEF Admit, Busy
    <3> QED
      BY <2>1, <3>1, <3>2 DEF OneRun, Rivals, Runs
  <2> QED
    BY <2>2, <2>3, <2>4, StepPlace DEF Elsewhere
<1> QED
  BY <1>1, <1>2, <1>3

\* Of the runs that are dispatched a Bot works at one at a time: the tick that
\* found it idle is the only one that dispatches, however many writes,
\* restarts and revisions lie between the two (dispatch_from_conversation),
\* and whatever is started without it meanwhile.
THEOREM OneDispatchedRunHolds == Spec => []OneDispatchedRun
<1>1. Init => Somewhere /\ OneRun
  BY DEF Init, Somewhere, OneRun, Live, Idle, Place, IsPlace
<1>2. Somewhere /\ OneRun /\ [Next]_vars => Somewhere' /\ OneRun'
  BY StepPlace, OneRunKept
<1>3. OneRun => OneDispatchedRun
  <2>1. ASSUME OneRun, NEW b \in Bots
        PROVE  Cardinality(Dispatched(b)) <= 1
    <3>1. \A r, s \in Dispatched(b) : r = s
      BY <2>1 DEF OneRun, Rivals, Dispatched, Runs
    <3>2. CASE Dispatched(b) = {}
      BY <3>2, FS_EmptySet
    <3>3. CASE Dispatched(b) # {}
      <4>1. PICK r : Dispatched(b) = {r}
        BY <3>1, <3>3
      <4>2. Cardinality({r}) = 1
        BY FS_Singleton
      <4> QED
        BY <4>1, <4>2
    <3> QED
      BY <3>2, <3>3
  <2> QED
    BY <2>1 DEF OneDispatchedRun
<1> QED
  BY <1>1, <1>2, <1>3, PTL DEF Spec

-----------------------------------------------------------------------------
(* Children first *)

IsTask(x) == DOMAIN x = {"status", "owner", "originator", "parent"}

\* What is needed of the tasks: they are listed, with the fields of NewTask.
Listed ==
  /\ tasks \in Seq({tasks[i] : i \in DOMAIN tasks})
  /\ \A i \in DOMAIN tasks : IsTask(tasks[i])

\* An open task t gets the status s.
Turns(t, s) ==
  /\ t \in DOMAIN tasks => tasks[t].status \notin Over
  /\ s = "Completed" => \A c \in DOMAIN tasks : tasks[c].parent = t => tasks[c].status \in Over
  /\ \/ tasks' = [tasks EXCEPT ![t].status = s]
     \/ s = "Submitted" /\ \E b : tasks' = [tasks EXCEPT ![t].owner = b, ![t].status = s]

\* A task is added, whose parent is open if it has one.
Adds(x) ==
  /\ tasks' = Append(tasks, x)
  /\ IsTask(x) /\ x.status = "Submitted"
  /\ x.parent # 0 => tasks[x.parent].status \notin Over

LEMMA TurnsShape ==
  ASSUME Listed, NEW t, NEW s, Turns(t, s)
  PROVE  /\ Listed' /\ DOMAIN tasks' = DOMAIN tasks
         /\ \A c \in DOMAIN tasks :
              /\ tasks'[c].parent = tasks[c].parent
              /\ tasks'[c].status = IF c = t THEN s ELSE tasks[c].status
<1>1. /\ DOMAIN tasks' = DOMAIN tasks
      /\ \A c \in DOMAIN tasks : c # t => tasks'[c] = tasks[c]
      /\ t \in DOMAIN tasks => /\ IsTask(tasks'[t])
                              /\ tasks'[t].parent = tasks[t].parent
                              /\ tasks'[t].status = s
  BY DEF Turns, Listed, IsTask
<1>2. \A c \in DOMAIN tasks' : IsTask(tasks'[c])
  BY <1>1 DEF Listed
<1>3. Len(tasks) \in Nat /\ DOMAIN tasks = 1..Len(tasks)
  BY DEF Listed
<1>4. tasks' = [i \in 1..Len(tasks) |-> tasks'[i]]
  BY <1>1, <1>3 DEF Turns
<1>5. tasks' \in Seq({tasks'[i] : i \in DOMAIN tasks'})
  BY <1>1, <1>3, <1>4, IsASeq
<1> QED
  BY <1>1, <1>2, <1>5 DEF Listed

LEMMA AddsShape ==
  ASSUME Listed, NEW x, Adds(x)
  PROVE  /\ Listed' /\ DOMAIN tasks' = DOMAIN tasks \cup {Len(tasks) + 1}
         /\ Len(tasks) + 1 \notin DOMAIN tasks /\ 0 \notin DOMAIN tasks
         /\ \A c \in DOMAIN tasks : tasks'[c] = tasks[c]
         /\ tasks'[Len(tasks) + 1] = x
<1> DEFINE S == {tasks[i] : i \in DOMAIN tasks}
<1>1. /\ Len(tasks) \in Nat /\ DOMAIN tasks = 1..Len(tasks)
      /\ tasks \in Seq(S \cup {x})
  BY DEF Listed
<1> HIDE DEF S
<1>2. /\ tasks' \in Seq(S \cup {x}) /\ Len(tasks') = Len(tasks) + 1
      /\ \A c \in 1..Len(tasks) : tasks'[c] = tasks[c]
      /\ tasks'[Len(tasks) + 1] = x
  BY <1>1, AppendProperties DEF Adds
<1>3. DOMAIN tasks' = 1..Len(tasks) + 1
  BY <1>1, <1>2
<1>4. tasks' \in Seq({tasks'[i] : i \in DOMAIN tasks'})
  BY <1>1, <1>2, <1>3, IsASeq
<1>5. \A c \in DOMAIN tasks' : IsTask(tasks'[c])
  BY <1>1, <1>2, <1>3 DEF Adds, Listed
<1> QED
  BY <1>1, <1>2, <1>3, <1>4, <1>5 DEF Listed

LEMMA TasksMove ==
  ASSUME Somewhere, [Next]_vars
  PROVE  tasks' = tasks \/ (\E t, s : Turns(t, s)) \/ \E x : Adds(x)
<1>1. ASSUME NEW t, NEW s, NEW actor, MayChange(t, s, actor), Change(t, s)
      PROVE  Turns(t, s)
  BY <1>1 DEF MayChange, Change, Turns
<1>2. ASSUME NEW p, RefuseTask(p)
      PROVE  tasks' = tasks \/ \E t, s : Turns(t, s)
  BY <1>1, <1>2 DEF RefuseTask, MayRefuse
<1>3. CASE SyncTask \/ StartTask
  BY <1>1, <1>3 DEF SyncTask, StartTask, MayStart
<1>4. ASSUME NEW r \in DOMAIN runs, Executes(r) \/ Tools(r)
      PROVE  tasks' = tasks \/ (\E t, s : Turns(t, s)) \/ \E x : Adds(x)
  <2>1. CASE TellTask(r)
    BY <1>1, <2>1 DEF TellTask
  <2>2. ASSUME NEW s, Report(r, s)
        PROVE  \E t : Turns(t, s)
    BY <1>1, <2>2 DEF Report
  <2>3. ASSUME NEW b \in Bots, Delegate(r, b)
        PROVE  Adds(NewTask(b, r[2], TaskOf(r)))
    BY <2>3 DEF Delegate, Adds, NewTask, IsTask
  <2>4. CASE tasks' = tasks
    BY <2>4
  <2> QED
    BY <1>4, <2>1, <2>2, <2>3, <2>4 DEF Executes, Tools, Begin, Lapse, Finish, Ask, AwaitApproval,
       conversation
<1>5. CASE Owns
  <2>1. ASSUME NEW t \in DOMAIN tasks, CancelTask(t)
        PROVE  \E s : Turns(t, s)
    BY <1>1, <2>1 DEF CancelTask
  <2>2. ASSUME NEW t \in DOMAIN tasks, NEW b, Reassign(t, b)
        PROVE  Turns(t, "Submitted")
    BY <2>2 DEF Reassign, Turns
  <2>3. ASSUME NEW b, NEW tasked \in BOOLEAN, Instruct(b, tasked)
        PROVE  tasks' = tasks \/ \E x : Adds(x)
    <3>1. CASE tasks' = Append(tasks, NewTask(b, Owner, 0))
      <4>1. Adds(NewTask(b, Owner, 0))
        BY <3>1 DEF Adds, NewTask, IsTask
      <4> QED
        BY <4>1
    <3> QED
      BY <2>3, <3>1 DEF Instruct
  <2>4. CASE tasks' = tasks
    BY <2>4
  <2> QED
    BY <1>5, <2>1, <2>2, <2>3, <2>4 DEF Owns, PauseBot, ResumeBot, Publish, StartRun, BindInput,
       CancelRun, ResumeGroup, StopGroup, conversation
<1>6. CASE tasks' = tasks
  BY <1>6
<1>7. tasks' = tasks \/ RefuseTask(Tick) \/ RefuseTask(Stop) \/ SyncTask \/ StartTask \/ Owns
        \/ \E r \in DOMAIN runs : Executes(r) \/ Tools(r)
  BY DEF Next, vars, conversation, Ticks, Stops, RejectInactive, RejectDelivery, CancelInactive,
     PauseGroup, SeeRun, Answer, Claim, Release, Refuse, Admit, AppendRun, Acknowledge,
     DispatchFails, Spawn, StopDelivery, StopFails, StopRuns, Note, Crash
<1> QED
  BY <1>2, <1>3, <1>4, <1>5, <1>6, <1>7

LEMMA ChildrenKept ==
  ASSUME Listed, ChildrenFirst,
         tasks' = tasks \/ (\E t, s : Turns(t, s)) \/ \E x : Adds(x)
  PROVE  Listed' /\ ChildrenFirst'
<1>1. CASE tasks' = tasks
  BY <1>1 DEF Listed, ChildrenFirst
<1>2. ASSUME NEW t, NEW s, Turns(t, s)
      PROVE  Listed' /\ ChildrenFirst'
  <2>1. /\ t \in DOMAIN tasks => tasks[t].status \notin Over
        /\ s = "Completed" => \A c \in DOMAIN tasks : tasks[c].parent = t => tasks[c].status \in Over
    BY <1>2 DEF Turns
  <2>2. /\ Listed' /\ DOMAIN tasks' = DOMAIN tasks
        /\ \A c \in DOMAIN tasks : /\ tasks'[c].parent = tasks[c].parent
                                   /\ tasks'[c].status = IF c = t THEN s ELSE tasks[c].status
    BY <1>2, TurnsShape
  <2>3. "Completed" \in Over
    BY DEF Over
  <2>4. ASSUME NEW p \in DOMAIN tasks, tasks'[p].status = "Completed",
               NEW c \in DOMAIN tasks, tasks'[c].parent = p
        PROVE  tasks'[c].status \in Over
    <3>1. tasks[c].parent = p
      BY <2>2, <2>4
    <3>2. tasks[c].status \in Over
      <4>1. CASE p = t
        BY <2>1, <2>2, <2>4, <3>1, <4>1
      <4>2. CASE p # t
        BY <2>2, <2>4, <3>1, <4>2 DEF ChildrenFirst
      <4> QED
        BY <4>1, <4>2
    <3>3. c # t
      BY <2>1, <3>2
    <3> QED
      BY <2>2, <3>2, <3>3
  <2>5. Over' = Over
    BY DEF Over
  <2> QED
    BY <2>2, <2>4, <2>5 DEF ChildrenFirst
<1>3. ASSUME NEW x, Adds(x)
      PROVE  Listed' /\ ChildrenFirst'
  <2>1. x.status = "Submitted" /\ (x.parent # 0 => tasks[x.parent].status \notin Over)
    BY <1>3 DEF Adds
  <2> QED
    BY <1>3, <2>1, AddsShape DEF ChildrenFirst, Over
<1> QED
  BY <1>1, <1>2, <1>3

\* No task is complete before its children, whatever is delegated, reported,
\* settled, reassigned, refused or cancelled meanwhile (change_task, post).
THEOREM ChildrenFirstHolds == Spec => []ChildrenFirst
<1>1. Init => Somewhere /\ Listed /\ ChildrenFirst
  BY DEF Init, Somewhere, Listed, ChildrenFirst, Idle, Place, IsPlace
<1>2. Somewhere /\ Listed /\ ChildrenFirst /\ [Next]_vars => Somewhere' /\ Listed' /\ ChildrenFirst'
  BY StepPlace, TasksMove, ChildrenKept
<1> QED
  BY <1>1, <1>2, PTL DEF Spec

=============================================================================
