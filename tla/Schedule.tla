------------------------------ MODULE Schedule ------------------------------
(***************************************************************************)
(* The schedule of timed messages (core/schedule, background_jobs) and its  *)
(* hand-over to the pending queue: an occurrence is claimed under a stable  *)
(* delivery id, written to the queue, and only then does the schedule move  *)
(* on, under the queue's lock.                                              *)
(*                                                                          *)
(* One Session, of whose queue only these deliveries are here; memory and   *)
(* the visible file are the same after every step.  Every job is due at     *)
(* each tick of the clock, and a cron expression has no time past Horizon.  *)
(* The name of an occurrence is the time it was claimed for.                *)
(***************************************************************************)
EXTENDS Naturals, FiniteSets, Functions

CONSTANTS
  Jobs,         \* every one is added once
  Horizon,      \* bound: ticks of the clock
  MaxBadWrites, \* bound: writes that fail
  MaxStarts     \* bound: restarts

VARIABLES
  jobs,       \* what is scheduled: job -> [once, fire, enabled, claimed]
  jobsMay,    \* what a loss of power may leave of it
  blocked,    \* the store refuses everything until a restart
  queue,      \* deliveries <<job, occurrence>> that wait
  queueMay,
  held,       \* the queue is blocked
  tick,       \* the delivery that the tick is at
  clock,
  unused,     \* jobs that were not added yet
  left,       \* occurrences that the schedule has moved past
  ran,        \* deliveries that became a message of the Session
  ranAgain,
  dropped,    \* deliveries the user cleared
  removed,    \* jobs the user took out
  guessed,    \* files that a process began upon though their directory was never synced
  faults, restarts

schedule == <<jobs, jobsMay, blocked, queue, queueMay, held, tick, clock, unused, left, ran, ranAgain,
              dropped, removed, guessed, faults, restarts>>
history == <<ran, ranAgain, dropped, removed, guessed, restarts>>

Idle == [at |-> "idle"]
Known(j) == j \in DOMAIN jobs
Claimed(x) == Known(x[1]) /\ jobs[x[1]].claimed = x[2]

\* next_fire_of: None past the horizon.
Next(time) == IF time < Horizon THEN time + 1 ELSE 0

-----------------------------------------------------------------------------
(* The two files *)

Fault == faults < MaxBadWrites /\ faults' = faults + 1

\* commit_mutation: a failure before the rename restores the jobs, one after
\* it blocks the store.
Committed(new) == jobs' = new /\ jobsMay' = {new} /\ UNCHANGED <<blocked, faults>>
NotCommitted == Fault /\ UNCHANGED <<jobs, jobsMay, blocked>>
Indeterminate(new) == Fault /\ jobs' = new /\ jobsMay' = jobsMay \cup {new} /\ blocked' = TRUE

\* What nobody waits for.
Mutates(new) ==
  /\ ~blocked
  /\ Committed(new) \/ NotCommitted \/ Indeterminate(new)
  /\ UNCHANGED <<queue, queueMay, held, tick, clock, left, ran, ranAgain, dropped, guessed, restarts>>

QueueWritten(new) == queue' = new /\ queueMay' = {new} /\ UNCHANGED <<held, faults>>
QueueUnsure(new) == Fault /\ queue' = new /\ queueMay' = queueMay \cup {new} /\ held' = TRUE

-----------------------------------------------------------------------------
(* The user and the Session *)

Add(j, once) ==
  /\ j \in unused /\ Next(clock) # 0
  /\ unused' = unused \ {j} /\ UNCHANGED removed
  /\ Mutates([k \in DOMAIN jobs \cup {j} |->
                IF k = j THEN [once |-> once, fire |-> Next(clock), enabled |-> TRUE, claimed |-> 0] ELSE jobs[k]])

\* By the user, or with its Session.
Remove(j) ==
  /\ Known(j) /\ UNCHANGED unused
  /\ Mutates(Restrict(jobs, DOMAIN jobs \ {j}))
  /\ removed' = removed \cup (DOMAIN jobs \ DOMAIN jobs')

Pause(j) ==
  /\ Known(j) /\ jobs[j].enabled /\ UNCHANGED <<unused, removed>>
  /\ Mutates([jobs EXCEPT ![j].enabled = FALSE])

\* What fell due meanwhile is not made up for; a claim stays.
Resume(j) ==
  /\ Known(j) /\ ~jobs[j].enabled /\ Next(clock) # 0 /\ UNCHANGED <<unused, removed>>
  /\ Mutates([jobs EXCEPT ![j] = [@ EXCEPT !.enabled = TRUE, !.fire = Next(clock)]])

\* record: the history of a job is not here, its write is.
Record(j) == Known(j) /\ (\E x \in ran : x[1] = j) /\ UNCHANGED <<unused, removed>> /\ Mutates(jobs)

Passes ==
  /\ clock < Horizon /\ clock' = clock + 1
  /\ UNCHANGED <<jobs, jobsMay, blocked, queue, queueMay, held, tick, unused, left, faults>> /\ UNCHANGED history

-----------------------------------------------------------------------------
(* The tick *)

Due(j, now) == jobs[j].enabled /\ (jobs[j].fire <= now \/ jobs[j].claimed # 0)

Candidate(j) ==
  /\ tick = Idle /\ ~blocked
  /\ Known(j) /\ Due(j, clock)
  /\ tick' = [at |-> "claim", job |-> j, now |-> clock]
  /\ UNCHANGED <<jobs, jobsMay, blocked, queue, queueMay, held, clock, unused, left, faults>> /\ UNCHANGED history

Done == tick' = Idle
Dispatch(occurrence) == tick' = [at |-> "enqueue", job |-> tick.job, now |-> tick.now, id |-> occurrence]

\* claim_due reads the job again.
ClaimDue ==
  /\ tick.at = "claim"
  /\ LET job == tick.job
         claim == [jobs EXCEPT ![job].claimed = jobs[job].fire] IN
       IF blocked \/ ~(Known(job) /\ Due(job, tick.now))
       THEN Done /\ UNCHANGED <<jobs, jobsMay, blocked, faults>>
       ELSE IF jobs[job].claimed # 0
       THEN Dispatch(jobs[job].claimed) /\ UNCHANGED <<jobs, jobsMay, blocked, faults>>
       ELSE \/ Committed(claim) /\ Dispatch(jobs[job].fire)
            \/ NotCommitted /\ Done
            \/ Indeterminate(claim) /\ Done
  /\ UNCHANGED <<queue, queueMay, held, clock, unused, left>> /\ UNCHANGED history

Delivery == <<tick.job, tick.id>>
Acknowledge(pushed) == tick' = [at |-> "ack", job |-> tick.job, now |-> tick.now, id |-> tick.id, pushed |-> pushed]

\* enqueue_existing_committed up to its commit; from here the queue's lock is held.
Enqueue ==
  /\ tick.at = "enqueue"
  /\ LET more == queue \cup {Delivery} IN
       \/ held /\ Done /\ UNCHANGED <<queue, queueMay, held, faults>>
       \/ ~held /\ Delivery \in queue /\ Acknowledge(FALSE) /\ UNCHANGED <<queue, queueMay, held, faults>>
       \/ ~held /\ Delivery \notin queue /\ QueueWritten(more) /\ Acknowledge(TRUE)
       \/ ~held /\ Delivery \notin queue /\ Fault /\ Done /\ UNCHANGED <<queue, queueMay, held>>
       \/ ~held /\ Delivery \notin queue /\ QueueUnsure(more) /\ Done
  /\ UNCHANGED <<jobs, jobsMay, blocked, clock, unused, left>> /\ UNCHANGED history

Locked == tick.at \in {"ack", "rollback"}

\* The job moves on, or is gone, or has no time left and is switched off.
Advanced(j) ==
  IF jobs[j].once THEN Restrict(jobs, DOMAIN jobs \ {j})
  ELSE IF Next(tick.now) # 0 THEN [jobs EXCEPT ![j] = [@ EXCEPT !.claimed = 0, !.fire = Next(tick.now)]]
  ELSE [jobs EXCEPT ![j] = [@ EXCEPT !.claimed = 0, !.enabled = FALSE]]

Undo == IF tick.pushed THEN tick' = [tick EXCEPT !.at = "rollback"] ELSE Done

AckReportsIndeterminate ==
  /\ tick.at = "ack"
  /\ IF blocked \/ ~Claimed(Delivery)
     THEN Undo /\ UNCHANGED <<jobs, jobsMay, blocked, left, faults>>
     ELSE \/ Committed(Advanced(tick.job)) /\ left' = left \cup {Delivery} /\ Done
          \/ Indeterminate(Advanced(tick.job)) /\ left' = left \cup {Delivery} /\ Undo
          \/ NotCommitted /\ Undo /\ UNCHANGED left
  /\ UNCHANGED <<queue, queueMay, held, clock, unused>> /\ UNCHANGED history

\* ack_dispatch.  A failure after the rename is no failure to the queue.
AckDispatch ==
  /\ tick.at = "ack"
  /\ IF blocked \/ ~Claimed(Delivery)
     THEN Undo /\ UNCHANGED <<jobs, jobsMay, blocked, left, faults>>
     ELSE \/ /\ Committed(Advanced(tick.job)) \/ Indeterminate(Advanced(tick.job))
             /\ left' = left \cup {Delivery} /\ Done
          \/ NotCommitted /\ Undo /\ UNCHANGED left
  /\ UNCHANGED <<queue, queueMay, held, clock, unused>> /\ UNCHANGED history

\* The commit failed: the delivery is taken back; when that fails too the
\* queue is blocked, with it or without it.
Rollback ==
  /\ tick.at = "rollback" /\ Done
  /\ LET less == queue \ {Delivery} IN
       \/ QueueWritten(less)
       \/ QueueUnsure(less)
       \/ Fault /\ held' = TRUE /\ UNCHANGED <<queue, queueMay>>
  /\ UNCHANGED <<jobs, jobsMay, blocked, clock, unused, left>> /\ UNCHANGED history

-----------------------------------------------------------------------------
(* The queue *)

AdmittedWhenCleared(x) == ~Claimed(x)

\* ensure_delivery_admitted
Admitted(x) == ~blocked /\ ~Claimed(x)

\* The delivery becomes a message of the Session and leaves the queue; what
\* may fail on the way is PendingQueue's.
Deliver(x) ==
  /\ x \in queue /\ ~held /\ ~Locked /\ Admitted(x)
  /\ QueueWritten(queue \ {x})
  /\ ran' = ran \cup {x}
  /\ ranAgain' = IF x \in ran THEN ranAgain \cup {x} ELSE ranAgain
  /\ UNCHANGED <<jobs, jobsMay, blocked, tick, clock, unused, left, dropped, removed, guessed, restarts>>

\* The user aborts the Session.
Clear ==
  /\ queue # {} /\ ~held /\ ~Locked
  /\ QueueWritten({})
  /\ dropped' = dropped \cup queue
  /\ UNCHANGED <<jobs, jobsMay, blocked, tick, clock, unused, left, ran, ranAgain, removed, guessed, restarts>>

\* repair_recovery syncs what is visible.
Repair ==
  /\ held /\ ~Locked
  /\ held' = FALSE /\ queueMay' = {queue}
  /\ UNCHANGED <<jobs, jobsMay, blocked, queue, tick, clock, unused, left, faults>> /\ UNCHANGED history

-----------------------------------------------------------------------------
(* The process *)

\* It ends, or the power does, and the next one reads what is there.
Restart ==
  /\ restarts < MaxStarts /\ restarts' = restarts + 1
  /\ \/ UNCHANGED <<jobs, jobsMay, queue, queueMay>>
     \/ /\ jobs' \in jobsMay /\ jobsMay' = {jobs'}
        /\ queue' \in queueMay /\ queueMay' = {queue'}
  /\ guessed' = guessed \cup (IF Cardinality(jobsMay') > 1 THEN {"schedule"} ELSE {})
                       \cup (IF Cardinality(queueMay') > 1 THEN {"queue"} ELSE {})
  /\ blocked' = FALSE /\ held' = FALSE /\ tick' = Idle
  /\ UNCHANGED <<clock, unused, left, ran, ranAgain, dropped, removed, faults>>

InitSchedule ==
  /\ jobs = [j \in {} |-> [once |-> FALSE, fire |-> 0, enabled |-> TRUE, claimed |-> 0]] /\ jobsMay = {jobs}
  /\ queue = {} /\ queueMay = {{}}
  /\ blocked = FALSE /\ held = FALSE /\ tick = Idle /\ clock = 0
  /\ unused = Jobs /\ left = {} /\ ran = {} /\ ranAgain = {} /\ dropped = {}
  /\ removed = {} /\ guessed = {} /\ faults = 0 /\ restarts = 0

NextSchedule ==
  \/ \E j \in Jobs : (\E once \in BOOLEAN : Add(j, once)) \/ Remove(j) \/ Pause(j) \/ Resume(j) \/ Record(j) \/ Candidate(j)
  \/ ClaimDue \/ Enqueue \/ AckDispatch \/ Rollback
  \/ \E x \in queue : Deliver(x)
  \/ Clear \/ Repair \/ Passes \/ Restart

SpecSchedule == InitSchedule /\ [][NextSchedule]_schedule

-----------------------------------------------------------------------------
(* Properties *)

Occurrences == Jobs \X (1 .. Horizon)
Schedules == UNION {[known -> [once : BOOLEAN, fire : 1 .. Horizon, enabled : BOOLEAN, claimed : 0 .. Horizon]] :
                      known \in SUBSET Jobs}

TypeOK ==
  /\ jobs \in Schedules /\ jobsMay \subseteq Schedules /\ jobs \in jobsMay
  /\ queue \subseteq Occurrences /\ queue \in queueMay
  /\ left \cup ran \cup ranAgain \cup dropped \subseteq Occurrences
  /\ tick.at \in {"idle", "claim", "enqueue", "ack", "rollback"}
  /\ blocked \in BOOLEAN /\ held \in BOOLEAN /\ guessed \subseteq {"schedule", "queue"}
  /\ clock \in 0 .. Horizon /\ unused \cup removed \subseteq Jobs

\* An occurrence is run once, however the two files fail and whatever a loss
\* of power takes back of them, unless its job was removed meanwhile, or a
\* process had begun upon a schedule that was not known to be on disk.
FiredOnce == \A x \in ranAgain : x[1] \in removed \/ "schedule" \in guessed

\* An occurrence that the schedule has moved past is in the queue, was run,
\* or was cleared by the user: no failure between the two files loses it,
\* unless a process had begun upon such a queue.
NoneLost == left \subseteq queue \cup ran \cup dropped \/ "queue" \in guessed

\* The same of jobs that were removed, and of the file that a restart finds:
\* "the visible acknowledgement may disappear" is true of it as well.
FiredOnceEver == ranAgain = {}

\* A delivery that waits is one the queue may hand out, or one that the tick
\* will acknowledge: nothing of the Session is stuck behind it.
NothingIsStuck ==
  \A x \in queue : tick = Idle /\ ~blocked /\ Claimed(x) => jobs[x[1]].enabled
=============================================================================
