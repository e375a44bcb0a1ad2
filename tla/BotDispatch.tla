----------------------------- MODULE BotDispatch -----------------------------
(***************************************************************************)
(* One Bot Group: its conversation (bot/conversation: messages, deliveries *)
(* and tasks in one event log), the tick that turns deliveries into runs   *)
(* and the state of the runs back into the conversation (bot/system:       *)
(* lifecycle, settlement, dispatch), the Bots' tools (bot/tools) and the   *)
(* owner's RPCs (ws/ops_bot).                                              *)
(*                                                                         *)
(* Every writer of the conversation reads it, decides, and appends under   *)
(* the version it has read.  Fresh holds the processes whose reading is    *)
(* still the current one: a write of another one is refused, unless its    *)
(* idempotency key was used before, and then it changes nothing.  A run is *)
(* what RunRecord makes of it: only its status is kept here.               *)
(***************************************************************************)
EXTENDS Naturals, Sequences, FiniteSets, SequencesExt

CONSTANTS
  Bots, Moderator, Owner, None,
  MaxChildren, \* the requests that the budget of a run allows
  Addressed,   \* bound: the Bots that the owner writes to
  Direct,      \* bound: the Bots whose runs are started without a delivery
  MaxPosts,    \* bound: instructions of the owner
  MaxTasks,    \* bound: tasks
  MaxDeeds     \* bound: questions, interventions of the owner, and restarts

ASSUME DispatchAssumption ==
  /\ Moderator \in Bots /\ Addressed \cup Direct \subseteq Bots /\ Owner \notin Bots /\ None \notin Bots \cup {Owner}
  /\ {MaxChildren, MaxPosts, MaxTasks, MaxDeeds} \subseteq Nat

VARIABLES
  life,       \* ConversationState.lifecycle
  messages,   \*   messages: kind, actor, task, and the run it comes from
  queued,     \*   deliveries.queued, a delivery being <<message, recipient>>
  inflight,   \*   deliveries.in_flight
  fate,       \*   tombstones and delivery_runs: what became of a delivery
  tasks,      \*   tasks
  keys,       \*   the idempotency keys that can be met again
  on,         \* the Bots that are Active
  rev,        \* current_revision_id of each Bot
  runs,       \* the status of each run <<message, recipient, revision>>; that
              \* of one which is not dispatched has 0 for a message
  executing,  \* the runs the executor is at
  at,         \* where each process is
  fresh,      \* the processes whose reading of the conversation is current
  deeds

conversation == <<life, messages, queued, inflight, fate, tasks, keys>>
bots == <<on, rev>>
run == <<runs, executing>>
vars == <<conversation, bots, run, at, fresh, deeds>>

Over == {"Completed", "Failed", "Canceled", "Rejected", "Blocked"}
Live == DOMAIN runs \cap {r \in DOMAIN runs : runs[r] \notin Over}
Records == ToSet(queued) \cup ({inflight} \ {None})
TaskOf(x) == IF x[1] = 0 THEN 0 ELSE messages[x[1]].task
Runs(b) == {r \in Live : r[2] = b}
Dispatched(b) == {r \in Runs(b) : r[1] # 0}

Tick == <<"tick">>
Stop == <<"stop">>
Tool(r) == <<"tool", r>>

Place(pc) ==
  [pc |-> pc, delivery |-> None, run |-> None, saw |-> "None", todo |-> {}]
Go(p, place) == at' = [q \in DOMAIN at \cup {p} |-> IF q = p THEN place ELSE at[q]]
Leave(p) == at' = [q \in DOMAIN at \ {p} |-> at[q]]
Idle == Place("idle")
At(p, pc) == p \in DOMAIN at /\ at[p].pc = pc

Deed == deeds < MaxDeeds /\ deeds' = deeds + 1

-----------------------------------------------------------------------------
(* The conversation *)

\* task_transition
Transitions ==
  LET open == {"Working", "Canceled", "Rejected", "Blocked"} IN
  [s \in {"Submitted", "InputRequired"} |-> open]
  @@ ("Working" :> Over \cup {"InputRequired"})

\* Mutant of MayChange: a parent may complete before its children.
MayChangeChildless(t, s, actor) ==
  /\ tasks[t].status \notin Over
  /\ s \in Transitions[tasks[t].status]
  /\ actor \in {Owner, tasks[t].owner}

\* change_task
MayChange(t, s, actor) ==
  /\ tasks[t].status \notin Over
  /\ s \in Transitions[tasks[t].status]
  /\ actor \in {Owner, tasks[t].owner}
  /\ s = "Completed" =>
       \A c \in DOMAIN tasks : tasks[c].parent = t => tasks[c].status \in Over

Change(t, s) == tasks' = [tasks EXCEPT ![t].status = s]

\* post: a message goes to the back of the queue of each recipient.
Post(message, recipients) ==
  /\ messages' = Append(messages, message)
  /\ queued' = queued \o SetToSeq({<<Len(messages) + 1, b>> : b \in recipients})
  /\ UNCHANGED <<life, inflight, fate, keys>>

NewTask(to, from, parent) ==
  [status |-> "Submitted", owner |-> to, originator |-> from, parent |-> parent]

\* The write of p is the latest: every other reading is out of date, and that
\* of p is of no use any more when p is through.
Wrote(p) == fresh' = {p}
WroteLast == fresh' = {}
Reads(p) == fresh' = fresh \cup {p}
Ends(p) == fresh' = fresh \ {p}

-----------------------------------------------------------------------------
(* reject_delivery: two writes, for the tick and for stop_group *)

\* Where p goes on after a delivery is rejected: stop_group with the next one.
Rejected(p, d) ==
  Go(p, IF p = Tick THEN Idle ELSE [Place("stop") EXCEPT !.todo = at[p].todo \ {d}])
GiveUp(p) == IF p = Tick THEN Go(p, Idle) ELSE Leave(p)

\* Without a claim of d, or with the generation of the claim in flight.
RejectDelivery(p, d) ==
  LET t == TaskOf(d) IN
  /\ d \in Records
  /\ queued' = SelectSeq(queued, LAMBDA e : e # d)
  /\ inflight' = IF inflight = d THEN None ELSE inflight
  /\ fate' = [e \in DOMAIN fate \cup {d} |-> IF e = d THEN None ELSE fate[e]]
  /\ IF t # 0 /\ tasks[t].status \notin Over
     THEN Go(p, [at[p] EXCEPT !.pc = "refuse", !.delivery = d, !.todo = @ \ {d}]) /\ Wrote(p)
     ELSE Rejected(p, d) /\ WroteLast
  /\ UNCHANGED <<life, messages, tasks, keys, bots, run, deeds>>

MayRefuse(p) ==
  p \in fresh /\ MayChange(TaskOf(at[p].delivery), "Rejected", at[p].delivery[2])

RefuseTask(p) ==
  /\ At(p, "refuse")
  /\ IF MayRefuse(p)
     THEN Change(TaskOf(at[p].delivery), "Rejected") /\ WroteLast /\ Rejected(p, at[p].delivery)
     ELSE UNCHANGED tasks /\ Ends(p) /\ GiveUp(p)
  /\ UNCHANGED <<life, messages, queued, inflight, fate, keys, bots, run, deeds>>

-----------------------------------------------------------------------------
(* settle_run *)

\* task_status
Target(s) == IF s \in {"Queued", "Running", "Stopping"} THEN "Working" ELSE s

Answered(r) ==
  \E i \in DOMAIN messages : messages[i].kind \in {"response", "notice"} /\ messages[i].run = r

OutOfStep(r, s) ==
  LET t == TaskOf(r) IN
  t # 0 /\ tasks[t].status \notin Over /\ tasks[t].status # Target(s)

\* The Bot that hears the end of r: it asked for it in a request of its own.
Listener(r) ==
  LET t == TaskOf(r)
      source == messages[r[1]]
      who == IF t # 0 THEN tasks[t].originator ELSE source.actor IN
  IF r[1] # 0 /\ source.kind = "request" THEN {who} \cap Bots ELSE {}

\* reconcile_runs lists the runs that have a task or have ended: what is seen
\* of one may be out of date when its turn comes.
SeeRun(r) ==
  /\ At(Tick, "idle")
  /\ OutOfStep(r, runs[r]) \/ (runs[r] \in Over /\ ~ Answered(r))
  /\ Go(Tick, [Place("settle") EXCEPT !.run = r, !.saw = runs[r]])
  /\ UNCHANGED <<conversation, bots, run, fresh, deeds>>

Settled(s) == Go(Tick, IF s \in Over THEN [at[Tick] EXCEPT !.pc = "answer"] ELSE Idle)

\* sync_collaboration, the task: a status that this run has written before
\* is a duplicate, and changes nothing.
SyncTask ==
  LET r == at[Tick].run
      s == Target(at[Tick].saw)
      key == <<r, s>> IN
  /\ At(Tick, "settle")
  /\ CASE ~ OutOfStep(r, s) \/ key \in keys ->
             Settled(at[Tick].saw) /\ UNCHANGED <<tasks, keys, fresh>>
       [] OutOfStep(r, s) /\ key \notin keys /\ MayChange(TaskOf(r), s, r[2]) ->
             /\ Change(TaskOf(r), s)
             /\ keys' = keys \cup {key}
             /\ WroteLast
             /\ Settled(at[Tick].saw)
       [] OTHER -> Go(Tick, Idle) /\ UNCHANGED <<tasks, keys, fresh>>
  /\ UNCHANGED <<life, messages, queued, inflight, fate, bots, run, deeds>>

\* and the message, which only an Active conversation accepts
Answer ==
  LET r == at[Tick].run
      to == Listener(r) IN
  /\ At(Tick, "answer")
  /\ IF ~ Answered(r) /\ life = "Active"
     THEN /\ Post([kind |-> IF to = {} THEN "notice" ELSE "response", actor |-> r[2],
                   task |-> TaskOf(r), run |-> r], to)
          /\ WroteLast
     ELSE UNCHANGED <<messages, queued, life, inflight, fate, keys, fresh>>
  /\ Go(Tick, Idle)
  /\ UNCHANGED <<tasks, bots, run, deeds>>

-----------------------------------------------------------------------------
(* The other stages of bot_tick *)

\* reconcile_inactive_bot_work
RejectInactive ==
  /\ At(Tick, "idle")
  /\ \E d \in Records : d[2] \notin on /\ RejectDelivery(Tick, d)

\* RunCommand::RequestCancel: at once, unless the run is being executed.
Canceling(s) == IF s \in {"Running", "Stopping"} THEN "Stopping" ELSE "Canceled"

RequestCancel(r) == runs' = [runs EXCEPT ![r] = Canceling(@)]

\* reconcile_inactive_runs
CancelInactive ==
  /\ At(Tick, "idle")
  /\ \E r \in Live : r[2] \notin on /\ runs[r] # "Stopping" /\ RequestCancel(r)
  /\ UNCHANGED <<conversation, bots, executing, at, fresh, deeds>>

\* reconcile_group_lifecycle
PauseGroup ==
  /\ At(Tick, "idle")
  /\ life = "Active" /\ Moderator \notin on
  /\ life' = "Paused"
  /\ WroteLast
  /\ UNCHANGED <<messages, queued, inflight, fate, tasks, keys, bots, run, at, deeds>>

\* recoverable, at the end of the tick
Spawn ==
  LET recoverable == {r \in Live : \/ runs[r] = "Stopping"
                                  \/ (runs[r] \in {"Queued", "Running"} /\ r[2] \in on)} IN
  /\ At(Tick, "idle")
  /\ ~ recoverable \subseteq executing
  /\ executing' = executing \cup recoverable
  /\ UNCHANGED <<conversation, bots, runs, at, fresh, deeds>>

-----------------------------------------------------------------------------
(* dispatch_next_delivery *)

Dispatch(pc, d) == Go(Tick, [Place(pc) EXCEPT !.delivery = d])

\* Mutant of Claim: what a restart left in flight is not taken up.
ClaimNext ==
  /\ At(Tick, "idle") /\ life = "Active"
  /\ inflight = None /\ queued # <<>>
  /\ inflight' = Head(queued)
  /\ queued' = Tail(queued)
  /\ Wrote(Tick)
  /\ Dispatch("check", inflight')
  /\ UNCHANGED <<life, messages, fate, tasks, keys, bots, run, deeds>>

\* The head of the queue, or the delivery that was left in flight.
Claim ==
  /\ At(Tick, "idle") /\ life = "Active" /\ Records # {}
  /\ IF inflight = None
     THEN /\ inflight' = Head(queued)
          /\ queued' = Tail(queued)
          /\ Wrote(Tick)
     ELSE UNCHANGED <<inflight, queued>> /\ Reads(Tick)
  /\ Dispatch("check", inflight')
  /\ UNCHANGED <<life, messages, fate, tasks, keys, bots, run, deeds>>

\* Mutant of Busy: a run that waits for the owner is no work under way.
BusyUnlessWaiting(b) == \E r \in Runs(b) : runs[r] # "InputRequired"

Busy(b) == Runs(b) # {}

\* queue_run: what it demands of the Bot, the conversation and the task.
MayQueue(d) ==
  LET t == TaskOf(d) IN
  /\ d[2] \in on
  /\ life = "Active"
  /\ t # 0 => tasks[t].owner = d[2] /\ tasks[t].status \notin Over

\* A delivery that is released goes to the front again.
Release ==
  LET d == at[Tick].delivery IN
  /\ At(Tick, "check") /\ Busy(d[2]) /\ Tick \in fresh
  /\ inflight' = None
  /\ queued' = <<d>> \o queued
  /\ WroteLast
  /\ Go(Tick, Idle)
  /\ UNCHANGED <<life, messages, fate, tasks, keys, bots, run, deeds>>

Refuse ==
  LET d == at[Tick].delivery IN
  /\ At(Tick, "check") /\ ~ Busy(d[2]) /\ Tick \in fresh /\ ~ MayQueue(d)
  /\ RejectDelivery(Tick, d)

\* The task is the one Tick has read: if it is out of date, the next write of
\* the conversation is refused whatever it was.
Admit ==
  LET d == at[Tick].delivery
      t == TaskOf(d) IN
  /\ At(Tick, "check") /\ ~ Busy(d[2]) /\ MayQueue(d)
  /\ Go(Tick, [at[Tick] EXCEPT !.pc = "append", !.run = <<d[1], d[2], rev[d[2]]>>,
                               !.saw = IF t = 0 THEN "None" ELSE tasks[t].status])
  /\ UNCHANGED <<conversation, bots, run, fresh, deeds>>

\* RunCommand::Queue: the same run again is a duplicate.
Queue(r) ==
  runs' = [q \in DOMAIN runs \cup {r} |-> IF q \in DOMAIN runs THEN runs[q] ELSE "Queued"]

AppendRun ==
  /\ At(Tick, "append")
  /\ Queue(at[Tick].run)
  /\ Go(Tick, [at[Tick] EXCEPT !.pc = IF at[Tick].saw = "Submitted" THEN "start" ELSE "ack"])
  /\ UNCHANGED <<conversation, bots, executing, fresh, deeds>>

MayStart == Tick \in fresh /\ MayChange(TaskOf(at[Tick].run), "Working", at[Tick].run[2])

StartTask ==
  LET r == at[Tick].run
      key == <<r, "Submitted">> IN
  /\ At(Tick, "start")
  /\ IF key \in keys
     THEN UNCHANGED <<tasks, keys>> /\ Reads(Tick)
     ELSE /\ MayStart
          /\ Change(TaskOf(r), "Working")
          /\ keys' = keys \cup {key}
          /\ Wrote(Tick)
  /\ Go(Tick, [at[Tick] EXCEPT !.pc = "ack"])
  /\ UNCHANGED <<life, messages, queued, inflight, fate, bots, run, deeds>>

MayAcknowledge == Tick \in fresh /\ inflight = at[Tick].delivery

Acknowledge ==
  LET d == at[Tick].delivery IN
  /\ At(Tick, "ack") /\ MayAcknowledge
  /\ inflight' = None
  /\ fate' = [e \in DOMAIN fate \cup {d} |-> IF e = d THEN at[Tick].run ELSE fate[e]]
  /\ WroteLast
  /\ Go(Tick, Idle)
  /\ UNCHANGED <<life, messages, queued, tasks, keys, bots, run, deeds>>

\* An error leaves the delivery where it is, for the next tick.
DispatchFails ==
  /\ \/ At(Tick, "check") /\ Tick \notin fresh /\ (Busy(at[Tick].delivery[2]) \/ ~ MayQueue(at[Tick].delivery))
     \/ At(Tick, "start") /\ <<at[Tick].run, "Submitted">> \notin keys /\ ~ MayStart
     \/ At(Tick, "ack") /\ ~ MayAcknowledge
  /\ Go(Tick, Idle) /\ Ends(Tick)
  /\ UNCHANGED <<conversation, bots, run, deeds>>

-----------------------------------------------------------------------------
(* The executor of a run, and the tools of its Bot *)

Begin(r) ==
  /\ r \in executing /\ runs[r] = "Queued"
  /\ runs' = [runs EXCEPT ![r] = "Running"]
  /\ UNCHANGED <<conversation, bots, executing, at, fresh, deeds>>

\* bot_task create: a request to another Bot, with a task of its own.
Delegate(r, b) ==
  LET t == TaskOf(r) IN
  /\ r \in executing /\ runs[r] = "Running"
  /\ Len(tasks) < MaxTasks
  /\ Cardinality({i \in DOMAIN messages : messages[i].kind = "request" /\ messages[i].run = r}) < MaxChildren
  /\ life = "Active" /\ {Moderator, r[2]} \subseteq on /\ b # r[2]
  /\ t # 0 => tasks[t].status \notin Over
  /\ tasks' = Append(tasks, NewTask(b, r[2], t))
  /\ Post([kind |-> "request", actor |-> r[2], task |-> Len(tasks) + 1, run |-> r], {b})
  /\ fresh' = {}
  /\ UNCHANGED <<bots, run, at, deeds>>

\* bot_task start, complete, fail (reject and cancel end the task as fail does)
Report(r, s) ==
  LET t == TaskOf(r) IN
  /\ r \in executing /\ runs[r] = "Running"
  /\ t # 0 /\ tasks[t].owner = r[2] /\ MayChange(t, s, r[2])
  /\ Change(t, s)
  /\ fresh' = {}
  /\ UNCHANGED <<life, messages, queued, inflight, fate, keys, bots, run, at, deeds>>

\* bot_task need_input pauses the run first, and then changes the task.
Ask(r) ==
  LET t == TaskOf(r) IN
  /\ r \in executing /\ runs[r] = "Running"
  /\ t # 0 /\ tasks[t].owner = r[2]
  /\ Tool(r) \notin DOMAIN at
  /\ runs' = [runs EXCEPT ![r] = "InputRequired"]
  /\ Deed
  /\ Reads(Tool(r))
  /\ Go(Tool(r), [Place("ask") EXCEPT !.run = r])
  /\ UNCHANGED <<conversation, bots, executing>>

\* The execution of a run that is paused ends, whatever the tool returns.
TellTask(r) ==
  LET t == TaskOf(r)
      p == Tool(r) IN
  /\ At(p, "ask")
  /\ IF p \in fresh /\ MayChange(t, "InputRequired", r[2])
     THEN Change(t, "InputRequired") /\ fresh' = {}
     ELSE UNCHANGED tasks /\ Ends(p)
  /\ Leave(p)
  /\ executing' = executing \ {r}
  /\ UNCHANGED <<life, messages, queued, inflight, fate, keys, bots, runs, deeds>>

\* before_tool: a call that needs the owner's consent ends the execution too.
\* To wait for consent and to wait for input are one status here.
AwaitApproval(r) ==
  /\ Deed
  /\ r \in executing /\ runs[r] = "Running"
  /\ runs' = [runs EXCEPT ![r] = "InputRequired"]
  /\ executing' = executing \ {r}
  /\ UNCHANGED <<conversation, bots, at, fresh>>

\* post_status_note, bot_message, and the changes of the members: a write of
\* something that nobody here looks at.
Note ==
  /\ Deed
  /\ fresh # {} /\ fresh' = {}
  /\ UNCHANGED <<conversation, bots, run, at>>

\* finish writes the end of the run; it settles the run as the tick does.
Finish(r, s) ==
  /\ r \in executing
  /\ \/ runs[r] = "Running" /\ s \in {"Completed", "Failed"}
     \/ runs[r] = "Stopping" /\ s = "Canceled"
  /\ runs' = [runs EXCEPT ![r] = s]
  /\ executing' = executing \ {r}
  /\ UNCHANGED <<conversation, bots, at, fresh, deeds>>

\* A run that is no longer recoverable when its execution starts.
Lapse(r) ==
  /\ r \in executing /\ runs[r] \in Over
  /\ executing' = executing \ {r}
  /\ UNCHANGED <<conversation, bots, runs, at, fresh, deeds>>

-----------------------------------------------------------------------------
(* The owner *)

\* bot.conversation.post: with a task of its own, or without.
Instruct(to, tasked) ==
  /\ Cardinality({i \in DOMAIN messages : messages[i].actor = Owner}) < MaxPosts
  /\ life = "Active" /\ Moderator \in on
  /\ tasked => Len(tasks) < MaxTasks
  /\ tasks' = IF tasked THEN Append(tasks, NewTask(to, Owner, 0)) ELSE tasks
  /\ Post([kind |-> "instruction", actor |-> Owner, run |-> None,
           task |-> IF tasked THEN Len(tasks) + 1 ELSE 0], {to})
  /\ fresh' = {}
  /\ UNCHANGED <<bots, run, at, deeds>>

\* bot.run.start in a conversation, at any time; or a routine that continues
\* it, which the tick dispatches after it has posted the occurrence.  Neither
\* asks whether the Bot is busy, and the run has neither a task nor a delivery.
\* Bound: a run of each Bot and revision.
StartRun(b) ==
  /\ Deed
  /\ b \in on /\ life = "Active"
  /\ Queue(<<0, b, rev[b]>>)
  /\ UNCHANGED fresh \/ (At(Tick, "idle") /\ WroteLast)
  /\ UNCHANGED <<conversation, bots, executing, at>>

BindInput(r) ==
  /\ runs[r] = "InputRequired" /\ r \notin executing
  /\ runs' = [runs EXCEPT ![r] = "Running"]
  /\ UNCHANGED <<conversation, bots, executing, at, fresh, deeds>>

CancelRun(r) ==
  /\ Deed
  /\ runs[r] \notin Over
  /\ RequestCancel(r)
  /\ UNCHANGED <<conversation, bots, executing, at, fresh>>

CancelTask(t) ==
  /\ Deed
  /\ MayChange(t, "Canceled", Owner)
  /\ Change(t, "Canceled")
  /\ fresh' = {}
  /\ UNCHANGED <<life, messages, queued, inflight, fate, keys, bots, run, at>>

\* TaskReassigned: the task starts again, at another Bot.
Reassign(t, b) ==
  /\ Deed
  /\ tasks[t].status \notin Over
  /\ tasks' = [tasks EXCEPT ![t].owner = b, ![t].status = "Submitted"]
  /\ fresh' = {}
  /\ UNCHANGED <<life, messages, queued, inflight, fate, keys, bots, run, at>>

\* LifecycleChange::Pause, by the owner or by auto_pause_bot_after_failures
PauseBot(b) ==
  /\ Deed
  /\ b \in on /\ on' = on \ {b}
  /\ UNCHANGED <<conversation, rev, run, at, fresh>>

ResumeBot(b) ==
  /\ b \notin on /\ on' = on \cup {b}
  /\ UNCHANGED <<conversation, rev, run, at, fresh, deeds>>

Publish(b) ==
  /\ Deed
  /\ rev' = [rev EXCEPT ![b] = @ + 1]
  /\ UNCHANGED <<conversation, on, run, at, fresh>>

\* Bound: the owner resumes what he has stopped when the stop has come back.
ResumeGroup ==
  /\ life = "Paused" /\ Stop \notin DOMAIN at
  /\ life' = "Active"
  /\ fresh' = {}
  /\ UNCHANGED <<messages, queued, inflight, fate, tasks, keys, bots, run, at, deeds>>

\* stop_group: pause, reject what is pending, cancel what is running.
StopGroup ==
  /\ Deed
  /\ life = "Active" /\ Stop \notin DOMAIN at
  /\ life' = "Paused"
  /\ WroteLast
  /\ Go(Stop, [Place("stop") EXCEPT !.todo = Records])
  /\ UNCHANGED <<messages, queued, inflight, fate, tasks, keys, bots, run>>

\* stop_group ends at the first error: a delivery that is gone, or a write of
\* somebody else between a reading and the write it is for.
StopFails == Leave(Stop) /\ UNCHANGED <<conversation, bots, run, fresh, deeds>>

StopDelivery ==
  /\ At(Stop, "stop")
  /\ \E d \in at[Stop].todo :
       RejectDelivery(Stop, d) \/ StopFails

\* cancel_conversation_runs: all of the runs, or those before the first error.
StopRuns ==
  /\ At(Stop, "stop") /\ at[Stop].todo = {}
  /\ \E some \in SUBSET Live :
       runs' = [r \in DOMAIN runs |-> IF r \in some THEN Canceling(runs[r]) ELSE runs[r]]
  /\ Leave(Stop)
  /\ UNCHANGED <<conversation, bots, executing, fresh, deeds>>

\* The process stops and starts again.
Crash ==
  /\ Deed
  /\ at' = [p \in {Tick} |-> Idle]
  /\ fresh' = {} /\ executing' = {}
  /\ UNCHANGED <<conversation, bots, runs>>

-----------------------------------------------------------------------------
Init ==
  /\ life = "Active" /\ messages = <<>> /\ queued = <<>> /\ inflight = None
  /\ fate = <<>> /\ tasks = <<>> /\ keys = {}
  /\ on = Bots /\ rev = [b \in Bots |-> 1]
  /\ runs = <<>> /\ executing = {}
  /\ at = [p \in {Tick} |-> Idle]
  /\ fresh = {} /\ deeds = 0

Ticks ==
  \/ RejectInactive \/ RefuseTask(Tick) \/ CancelInactive \/ PauseGroup
  \/ (\E r \in DOMAIN runs : SeeRun(r)) \/ SyncTask \/ Answer
  \/ Claim \/ Release \/ Refuse \/ Admit \/ AppendRun \/ StartTask \/ Acknowledge \/ DispatchFails
  \/ Spawn

Executes(r) ==
  \/ Begin(r) \/ TellTask(r) \/ Lapse(r)
  \/ \E s \in {"Completed", "Failed", "Canceled"} : Finish(r, s)

Tools(r) ==
  \/ Ask(r) \/ AwaitApproval(r)
  \/ \E b \in Bots : Delegate(r, b)
  \/ \E s \in {"Working", "Completed", "Failed"} : Report(r, s)

Stops ==
  \/ StopDelivery \/ RefuseTask(Stop) \/ StopRuns

Owns ==
  \/ \E b \in Bots : PauseBot(b) \/ ResumeBot(b) \/ Publish(b)
  \/ \E b \in Direct : StartRun(b)
  \/ \E b \in Addressed, tasked \in BOOLEAN : Instruct(b, tasked)
  \/ \E r \in DOMAIN runs : BindInput(r) \/ CancelRun(r)
  \/ \E t \in DOMAIN tasks : CancelTask(t) \/ \E b \in Bots : Reassign(t, b)
  \/ ResumeGroup \/ StopGroup

Next ==
  \/ Ticks \/ Stops \/ Owns \/ Note \/ Crash
  \/ \E r \in DOMAIN runs : Executes(r) \/ Tools(r)

Spec == Init /\ [][Next]_vars

\* The tick comes every second and goes through all its stages, whatever the
\* others have to do: a stage that has work again and again comes to it.  An
\* execution goes on or is canceled.  Nothing is asked of the owner.
Fairness ==
  /\ WF_vars(Ticks) /\ WF_vars(Stops)
  /\ SF_vars(Claim) /\ SF_vars(RejectInactive) /\ SF_vars(CancelInactive) /\ SF_vars(Spawn)
  /\ SF_vars(\E r \in DOMAIN runs : SeeRun(r))
  /\ WF_vars(\E r \in DOMAIN runs : Executes(r))

FairSpec == Spec /\ Fairness

-----------------------------------------------------------------------------
\* Of the runs that the dispatch makes a Bot works at one at a time, though
\* the dispatch reads the runs, the Bot and the conversation one after the
\* other, is interrupted by a restart after each of its writes, and may meet
\* a new revision when it comes back (dispatch_from_conversation).
OneDispatchedRun == \A b \in Bots : Cardinality(Dispatched(b)) <= 1

\* Each Bot has at most one nonterminal run in a conversation (website/src/
\* content/docs/bots/library.mdx): a run that is started, or that a routine
\* brings, is not kept back while there is one (queue_run).
OneLiveRun == \A b \in Bots : Cardinality(Runs(b)) <= 1

\* A completed task has no child that is still open, whichever of them is
\* created, reassigned or settled meanwhile (change_task, post).
ChildrenFirst ==
  \A t \in DOMAIN tasks : tasks[t].status = "Completed" =>
    \A c \in DOMAIN tasks : tasks[c].parent = t => tasks[c].status \in Over

\* The messages that can have recipients or be the source of a run.
Posted == 1 .. 2 * MaxPosts + 3 * MaxTasks + MaxDeeds - 1

WaitsForOwner == life = "Paused" \/ \E r \in Live : runs[r] = "InputRequired"

\* What is posted is dispatched or rejected in the end, unless everything
\* waits for the owner again and again: however often its Bot is busy,
\* inactive or stopped meanwhile, and whatever a restart leaves in flight, no
\* delivery waits for ever behind another one (dispatch_next_delivery,
\* reconcile_inactive_bot_work).
EveryDeliveryEnds ==
  \A i \in Posted, b \in Bots :
    <<i, b>> \in Records ~> (<<i, b>> \in DOMAIN fate \/ WaitsForOwner)

\* The receiving Bot settles the task, and the answer closes the task it comes
\* from (website/src/content/docs/bots/collaboration.mdx): the task of a run
\* that is complete does not stay at work, or waiting for the owner, for ever
\* (sync_collaboration).
RunClosesTask ==
  \A i \in Posted, b \in Bots :
    LET r == <<i, b, 1>>
        complete == r \in DOMAIN runs /\ TaskOf(r) # 0 /\ runs[r] = "Completed"
        atWork == {"Working", "InputRequired"} IN
    complete ~> (complete /\ tasks[TaskOf(r)].status \notin atWork)
=============================================================================
