----------------------------- MODULE SessionRun -----------------------------
(***************************************************************************)
(* The runs of one Session: crates/kxen-core/src/ws.  A message starts a   *)
(* run at once (run_llm) or waits in the durable queue; a run takes the    *)
(* Session's slot in active_runs and its cross-process lease, appends the  *)
(* user message, acknowledges the delivery, lets the agent work, persists  *)
(* the terminal and hands the slot to the next delivery.                   *)
(*                                                                         *)
(* The queue is used by its contract, which module PendingQueue is shown   *)
(* to keep: an operation takes effect, or leaves everything as it was, or  *)
(* takes effect, fails and blocks the queue.  A CancelToken is the run it  *)
(* was made for: tokens are compared by generation only.                   *)
(*                                                                         *)
(* send_message looks at active_runs before it decides; every decision it  *)
(* acts on is taken again under the lock, so a step here is one critical   *)
(* section of active_runs, or the stretch of a run between two of them.    *)
(*                                                                         *)
(* Not here: commands (/compact, /doctor), schedule jobs, notices of       *)
(* background agents, and what a deletion does after the Session is quiet. *)
(***************************************************************************)
EXTENDS Naturals, Sequences

CONSTANTS
  Messages,     \* user messages, each sent once
  Runs,         \* run tasks, each with its CancelToken; reused when over
  Kickers,      \* kick_session tasks
  None,         \* no run, no message
  Other,        \* another process that runs this Session
  OtherRuns,    \* TRUE: another process may hold the Session's run lease
  Prompt,       \* TRUE: code without an await is not overtaken by other tasks
  Disrupted     \* TRUE: the process may die and the Session may be deleted

ASSUME NoneAssumption == None \notin Runs \cup Messages \cup {Other}
ASSUME OtherAssumption == Other \notin Runs
ASSUME FlagAssumption == {OtherRuns, Prompt, Disrupted} \subseteq BOOLEAN

VARIABLES
  pc,         \* where every run task is
  msg,        \* the message it carries
  fromQueue,  \* queue_delivery_id is set
  outcome,    \* its DeliveryOutcome
  cancelled,  \* runs whose token is cancelled
  slot,       \* active_runs[session]
  lease,      \* holder of the run lock file
  queue,      \* PendingQueues: [queued, inFlight]
  qblocked,   \* the queue is blocked after an indeterminate write
  log,        \* user messages of the Session JSONL, in order
  synced,     \* length of the part of log known to be durable
  sblocked,   \* the Session is blocked after an indeterminate append
  armed,      \* RetryBook: a retry is reserved and its timer runs
  kick,       \* where every kick task is
  resetting,  \* session.abort between abort_current and reset_retry
  deleting,   \* how far session.delete is
  sent,       \* messages the user has sent
  accepted,   \* messages enqueue returned Ok for
  order,      \* messages accepted at the back of the queue, in that order
  withdrawn,  \* messages that abort or clear took out of the queue
  stopped,    \* messages of the queue when an abort returned Ok
  asked,      \* runs that were active when session.abort was called
  paused      \* a run ended saying that the queue does not continue

runVars == <<pc, msg, fromQueue, outcome, cancelled>>
queueVars == <<queue, qblocked>>
logVars == <<log, synced, sblocked>>
wakeVars == <<armed, kick, resetting>>
history == <<sent, accepted, order, withdrawn, stopped, asked, paused>>
vars == <<runVars, slot, lease, queueVars, logVars, wakeVars, deleting, history>>

-----------------------------------------------------------------------------

Empty == [queued |-> <<>>, inFlight |-> None]

Elems(s) == {s[i] : i \in DOMAIN s}

Items(q) == Elems(q.queued) \cup ({q.inFlight} \ {None})

Said == Elems(log)

Tombstoned == deleting # "no"

\* claim: the delivery in flight again, else the head of the queue.
Claimable(q) ==
  IF q.inFlight # None THEN q.inFlight
  ELSE IF q.queued # <<>> THEN Head(q.queued) ELSE None

Claimed(q) ==
  IF q.inFlight # None \/ q.queued = <<>> THEN q
  ELSE [queued |-> Tail(q.queued), inFlight |-> Head(q.queued)]

\* Ends of a queue operation that would leave q: Ok, PreCommit, PostCommit.
QueueOk(q) == /\ ~ qblocked
              /\ queue' = q
              /\ UNCHANGED qblocked
QueueFails == UNCHANGED queueVars
QueueIndeterminate(q) == /\ ~ qblocked
                         /\ q # queue
                         /\ queue' = q
                         /\ qblocked' = TRUE
QueueErr(q) == QueueFails \/ QueueIndeterminate(q)

\* Where a run task is; the comment is what it does next.
Labels == {
  "idle",     \* it does not exist
  "claim",    \* claim_run_with
  "lease",    \* run_lease::acquire
  "admit",    \* load_meta, workspace runtime, goal
  "commit",   \* prepare_user and commit_user's append
  "settle",   \* commit_user's acknowledge
  "turn",     \* what may fail before the model, run_turn
  "terminal", \* commit_and_publish
  "handoff",  \* claim_queued_handoff
  "free",     \* nothing is queued: release the slot and kick
  "giveUp",   \* the handoff failed: release the slot
  "delayed",  \* schedule_retry
  "exit",     \* drop of the run lease
  "drop"}     \* drop of RunSlot

\* The run is between its claim of the slot and the end of its terminal.
Working(r) == pc[r] \in {"admit", "commit", "settle", "turn", "terminal"}

Goto(r, label) == pc' = [pc EXCEPT ![r] = label]

\* r, which does not exist, becomes a run of m that goes on at label.
Start(r, m, delivery, label) ==
  /\ pc[r] = "idle"
  /\ Goto(r, label)
  /\ msg' = [msg EXCEPT ![r] = m]
  /\ fromQueue' = [fromQueue EXCEPT ![r] = delivery]

Fresh == UNCHANGED <<outcome, cancelled>>

Vanish(r) ==
  /\ Goto(r, "idle")
  /\ msg' = [msg EXCEPT ![r] = None]
  /\ fromQueue' = [fromQueue EXCEPT ![r] = FALSE]
  /\ outcome' = [outcome EXCEPT ![r] = "direct"]
  /\ cancelled' = cancelled \ {r}
  /\ asked' = asked \ {r}

\* Mutant of RemoveIfCurrent: the entry is removed whoever owns it.
RemoveAlways(r) == slot' = None

\* remove_if_current: only the run's own generation leaves the slot.
RemoveIfCurrent(r) == slot' = IF slot = r THEN None ELSE slot

Continuation(o) == IF o \in {"direct", "acked"} THEN "handoff" ELSE "delayed"

-----------------------------------------------------------------------------
(* send_message *)

\* enqueue returned Ok for m.
Accept(m) ==
  /\ accepted' = accepted \cup {m}
  /\ order' = Append(order, m)

\* No run is active: run_llm is spawned.
SendDirect(m, r) ==
  /\ m \notin sent
  /\ slot = None
  /\ Start(r, m, FALSE, "claim") /\ Fresh
  /\ sent' = sent \cup {m}
  /\ UNCHANGED <<slot, lease, queueVars, logVars, wakeVars, deleting,
                 accepted, order, withdrawn, stopped, asked, paused>>

\* Policy "queue".
SendQueued(m) ==
  LET q == [queue EXCEPT !.queued = Append(@, m)] IN
  /\ m \notin sent
  /\ slot # None
  /\ \/ QueueOk(q) /\ Accept(m)
     \/ QueueIndeterminate(q) /\ UNCHANGED <<accepted, order>>
  /\ sent' = sent \cup {m}
  /\ UNCHANGED <<runVars, slot, lease, logVars, wakeVars, deleting,
                 withdrawn, stopped, asked, paused>>

\* Policy "interrupt": the message goes first and the current run is
\* cancelled, which keeps the slot until it has finished.
SendInterrupt(m) ==
  LET q == [queue EXCEPT !.queued = <<m>> \o @] IN
  /\ m \notin sent
  /\ slot # None
  /\ \/ /\ QueueOk(q)
        /\ accepted' = accepted \cup {m}
        /\ cancelled' = cancelled \cup {slot}
     \/ /\ QueueIndeterminate(q)
        /\ UNCHANGED <<accepted, cancelled>>
  /\ sent' = sent \cup {m}
  /\ UNCHANGED <<pc, msg, fromQueue, outcome, slot, lease, logVars, wakeVars,
                 deleting, order, withdrawn, stopped, asked, paused>>

-----------------------------------------------------------------------------
(* The slot and the lease *)

\* Mutant of ClaimSlot: the tombstone is not read under the lock.
ClaimSlotUnchecked(r) ==
  /\ pc[r] = "claim"
  /\ slot = None
  /\ slot' = r
  /\ Goto(r, "lease")
  /\ paused' = FALSE
  /\ UNCHANGED <<msg, fromQueue, outcome, cancelled, lease, queueVars, logVars,
                 wakeVars, deleting, sent, accepted, order, withdrawn, stopped, asked>>

ClaimSlot(r) ==
  /\ pc[r] = "claim"
  /\ ~ Tombstoned
  /\ slot = None
  /\ slot' = r
  /\ Goto(r, "lease")
  /\ paused' = FALSE
  /\ UNCHANGED <<msg, fromQueue, outcome, cancelled, lease, queueVars, logVars,
                 wakeVars, deleting, sent, accepted, order, withdrawn, stopped, asked>>

\* The slot is taken: the message is queued under the same lock.
Concede(r) ==
  LET q == [queue EXCEPT !.queued = Append(@, msg[r])] IN
  /\ pc[r] = "claim"
  /\ ~ Tombstoned
  /\ slot # None
  /\ \/ QueueOk(q) /\ Accept(msg[r])
     \/ QueueErr(q) /\ UNCHANGED <<accepted, order>>
  /\ Vanish(r)
  /\ UNCHANGED <<slot, lease, logVars, wakeVars, deleting,
                 sent, withdrawn, stopped, paused>>

\* The Session is being deleted: finish_direct publishes the error.
ClaimRefused(r) ==
  /\ pc[r] = "claim"
  /\ Tombstoned
  /\ Vanish(r)
  /\ UNCHANGED <<slot, lease, queueVars, logVars, wakeVars, deleting,
                 sent, accepted, order, withdrawn, stopped, paused>>

AcquireLease(r) ==
  /\ pc[r] = "lease"
  /\ lease = None
  /\ lease' = r
  /\ Goto(r, "admit")
  /\ UNCHANGED <<msg, fromQueue, outcome, cancelled, slot, queueVars, logVars,
                 wakeVars, deleting, history>>

\* A queue delivery waits two seconds for the lease, which outlasts the
\* return of the run before it; a direct run does not wait at all.  Either
\* way the run publishes an error and is gone.
LeaseRefused(r) ==
  /\ pc[r] = "lease"
  /\ lease # None
  /\ fromQueue[r] \/ Prompt => lease = Other
  /\ Goto(r, "drop")
  /\ UNCHANGED <<msg, fromQueue, outcome, cancelled, slot, lease, queueVars,
                 logVars, wakeVars, deleting, history>>

-----------------------------------------------------------------------------
(* The body of run_llm_inner *)

\* A release that leaves q, or nothing for a direct run.
ReleaseTo(r, q) ==
  \/ /\ ~ fromQueue[r]
     /\ outcome' = [outcome EXCEPT ![r] = "direct"]
     /\ UNCHANGED queueVars
  \/ /\ fromQueue[r] /\ queue.inFlight = msg[r]
     /\ QueueOk(q)
     /\ outcome' = [outcome EXCEPT ![r] = "released"]
  \/ /\ fromQueue[r] /\ queue.inFlight = msg[r]
     /\ QueueErr(q)
     /\ outcome' = [outcome EXCEPT ![r] = "inFlight"]
  \/ /\ fromQueue[r] /\ queue.inFlight # msg[r]
     /\ outcome' = [outcome EXCEPT ![r] = "inFlight"]
     /\ UNCHANGED queueVars

\* Mutants of ReleaseDelivery: to the back, or settled as if the message had
\* been persisted.
ReleaseToBack(r) ==
  ReleaseTo(r, [queued |-> Append(queue.queued, msg[r]), inFlight |-> None])

ReleaseForgets(r) == ReleaseTo(r, [queue EXCEPT !.inFlight = None])

\* queue_delivery::release puts the delivery back at the head.
ReleaseDelivery(r) ==
  ReleaseTo(r, [queued |-> <<msg[r]>> \o queue.queued, inFlight |-> None])

\* The run ends before the user message is in the history; its terminal is
\* published and not persisted.
FinishUnsaid(r) ==
  /\ ReleaseDelivery(r)
  /\ Goto(r, Continuation(outcome'[r]))
  /\ UNCHANGED <<msg, fromQueue, cancelled, slot, lease, logVars, wakeVars,
                 deleting, history>>

Admit(r) ==
  /\ pc[r] = "admit"
  /\ Goto(r, "commit")
  /\ UNCHANGED <<msg, fromQueue, outcome, cancelled, slot, lease, queueVars,
                 logVars, wakeVars, deleting, history>>

AdmitFails(r) == pc[r] = "admit" /\ FinishUnsaid(r)

\* finish_blocked: the delivery stays in flight and nobody continues.
FinishBlocked(r) ==
  /\ Goto(r, "exit")
  /\ outcome' = [outcome EXCEPT ![r] = IF fromQueue[r] THEN "inFlight" ELSE "direct"]
  /\ paused' = TRUE
  /\ UNCHANGED <<msg, fromQueue, cancelled, slot, lease, queueVars, wakeVars,
                 deleting, sent, accepted, order, withdrawn, stopped, asked>>

\* prepare_user can only fail for a delivery: the history is unreadable, or
\* holds something else under its id.
PrepareFails(r) ==
  /\ pc[r] = "commit"
  /\ fromQueue[r]
  /\ FinishBlocked(r)
  /\ UNCHANGED logVars

\* append_message_idempotent_durable: a message already in the file is not
\* written again, and the file is not synced again either.
Appended(m) == IF m \in Said THEN log ELSE Append(log, m)

SyncedAfter(m) == IF m \in Said THEN synced ELSE Len(log) + 1

CommitUser(r) ==
  /\ pc[r] = "commit"
  /\ ~ sblocked /\ ~ Tombstoned
  /\ log' = Appended(msg[r])
  /\ synced' = SyncedAfter(msg[r])
  /\ Goto(r, "settle")
  /\ UNCHANGED <<msg, fromQueue, outcome, cancelled, slot, lease, queueVars,
                 sblocked, wakeVars, deleting, history>>

CommitFails(r) == pc[r] = "commit" /\ FinishUnsaid(r)

\* The line, or the metadata after it, is visible and not known durable.
CommitIndeterminate(r) ==
  /\ pc[r] = "commit"
  /\ ~ sblocked /\ ~ Tombstoned
  /\ log' = Appended(msg[r])
  /\ synced' \in {synced, SyncedAfter(msg[r])}
  /\ sblocked' = TRUE
  /\ FinishBlocked(r)

\* settle: acknowledge the delivery and forget its retries.
Settle(r) ==
  /\ pc[r] = "settle"
  /\ \/ /\ ~ fromQueue[r]
        /\ outcome' = [outcome EXCEPT ![r] = "direct"]
        /\ UNCHANGED <<queueVars, armed>>
     \/ /\ fromQueue[r] /\ queue.inFlight = msg[r]
        /\ QueueOk([queue EXCEPT !.inFlight = None])
        /\ outcome' = [outcome EXCEPT ![r] = "acked"]
        /\ armed' = FALSE
  /\ Goto(r, "turn")
  /\ UNCHANGED <<msg, fromQueue, cancelled, slot, lease, logVars, kick,
                 resetting, deleting, history>>

\* The delivery is gone or the queue refuses: the terminal is an error.
SettleFails(r) ==
  /\ pc[r] = "settle"
  /\ fromQueue[r]
  /\ \/ queue.inFlight = msg[r] /\ QueueErr([queue EXCEPT !.inFlight = None])
     \/ queue.inFlight # msg[r] /\ QueueFails
  /\ outcome' = [outcome EXCEPT ![r] = "inFlight"]
  /\ Goto(r, "terminal")
  /\ UNCHANGED <<msg, fromQueue, cancelled, slot, lease, logVars, wakeVars,
                 deleting, history>>

\* The run works, fails early or sees that it is cancelled.
Turn(r) ==
  /\ pc[r] = "turn"
  /\ Goto(r, "terminal")
  /\ UNCHANGED <<msg, fromQueue, outcome, cancelled, slot, lease, queueVars,
                 logVars, wakeVars, deleting, history>>

\* persist_assistant, at once or by repairing an indeterminate append.
Terminal(r) ==
  /\ pc[r] = "terminal"
  /\ ~ sblocked /\ ~ Tombstoned
  /\ synced' = Len(log)
  /\ Goto(r, Continuation(outcome[r]))
  /\ UNCHANGED <<msg, fromQueue, outcome, cancelled, slot, lease, queueVars,
                 log, sblocked, wakeVars, deleting, history>>

\* The published error says that queue continuation is paused.
TerminalFails(r) ==
  /\ pc[r] = "terminal"
  /\ \/ UNCHANGED sblocked
     \/ ~ sblocked /\ ~ Tombstoned /\ sblocked' = TRUE
  /\ Goto(r, "exit")
  /\ paused' = TRUE
  /\ UNCHANGED <<msg, fromQueue, outcome, cancelled, slot, lease, queueVars,
                 log, synced, wakeVars, deleting,
                 sent, accepted, order, withdrawn, stopped, asked>>

-----------------------------------------------------------------------------
(* handoff_pending and the end of the task *)

\* The next delivery is claimed and the slot changes hands in one step.
Handoff(r, next) ==
  /\ pc[r] = "handoff"
  /\ ~ Tombstoned /\ slot = r
  /\ Claimable(queue) # None
  /\ QueueOk(Claimed(queue))
  /\ pc[next] = "idle"
  /\ pc' = [pc EXCEPT ![r] = "exit", ![next] = "lease"]
  /\ msg' = [msg EXCEPT ![next] = Claimable(queue)]
  /\ fromQueue' = [fromQueue EXCEPT ![next] = TRUE]
  /\ slot' = next
  /\ paused' = FALSE
  /\ UNCHANGED <<outcome, cancelled, lease, logVars, wakeVars, deleting,
                 sent, accepted, order, withdrawn, stopped, asked>>

HandoffEmpty(r) ==
  /\ pc[r] = "handoff"
  /\ ~ Tombstoned /\ slot = r
  /\ ~ qblocked /\ Claimable(queue) = None
  /\ Goto(r, "free")
  /\ UNCHANGED <<msg, fromQueue, outcome, cancelled, slot, lease, queueVars,
                 logVars, wakeVars, deleting, history>>

\* claim fails: the queue is blocked, or the delivery cannot be written as
\* the one in flight.
ClaimErr ==
  \/ qblocked /\ QueueFails
  \/ /\ queue.inFlight = None /\ queue.queued # <<>>
     /\ QueueErr(Claimed(queue))

HandoffFails(r) ==
  /\ pc[r] = "handoff"
  /\ \/ (Tombstoned \/ slot # r) /\ QueueFails
     \/ ~ Tombstoned /\ slot = r /\ ClaimErr
  /\ Goto(r, "giveUp")
  /\ UNCHANGED <<msg, fromQueue, outcome, cancelled, slot, lease, logVars,
                 wakeVars, deleting, history>>

\* Mutant of ReleaseAndKick: the slot is released and nobody looks again.
ReleaseOnly(r, k) ==
  /\ pc[r] = "free"
  /\ armed' = FALSE
  /\ RemoveIfCurrent(r)
  /\ Goto(r, "exit")
  /\ UNCHANGED <<msg, fromQueue, outcome, cancelled, lease, queueVars, logVars,
                 kick, resetting, deleting, history>>

\* reset_retry, release_current_slot, kick_session.
ReleaseAndKick(r, k) ==
  /\ pc[r] = "free"
  /\ kick[k] = "idle"
  /\ armed' = FALSE
  /\ RemoveIfCurrent(r)
  /\ kick' = [kick EXCEPT ![k] = "claim"]
  /\ Goto(r, "exit")
  /\ UNCHANGED <<msg, fromQueue, outcome, cancelled, lease, queueVars, logVars,
                 resetting, deleting, history>>

GiveUp(r) ==
  /\ pc[r] = "giveUp"
  /\ RemoveIfCurrent(r)
  /\ Goto(r, "delayed")
  /\ UNCHANGED <<msg, fromQueue, outcome, cancelled, lease, queueVars, logVars,
                 wakeVars, deleting, history>>

ScheduleRetry(r) ==
  /\ pc[r] = "delayed"
  /\ armed' = TRUE
  /\ Goto(r, "exit")
  /\ UNCHANGED <<msg, fromQueue, outcome, cancelled, slot, lease, queueVars,
                 logVars, kick, resetting, deleting, history>>

\* The locals of run_llm_inner are dropped in reverse order.
DropLease(r) ==
  /\ pc[r] = "exit"
  /\ lease' = None
  /\ Goto(r, "drop")
  /\ UNCHANGED <<msg, fromQueue, outcome, cancelled, slot, queueVars, logVars,
                 wakeVars, deleting, history>>

DropSlot(r) ==
  /\ pc[r] = "drop"
  /\ RemoveIfCurrent(r)
  /\ Vanish(r)
  /\ UNCHANGED <<lease, queueVars, logVars, wakeVars, deleting,
                 sent, accepted, order, withdrawn, stopped, paused>>

-----------------------------------------------------------------------------
(* Retries and kicks *)

\* What follows schedule_retry in a run, the two drops, has no await.
TailsAreOver == Prompt => \A r \in Runs : pc[r] \notin {"exit", "drop"}

\* Mutant of TimerFires: the timer finds the retry and does not take it.
TimerIdles(k) ==
  /\ armed
  /\ kick[k] = "idle"
  /\ TailsAreOver
  /\ UNCHANGED vars

\* A backoff of 250 ms or more is over.
TimerFires(k) ==
  /\ armed
  /\ kick[k] = "idle"
  /\ TailsAreOver
  /\ armed' = FALSE
  /\ kick' = [kick EXCEPT ![k] = "claim"]
  /\ UNCHANGED <<runVars, slot, lease, queueVars, logVars, resetting, deleting,
                 history>>

KickGoes(k, label) == kick' = [kick EXCEPT ![k] = label]

\* claim_queued_run: the delivery and the slot are taken together.
KickStarts(k, next) ==
  /\ kick[k] = "claim"
  /\ ~ Tombstoned
  /\ slot = None
  /\ Claimable(queue) # None
  /\ QueueOk(Claimed(queue))
  /\ Start(next, Claimable(queue), TRUE, "lease") /\ Fresh
  /\ slot' = next
  /\ paused' = FALSE
  /\ KickGoes(k, "idle")
  /\ UNCHANGED <<lease, logVars, armed, resetting, deleting,
                 sent, accepted, order, withdrawn, stopped, asked>>

\* A run is active, or nothing is queued.
KickYields(k) ==
  /\ kick[k] = "claim"
  /\ ~ Tombstoned
  /\ slot # None \/ (~ qblocked /\ Claimable(queue) = None)
  /\ KickGoes(k, "look")
  /\ UNCHANGED <<runVars, slot, lease, queueVars, logVars, armed, resetting,
                 deleting, history>>

\* Mutant of KickFails: a failed claim schedules no retry.
KickFailsSilently(k) ==
  /\ kick[k] = "claim"
  /\ \/ Tombstoned /\ QueueFails
     \/ ~ Tombstoned /\ slot = None /\ ClaimErr
  /\ KickGoes(k, "idle")
  /\ UNCHANGED <<runVars, slot, lease, logVars, armed, resetting, deleting, history>>

KickFails(k) ==
  /\ kick[k] = "claim"
  /\ \/ Tombstoned /\ QueueFails
     \/ ~ Tombstoned /\ slot = None /\ ClaimErr
  /\ armed' = TRUE
  /\ KickGoes(k, "idle")
  /\ UNCHANGED <<runVars, slot, lease, logVars, resetting, deleting, history>>

\* has_queued is also true of a blocked queue.
Waiting == slot # None \/ qblocked \/ Items(queue) # {}

KickLooks(k) ==
  /\ kick[k] = "look"
  /\ IF Waiting
       THEN KickGoes(k, "idle") /\ UNCHANGED armed
       ELSE IF Prompt
         THEN KickGoes(k, "idle") /\ armed' = FALSE
         ELSE KickGoes(k, "reset") /\ UNCHANGED armed
  /\ UNCHANGED <<runVars, slot, lease, queueVars, logVars, resetting, deleting,
                 history>>

KickResets(k) ==
  /\ kick[k] = "reset"
  /\ armed' = FALSE
  /\ KickGoes(k, "idle")
  /\ UNCHANGED <<runVars, slot, lease, queueVars, logVars, resetting, deleting,
                 history>>

-----------------------------------------------------------------------------
(* The user stops, clears and repairs; a goal stops its run *)

\* Mutant of Abort: only the waiting messages are cleared.
AbortQueuedOnly ==
  /\ ~ resetting
  /\ ~ Tombstoned
  /\ QueueOk([queue EXCEPT !.queued = <<>>])
  /\ withdrawn' = withdrawn \cup Items(queue)
  /\ stopped' = stopped \cup Items(queue)
  /\ cancelled' = cancelled \cup ({slot} \ {None})
  /\ asked' = asked \cup ({slot} \ {None})
  /\ IF Prompt THEN armed' = FALSE /\ UNCHANGED resetting
               ELSE resetting' = TRUE /\ UNCHANGED armed
  /\ UNCHANGED <<pc, msg, fromQueue, outcome, slot, lease, logVars, kick,
                 deleting, sent, accepted, order, paused>>

\* session.abort: clear and cancel in one critical section of active_runs.
Abort ==
  /\ ~ resetting
  /\ ~ Tombstoned
  /\ TailsAreOver
  /\ QueueOk(Empty)
  /\ withdrawn' = withdrawn \cup Items(queue)
  /\ stopped' = stopped \cup Items(queue)
  /\ cancelled' = cancelled \cup ({slot} \ {None})
  /\ asked' = asked \cup ({slot} \ {None})
  /\ IF Prompt THEN armed' = FALSE /\ UNCHANGED resetting
               ELSE resetting' = TRUE /\ UNCHANGED armed
  /\ UNCHANGED <<pc, msg, fromQueue, outcome, slot, lease, logVars, kick,
                 deleting, sent, accepted, order, paused>>

AbortResets ==
  /\ resetting
  /\ resetting' = FALSE
  /\ armed' = FALSE
  /\ UNCHANGED <<runVars, slot, lease, queueVars, logVars, kick, deleting, history>>

\* The queue cannot be cleared: the request fails before it cancels.
AbortFails ==
  /\ ~ resetting
  /\ ~ Tombstoned
  /\ \/ (qblocked \/ Items(queue) # {}) /\ QueueFails /\ UNCHANGED withdrawn
     \/ QueueIndeterminate(Empty) /\ withdrawn' = withdrawn \cup Items(queue)
  /\ asked' = asked \cup ({slot} \ {None})
  /\ UNCHANGED <<runVars, slot, lease, logVars, wakeVars, deleting,
                 sent, accepted, order, stopped, paused>>

\* session.pending_clear
ClearPending ==
  LET q == [queue EXCEPT !.queued = <<>>] IN
  /\ ~ Tombstoned
  /\ QueueOk(q) \/ QueueIndeterminate(q)
  /\ withdrawn' = withdrawn \cup Elems(queue.queued)
  /\ UNCHANGED <<runVars, slot, lease, logVars, wakeVars, deleting,
                 sent, accepted, order, stopped, asked, paused>>

\* goal.pause and goal.cancel
GoalStops ==
  /\ slot # None
  /\ cancelled' = cancelled \cup {slot}
  /\ UNCHANGED <<pc, msg, fromQueue, outcome, slot, lease, queueVars, logVars,
                 wakeVars, deleting, history>>

\* recovery.repair of both stores.  It does not kick.
Repair ==
  /\ slot = None
  /\ qblocked \/ sblocked
  /\ sblocked' = FALSE
  /\ qblocked' = FALSE
  /\ synced' = IF sblocked THEN Len(log) ELSE synced
  /\ UNCHANGED <<runVars, slot, lease, queue, log, wakeVars, deleting, history>>

-----------------------------------------------------------------------------
(* session.delete, up to the moment it has the Session for itself *)

\* The tombstone is written under the lock of active_runs; the token found
\* there is cancelled next, and nobody can take the slot in between.
DeleteBegins ==
  /\ Disrupted
  /\ deleting = "no"
  /\ deleting' = "begun"
  /\ cancelled' = cancelled \cup ({slot} \ {None})
  /\ UNCHANGED <<pc, msg, fromQueue, outcome, slot, lease, queueVars, logVars,
                 wakeVars, history>>

DeleteQuiet ==
  /\ deleting = "begun"
  /\ slot = None
  /\ deleting' = "quiet"
  /\ UNCHANGED <<runVars, slot, lease, queueVars, logVars, wakeVars, history>>

\* Three seconds are over, or a later step of the deletion failed.
DeleteGivesUp ==
  /\ Tombstoned
  /\ deleting' = "no"
  /\ UNCHANGED <<runVars, slot, lease, queueVars, logVars, wakeVars, history>>

-----------------------------------------------------------------------------
(* Other processes, and the death of this one *)

OtherTakesLease ==
  /\ OtherRuns
  /\ lease = None
  /\ lease' = Other
  /\ UNCHANGED <<runVars, slot, queueVars, logVars, wakeVars, deleting, history>>

OtherDropsLease ==
  /\ lease = Other
  /\ lease' = None
  /\ UNCHANGED <<runVars, slot, queueVars, logVars, wakeVars, deleting, history>>

\* The queue file and the JSONL survive; restore_queues claims what is
\* queued, as a kick does.  A deletion cut short is not modelled.
Crash(k) ==
  /\ Disrupted
  /\ ~ Tombstoned
  /\ pc' = [r \in Runs |-> "idle"]
  /\ msg' = [r \in Runs |-> None]
  /\ fromQueue' = [r \in Runs |-> FALSE]
  /\ outcome' = [r \in Runs |-> "direct"]
  /\ cancelled' = {}
  /\ slot' = None
  /\ lease' = IF lease = Other THEN Other ELSE None
  /\ qblocked' = FALSE
  /\ sblocked' = FALSE
  /\ armed' = FALSE
  /\ resetting' = FALSE
  /\ kick' = [x \in Kickers |-> IF x = k THEN "claim" ELSE "idle"]
  /\ asked' = {}
  /\ paused' = FALSE
  /\ UNCHANGED <<queue, log, synced, deleting, sent, accepted, order, withdrawn, stopped>>

-----------------------------------------------------------------------------

Init ==
  /\ pc = [r \in Runs |-> "idle"]
  /\ msg = [r \in Runs |-> None]
  /\ fromQueue = [r \in Runs |-> FALSE]
  /\ outcome = [r \in Runs |-> "direct"]
  /\ cancelled = {}
  /\ slot = None
  /\ lease = None
  /\ queue = Empty
  /\ qblocked = FALSE
  /\ log = <<>>
  /\ synced = 0
  /\ sblocked = FALSE
  /\ armed = FALSE
  /\ kick = [k \in Kickers |-> "idle"]
  /\ resetting = FALSE
  /\ deleting = "no"
  /\ sent = {}
  /\ accepted = {}
  /\ order = <<>>
  /\ withdrawn = {}
  /\ stopped = {}
  /\ asked = {}
  /\ paused = FALSE

\* What a run task does without anybody's help.
RunGoesOn(r) ==
  \/ ClaimSlot(r) \/ Concede(r) \/ ClaimRefused(r)
  \/ AcquireLease(r) \/ LeaseRefused(r)
  \/ Admit(r) \/ CommitUser(r) \/ Settle(r) \/ Turn(r) \/ Terminal(r)
  \/ HandoffEmpty(r) \/ (\E next \in Runs : Handoff(r, next))
  \/ (\E k \in Kickers : ReleaseAndKick(r, k))
  \/ GiveUp(r) \/ ScheduleRetry(r) \/ DropLease(r) \/ DropSlot(r)

RunFails(r) ==
  \/ AdmitFails(r) \/ PrepareFails(r) \/ CommitFails(r) \/ CommitIndeterminate(r)
  \/ SettleFails(r) \/ TerminalFails(r) \/ HandoffFails(r)

KickGoesOn(k) ==
  \/ (\E next \in Runs : KickStarts(k, next))
  \/ KickYields(k) \/ KickFails(k) \/ KickLooks(k) \/ KickResets(k)

User ==
  \/ \E m \in Messages : SendQueued(m) \/ SendInterrupt(m)
  \/ \E m \in Messages, r \in Runs : SendDirect(m, r)
  \/ Abort \/ AbortResets \/ AbortFails \/ ClearPending \/ GoalStops \/ Repair
  \/ DeleteBegins \/ DeleteQuiet \/ DeleteGivesUp

Environment ==
  \/ OtherTakesLease \/ OtherDropsLease
  \/ \E k \in Kickers : Crash(k)

Next ==
  \/ \E r \in Runs : RunGoesOn(r) \/ RunFails(r)
  \/ \E k \in Kickers : KickGoesOn(k) \/ TimerFires(k)
  \/ User
  \/ Environment

Spec == Init /\ [][Next]_vars

\* Every task is scheduled, and what is tried again and again succeeds some
\* time: the retry loop has no other way to end.
Fairness ==
  /\ \A r \in Runs : WF_vars(RunGoesOn(r) \/ HandoffFails(r))
  /\ SF_vars(\E r \in Runs : Admit(r))
  /\ SF_vars(\E r \in Runs : CommitUser(r))
  /\ SF_vars(\E r \in Runs : Settle(r))
  /\ \A k \in Kickers :
       /\ WF_vars(KickGoesOn(k))
       /\ SF_vars(TimerFires(k))
       /\ SF_vars(\E next \in Runs : KickStarts(k, next))

FairSpec == Spec /\ Fairness

-----------------------------------------------------------------------------
(* Properties *)

\* Types.
TypeOK ==
  /\ pc \in [Runs -> Labels]
  /\ msg \in [Runs -> Messages \cup {None}]
  /\ fromQueue \in [Runs -> BOOLEAN]
  /\ outcome \in [Runs -> {"direct", "acked", "released", "inFlight"}]
  /\ cancelled \subseteq Runs /\ asked \subseteq Runs
  /\ slot \in Runs \cup {None}
  /\ lease \in Runs \cup {None, Other}
  /\ queue \in [queued : Seq(Messages), inFlight : Messages \cup {None}]
  /\ log \in Seq(Messages) /\ order \in Seq(Messages)
  /\ synced \in 0..Len(log)
  /\ {qblocked, sblocked, armed, resetting, paused} \subseteq BOOLEAN
  /\ kick \in [Kickers -> {"idle", "claim", "look", "reset"}]
  /\ deleting \in {"no", "begun", "quiet"}
  /\ stopped \subseteq withdrawn /\ withdrawn \subseteq sent
  /\ accepted \subseteq sent /\ sent \subseteq Messages

\* One run at a time works on the Session: it owns the slot and the lease, so
\* two runs never interleave their lines in the JSONL.
OneWriter ==
  \A r \in Runs : Working(r) => slot = r /\ lease = r

\* Messages accepted at the back of the queue enter the history in that
\* order, through every release, retry, replay and restart.
InOrder ==
  \A i, j \in DOMAIN order :
    i < j /\ order[j] \in Said =>
      \/ order[i] \in withdrawn
      \/ \E a, b \in DOMAIN log : log[a] = order[i] /\ log[b] = order[j] /\ a < b

Ahead(r) == pc[r] = "lease" \/ Working(r)

\* After an abort that returned Ok no message of the queue of that moment is
\* queued again or carried by a run that is not cancelled.
AbortIsFinal ==
  \A m \in stopped :
    /\ m \notin Items(queue)
    /\ \A r \in Runs : msg[r] = m /\ Ahead(r) => r \in cancelled

\* While a deletion has the Session for itself no run works in it.
DeletionIsQuiet ==
  deleting = "quiet" => slot = None /\ \A r \in Runs : ~ Working(r)

\* Somebody will continue a queue that is not empty: the run in the slot, a
\* kick, a retry, or a run that is about to schedule one.  The exception is a
\* run that said that the queue is paused.  Two steps that come late break it.
SomebodyContinues ==
  Items(queue) # {} =>
    \/ slot # None \/ armed \/ paused
    \/ \E k \in Kickers : kick[k] = "claim"
    \/ \E r \in Runs : pc[r] \in {"giveUp", "delayed"}

\* reset_retry removes a retry that was reserved after its caller had looked.
LateReset ==
  /\ armed /\ ~ armed'
  /\ resetting \/ \E k \in Kickers : kick[k] = "reset"

\* A run still has the slot when it ends: it was refused the lease, or the
\* timer of its retry fired before it was gone.
LateDrop == \E r \in Runs : pc[r] = "drop" /\ slot = r /\ slot' = None

\* No other step leaves a queue behind: whatever fails, is released, is handed
\* over, crashes or is deleted, whoever was to continue names another.
OnlyLateForsakes ==
  [][ SomebodyContinues => SomebodyContinues' \/ LateReset \/ LateDrop ]_vars

\* An acknowledged delivery survives a power loss: its line was synced.  The
\* documentation says that it is acknowledged only after it was persisted.
AcknowledgedIsDurable ==
  accepted \subseteq Items(queue) \cup {log[i] : i \in 1..synced} \cup withdrawn

\* A session.abort that meets an active run cancels it, whatever else fails.
AbortCancels == asked \subseteq cancelled

\* A message sent to interrupt leaves the queue before every message that
\* was queued behind the run it interrupted, as enqueue_next says.
CorrectionFirst ==
  [][ queue.inFlight = None /\ queue'.inFlight # None
        /\ Elems(queue.queued) \cap (accepted \ Elems(order)) # {}
      => queue'.inFlight \notin Elems(order) ]_vars

\* A run that has the slot is refused only because another process runs the
\* Session, never because of a run that has given the slot back.
RefusedByOthersOnly ==
  [][ \A r \in Runs : pc[r] = "lease" /\ pc'[r] = "drop" => lease = Other ]_vars

\* A message accepted into the queue is some day said or withdrawn, unless a
\* run said that the queue is paused, a store is blocked for the user, or one
\* of the two late steps left the queue behind.
QueueDrains ==
  \A m \in Messages :
    m \in accepted ~>
      \/ m \in Said \cup withdrawn
      \/ paused \/ qblocked \/ sblocked
      \/ ~ SomebodyContinues

-----------------------------------------------------------------------------
(* The promise: where every message is, seen from outside *)

\* Some task or the queue's in_flight still carries m.
Carried(m) ==
  \/ queue.inFlight = m
  \/ \E r \in Runs : msg[r] = m /\ pc[r] \in {"claim", "lease", "admit", "commit"}

StateOf(m) ==
  IF m \in Said THEN "said"
  ELSE IF m \in Elems(queue.queued) THEN "queued"
  ELSE IF Carried(m) THEN "carried"
  ELSE IF m \in sent THEN "dropped" ELSE "unsent"

Promise == INSTANCE Conversation WITH
  state <- [m \in Messages |-> StateOf(m)],
  promised <- (accepted \ Said) \ withdrawn,
  said <- log

\* SessionRun implements Conversation.
ImplementsConversation == Promise!Spec

=============================================================================
