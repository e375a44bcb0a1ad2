------------------------------- MODULE Notices -------------------------------
(***************************************************************************)
(* How the ends of background tasks and the reports of teammates reach the *)
(* conversation of one Session: agent/background (router, task_recovery),  *)
(* agent/team (relay, inbox, lead_inbox), tools/task_journal.              *)
(*                                                                         *)
(* A run owns a NotifyRouter.  While the run works, a notice is saved in   *)
(* the Session and waits in the router for the next turn; when the run     *)
(* closes the router, what is left and what still comes goes to the        *)
(* durable queue, else to the Session, else it stays in the router.  A     *)
(* teammate finds the router through the relay, else uses the queue, and   *)
(* writes a letter to the lead's mailbox when both fail.  A task writes    *)
(* its exit to a journal; after a restart the tasks whose last line is     *)
(* start are stopped and reported as interrupted.                          *)
(*                                                                         *)
(* The queue and the Session are used by their contracts (PendingQueue,    *)
(* SessionRun): a write takes effect, or does not, or takes effect, fails  *)
(* and blocks its store.  The two locks of a router are kept: late is held *)
(* from the test of the callback to the push, queue for a whole flush.     *)
(*                                                                         *)
(* Background agents take the path of background tasks, with the terminal  *)
(* event of their transcript in place of the exit line and a marker file   *)
(* in place of the reaped line; they are not modelled a second time.       *)
(* No run starts before recovery is over.                                  *)
(***************************************************************************)
EXTENDS Naturals, Sequences, SequencesExt

CONSTANTS
  Tasks,      \* background tasks of this process
  Foreign,    \* background tasks of kxen-agent, a process of its own
  Reports,    \* reports of teammates to the lead
  Runs,       \* runs of the Session, each with its router; reused
  None,       \* nobody
  MaxCrashes, \* bound on the restarts
  MaxFailures \* bound on the writes that fail of themselves

ASSUME ActorAssumption ==
  /\ Tasks \cap Reports = {} /\ Tasks \cap Foreign = {}
  /\ Runs \cap (Tasks \cup Reports) = {}
  /\ None \notin Runs \cup Tasks \cup Reports
ASSUME BoundAssumption == MaxCrashes \in Nat /\ MaxFailures \in Nat

Senders == Tasks \cup Reports
Actors == Senders \cup Runs

VARIABLES
  pc,          \* where every sender and every run is
  saving,      \* the loop over the claimed letters: [next, failed]
  via,         \* the router a sender uses: the run that owns it
  journal,     \* last line of tasks.jsonl for every task
  killed,      \* how far terminate is with a task
  rq,          \* NotifyRouter.queue: notices, each saved in the Session or not
  closed,      \* routers whose late callback is set
  holder,      \* who flushes a router, holding its queue lock
  registered,  \* the router the relay knows
  pend,        \* PendingQueues: [queued, inFlight]
  qblocked,    \* the queue is blocked
  log,         \* user messages of the Session that this module is about
  sblocked,    \* the Session is blocked
  mail,        \* lead.json: [queued, inFlight]
  mblocked,    \* the mailbox is blocked
  todo,        \* tasks that recovery still has to look at
  failures,    \* number of writes that failed, not counting blocked stores
  refused,     \* routers whose last flush was refused
  lost,        \* senders whose notice died, unsaved, with a router
  crashes      \* number of restarts

taskVars == <<journal, killed>>
routerVars == <<rq, closed, holder, registered, refused>>
queueVars == <<pend, qblocked>>
logVars == <<log, sblocked>>
mailVars == <<mail, mblocked, saving>>
bootVars == <<todo, lost, crashes>>
vars == <<pc, via, taskVars, routerVars, queueVars, logVars, mailVars, bootVars, failures>>

-----------------------------------------------------------------------------
(* What is written where.  A message is known by its stable id: the notice  *)
(* of a sender, its letter, or the report that a task was interrupted.      *)

Entry(s, kind) == [who |-> s, kind |-> kind]
Notice(s) == Entry(s, "notice")
Letter(s) == Entry(s, "letter")
Interrupted(t) == Entry(t, "interrupted")

Entries ==
  {Notice(s) : s \in Senders} \cup {Letter(s) : s \in Reports}
    \cup {Interrupted(t) : t \in Tasks \cup Foreign}

\* None is no message.
ASSUME EntryAssumption == None \notin Entries

Items(q) == ToSet(q.queued) \cup (IF q.inFlight = None THEN {} ELSE {q.inFlight})
Letters == ToSet(mail.queued) \cup ToSet(mail.inFlight)
Said == ToSet(log)
Waiting(r) == {Notice(rq[r][i].who) : i \in DOMAIN rq[r]}

Goto(a, label) == pc' = [pc EXCEPT ![a] = label]

\* A blocked store fails without a failure of its own.
Cost(isBlocked) == IF isBlocked THEN 0 ELSE 1
Fail(n) == failures + n <= MaxFailures /\ failures' = failures + n

\* append_message_idempotent_durable
Once(e) == IF e \in Said THEN log ELSE Append(log, e)

SessionOk(e) == ~ sblocked /\ log' = Once(e) /\ UNCHANGED sblocked
SessionFails == UNCHANGED logVars
SessionIndeterminate(e) == ~ sblocked /\ log' = Once(e) /\ sblocked' = TRUE

\* enqueue_existing: an id that is queued already is not queued again.
With(e) == IF e \in Items(pend) THEN pend ELSE [pend EXCEPT !.queued = Append(@, e)]
QueueOk(e) == ~ qblocked /\ pend' = With(e) /\ UNCHANGED qblocked
QueueRefuses(e) == (qblocked \/ With(e) # pend) /\ UNCHANGED queueVars
QueueIndeterminate(e) == ~ qblocked /\ With(e) # pend /\ pend' = With(e) /\ qblocked' = TRUE

\* deliver_late: Ok(Queued), Ok(Preserved) and Err.
DeliveredTo(e) ==
  \/ /\ QueueOk(e)
     /\ UNCHANGED <<logVars, failures>>
  \/ /\ QueueIndeterminate(e) \/ (QueueRefuses(e) /\ e \in Items(pend))
     /\ Fail(Cost(qblocked))
     /\ UNCHANGED logVars
  \/ /\ QueueRefuses(e) /\ e \notin Items(pend)
     /\ SessionOk(e)
     /\ Fail(Cost(qblocked))
DeliveryRefused(e) ==
  /\ QueueRefuses(e) /\ e \notin Items(pend)
  /\ SessionFails \/ SessionIndeterminate(e)
  /\ Fail(Cost(qblocked) + Cost(sblocked))

-----------------------------------------------------------------------------
(* A run, as far as notices are concerned *)

Working(r) == pc[r] # "idle"
NobodyWorks == \A r \in Runs : ~ Working(r)

\* Nobody uses the router of r any more: it is dropped with what it holds.
Forgotten(r) == pc[r] = "idle" /\ \A s \in Senders : via[s] # r

\* Notices of the routers rs that are nowhere else.
OnlyIn(rs) ==
  {s \in Senders : \E r \in rs : Notice(s) \in Waiting(r) \ (Said \cup Items(pend))}

Start(r, label) ==
  /\ todo = {} /\ NobodyWorks /\ Forgotten(r)
  /\ Goto(r, label)
  /\ rq' = [rq EXCEPT ![r] = <<>>]
  /\ lost' = lost \cup OnlyIn({r})
  /\ closed' = closed \ {r}
  /\ refused' = refused \ {r}
  /\ UNCHANGED <<via, taskVars, holder, registered, logVars, mailVars, todo, crashes, failures>>

\* A message of the user starts a run.
StartDirect(r) == Start(r, "inbox") /\ UNCHANGED queueVars

Claimed(q) == IF q.inFlight # None THEN q
            ELSE [queued |-> Tail(q.queued), inFlight |-> Head(q.queued)]

\* A kick, the handoff or the restart claims the next delivery.
StartQueued(r) ==
  /\ Start(r, "commit")
  /\ ~ qblocked /\ Items(pend) # {}
  /\ pend' = Claimed(pend)
  /\ UNCHANGED qblocked

\* commit_user: append, then acknowledge.
Commit(r) ==
  /\ pc[r] = "commit"
  /\ SessionOk(pend.inFlight)
  /\ ~ qblocked
  /\ pend' = [pend EXCEPT !.inFlight = None]
  /\ Goto(r, "inbox")
  /\ UNCHANGED <<via, taskVars, routerVars, qblocked, mailVars, bootVars, failures>>

\* The append or the acknowledge fails: the delivery stays in the queue.
CommitFails(r) ==
  /\ pc[r] = "commit"
  /\ \/ SessionOk(pend.inFlight) /\ Fail(Cost(qblocked))
     \/ (SessionFails \/ SessionIndeterminate(pend.inFlight)) /\ Fail(Cost(sblocked))
  /\ Goto(r, "idle")
  /\ UNCHANGED <<via, taskVars, routerVars, queueVars, mailVars, bootVars>>

\* drain_lead_inbox: claim_inbox_entries
ClaimInbox(r) ==
  /\ pc[r] = "inbox"
  /\ ~ mblocked
  /\ mail' = IF mail.inFlight # <<>> THEN mail
             ELSE [queued |-> <<>>, inFlight |-> mail.queued]
  /\ Goto(r, "letters")
  /\ UNCHANGED <<via, taskVars, routerVars, queueVars, logVars, mblocked, saving, bootVars,
                 failures>>

ClaimInboxFails(r) ==
  /\ pc[r] = "inbox"
  /\ mblocked \/ (mail.inFlight = <<>> /\ mail.queued # <<>>)
  /\ \/ UNCHANGED mailVars
     \/ /\ ~ mblocked
        /\ mail' = [queued |-> <<>>, inFlight |-> mail.queued]
        /\ mblocked' = TRUE
        /\ UNCHANGED saving
  /\ Fail(Cost(mblocked))
  /\ Goto(r, "idle")
  /\ UNCHANGED <<via, taskVars, routerVars, queueVars, logVars, bootVars>>

FirstLetter == [next |-> 1, failed |-> FALSE]

\* The claimed letters are appended one by one: a letter that is there is
\* skipped, and one that fails does not stop the others.
SaveLetter(r) ==
  /\ pc[r] = "letters"
  /\ saving.next <= Len(mail.inFlight)
  /\ LET e == mail.inFlight[saving.next] IN
       \/ /\ SessionOk(e)
          /\ saving' = [saving EXCEPT !.next = @ + 1]
          /\ UNCHANGED failures
       \/ /\ SessionFails \/ SessionIndeterminate(e)
          /\ saving' = [next |-> saving.next + 1, failed |-> TRUE]
          /\ Fail(Cost(sblocked))
  /\ UNCHANGED <<pc, via, taskVars, routerVars, queueVars, mail, mblocked, bootVars>>

\* If one of them failed nothing is acknowledged, and the run ends.
LettersOver(r) ==
  /\ pc[r] = "letters"
  /\ saving.next > Len(mail.inFlight)
  /\ saving' = FirstLetter
  /\ Goto(r, IF saving.failed THEN "idle" ELSE "ack")
  /\ UNCHANGED <<via, taskVars, routerVars, queueVars, logVars, mail, mblocked,
                 bootVars, failures>>

\* ack_inbox_entries, and the registration of the run's router.
AckInbox(r) ==
  /\ pc[r] = "ack"
  /\ mail.inFlight # <<>> => ~ mblocked
  /\ mail' = [mail EXCEPT !.inFlight = <<>>]
  /\ registered' = r
  /\ Goto(r, "active")
  /\ UNCHANGED <<via, taskVars, rq, closed, holder, refused, queueVars, logVars, mblocked, saving,
                 bootVars, failures>>

AckInboxFails(r) ==
  /\ pc[r] = "ack"
  /\ mail.inFlight # <<>>
  /\ \/ UNCHANGED mailVars
     \/ /\ ~ mblocked
        /\ mail' = [mail EXCEPT !.inFlight = <<>>]
        /\ mblocked' = TRUE
        /\ UNCHANGED saving
  /\ Fail(Cost(mblocked))
  /\ Goto(r, "idle")
  /\ UNCHANGED <<via, taskVars, routerVars, queueVars, logVars, bootVars>>

\* drain_persisted before a turn: the front notice is shown to the model once
\* it is in the Session.
Drain(r) ==
  /\ pc[r] = "active"
  /\ rq[r] # <<>>
  /\ \/ Head(rq[r]).saved /\ UNCHANGED logVars
     \/ ~ Head(rq[r]).saved /\ SessionOk(Notice(Head(rq[r]).who))
  /\ rq' = [rq EXCEPT ![r] = Tail(@)]
  /\ UNCHANGED <<pc, via, taskVars, closed, holder, registered, refused, queueVars,
                 mailVars, bootVars, failures>>

DrainFails(r) ==
  /\ pc[r] = "active"
  /\ rq[r] # <<>>
  /\ ~ Head(rq[r]).saved
  /\ SessionFails \/ SessionIndeterminate(Notice(Head(rq[r]).who))
  /\ Fail(Cost(sblocked))
  /\ UNCHANGED <<pc, via, taskVars, routerVars, queueVars, mailVars, bootVars>>

\* NotifyRouter::close by finalize_run: the callback is set, then flushed.
Close(r) ==
  /\ pc[r] = "active"
  /\ closed' = closed \cup {r}
  /\ Goto(r, "flush")
  /\ UNCHANGED <<via, taskVars, rq, holder, registered, refused, queueVars, logVars,
                 mailVars, bootVars, failures>>

\* relay.unregister; the rest of finalize_run is in SessionRun.
Finish(r) ==
  /\ pc[r] = "unregister"
  /\ registered' = IF registered = r THEN None ELSE registered
  /\ Goto(r, "idle")
  /\ UNCHANGED <<via, taskVars, rq, closed, holder, refused, queueVars, logVars, mailVars,
                 bootVars, failures>>

-----------------------------------------------------------------------------
(* Background tasks *)

\* The working run starts t; the start line may fail, which only warns.
Spawn(t, r) ==
  /\ pc[r] = "active"
  /\ pc[t] = "idle"
  /\ Goto(t, "running")
  /\ via' = [via EXCEPT ![t] = r]
  /\ \/ journal' = [journal EXCEPT ![t] = "start"] /\ UNCHANGED failures
     \/ Fail(1) /\ UNCHANGED journal
  /\ UNCHANGED <<killed, routerVars, queueVars, logVars, mailVars, bootVars>>

\* terminate: the flag, then the line in the journal.
Kill(t) ==
  /\ pc[t] \in {"running", "exited"}
  /\ killed[t] = "no"
  /\ killed' = [killed EXCEPT ![t] = "flag"]
  /\ UNCHANGED <<pc, via, journal, routerVars, queueVars, logVars, mailVars, bootVars, failures>>

WriteKilled(t) ==
  /\ killed[t] = "flag" /\ pc[t] # "gone"
  /\ killed' = [killed EXCEPT ![t] = "yes"]
  /\ \/ journal' = [journal EXCEPT ![t] = "killed"] /\ UNCHANGED failures
     \/ Fail(1) /\ UNCHANGED journal
  /\ UNCHANGED <<pc, via, routerVars, queueVars, logVars, mailVars, bootVars>>

\* child.wait returns and the reaper reads the flag.
Exit(t) ==
  /\ pc[t] = "running"
  /\ Goto(t, IF killed[t] = "no" THEN "exited" ELSE "public")
  /\ UNCHANGED <<via, taskVars, routerVars, queueVars, logVars, mailVars, bootVars, failures>>

\* The exit line is written, then exit_code is public.
WriteExit(t) ==
  /\ pc[t] = "exited"
  /\ \/ journal' = [journal EXCEPT ![t] = "exit"] /\ UNCHANGED failures
     \/ Fail(1) /\ UNCHANGED journal
  /\ Goto(t, "public")
  /\ UNCHANGED <<via, killed, routerVars, queueVars, logVars, mailVars, bootVars>>

\* The watcher polls: it reports the exit of a task that was not killed.
Watch(t) ==
  /\ pc[t] = "public"
  /\ IF killed[t] = "no"
       THEN Goto(t, "notify") /\ UNCHANGED via
       ELSE Goto(t, "done") /\ via' = [via EXCEPT ![t] = None]
  /\ UNCHANGED <<taskVars, routerVars, queueVars, logVars, mailVars, bootVars, failures>>

-----------------------------------------------------------------------------
(* Reports of teammates: TeamManager::send to the lead, LeadRelay::deliver *)

Report(s) ==
  /\ pc[s] = "idle" /\ todo = {}
  /\ Goto(s, IF registered # None THEN "notify" ELSE "enqueue")
  /\ via' = [via EXCEPT ![s] = registered]
  /\ UNCHANGED <<taskVars, routerVars, queueVars, logVars, mailVars, bootVars, failures>>

Enqueue(s) ==
  /\ pc[s] = "enqueue"
  /\ QueueOk(Notice(s))
  /\ Goto(s, "done")
  /\ UNCHANGED <<via, taskVars, routerVars, logVars, mailVars, bootVars, failures>>

EnqueueFails(s) ==
  /\ pc[s] = "enqueue"
  /\ QueueRefuses(Notice(s)) \/ QueueIndeterminate(Notice(s))
  /\ Fail(Cost(qblocked))
  /\ Goto(s, "letter")
  /\ UNCHANGED <<via, taskVars, routerVars, logVars, mailVars, bootVars>>

\* append_inbox, when the relay failed.
WriteLetter(s) ==
  /\ pc[s] = "letter"
  /\ ~ mblocked
  /\ mail' = [mail EXCEPT !.queued = Append(@, Letter(s))]
  /\ Goto(s, "done")
  /\ UNCHANGED <<via, taskVars, routerVars, queueVars, logVars, mblocked, saving, bootVars,
                 failures>>

\* send fails too, and the teammate is told.
WriteLetterFails(s) ==
  /\ pc[s] = "letter"
  /\ \/ UNCHANGED mailVars
     \/ /\ ~ mblocked
        /\ mail' = [mail EXCEPT !.queued = Append(@, Letter(s))]
        /\ mblocked' = TRUE
        /\ UNCHANGED saving
  /\ Goto(s, "told")
  /\ Fail(Cost(mblocked))
  /\ UNCHANGED <<via, taskVars, routerVars, queueVars, logVars, bootVars>>

-----------------------------------------------------------------------------
(* NotifyRouter::notify *)

Router(a) == IF a \in Runs THEN a ELSE via[a]

Push(s, saved) ==
  /\ holder[via[s]] = None
  /\ rq' = [rq EXCEPT ![via[s]] = Append(@, [who |-> s, saved |-> saved])]

\* Mutant of NotifyLate: the notice is left to the flush of the close.
PushLate(s) ==
  /\ pc[s] = "notify"
  /\ via[s] \in closed
  /\ Push(s, FALSE)
  /\ Goto(s, "done")
  /\ via' = [via EXCEPT ![s] = None]
  /\ UNCHANGED <<taskVars, closed, holder, registered, refused, queueVars, logVars,
                 mailVars, bootVars, failures>>

\* The callback is set: the notice is pushed, not saved, and flushed.
NotifyLate(s) ==
  /\ pc[s] = "notify"
  /\ via[s] \in closed
  /\ Push(s, FALSE)
  /\ Goto(s, "flush")
  /\ UNCHANGED <<via, taskVars, closed, holder, registered, refused, queueVars, logVars,
                 mailVars, bootVars, failures>>

\* The run works: the notice is saved in the Session, or may be later, and
\* pushed, with the late lock held.
NotifyActive(s) ==
  /\ pc[s] = "notify"
  /\ via[s] \notin closed
  /\ \/ SessionOk(Notice(s)) /\ Push(s, TRUE) /\ UNCHANGED failures
     \/ /\ SessionFails \/ SessionIndeterminate(Notice(s))
        /\ Push(s, FALSE)
        /\ Fail(Cost(sblocked))
  /\ Goto(s, "recheck")
  /\ UNCHANGED <<via, taskVars, closed, holder, registered, refused, queueVars, mailVars, bootVars>>

Recheck(s) ==
  /\ pc[s] = "recheck"
  /\ IF via[s] \in closed
       THEN Goto(s, "flush") /\ UNCHANGED via
       ELSE Goto(s, "done") /\ via' = [via EXCEPT ![s] = None]
  /\ UNCHANGED <<taskVars, routerVars, queueVars, logVars, mailVars, bootVars, failures>>

-----------------------------------------------------------------------------
(* flush_late, by whoever closed the router or notified late *)

FlushBegins(a) ==
  /\ pc[a] = "flush"
  /\ holder[Router(a)] = None
  /\ holder' = [holder EXCEPT ![Router(a)] = a]
  /\ Goto(a, "front")
  /\ UNCHANGED <<via, taskVars, rq, closed, registered, refused, queueVars, logVars,
                 mailVars, bootVars, failures>>

\* The flush is over: a run goes on with finalize_run, a sender is done.
FlushOver(a, next) ==
  /\ holder' = [holder EXCEPT ![Router(a)] = None]
  /\ Goto(a, next)
  /\ via' = IF a \in Runs THEN via ELSE [via EXCEPT ![a] = None]

FlushEnds(a) ==
  /\ pc[a] = "front"
  /\ rq[Router(a)] = <<>>
  /\ FlushOver(a, IF a \in Runs THEN "unregister" ELSE "done")
  /\ refused' = refused \ {Router(a)}
  /\ UNCHANGED <<taskVars, rq, closed, registered, queueVars, logVars, mailVars, bootVars, failures>>

\* The callback took a copy of the front notice.
Deliver(a) ==
  /\ pc[a] = "front"
  /\ rq[Router(a)] # <<>>
  /\ DeliveredTo(Notice(Head(rq[Router(a)]).who))
  /\ Goto(a, "pop")
  /\ UNCHANGED <<via, taskVars, routerVars, mailVars, bootVars>>

Pop(a) ==
  /\ pc[a] = "pop"
  /\ rq[Router(a)] # <<>>
  /\ rq' = [rq EXCEPT ![Router(a)] = Tail(@)]
  /\ Goto(a, "front")
  /\ UNCHANGED <<via, taskVars, closed, holder, registered, refused, queueVars, logVars,
                 mailVars, bootVars, failures>>

\* Mutant of Kept: the notice is popped although it was refused.
PoppedAnyway(r) == [rq EXCEPT ![r] = Tail(@)]

Kept(r) == rq

\* The callback failed: the notice stays in front of the router, and the
\* report of a teammate becomes a letter.
Refuse(a) ==
  /\ pc[a] = "front"
  /\ rq[Router(a)] # <<>>
  /\ DeliveryRefused(Notice(Head(rq[Router(a)]).who))
  /\ rq' = Kept(Router(a))
  /\ FlushOver(a, CASE a \in Runs -> "unregister"
                    [] a \in Tasks -> "done"
                    [] OTHER -> "letter")
  /\ refused' = refused \cup {Router(a)}
  /\ UNCHANGED <<taskVars, closed, registered, queueVars, mailVars, bootVars>>

-----------------------------------------------------------------------------
(* Restart and recovery *)

Open(t) == journal[t] = "start"

\* Memory is gone: routers, blocks and tasks.  Files are not: a queue file that
\* could not be read blocks the queue again, unless somebody repaired it.
Crash ==
  /\ crashes < MaxCrashes
  /\ crashes' = crashes + 1
  /\ lost' = lost \cup OnlyIn(Runs)
  /\ pc' = [a \in Actors |->
              IF a \in Runs THEN "idle"
              ELSE IF pc[a] \in {"idle", "done", "told"} THEN pc[a] ELSE "gone"]
  /\ via' = [s \in Senders |-> None]
  /\ rq' = [r \in Runs |-> <<>>]
  /\ closed' = {} /\ refused' = {}
  /\ holder' = [r \in Runs |-> None]
  /\ registered' = None
  /\ saving' = FirstLetter
  /\ qblocked' \in {FALSE, qblocked /\ Items(pend) = {}}
  /\ sblocked' = FALSE /\ mblocked' = FALSE
  /\ todo' = {t \in Tasks \cup Foreign : Open(t)}
  /\ UNCHANGED <<taskVars, pend, log, mail, failures>>

\* reap_task: SIGTERM, then the report; once that is accepted, the line.
Recover(t) ==
  /\ t \in todo
  /\ todo' = todo \ {t}
  /\ \/ Interrupted(t) \in Items(pend) /\ UNCHANGED <<journal, queueVars, logVars, failures>>
     \/ /\ Interrupted(t) \notin Items(pend)
        /\ DeliveredTo(Interrupted(t))
        /\ journal' = [journal EXCEPT ![t] = "reaped"]
  /\ UNCHANGED <<pc, via, killed, routerVars, mailVars, lost, crashes>>

\* The report is refused, or the reaped line is not written.
RecoverFails(t) ==
  /\ t \in todo
  /\ Interrupted(t) \notin Items(pend)
  /\ todo' = todo \ {t}
  /\ \/ DeliveryRefused(Interrupted(t))
     \/ QueueOk(Interrupted(t)) /\ UNCHANGED logVars /\ Fail(1)
  /\ UNCHANGED <<pc, via, taskVars, routerVars, mailVars, lost, crashes>>

\* recovery.repair of the queue and of the Session, with no run at work.
Repair ==
  /\ NobodyWorks
  /\ qblocked \/ sblocked
  /\ qblocked' = FALSE /\ sblocked' = FALSE
  /\ UNCHANGED <<pc, via, taskVars, routerVars, pend, log, mailVars, bootVars, failures>>

-----------------------------------------------------------------------------

\* kxen-agent may have a task running in the same directory when we start, and
\* the queue file may be one that cannot be read.
Init ==
  /\ pc = [a \in Actors |-> "idle"]
  /\ saving = FirstLetter
  /\ via = [s \in Senders |-> None]
  /\ journal \in {j \in [Tasks \cup Foreign -> {"none", "start"}] : \A t \in Tasks : j[t] = "none"}
  /\ killed = [t \in Tasks |-> "no"]
  /\ rq = [r \in Runs |-> <<>>]
  /\ closed = {} /\ refused = {}
  /\ holder = [r \in Runs |-> None]
  /\ registered = None
  /\ pend = [queued |-> <<>>, inFlight |-> None]
  /\ log = <<>>
  /\ mail = [queued |-> <<>>, inFlight |-> <<>>]
  /\ qblocked \in BOOLEAN /\ sblocked = FALSE /\ mblocked = FALSE
  /\ todo = {t \in Foreign : Open(t)}
  /\ lost = {} /\ crashes = 0
  /\ failures = 0

RunGoesOn(r) ==
  \/ StartQueued(r) \/ Commit(r) \/ ClaimInbox(r) \/ SaveLetter(r)
  \/ LettersOver(r) \/ AckInbox(r) \/ Close(r) \/ Finish(r)

RunElse(r) ==
  \/ StartDirect(r) \/ Drain(r) \/ CommitFails(r) \/ ClaimInboxFails(r)
  \/ AckInboxFails(r) \/ DrainFails(r)

TaskGoesOn(t) == WriteKilled(t) \/ WriteExit(t) \/ Watch(t)

ReportGoesOn(s) == Enqueue(s) \/ EnqueueFails(s) \/ WriteLetter(s) \/ WriteLetterFails(s)

Notifies(s) == NotifyLate(s) \/ NotifyActive(s) \/ Recheck(s)

Flushes(a) == FlushBegins(a) \/ FlushEnds(a) \/ Deliver(a) \/ Pop(a) \/ Refuse(a)

Next ==
  \/ \E r \in Runs : RunGoesOn(r) \/ RunElse(r)
  \/ \E t \in Tasks : TaskGoesOn(t) \/ Kill(t) \/ Exit(t) \/ (\E r \in Runs : Spawn(t, r))
  \/ \E s \in Reports : Report(s) \/ ReportGoesOn(s)
  \/ \E s \in Senders : Notifies(s)
  \/ \E a \in Actors : Flushes(a)
  \/ \E t \in Tasks \cup Foreign : Recover(t) \/ RecoverFails(t)
  \/ Crash \/ Repair

Spec == Init /\ [][Next]_vars

\* Every task of the runtime is scheduled; a run closes its router some time.
\* A run that ends claims the queue before it gives up its slot (SessionRun),
\* so direct messages cannot keep a queued one from its turn for ever.  One run
\* works at a time, so one condition speaks for all of them.
Fairness ==
  /\ WF_vars(\E r \in Runs : \/ RunGoesOn(r) \/ CommitFails(r) \/ ClaimInboxFails(r)
                             \/ AckInboxFails(r) \/ Flushes(r))
  /\ \A t \in Tasks : WF_vars(TaskGoesOn(t) \/ Notifies(t) \/ Flushes(t))
  /\ \A s \in Reports : WF_vars(ReportGoesOn(s) \/ Notifies(s) \/ Flushes(s))
  /\ SF_vars(\E r \in Runs : StartQueued(r))
  /\ WF_vars(\E t \in Tasks \cup Foreign : Recover(t) \/ RecoverFails(t))

FairSpec == Spec /\ Fairness

-----------------------------------------------------------------------------
(* Properties *)

Labels ==
  {"idle", "commit", "inbox", "letters", "ack", "active", "unregister",
   "running", "exited", "public", "notify", "recheck", "enqueue", "letter",
   "flush", "front", "pop", "done", "told", "gone"}

\* Types.
TypeOK ==
  /\ pc \in [Actors -> Labels]
  /\ saving \in [next : Nat \ {0}, failed : BOOLEAN]
  /\ via \in [Senders -> Runs \cup {None}]
  /\ journal \in [Tasks \cup Foreign -> {"none", "start", "exit", "killed", "reaped"}]
  /\ killed \in [Tasks -> {"no", "flag", "yes"}]
  /\ rq \in [Runs -> Seq([who : Senders, saved : BOOLEAN])]
  /\ closed \subseteq Runs /\ refused \subseteq Runs
  /\ holder \in [Runs -> Actors \cup {None}]
  /\ registered \in Runs \cup {None}
  /\ pend \in [queued : Seq(Entries), inFlight : Entries \cup {None}]
  /\ log \in Seq(Entries)
  /\ mail \in [queued : Seq(Entries), inFlight : Seq(Entries)]
  /\ {qblocked, sblocked, mblocked} \subseteq BOOLEAN
  /\ todo \subseteq Tasks \cup Foreign /\ lost \subseteq Senders
  /\ crashes \in 0..MaxCrashes /\ failures \in 0..MaxFailures

\* In the conversation, or durably on its way into it.
Safe(e) == e \in Said \cup Items(pend) \cup Letters

\* Whatever notify, the relay or the mailbox took is in the conversation or
\* on its way, by whatever races with the end of the run; only a notice that
\* could not be written anywhere dies with its router or its process.
NothingLost ==
  \A s \in Senders :
    pc[s] = "done" /\ (s \in Tasks => killed[s] = "no") =>
      \/ Safe(Notice(s)) \/ Safe(Letter(s))
      \/ \E r \in Runs : Notice(s) \in Waiting(r)
      \/ s \in lost /\ failures > 0

\* A notice in a closed router is being flushed, or its delivery was refused:
\* none is overlooked by both the close and the notify it raced with.
NoneForgotten ==
  \A r \in closed : rq[r] # <<>> =>
    \/ r \in refused
    \/ \E a \in Actors : pc[a] \in {"recheck", "flush", "front", "pop"} /\ Router(a) = r

\* The end of a task that was not killed reaches the conversation, if the
\* process lives on and no write fails.
EndsAreTold ==
  \A t \in Tasks :
    (pc[t] = "public" /\ killed[t] = "no") ~> (Notice(t) \in Said \/ failures > 0 \/ crashes > 0)

\* After a restart the lead has been told of every task of the process before
\* that was not killed: its end, or that it was interrupted.
EveryTaskIsTold ==
  \A t \in Tasks :
    pc[t] = "gone" /\ todo = {} /\ killed[t] = "no" /\ journal[t] # "none" =>
      Safe(Notice(t)) \/ Safe(Interrupted(t)) \/ failures > 0

\* A report is told by its notice or by a letter to the lead, not by both: the
\* mailbox is the way back when neither the router nor the queue took it.
ToldOnce == \A s \in Reports : ~ {Notice(s), Letter(s)} \subseteq Said

\* Recovery reaps the tasks of the process that died, nobody else's.
ReapsOnlyItsOwn == \A t \in Foreign : journal[t] # "reaped"

=============================================================================
