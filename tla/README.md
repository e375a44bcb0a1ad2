# kxen: specifications, model checks and proofs

kxen is a desktop and server application in Rust that runs AI agents in a
workspace. Its hard core is not the agents: it is that what a user, a
teammate, a background task or an owner was told "yes" about survives every
interleaving of runs, every failing write and every restart, and that what
costs money or changes the world is not done twice. These modules specify that
core in TLA+, TLC checks them on small instances, and TLAPS proves the parts
that matter most for every value of the constants.

Paths below are relative to `crates/kxen-core/src` unless they begin with
`crates` or `src-tauri`; `ws` and `background_jobs` are there too.

## 1. The system

| Part | State it keeps | Operations | Talks to |
|---|---|---|---|
| Pending queue (`core/pending_queue*`) | per Session a map of queued and in-flight deliveries, one JSON file, blocks, a load error | enqueue (4 forms), claim, acknowledge, release, clear, repair, restore | Session runs, schedules, notices, relay |
| Session runs (`ws/run_slot`, `llm_task`, `run_finalize`, `queue_*`, `pending`, `rpc`) | `active_runs` (one slot and CancelToken a Session), the run lease file, retry book | send, claim, concede, append and settle, terminal, handoff, kick, retry, abort, clear, delete | queue, Session log, agent loop, goals |
| Notices (`agent/background`, `team/relay`, `team/inbox`, `tools/task_journal`) | a NotifyRouter per run, the lead's mailbox, `tasks.jsonl` | notify, close, deliver late, report, drain letters, recover | queue, Session log, runs |
| BotRun record (`bot/run`, `core/operation`) | status, tool operations with phases, approvals, cancel request, turns | 20 commands, decided against the record and appended under an expected version | event store |
| Bot executor (`bot/executor`, `agent/agent_loop`, `background_jobs`, `ws/ops_bot`) | the map of active executions, the journal's memory of calls | tick, execute, tool before and after, finish, cancel, recover | record, tools, owner |
| Conversations and dispatch (`bot/conversation`, `bot/system`, `core/delivery`, `bot/tools/task.rs`, `ws/ops_bot`) | messages, tasks with parents, a queue of deliveries for each Bot with claims | post, delegate, dispatch, settle, reconcile, pause, stop, cancel, reassign | BotRun record, owner, tick |
| Kanban (`kanban`) | a log of events and a snapshot per board; in memory what is in flight and what was handled | scan, claim, land, adopt, orphan, move, retry | tick, agents |
| Agent loop (`agent/agent_loop`) | the turn, the reply so far, tool batches, the ticket of a request | request, retry, refresh, record, call tools, persist, cancel | providers, resources, metering, approvals |
| Approvals (`agent/approval*`, `agent/cancel.rs`) | pending questions in memory, session and workspace rules | ask, respond, wait, time out, abort, clear, rules | agent loop, Session log |
| Schedules (`core/schedule*`, `background_jobs.rs`) | jobs with a claimed occurrence | due, claim, dispatch, acknowledge, roll back | queue |
| Goals and usage (`core/goal*`, `core/usage*`, `agent/goal_*`) | goals with completion attempts, two ledgers, claims of requests | claim, receipt, settle, replay; admit, judge, score, finalize, adjust | agent loop, deletion |
| Workflows (`agent/workflow*`) | a journal of intents and results for each run id | open, begin, record, refuse | agents, tools |
| Model resources (`llm/mrm*`) | permits for each provider and in all, request windows, circuits | acquire, release, reconfigure, probe | every provider call |
| Credentials and providers (`auth`, `ws/ops_provider*`, `ws/ops_config.rs`) | `auth.json`, `config.toml`, a journal beside them, the shared store | refresh, log in, remove, add a provider, recover | agent loop, runtimes |
| Session log (`core/session*`), event store (`core/event_store`), teams, DCP agents, MCP | logs, metadata, members, connections | append, rewrite, fork; spawn, message; connect | all of the above |
| The rest | clients of providers and LSP; tools; knowledge; front end; shells | I/O and conversions | |

What is hard in it, and what makes each part correct:

* *Queue.* Every operation looks at the block before it takes the lock; a write
  may be visible and yet fail. Correct: what was accepted with Ok is in every
  content a restart may find until it is consumed, and never after.
* *Runs.* User, kicks, retries, the handoff and a deletion compete for one slot
  while aborts clear it. Correct: one writer at a time; nothing accepted is
  lost, said twice or out of order; an abort is final; somebody always
  continues a queue that is not empty.
* *Notices.* A notice races with the close of the run that should hear it, and
  a crash with every line of a journal. Correct: nothing is forgotten or taken
  for told when it is not.
* *Bot runs.* A process may die between a tool's effect and its record; owner,
  tick and executor write to one record. Correct: an effect happens once, and
  only when it was journalled and, if need be, approved; a run never completes
  over an operation in doubt, nor over a requested cancellation.
* *Dispatch.* Claim, run, task and answer are appends to different aggregates,
  and owner, tools and a stopping group write between them. Correct: one live
  run for a Bot among those that are dispatched, each delivery ends, a parent
  is not completed before its children.
* *Kanban.* Several processes scan one board. Correct: the log replays, a
  snapshot hides nothing, no card stays claimed by nobody.
* *Money.* A request is counted in two ledgers, its retry and the judgement of
  a Goal cost again. Correct: counted once, repeated only when nothing was
  spent, judged once.
* *Two stores.* A schedule and its queue, a provider's definition and its key,
  a workflow's intent and its result, a refresh token and its successor.
  Correct: neither lost nor done twice, and both or neither.
* *Waiting.* Permits under two limits that change, circuits with one probe,
  approvals that may be answered, time out or be dropped. Correct: nobody
  sleeps beside what is free, the probe is held by somebody, what is recorded
  is what was done.

`PROJECT.json` lists every component with its status and every hazard with the
line where it bites and the properties that would catch it.

## 2. Modules

```
DeliveryPromise <--refines-- PendingQueue                   PendingQueueProofs
Conversation    <--refines-- SessionRun     MCSessionRun    SessionRunProofs
                             Notices        MCNotices       NoticesProofs
RunRecord       <--refines-- BotRun         MCBotRun        RunRecordProofs, BotRunProofs
                             BotDispatch    MCBotDispatch   BotDispatchProofs
                             Kanban         MCKanban        KanbanProofs
PendingQueue, BoardLog, Metering, Permits, AgentLoop, Approval, Schedule,
Completion, Workflow, CustomProvider, Credentials
                             Services       MCServices      ServicesProofs
```

`SessionRun`, `Notices` and `Schedule` do not instantiate `PendingQueue`: they
use the contract that it is shown to keep (an operation takes effect; or does
not; or takes effect, fails and blocks the store).

`Services` puts the components that stand on their own into one specification:
its variable `component` is chosen in the initial state, a step is one of that
component, and all others rest. So its states are the sum of theirs and not
their product, and a property of one component is checked in exactly the
behaviours that it would have alone. An instance renames the variables that
two modules share (`INSTANCE Approval WITH told <- toldTo`). It also names the
assumptions on their constants; `MCServices` gives the constants that are
functions and sets of records their values.

In every module files are modelled as their visible content and the set of
contents a power loss may leave; a write takes effect, does not, or takes
effect and reports failure. Ghost variables record what callers were told.

### PendingQueue and DeliveryPromise

One Session's queue. `mem` is the map entry, `disk` what a read of the file
returns now, `stable` the set of contents a power loss may leave, `blocked` the
entry of the block map. `ready` holds the callers that have passed
`ensure_available` and not yet entered the map lock. Every operation has three
ends: `Commit`, `Refuse` (failed before the rename, rolled back) and
`Indeterminate` (visible, then failed, blocked). `EnqueueCommitted` runs the
external commit under the lock. Repair takes its three steps without the lock,
as the code does. Power loss, process crash and a file that does not parse are
actions, and so are the two halves of `restore`. Requests are served while it
runs, as both binaries do; `early` records that one was, and until the next
restart finds a single content the promise is void: the insertion overwrites
what it enqueued and brings back what it cleared (departures).
`DeliveryPromise` says the same without files: every delivery is surely in,
surely out, or unsure for a restart, and only the call about a delivery changes
a sure one, or a suspension.

### SessionRun and Conversation

A run task is a program counter through `run_llm_inner`; the labels name the
code that is next. Steps are critical sections of `active_runs`, or the stretch
of a run between two of them; every I/O of such a stretch may fail on its own,
and any other task may come between two of them. The token is the run:
`RemoveIfCurrent` compares generations. `kick` tasks, the retry timer
(`armed`), the half of `session.abort` after its lock (`resetting`), another
process on the lease, deletion and crash are actions. `Conversation` is the
promise to the user: where each message is, what is promised, and what has been
said.

### Notices

Senders (background tasks, teammates' reports) and runs are actors. A router
has its two locks: `late` is held from the test of the callback to the push
(one step), `queue` for a whole flush (`holder`). The lead appends the letters
of its mailbox one by one (`saving`); when one fails the others are said, and
all are claimed again. A task writes `start`, ends,
writes `exit`, then notifies; recovery treats tasks whose last line is `start`
one by one (`todo`), and may fail at each.

### RunRecord and BotRun

`RunRecord` is what the record admits, whoever writes. A command is one
action, guarded as `decide` guards it, changing what `apply` changes
(`CommitArtifact` and `RequestRevision` change nothing modelled). `BotRun` takes
those commands for its own steps, so that what is proved of the record holds of
it, and adds the executor: the tick's stale view (`seen`), the entry in the `active`
map and the token, the calls of a batch each at its place in
`before / effect / after`, the journal's memory (`mine`), the terminal paths,
`persist_execution_error` (`mourn`), the owner's decisions, the wall clock and
restarts. A write is get, decide and append under the expected version: one
step, and a lost race is a write that fails (`Errs`).

### BotDispatch

One group conversation, its messages, tasks and the deliveries of each Bot,
and one BotRun for a delivery and revision. `StartRun` queues a run beside the
dispatch, as `bot.run.start` and a continuing routine do, without asking
whether the Bot is busy. There are places `at[Tick]`, `at[Owner]` and
`at[bot]` between the appends of the tick, of the owner's RPCs and
of a Bot's tools. The tick takes any of its stages when idle, which is more
than the fixed order of `bot_tick`. Waiting for an approval and for input are
one status; the executor's settlement is the tick's. A stopping group cancels
its runs in one step, all of them or those before the first error. Archive,
membership, direct conversations, several conversations and hop limits are left out.

### Kanban and BoardLog

`Kanban` has the processes with `inFlight` and `handled`, the board as its
cards and open runs, and the log whose every event must be reducible. A scan
has read the board (`todo`) before it acts; a claim that fails may have left
its event. A command is atomic here, and
`BoardLog` looks inside: validation on the memory, anchor, append, snapshot
outside the locks, and a reader that prefers the snapshot; `late` marks the
snapshot whose log grew between its anchor and its stamp. Comments, agent
definitions, columns and the creation of boards are left out; worktrees are
external; the expiry of a policy is abstracted.

### Metering and Completion

`Metering` follows a request through its claim, receipt and settlement into the
ledger of the Session and into the Goal, with the memory of the former, replay
at boot and in a deletion. `Bound` are the requests that belong to the Goal,
`Aside` those that are made outside the run: a deletion does not wait for them.
`Completion` is one Goal with its attempt (Claimed, Prepared, Scored, Unknown),
the judge, the settlement of its cost, `adjust`, and reconciliation at boot.
Budgets, what evidence is and retained receipts are left out.

### Permits, AgentLoop, Approval

`Permits` has the two pools a caller goes through, the announcement to the
notification before each look (`rest`), request windows, and the circuit with
its generation and lease. A change of the settings puts another manager in
place, with its own limits and the shared counts; a request goes by the limits
of the manager it began with (`under`). `AgentLoop` is one run: the request
with its verdicts to the resource manager, its retries, refresh and ticket;
then the batch, whose reads run side by side; cancel and failing writes at each
step. A call is a read, a write whose effect and return are one poll, a slow
one that is let finish after a cancel, or an open one: it awaits after its
effect, by itself or in a hook, and a cancel drops it. `Approval` has a
question with its channel, its waiter and whoever holds the entry; the token
with its flag and notification; rules in memory, cache and file, and who edits
them.

### Schedule, Workflow, CustomProvider, Credentials

`Schedule` joins the store of jobs and one Session's queue: the tick claims an
occurrence, enqueues it, acknowledges it or rolls back; the user pauses and
removes; either file may be unsynced or block. `Workflow` is one run id with
executions that hold the lock of its journal in turn. `CustomProvider` is the
transaction over `config.toml` and `auth.json` with its journal, next to
another settings update on the same lock and gate. `Credentials` is one OAuth
account, the clones of the runs, the refresh lock, logins and removal; the
server takes a refresh token once.

## 3. Runs

| Run | Instance | Question |
|---|---|---|
| `session_run` | 2 messages, 2 runs, 1 kick, another process, crashes, deletion | safety of runs, and refinement of Conversation |
| `session_order` | 3 messages, one process, tails of runs not overtaken | do two that wait behind a third keep their order? |
| `session_live` | 2 messages, 2 runs, 1 kick, another process, no crash | does the queue go on, unless one of the two late steps left it behind? |
| `notices` | 1 task, 1 report, 2 runs, 1 crash, 1 failure | is nothing lost or forgotten, and the end of a task told? |
| `bot_run` | 2 calls, 2 tools, 2 policies, 1 failure, 1 crash | are effects journalled, unique, approved, and never in doubt at the end? |
| `bot_live` | 1 call, 3 tools, 1 failure | does a run end or wait for its owner? |
| `bot_dispatch` | 2 Bots, 2 tasks, 1 delegation, 1 intervention, run beside the dispatch or restart | one live run of the dispatch, children first? |
| `bot_delivery` | 2 Bots, 1 task, fairness of the tick | does every delivery end? |
| `bot_settle` | as `bot_delivery` | *violated*: finding below |
| `kanban` | 1 card, 2 processes, 3 columns, 1 crash, 1 failure, 2 commands | does the log replay, is nothing forsaken? |
| `kanban_once` | as `kanban`, 1 command | *violated*: finding below |
| `services` | every component of `Services` with its own bounds | one or two questions for each |

What `services` asks, by component: queue (2 deliveries, 2 callers, requests
before and after restore): `OwedDurable`, `DoneNeverReturns`, `OrderIsKept`,
`ImplementsPromise`; board (2 writers, 4 events): `OnlyLateHides`; ledgers (2
requests, 1 of the Goal and 1 outside the run, 1 fault, 2 crashes):
`CountedOnce`; permits (2 runs on one provider, 1 check on another, a change of
limits, calls by either manager): `NobodySleepsInVain`, `ProbeIsHeld`; loop (2
turns, 3 attempts, 1 failure, batches of two reads and a write, and of an open
and a slow call): `PaidOnce`, `EffectsAreKnown`; approvals (2 questions about
one command, 1 failing write or revocation): `RecordedIsActed`; timer (1 job, 2
occurrences, 2 bad writes, 2 starts): `FiredOnce`, `NoneLost`; judge (2 pieces
of evidence, 2 judgements, 2 failures, 1 restart): `JudgedOnce`,
`KnownIsCounted`; workflow (2 executions, 2 steps): `DispatchedOnce`; provider
(2 transactions, 1 edit, 2 failing writes, 1 stop): `AllOrNothing`; account (2
runs, 2 tokens, 1 loss, 1 restart): `RefreshedOnce`.

Why the bounds are enough. Two deliveries are needed for order, duplicates and
"the wrong one"; the queue treats its items alike, so a third only lengthens
them, and where length matters (`session_order`) there are three. Two callers
meet in the one gap that exists between look and lock. Two runs are the old and
the new generation of a slot; a third would have to wait for the same slot. Run
tasks are reused when they are over, so histories of any length are covered.
One crash and one failure at every place already cover the recovery of every
intermediate state; two failures are given where the code itself tries to take
the first one back (provider, schedule, judge). Crashes and failures of
`PendingQueue`'s writes and `SessionRun` are not bounded at all. Two
constraints keep the rest of `services` small: after a request during restore
the disk may hold two contents and one call is under way at a time
(`EarlyBound`: nothing is promised then, and the bound still has the request
between the read and the insertion, and a power loss after it); and a behaviour
of the ledgers has two failures or stops together (`LedgersBound`). In
`bot_dispatch` a run beside the dispatch asks nobody for anything
(`DirectBound`). Two processes, writers or clones are what a race needs, and
one more request or execution than can be under way makes a retry and a replay
meet. Symmetry is used over interchangeable messages, runs, callers,
deliveries, calls, cards and processes, never in a run that checks liveness.

Deadlock is checked except in `MCBotRun*`, `MCBotDispatch*` and `MCServices`:
a run, a group or a component whose bounds are used up does nothing any more.

For each property there is a mutant in the module (the comment says of what):
a plausible bug in the mapped definition under which TLC finds the property
violated in the run's own configuration.

### Fairness

* `SessionRun`: every task is scheduled (tokio). Strong fairness of `Admit`,
  `CommitUser` and `Settle` says that what is retried for ever succeeds some
  time; the retry loop has no other end. A retry timer fires, and a kick that
  is tried again and again finds the slot free some time: a run that ends
  claims for the queue before it frees the slot.
* `session_live` takes any interleaving of the tasks, and another process on
  the lease. Two steps leave a queue behind in the code, and `QueueDrains` and
  `OnlyLateForsakes` except them by name: a `reset_retry` that comes after
  another message was queued (`LateReset`), and a run dropped with its slot,
  after a refused lease or after the timer of its own retry has fired (`LateDrop`).
* `Notices`: a run closes its router some time (its turn is bounded by budget
  and cancel); a queued delivery gets its turn (strong fairness, justified by
  the handoff in `SessionRun`).
* `BotRun`: the tick comes each second and executes what it saw; an execution
  and its error path go on; a tool returns or is cut off. Nothing is asked of
  the owner or of the model's answers; the budget of turns bounds those.
* `BotDispatch`: each second the tick goes through all of its stages: strong
  fairness for each stage; an execution goes on. Nothing is asked of the owner:
  a delivery ends, or the group waits for him (`WaitsForOwner`: it is paused, or
  a run asks for input).

### What TLC only checks

The liveness properties (`QueueDrains`, `EndsAreTold`, `RunEnds`,
`EveryDeliveryEnds`), which are out of the prover's reach; and `NoDoubtfulEnd`,
which relates a run's end to what its tools really did, of which the record
proves its own part (`BotNoDoubtHolds`). `RunEnds` excuses a run of which a
write failed or whose process died.


## 4. Theorems

Every safety property, action property and refinement that a passing run
checks, but one (`NoDoubtfulEnd`), is also a theorem: for every set of
messages, runs, kicks, tasks, reports, deliveries, callers, tools, Bots,
processes, cards, requests, clients, jobs, steps, clones and so on, and any
number of failures, crashes and restarts, from the named assumptions on the
constants and from what is said below.

`PendingQueueProofs`: the invariant `Inv` has two parts. `Base` holds always:
the types, `disk \in stable`, and no content holds a delivery twice. `OrderInv`
holds unless a request came in while restore was running. It contains `IInv`,
which joins the promises with what they need: `Quiet` (nobody works on a queue
that is being restored, or could not be read); `Restoring` (the memory is
empty and the scan is the file); `CommittingIsLast` (the delivery under
external commit is the last, is durable, and is promised to nobody: otherwise
its rollback could take a promised one). Each operation has a lemma; the
content lemmas (`PushBackContent`, `ClaimContent`, ...) say what each does to
the items, and `CommitKeeps` and `VisibleKeeps` what a write does to the
invariant. Order and refinement need that all contents a restart may find agree
on the order of what they share (`SameOrder`), and that nothing else is under
way beside an external commit (`CommittingAlone`) or on a file that did not
parse. Every step rewrites one content (`Written`) or chooses among those there
are (`Narrowed`); from these two shapes follow `OrderIsKept` and the refinement
of `DeliveryPromise`, with no case for the single operation left. A restart
that finds one content takes the promise up again (`ResumedKept`). Results:
`TypeCorrect`, `AcceptedIsNeverLost`, `ConsumedIsNeverReplayed`,
`MemoryAndFileAgree`, `OrderIsKeptHolds`, `ImplementsPromiseHolds`.

`SessionRunProofs` goes in layers. `TypeInv` has the types, and that what is
queued was sent. `Owners` says at which labels a run holds the slot and the
lease; with it there is one writer and a quiet deletion. `OnlyLateForsakes`
follows action by action, with any threads and other processes: from every
label at which a run leaves the slot, a queue that is not empty has a kick, a
retry or a run on its way, but after the two late steps. `StepShaped` then
shows that each action does one of eight things to the messages (`Resting`,
`Sends`, `Pushes`, `Claims`, `Releases`, `Settles`, `Says`, `Withdraws`); all
that follows is about shapes. `Apart`: the message of a run that did not come
through the queue is nowhere else. `Ordered` joins `InOrder` with the order of
what still waits (`QueueOrder`) and with the fact that a run that carries a
delivery has nothing in front of it (`RunOrder`). `Once` and `Held` say that a
message is in one place. From these each shape is a step of `Conversation`.
Results: `TypeCorrect`, `OneWriterHolds`, `DeletionIsQuietHolds`,
`OnlyLateForsakesHolds`, `AbortIsFinalHolds`, `InOrderHolds`,
`ImplementsConversationHolds`.

`NoticesProofs`: `NoticesInv` says of each actor what its label means for its
router, lock and store (`Fine`), of each notice that it is where its sender's
label says (`Whereabouts`), and of the runs that one works, that what it says
is in its hand and that the letters it has appended are those before the
cursor (`OneWorks`, `InHand`, `LettersSaved`). Every step moves one actor
(`Moves`), only adds to what is stored until it is said (`Grown`), spares the
routers of the others (`Spares`) and adds or takes one notice of a router
(`Waited`). Results: `TypeCorrect`, `NothingLostHolds`, `NoneForgottenHolds`.

`BotDispatchProofs`: the tick that is about to append a run looked at a Bot
without one that was dispatched, and whoever else appends runs gives them no
delivery (`OneRun`); a step adds a task, or
gives one that is open a new status, and a task is completed only when its
children are (`Adds`, `Turns`). Results: `OneDispatchedRunHolds`,
`ChildrenFirstHolds`.

`KanbanProofs`: `KInv` joins `BoardOK`, which is about the log alone (an open
run is the run of its card, which is Running in that column, and the ids count
the runs), with `RunnerOK`, which is about one process (what it has paid for
and what it handled is over, lost, or the run it executes). Results:
`LogReplaysHolds` and `NoneForsakenHolds` (from
`Processes # {}`: where nobody scans, nobody goes on).

`RunRecordProofs`: `RecordInv` adds to the types that an approval is asked only
while the run waits for it (`AskedWhileWaiting`), that a cancel is wanted only
of an open run (`WantedWhileOpen`), and that approvals are exact. `MovesInv`
treats all operation commands at once, `EndsInv` all terminal ones. Results:
`RecordInvariance`, `NoDoubtHolds`, `UnknownBlocksHolds`,
`ApprovalIsExactHolds`, `CancelWinsHolds`.

`BotRunProofs`: every action of the executor is shown to write only what the
record admits (`Writes`; its steps conjoin those of the record, so this says
only that each does so), which gives the record's theorems for the execution
(`BotNoDoubtHolds`, `BotCancelWinsHolds`). `BotInv` adds the memory of an
execution: which phase each call's operation has at each place (`CallsOK`),
that the recorded turns are those the counter has passed or will collide with
(`TurnOK`), that a denying policy never asks (`DenyNeverAsks`). `NoBlindRetry`
needs a second invariant (`RetryInv`): a run does not wait for its owner with
an operation in doubt (`PausedQuiet`), while calls are made what is in doubt
was started by one of them (`Tied`), and a call that is not alone in its batch
only reads (`Singles`). That `Calls` is finite is an assumption: a batch is
what one reply of a model asks. Results: `BotTypeCorrect`, `NoBlindRetryHolds`
(a tool with outside effects is not run again over an effect in doubt),
`EffectsAreJournalledHolds` (an effect happens once at most, and never before
its start is durable) and `OwnerDecidesHolds`.

`ServicesProofs` has one invariant for each component, shown of its own Init
and Next and carried over by `Chosen` (a behaviour is one of one component).
TLC checked each of them on the instance of `services` first.

* *Board* (`BoardInv`): a projection that is behind the log never gets its
  stamp: a writer reads the anchor under the lock, loads again if it moved, and
  the stamp that it reads later is of that log, or the snapshot is marked late.
  Result: `OnlyLateHidesHolds`.
* *Ledgers* (`LedgersInv`): until the claim of a request is gone its receipt
  guards the Session, and until the charge is no longer owed one guards the
  Goal (`Entered`, of the file, of the memory, and of the manifest of a
  deletion); a settlement is at a stage that its claim and receipts agree with
  (`SettlementOK`), a request at a place that its caller's claim agrees with
  (`Standing`, `ClaimOfCaller`). Each of the six stages, each fault and each
  step of a deletion keeps that. What a request outside the run does is shown
  to touch only what is its own (`AsideMoves`, `AsideSettles`). Result:
  `CountedOnceHolds`, for any `Aside`.
* *Permits* (`PermitInv`): who found no room, asleep or about to sleep, finds
  none now, by the limits of the manager it goes by (`NoRoomYet`); who probes a
  circuit calls its provider, and holds the lease (`ProbeKept`). Results:
  `NobodySleepsInVainHolds`, `ProbeIsHeldHolds`.
* *Loop* (`LoopInv`, `CallsInv`): what is still to be sent, or again, cost
  nothing (`Unspent`); what took effect has returned, is let finish, or is an
  open call (`Acting`). Results: `PaidOnceHolds`, `EffectsAreKnownHolds`.
* *Approvals* (`AskInv`): what each question's entry, channel, waiter and edit
  may be together (`Settled`): whoever takes the entry decides. Result:
  `RecordedIsActedHolds`.
* *Timer* (`TimerInv`): every schedule that a loss of power may leave claims
  what is in a queue, or has moved past it (`OccurrenceOK`); what was run is in
  no queue and in nobody's hand (`RanOK`); what was moved past is in every
  queue that may be left, or was run or cleared (`LeftOK`). Results:
  `FiredOnceHolds`, `NoneLostHolds`.
* *Judge* (`JudgeInv`): a request that was sent is the attempt of its Goal, in
  a phase that no restart takes for free (`SentIsHeld`); who is about to send
  has the attempt (`AboutToSend`). Results: `JudgedOnceHolds`,
  `KnownIsCountedHolds`.
* *Workflow* (`FlowInv`): one execution holds the lock, what was dispatched has
  a line in every journal that may be left (`Traced`), and an execution at work
  knows of it (`Recalled`). Result: `DispatchedOnceHolds`.
* *Provider* (`ProviderInv`): what may be left of the config and the key
  agrees, unless every journal that may be left takes them back, and to an
  agreed pair (`TornIsPrepared`). Result: `AllOrNothingHolds`.
* *Account* (`AccountInv`): one refresh is under way and holds the lock
  (`LockIsHeld`); what a restart may find, what the process holds before its
  first refresh, and what was refreshed last are not spent, but by the refresh
  that is under way (`FileIsFresh`, `MemoryIsFresh`, `RecentIsFresh`). Result:
  `RefreshedOnceHolds`.

The assumptions of `Services` are that `None`, `Nobody` and `Revoker` are no
other value (an `Option` is not its content, an editor is not a question), that
a plan is a sequence of kinds of calls, that each client has one provider and
limits are numbers, and that the clock has a last tick: the `Horizon` of the
run is any natural number.

Liveness is out of the prover's reach and stays with TLC.

## 5. Findings

Each is a run that TLC finds violated; `PROJECT.json` quotes the lines.

* `bot_settle`: the settlement writes the status of a run to its task under a
  key of run and status, and from a listing that may be old. A run that waited
  for the owner and then completes finds its task waiting; no completion is
  admitted from there, `settle_run` fails on every tick, and the answer is
  never posted.
* `kanban_once`: a scan adopts every open run that started after its own boot
  and that it has not executed itself; with two processes on one workspace the
  second executes the run that the first is executing.

### Known departures

Properties that are stated in the modules and do not hold of the code, without
a run of their own. To see one, put the property and the constants into a
copy of the configuration named (for a component of `Services` define it
there as the others are, `Name == Instance!Name`).

| Property | In | With | What happens |
|---|---|---|---|
| `AbortCancels` | SessionRun (session_run) |  | when the clear of the queue fails abort returns before it cancels the run |
| `CorrectionFirst` | SessionRun (session_order) | `Disrupted = FALSE` and `Prompt = FALSE`, or as it is | the interrupted run releases its own delivery in front of the correction |
| `RefusedByOthersOnly` | SessionRun (session_run) |  | a direct run is refused by the lease of the run that has just freed the slot |
| `SomebodyContinues` | SessionRun (session_live), `Spec` |  | a stale `reset_retry`, an abort between `schedule_retry` and the drop of the slot, or a refused lease, leaves the queue to an unrelated event |
| `AcknowledgedIsDurable` | SessionRun (session_run) |  | a replay acknowledges a line that was never synced |
| `OwedEver` | PendingQueue (services) |  | the server answers while the queues are restored (`kxen-cli` main.rs:46 and :65, `src-tauri` main.rs:102 and :132): a message accepted before the insertion is lost, or the file is rewritten from the empty memory |
| `DoneEver` | PendingQueue (services) |  | a clear or an acknowledge between the read and the insertion of restore returns Ok, and the delivery is back |
| `BlockIsRepairable` | PendingQueue (services) |  | a caller past `ensure_available` writes over the content that a block expects, and repair refuses for ever |
| `EchoDurable` | PendingQueue (services) |  | Ok for an id that is queued already does not mean that it is durable |
| `EveryTaskIsTold` | Notices (notices) |  | the exit line precedes the delivery of the notice; a crash in between leaves a task of whose end nobody is told |
| `ToldOnce` | Notices (notices) |  | a report whose enqueue failed after it was visible, or that a router kept, is told by its notice and again by a letter (`manager.rs:229` wants to prevent the double) |
| `ReapsOnlyItsOwn` | Notices (notices) | `Foreign = {f1}` | recovery stops the live task of another process |
| `CancelInterrupts` | BotRun (bot_live), `Spec` |  | `execute` puts its fresh token into `active` before it finds that the run is active, so the owner's cancel reaches a token nobody waits on |
| `ApprovedGoesOn` | BotRun (bot_live), `Spec` |  | each execution counts its turns from the start again; the first turn after an approval cannot be recorded and the run fails |
| `KnownIsSettled` | BotRun (bot_live) |  | an outcome whose settlement failed is settled only if the model repeats the call |
| `CancelEnds` | BotRun (bot_live) |  | a cancel that comes as the run pauses waits for the owner's answer |
| `NoDoubtAtAnyEnd` | BotRun (bot_run) |  | a run that is denied or cancelled while it waits may end with a started operation |
| `OneLiveRun` | BotDispatch (bot_dispatch) |  | `bot.run.start` and a routine that continues a conversation queue a run without asking whether the Bot is busy; `library.mdx:55` says a Bot has one in a conversation |
| `NotPaidAgain` | Kanban (kanban) |  | an outcome that could not be written leaves the run open, and the process that has just paid for it adopts it at a next scan: it tested `handled` while the execution was under way |
| `CacheNeverHides` | BoardLog (services) |  | `apply` drops both locks before it saves the snapshot (`command.rs:46` says the file lock covers it), and an older snapshot may hide newer events |
| `AsideCountedOnce` | Metering (services) |  | a request outside the run is settled for the deletion while it is under way, and its next checkpoint makes a claim again |
| `StartsAgain` | Metering (services) |  | a request outside the run makes its claim after the deletion's barrier; its Goal is gone, and every later start fails |
| `QueuedSeeNewLimits` | Permits (services) |  | a change of the settings makes another manager; a request that waits goes on by the limits of the old one (`state.rs:30` says it does not) |
| `ErrorNeverHeals` | AgentLoop (services) |  | a stream that failed is recorded as a success and then as a failure: errors other than 429 never open the circuit at a threshold above one, and an erroneous probe closes it |
| `EveryEffectIsKnown` | AgentLoop (services) |  | a cancel answers a tool that awaits after its effect (a worktree, a message to a team, a browser, a domain tool), or during the hook after it, with a bare "(interrupted)"; `run_calls.rs` says the placeholder must tell whether the effect is known |
| `AllowIsActed` | Approval (services) |  | the waiter is dropped between the answer and its next poll: the log says allow, nothing is executed |
| `CancelWakes` | Approval (services) |  | a cancel between the test of the flag and `notified()` is missed by `CancelToken::wait` |
| `RevokedIsGone` | Approval (services) |  | a use of a rule saves the list as it was read, without a lock: a revoked rule is back |
| `LostCanBeAdjusted` | Completion (services) |  | a Goal that was paused or resumed when its judge was lost refuses `adjust`, and every later completion conflicts |
| `InProgressIsAlive` | Completion (services) |  | a completion that is dropped after the grace of a cancel leaves its attempt claimed until a restart |
| `FiredOnceEver` | Schedule (services) |  | an occurrence is run twice when its job is removed amid the tick and its roll-back is lost, or when the acknowledgement it ran under is lost with the power |
| `NothingIsStuck` | Schedule (services) |  | a crash between push and acknowledgement, then a pause: the delivery is not admitted, and the queue waits behind it |
| `NeverSilently` | Workflow (services) |  | an intent without a result is dropped after a week too, and its step dispatched again (`workflow_journal.rs:5` says never silently) |
| `Resumable` | Workflow (services) |  | a line that broke off makes the run id useless for good |
| `EditsAreKept` | CustomProvider (services) |  | the journal holds the whole of `config.toml`; a roll-back or a recovery takes back a setting that was saved meanwhile |
| `NobodyIsStuck` | CustomProvider (services) |  | when the mark of the journal fails the transaction waits for the lock of `config.toml` with the gate in its hand, an edit holds the lock and waits for the gate: both for ever |
| `NeverTwice` | Credentials (services) |  | a clone that outlives two refreshes presents a revoked token |
| `RemovedStaysOut` | Credentials (services) |  | a run that refreshes brings an account back that the user removed |
| `SharedIsStored` | Credentials (services) |  | a login publishes an older copy of the whole file over what a refresh has published |

In the hazards and properties above exceptions are by name: `early`, `late`,
`lost`, `Aside`, open calls and the two late steps of a run. Each is a way in
which the code breaks the full property, and the table has the full property.
`NoBlindRetry` excludes read-only and asking tools: those are repeated after a
restart, without harm. `NoneLost` excepts a queue file that a process started
on while it was not synced.

Of `BotDispatch`, seen while modelling and without a definition: the two
writes of `reject_delivery` leave a task submitted for ever when the second
fails; a delivery may be rejected although its run ran; a new revision after a
restart makes a second run for one delivery; reassigning creates no delivery.
Seen while reading, and not part of a module: `bot/executor/mod.rs`
names the reporter of a BotRun's usage `bot-run:<id>`, and `validate_id`
refuses the colon, so that every provider request of a BotRun is refused; and
`lifecycle.rs` pauses a routine under a key without a version, so that after a
resume the second pause is taken for a duplicate.

## 6. What is abstracted, what is missing

Texts, attachments, prices and wording are left out; a message is its id. A
write is one step with its outcomes. The ids of provider calls are distinct,
and two turns never have equal content: a collision would only turn one of the
failures above into a silent success. The turn of the agent is one step in
`SessionRun`, its tools are opaque effects in `BotRun`, and the stream of a
reply is what it produced, ended or failed in `AgentLoop`. In `Schedule` one
Session's queue is a set, all jobs are due at each step of the clock, and
history lines are only writes. In `Credentials`, a refresh that is forced after
a login may adopt the credential of the older account (`adopt_recent` compares
only with the own clone); tokens of both are numbers of one line there.

### Not modelled

* Session log and store: `append_message` is used by contract in `SessionRun`
  and `Notices`; transactions, rewrite, fork, compaction and the rewind lock
  are not modelled.
* Event store: an append under an expected version is one step with its
  outcomes wherever an aggregate is written.
* Bot routines, builder, definitions and memory: decide and apply pairs, each
  with one writer at a time.
* Teams and DCP agents, except for reports to the lead and the lease.
* Clients of providers, MCP and LSP, tools, knowledge, web socket framing,
  front end, shells and packaging: I/O and conversions.

## 7. Plan

Done: everything above. Left, most important first:

1. `SessionLog` (transaction, append, rewrite, storage recovery, deletion
   steps, rewind lock); it would discharge the contract that `SessionRun` uses.
2. `EventStore` (lock, scan, append, torn tail), refined by the step that the
   aggregates take.
3. `Team` (spawn, task board, member loops, restore) and DCP agents (journal,
   lease, runner); the life cycle of MCP connections.
4. The write contracts: that `Schedule` refines, for one Session, the queue
   operations that it takes as steps; that `SessionRun` does.
