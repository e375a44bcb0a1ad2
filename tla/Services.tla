------------------------------ MODULE Services -------------------------------
(***************************************************************************)
(* The pending queue of a Session and the components that stand on their   *)
(* own.  None of them meets another here: each behaviour is one of one     *)
(* component, the others stay as they were initialised.                    *)
(***************************************************************************)
EXTENDS PendingQueue

CONSTANTS
  MaxFaults, MaxCrashes,
  Writers, MaxEvents,                                      \* BoardLog
  Requests, Bound, Aside,                                  \* Metering
  Clients, Providers, Of, Checks, Rpm, Limits, MaxCalls, MaxChanges, \* Permits
  Plans, MaxTurns, MaxAttempts, MaxTroubles,               \* AgentLoop
  Asks, Command, Kept, Revoker, MaxIncidents,              \* Approval
  Jobs, Horizon, MaxBadWrites, MaxStarts,                  \* Schedule
  Evidence, MaxJudgements, MaxMishaps, MaxRestarts,        \* Completion
  Executions, Steps, MaxTorn, MaxWeeks, MaxStops,          \* Workflow
  MaxDeals, MaxEdits, MaxBroken, MaxPowers,                \* CustomProvider
  Sessions, Nobody, MaxTokens, MaxLosses, MaxReboots       \* Credentials

VARIABLES
  component,                             \* the one that this behaviour is of
  log, snap, lock, at, base, seen, late,                   \* BoardLog
  pc, told, claim, usage, usageMem, goal, settling, process, session,
  manifest, called, reported, faults, crashes,             \* Metering
  limits, former, managers, under, stage, rest, held, started, reserved,
  circuit, lease, calls, changes,                          \* Permits
  place, turn, attempt, refreshed, cancelled, goalOver, reply, ended, ticket,
  spent, verdicts, asked, tool, effects, answers, saved, outcome, troubles, \* AgentLoop
  pending, channel, holder, waiter, heard, verdict, toldTo, token,
  sessionRules, cache, file, edit, copy, revoked, incidents, \* Approval
  jobs, jobsMay, storeBlocked, queue, queueMay, queueBlocked, tick, clock,
  unused, left, ran, ranAgain, dropped, removed, guessed, badWrites, starts, \* Schedule
  aim, marker, counted, judging, step, job, reports, sent, next, mishaps,
  restarts,                                                \* Completion
  journal, journalMay, aged, script, results, intents, came, dispatches,
  repeats, forgotten, torn, weeks, stops,                  \* Workflow
  files, filesMay, deal, deals, rmwLock, gate, agreed, editing, acked, broken,
  powers,                                                  \* CustomProvider
  valid, issued, expired, auth, authMay, shared, recent, clone, work,
  refreshing, snapshot, presented, again, lost, takenOut, losses, reboots \* Credentials

board == <<log, snap, lock, at, base, seen, late>>
ledgers == <<pc, told, claim, usage, usageMem, goal, settling, process,
  session, manifest, called, reported, faults, crashes>>
permits == <<limits, former, managers, under, stage, rest, held, started,
  reserved, circuit, lease, calls, changes>>
loop == <<place, turn, attempt, refreshed, cancelled, goalOver, reply, ended,
  ticket, spent, verdicts, asked, tool, effects, answers, saved, outcome,
  troubles>>
approvals == <<pending, channel, holder, waiter, heard, verdict, toldTo,
  token, sessionRules, cache, file, edit, copy, revoked, incidents>>
timer == <<jobs, jobsMay, storeBlocked, queue, queueMay, queueBlocked, tick,
  clock, unused, left, ran, ranAgain, dropped, removed, guessed, badWrites,
  starts>>
completions == <<aim, marker, counted, judging, step, job, reports, sent,
  next, mishaps, restarts>>
flows == <<journal, journalMay, aged, script, results, intents, came,
  dispatches, repeats, forgotten, torn, weeks, stops>>
settings == <<files, filesMay, deal, deals, rmwLock, gate, agreed, editing,
  acked, broken, powers>>
account == <<valid, issued, expired, auth, authMay, shared, recent, clone,
  work, refreshing, snapshot, presented, again, lost, takenOut, losses,
  reboots>>

ASSUME BoardAssumption == None \notin Nat
ASSUME LedgersAssumption ==
  /\ None \notin [phase : {"prepared", "started"}, known : BOOLEAN]
  /\ None \notin [count : [Requests -> Nat], receipts : SUBSET Requests]
  /\ None \notin [request : Requests, stage : {"count", "charge", "acknowledge", "finish", "forget", "end"},
                  by : {"live", "boot", "owed", "deletion"}]
ASSUME LoopAssumption == Plans \subseteq Seq({"read", "write", "open", "slow"})
ASSUME PermitsAssumption ==
  /\ Of \in [Clients -> Providers] /\ Limits \subseteq [provider : Nat, global : Nat, threshold : Nat]
  /\ None \notin [generation : Nat, probing : BOOLEAN]
ASSUME ApprovalAssumption == Revoker \notin Asks
ASSUME CompletionAssumption ==
  /\ None \notin Callers
  /\ None \notin [op : Nat, evidence : Evidence, phase : {"Claimed", "Prepared", "Scored", "Unknown"},
                  outcome : {"pass", "fail", None}, usage : {"known", "unknown", None}]
ASSUME ScheduleAssumption == Horizon \in Nat
ASSUME AccountAssumption == Nobody \notin Sessions

Board == INSTANCE BoardLog
Ledgers == INSTANCE Metering
Admission == INSTANCE Permits
Agent == INSTANCE AgentLoop
Broker == INSTANCE Approval WITH told <- toldTo
Timer == INSTANCE Schedule WITH blocked <- storeBlocked, held <- queueBlocked, faults <- badWrites, restarts <- starts
Judge == INSTANCE Completion WITH goal <- aim, usage <- reports
Engine == INSTANCE Workflow
Settings == INSTANCE CustomProvider
Account == INSTANCE Credentials

ServicesInit ==
  /\ component \in {"queue", "board", "ledgers", "permits", "loop", "approval",
       "schedule", "completion", "workflow", "provider", "account"}
  /\ Init
  /\ Board!InitBoardLog
  /\ Ledgers!InitMetering
  /\ Admission!InitPermits
  /\ Agent!InitLoop
  /\ Broker!InitApproval
  /\ Timer!InitSchedule
  /\ Judge!InitCompletion
  /\ Engine!InitWorkflow
  /\ Settings!InitProvider
  /\ Account!InitCredentials

\* Only the component of this behaviour steps; the others rest.
ServicesNext ==
  /\ \/ component = "queue" /\ Next
     \/ component = "board" /\ Board!NextBoardLog
     \/ component = "ledgers" /\ Ledgers!NextMetering
     \/ component = "permits" /\ Admission!NextPermits
     \/ component = "loop" /\ Agent!NextLoop
     \/ component = "approval" /\ Broker!NextApproval
     \/ component = "schedule" /\ Timer!NextSchedule
     \/ component = "completion" /\ Judge!NextCompletion
     \/ component = "workflow" /\ Engine!NextWorkflow
     \/ component = "provider" /\ Settings!NextProvider
     \/ component = "account" /\ Account!NextCredentials
  /\ IF component = "queue" THEN TRUE ELSE UNCHANGED vars
  /\ IF component = "board" THEN TRUE ELSE UNCHANGED board
  /\ IF component = "ledgers" THEN TRUE ELSE UNCHANGED ledgers
  /\ IF component = "permits" THEN TRUE ELSE UNCHANGED permits
  /\ IF component = "loop" THEN TRUE ELSE UNCHANGED loop
  /\ IF component = "approval" THEN TRUE ELSE UNCHANGED approvals
  /\ IF component = "schedule" THEN TRUE ELSE UNCHANGED timer
  /\ IF component = "completion" THEN TRUE ELSE UNCHANGED completions
  /\ IF component = "workflow" THEN TRUE ELSE UNCHANGED flows
  /\ IF component = "provider" THEN TRUE ELSE UNCHANGED settings
  /\ IF component = "account" THEN TRUE ELSE UNCHANGED account
  /\ UNCHANGED component

services == <<component, vars, board, ledgers, permits, loop, approvals, timer,
  completions, flows, settings, account>>

ServicesSpec == ServicesInit /\ [][ServicesNext]_services

-----------------------------------------------------------------------------
\* Of the snapshots of a board: one hides events only if the log grew as it was saved.
OnlyLateHides == component = "board" => Board!OnlyLateHides

\* Of the snapshot of a board: it never hides an event of the log.
CacheNeverHides == Board!CacheNeverHides

\* Of a request to a provider: it is counted once in each ledger.
CountedOnce == component = "ledgers" => Ledgers!CountedOnce

\* Of a request outside the run: it is counted once in each ledger.
AsideCountedOnce == Ledgers!AsideCountedOnce

\* Of a request that waits for a permit: it does not sleep beside a free one.
NobodySleepsInVain == component = "permits" => Admission!NobodySleepsInVain

\* Of a request that waits for a permit: it does not sleep beside one that the new limits leave free.
QueuedSeeNewLimits == Admission!QueuedSeeNewLimits

\* Of a circuit that is probed: somebody still holds the probe.
ProbeIsHeld == component = "permits" => Admission!ProbeIsHeld

\* Of a request of a run: it is repeated only if it cost nothing.
PaidOnce == component = "loop" => Agent!PaidOnce

\* Of a call of a tool: what it did is told and on disk.
EffectsAreKnown == component = "loop" => Agent!EffectsAreKnown

\* Of a call of a tool with an effect: it is never answered as one that was cut off.
EveryEffectIsKnown == Agent!EveryEffectIsKnown

\* Of a question to the person: what is written of it is what was done.
RecordedIsActed == component = "approval" => Broker!RecordedIsActed

\* Of a timed message: an occurrence is run once.
FiredOnce == component = "schedule" => Timer!FiredOnce

\* And none is lost that the schedule has moved past.
NoneLost == component = "schedule" => Timer!NoneLost

\* Of the judgement of a Goal: it is paid for once.
JudgedOnce == component = "completion" => Judge!JudgedOnce

\* Of its cost: what is known of it is what is counted.
KnownIsCounted == Judge!KnownIsCounted

\* Of a step of a workflow: it is dispatched once while its entry lasts.
DispatchedOnce == component = "workflow" => Engine!DispatchedOnce

\* Of a custom provider: its definition and its key are of one transaction.
AllOrNothing == component = "provider" => Settings!AllOrNothing

\* Of a refresh token: its runs present it once.
RefreshedOnce == component = "account" => Account!RefreshedOnce
=============================================================================
