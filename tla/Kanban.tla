------------------------------- MODULE Kanban -------------------------------
(***************************************************************************)
(* One Kanban board (kanban/command, projection), the runner that scans it *)
(* in every process that has the workspace open (kanban/runner), the       *)
(* executions it spawns (kanban/driver, land), and the commands of people  *)
(* and agents (kanban_rpc).                                                *)
(*                                                                         *)
(* A command is validated and appended under the lock of the board's log,  *)
(* against the whole log: here it is one step (BoardLog looks inside).     *)
(* Boards are read without the lock; the only reading that is used later   *)
(* is that of a scan, and all it is used for is what is left to do in      *)
(* todo.  Comments, agent definitions and new columns change nothing that  *)
(* the rest depends on.                                                    *)
(***************************************************************************)
EXTENDS Naturals, FiniteSets, Functions

CONSTANTS
  Processes, Cards, None,
  Columns,
  Entry,        \* on_enter of each column: "run" (agent or workflow), "gate" or "none"
  OnSuccess,    \* transitions of each column
  OnFailure,
  Wip,          \* wip_limit of each column
  Starts,       \* bound: the columns that cards are created in
  MaxUses,      \* max_uses of the policy that is set
  MaxAttempts,  \* bound: runs of one card in one column
  MaxCrashes,   \* bound: restarts
  MaxFailures,  \* bound: commands that fail for want of the lock or the disk
  MaxCommands   \* bound: commands of people, the creation of cards not counted

ASSUME BoardAssumption ==
  /\ Entry \in [Columns -> {"run", "gate", "none"}]
  /\ OnSuccess \in [Columns -> Columns \cup {None}]
  /\ OnFailure \in [Columns -> Columns \cup {None}]
  /\ Wip \in [Columns -> Nat]
  /\ Starts \subseteq Columns
  /\ None \notin Columns \cup Cards
  /\ {MaxUses, MaxAttempts, MaxCrashes, MaxFailures, MaxCommands} \subseteq Nat

VARIABLES
  cards,     \* BoardState.cards: column, status, current run
  runs,      \*   runs: outcome, "open" until there is one
  used,      \*   policy: how often it was used, None without one
  corrupt,   \* the log holds an event that the projection refuses
  old,       \* the runs that started before the boot of each process
  todo,      \* what the scan of each process has read and not yet looked at
  inflight,  \* RunnerInner of each process: in_flight
  handled,   \*   handled
  tasks,     \* the executions of each process, by card
  paid,      \* ghost: the runs each process has executed
  twice,     \* ghost:   and those it has executed again
  lost,      \* ghost: the open runs whose execution could not read or write the board
  crashes, failures, commands

board == <<cards, runs, used, corrupt>>
runner == <<old, todo, inflight, handled, tasks>>
ghosts == <<paid, twice, lost>>
bounds == <<crashes, failures, commands>>
vars == <<board, runner, ghosts, bounds>>

Open == {r \in DOMAIN runs : runs[r] = "open"}

-----------------------------------------------------------------------------
(* Commands: what validate admits, and what reduce makes of the event *)

Target(column, outcome) ==
  CASE outcome = "success" -> OnSuccess[column]
    [] outcome = "failure" -> OnFailure[column]
    [] OTHER -> None

\* check_wip
HasRoom(column, moving) ==
  Cardinality({c \in DOMAIN cards \ {moving} : cards[c].column = column}) < Wip[column]

Entered(column) ==
  [column |-> column,
   status |-> IF Entry[column] = "gate" THEN "Waiting" ELSE "Ready",
   run |-> None]

\* move_card: the projection refuses to move a card that is elsewhere.
MoveCard(c, from, to) ==
  /\ corrupt' = (corrupt \/ cards[c].column # from)
  /\ cards' = [cards EXCEPT ![c] = Entered(to)]

Block(c) ==
  /\ cards' = [cards EXCEPT ![c].status = "Blocked", ![c].run = None]
  /\ UNCHANGED corrupt

\* Mutant of Movable: a card is moved while its run is under way.
MovableAnyhow(c) == c \in DOMAIN cards

Movable(c) == c \in DOMAIN cards /\ cards[c].status # "Running"

CreateCard(c, column) ==
  /\ c \notin DOMAIN cards
  /\ HasRoom(column, None)
  /\ cards' = [d \in DOMAIN cards \cup {c} |-> IF d = c THEN Entered(column) ELSE cards[d]]
  /\ UNCHANGED <<runs, used, corrupt>>

MoveByOutcome(c, outcome) ==
  /\ Movable(c)
  /\ LET from == cards[c].column
         to == Target(from, outcome)
     IN  to # None /\ HasRoom(to, c) /\ MoveCard(c, from, to)
  /\ UNCHANGED <<runs, used>>

\* The id of a run counts the runs of the card in the column.
NextRun(c) ==
  LET column == cards[c].column IN
  <<c, column, Cardinality({r \in DOMAIN runs : r[1] = c /\ r[2] = column}) + 1>>

MayStart(c) ==
  /\ c \in DOMAIN cards /\ cards[c].status # "Running"
  /\ Entry[cards[c].column] = "run"

StartRun(c) ==
  LET r == NextRun(c) IN
  /\ MayStart(c) /\ r[3] <= MaxAttempts
  /\ corrupt' = (corrupt \/ r \in DOMAIN runs)
  /\ cards' = [cards EXCEPT ![c].status = "Running", ![c].run = r]
  /\ runs' = [q \in DOMAIN runs \cup {r} |-> IF q = r THEN "open" ELSE runs[q]]
  /\ UNCHANGED used

MayFinish(r, outcome) ==
  /\ r \in Open
  /\ Target(r[2], outcome) # None => HasRoom(Target(r[2], outcome), r[1])

\* RunFinished and RunTimeout: a run that timed out has no transition.
EndRun(r, outcome) ==
  /\ MayFinish(r, outcome)
  /\ runs' = [runs EXCEPT ![r] = outcome]
  /\ IF Target(r[2], outcome) = None
       THEN Block(r[1])
       ELSE MoveCard(r[1], r[2], Target(r[2], outcome))
  /\ UNCHANGED used

MayApprove(r) == used # None /\ used < MaxUses /\ r \in Open

AutoApproved(r) ==
  /\ MayApprove(r)
  /\ used' = used + 1
  /\ UNCHANGED <<cards, runs, corrupt>>

\* A command that fails for want of the disk may have left its event in the
\* log: append_synced fails after the event is visible, too.
Fails == failures < MaxFailures /\ failures' = failures + 1

Outcomes == {"success", "failure", "timeout"}

-----------------------------------------------------------------------------
(* People and agents: kanban_rpc, kanban_* tools *)

Create(c, column) ==
  /\ ~corrupt
  /\ CreateCard(c, column)
  /\ UNCHANGED <<runner, ghosts, bounds>>

Command ==
  /\ ~corrupt /\ commands < MaxCommands
  /\ commands' = commands + 1
  /\ UNCHANGED <<runner, ghosts, crashes, failures>>

Move(c, outcome) == Command /\ MoveByOutcome(c, outcome)
Retry(c) == Command /\ StartRun(c)
SetPolicy == Command /\ used' = 0 /\ UNCHANGED <<cards, runs, corrupt>>

-----------------------------------------------------------------------------
(* The runner *)

Runnable == {c \in DOMAIN cards : cards[c].status = "Ready" /\ Entry[cards[c].column] = "run"}

Found(p) ==
  {<<"orphan", r>> : r \in Open \cap old[p]}
  \cup {<<"adopt", r>> : r \in Open \ old[p]}
  \cup {<<"ready", c>> : c \in Runnable}

\* scan_once reads the board ...
Scan(p) ==
  /\ ~corrupt /\ todo[p] = {}
  /\ todo' = [todo EXCEPT ![p] = Found(p)]
  /\ UNCHANGED <<board, old, inflight, handled, tasks, ghosts, bounds>>

\* ... and goes through what it has found: orphans, open runs, cards.
Stage(p, kind) ==
  CASE kind \in {"orphan", "claim"} -> TRUE
    [] kind = "adopt" -> \A i \in todo[p] : i[1] \notin {"orphan", "claim"}
    [] kind = "ready" -> \A i \in todo[p] : i[1] = "ready"

Due(p, kind, x) == <<kind, x>> \in todo[p] /\ Stage(p, kind)
Done(p, kind, x) == todo' = [todo EXCEPT ![p] = @ \ {<<kind, x>>}]

\* recover_orphans: the outcome of a run that a dead process has left is unknown.
Recover(p, r) ==
  /\ Due(p, "orphan", r)
  /\ Done(p, "orphan", r)
  /\ IF MayFinish(r, "timeout") /\ ~corrupt THEN EndRun(r, "timeout") ELSE UNCHANGED board
  /\ UNCHANGED <<old, inflight, handled, tasks, ghosts, bounds>>

RecoverFails(p, r) ==
  /\ Due(p, "orphan", r)
  /\ Done(p, "orphan", r)
  /\ Fails
  /\ UNCHANGED board \/ (~corrupt /\ EndRun(r, "timeout"))
  /\ UNCHANGED <<old, inflight, handled, tasks, ghosts, crashes, commands>>

\* An open run that this process has not executed was claimed by a command:
\* handled is looked at first, and the card is claimed afterwards.
Look(p, r) ==
  /\ Due(p, "adopt", r)
  /\ todo' = [todo EXCEPT ![p] =
       (@ \ {<<"adopt", r>>}) \cup (IF r \in handled[p] THEN {} ELSE {<<"claim", r>>})]
  /\ UNCHANGED <<board, old, inflight, handled, tasks, ghosts, bounds>>

Task(pc, r) == [pc |-> pc, run |-> r]

\* spawn_run
Spawn(p, c, task) ==
  /\ inflight' = [inflight EXCEPT ![p] = @ \cup {c}]
  /\ tasks' = [tasks EXCEPT ![p] =
       [d \in DOMAIN tasks[p] \cup {c} |-> IF d = c THEN task ELSE tasks[p][d]]]

\* claim_card
Free(p, c) == c \notin inflight[p]

\* Mutant of Adopt: the run is marked before the card is claimed.
AdoptMarked(p, r) ==
  /\ Due(p, "claim", r)
  /\ Done(p, "claim", r)
  /\ IF Free(p, r[1]) THEN Spawn(p, r[1], Task("adopt", r)) ELSE UNCHANGED <<inflight, tasks>>
  /\ handled' = [handled EXCEPT ![p] = @ \cup {r}]
  /\ UNCHANGED <<board, old, ghosts, bounds>>

Adopt(p, r) ==
  /\ Due(p, "claim", r)
  /\ Done(p, "claim", r)
  /\ IF Free(p, r[1])
       THEN /\ Spawn(p, r[1], Task("adopt", r))
            /\ handled' = [handled EXCEPT ![p] = @ \cup {r}]
       ELSE UNCHANGED <<inflight, handled, tasks>>
  /\ UNCHANGED <<board, old, ghosts, bounds>>

Launch(p, c) ==
  /\ Due(p, "ready", c)
  /\ Done(p, "ready", c)
  /\ IF Free(p, c)
       THEN Spawn(p, c, Task("launch", None))
       ELSE UNCHANGED <<inflight, tasks>>
  /\ UNCHANGED <<board, old, handled, ghosts, bounds>>

-----------------------------------------------------------------------------
(* An execution: driver::execute *)

Is(p, c, pc) == c \in DOMAIN tasks[p] /\ tasks[p][c].pc = pc
Goes(p, c, task) == tasks' = [tasks EXCEPT ![p][c] = task]

Executes(p, r) ==
  /\ twice' = [twice EXCEPT ![p] = IF r \in paid[p] THEN @ \cup {r} ELSE @]
  /\ paid' = [paid EXCEPT ![p] = @ \cup {r}]
  /\ UNCHANGED lost

\* The claim is durable before anything is done.
Claim(p, c) ==
  /\ Is(p, c, "launch") /\ ~corrupt
  /\ StartRun(c)
  /\ Goes(p, c, Task("work", NextRun(c)))
  /\ Executes(p, NextRun(c))
  /\ UNCHANGED <<old, todo, inflight, handled, bounds>>

ClaimRefused(p, c) ==
  /\ Is(p, c, "launch")
  /\ corrupt \/ ~MayStart(c) \/ NextRun(c)[3] > MaxAttempts
  /\ Goes(p, c, Task("end", None))
  /\ UNCHANGED <<board, old, todo, inflight, handled, ghosts, bounds>>

ClaimFails(p, c) ==
  /\ Is(p, c, "launch")
  /\ Fails
  /\ UNCHANGED board \/ (~corrupt /\ StartRun(c))
  /\ Goes(p, c, Task("end", None))
  /\ UNCHANGED <<old, todo, inflight, handled, ghosts, crashes, commands>>

TakeOver(p, c) ==
  LET r == tasks[p][c].run IN
  /\ Is(p, c, "adopt")
  /\ IF r \in Open /\ ~corrupt
       THEN Goes(p, c, Task("work", r))  /\ Executes(p, r)
       ELSE Goes(p, c, Task("end", r))  /\ UNCHANGED ghosts
  /\ UNCHANGED <<board, old, todo, inflight, handled, bounds>>

\* A command of the column's agent that the policy lets pass.
Approve(p, c) ==
  /\ Is(p, c, "work") /\ ~corrupt
  /\ AutoApproved(tasks[p][c].run)
  /\ UNCHANGED <<runner, ghosts, bounds>>

Ended(p, c) == Goes(p, c, Task("end", tasks[p][c].run))

\* The verdict, a failure of the configuration, or not known (a time-out, an
\* abort, a turn that was not persisted); land_finished, land_timeout.
Land(p, c, outcome) ==
  /\ Is(p, c, "work") /\ ~corrupt
  /\ EndRun(tasks[p][c].run, outcome)
  /\ Ended(p, c)
  /\ UNCHANGED <<old, todo, inflight, handled, ghosts, bounds>>

LandRefused(p, c, outcome) ==
  /\ Is(p, c, "work")
  /\ corrupt \/ ~MayFinish(tasks[p][c].run, outcome)
  /\ lost' = lost \cup {tasks[p][c].run}
  /\ Ended(p, c)
  /\ UNCHANGED <<board, old, todo, inflight, handled, paid, twice, bounds>>

\* The board cannot be read or written: the execution leaves its run open, if
\* the outcome is not in the log all the same.
Drop(p, c) ==
  /\ Is(p, c, "adopt") \/ Is(p, c, "work")
  /\ Fails
  /\ \/ UNCHANGED board
     \/ Is(p, c, "work") /\ ~corrupt /\ \E outcome \in Outcomes : EndRun(tasks[p][c].run, outcome)
  /\ lost' = lost \cup {tasks[p][c].run}
  /\ Ended(p, c)
  /\ UNCHANGED <<old, todo, inflight, handled, paid, twice, crashes, commands>>

\* The end of spawn_run: both sets change under one lock.
Leave(p, c) ==
  /\ Is(p, c, "end")
  /\ inflight' = [inflight EXCEPT ![p] = @ \ {c}]
  /\ handled' = [handled EXCEPT ![p] = @ \cup ({tasks[p][c].run} \ {None})]
  /\ tasks' = [tasks EXCEPT ![p] = Restrict(@, DOMAIN @ \ {c})]
  /\ UNCHANGED <<board, old, todo, ghosts, bounds>>

\* Runner::new in the next process: what is open now is left over.
Crash(p) ==
  /\ crashes < MaxCrashes /\ crashes' = crashes + 1
  /\ old' = [old EXCEPT ![p] = DOMAIN runs]
  /\ todo' = [todo EXCEPT ![p] = {}]
  /\ inflight' = [inflight EXCEPT ![p] = {}]
  /\ handled' = [handled EXCEPT ![p] = {}]
  /\ tasks' = [tasks EXCEPT ![p] = Restrict(@, {})]
  /\ paid' = [paid EXCEPT ![p] = {}]
  /\ twice' = [twice EXCEPT ![p] = {}]
  /\ UNCHANGED <<board, lost, failures, commands>>

-----------------------------------------------------------------------------
Init ==
  /\ cards = [c \in {} |-> None] /\ runs = [r \in {} |-> None]
  /\ used = None /\ corrupt = FALSE
  /\ old = [p \in Processes |-> {}]
  /\ todo = [p \in Processes |-> {}]
  /\ inflight = [p \in Processes |-> {}]
  /\ handled = [p \in Processes |-> {}]
  /\ tasks = [p \in Processes |-> [c \in {} |-> None]]
  /\ paid = [p \in Processes |-> {}]
  /\ twice = [p \in Processes |-> {}]
  /\ lost = {}
  /\ crashes = 0 /\ failures = 0 /\ commands = 0

People ==
  \/ \E c \in Cards, column \in Starts : Create(c, column)
  \/ \E c \in Cards, outcome \in {"success", "failure"} : Move(c, outcome)
  \/ \E c \in Cards : Retry(c)
  \/ SetPolicy

Item(p) ==
  \E i \in todo[p] :
    \/ i[1] = "orphan" /\ Recover(p, i[2])
    \/ i[1] = "adopt" /\ Look(p, i[2])
    \/ i[1] = "claim" /\ Adopt(p, i[2])
    \/ i[1] = "ready" /\ Launch(p, i[2])

ItemFails(p) == \E i \in todo[p] : i[1] = "orphan" /\ RecoverFails(p, i[2])

Execution(p, c) ==
  \/ Claim(p, c) \/ ClaimRefused(p, c) \/ TakeOver(p, c)
  \/ \E outcome \in Outcomes :
       Land(p, c, outcome) \/ LandRefused(p, c, outcome)
  \/ Leave(p, c)

ExecutionFails(p, c) == ClaimFails(p, c) \/ Drop(p, c)

Next ==
  \/ People
  \/ \E p \in Processes :
       \/ Scan(p) \/ Item(p) \/ ItemFails(p) \/ Crash(p)
       \/ \E c \in DOMAIN tasks[p] : Execution(p, c) \/ ExecutionFails(p, c) \/ Approve(p, c)

Spec == Init /\ [][Next]_vars

-----------------------------------------------------------------------------
(* Properties *)

\* What validate admits, reduce accepts: no event that is in the log keeps the
\* board from being loaded again (command::validate against projection::reduce).
LogReplays == ~corrupt

\* "Without double payment" (kanban/runner): a process executes a run once.
\* An open run that is found while its execution is under way is claimed when
\* that has ended, though handled was looked at before: after an outcome that
\* could not be written it is executed again.
NotPaidAgain == \A p \in Processes : twice[p] = {}

\* An open run is never forsaken: it is being executed, or the next scan of some
\* process takes it up, unless its outcome was lost.
NoneForsaken ==
  \A r \in Open \ lost : \E p \in Processes :
    \/ r \in old[p] \/ r \notin handled[p]
    \/ \E c \in DOMAIN tasks[p] : tasks[p][c].run = r /\ tasks[p][c].pc \in {"adopt", "work"}

\* "Only an explicit retry executes again": a run is executed once.
ExecutedOnce ==
  \A p, q \in Processes : twice[p] = {} /\ (p # q => paid[p] \cap paid[q] = {})
=============================================================================
