------------------------------- MODULE BotRun --------------------------------
(***************************************************************************)
(* The execution of one BotRun: bot/executor with its tool journal, the    *)
(* part of the agent loop that calls tools (agent/agent_loop), the tick    *)
(* that executes what is recoverable (background_jobs) and the owner's     *)
(* RPCs (ws/ops_bot).  The record it writes to is RunRecord.               *)
(*                                                                         *)
(* A write is get, decide and append under the expected version: it is one *)
(* step here, and one that loses the race to another writer is one that    *)
(* fails.  Provider call ids are distinct, and the content of a turn never *)
(* equals the one recorded under the same number.                          *)
(***************************************************************************)
EXTENDS RunRecord, FiniteSets

CONSTANTS
  Policies,     \* the approval policies of the Bot revision
  Controlled,   \* the tools that require approval
  ReadOnly,     \* the tools that one batch runs in parallel
  Asking,       \* the tools that make the run wait for the owner
  Graceful,     \* the tools that get a grace period when they are cancelled
  Calls,        \* the calls of a batch
  MaxTurns,     \* the budget of turns of one execution
  MaxFailures,  \* bound: writes that fail
  MaxCrashes    \* bound: restarts of the process

ASSUME BotRunAssumption ==
  /\ Ops \subseteq Nat /\ Turns = 1..MaxTurns
  /\ MaxTurns \in Nat \ {0} /\ MaxFailures \in Nat /\ MaxCrashes \in Nat
  /\ Controlled \cup ReadOnly \cup Asking \cup Graceful \subseteq Tools
  /\ Policies \subseteq {"always", "manual", "deny"}
  /\ IsFiniteSet(Calls)

VARIABLES
  policy,     \* spec.permission.approval
  pc,         \* where execute is
  active,     \* the entry of the run in BotExecutor.active: the token of the
              \* execution ("own"), another one ("other") or none
  cancelled,  \* the token of the execution is cancelled
  seen,       \* a tick has seen the run as recoverable
  turn,       \* turns of run_turn
  outcome,    \* AgentOutcome
  call,       \* the calls of the current batch
  mine,       \* RunToolJournal.calls: the operations of this execution
  fatal,      \* journal_failure
  mourn,      \* where persist_execution_error is
  performed,  \* how often the effect of each operation happened
  failures, crashes

flow == <<pc, active, cancelled, seen, turn, outcome>>
batch == <<call, mine, fatal>>
rest == <<policy, mourn, performed, crashes>>
vars == <<record, flow, batch, rest, failures>>

NoCall == [at |-> "none", tool |-> None, op |-> None]
NoCalls == [c \in Calls |-> NoCall]

Started == {o \in Ops : phase[o] = "Started"}
Prepared == {o \in Ops : phase[o] = "Prepared"}
Known == {o \in Ops : phase[o] = "OutcomeKnown"}

\* One write of the runtime: it is done, or an error is reported: the record
\* does not admit it, or the append fails before or after it took effect.
Done(write) == write /\ UNCHANGED failures

Errs(may, write) ==
  \/ ~ may /\ UNCHANGED <<record, failures>>
  \/ /\ failures < MaxFailures
     /\ failures' = failures + 1
     /\ UNCHANGED record \/ write

Goto(l) == pc' = l /\ UNCHANGED <<active, cancelled, seen, turn, outcome>>

\* Mutant of Forget: the entry in BotExecutor.active stays.
ForgetButEntry ==
  /\ pc' = "idle"
  /\ UNCHANGED active
  /\ cancelled' = FALSE
  /\ turn' = 0
  /\ outcome' = "none"
  /\ call' = NoCalls
  /\ mine' = {}
  /\ fatal' = FALSE

\* What an execution keeps in memory, as it is before one.
Forget ==
  /\ pc' = "idle"
  /\ active' = "none"
  /\ cancelled' = FALSE
  /\ turn' = 0
  /\ outcome' = "none"
  /\ call' = NoCalls
  /\ mine' = {}
  /\ fatal' = FALSE

\* The end of execute: the entry is removed before the error is persisted.
\* Bound: one execution at a time is in its error path.
Leave == Forget /\ UNCHANGED <<seen, rest>>
LeaveInError == mourn = "no" /\ mourn' = "error" /\ Forget /\ UNCHANGED <<seen, policy, performed, crashes>>

-----------------------------------------------------------------------------
(* Beginning *)

\* bot_tick: the runs that are recoverable are executed, each in a task.
Look ==
  /\ status \in {"Queued", "Running"}
  /\ ~ seen
  /\ seen' = TRUE
  /\ UNCHANGED <<record, pc, active, cancelled, turn, outcome, batch, rest, failures>>

\* execute: the entry of an execution under way is replaced.
Insert ==
  /\ seen
  /\ seen' = FALSE
  /\ IF active = "none"
       THEN active' = "own" /\ pc' = "reserved"
       ELSE active' = "other" /\ UNCHANGED pc
  /\ UNCHANGED <<record, cancelled, turn, outcome, batch, rest, failures>>

\* execute_reserved, up to the first turn.
Reserve ==
  /\ pc = "reserved"
  /\ \/ wantCancel /\ Goto("cancel") /\ UNCHANGED <<record, failures>>
     \/ ~ wantCancel /\ Done(Start) /\ Goto("reserved")
     \/ /\ ~ wantCancel /\ status # "Queued"
        /\ status = "Running" => Started = {}
        /\ Goto("think")
        /\ UNCHANGED <<record, failures>>
  /\ UNCHANGED <<batch, rest>>

\* A step of execute_reserved fails, or block_unknown_recovery finds an
\* operation that was started.
ReserveFails ==
  /\ pc = "reserved"
  /\ ~ wantCancel
  /\ \/ status = "Queued" /\ Errs(TRUE, Start)
     \/ status = "Running" /\ \E o \in Started :
          Done(MarkUnknown(o)) \/ Errs(TRUE, MarkUnknown(o))
     \/ /\ status # "Queued" /\ (status = "Running" => Started = {})
        /\ UNCHANGED <<record, failures>>
  /\ LeaveInError

-----------------------------------------------------------------------------
(* Turns *)

FinishWith(o) ==
  /\ outcome' = o
  /\ pc' = "finish"
  /\ UNCHANGED <<active, cancelled, seen>>

\* run_turn until the model has answered.
Think ==
  /\ pc = "think"
  /\ turn' = turn + 1
  /\ \/ turn = MaxTurns /\ FinishWith("error")
     \/ turn < MaxTurns /\ cancelled /\ FinishWith("aborted")
     \/ turn < MaxTurns /\ ~ cancelled /\ (FinishWith("done") \/ FinishWith("error"))
     \/ turn < MaxTurns /\ ~ cancelled /\ pc' = "call" /\ UNCHANGED <<active, cancelled, seen, outcome>>
  /\ UNCHANGED <<record, batch, rest, failures>>

AllAt(l) == \A c \in Calls : call[c].at \in {"none", l}

\* A batch of execute_calls: one call, or several that only read.
Offer ==
  /\ pc = "call"
  /\ AllAt("none")
  /\ \E cs \in SUBSET Calls \ {{}}, t \in [Calls -> Tools] :
       /\ Cardinality(cs) > 1 => \A c \in cs : t[c] \in ReadOnly
       /\ call' = [c \in Calls |-> IF c \in cs THEN [at |-> "before", tool |-> t[c], op |-> None] ELSE NoCall]
  /\ UNCHANGED <<record, flow, mine, fatal, rest, failures>>

\* The journal is under a mutex: no other call is inside before or after.
Alone(c) == \A d \in Calls \ {c} : call[d].at \notin {"prepared", "known"}

Becomes(c, to, o) == call' = [call EXCEPT ![c] = [at |-> to, tool |-> call[c].tool, op |-> o]]
Step(c, to) == Becomes(c, to, call[c].op) /\ UNCHANGED mine

-----------------------------------------------------------------------------
(* RunToolJournal::before *)

\* select_ids: an unfinished operation of the same tool, or else a new one.
Reusable(t) ==
  {o \in Ops \ mine : intent[o] = t /\ phase[o] \in {"Prepared", "Started", "OutcomeKnown"}}

New == {o \in Ops \ mine : phase[o] = "None"}
IsNext(o) == o \in New /\ \A p \in New : o <= p

Enter(c, o, to) == mine' = mine \cup {o} /\ Becomes(c, to, o)

AtBefore(c) == pc = "call" /\ call[c].at = "before" /\ Alone(c)

\* An operation of an earlier execution is replayed, started with the owner's
\* approval, or still waits for it.
Resume(c) ==
  /\ AtBefore(c)
  /\ \E o \in Reusable(call[c].tool) :
       \/ Done(Settle(o)) /\ Enter(c, o, "done")
       \/ o \in approved /\ Done(MarkStarted(o)) /\ Enter(c, o, "run")
       \/ /\ phase[o] = "Prepared" /\ o \notin approved
          /\ Enter(c, o, "done")
          /\ UNCHANGED <<record, failures>>
  /\ UNCHANGED <<flow, fatal, rest>>

ResumeFails(c) ==
  /\ AtBefore(c)
  /\ \E o \in Reusable(call[c].tool) :
       /\ \/ phase[o] = "OutcomeKnown" /\ Errs(MaySettle(o), Settle(o))
          \/ phase[o] = "Prepared" /\ o \in approved /\ Errs(MayMarkStarted(o), MarkStarted(o))
          \/ phase[o] = "Started" /\ (Done(MarkUnknown(o)) \/ Errs(MayMarkUnknown(o), MarkUnknown(o)))
       /\ Enter(c, o, "done")
  /\ fatal' = TRUE
  /\ UNCHANGED <<flow, rest>>

Begin(c) ==
  /\ AtBefore(c)
  /\ Reusable(call[c].tool) = {}
  /\ \E o \in New : IsNext(o) /\ Done(Prepare(o, call[c].tool)) /\ Enter(c, o, "prepared")
  /\ UNCHANGED <<flow, fatal, rest>>

\* The tool-call budget is exhausted, or the operation cannot be prepared.
BeginFails(c) ==
  /\ AtBefore(c)
  /\ Reusable(call[c].tool) = {}
  /\ \/ New = {} /\ Step(c, "done") /\ UNCHANGED <<record, failures>>
     \/ \E o \in New : IsNext(o) /\ Errs(MayPrepare(o), Prepare(o, call[c].tool)) /\ Enter(c, o, "done")
  /\ fatal' = TRUE
  /\ UNCHANGED <<flow, rest>>

\* Mutant of NeedsApproval: what the tool does is not looked at.
NeedsApprovalIfAlways(t) == policy = "always"

\* needs_approval
NeedsApproval(t) == policy = "always" \/ t \in Controlled

\* Then the policy denies it, the owner is asked, or it starts.
Admit(c) ==
  /\ call[c].at = "prepared"
  /\ LET o == call[c].op
         t == call[c].tool
     IN  \/ NeedsApproval(t) /\ policy = "deny" /\ Done(Reject) /\ Step(c, "done")
         \/ NeedsApproval(t) /\ policy # "deny" /\ Done(RequestApproval(o)) /\ Step(c, "done")
         \/ ~ NeedsApproval(t) /\ Done(MarkStarted(o)) /\ Step(c, "run")
  /\ UNCHANGED <<flow, fatal, rest>>

AdmitFails(c) ==
  /\ call[c].at = "prepared"
  /\ LET o == call[c].op
         t == call[c].tool
     IN  \/ NeedsApproval(t) /\ policy = "deny" /\ Errs(MayReject, Reject)
         \/ NeedsApproval(t) /\ policy # "deny" /\ Errs(MayAsk(o), RequestApproval(o))
         \/ ~ NeedsApproval(t) /\ Errs(MayMarkStarted(o), MarkStarted(o))
  /\ Step(c, "done")
  /\ fatal' = TRUE
  /\ UNCHANGED <<flow, rest>>

-----------------------------------------------------------------------------
(* execute_one_inner, and RunToolJournal::after *)

\* The effect of the tool; that of some is to make the run wait.
Effect(c) ==
  /\ call[c].at = "run"
  /\ IF call[c].tool \in Asking THEN RequireInput \/ RequestApproval(None) ELSE UNCHANGED record
  /\ performed' = [performed EXCEPT ![call[c].op] = @ + 1]
  /\ Step(c, "ran")
  /\ UNCHANGED <<flow, fatal, policy, mourn, crashes, failures>>

\* The tool returns, with an error if its effect did not happen; without a
\* grace period a cancellation interrupts it, and that is its result.
Return(c) ==
  /\ call[c].at \in {"run", "ran"}
  /\ Step(c, "after")
  /\ UNCHANGED <<record, flow, fatal, rest, failures>>

\* The grace period is over and the tool has not returned.
Lose(c) ==
  /\ call[c].at \in {"run", "ran"}
  /\ cancelled /\ call[c].tool \in Graceful
  /\ Step(c, "lost")
  /\ UNCHANGED <<record, flow, fatal, rest, failures>>

\* after: outcome and settlement are two writes.
After(c) ==
  /\ LET o == call[c].op
     IN  \/ call[c].at = "after" /\ Alone(c) /\ Done(RecordOutcome(o)) /\ Step(c, "known")
         \/ call[c].at = "known" /\ Done(Settle(o)) /\ Step(c, "done")
         \/ /\ call[c].at = "known" /\ phase[o] = "Settled" /\ Step(c, "done")
            /\ UNCHANGED <<record, failures>>
         \/ call[c].at = "lost" /\ Alone(c) /\ Done(MarkUnknown(o)) /\ Step(c, "done")
  /\ UNCHANGED <<flow, fatal, rest>>

AfterFails(c) ==
  /\ LET o == call[c].op
     IN  \/ call[c].at = "after" /\ Alone(c) /\ Errs(MayRecordOutcome(o), RecordOutcome(o))
         \/ call[c].at = "known" /\ phase[o] # "Settled" /\ Errs(MaySettle(o), Settle(o))
         \/ call[c].at = "lost" /\ Alone(c) /\ Errs(MayMarkUnknown(o), MarkUnknown(o))
  /\ Step(c, "done")
  /\ fatal' = TRUE
  /\ UNCHANGED <<flow, rest>>

-----------------------------------------------------------------------------
(* The end of a turn and of the execution *)

BatchDone == pc = "call" /\ call # NoCalls /\ AllAt("done")

\* Another batch of the same answer follows, unless the call was aborted.
NextBatch ==
  /\ BatchDone
  /\ ~ cancelled /\ ~ fatal
  /\ call' = NoCalls
  /\ UNCHANGED <<record, flow, mine, fatal, rest, failures>>

\* The answer is carried out: run_finish::resolve.
Persist ==
  /\ BatchDone
  /\ Done(RecordTurn(turn))
  /\ CASE fatal -> FinishWith("error")
       [] ~ fatal /\ status \in Paused -> FinishWith("paused")
       [] ~ fatal /\ status \notin Paused /\ cancelled -> FinishWith("aborted")
       [] OTHER -> pc' = "think" /\ UNCHANGED <<active, cancelled, seen, outcome>>
  /\ call' = NoCalls
  /\ UNCHANGED <<turn, mine, fatal, rest>>

\* The turn cannot be recorded, because its number is taken for example.
PersistFails ==
  /\ BatchDone
  /\ Errs(MayRecordTurn(turn), RecordTurn(turn))
  /\ FinishWith("error")
  /\ call' = NoCalls
  /\ UNCHANGED <<turn, mine, fatal, rest>>

\* BotExecutor::finish reads the record and chooses the terminal command.
Finish ==
  /\ pc = "finish"
  /\ \/ status # "Running" /\ Leave
     \/ status = "Running" /\ wantCancel /\ Goto("cancel") /\ UNCHANGED <<batch, rest>>
     \/ status = "Running" /\ ~ wantCancel /\ Goto("terminal") /\ UNCHANGED <<batch, rest>>
  /\ UNCHANGED <<record, failures>>

WriteTerminal ==
  /\ pc = "terminal"
  /\ \/ outcome = "done" /\ Done(Complete)
     \/ outcome \in {"done", "error"} /\ Done(Fail)
     \/ outcome = "aborted" /\ Done(Cancel)
  /\ Leave

\* A Fail without a message is refused: a paused run has none.
WriteTerminalFails ==
  /\ pc = "terminal"
  /\ \/ outcome = "done" /\ Errs(MayComplete, Complete)
     \/ outcome \in {"done", "error"} /\ Errs(MayFail, Fail)
     \/ outcome = "aborted" /\ Errs(MayCancel, Cancel)
     \/ outcome = "paused" /\ UNCHANGED <<record, failures>>
  /\ LeaveInError

-----------------------------------------------------------------------------
(* finish_cancellation, by the execution or by persist_execution_error *)

Unblocked == status = "Running" => Started = {}

Tidies ==
  /\ Unblocked
  /\ \/ \E o \in Prepared : Done(CancelBeforeStart(o))
     \/ Prepared = {} /\ \E o \in Known : Done(Settle(o))

Cancels == Unblocked /\ Prepared \cup Known = {} /\ wantCancel /\ Done(Cancel)

CancelErrs ==
  \/ status = "Running" /\ \E o \in Started : Done(MarkUnknown(o)) \/ Errs(TRUE, MarkUnknown(o))
  \/ Unblocked /\ \E o \in Prepared : Errs(MayFinish, CancelBeforeStart(o))
  \/ Unblocked /\ Prepared = {} /\ \E o \in Known : Errs(MayFinish, Settle(o))
  \/ Unblocked /\ Prepared \cup Known = {} /\ wantCancel /\ Errs(MayCancel, Cancel)
  \/ Unblocked /\ Prepared \cup Known = {} /\ ~ wantCancel /\ UNCHANGED <<record, failures>>

FinishCancellation ==
  /\ pc = "cancel"
  /\ \/ Tidies /\ UNCHANGED <<flow, batch, rest>>
     \/ Cancels /\ Leave
     \/ CancelErrs /\ LeaveInError

Mourns(l) == mourn' = l /\ UNCHANGED <<flow, batch, policy, performed, crashes>>

\* persist_execution_error
Mourn ==
  /\ mourn = "error"
  /\ \/ status \in Terminal \cup Paused /\ Mourns("no") /\ UNCHANGED <<record, failures>>
     \/ /\ status \in {"Queued", "Running"} /\ wantCancel
        /\ Mourns("cancel") /\ UNCHANGED <<record, failures>>
     \/ /\ status = "Running" /\ ~ wantCancel
        /\ \E o \in Started : Done(MarkUnknown(o)) \/ Errs(TRUE, MarkUnknown(o))
        /\ Mourns("no")
     \/ /\ status = "Running" /\ ~ wantCancel /\ Started = {} /\ Known # {}
        /\ Mourns("no") /\ UNCHANGED <<record, failures>>
     \/ Done(Start) /\ Mourns("error")
     \/ status = "Queued" /\ Errs(TRUE, Start) /\ Mourns("no")
     \/ /\ status = "Running" /\ ~ wantCancel /\ Started \cup Known = {}
        /\ Done(Fail) \/ Errs(MayFail, Fail)
        /\ Mourns("no")

MournCancel ==
  /\ mourn = "cancel"
  /\ \/ Tidies /\ Mourns("cancel")
     \/ (Cancels \/ CancelErrs) /\ Mourns("no")

-----------------------------------------------------------------------------
(* The owner, the clock and the process *)

Resolve ==
  /\ Approve \/ Deny \/ BindInput
  /\ UNCHANGED <<flow, batch, rest, failures>>

\* cancel_run: the request is made durable, then BotExecutor::cancel cancels
\* the token it finds; if the write fails, that is all.
OwnerCancel ==
  /\ RequestCancel
  /\ \/ cancelled' = (cancelled \/ active = "own") /\ UNCHANGED failures
     \/ failures < MaxFailures /\ failures' = failures + 1 /\ UNCHANGED cancelled
  /\ UNCHANGED <<pc, active, seen, turn, outcome, batch, rest>>

\* The wall-clock budget of the execution is used up.
WallClock ==
  /\ pc \in {"think", "call"}
  /\ ~ cancelled
  /\ cancelled' = TRUE
  /\ UNCHANGED <<record, pc, active, seen, turn, outcome, batch, rest, failures>>

Crash ==
  /\ crashes < MaxCrashes
  /\ crashes' = crashes + 1
  /\ Forget
  /\ seen' = FALSE /\ mourn' = "no"
  /\ UNCHANGED <<record, policy, performed, failures>>

-----------------------------------------------------------------------------
Init ==
  /\ RecordInit
  /\ pc = "idle" /\ active = "none" /\ cancelled = FALSE /\ seen = FALSE
  /\ turn = 0 /\ outcome = "none"
  /\ call = NoCalls /\ mine = {} /\ fatal = FALSE
  /\ mourn = "no"
  /\ policy \in Policies
  /\ performed = [o \in Ops |-> 0]
  /\ failures = 0 /\ crashes = 0

CallStep(c) ==
  \/ Resume(c) \/ ResumeFails(c) \/ Begin(c) \/ BeginFails(c) \/ Admit(c) \/ AdmitFails(c)
  \/ Return(c) \/ Lose(c) \/ After(c) \/ AfterFails(c)

Execution ==
  \/ Reserve \/ ReserveFails \/ Think \/ Offer \/ NextBatch
  \/ Persist \/ PersistFails \/ Finish \/ WriteTerminal \/ WriteTerminalFails
  \/ FinishCancellation
  \/ \E c \in Calls : CallStep(c)

Next ==
  \/ Look \/ Insert \/ Execution \/ Mourn \/ MournCancel
  \/ \E c \in Calls : Effect(c)
  \/ Resolve \/ OwnerCancel \/ WallClock \/ Crash

Spec == Init /\ [][Next]_vars

\* The tick comes every second and executes what it saw; an execution, its
\* tools included, and its error path go on.  Nothing is asked of the owner
\* or of what the model answers.
Fairness == WF_vars(Look \/ Insert) /\ WF_vars(Execution) /\ WF_vars(Mourn \/ MournCancel)

FairSpec == Spec /\ Fairness

-----------------------------------------------------------------------------
(* Properties *)

CallLabels == {"none", "before", "prepared", "run", "ran", "after", "known", "lost", "done"}

CallState == [at : CallLabels, tool : Tools \cup {None}, op : Ops \cup {None}]
Batches == [Calls -> CallState]

\* Types of the memory of an execution and of its record.
BotTypeOK ==
  /\ TypeOK
  /\ policy \in Policies
  /\ pc \in {"idle", "reserved", "think", "call", "finish", "terminal", "cancel"}
  /\ active \in {"none", "own", "other"}
  /\ cancelled \in BOOLEAN /\ seen \in BOOLEAN /\ fatal \in BOOLEAN
  /\ turn \in 0..MaxTurns + 1
  /\ outcome \in {"none", "done", "error", "aborted", "paused"}
  /\ call \in Batches
  /\ mine \subseteq Ops
  /\ mourn \in {"no", "error", "cancel"}
  /\ performed \in [Ops -> Nat]
  /\ failures \in 0..MaxFailures /\ crashes \in 0..MaxCrashes

\* The effect of a tool happens once at most, and never unless the journal
\* says durably that it was started: not after the owner denied it, after a
\* cancellation dropped it, or after a restart.
EffectsAreJournalled ==
  \A o \in Ops : performed[o] > 0 =>
    performed[o] = 1 /\ phase[o] \in Uncertain \cup {"Settled"}

\* A tool with outside effects does not run again while the effect of an
\* operation that an earlier execution started is in doubt.
NoBlindRetry ==
  \A c \in Calls, o \in Ops \ mine :
    call[c].at = "run" /\ call[c].tool \notin ReadOnly \cup Asking /\ intent[o] = call[c].tool =>
      phase[o] \notin {"Started", "OutcomeUnknown"}

\* What needs the owner's approval only happens with that very approval.
OwnerDecides ==
  \A o \in Ops :
    performed[o] > 0 /\ (policy = "always" \/ intent[o] \in Controlled) =>
      o \in approved /\ policy # "deny"

\* A run that has ended, unless it is blocked, knows the outcome of every
\* outside effect it had, and has none after its end: whoever ended it, and
\* whether a tool was at work when the owner cancelled or the clock struck.
NoDoubtfulEnd ==
  status \in Terminal \ {"Blocked"} =>
    \A o \in Ops : performed[o] > 0 /\ intent[o] \notin ReadOnly \cup Asking =>
      phase[o] \in {"OutcomeKnown", "Settled"}

\* A run that is not waiting for the owner comes to an end, or waits for
\* him, if no write fails and the process lives on.
RunEnds ==
  status \in {"Queued", "Running"} ~>
    (status \in Terminal \cup Paused \/ failures > 0 \/ crashes > 0)

\* The owner's cancel interrupts the execution under way.
CancelInterrupts ==
  wantCancel /\ failures = 0 /\ pc \in {"think", "call"} => cancelled

\* An approved operation that was carried out does not make its run fail.
ApprovedGoesOn ==
  failures = 0 /\ status = "Failed" => \A o \in approved : performed[o] = 0

\* The next execution settles an operation whose outcome is known.
KnownIsSettled ==
  \A o \in Ops : phase[o] = "OutcomeKnown" ~> phase[o] # "OutcomeKnown"

\* A run whose cancellation was requested comes to an end.
CancelEnds == wantCancel ~> status \in Terminal

\* Nor does a run that was denied or cancelled while it waited have an
\* operation in doubt.
NoDoubtAtAnyEnd == status \in Terminal \ {"Blocked"} => Certain

=============================================================================
