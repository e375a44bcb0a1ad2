---------------------------- MODULE BotRunProofs -----------------------------
(***************************************************************************)
(* The execution of a BotRun, for every set of operations, tools and       *)
(* calls, every approval policy, and any number of failed writes and       *)
(* restarts: it writes to the record only what RunRecord admits, and the   *)
(* effects of tools are journalled, unique and approved.                   *)
(***************************************************************************)
EXTENDS BotRun, RunRecordProofs, FiniteSetTheorems

\* The phases of an operation that has crossed into its side effect.
Crossed == Uncertain \cup {"Settled"}

\* The labels of a call that holds an operation.
Holding == {"prepared", "run", "ran", "after", "known", "lost"}

\* Types of the memory of an execution.
FlowOK ==
  /\ policy \in Policies
  /\ pc \in {"idle", "reserved", "think", "call", "finish", "terminal", "cancel"}
  /\ active \in {"none", "own", "other"}
  /\ cancelled \in BOOLEAN /\ seen \in BOOLEAN
  /\ outcome \in {"none", "done", "error", "aborted", "paused"}
  /\ mourn \in {"no", "error", "cancel"}

CountersOK ==
  /\ turn \in 0..MaxTurns + 1
  /\ failures \in 0..MaxFailures /\ crashes \in 0..MaxCrashes

BatchOK ==
  /\ call \in Batches
  /\ mine \subseteq Ops
  /\ fatal \in BOOLEAN
  /\ performed \in [Ops -> Nat]

MemoryOK == FlowOK /\ CountersOK /\ BatchOK

\* An execution has an entry in active, and only a turn within the budget
\* gets as far as calling tools.
TurnOK ==
  /\ active = "none" => pc = "idle"
  /\ pc \in {"idle", "reserved", "think"} => turn \in 0..MaxTurns
  /\ pc = "call" => turn \in 1..MaxTurns

\* What a call knows of its operation.
CallOK(c) ==
  /\ call[c].op \in mine \cup {None}
  /\ call[c].at # "none" => call[c].tool \in Tools
  /\ call[c].at \in Holding => call[c].op \in Ops
  /\ call[c].at \in {"prepared", "run"} =>
       phase[call[c].op] # "None" /\ intent[call[c].op] = call[c].tool
  /\ call[c].at = "run" =>
       /\ performed[call[c].op] = 0
       /\ phase[call[c].op] \in Crossed
       /\ NeedsApproval(call[c].tool) => call[c].op \in approved /\ policy # "deny"

\* No two calls share an operation.
CallsOK ==
  /\ \A c \in Calls : CallOK(c)
  /\ \A c, d \in Calls : c # d /\ call[c].op # None => call[c].op # call[d].op

\* A policy that denies never asks, so nothing is ever approved.
DenyNeverAsks == policy = "deny" => asked = None /\ approved = {}

\* The inductive invariant.
BotInv ==
  /\ RecordInv
  /\ MemoryOK
  /\ TurnOK
  /\ CallsOK
  /\ DenyNeverAsks
  /\ EffectsAreJournalled
  /\ OwnerDecides

\* Types of the whole are those of the record and of the memory.
LEMMA TypesSplit == BotTypeOK <=> TypeOK /\ MemoryOK
  BY DEF BotTypeOK, MemoryOK, FlowOK, CountersOK, BatchOK

\* The memory a run begins with, and every execution.
LEMMA NoCallsOK ==
  ASSUME call = NoCalls
  PROVE  call \in Batches
         /\ CallsOK
  BY DEF NoCalls, NoCall, CallLabels, Batches, CallState, CallsOK, CallOK, Holding

\* The same, after a step that forgets the batch.
LEMMA BatchForgotten ==
  ASSUME call' = NoCalls
  PROVE  call' \in Batches
         /\ CallsOK'
  BY DEF NoCalls, NoCall, CallLabels, Batches, CallState, CallsOK, CallOK, Holding

\* Nothing has happened when a run is created.
LEMMA BotInitInv == Init => BotInv
<1> SUFFICES ASSUME Init PROVE BotInv
  OBVIOUS
<1>1. RecordInv
  BY RecordInitInv DEF Init
<1>2. MemoryOK /\ TurnOK /\ CallsOK
  <2>1. call = NoCalls
    BY DEF Init
  <2>2. /\ call \in Batches
        /\ CallsOK
    BY <2>1, NoCallsOK
  <2>3. FlowOK
    BY DEF Init, FlowOK
  <2>4. CountersOK
    BY BotRunAssumption DEF Init, CountersOK
  <2>5. BatchOK
    BY <2>2 DEF Init, BatchOK
  <2>6. TurnOK
    BY BotRunAssumption DEF Init, TurnOK
  <2> QED
    BY <2>2, <2>3, <2>4, <2>5, <2>6 DEF MemoryOK
<1>3. DenyNeverAsks /\ EffectsAreJournalled /\ OwnerDecides
  BY DEF Init, RecordInit, DenyNeverAsks, EffectsAreJournalled, OwnerDecides
<1> QED
  BY <1>1, <1>2, <1>3 DEF BotInv

-----------------------------------------------------------------------------
(* What a step writes *)

\* A step writes at most one command; one of a policy that denies does not
\* ask for the approval of an operation.
Writes == [RecordNext]_record /\ (policy = "deny" => asked' \in {asked, None})

\* The commands as writes.
LEMMA CommandsWrite ==
  /\ UNCHANGED record => Writes
  /\ Start \/ RequireInput \/ Approve \/ Deny \/ BindInput => Writes
  /\ Complete \/ Fail \/ Reject \/ Cancel \/ Block \/ RequestCancel => Writes
  /\ RequestApproval(None) => Writes
<1>1. UNCHANGED record => Writes
  BY DEF Writes, record
<1>2. Start \/ RequireInput \/ Approve \/ Deny \/ BindInput => Writes
  BY DEF Writes, RecordNext, Start, RequireInput, Approve, Deny, BindInput, Ends
<1>3. Complete \/ Fail \/ Reject \/ Cancel \/ Block \/ RequestCancel => Writes
  BY DEF Writes, RecordNext, Complete, Fail, Reject, Cancel, Block, RequestCancel, Ends
<1>4. RequestApproval(None) => Writes
  BY DEF Writes, RecordNext, RequestApproval
<1> QED
  BY <1>1, <1>2, <1>3, <1>4

\* The commands about one operation as writes.
LEMMA OperationsWrite ==
  ASSUME NEW o \in Ops
  PROVE  /\ \A t \in Tools : Prepare(o, t) => Writes
         /\ MarkStarted(o) \/ RecordOutcome(o) \/ Settle(o) \/ CancelBeforeStart(o) => Writes
         /\ MarkUnknown(o) => Writes
         /\ policy # "deny" /\ RequestApproval(o) => Writes
<1>1. \A t \in Tools : Prepare(o, t) => Writes
  BY DEF Writes, RecordNext, Prepare
<1>2. MarkStarted(o) \/ RecordOutcome(o) \/ Settle(o) \/ CancelBeforeStart(o) => Writes
  BY DEF Writes, RecordNext, MarkStarted, RecordOutcome, Settle, CancelBeforeStart, Moves
<1>3. MarkUnknown(o) => Writes
  BY DEF Writes, RecordNext, MarkUnknown, Ends
<1>4. policy # "deny" /\ RequestApproval(o) => Writes
  BY DEF Writes, RecordNext
<1> QED
  BY <1>1, <1>2, <1>3, <1>4

\* A turn within the budget is recorded.
LEMMA TurnsWrite ==
  ASSUME NEW n \in 1..MaxTurns, RecordTurn(n)
  PROVE  Writes
  BY BotRunAssumption DEF Writes, RecordNext, RecordTurn

\* What no write undoes: an operation stays, with its intent, on the far
\* side of its side effect, and stays approved.
LEMMA WritesKeep ==
  ASSUME TypeOK, Writes
  PROVE  /\ \A o \in Ops : phase[o] \in Crossed => phase'[o] \in Crossed
         /\ \A o \in Ops : phase[o] # "None" => phase'[o] # "None" /\ intent'[o] = intent[o]
         /\ approved \subseteq approved'
         /\ approved' \subseteq approved \cup ({asked} \ {None})
<1> USE DEF TypeOK, Crossed, Uncertain
<1>1. CASE UNCHANGED record
  BY <1>1 DEF record
<1>2. CASE Start \/ RequireInput \/ Approve \/ BindInput
  BY <1>2 DEF Start, RequireInput, Approve, BindInput
<1>3. CASE Deny \/ Complete \/ Fail \/ Reject \/ Cancel \/ Block \/ RequestCancel
  BY <1>3 DEF Deny, Complete, Fail, Reject, Cancel, Block, RequestCancel, Ends, Dropped
<1>4. ASSUME NEW o \in Ops, NEW t \in Tools, Prepare(o, t)
      PROVE  /\ \A p \in Ops : phase[p] \in Crossed => phase'[p] \in Crossed
             /\ \A p \in Ops : phase[p] # "None" => phase'[p] # "None" /\ intent'[p] = intent[p]
             /\ approved' = approved
  BY <1>4 DEF Prepare, MayPrepare
<1>5. ASSUME NEW o \in Ops, MarkStarted(o) \/ RecordOutcome(o) \/ Settle(o) \/ CancelBeforeStart(o)
      PROVE  /\ \A p \in Ops : phase[p] \in Crossed => phase'[p] \in Crossed
             /\ \A p \in Ops : phase[p] # "None" => phase'[p] # "None"
             /\ UNCHANGED <<intent, approved>>
  BY <1>5 DEF MarkStarted, RecordOutcome, Settle, CancelBeforeStart, Moves, MayCancelBeforeStart
<1>6. ASSUME NEW o \in Ops, MarkUnknown(o)
      PROVE  /\ \A p \in Ops : phase[p] \in Crossed => phase'[p] \in Crossed
             /\ \A p \in Ops : phase[p] # "None" => phase'[p] # "None"
             /\ UNCHANGED <<intent, approved>>
  BY <1>6 DEF MarkUnknown, Ends, Dropped
<1>7. ASSUME NEW o, RequestApproval(o) PROVE UNCHANGED <<phase, intent, approved>>
  BY <1>7 DEF RequestApproval
<1>8. ASSUME NEW n, RecordTurn(n) PROVE UNCHANGED <<phase, intent, approved>>
  BY <1>8 DEF RecordTurn
<1> QED
  BY <1>1, <1>2, <1>3, <1>4, <1>5, <1>6, <1>7, <1>8 DEF Writes, RecordNext

-----------------------------------------------------------------------------
(* How a step preserves the invariant *)

\* A step without an effect: what remains to show is about memory.
LEMMA MemoryStep ==
  ASSUME BotInv, Writes, UNCHANGED <<policy, performed>>, MemoryOK', TurnOK', CallsOK'
  PROVE  BotInv' /\ Writes
<1>1. RecordInv'
  BY RecordNextInv DEF BotInv, Writes
<1>2. TypeOK
  BY DEF BotInv, RecordInv
<1>3. DenyNeverAsks'
  BY <1>2, WritesKeep DEF BotInv, DenyNeverAsks, Writes
<1>4. EffectsAreJournalled'
  BY <1>2, WritesKeep DEF BotInv, EffectsAreJournalled, Crossed
<1>5. OwnerDecides'
  <2>1. \A o \in Ops : performed[o] > 0 => phase[o] # "None"
    BY DEF BotInv, EffectsAreJournalled, Uncertain
  <2> QED
    BY <1>2, <2>1, WritesKeep DEF BotInv, OwnerDecides
<1> QED
  BY <1>1, <1>3, <1>4, <1>5 DEF BotInv

\* A call that does not take a step itself.
LEMMA OtherCall ==
  ASSUME BotInv, Writes, UNCHANGED <<policy, performed>>, mine \subseteq mine',
         NEW d \in Calls, call'[d] = call[d]
  PROVE  CallOK(d)'
<1>1. TypeOK /\ CallOK(d)
  BY DEF BotInv, RecordInv, CallsOK
<1> QED
  BY <1>1, WritesKeep DEF CallOK, NeedsApproval, Holding

\* Steps that leave the batch alone.
LEMMA BatchKept ==
  ASSUME BotInv, Writes, UNCHANGED <<policy, performed, call, mine>>
  PROVE  CallsOK'
  BY OtherCall DEF BotInv, CallsOK

\* Steps of one call, with an operation of its own or without one.
LEMMA OneCall ==
  ASSUME BotInv, Writes, UNCHANGED <<policy, performed>>,
         mine \subseteq mine', mine' \subseteq Ops,
         NEW c \in Calls,
         NEW x \in CallState,
         call' = [call EXCEPT ![c] = x],
         x.op \in {call[c].op, None} \/ x.op \notin mine,
         CallOK(c)'
  PROVE  CallsOK' /\ call' \in Batches
<1>1. call \in Batches
  BY DEF BotInv, MemoryOK, FlowOK, CountersOK, BatchOK
<1>2. \A d \in Calls \ {c} : CallOK(d)'
  BY <1>1, OtherCall DEF Batches
<1>3. \A d \in Calls : call[d].op \in mine \cup {None}
  BY DEF BotInv, CallsOK, CallOK
<1>4. ASSUME NEW d \in Calls, NEW e \in Calls, d # e, call'[d].op # None
      PROVE  call'[d].op # call'[e].op
  BY <1>1, <1>3, <1>4 DEF BotInv, CallsOK, Batches
<1> QED
  BY <1>1, <1>2, <1>4 DEF CallsOK, Batches

\* Steps of one call that keeps its operation and gets a new label.
LEMMA Relabel ==
  ASSUME BotInv, Writes, UNCHANGED <<policy, performed>>,
         NEW c \in Calls, NEW to \in CallLabels, Step(c, to),
         call[c].at # "none", to \in Holding => call[c].op \in Ops,
         to = "run" => phase'[call[c].op] \in Crossed,
         to = "run" => performed[call[c].op] = 0 /\ intent[call[c].op] = call[c].tool,
         to = "run" => phase[call[c].op] # "None",
         to = "run" /\ NeedsApproval(call[c].tool) => call[c].op \in approved /\ policy # "deny",
         to # "prepared"
  PROVE  CallsOK' /\ call' \in Batches
<1> DEFINE x == [at |-> to, tool |-> call[c].tool, op |-> call[c].op]
<1>1. call \in Batches
  BY DEF BotInv, MemoryOK, FlowOK, CountersOK, BatchOK
<1>2. x \in CallState
  BY <1>1 DEF Batches, CallState
<1>3. call' = [call EXCEPT ![c] = x] /\ mine' = mine
  BY DEF Step, Becomes
<1>4. call'[c] = x
  BY <1>1, <1>3 DEF Batches
<1>5. CallOK(c) /\ mine \subseteq Ops
  BY DEF BotInv, CallsOK, MemoryOK, BatchOK
<1>6. CallOK(c)'
  <2>1. TypeOK
    BY DEF BotInv, RecordInv
  <2> QED
    BY <1>3, <1>4, <1>5, <2>1, WritesKeep DEF CallOK, NeedsApproval, Holding
<1> HIDE DEF x
<1> QED
  BY <1>2, <1>3, <1>5, <1>6, OneCall, <1>4 DEF x

\* Steps of one call that enters an operation of its own.
LEMMA EntersOK ==
  ASSUME BotInv, Writes, UNCHANGED <<policy, performed>>,
         NEW c \in Calls, NEW o \in Ops \ mine, NEW to \in {"prepared", "run", "done"}, Enter(c, o, to),
         call[c].at # "none",
         to # "done" => phase'[o] # "None" /\ intent'[o] = call[c].tool,
         to = "run" => /\ performed[o] = 0 /\ phase'[o] \in Crossed
                       /\ o \in approved' /\ policy # "deny"
  PROVE  /\ CallsOK'
         /\ call' \in Batches
         /\ mine' \subseteq Ops
<1> DEFINE x == [at |-> to, tool |-> call[c].tool, op |-> o]
<1>1. call \in Batches
  BY DEF BotInv, MemoryOK, FlowOK, CountersOK, BatchOK
<1>2. x \in CallState /\ x.op \notin mine
  BY <1>1 DEF Batches, CallState, CallLabels
<1>3. call' = [call EXCEPT ![c] = x] /\ mine' = mine \cup {o}
  BY DEF Enter, Becomes
<1>4. call'[c] = x
  BY <1>1, <1>3 DEF Batches
<1>5. call[c].tool \in Tools /\ mine \subseteq Ops
  BY DEF BotInv, CallsOK, CallOK, MemoryOK, BatchOK
<1>6. CallOK(c)'
  BY <1>3, <1>4, <1>5 DEF CallOK, NeedsApproval
<1>7. mine \subseteq mine' /\ mine' \subseteq Ops
  BY <1>3, <1>5
<1> HIDE DEF x
<1> QED
  BY <1>2, <1>3, <1>6, <1>7, OneCall

-----------------------------------------------------------------------------
(* One lemma per action *)

\* bot_tick and the insertion into active touch no record.
LEMMA LookInv == BotInv /\ Look => BotInv' /\ Writes
<1> SUFFICES ASSUME BotInv, Look PROVE BotInv' /\ Writes
  OBVIOUS
<1>1. Writes /\ UNCHANGED <<policy, performed, call, mine>>
  BY CommandsWrite DEF Look, batch, rest
<1>2. MemoryOK' /\ TurnOK'
  BY DEF Look, batch, rest, BotInv, MemoryOK, FlowOK, CountersOK, BatchOK, TurnOK
<1> QED
  BY <1>1, <1>2, BatchKept, MemoryStep

LEMMA InsertInv == BotInv /\ Insert => BotInv' /\ Writes
<1> SUFFICES ASSUME BotInv, Insert PROVE BotInv' /\ Writes
  OBVIOUS
<1>1. Writes /\ UNCHANGED <<policy, performed, call, mine>>
  BY CommandsWrite DEF Insert, batch, rest
<1>2. FlowOK' /\ TurnOK'
  <2>1. /\ active' \in {"own", "other"} /\ pc' \in {pc, "reserved"}
        /\ seen' \in BOOLEAN /\ UNCHANGED <<policy, cancelled, turn, outcome, mourn>>
        /\ active = "none" \/ pc' = pc
    BY DEF Insert, rest
  <2> QED
    BY <2>1 DEF BotInv, MemoryOK, FlowOK, TurnOK
<1>3. CountersOK' /\ BatchOK'
  BY DEF Insert, batch, rest, BotInv, MemoryOK, CountersOK, BatchOK
<1> QED
  BY <1>1, <1>2, <1>3, BatchKept, MemoryStep DEF MemoryOK

\* Leaving an execution.
LEMMA ForgetOK ==
  ASSUME BotInv, Forget, UNCHANGED <<policy, performed>>, seen' \in BOOLEAN,
         mourn' \in {"no", "error", "cancel"}, failures' \in 0..MaxFailures, crashes' \in 0..MaxCrashes
  PROVE  MemoryOK' /\ TurnOK' /\ CallsOK'
<1>1. CallsOK' /\ call' \in Batches
  BY BatchForgotten DEF Forget
<1>2. FlowOK'
  BY DEF Forget, BotInv, MemoryOK, FlowOK
<1>3. CountersOK' /\ TurnOK'
  BY BotRunAssumption DEF Forget, CountersOK, TurnOK
<1>4. BatchOK'
  BY <1>1 DEF Forget, BotInv, MemoryOK, BatchOK
<1> QED
  BY <1>1, <1>2, <1>3, <1>4 DEF MemoryOK

LEMMA LeaveInv ==
  ASSUME BotInv, Writes, Leave \/ LeaveInError, failures' \in 0..MaxFailures
  PROVE  BotInv' /\ Writes
<1>1. Forget /\ UNCHANGED <<policy, performed, seen, crashes>> /\ mourn' \in {"no", "error", "cancel"}
  BY DEF Leave, LeaveInError, rest, BotInv, MemoryOK, FlowOK
<1>2. seen' \in BOOLEAN /\ crashes' \in 0..MaxCrashes
  BY <1>1 DEF BotInv, MemoryOK, FlowOK, CountersOK, BatchOK
<1> QED
  BY <1>1, <1>2, ForgetOK, MemoryStep

\* Failed writes are counted up to the bound.
LEMMA FailuresCount ==
  ASSUME BotInv, UNCHANGED failures \/ (failures < MaxFailures /\ failures' = failures + 1)
  PROVE  failures' \in 0..MaxFailures
  BY BotRunAssumption DEF BotInv, MemoryOK, CountersOK

\* Reserving a run starts it, once.
LEMMA ReserveInv == BotInv /\ Reserve => BotInv' /\ Writes
<1> SUFFICES ASSUME BotInv, Reserve PROVE BotInv' /\ Writes
  OBVIOUS
<1>1. Writes /\ UNCHANGED <<failures, batch, rest>>
  BY CommandsWrite DEF Reserve, Done
<1>2. /\ pc = "reserved" /\ pc' \in {"reserved", "think", "cancel"}
      /\ UNCHANGED <<active, cancelled, seen, turn, outcome>>
  BY DEF Reserve, Goto
<1>3. FlowOK' /\ TurnOK'
  BY <1>1, <1>2 DEF rest, BotInv, MemoryOK, FlowOK, TurnOK
<1>4. CountersOK' /\ BatchOK'
  BY <1>1, <1>2 DEF batch, rest, BotInv, MemoryOK, CountersOK, BatchOK
<1>5. CallsOK'
  BY <1>1, BatchKept DEF batch, rest
<1> QED
  BY <1>1, <1>3, <1>4, <1>5, MemoryStep DEF MemoryOK, rest

LEMMA ReserveFailsInv == BotInv /\ ReserveFails => BotInv' /\ Writes
<1> SUFFICES ASSUME BotInv, ReserveFails PROVE BotInv' /\ Writes
  OBVIOUS
<1>1. CASE Errs(TRUE, Start)
  <2>1. Writes
    BY <1>1, CommandsWrite DEF Errs
  <2>2. failures' \in 0..MaxFailures
    BY <1>1, FailuresCount DEF Errs
  <2> QED
    BY <2>1, <2>2, LeaveInv DEF ReserveFails
<1>2. ASSUME NEW o \in Ops, Done(MarkUnknown(o)) \/ Errs(TRUE, MarkUnknown(o)) PROVE BotInv' /\ Writes
  <2>1. Writes
    BY <1>2, CommandsWrite, OperationsWrite DEF Errs, Done
  <2>2. failures' \in 0..MaxFailures
    BY <1>2, FailuresCount DEF Errs, Done
  <2> QED
    BY <2>1, <2>2, LeaveInv DEF ReserveFails
<1>3. CASE UNCHANGED <<record, failures>>
  BY <1>3, FailuresCount, CommandsWrite, LeaveInv DEF ReserveFails
<1> QED
  BY <1>1, <1>2, <1>3 DEF ReserveFails, Started

\* A turn of the model.
LEMMA ThinkInv == BotInv /\ Think => BotInv' /\ Writes
<1> SUFFICES ASSUME BotInv, Think PROVE BotInv' /\ Writes
  OBVIOUS
<1>1. Writes /\ UNCHANGED <<batch, rest, failures>>
  BY CommandsWrite DEF Think
<1>2. /\ pc = "think" /\ turn' = turn + 1
      /\ UNCHANGED <<active, cancelled, seen>>
      /\ \/ pc' = "finish" /\ outcome' \in {"done", "error", "aborted"}
         \/ pc' = "call" /\ turn < MaxTurns /\ UNCHANGED outcome
  BY DEF Think, FinishWith
<1>3. FlowOK'
  BY <1>1, <1>2 DEF rest, BotInv, MemoryOK, FlowOK
<1>4. turn \in 0..MaxTurns
  BY <1>2 DEF BotInv, TurnOK
<1>5. TurnOK'
  BY <1>2, <1>4, BotRunAssumption DEF BotInv, TurnOK
<1>6. CountersOK'
  BY <1>1, <1>2, <1>4, BotRunAssumption DEF rest, BotInv, MemoryOK, CountersOK
<1>7. BatchOK'
  BY <1>1 DEF batch, rest, BotInv, MemoryOK, BatchOK
<1>8. CallsOK'
  BY <1>1, BatchKept DEF batch, rest
<1> QED
  BY <1>1, <1>3, <1>5, <1>6, <1>7, <1>8, MemoryStep DEF MemoryOK, rest

\* A batch of calls that hold no operation yet.
LEMMA OfferInv == BotInv /\ Offer => BotInv' /\ Writes
<1> SUFFICES ASSUME BotInv, Offer PROVE BotInv' /\ Writes
  OBVIOUS
<1>1. Writes /\ UNCHANGED <<flow, mine, fatal, rest, failures>>
  BY CommandsWrite DEF Offer
<1>2. PICK cs \in SUBSET Calls, t \in [Calls -> Tools] :
        call' = [c \in Calls |-> IF c \in cs THEN [at |-> "before", tool |-> t[c], op |-> None] ELSE NoCall]
  BY DEF Offer
<1>3. call' \in Batches /\ CallsOK'
  BY <1>2 DEF NoCall, CallLabels, Batches, CallState, CallsOK, CallOK, Holding
<1>4. FlowOK' /\ TurnOK'
  BY <1>1 DEF flow, rest, BotInv, MemoryOK, FlowOK, TurnOK
<1>5. CountersOK' /\ BatchOK'
  BY <1>1, <1>3 DEF flow, rest, BotInv, MemoryOK, CountersOK, BatchOK
<1> QED
  BY <1>1, <1>3, <1>4, <1>5, MemoryStep DEF MemoryOK, rest

-----------------------------------------------------------------------------
(* The steps of a call *)

\* What is left to show of a step of a call.
LEMMA CallStepInv ==
  ASSUME BotInv, Writes, UNCHANGED <<flow, rest>>, failures' \in 0..MaxFailures,
         fatal' \in BOOLEAN, CallsOK', call' \in Batches, mine' \subseteq Ops
  PROVE  BotInv' /\ Writes
<1>1. FlowOK' /\ TurnOK'
  BY DEF flow, rest, BotInv, MemoryOK, FlowOK, TurnOK
<1>2. CountersOK' /\ BatchOK'
  BY DEF flow, rest, BotInv, MemoryOK, CountersOK, BatchOK
<1> QED
  BY <1>1, <1>2, MemoryStep DEF MemoryOK, rest

\* A call that has entered journal or tool is one of the batch.
LEMMA HoldingFacts ==
  ASSUME BotInv, NEW c \in Calls, call[c].at \in Holding
  PROVE  call[c].op \in Ops /\ call[c].tool \in Tools /\ call[c].at # "none" /\ call[c].op \in mine
  BY NoneIsNothing DEF BotInv, CallsOK, CallOK, Holding

\* What is started with an approval or without a need for one.
LEMMA StartsOK ==
  ASSUME BotInv, NEW o \in Ops, MarkStarted(o)
  PROVE  performed[o] = 0 /\ phase[o] # "None" /\ phase'[o] \in Crossed
<1>1. TypeOK /\ performed \in [Ops -> Nat]
  BY DEF BotInv, RecordInv, MemoryOK, BatchOK
<1>2. phase[o] = "Prepared" /\ phase'[o] = "Started"
  BY <1>1 DEF MarkStarted, MayMarkStarted, Moves, TypeOK
<1>3. ~ performed[o] > 0
  BY <1>2 DEF BotInv, EffectsAreJournalled, Uncertain
<1> QED
  BY <1>1, <1>2, <1>3 DEF Crossed, Uncertain

\* before, for an operation of an earlier execution.
LEMMA ResumeInv == BotInv /\ (\E c \in Calls : Resume(c)) => BotInv' /\ Writes
<1> SUFFICES ASSUME BotInv, NEW c \in Calls, Resume(c) PROVE BotInv' /\ Writes
  OBVIOUS
<1>1. PICK o \in Reusable(call[c].tool) :
        \/ Done(Settle(o)) /\ Enter(c, o, "done")
        \/ o \in approved /\ Done(MarkStarted(o)) /\ Enter(c, o, "run")
        \/ Enter(c, o, "done") /\ UNCHANGED <<record, failures>>
  BY DEF Resume
<1>2. o \in Ops \ mine /\ intent[o] = call[c].tool /\ phase[o] # "None"
  BY <1>1 DEF Reusable
<1>3. Writes /\ UNCHANGED failures
  BY <1>1, <1>2, OperationsWrite, CommandsWrite DEF Done
<1>4. call[c].at # "none" /\ UNCHANGED <<flow, fatal, rest>>
  BY DEF Resume, AtBefore
<1>5. CallsOK' /\ call' \in Batches /\ mine' \subseteq Ops
  <2>1. UNCHANGED <<policy, performed>>
    BY <1>4 DEF rest
  <2>2. CASE Enter(c, o, "done")
    BY <1>2, <1>3, <1>4, <2>1, <2>2, EntersOK
  <2>3. CASE o \in approved /\ MarkStarted(o) /\ Enter(c, o, "run")
    <3>1. performed[o] = 0 /\ phase'[o] \in Crossed
      BY <1>2, <2>3, StartsOK
    <3>2. phase'[o] # "None" /\ intent'[o] = call[c].tool /\ o \in approved'
      BY <1>2, <1>3, <2>3, WritesKeep DEF BotInv, RecordInv
    <3>3. policy # "deny"
      BY <2>3 DEF BotInv, DenyNeverAsks
    <3> QED
      BY <1>2, <1>3, <1>4, <2>1, <2>3, <3>1, <3>2, <3>3, EntersOK
  <2> QED
    BY <1>1, <2>2, <2>3 DEF Done
<1>6. failures' \in 0..MaxFailures /\ fatal' \in BOOLEAN
  BY <1>3, <1>4, FailuresCount DEF BotInv, MemoryOK, BatchOK
<1> QED
  BY <1>3, <1>4, <1>5, <1>6, CallStepInv

\* A step of a call that enters an operation and is over at once.
LEMMA EntersInError ==
  ASSUME BotInv, Writes, UNCHANGED <<flow, rest>>, fatal' = TRUE,
         UNCHANGED failures \/ (failures < MaxFailures /\ failures' = failures + 1),
         NEW c \in Calls, call[c].at # "none", NEW o \in Ops \ mine, Enter(c, o, "done")
  PROVE  BotInv' /\ Writes
<1>1. UNCHANGED <<policy, performed>>
  BY DEF rest
<1>2. CallsOK' /\ call' \in Batches /\ mine' \subseteq Ops
  BY <1>1, EntersOK
<1>3. failures' \in 0..MaxFailures /\ fatal' \in BOOLEAN
  BY FailuresCount
<1> QED
  BY <1>2, <1>3, CallStepInv

LEMMA ResumeFailsInv == BotInv /\ (\E c \in Calls : ResumeFails(c)) => BotInv' /\ Writes
<1> SUFFICES ASSUME BotInv, NEW c \in Calls, ResumeFails(c) PROVE BotInv' /\ Writes
  OBVIOUS
<1>1. PICK o \in Reusable(call[c].tool) :
        /\ \/ Errs(MaySettle(o), Settle(o))
           \/ Errs(MayMarkStarted(o), MarkStarted(o))
           \/ Done(MarkUnknown(o)) \/ Errs(MayMarkUnknown(o), MarkUnknown(o))
        /\ Enter(c, o, "done")
  BY DEF ResumeFails
<1>2. o \in Ops \ mine
  BY <1>1 DEF Reusable
<1>3. Writes
  BY <1>1, <1>2, OperationsWrite, CommandsWrite DEF Done, Errs
<1>4. UNCHANGED failures \/ (failures < MaxFailures /\ failures' = failures + 1)
  BY <1>1 DEF Done, Errs
<1>5. call[c].at # "none" /\ UNCHANGED <<flow, rest>> /\ fatal' = TRUE
  BY DEF ResumeFails, AtBefore
<1> QED
  BY <1>1, <1>2, <1>3, <1>4, <1>5, EntersInError

\* before, for a new operation.
LEMMA BeginInv == BotInv /\ (\E c \in Calls : Begin(c)) => BotInv' /\ Writes
<1> SUFFICES ASSUME BotInv, NEW c \in Calls, Begin(c) PROVE BotInv' /\ Writes
  OBVIOUS
<1>1. PICK o \in New : Done(Prepare(o, call[c].tool)) /\ Enter(c, o, "prepared")
  BY DEF Begin
<1>2. o \in Ops \ mine /\ phase[o] = "None"
  BY <1>1 DEF New
<1>3. call[c].at # "none" /\ UNCHANGED <<flow, fatal, rest>>
  BY DEF Begin, AtBefore
<1>4. call[c].tool \in Tools
  BY <1>3 DEF BotInv, CallsOK, CallOK
<1>5. Writes /\ UNCHANGED failures
  BY <1>1, <1>2, <1>4, OperationsWrite DEF Done
<1>6. phase'[o] # "None" /\ intent'[o] = call[c].tool
  BY <1>1, <1>2 DEF Done, Prepare, BotInv, RecordInv, TypeOK
<1>7. CallsOK' /\ call' \in Batches /\ mine' \subseteq Ops
  <2>1. UNCHANGED <<policy, performed>>
    BY <1>3 DEF rest
  <2> QED
    BY <1>1, <1>2, <1>3, <1>5, <1>6, <2>1, EntersOK
<1>8. failures' \in 0..MaxFailures /\ fatal' \in BOOLEAN
  BY <1>3, <1>5, FailuresCount DEF BotInv, MemoryOK, BatchOK
<1> QED
  BY <1>3, <1>5, <1>7, <1>8, CallStepInv

\* A step of a call that keeps its operation and gets a label that needs
\* nothing of it.
LEMMA RelabelInv ==
  ASSUME BotInv, Writes, UNCHANGED <<flow, rest>>, fatal' \in BOOLEAN,
         UNCHANGED failures \/ (failures < MaxFailures /\ failures' = failures + 1),
         NEW c \in Calls, NEW to \in {"ran", "after", "known", "lost", "done"}, Step(c, to),
         call[c].at \in Holding \/ (call[c].at # "none" /\ to = "done")
  PROVE  BotInv' /\ Writes
<1>1. UNCHANGED <<policy, performed>>
  BY DEF rest
<1>2. call[c].at # "none" /\ (to \in Holding => call[c].op \in Ops)
  BY HoldingFacts DEF Holding
<1>3. to \in CallLabels
  BY DEF CallLabels
<1>4. CallsOK' /\ call' \in Batches
  BY <1>1, <1>2, <1>3, Relabel
<1>5. mine' \subseteq Ops
  BY DEF Step, BotInv, MemoryOK, BatchOK
<1>6. failures' \in 0..MaxFailures
  BY FailuresCount
<1> QED
  BY <1>4, <1>5, <1>6, CallStepInv

LEMMA BeginFailsInv == BotInv /\ (\E c \in Calls : BeginFails(c)) => BotInv' /\ Writes
<1> SUFFICES ASSUME BotInv, NEW c \in Calls, BeginFails(c) PROVE BotInv' /\ Writes
  OBVIOUS
<1>1. call[c].at # "none" /\ UNCHANGED <<flow, rest>> /\ fatal' = TRUE
  BY DEF BeginFails, AtBefore
<1>2. CASE Step(c, "done") /\ UNCHANGED <<record, failures>>
  <2>1. Writes /\ UNCHANGED failures
    BY <1>2, CommandsWrite
  <2> QED
    BY <1>1, <1>2, <2>1, RelabelInv
<1>3. ASSUME NEW o \in New, Errs(MayPrepare(o), Prepare(o, call[c].tool)), Enter(c, o, "done")
      PROVE  BotInv' /\ Writes
  <2>1. o \in Ops \ mine /\ call[c].tool \in Tools
    BY <1>1 DEF New, BotInv, CallsOK, CallOK
  <2>2. Writes
    BY <1>3, <2>1, OperationsWrite, CommandsWrite DEF Errs
  <2>3. UNCHANGED failures \/ (failures < MaxFailures /\ failures' = failures + 1)
    BY <1>3 DEF Errs
  <2> QED
    BY <1>1, <1>3, <2>1, <2>2, <2>3, EntersInError
<1> QED
  BY <1>2, <1>3 DEF BeginFails

\* The policy denies, the owner is asked, or the operation starts.
LEMMA AdmitInv == BotInv /\ (\E c \in Calls : Admit(c)) => BotInv' /\ Writes
<1> SUFFICES ASSUME BotInv, NEW c \in Calls, Admit(c) PROVE BotInv' /\ Writes
  OBVIOUS
<1> DEFINE o == call[c].op
           t == call[c].tool
<1>1. call[c].at = "prepared" /\ UNCHANGED <<flow, fatal, rest>> /\ UNCHANGED failures
  BY DEF Admit, Done
<1>2. /\ o \in Ops /\ t \in Tools /\ call[c].at # "none" /\ call[c].at \in Holding
      /\ phase[o] # "None" /\ intent[o] = t
  BY <1>1, HoldingFacts DEF Holding, BotInv, CallsOK, CallOK
<1>3. fatal' \in BOOLEAN
  BY <1>1 DEF BotInv, MemoryOK, BatchOK
<1>4. CASE Reject /\ Step(c, "done")
  BY <1>1, <1>2, <1>3, <1>4, CommandsWrite, RelabelInv
<1>5. CASE policy # "deny" /\ RequestApproval(o) /\ Step(c, "done")
  <2>1. Writes
    BY <1>2, <1>5, OperationsWrite
  <2> QED
    BY <1>1, <1>2, <1>3, <1>5, <2>1, RelabelInv
<1>6. CASE ~ NeedsApproval(t) /\ MarkStarted(o) /\ Step(c, "run")
  <2>1. Writes
    BY <1>2, <1>6, OperationsWrite
  <2>2. performed[o] = 0 /\ phase'[o] \in Crossed
    BY <1>2, <1>6, StartsOK
  <2>3. UNCHANGED <<policy, performed>>
    BY <1>1 DEF rest
  <2>4. CallsOK' /\ call' \in Batches
    BY <1>2, <1>6, <2>1, <2>2, <2>3, Relabel DEF CallLabels
  <2>5. mine' \subseteq Ops /\ failures' \in 0..MaxFailures
    BY <1>1, <1>6, FailuresCount DEF Step, BotInv, MemoryOK, BatchOK
  <2> QED
    BY <1>1, <1>3, <2>1, <2>4, <2>5, CallStepInv
<1> QED
  BY <1>4, <1>5, <1>6 DEF Admit, Done

LEMMA AdmitFailsInv == BotInv /\ (\E c \in Calls : AdmitFails(c)) => BotInv' /\ Writes
<1> SUFFICES ASSUME BotInv, NEW c \in Calls, AdmitFails(c) PROVE BotInv' /\ Writes
  OBVIOUS
<1> DEFINE o == call[c].op
<1>1. /\ call[c].at = "prepared" /\ UNCHANGED <<flow, rest>> /\ fatal' = TRUE /\ Step(c, "done")
      /\ \/ Errs(MayReject, Reject)
         \/ policy # "deny" /\ Errs(MayAsk(o), RequestApproval(o))
         \/ Errs(MayMarkStarted(o), MarkStarted(o))
  BY DEF AdmitFails
<1>2. o \in Ops /\ call[c].at \in Holding
  BY <1>1, HoldingFacts DEF Holding
<1>3. Writes
  BY <1>1, <1>2, CommandsWrite, OperationsWrite DEF Errs
<1>4. UNCHANGED failures \/ (failures < MaxFailures /\ failures' = failures + 1)
  BY <1>1 DEF Errs
<1> HIDE DEF o
<1> QED
  BY <1>1, <1>2, <1>3, <1>4, RelabelInv

\* The one step that has an effect: its operation was started, never
\* performed, and approved if that was needed.
LEMMA EffectInv == BotInv /\ (\E c \in Calls : Effect(c)) => BotInv' /\ Writes
<1> SUFFICES ASSUME BotInv, NEW c \in Calls, Effect(c) PROVE BotInv' /\ Writes
  OBVIOUS
<1> DEFINE o == call[c].op
<1>1. /\ call[c].at = "run" /\ Step(c, "ran")
      /\ performed' = [performed EXCEPT ![o] = @ + 1]
      /\ UNCHANGED <<flow, fatal, policy, mourn, crashes, failures>>
      /\ UNCHANGED record \/ RequireInput \/ RequestApproval(None)
  BY DEF Effect
<1>2. /\ o \in Ops /\ call[c].tool \in Tools /\ call[c].at \in Holding
      /\ performed[o] = 0 /\ phase[o] \in Crossed /\ intent[o] = call[c].tool
      /\ NeedsApproval(call[c].tool) => o \in approved /\ policy # "deny"
  BY <1>1, HoldingFacts DEF Holding, BotInv, CallsOK, CallOK
<1>3. Writes
  BY <1>1, CommandsWrite
<1>4. UNCHANGED <<phase, intent, approved>>
  BY <1>1 DEF record, RequireInput, RequestApproval
<1>5. RecordInv'
  BY <1>3, RecordNextInv DEF BotInv, Writes
<1>6. performed \in [Ops -> Nat] /\ call \in Batches
  BY DEF BotInv, MemoryOK, BatchOK
<1>7. performed'[o] = 1 /\ performed' \in [Ops -> Nat] /\ \A p \in Ops \ {o} : performed'[p] = performed[p]
  BY <1>1, <1>2, <1>6
<1>8. CallsOK' /\ call' \in Batches /\ mine' = mine
  <2> DEFINE x == [at |-> "ran", tool |-> call[c].tool, op |-> o]
  <2>1. call' = [call EXCEPT ![c] = x] /\ mine' = mine
    BY <1>1 DEF Step, Becomes
  <2>2. x \in CallState
    BY <1>2 DEF CallState, CallLabels
  <2>3. call' \in Batches /\ call'[c] = x /\ \A d \in Calls \ {c} : call'[d] = call[d]
    BY <1>6, <2>1, <2>2 DEF Batches
  <2>4. CallOK(c)'
    BY <1>2, <2>1, <2>3, HoldingFacts DEF CallOK
  <2>5. \A d \in Calls \ {c} : CallOK(d) /\ call[d].op # o
    BY <1>2, NoneIsNothing DEF BotInv, CallsOK
  <2>6. ASSUME NEW d \in Calls \ {c} PROVE CallOK(d)'
    <3>1. call'[d] = call[d] /\ CallOK(d) /\ call[d].op # o /\ policy' = policy
      BY <1>1, <2>3, <2>5
    <3>2. call[d].at \in Holding => performed'[call[d].op] = performed[call[d].op]
      BY <1>7, <3>1 DEF CallOK
    <3> QED
      BY <1>4, <2>1, <3>1, <3>2 DEF CallOK, Holding, NeedsApproval
  <2>7. \A d, e \in Calls : d # e /\ call'[d].op # None => call'[d].op # call'[e].op
    BY <2>3 DEF BotInv, CallsOK
  <2> QED
    BY <2>1, <2>3, <2>4, <2>6, <2>7 DEF CallsOK
<1>9. FlowOK' /\ TurnOK'
  BY <1>1 DEF flow, BotInv, MemoryOK, FlowOK, TurnOK
<1>10. CountersOK' /\ BatchOK'
  BY <1>1, <1>7, <1>8 DEF flow, BotInv, MemoryOK, CountersOK, BatchOK
<1>11. DenyNeverAsks'
  BY <1>1, <1>3, <1>4 DEF BotInv, DenyNeverAsks, Writes
<1>12. EffectsAreJournalled'
  BY <1>2, <1>4, <1>7 DEF BotInv, EffectsAreJournalled, Crossed
<1>13. OwnerDecides'
  BY <1>1, <1>2, <1>4, <1>7 DEF BotInv, OwnerDecides, NeedsApproval
<1> QED
  BY <1>3, <1>5, <1>8, <1>9, <1>10, <1>11, <1>12, <1>13 DEF BotInv, MemoryOK

\* The tool comes back, or does not.
LEMMA ReturnInv == BotInv /\ (\E c \in Calls : Return(c) \/ Lose(c)) => BotInv' /\ Writes
<1> SUFFICES ASSUME BotInv, NEW c \in Calls, Return(c) \/ Lose(c) PROVE BotInv' /\ Writes
  OBVIOUS
<1>1. /\ call[c].at \in Holding /\ UNCHANGED <<record, flow, fatal, rest, failures>>
      /\ Step(c, "after") \/ Step(c, "lost")
  BY DEF Return, Lose, Holding
<1>2. Writes /\ fatal' \in BOOLEAN
  BY <1>1, CommandsWrite DEF BotInv, MemoryOK, BatchOK
<1> QED
  BY <1>1, <1>2, RelabelInv

\* after: the outcome and the settlement.
LEMMA AfterInv == BotInv /\ (\E c \in Calls : After(c)) => BotInv' /\ Writes
<1> SUFFICES ASSUME BotInv, NEW c \in Calls, After(c) PROVE BotInv' /\ Writes
  OBVIOUS
<1> DEFINE o == call[c].op
<1>1. /\ call[c].at \in Holding /\ UNCHANGED <<flow, fatal, rest, failures>>
      /\ Step(c, "known") \/ Step(c, "done")
      /\ RecordOutcome(o) \/ Settle(o) \/ UNCHANGED record \/ MarkUnknown(o)
  BY DEF After, Holding, Done
<1>2. o \in Ops
  BY <1>1, HoldingFacts
<1>3. Writes /\ fatal' \in BOOLEAN
  BY <1>1, <1>2, CommandsWrite, OperationsWrite DEF BotInv, MemoryOK, BatchOK
<1> HIDE DEF o
<1> QED
  BY <1>1, <1>3, RelabelInv

LEMMA AfterFailsInv == BotInv /\ (\E c \in Calls : AfterFails(c)) => BotInv' /\ Writes
<1> SUFFICES ASSUME BotInv, NEW c \in Calls, AfterFails(c) PROVE BotInv' /\ Writes
  OBVIOUS
<1> DEFINE o == call[c].op
<1>1. /\ call[c].at \in Holding /\ UNCHANGED <<flow, rest>> /\ fatal' = TRUE /\ Step(c, "done")
      /\ \/ Errs(MayRecordOutcome(o), RecordOutcome(o))
         \/ Errs(MaySettle(o), Settle(o))
         \/ Errs(MayMarkUnknown(o), MarkUnknown(o))
  BY DEF AfterFails, Holding
<1>2. o \in Ops
  BY <1>1, HoldingFacts
<1>3. Writes
  BY <1>1, <1>2, CommandsWrite, OperationsWrite DEF Errs
<1>4. UNCHANGED failures \/ (failures < MaxFailures /\ failures' = failures + 1)
  BY <1>1 DEF Errs
<1> HIDE DEF o
<1> QED
  BY <1>1, <1>3, <1>4, RelabelInv

-----------------------------------------------------------------------------
(* The end of a turn and of the execution *)

\* A step that forgets the batch and stays in the execution.
LEMMA BatchEnds ==
  ASSUME BotInv, Writes, UNCHANGED <<active, cancelled, seen, turn, mine, fatal, rest>>,
         call' = NoCalls, pc' \in {"call", "think", "finish"},
         outcome' \in {"none", "done", "error", "aborted", "paused"}, pc = "call",
         UNCHANGED failures \/ (failures < MaxFailures /\ failures' = failures + 1)
  PROVE  BotInv' /\ Writes
<1>1. CallsOK' /\ call' \in Batches
  BY BatchForgotten
<1>2. FlowOK'
  BY DEF rest, BotInv, MemoryOK, FlowOK
<1>3. TurnOK'
  BY BotRunAssumption DEF BotInv, TurnOK
<1>4. failures' \in 0..MaxFailures
  BY FailuresCount
<1>5. CountersOK' /\ BatchOK'
  BY <1>1, <1>4 DEF rest, BotInv, MemoryOK, CountersOK, BatchOK
<1> QED
  BY <1>1, <1>2, <1>3, <1>5, MemoryStep DEF MemoryOK, rest

LEMMA NextBatchInv == BotInv /\ NextBatch => BotInv' /\ Writes
<1> SUFFICES ASSUME BotInv, NextBatch PROVE BotInv' /\ Writes
  OBVIOUS
<1>1. /\ UNCHANGED <<active, cancelled, seen, turn, mine, fatal, rest>> /\ UNCHANGED failures
      /\ call' = NoCalls /\ pc = "call" /\ pc' = "call" /\ outcome' = outcome
  BY DEF NextBatch, BatchDone, flow
<1>2. Writes
  BY CommandsWrite DEF NextBatch
<1>3. outcome' \in {"none", "done", "error", "aborted", "paused"}
  BY <1>1 DEF BotInv, MemoryOK, FlowOK
<1> QED
  BY <1>1, <1>2, <1>3, BatchEnds

\* Only a turn within the budget is recorded.
LEMMA PersistInv == BotInv /\ Persist => BotInv' /\ Writes
<1> SUFFICES ASSUME BotInv, Persist PROVE BotInv' /\ Writes
  OBVIOUS
<1>1. /\ UNCHANGED <<active, cancelled, seen, turn, mine, fatal, rest>> /\ UNCHANGED failures
      /\ call' = NoCalls /\ pc = "call" /\ pc' \in {"think", "finish"}
      /\ outcome' \in {outcome, "error", "paused", "aborted"}
      /\ RecordTurn(turn)
  BY DEF Persist, BatchDone, FinishWith, Done
<1>2. turn \in 1..MaxTurns
  BY <1>1 DEF BotInv, TurnOK
<1>3. Writes
  BY <1>1, <1>2, TurnsWrite
<1>4. outcome' \in {"none", "done", "error", "aborted", "paused"}
  BY <1>1 DEF BotInv, MemoryOK, FlowOK
<1> QED
  BY <1>1, <1>3, <1>4, BatchEnds

LEMMA PersistFailsInv == BotInv /\ PersistFails => BotInv' /\ Writes
<1> SUFFICES ASSUME BotInv, PersistFails PROVE BotInv' /\ Writes
  OBVIOUS
<1>1. /\ UNCHANGED <<active, cancelled, seen, turn, mine, fatal, rest>>
      /\ call' = NoCalls /\ pc = "call" /\ pc' = "finish" /\ outcome' = "error"
      /\ Errs(MayRecordTurn(turn), RecordTurn(turn))
  BY DEF PersistFails, BatchDone, FinishWith
<1>2. turn \in 1..MaxTurns
  BY <1>1 DEF BotInv, TurnOK
<1>3. Writes
  BY <1>1, <1>2, TurnsWrite, CommandsWrite DEF Errs
<1>4. UNCHANGED failures \/ (failures < MaxFailures /\ failures' = failures + 1)
  BY <1>1 DEF Errs
<1> QED
  BY <1>1, <1>3, <1>4, BatchEnds

\* A step that only moves the execution on.
LEMMA GotoInv ==
  ASSUME BotInv, Writes, NEW l \in {"terminal", "cancel"}, Goto(l) \/ UNCHANGED flow,
         UNCHANGED <<batch, rest, failures>>, pc # "idle"
  PROVE  BotInv' /\ Writes
<1>1. FlowOK' /\ TurnOK'
  BY DEF Goto, flow, rest, BotInv, MemoryOK, FlowOK, TurnOK
<1>2. CountersOK' /\ BatchOK'
  BY DEF Goto, flow, batch, rest, BotInv, MemoryOK, CountersOK, BatchOK
<1>3. CallsOK'
  BY BatchKept DEF batch, rest
<1> QED
  BY <1>1, <1>2, <1>3, MemoryStep DEF MemoryOK, rest

LEMMA FinishInv == BotInv /\ Finish => BotInv' /\ Writes
<1> SUFFICES ASSUME BotInv, Finish PROVE BotInv' /\ Writes
  OBVIOUS
<1>1. Writes /\ UNCHANGED failures /\ pc = "finish"
  BY CommandsWrite DEF Finish
<1>2. CASE Leave
  BY <1>1, <1>2, FailuresCount, LeaveInv
<1>3. CASE (Goto("cancel") \/ Goto("terminal")) /\ UNCHANGED <<batch, rest>>
  BY <1>1, <1>3, GotoInv
<1> QED
  BY <1>2, <1>3 DEF Finish

LEMMA WriteTerminalInv == BotInv /\ (WriteTerminal \/ WriteTerminalFails) => BotInv' /\ Writes
<1> SUFFICES ASSUME BotInv, WriteTerminal \/ WriteTerminalFails PROVE BotInv' /\ Writes
  OBVIOUS
<1>1. Leave \/ LeaveInError
  BY DEF WriteTerminal, WriteTerminalFails
<1>2. Writes
  BY CommandsWrite DEF WriteTerminal, WriteTerminalFails, Done, Errs
<1>3. UNCHANGED failures \/ (failures < MaxFailures /\ failures' = failures + 1)
  BY DEF WriteTerminal, WriteTerminalFails, Done, Errs
<1> QED
  BY <1>1, <1>2, <1>3, FailuresCount, LeaveInv

-----------------------------------------------------------------------------
(* Cancellation and the error path *)

\* The writes of finish_cancellation_with_usage.
LEMMA CancellationWrites ==
  ASSUME BotInv, Tidies \/ Cancels \/ CancelErrs
  PROVE  Writes /\ (UNCHANGED failures \/ (failures < MaxFailures /\ failures' = failures + 1))
<1>1. CASE Tidies
  BY <1>1, OperationsWrite DEF Tidies, Done, Prepared, Known
<1>2. CASE Cancels
  BY <1>2, CommandsWrite DEF Cancels, Done
<1>3. CASE CancelErrs
  BY <1>3, CommandsWrite, OperationsWrite DEF CancelErrs, Done, Errs, Started, Prepared, Known
<1> QED
  BY <1>1, <1>2, <1>3

LEMMA FinishCancellationInv == BotInv /\ FinishCancellation => BotInv' /\ Writes
<1> SUFFICES ASSUME BotInv, FinishCancellation PROVE BotInv' /\ Writes
  OBVIOUS
<1>1. Writes /\ failures' \in 0..MaxFailures /\ pc = "cancel"
  BY CancellationWrites, FailuresCount DEF FinishCancellation
<1>2. CASE Leave \/ LeaveInError
  BY <1>1, <1>2, LeaveInv
<1>3. CASE Tidies /\ UNCHANGED <<flow, batch, rest>>
  <2>1. UNCHANGED failures
    BY <1>3 DEF Tidies, Done
  <2> QED
    BY <1>1, <1>3, <2>1, GotoInv
<1> QED
  BY <1>2, <1>3 DEF FinishCancellation

\* A step of the error path of an execution.
LEMMA MournsInv ==
  ASSUME BotInv, Writes, NEW l \in {"no", "error", "cancel"}, Mourns(l),
         UNCHANGED failures \/ (failures < MaxFailures /\ failures' = failures + 1)
  PROVE  BotInv' /\ Writes
<1>1. FlowOK' /\ TurnOK'
  BY DEF Mourns, flow, BotInv, MemoryOK, FlowOK, TurnOK
<1>2. failures' \in 0..MaxFailures
  BY FailuresCount
<1>3. CountersOK' /\ BatchOK'
  BY <1>2 DEF Mourns, flow, batch, BotInv, MemoryOK, CountersOK, BatchOK
<1>4. UNCHANGED <<policy, performed, call, mine>>
  BY DEF Mourns, batch
<1> QED
  BY <1>1, <1>3, <1>4, BatchKept, MemoryStep DEF MemoryOK

LEMMA MournInv == BotInv /\ Mourn => BotInv' /\ Writes
<1> SUFFICES ASSUME BotInv, Mourn PROVE BotInv' /\ Writes
  OBVIOUS
<1>1. Mourns("no") \/ Mourns("error") \/ Mourns("cancel")
  BY DEF Mourn
<1>2. Writes
  BY CommandsWrite, OperationsWrite DEF Mourn, Done, Errs, Started
<1>3. UNCHANGED failures \/ (failures < MaxFailures /\ failures' = failures + 1)
  BY DEF Mourn, Done, Errs
<1> QED
  BY <1>1, <1>2, <1>3, MournsInv

LEMMA MournCancelInv == BotInv /\ MournCancel => BotInv' /\ Writes
<1> SUFFICES ASSUME BotInv, MournCancel PROVE BotInv' /\ Writes
  OBVIOUS
<1>1. Mourns("no") \/ Mourns("cancel")
  BY DEF MournCancel
<1>2. Writes /\ (UNCHANGED failures \/ (failures < MaxFailures /\ failures' = failures + 1))
  BY CancellationWrites DEF MournCancel
<1> QED
  BY <1>1, <1>2, MournsInv

-----------------------------------------------------------------------------
(* The owner, the clock and the process *)

LEMMA ResolveInv == BotInv /\ Resolve => BotInv' /\ Writes
<1> SUFFICES ASSUME BotInv, Resolve PROVE BotInv' /\ Writes
  OBVIOUS
<1>1. Writes /\ UNCHANGED <<flow, batch, rest, failures>>
  BY CommandsWrite DEF Resolve
<1>2. FlowOK' /\ TurnOK'
  BY <1>1 DEF flow, rest, BotInv, MemoryOK, FlowOK, TurnOK
<1>3. CountersOK' /\ BatchOK'
  BY <1>1 DEF flow, batch, rest, BotInv, MemoryOK, CountersOK, BatchOK
<1>4. CallsOK'
  BY <1>1, BatchKept DEF batch, rest
<1> QED
  BY <1>1, <1>2, <1>3, <1>4, MemoryStep DEF MemoryOK, rest

\* A cancellation of the token, by the owner or by the clock.
LEMMA TokenInv == BotInv /\ (OwnerCancel \/ WallClock) => BotInv' /\ Writes
<1> SUFFICES ASSUME BotInv, OwnerCancel \/ WallClock PROVE BotInv' /\ Writes
  OBVIOUS
<1>1. Writes
  BY CommandsWrite DEF OwnerCancel, WallClock
<1>2. UNCHANGED <<pc, active, seen, turn, outcome, batch, rest>>
  BY DEF OwnerCancel, WallClock
<1>3. cancelled' \in BOOLEAN
  BY DEF OwnerCancel, WallClock, BotInv, MemoryOK, FlowOK
<1>4. failures' \in 0..MaxFailures
  BY FailuresCount DEF OwnerCancel, WallClock
<1>5. FlowOK' /\ TurnOK'
  BY <1>2, <1>3 DEF rest, BotInv, MemoryOK, FlowOK, TurnOK
<1>6. CountersOK' /\ BatchOK'
  BY <1>2, <1>4 DEF batch, rest, BotInv, MemoryOK, CountersOK, BatchOK
<1>7. CallsOK'
  BY <1>1, <1>2, BatchKept DEF batch, rest
<1> QED
  BY <1>1, <1>2, <1>5, <1>6, <1>7, MemoryStep DEF MemoryOK, rest

\* A restart forgets what is in memory; record and effects stay.
LEMMA CrashInv == BotInv /\ Crash => BotInv' /\ Writes
<1> SUFFICES ASSUME BotInv, Crash PROVE BotInv' /\ Writes
  OBVIOUS
<1>1. Writes /\ Forget /\ UNCHANGED <<policy, performed, failures>>
  BY CommandsWrite DEF Crash
<1>2. seen' \in BOOLEAN /\ mourn' \in {"no", "error", "cancel"} /\ failures' \in 0..MaxFailures
  BY <1>1, FailuresCount DEF Crash
<1>3. crashes' \in 0..MaxCrashes
  BY BotRunAssumption DEF Crash, BotInv, MemoryOK, CountersOK
<1> QED
  BY <1>1, <1>2, <1>3, ForgetOK, MemoryStep

-----------------------------------------------------------------------------
(* The theorems *)

\* Every step of the executor preserves the invariant.
LEMMA BotNextInv == BotInv /\ [Next]_vars => BotInv' /\ Writes
<1> SUFFICES ASSUME BotInv, [Next]_vars PROVE BotInv' /\ Writes
  OBVIOUS
<1>1. CASE Execution
  <2>1. CASE \E c \in Calls : CallStep(c)
    BY <2>1, ResumeInv, ResumeFailsInv, BeginInv, BeginFailsInv, AdmitInv, AdmitFailsInv,
       ReturnInv, AfterInv, AfterFailsInv DEF CallStep
  <2> QED
    BY <1>1, <2>1, ReserveInv, ReserveFailsInv, ThinkInv, OfferInv, NextBatchInv, PersistInv,
       PersistFailsInv, FinishInv, WriteTerminalInv, FinishCancellationInv DEF Execution
<1>2. CASE UNCHANGED vars
  <2>1. Writes /\ UNCHANGED <<flow, batch, rest, failures>>
    BY <1>2, CommandsWrite DEF vars
  <2>2. FlowOK' /\ TurnOK'
    BY <2>1 DEF flow, rest, BotInv, MemoryOK, FlowOK, TurnOK
  <2>3. CountersOK' /\ BatchOK'
    BY <2>1 DEF flow, batch, rest, BotInv, MemoryOK, CountersOK, BatchOK
  <2>4. CallsOK'
    BY <2>1, BatchKept DEF batch, rest
  <2> QED
    BY <2>1, <2>2, <2>3, <2>4, MemoryStep DEF MemoryOK, rest
<1> QED
  BY <1>1, <1>2, LookInv, InsertInv, EffectInv, MournInv, MournCancelInv, ResolveInv, TokenInv,
     CrashInv DEF Next

\* The inductive invariant holds of every execution.
THEOREM BotInvariance == Spec => []BotInv
  BY BotInitInv, BotNextInv, PTL DEF Spec

\* An execution writes to the record by commands only, so that the theorems
\* about the record hold of it.
LEMMA BotImplementsRecord == Spec => RecordSpec
<1>1. Init => RecordInit
  BY DEF Init
<1>2. BotInv /\ [Next]_vars => [RecordNext]_record
  BY BotNextInv DEF Writes
<1> QED
  BY <1>1, <1>2, BotInvariance, PTL DEF Spec, RecordSpec

\* Types of the execution and of its record.
THEOREM BotTypeCorrect == Spec => []BotTypeOK
<1>1. BotInv => BotTypeOK
  BY TypesSplit DEF BotInv, RecordInv
<1> QED
  BY <1>1, BotInvariance, PTL

\* A run that completed or failed has no operation whose effect is in doubt.
THEOREM BotNoDoubtHolds == Spec => []NoDoubtAtTheEnd
  BY BotImplementsRecord, NoDoubtHolds, PTL

\* A requested cancellation is not overridden by the end of the execution.
THEOREM BotCancelWinsHolds == Spec => CancelWins
  BY BotImplementsRecord, CancelWinsHolds, PTL

\* The effect of a tool happens once at most, and only after the journal
\* says durably that it was started: whatever writes fail and whenever the
\* process restarts.
THEOREM EffectsAreJournalledHolds == Spec => []EffectsAreJournalled
<1>1. BotInv => EffectsAreJournalled
  BY DEF BotInv
<1> QED
  BY <1>1, BotInvariance, PTL

\* What needs the owner's approval only happens with that very approval,
\* and never under a policy that denies.
THEOREM OwnerDecidesHolds == Spec => []OwnerDecides
<1>1. BotInv => OwnerDecides
  BY DEF BotInv
<1> QED
  BY <1>1, BotInvariance, PTL
-----------------------------------------------------------------------------
(* No blind retry *)

\* The operations of tools with outside effects that are started and not over.
Doubted == {o \in Ops : phase[o] = "Started" /\ intent[o] \notin ReadOnly \cup Asking}

\* The call d is at o, or has given up: then the journal of this execution is
\* broken and no other batch follows.
HeldBy(d, o) ==
  /\ call[d].op = o /\ call[d].tool = intent[o]
  /\ call[d].at \in {"run", "ran", "after", "lost"} \/ (fatal /\ call[d].at = "done")

\* A run does not wait for the owner with an operation in doubt.
PausedQuiet == status \in Paused => Doubted = {}

\* While calls are made, what is in doubt was started by one of them.
Tied ==
  pc \in {"think", "call"} /\ status \notin Terminal =>
    \A o \in Doubted : \E d \in Calls : HeldBy(d, o)

\* A call that is not alone in its batch only reads.
Singles ==
  \A c, d \in Calls : c # d /\ call[c].at # "none" /\ call[d].at # "none" =>
    call[c].tool \in ReadOnly

Unbatched == pc # "call" => \A c \in Calls : call[c].at = "none"

RetryInv == PausedQuiet /\ Tied /\ Singles /\ Unbatched /\ NoBlindRetry

\* What every write does to phases and status, except where it starts an
\* operation or makes the run wait.
Ordinary ==
  /\ \A o \in Ops : phase'[o] = "Started" => phase[o] = "Started"
  /\ status' \in Paused => status \in Paused
  /\ status \in Terminal => status' \in Terminal
  /\ \A o \in Ops : phase'[o] = "OutcomeUnknown" => phase[o] \in {"Started", "OutcomeUnknown"}

\* The same for a write that starts the operation o.
Starts(o) ==
  /\ \A p \in Ops \ {o} : phase'[p] = phase[p]
  /\ phase'[o] = "Started"
  /\ status = "Running" /\ status' = status

\* The same for a write that makes the run wait.
Pauses == phase' = phase /\ status = "Running" /\ status' \in Paused

LEMMA OrdinaryCommands ==
  ASSUME TypeOK
  PROVE  /\ UNCHANGED record => Ordinary
         /\ Start \/ Approve \/ Deny \/ BindInput => Ordinary
         /\ Complete \/ Fail \/ Reject \/ Cancel \/ RequestCancel => Ordinary
<1> USE DEF Ordinary, Terminal, Paused
<1>1. UNCHANGED record => Ordinary
  BY DEF record
<1>2. Start \/ Approve \/ BindInput => Ordinary
  BY DEF Start, MayStart, Approve, BindInput
<1>3. ASSUME NEW s \in Terminal, NEW phases, Ends(s, phases), phases = phase \/ phases = Dropped
      PROVE  Ordinary
  BY <1>3 DEF Ends, Dropped, TypeOK
<1>4. Deny \/ Complete \/ Fail \/ Reject \/ Cancel => Ordinary
  BY <1>3 DEF Deny, Complete, Fail, Reject, Cancel
<1>5. RequestCancel => Ordinary
  BY <1>3 DEF RequestCancel
<1> QED
  BY <1>1, <1>2, <1>4, <1>5

LEMMA OrdinaryOperations ==
  ASSUME TypeOK, NEW o \in Ops
  PROVE  /\ \A t : Prepare(o, t) => Ordinary
         /\ RecordOutcome(o) \/ Settle(o) \/ CancelBeforeStart(o) => Ordinary
         /\ MarkUnknown(o) => Ordinary /\ status' \in Terminal
         /\ \A n : RecordTurn(n) => Ordinary
         /\ MarkStarted(o) => Starts(o)
         /\ RequireInput \/ (\E p : RequestApproval(p)) => Pauses
<1>1. \A t : Prepare(o, t) => Ordinary
  BY DEF Prepare, MayPrepare, Ordinary, TypeOK
<1>2. RecordOutcome(o) \/ Settle(o) \/ CancelBeforeStart(o) => Ordinary
  BY DEF RecordOutcome, Settle, CancelBeforeStart, Moves, Ordinary, TypeOK
<1>3. MarkUnknown(o) => Ordinary /\ status' \in Terminal
  BY DEF MarkUnknown, MayMarkUnknown, Ends, Dropped, Ordinary, TypeOK, Terminal, Paused
<1>4. \A n : RecordTurn(n) => Ordinary
  BY DEF RecordTurn, Ordinary
<1>5. MarkStarted(o) => Starts(o)
  BY DEF MarkStarted, MayMarkStarted, Moves, Starts, TypeOK
<1>6. RequireInput \/ (\E p : RequestApproval(p)) => Pauses
  BY DEF RequireInput, RequestApproval, MayAsk, Pauses, Paused
<1> QED
  BY <1>1, <1>2, <1>3, <1>4, <1>5, <1>6

\* What was in doubt after a write that starts nothing was so before.
LEMMA DoubtedShrinks ==
  ASSUME TypeOK, Writes, Ordinary
  PROVE  /\ Doubted' \subseteq Doubted
         /\ \A o \in Ops : phase'[o] \in {"Started", "OutcomeUnknown"} =>
              phase[o] \in {"Started", "OutcomeUnknown"} /\ intent'[o] = intent[o]
<1>1. \A o \in Ops : phase[o] # "None" => intent'[o] = intent[o]
  BY WritesKeep
<1> QED
  BY <1>1 DEF Doubted, Ordinary

\* Steps that leave the batch alone, or forget it.
LEMMA NoBatchStep ==
  ASSUME TypeOK, RetryInv, Writes, Ordinary,
         \/ UNCHANGED <<pc, call, mine, fatal>>
         \/ /\ pc' \notin {"think", "call"}
            /\ UNCHANGED <<call, mine, fatal>> /\ pc # "call"
         \/ pc' \notin {"think", "call"} /\ call' = NoCalls
  PROVE  RetryInv'
<1> USE DEF RetryInv
<1>1. PausedQuiet'
  BY DoubtedShrinks DEF PausedQuiet, Ordinary
<1>2. CASE UNCHANGED <<pc, call, mine, fatal>>
  <2>1. \A o \in Doubted' : intent'[o] = intent[o]
    BY DoubtedShrinks DEF Doubted
  <2>2. \A o \in Doubted', d \in Calls : HeldBy(d, o) => HeldBy(d, o)'
    BY <1>2, <2>1 DEF HeldBy
  <2>3. Tied'
    BY <1>2, <2>2, DoubtedShrinks DEF Tied, Ordinary
  <2>4. NoBlindRetry'
    BY <1>2, DoubtedShrinks DEF NoBlindRetry
  <2> QED
    BY <1>1, <1>2, <2>3, <2>4 DEF Singles, Unbatched
<1>3. CASE /\ pc' \notin {"think", "call"}
           /\ UNCHANGED <<call, mine, fatal>> /\ pc # "call"
  BY <1>1, <1>3 DEF Tied, Singles, Unbatched, NoBlindRetry
<1>4. CASE pc' \notin {"think", "call"} /\ call' = NoCalls
  <2>1. \A c \in Calls : call'[c].at = "none"
    BY <1>4 DEF NoCalls, NoCall
  <2> QED
    BY <1>1, <1>4, <2>1 DEF Tied, Singles, Unbatched, NoBlindRetry
<1> QED
  BY <1>2, <1>3, <1>4

\* The call c takes a step: what is in doubt afterwards is in its hands, or in
\* those of the call that had it before.
LEMMA CallMoves ==
  ASSUME TypeOK, RetryInv, Writes, BotInv, NEW c \in Calls, NEW x,
         call[c].at # "none", call' = [call EXCEPT ![c] = x], x.tool = call[c].tool,
         x.at # "none",
         pc' = pc, mine \subseteq mine', fatal => fatal',
         \A o \in Doubted : HeldBy(c, o) /\ o \in Doubted' => HeldBy(c, o)',
         \/ Ordinary /\ x.at # "run"
         \/ /\ Pauses /\ x.at # "run"
            /\ call[c].at = "prepared" \/ (call[c].at = "run" /\ call[c].tool \in Asking)
         \/ /\ x.op \in mine' \cap Ops /\ Starts(x.op) /\ HeldBy(c, x.op)'
            /\ call[c].at \in {"before", "prepared"}
  PROVE  RetryInv'
<1> USE DEF RetryInv
<1>0. /\ \A d \in Calls : d # c => call'[d] = call[d]
      /\ call'[c] = x
  BY DEF BotInv, MemoryOK, BatchOK, Batches
<1>1. pc = "call"
  BY DEF Unbatched
<1>2. \A o \in Ops : phase[o] # "None" => intent'[o] = intent[o]
  BY WritesKeep
<1>3. \A o \in Doubted' : o \in Doubted \/ (Starts(x.op) /\ o = x.op /\ HeldBy(c, o)')
  BY <1>2 DEF Doubted, Ordinary, Pauses, Starts
<1>4. status' \notin Terminal => status \notin Terminal
  BY DEF Ordinary, Pauses, Starts, Terminal
<1>5. \A o \in Doubted' \cap Doubted, d \in Calls : HeldBy(d, o) => HeldBy(d, o)'
  <2>1. ASSUME NEW o \in Doubted' \cap Doubted, NEW d \in Calls, d # c, HeldBy(d, o)
        PROVE  HeldBy(d, o)'
    <3>1. intent'[o] = intent[o]
      BY <1>2 DEF Doubted
    <3> QED
      BY <1>0, <2>1, <3>1 DEF HeldBy
  <2> QED
    BY <2>1
<1>6. Tied'
  BY <1>1, <1>3, <1>4, <1>5 DEF Tied
<1>7. Singles'
  BY <1>0 DEF Singles
<1>8. Unbatched'
  BY <1>1 DEF Unbatched
<1>9. ASSUME Pauses,
             call[c].at = "prepared" \/ (call[c].at = "run" /\ call[c].tool \in Asking)
      PROVE  Doubted = {}
  <2>1. ASSUME NEW o \in Doubted
        PROVE  FALSE
    <3>1. PICK d \in Calls : HeldBy(d, o)
      BY <1>1, <1>9, <2>1 DEF Tied, Pauses, Terminal
    <3>2. CASE d = c
      BY <1>9, <3>1, <3>2 DEF HeldBy, Doubted
    <3>3. CASE d # c
      <4>1. call[d].tool \in ReadOnly
        BY <3>1, <3>3 DEF Singles, HeldBy
      <4> QED
        BY <3>1, <4>1 DEF HeldBy, Doubted
    <3> QED
      BY <3>2, <3>3
  <2> QED
    BY <2>1
<1>10. PausedQuiet'
  <2>1. CASE Ordinary
    BY <2>1, DoubtedShrinks DEF PausedQuiet, Ordinary
  <2>2. CASE Pauses /\ (call[c].at = "prepared" \/ (call[c].at = "run" /\ call[c].tool \in Asking))
    <3>1. Doubted' \subseteq Doubted
      BY <1>2, <2>2 DEF Pauses, Doubted
    <3> QED
      BY <1>9, <2>2, <3>1 DEF PausedQuiet
  <2>3. CASE Starts(x.op)
    BY <2>3 DEF Starts, PausedQuiet, Paused
  <2> QED
    BY <2>1, <2>2, <2>3
\* What is not started by this step has crossed, or not, as before.
<1>11. \A o \in Ops : phase'[o] \in {"Started", "OutcomeUnknown"} =>
         \/ phase[o] \in {"Started", "OutcomeUnknown"} /\ intent'[o] = intent[o]
         \/ Starts(x.op) /\ o = x.op /\ o \in mine'
  BY <1>2 DEF Ordinary, Pauses, Starts
<1>12. ASSUME NEW d \in Calls, NEW o \in Ops \ mine',
              call'[d].at = "run" /\ call'[d].tool \notin ReadOnly \cup Asking,
              intent'[o] = call'[d].tool, phase'[o] \in {"Started", "OutcomeUnknown"}
       PROVE  FALSE
  <2>2. phase[o] \in {"Started", "OutcomeUnknown"} /\ intent'[o] = intent[o] /\ o \notin mine
    BY <1>11, <1>12
  <2>3. CASE d # c
    BY <1>0, <1>12, <2>2, <2>3 DEF NoBlindRetry
  <2>4. CASE d = c
    <3>1. Starts(x.op)
      BY <1>0, <1>12, <2>4
    <3>2. status = "Running"
      BY <3>1 DEF Starts
    <3>3. phase[o] # "OutcomeUnknown"
      BY <3>2 DEF BotInv, RecordInv, UnknownBlocks
    <3>4. o \in Doubted
      BY <1>0, <1>12, <2>2, <2>4, <3>3 DEF Doubted
    <3>5. PICK e \in Calls : HeldBy(e, o)
      BY <1>1, <3>2, <3>4 DEF Tied, Terminal
    <3>6. o \in mine
      BY <3>5, NoneIsNothing DEF HeldBy, BotInv, CallsOK, CallOK, Holding, Doubted
    <3> QED
      BY <2>2, <3>6
  <2> QED
    BY <2>3, <2>4
<1>13. NoBlindRetry'
  BY <1>12 DEF NoBlindRetry
<1> QED
  BY <1>6, <1>7, <1>8, <1>10, <1>13

\* The same for a call that gets the label to and the operation o.
LEMMA CallLabelled ==
  ASSUME BotInv, RetryInv, Writes, NEW c \in Calls, NEW to, NEW o, Becomes(c, to, o),
         call[c].at \notin {"none", "done"}, to # "none",
         pc' = pc, mine \subseteq mine', fatal => fatal',
         call[c].at \in {"run", "ran", "after", "lost"} =>
           /\ o = call[c].op
           /\ to \in {"ran", "after", "lost"} \/ (fatal' /\ to = "done") \/ o \notin Doubted',
         \/ Ordinary /\ to # "run"
         \/ /\ Pauses /\ to # "run"
            /\ call[c].at = "prepared" \/ (call[c].at = "run" /\ call[c].tool \in Asking)
         \/ /\ o \in mine' \cap Ops /\ Starts(o) /\ intent'[o] = call[c].tool
            /\ to = "run" \/ (fatal' /\ to = "done")
            /\ call[c].at \in {"before", "prepared"}
  PROVE  RetryInv'
<1>1. PICK x : x = [at |-> to, tool |-> call[c].tool, op |-> o]
  OBVIOUS
<1>2. /\ call' = [call EXCEPT ![c] = x] /\ call'[c] = x
      /\ x.at = to /\ x.tool = call[c].tool /\ x.op = o
  BY <1>1 DEF Becomes, BotInv, MemoryOK, BatchOK, Batches
<1>3. TypeOK
  BY DEF BotInv, RecordInv
<1>4. ASSUME NEW p \in Doubted, HeldBy(c, p), p \in Doubted'
      PROVE  HeldBy(c, p)'
  <2>1. call[c].at \in {"run", "ran", "after", "lost"} /\ call[c].op = p /\ call[c].tool = intent[p]
    BY <1>4 DEF HeldBy
  <2>2. intent'[p] = intent[p]
    BY <1>3, <1>4, WritesKeep DEF Doubted
  <2> QED
    BY <1>2, <1>4, <2>1, <2>2 DEF HeldBy
<1>5. /\ o \in mine' \cap Ops /\ Starts(o) /\ intent'[o] = call[c].tool
      /\ to = "run" \/ (fatal' /\ to = "done")
      => HeldBy(c, x.op)'
  BY <1>2 DEF HeldBy
<1> QED
  BY <1>2, <1>3, <1>4, <1>5, CallMoves

\* A write that fails has taken effect, or not.
LEMMA ErrsShape ==
  ASSUME TypeOK, NEW o \in Ops
  PROVE  /\ \A may \in BOOLEAN :
              /\ Errs(may, MarkUnknown(o)) => Ordinary
              /\ Errs(may, Settle(o)) => Ordinary
              /\ Errs(may, RecordOutcome(o)) => Ordinary
              /\ Errs(may, CancelBeforeStart(o)) => Ordinary
              /\ \A t : Errs(may, Prepare(o, t)) => Ordinary
              /\ Errs(may, MarkStarted(o)) => Ordinary \/ MarkStarted(o)
              /\ Errs(may, RequestApproval(o)) => Ordinary \/ RequestApproval(o)
<1> USE DEF Errs
<1>1. /\ \A may \in BOOLEAN :
              /\ Errs(may, MarkUnknown(o)) => Ordinary
              /\ Errs(may, Settle(o)) => Ordinary
              /\ Errs(may, RecordOutcome(o)) => Ordinary
              /\ Errs(may, CancelBeforeStart(o)) => Ordinary
  BY OrdinaryCommands, OrdinaryOperations
<1>2. \A may \in BOOLEAN : \A t : Errs(may, Prepare(o, t)) => Ordinary
  BY OrdinaryCommands, OrdinaryOperations
<1>3. \A may \in BOOLEAN : Errs(may, MarkStarted(o)) => Ordinary \/ MarkStarted(o)
  BY OrdinaryCommands
<1>4. \A may \in BOOLEAN : Errs(may, RequestApproval(o)) => Ordinary \/ RequestApproval(o)
  BY OrdinaryCommands
<1> QED
  BY <1>1, <1>2, <1>3, <1>4

LEMMA ResumeRetry ==
  ASSUME BotInv, RetryInv, Writes, NEW c \in Calls, Resume(c) \/ ResumeFails(c)
  PROVE  RetryInv'
<1>0. TypeOK
  BY DEF BotInv, RecordInv
<1>1. PICK o \in Reusable(call[c].tool), to \in {"run", "done"} :
        /\ Enter(c, o, to)
        /\ \/ Ordinary /\ to = "done"
           \/ MarkStarted(o) /\ (to = "run" \/ fatal')
  <2>1. ASSUME NEW o \in Ops
        PROVE  /\ Done(Settle(o)) => Ordinary
               /\ UNCHANGED record => Ordinary
               /\ Done(MarkUnknown(o)) => Ordinary
               /\ Errs(MaySettle(o), Settle(o)) => Ordinary
               /\ Errs(MayMarkUnknown(o), MarkUnknown(o)) => Ordinary
               /\ Errs(MayMarkStarted(o), MarkStarted(o)) => Ordinary \/ MarkStarted(o)
    BY <1>0, OrdinaryCommands, OrdinaryOperations, ErrsShape DEF Done, Errs
  <2>2. Reusable(call[c].tool) \subseteq Ops
    BY DEF Reusable
  <2>3. CASE Resume(c)
    BY <2>1, <2>2, <2>3 DEF Resume, Done
  <2>4. CASE ResumeFails(c)
    BY <2>1, <2>2, <2>4 DEF ResumeFails
  <2> QED
    BY <2>3, <2>4
<1>2. /\ call[c].at = "before" /\ pc' = pc /\ (fatal => fatal')
  BY DEF Resume, ResumeFails, AtBefore, flow
<1>3. /\ o \in Ops /\ intent[o] = call[c].tool
      /\ mine' = mine \cup {o} /\ Becomes(c, to, o)
  BY <1>1 DEF Reusable, Enter
<1>4. MarkStarted(o) => Starts(o) /\ intent' = intent
  BY <1>0, <1>3, OrdinaryOperations DEF MarkStarted, Moves
<1> QED
  BY <1>1, <1>2, <1>3, <1>4, CallLabelled

LEMMA BeginRetry ==
  ASSUME BotInv, RetryInv, Writes, NEW c \in Calls, Begin(c) \/ BeginFails(c)
  PROVE  RetryInv'
<1>0. TypeOK
  BY DEF BotInv, RecordInv
<1>1. PICK to \in {"prepared", "done"} :
        (\E o : Becomes(c, to, o)) /\ mine \subseteq mine' /\ Ordinary
  <2>1. ASSUME NEW o \in Ops
        PROVE  /\ Done(Prepare(o, call[c].tool)) => Ordinary
               /\ Errs(MayPrepare(o), Prepare(o, call[c].tool)) => Ordinary
    BY <1>0, OrdinaryCommands, OrdinaryOperations DEF Done, Errs
  <2>2. New \subseteq Ops
    BY DEF New
  <2>3. CASE Begin(c)
    BY <2>1, <2>2, <2>3 DEF Begin, Enter
  <2>4. CASE BeginFails(c)
    <3>1. CASE Step(c, "done") /\ UNCHANGED <<record, failures>>
      BY <1>0, <3>1, OrdinaryCommands DEF Step
    <3>2. CASE \E o \in New : Errs(MayPrepare(o), Prepare(o, call[c].tool)) /\ Enter(c, o, "done")
      BY <2>1, <2>2, <3>2 DEF Enter
    <3> QED
      BY <2>4, <3>1, <3>2 DEF BeginFails
  <2> QED
    BY <2>3, <2>4
<1>2. call[c].at = "before" /\ pc' = pc /\ (fatal => fatal')
  BY DEF Begin, BeginFails, AtBefore, flow
<1> QED
  BY <1>1, <1>2, CallLabelled

LEMMA AdmitRetry ==
  ASSUME BotInv, RetryInv, Writes, NEW c \in Calls, Admit(c) \/ AdmitFails(c)
  PROVE  RetryInv'
<1>0. TypeOK
  BY DEF BotInv, RecordInv
<1>1. PICK o : o = call[c].op
  OBVIOUS
<1>2. /\ call[c].at = "prepared" /\ pc' = pc /\ (fatal => fatal')
      /\ o \in Ops \cap mine /\ intent[o] = call[c].tool /\ mine' = mine
  BY <1>1, NoneIsNothing DEF Admit, AdmitFails, flow, Step, BotInv, CallsOK, CallOK, Holding
<1>3. PICK to \in {"run", "done"} :
        /\ Becomes(c, to, o)
        /\ \/ Ordinary /\ to = "done"
           \/ RequestApproval(o) /\ to = "done"
           \/ MarkStarted(o) /\ (to = "run" \/ fatal')
  <2>1. Done(Reject) \/ Errs(MayReject, Reject) => Ordinary
    BY <1>0, OrdinaryCommands DEF Done, Errs
  <2>2. Errs(MayAsk(o), RequestApproval(o)) => Ordinary \/ RequestApproval(o)
    BY <1>0, OrdinaryCommands DEF Errs
  <2>3. Errs(MayMarkStarted(o), MarkStarted(o)) => Ordinary \/ MarkStarted(o)
    BY <1>0, OrdinaryCommands DEF Errs
  <2>4. CASE Admit(c)
    BY <1>1, <2>1, <2>4 DEF Admit, Step, Done
  <2>5. CASE AdmitFails(c)
    BY <1>1, <2>1, <2>2, <2>3, <2>5 DEF AdmitFails, Step
  <2> QED
    BY <2>4, <2>5
<1>4. /\ MarkStarted(o) => Starts(o) /\ intent' = intent
      /\ RequestApproval(o) => Pauses
  BY <1>0, <1>2, OrdinaryOperations DEF MarkStarted, Moves
<1> QED
  BY <1>2, <1>3, <1>4, CallLabelled

LEMMA EffectRetry ==
  ASSUME BotInv, RetryInv, Writes, NEW c \in Calls, Effect(c) \/ Return(c) \/ Lose(c)
  PROVE  RetryInv'
<1>0. TypeOK
  BY DEF BotInv, RecordInv
<1>1. PICK o : o = call[c].op
  OBVIOUS
<1>2. /\ call[c].at \in {"run", "ran"} /\ pc' = pc /\ (fatal => fatal') /\ mine' = mine
      /\ o \in Ops
      /\ \E to \in {"ran", "after", "lost"} : Becomes(c, to, o)
  BY <1>1 DEF Effect, Return, Lose, flow, Step, BotInv, CallsOK, CallOK, Holding
<1>3. Ordinary \/ (Pauses /\ call[c].at = "run" /\ call[c].tool \in Asking)
  <2>1. CASE UNCHANGED record
    BY <1>0, <2>1, OrdinaryCommands
  <2>2. CASE Effect(c) /\ call[c].tool \in Asking
    <3>1. RequireInput \/ RequestApproval(None)
      BY <2>2 DEF Effect
    <3>2. Pauses
      BY <1>0, <1>2, <3>1, OrdinaryOperations
    <3> QED
      BY <2>2, <3>2 DEF Effect
  <2> QED
    BY <2>1, <2>2 DEF Effect, Return, Lose
<1> QED
  BY <1>1, <1>2, <1>3, CallLabelled

LEMMA AfterRetry ==
  ASSUME BotInv, RetryInv, Writes, NEW c \in Calls, After(c) \/ AfterFails(c)
  PROVE  RetryInv'
<1>0. TypeOK
  BY DEF BotInv, RecordInv
<1>1. PICK o : o = call[c].op
  OBVIOUS
<1>2. /\ call[c].at \in {"after", "known", "lost"} /\ pc' = pc /\ (fatal => fatal') /\ mine' = mine
      /\ o \in Ops
  BY <1>1 DEF After, AfterFails, flow, Step, BotInv, CallsOK, CallOK, Holding
<1>3. CASE After(c)
  <2>1. Done(RecordOutcome(o)) \/ Done(MarkUnknown(o)) => o \notin Doubted'
    BY <1>0, <1>2 DEF Done, RecordOutcome, MarkUnknown, Moves, Ends, Doubted, Dropped, TypeOK
  <2>2. PICK to \in {"known", "done"} :
          Becomes(c, to, o) /\ Ordinary /\ (call[c].at \in {"after", "lost"} => o \notin Doubted')
    BY <1>0, <1>1, <1>2, <1>3, <2>1, OrdinaryCommands, OrdinaryOperations DEF After, Step, Done
  <2> QED
    BY <1>1, <1>2, <2>2, CallLabelled
<1>4. CASE AfterFails(c)
  <2>1. Ordinary
    BY <1>0, <1>1, <1>2, <1>4, OrdinaryCommands, OrdinaryOperations DEF AfterFails, Errs
  <2>2. Becomes(c, "done", o) /\ fatal'
    BY <1>1, <1>4 DEF AfterFails, Step
  <2> QED
    BY <1>1, <1>2, <2>1, <2>2, CallLabelled
<1> QED
  BY <1>3, <1>4

\* The steps outside the batch.
LEMMA OffBatchRetry ==
  ASSUME BotInv, RetryInv, Writes,
         \/ Look \/ Insert \/ ReserveFails \/ Finish \/ WriteTerminal \/ WriteTerminalFails
         \/ FinishCancellation \/ Mourn \/ MournCancel \/ Resolve \/ OwnerCancel \/ WallClock
         \/ Crash \/ UNCHANGED vars
  PROVE  RetryInv'
<1>0. TypeOK
  BY DEF BotInv, RecordInv
<1>1. Ordinary
  <2>1. ASSUME NEW o \in Ops
        PROVE  /\ UNCHANGED record => Ordinary
               /\ Done(MarkUnknown(o)) => Ordinary
               /\ Done(Settle(o)) => Ordinary
               /\ Done(CancelBeforeStart(o)) => Ordinary
               /\ Errs(TRUE, MarkUnknown(o)) => Ordinary
               /\ Errs(MayFinish, Settle(o)) => Ordinary
               /\ Errs(MayFinish, CancelBeforeStart(o)) => Ordinary
    BY <1>0, OrdinaryCommands, OrdinaryOperations DEF Done, Errs
  <2>2. /\ UNCHANGED record => Ordinary
        /\ Done(Start) \/ Errs(TRUE, Start) => Ordinary
        /\ Done(Complete) \/ Errs(MayComplete, Complete) => Ordinary
        /\ Done(Fail) \/ Errs(MayFail, Fail) => Ordinary
        /\ Done(Cancel) \/ Errs(MayCancel, Cancel) => Ordinary
    BY <1>0, OrdinaryCommands DEF Done, Errs
  <2>3. Tidies \/ Cancels \/ CancelErrs => Ordinary
    BY <2>1, <2>2 DEF Tidies, Cancels, CancelErrs, Started, Prepared, Known
  <2>4. Mourn => Ordinary
    BY <2>1, <2>2 DEF Mourn, Started
  <2>5. ReserveFails => Ordinary
    BY <2>1, <2>2 DEF ReserveFails, Started
  <2>6. WriteTerminal \/ WriteTerminalFails => Ordinary
    BY <2>2 DEF WriteTerminal, WriteTerminalFails
  <2>7. Resolve \/ OwnerCancel => Ordinary
    BY <1>0, OrdinaryCommands DEF Resolve, OwnerCancel
  <2>8. Look \/ Insert \/ Finish \/ WallClock \/ Crash \/ UNCHANGED vars => Ordinary
    BY <2>2 DEF Look, Insert, Finish, WallClock, Crash, vars
  <2> QED
    BY <2>3, <2>4, <2>5, <2>6, <2>7, <2>8 DEF FinishCancellation, MournCancel
<1>2. \/ UNCHANGED <<pc, call, mine, fatal>>
      \/ pc' \notin {"think", "call"} /\ UNCHANGED <<call, mine, fatal>> /\ pc # "call"
      \/ pc' \notin {"think", "call"} /\ call' = NoCalls
  <2>1. CASE Insert
    BY <2>1 DEF Insert, BotInv, TurnOK, batch
  <2>2. CASE ReserveFails \/ WriteTerminal \/ WriteTerminalFails \/ Crash
    BY <2>2 DEF ReserveFails, WriteTerminal, WriteTerminalFails, Crash, Leave, LeaveInError, Forget
  <2>3. CASE Finish
    BY <2>3 DEF Finish, Leave, Forget, Goto, batch
  <2>4. CASE FinishCancellation
    BY <2>4 DEF FinishCancellation, Leave, LeaveInError, Forget, flow, batch
  <2>5. CASE Look \/ Mourn \/ MournCancel \/ Resolve \/ OwnerCancel \/ WallClock \/ UNCHANGED vars
    BY <2>5 DEF Look, Mourn, MournCancel, Mourns, Resolve, OwnerCancel, WallClock, vars, flow, batch
  <2> QED
    BY <2>1, <2>2, <2>3, <2>4, <2>5
<1> QED
  BY <1>0, <1>1, <1>2, NoBatchStep

\* An execution begins its turns with nothing in doubt.
LEMMA ReserveRetry ==
  ASSUME BotInv, RetryInv, Writes, Reserve
  PROVE  RetryInv'
<1>0. TypeOK
  BY DEF BotInv, RecordInv
<1>1. Ordinary /\ UNCHANGED <<call, mine, fatal>> /\ pc = "reserved"
  BY <1>0, OrdinaryCommands DEF Reserve, Done, batch
<1>2. CASE pc' # "think"
  BY <1>0, <1>1, <1>2, NoBatchStep DEF Reserve, Goto
<1>3. CASE pc' = "think"
  <2>1. /\ status # "Queued" /\ UNCHANGED record
        /\ status = "Running" => Started = {}
    BY <1>3 DEF Reserve, Goto
  <2>2. status \notin Terminal => Doubted = {}
    BY <1>0, <2>1 DEF Doubted, Started, RetryInv, PausedQuiet, TypeOK
  <2>3. Doubted' = Doubted /\ status' = status
    BY <2>1 DEF Doubted, record
  <2>4. \A c \in Calls : call'[c].at = "none"
    BY <1>1 DEF RetryInv, Unbatched
  <2> QED
    BY <1>3, <2>2, <2>3, <2>4 DEF RetryInv, PausedQuiet, Tied, Singles, Unbatched, NoBlindRetry
<1> QED
  BY <1>2, <1>3

LEMMA ThinkRetry ==
  ASSUME BotInv, RetryInv, Writes, Think
  PROVE  RetryInv'
<1>1. UNCHANGED <<record, batch>> /\ pc = "think" /\ \A c \in Calls : call[c].at = "none"
  BY DEF Think, RetryInv, Unbatched
<1>2. Doubted' = Doubted /\ UNCHANGED <<status, call, mine, fatal>>
  BY <1>1 DEF Doubted, record, batch
<1>3. status \notin Terminal => Doubted = {}
  BY <1>1 DEF RetryInv, Tied, HeldBy
<1> QED
  BY <1>1, <1>2, <1>3 DEF RetryInv, PausedQuiet, Tied, Singles, Unbatched, NoBlindRetry

\* A batch of more than one call only reads.
LEMMA OfferRetry ==
  ASSUME BotInv, RetryInv, Writes, Offer
  PROVE  RetryInv'
<1>1. /\ UNCHANGED <<record, flow, mine, fatal>> /\ pc = "call"
      /\ \A c \in Calls : call[c].at = "none"
  BY DEF Offer, AllAt
<1>2. Doubted' = Doubted /\ UNCHANGED <<status, pc>>
  BY <1>1 DEF Doubted, record, flow
<1>3. status \notin Terminal => Doubted = {}
  BY <1>1 DEF RetryInv, Tied, HeldBy
<1>4. PICK cs \in SUBSET Calls \ {{}}, t \in [Calls -> Tools] :
        /\ Cardinality(cs) > 1 => \A c \in cs : t[c] \in ReadOnly
        /\ call' = [c \in Calls |-> IF c \in cs THEN [at |-> "before", tool |-> t[c], op |-> None] ELSE NoCall]
  BY DEF Offer
<1>5. \A c \in Calls : /\ call'[c].at # "none" => c \in cs /\ call'[c].tool = t[c]
                       /\ call'[c].at \in {"none", "before"}
  BY <1>4 DEF NoCall
<1>6. Singles'
  <2>1. ASSUME NEW c \in cs, NEW d \in cs, c # d
        PROVE  t[c] \in ReadOnly
    <3>1. IsFiniteSet(cs)
      BY FS_Subset, BotRunAssumption
    <3>2. PICK one : one = {c}
      OBVIOUS
    <3>3. PICK both : both = one \cup {d}
      OBVIOUS
    <3>4. IsFiniteSet(one) /\ Cardinality(one) = 1 /\ d \notin one
      BY <2>1, <3>2, FS_Singleton
    <3>5. Cardinality(both) = 1 + 1
      BY <3>3, <3>4, FS_AddElement
    <3>6. both \subseteq cs
      BY <2>1, <3>2, <3>3
    <3>7. Cardinality(both) <= Cardinality(cs) /\ Cardinality(cs) \in Nat
      BY <3>1, <3>6, FS_Subset, FS_CardinalityType
    <3> QED
      BY <1>4, <3>5, <3>7
  <2> QED
    BY <1>5, <2>1 DEF Singles
<1> QED
  BY <1>1, <1>2, <1>3, <1>5, <1>6 DEF RetryInv, PausedQuiet, Tied, Unbatched, NoBlindRetry

\* The batch is over: what it left in doubt has broken the journal.
LEMMA BatchRetry ==
  ASSUME BotInv, RetryInv, Writes, NextBatch \/ Persist \/ PersistFails
  PROVE  RetryInv'
<1>0. TypeOK
  BY DEF BotInv, RecordInv
<1>1. call' = NoCalls /\ \A c \in Calls : call'[c].at = "none"
  BY DEF NextBatch, Persist, PersistFails, NoCalls, NoCall
<1>2. Ordinary
  <2>1. (\E n : RecordTurn(n)) => Ordinary
    BY DEF RecordTurn, Ordinary
  <2> QED
    BY <1>0, <2>1, OrdinaryCommands DEF NextBatch, Persist, PersistFails, Done, Errs
<1>3. pc = "call" /\ \A c \in Calls : call[c].at \in {"none", "done"}
  BY DEF NextBatch, Persist, PersistFails, BatchDone, AllAt
<1>4. PausedQuiet'
  BY <1>0, <1>2, DoubtedShrinks DEF RetryInv, PausedQuiet, Ordinary
<1>5. Tied'
  <2>1. CASE fatal
    BY <2>1 DEF NextBatch, Persist, PersistFails, FinishWith, Tied
  <2>2. CASE ~ fatal
    BY <1>0, <1>2, <1>3, <2>2, DoubtedShrinks DEF RetryInv, Tied, HeldBy, Ordinary
  <2> QED
    BY <2>1, <2>2
<1> QED
  BY <1>1, <1>4, <1>5 DEF RetryInv, Singles, Unbatched, NoBlindRetry

LEMMA RetryInit == Init => RetryInv
BY DEF Init, RecordInit, RetryInv, PausedQuiet, Tied, Singles, Unbatched, NoBlindRetry, NoCalls, NoCall,
       Paused, Doubted

LEMMA RetryNext == BotInv /\ RetryInv /\ [Next]_vars => RetryInv'
<1> SUFFICES ASSUME BotInv, RetryInv, [Next]_vars PROVE RetryInv'
  OBVIOUS
<1>1. Writes
  BY BotNextInv
<1>2. ASSUME NEW c \in Calls, CallStep(c) \/ Effect(c)
      PROVE  RetryInv'
  BY <1>1, <1>2, ResumeRetry, BeginRetry, AdmitRetry, EffectRetry, AfterRetry DEF CallStep
<1>3. CASE Execution
  BY <1>1, <1>2, <1>3, ReserveRetry, ThinkRetry, OfferRetry, BatchRetry, OffBatchRetry DEF Execution
<1> QED
  BY <1>1, <1>2, <1>3, OffBatchRetry DEF Next

\* A tool with outside effects does not run again while the effect of an
\* operation that an earlier execution started is in doubt: what is in doubt
\* when an execution begins blocks the run (block_unknown_recovery), a run that
\* waits for the owner has nothing in doubt, and what the execution starts
\* itself it either ends, or it makes no further call (journal_failure).
THEOREM NoBlindRetryHolds == Spec => []NoBlindRetry
<1>1. RetryInv => NoBlindRetry
  BY DEF RetryInv
<1> QED
  BY <1>1, BotInvariance, RetryInit, RetryNext, PTL DEF Spec

==============================================================================
