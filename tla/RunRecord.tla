------------------------------ MODULE RunRecord ------------------------------
(***************************************************************************)
(* The durable record of a BotRun: bot/run/decision.rs decides which       *)
(* command the record admits, bot/run/projection.rs applies its event, and *)
(* core/operation holds the phases of a tool operation.  One action here   *)
(* is one committed command, whoever writes it.  BotRun says who writes    *)
(* what, and when.                                                         *)
(***************************************************************************)
EXTENDS Naturals

CONSTANTS
  Ops,    \* identities of tool operations
  Tools,  \* a tool with its arguments: what an operation intends
  Turns,  \* numbers of provider turns
  None

ASSUME NoneIsNothing == None \notin Ops \cup Tools

VARIABLES
  status,      \* BotRunState.status
  phase,       \* tool_operations: the phase of each, "None" if there is none
  intent,      \*   and the tool it was prepared for
  asked,       \* the operation whose approval is pending
  approved,    \* approved_operations
  wantCancel,  \* cancellation_requested
  recorded     \* the response turns that are recorded

record == <<status, phase, intent, asked, approved, wantCancel, recorded>>

Terminal == {"Completed", "Failed", "Canceled", "Rejected", "Blocked"}
Paused == {"ApprovalRequired", "InputRequired"}
Uncertain == {"Started", "OutcomeKnown", "OutcomeUnknown"}

\* No operation has crossed into its side effect without being settled.
Certain == \A o \in Ops : phase[o] \notin Uncertain

\* Mutant of Dropped: what was started is dropped too.
DroppedAnyhow ==
  [o \in Ops |-> IF phase[o] \in {"Prepared", "Started"} THEN "CanceledBeforeStart" ELSE phase[o]]

\* cancel_prepared_events
Dropped ==
  [o \in Ops |-> IF phase[o] = "Prepared" THEN "CanceledBeforeStart" ELSE phase[o]]

\* operation_events: a paused run still finishes what it has begun.
MayFinish == status \in {"Running"} \cup Paused

Moves(o, to) ==
  /\ phase' = [phase EXCEPT ![o] = to]
  /\ UNCHANGED <<status, intent, asked, approved, wantCancel, recorded>>

Ends(s, phases) ==
  /\ status' = s
  /\ phase' = phases
  /\ asked' = None
  /\ wantCancel' = FALSE
  /\ UNCHANGED <<intent, approved, recorded>>

MayStart == status = "Queued"

Start ==
  /\ MayStart
  /\ status' = "Running"
  /\ UNCHANGED <<phase, intent, asked, approved, wantCancel, recorded>>

-----------------------------------------------------------------------------
(* Tool operations *)

MayPrepare(o) == status = "Running" /\ phase[o] = "None"

Prepare(o, t) ==
  /\ MayPrepare(o)
  /\ phase' = [phase EXCEPT ![o] = "Prepared"]
  /\ intent' = [intent EXCEPT ![o] = t]
  /\ UNCHANGED <<status, asked, approved, wantCancel, recorded>>

MayMarkStarted(o) == status = "Running" /\ phase[o] = "Prepared"
MarkStarted(o) == MayMarkStarted(o) /\ Moves(o, "Started")

MayRecordOutcome(o) == MayFinish /\ phase[o] \in {"Started", "OutcomeUnknown"}
RecordOutcome(o) == MayRecordOutcome(o) /\ Moves(o, "OutcomeKnown")

MaySettle(o) == MayFinish /\ phase[o] = "OutcomeKnown"
Settle(o) == MaySettle(o) /\ Moves(o, "Settled")

MayCancelBeforeStart(o) == MayFinish /\ phase[o] = "Prepared"
CancelBeforeStart(o) == MayCancelBeforeStart(o) /\ Moves(o, "CanceledBeforeStart")

\* MarkToolUnknown: one batch marks the operation, drops what was only
\* prepared and blocks the run.
MayMarkUnknown(o) == status = "Running" /\ phase[o] = "Started"

\* Mutant of MarkUnknown: the run is left as it was.
MarkOnly(o) == MayMarkUnknown(o) /\ Moves(o, "OutcomeUnknown")

MarkUnknown(o) ==
  /\ MayMarkUnknown(o)
  /\ Ends("Blocked", [Dropped EXCEPT ![o] = "OutcomeUnknown"])

MayRecordTurn(n) == MayFinish /\ n \notin recorded

RecordTurn(n) ==
  /\ MayRecordTurn(n)
  /\ recorded' = recorded \cup {n}
  /\ UNCHANGED <<status, phase, intent, asked, approved, wantCancel>>

-----------------------------------------------------------------------------
(* Waiting for the owner *)

MayAsk(o) == status = "Running" /\ (o \in Ops => phase[o] = "Prepared")

\* RequestApproval, for an operation or (None) for a question of the Bot.
RequestApproval(o) ==
  /\ MayAsk(o)
  /\ status' = "ApprovalRequired"
  /\ asked' = o
  /\ UNCHANGED <<phase, intent, approved, wantCancel, recorded>>

RequireInput ==
  /\ status = "Running"
  /\ status' = "InputRequired"
  /\ UNCHANGED <<phase, intent, asked, approved, wantCancel, recorded>>

\* ResolveApproval
Approve ==
  /\ status = "ApprovalRequired"
  /\ status' = "Running"
  /\ approved' = approved \cup ({asked} \ {None})
  /\ asked' = None
  /\ UNCHANGED <<phase, intent, wantCancel, recorded>>

Deny == status = "ApprovalRequired" /\ Ends("Rejected", Dropped)

BindInput ==
  /\ status = "InputRequired"
  /\ status' = "Running"
  /\ UNCHANGED <<phase, intent, asked, approved, wantCancel, recorded>>

-----------------------------------------------------------------------------
(* The end *)

\* decide_existing: a requested cancellation must settle first.
Undisturbed == status = "Running" /\ ~ wantCancel

MayComplete == Undisturbed /\ \A o \in Ops : phase[o] \in {"None", "Settled", "CanceledBeforeStart"}
Complete == MayComplete /\ Ends("Completed", phase)

MayFail == Undisturbed /\ Certain
Fail == MayFail /\ Ends("Failed", Dropped)

MayReject == status \in {"Queued", "Running"} /\ ~ wantCancel /\ Certain
Reject == MayReject /\ Ends("Rejected", Dropped)

MayCancel == status \notin Terminal /\ Certain
Cancel == MayCancel /\ Ends("Canceled", Dropped)

\* A command that the executor never writes.  (CommitArtifact, the other one
\* that is not named below, changes nothing that is kept here.)
Block == status \notin Terminal /\ Ends("Blocked", Dropped)

\* RequestCancel: a working run is asked to stop, any other ends here.
RequestCancel ==
  \/ /\ status = "Running"
     /\ wantCancel' = TRUE
     /\ UNCHANGED <<status, phase, intent, asked, approved, recorded>>
  \/ /\ status \in {"Queued"} \cup Paused
     /\ Ends("Canceled", Dropped)

-----------------------------------------------------------------------------
RecordInit ==
  /\ status = "Queued"
  /\ phase = [o \in Ops |-> "None"]
  /\ intent = [o \in Ops |-> None]
  /\ asked = None
  /\ approved = {}
  /\ wantCancel = FALSE
  /\ recorded = {}

RecordNext ==
  \/ Start \/ RequireInput \/ Approve \/ Deny \/ BindInput
  \/ Complete \/ Fail \/ Reject \/ Cancel \/ Block \/ RequestCancel
  \/ \E o \in Ops : \/ \E t \in Tools : Prepare(o, t)
                    \/ MarkStarted(o) \/ RecordOutcome(o) \/ Settle(o)
                    \/ CancelBeforeStart(o) \/ MarkUnknown(o)
  \/ \E o \in Ops \cup {None} : RequestApproval(o)
  \/ \E n \in Turns : RecordTurn(n)

\* What the record promises, whoever writes to it.
RecordSpec == RecordInit /\ [][RecordNext]_record

-----------------------------------------------------------------------------
(* Properties *)

Phases ==
  {"None", "Prepared", "Started", "OutcomeKnown", "OutcomeUnknown", "Settled",
   "CanceledBeforeStart"}

\* Types; what is asked or approved is an operation that was prepared.
TypeOK ==
  /\ status \in {"Queued", "Running"} \cup Paused \cup Terminal
  /\ phase \in [Ops -> Phases]
  /\ intent \in [Ops -> Tools \cup {None}]
  /\ asked \in Ops \cup {None}
  /\ approved \subseteq Ops
  /\ wantCancel \in BOOLEAN
  /\ recorded \subseteq Turns

\* A run that completed or failed has no operation whose effect is in doubt
\* or not settled.
NoDoubtAtTheEnd == status \in {"Completed", "Failed"} => Certain

\* An operation of unknown outcome stops the run for good.
UnknownBlocks == (\E o \in Ops : phase[o] = "OutcomeUnknown") => status = "Blocked"

\* Only an operation that exists is approved, and the one whose approval is
\* pending has not been started.
ApprovalIsExact ==
  /\ \A o \in approved : phase[o] # "None"
  /\ asked \in Ops => phase[asked] \in {"Prepared", "CanceledBeforeStart"}

\* The Completed and Failed that a model or a tool brings about do not
\* override a cancellation that was requested.
CancelWins == [][wantCancel => status' \notin {"Completed", "Failed"}]_record

=============================================================================
