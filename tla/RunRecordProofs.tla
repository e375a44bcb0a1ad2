--------------------------- MODULE RunRecordProofs ---------------------------
(***************************************************************************)
(* What the durable record of a BotRun promises, for every set of          *)
(* operations, tools and turns, and whoever writes to it.                  *)
(***************************************************************************)
EXTENDS RunRecord, TLAPS

\* An approval is pending only while the run waits for it.
AskedWhileWaiting == asked # None => status = "ApprovalRequired"

\* A cancellation is only requested of a run that has not ended.
WantedWhileOpen == wantCancel => status \notin Terminal

\* The inductive invariant.
RecordInv ==
  /\ TypeOK
  /\ AskedWhileWaiting
  /\ WantedWhileOpen
  /\ NoDoubtAtTheEnd
  /\ UnknownBlocks
  /\ ApprovalIsExact

\* The record begins in the invariant: queued, without operations.
LEMMA RecordInitInv == RecordInit => RecordInv
  BY NoneIsNothing
  DEF RecordInit, RecordInv, TypeOK, AskedWhileWaiting, WantedWhileOpen, NoDoubtAtTheEnd,
      UnknownBlocks, ApprovalIsExact, Certain, Terminal, Paused, Uncertain, Phases

-----------------------------------------------------------------------------
(* Where an action leaves the record *)

\* A command that only moves one operation on, and not into doubt.
LEMMA MovesInv ==
  ASSUME RecordInv, NEW o \in Ops,
         NEW to \in Phases \ {"None", "OutcomeUnknown"},
         Moves(o, to), MayFinish,
         asked = o => to = "CanceledBeforeStart"
  PROVE  RecordInv'
<1> USE NoneIsNothing DEF Moves
<1>1. TypeOK'
  BY DEF RecordInv, TypeOK
<1>2. AskedWhileWaiting' /\ WantedWhileOpen'
  BY DEF RecordInv, AskedWhileWaiting, WantedWhileOpen, Terminal
<1>3. NoDoubtAtTheEnd'
  BY DEF MayFinish, Paused, NoDoubtAtTheEnd
<1>4. UnknownBlocks'
  BY DEF RecordInv, TypeOK, UnknownBlocks
<1>5. ApprovalIsExact'
  BY DEF RecordInv, TypeOK, ApprovalIsExact
<1> QED
  BY <1>1, <1>2, <1>3, <1>4, <1>5 DEF RecordInv

\* A command that changes neither the operations nor what is asked of them,
\* of a run that has not ended, and does not end it.
LEMMA StaysInv ==
  ASSUME RecordInv, UNCHANGED <<phase, intent, asked, approved>>,
         status \notin Terminal, status' \in {"Queued", "Running"} \cup Paused,
         asked # None => status' = "ApprovalRequired",
         wantCancel' \in BOOLEAN, recorded' \subseteq Turns
  PROVE  RecordInv'
<1>1. TypeOK'
  BY DEF RecordInv, TypeOK
<1>2. AskedWhileWaiting'
  BY DEF AskedWhileWaiting
<1>3. WantedWhileOpen' /\ NoDoubtAtTheEnd'
  BY DEF WantedWhileOpen, NoDoubtAtTheEnd, Terminal, Paused
<1>4. UnknownBlocks'
  BY DEF RecordInv, UnknownBlocks, Terminal
<1>5. ApprovalIsExact'
  BY DEF RecordInv, ApprovalIsExact
<1> QED
  BY <1>1, <1>2, <1>3, <1>4, <1>5 DEF RecordInv

\* Dropping what was prepared neither creates doubt nor forgets an operation.
LEMMA DroppedFacts ==
  ASSUME TypeOK
  PROVE  /\ Dropped \in [Ops -> Phases]
         /\ \A o \in Ops : /\ Dropped[o] \in Uncertain => Dropped[o] = phase[o]
                           /\ Dropped[o] = "None" => phase[o] = "None"
  BY DEF TypeOK, Dropped, Phases, Uncertain

\* A command that ends the run.
LEMMA EndsInv ==
  ASSUME RecordInv, NEW s \in Terminal, NEW phases \in [Ops -> Phases], Ends(s, phases),
         s \in {"Completed", "Failed"} => \A o \in Ops : phases[o] \notin Uncertain,
         (\E o \in Ops : phases[o] = "OutcomeUnknown") => s = "Blocked",
         \A o \in Ops : phases[o] = "None" => phase[o] = "None"
  PROVE  RecordInv'
<1> USE NoneIsNothing DEF Ends
<1>1. TypeOK'
  BY DEF RecordInv, TypeOK
<1>2. AskedWhileWaiting' /\ WantedWhileOpen'
  BY DEF AskedWhileWaiting, WantedWhileOpen
<1>3. NoDoubtAtTheEnd'
  BY DEF NoDoubtAtTheEnd, Certain
<1>4. UnknownBlocks'
  BY DEF UnknownBlocks
<1>5. ApprovalIsExact'
  BY DEF RecordInv, TypeOK, ApprovalIsExact
<1> QED
  BY <1>1, <1>2, <1>3, <1>4, <1>5 DEF RecordInv

\* The commands that drop what was prepared and end the run: all but
\* Completed and the block for an unknown outcome.
LEMMA DropsInv ==
  ASSUME RecordInv, NEW s \in {"Failed", "Rejected", "Canceled", "Blocked"}, Ends(s, Dropped),
         status \notin Terminal, s = "Failed" => Certain
  PROVE  RecordInv'
<1>1. s \in Terminal
  BY DEF Terminal
<1>2. \A o \in Ops : phase[o] # "OutcomeUnknown"
  BY DEF RecordInv, UnknownBlocks, Terminal
<1>3. TypeOK
  BY DEF RecordInv
<1>4. \A o \in Ops : Dropped[o] # "OutcomeUnknown"
  BY <1>2, <1>3, DroppedFacts DEF Uncertain
<1>5. s \in {"Completed", "Failed"} => \A o \in Ops : Dropped[o] \notin Uncertain
  BY <1>3, DroppedFacts DEF Certain
<1> QED
  BY <1>1, <1>3, <1>4, <1>5, DroppedFacts, EndsInv

-----------------------------------------------------------------------------
(* The invariant is inductive *)

\* Every command of the record preserves the invariant.
LEMMA RecordNextInv == RecordInv /\ [RecordNext]_record => RecordInv'
<1> SUFFICES ASSUME RecordInv, [RecordNext]_record PROVE RecordInv'
  OBVIOUS
<1> USE DEF RecordInv
<1>1. CASE Start
  BY <1>1, StaysInv DEF Start, MayStart, Terminal, TypeOK, AskedWhileWaiting
<1>2. CASE RequireInput
  BY <1>2, StaysInv DEF RequireInput, Terminal, Paused, TypeOK, AskedWhileWaiting
<1>3. CASE Approve
  <2>1. asked \in Ops => phase[asked] # "None"
    BY DEF ApprovalIsExact
  <2>2. TypeOK'
    BY <1>3 DEF Approve, TypeOK
  <2>3. AskedWhileWaiting' /\ WantedWhileOpen' /\ NoDoubtAtTheEnd'
    BY <1>3 DEF Approve, AskedWhileWaiting, WantedWhileOpen, NoDoubtAtTheEnd, Terminal
  <2>4. UnknownBlocks'
    BY <1>3 DEF Approve, UnknownBlocks
  <2>5. ApprovalIsExact'
    BY <1>3, <2>1, NoneIsNothing DEF Approve, ApprovalIsExact, TypeOK
  <2> QED
    BY <2>2, <2>3, <2>4, <2>5
<1>4. CASE Deny
  BY <1>4, DropsInv DEF Deny, Terminal
<1>5. CASE BindInput
  BY <1>5, StaysInv DEF BindInput, Terminal, TypeOK, AskedWhileWaiting
<1>6. CASE Complete
  <2>1. \A o \in Ops : phase[o] \notin Uncertain
    BY <1>6 DEF Complete, MayComplete, Uncertain
  <2> QED
    BY <1>6, <2>1, EndsInv DEF Complete, Terminal, TypeOK, Uncertain
<1>7. CASE Fail
  BY <1>7, DropsInv DEF Fail, MayFail, Undisturbed, Terminal
<1>8. CASE Reject
  BY <1>8, DropsInv DEF Reject, MayReject, Terminal
<1>9. CASE Cancel
  BY <1>9, DropsInv DEF Cancel, MayCancel
<1>9b. CASE Block
  BY <1>9b, DropsInv DEF Block
<1>10. CASE RequestCancel
  <2>1. CASE status = "Running" /\ wantCancel' = TRUE
              /\ UNCHANGED <<status, phase, intent, asked, approved, recorded>>
    BY <2>1, StaysInv DEF Terminal, TypeOK, AskedWhileWaiting
  <2>2. CASE status \in {"Queued"} \cup Paused /\ Ends("Canceled", Dropped)
    BY <2>2, DropsInv DEF Terminal, Paused
  <2> QED
    BY <1>10, <2>1, <2>2 DEF RequestCancel
<1>11. ASSUME NEW o \in Ops, NEW t \in Tools, Prepare(o, t) PROVE RecordInv'
  <2> USE <1>11 DEF Prepare, MayPrepare
  <2>1. TypeOK'
    BY DEF TypeOK, Phases
  <2>2. AskedWhileWaiting' /\ WantedWhileOpen' /\ NoDoubtAtTheEnd'
    BY DEF AskedWhileWaiting, WantedWhileOpen, NoDoubtAtTheEnd
  <2>3. UnknownBlocks' /\ ApprovalIsExact'
    BY DEF UnknownBlocks, ApprovalIsExact, TypeOK
  <2> QED
    BY <2>1, <2>2, <2>3
<1>12. ASSUME NEW o \in Ops, MarkStarted(o) PROVE RecordInv'
  <2>1. asked # o
    BY <1>12, NoneIsNothing DEF MarkStarted, MayMarkStarted, AskedWhileWaiting
  <2> QED
    BY <1>12, <2>1, MovesInv DEF MarkStarted, MayMarkStarted, MayFinish, Phases
<1>13. ASSUME NEW o \in Ops, RecordOutcome(o) PROVE RecordInv'
  <2>1. asked # o
    BY <1>13 DEF RecordOutcome, MayRecordOutcome, ApprovalIsExact
  <2> QED
    BY <1>13, <2>1, MovesInv DEF RecordOutcome, MayRecordOutcome, Phases
<1>14. ASSUME NEW o \in Ops, Settle(o) PROVE RecordInv'
  <2>1. asked # o
    BY <1>14 DEF Settle, MaySettle, ApprovalIsExact
  <2> QED
    BY <1>14, <2>1, MovesInv DEF Settle, MaySettle, Phases
<1>15. ASSUME NEW o \in Ops, CancelBeforeStart(o) PROVE RecordInv'
  BY <1>15, MovesInv DEF CancelBeforeStart, MayCancelBeforeStart, Phases
<1>16. ASSUME NEW o \in Ops, MarkUnknown(o) PROVE RecordInv'
  <2> DEFINE phases == [Dropped EXCEPT ![o] = "OutcomeUnknown"]
  <2>1. phases \in [Ops -> Phases] /\ \A p \in Ops : phases[p] = "None" => phase[p] = "None"
    BY DroppedFacts DEF Phases
  <2>2. Ends("Blocked", phases)
    BY <1>16 DEF MarkUnknown
  <2> HIDE DEF phases
  <2> QED
    BY <2>1, <2>2, EndsInv DEF Terminal
<1>17. ASSUME NEW o \in Ops \cup {None}, RequestApproval(o) PROVE RecordInv'
  <2> USE <1>17 DEF RequestApproval, MayAsk
  <2>1. TypeOK'
    BY DEF TypeOK, Paused
  <2>2. AskedWhileWaiting' /\ WantedWhileOpen' /\ NoDoubtAtTheEnd'
    BY DEF AskedWhileWaiting, WantedWhileOpen, NoDoubtAtTheEnd, Terminal
  <2>3. UnknownBlocks' /\ ApprovalIsExact'
    BY DEF UnknownBlocks, ApprovalIsExact
  <2> QED
    BY <2>1, <2>2, <2>3
<1>18. ASSUME NEW n \in Turns, RecordTurn(n) PROVE RecordInv'
  BY <1>18, StaysInv DEF RecordTurn, MayRecordTurn, MayFinish, Terminal, Paused, TypeOK, AskedWhileWaiting
<1>19. CASE UNCHANGED record
  BY <1>19 DEF record, TypeOK, AskedWhileWaiting, WantedWhileOpen, NoDoubtAtTheEnd, Certain,
       UnknownBlocks, ApprovalIsExact
<1> QED
  BY <1>1, <1>2, <1>3, <1>4, <1>5, <1>6, <1>7, <1>8, <1>9, <1>9b, <1>10, <1>11, <1>12, <1>13, <1>14,
     <1>15, <1>16, <1>17, <1>18, <1>19 DEF RecordNext

\* The invariant holds of whatever is written to the record.
THEOREM RecordInvariance == RecordSpec => []RecordInv
<1>1. RecordInit => RecordInv
  BY RecordInitInv
<1>2. RecordInv /\ [RecordNext]_record => RecordInv'
  BY RecordNextInv
<1> QED
  BY <1>1, <1>2, PTL DEF RecordSpec

-----------------------------------------------------------------------------
(* The promises *)

\* A run that completed or failed has no operation whose effect is in doubt
\* or not settled (reject_uncertain_terminal and the guard of Complete).
THEOREM NoDoubtHolds == RecordSpec => []NoDoubtAtTheEnd
<1>1. RecordInv => NoDoubtAtTheEnd
  BY DEF RecordInv
<1> QED
  BY <1>1, RecordInvariance, PTL

\* An operation of unknown outcome has blocked its run for good.
THEOREM UnknownBlocksHolds == RecordSpec => []UnknownBlocks
<1>1. RecordInv => UnknownBlocks
  BY DEF RecordInv
<1> QED
  BY <1>1, RecordInvariance, PTL

\* An approval is of an operation that exists, and a pending one of an
\* operation that has not been started.
THEOREM ApprovalIsExactHolds == RecordSpec => []ApprovalIsExact
<1>1. RecordInv => ApprovalIsExact
  BY DEF RecordInv
<1> QED
  BY <1>1, RecordInvariance, PTL

\* A cancellation that was requested is never overridden by a completion or
\* a failure (decide_existing).
THEOREM CancelWinsHolds == RecordSpec => CancelWins
<1>1. RecordInv /\ [RecordNext]_record =>
        [wantCancel => status' \notin {"Completed", "Failed"}]_record
  <2> SUFFICES ASSUME RecordInv, RecordNext, wantCancel PROVE status' \notin {"Completed", "Failed"}
    OBVIOUS
  <2>1. status \notin Terminal
    BY DEF RecordInv, WantedWhileOpen
  <2>2. ~ Complete /\ ~ Fail
    BY DEF Complete, MayComplete, Fail, MayFail, Undisturbed
  <2>3. CASE UNCHANGED status
    BY <2>1, <2>3 DEF Terminal
  <2>4. CASE Deny \/ Reject \/ Cancel \/ Block \/ RequestCancel \/ \E o \in Ops : MarkUnknown(o)
    BY <2>1, <2>4 DEF Deny, Reject, Cancel, Block, RequestCancel, MarkUnknown, Ends, Terminal
  <2>5. CASE Start \/ RequireInput \/ Approve \/ BindInput \/ \E o \in Ops \cup {None} : RequestApproval(o)
    BY <2>5 DEF Start, RequireInput, Approve, BindInput, RequestApproval
  <2>6. CASE (\E n \in Turns : RecordTurn(n)) \/ \E o \in Ops :
               (\E t \in Tools : Prepare(o, t)) \/ MarkStarted(o) \/ RecordOutcome(o) \/ Settle(o)
               \/ CancelBeforeStart(o)
    BY <2>3, <2>6 DEF RecordTurn, Prepare, MarkStarted, RecordOutcome, Settle, CancelBeforeStart, Moves
  <2> QED
    BY <2>2, <2>4, <2>5, <2>6 DEF RecordNext
<1> QED
  BY <1>1, RecordInvariance, PTL DEF RecordSpec, CancelWins

=============================================================================
