------------------------------ MODULE Metering ------------------------------
(***************************************************************************)
(* What a request to a provider costs, counted once in the ledger of its   *)
(* Session and once in its Goal (core/usage, agent_loop/usage): the durable*)
(* claim of a request, the settlement over the two ledgers, the replay of  *)
(* both at boot, and the deletion of the Session that owns them.           *)
(*                                                                         *)
(* Tokens are not numbers here: a ledger counts how often a request was    *)
(* added and whether its tokens were known.  One Session, one Goal.        *)
(***************************************************************************)
EXTENDS Naturals, FiniteSets

CONSTANTS
  Requests,
  Bound,       \* requests made for the Goal
  Aside,       \* requests made outside the run of the Session: composer, background agents
  None,
  MaxFaults,   \* bound: writes that fail
  MaxCrashes   \* bound: restarts

VARIABLES
  pc,          \* for each request, where its caller is
  told,        \*   its usage was reported (ProviderAttempt in memory)
  claim,       \*   the file of its attempt
  usage,       \* the Session's entry in usage.json
  usageMem,    \*   and in the map of the process
  goal,        \* the Goal's file, or None
  settling,    \* the settlement under the lock of the map: request, stage, and by
               \*   whom: "live", "boot" (a claim), "owed" (a charge at boot), "deletion"
  process,     \* "boot", "live", or "failed" when startup was given up
  session,     \* "alive", "marked" by a tombstone, "staged" in a bundle, "restoring" from
               \*   it after a crash, "committed" (its references remain), "gone"
  manifest,    \* the two ledgers as the bundle has them
  called,      \* ghost: requests that went over the network
  reported,    \* ghost: requests whose usage was made durable
  faults, crashes

requestVars == <<pc, told, claim>>
ledgers == <<usage, usageMem, goal>>
deletion == <<session, manifest>>
ghosts == <<called, reported>>
metering == <<pc, told, claim, usage, usageMem, goal, settling, process, session, manifest, called, reported, faults, crashes>>

Nothing == [count |-> [r \in Requests |-> 0], known |-> {}, receipts |-> {}, pending |-> {}]
NewGoal == [count |-> [r \in Requests |-> 0], receipts |-> {}]

\* A write takes effect, is not made, or is visible while its caller is told
\* that it failed: the repair of the first failure failed too.
Outcomes == {"ok", "lost", "doubt"}
Writes(outcome) ==
  /\ outcome # "ok" => faults < MaxFaults
  /\ faults' = IF outcome = "ok" THEN faults ELSE faults + 1

At(r, label) == pc' = [pc EXCEPT ![r] = label]
Put(r, value) == claim' = [claim EXCEPT ![r] = value]
Attempt(phase, known) == [phase |-> phase, known |-> known]

\* A write of r's claim; the caller goes on to one label or the other.
WriteClaim(r, value, then, otherwise) ==
  \E outcome \in Outcomes :
    /\ Writes(outcome)
    /\ IF outcome = "lost" THEN UNCHANGED claim ELSE Put(r, value)
    /\ At(r, IF outcome = "ok" THEN then ELSE otherwise)

\* The tombstone refuses settlements and runs; a claim is made without asking.
Admitted == session = "alive"

Begin(r) ==
  /\ process = "live" /\ pc[r] = "idle"
  /\ r \in Aside \/ Admitted
  /\ r \in Bound => goal # None
  /\ WriteClaim(r, Attempt("prepared", FALSE), "prepared", "over")
  /\ UNCHANGED <<told, ledgers, settling, process, deletion, ghosts, crashes>>

\* The permit was refused or the caller cancelled: nothing was sent.
Discard(r) ==
  /\ process = "live" /\ pc[r] = "prepared"
  /\ WriteClaim(r, None, "over", "over")
  /\ UNCHANGED <<told, ledgers, settling, process, deletion, ghosts, crashes>>

MarkStarted(r) ==
  /\ process = "live" /\ pc[r] = "prepared"
  /\ WriteClaim(r, Attempt("started", FALSE), "started", "over")
  /\ UNCHANGED <<told, ledgers, settling, process, deletion, ghosts, crashes>>

Call(r) ==
  /\ process = "live" /\ pc[r] = "started"
  /\ At(r, "calling") /\ called' = called \cup {r}
  /\ UNCHANGED <<told, claim, ledgers, settling, process, deletion, reported, faults, crashes>>

\* The stream reports usage; a checkpoint that fails ends the stream only.
Report(r) ==
  /\ process = "live" /\ pc[r] = "calling" /\ ~told[r]
  /\ told' = [told EXCEPT ![r] = TRUE]
  /\ WriteClaim(r, Attempt("started", TRUE), "calling", "streamed")
  /\ reported' = IF claim'[r] = claim[r] THEN reported ELSE reported \cup {r}
  /\ UNCHANGED <<ledgers, settling, process, deletion, called, crashes>>

\* UsageReporter::settle: admission, checkpoint of the attempt ...
Checkpoint(r) ==
  /\ process = "live" /\ pc[r] \in {"calling", "streamed"}
  /\ IF Admitted
     THEN WriteClaim(r, Attempt("started", told[r]), "settling", "over")
     ELSE At(r, "over") /\ UNCHANGED <<claim, faults>>
  /\ UNCHANGED <<told, ledgers, settling, process, deletion, ghosts, crashes>>

\* ... and the lock of the map.  The steps of a settlement:
Settle(r, stage, by) == settling' = [request |-> r, stage |-> stage, by |-> by]

LockMap(r) ==
  /\ process = "live" /\ pc[r] = "settling" /\ settling = None
  /\ Settle(r, "count", "live")
  /\ UNCHANGED <<requestVars, ledgers, process, deletion, ghosts, faults, crashes>>

\* Who asked for the settlement that failed gives up: the caller of the
\* request, the deletion, or startup.
GiveUp ==
  /\ settling' = None
  /\ pc' = IF settling.by = "live" THEN [pc EXCEPT ![settling.request] = "over"] ELSE pc
  /\ session' = IF settling.by = "deletion" THEN "alive" ELSE session
  /\ process' = IF settling.by \in {"boot", "owed"} THEN "failed" ELSE process

Goto(stage) ==
  /\ settling' = [settling EXCEPT !.stage = stage]
  /\ UNCHANGED <<pc, process, session>>

Counted(u, r) ==
  [count |-> [u.count EXCEPT ![r] = @ + 1],
   known |-> IF claim[r].known THEN u.known \cup {r} ELSE u.known,
   receipts |-> u.receipts \cup {r},
   pending |-> IF r \in Bound THEN u.pending \cup {r} ELSE u.pending]

\* A write of the whole map, rolled back in memory when it was not made.
WriteUsage(next, stage) ==
  \E outcome \in Outcomes :
    /\ Writes(outcome)
    /\ IF outcome = "lost" THEN UNCHANGED <<usage, usageMem>> ELSE usageMem' = next /\ usage' = next
    /\ IF outcome = "ok" THEN Goto(stage) ELSE GiveUp

\* Mutant of CountInSession: the receipt is not asked for.
CountAgain ==
  /\ settling # None /\ settling.stage = "count"
  /\ WriteUsage(Counted(usageMem, settling.request), "charge")
  /\ UNCHANGED <<told, claim, goal, manifest, ghosts, crashes>>

\* apply_metering_once: receipt, counts and the charge owed to the Goal in one write.
CountInSession ==
  /\ settling # None /\ settling.stage = "count"
  /\ IF settling.request \in usageMem.receipts
     THEN Goto("charge") /\ UNCHANGED <<usage, usageMem, faults>>
     ELSE WriteUsage(Counted(usageMem, settling.request), "charge")
  /\ UNCHANGED <<told, claim, goal, manifest, ghosts, crashes>>

\* settle_metering_once: receipt and count in one write of the Goal.
Charged(r) ==
  IF r \in goal.receipts THEN goal
  ELSE [count |-> [goal.count EXCEPT ![r] = @ + 1], receipts |-> goal.receipts \cup {r}]

ChargeGoal ==
  /\ settling # None /\ settling.stage = "charge"
  /\ IF settling.request \notin usageMem.pending
     THEN Goto("finish") /\ UNCHANGED <<goal, faults>>
     ELSE IF goal = None
          THEN GiveUp /\ UNCHANGED <<goal, faults>>
          ELSE \E outcome \in Outcomes :
                 /\ Writes(outcome)
                 /\ goal' = IF outcome = "lost" THEN goal ELSE Charged(settling.request)
                 /\ IF outcome = "ok" THEN Goto("acknowledge") ELSE GiveUp
  /\ UNCHANGED <<told, claim, usage, usageMem, manifest, ghosts, crashes>>

Acknowledge ==
  /\ settling # None /\ settling.stage = "acknowledge"
  /\ WriteUsage([usageMem EXCEPT !.pending = @ \ {settling.request}], IF settling.by = "owed" THEN "end" ELSE "finish")
  /\ UNCHANGED <<told, claim, goal, manifest, ghosts, crashes>>

RemoveClaim ==
  /\ settling # None /\ settling.stage = "finish"
  /\ \E outcome \in Outcomes :
       /\ Writes(outcome)
       /\ IF outcome = "lost" THEN UNCHANGED claim ELSE Put(settling.request, None)
       /\ IF outcome = "ok" THEN Goto("forget") ELSE GiveUp
  /\ UNCHANGED <<told, usage, usageMem, goal, manifest, ghosts, crashes>>

\* The receipts guard no replay any more; to fail to remove one is a warning.
Forget ==
  /\ settling # None /\ settling.stage = "forget"
  /\ LET r == settling.request IN
     /\ goal' \in {goal} \cup (IF goal = None \/ r \notin Bound THEN {} ELSE {[goal EXCEPT !.receipts = @ \ {r}]})
     /\ usageMem' = IF r \in usageMem.pending THEN usageMem ELSE [usageMem EXCEPT !.receipts = @ \ {r}]
     /\ usage' \in {usage, usageMem'}
  /\ Goto("end")
  /\ UNCHANGED <<told, claim, manifest, ghosts, faults, crashes>>

Finish ==
  /\ settling # None /\ settling.stage = "end"
  /\ settling' = None
  /\ pc' = IF settling.by = "live" THEN [pc EXCEPT ![settling.request] = "over"] ELSE pc
  /\ UNCHANGED <<told, claim, ledgers, process, deletion, ghosts, faults, crashes>>

Settlement == CountInSession \/ ChargeGoal \/ Acknowledge \/ RemoveClaim \/ Forget \/ Finish

\* At boot: what is owed to the Goal first, then the claims that remain (one
\* that was never started is dropped), then the receipts of both ledgers go.
Replay(r, by) ==
  IF claim[r].phase = "started"
  THEN Settle(r, "count", by) /\ UNCHANGED <<claim, process, session, faults>>
  ELSE \E outcome \in Outcomes :
         /\ Writes(outcome)
         /\ IF outcome = "lost" THEN UNCHANGED claim ELSE Put(r, None)
         /\ process' = IF by = "boot" /\ outcome # "ok" THEN "failed" ELSE process
         /\ session' = IF by = "deletion" /\ outcome # "ok" THEN "alive" ELSE session
         /\ UNCHANGED settling

PayOwed ==
  /\ process = "boot" /\ settling = None
  /\ \E r \in usageMem.pending : Settle(r, "charge", "owed")
  /\ UNCHANGED <<requestVars, ledgers, process, deletion, ghosts, faults, crashes>>

ReplayClaims ==
  /\ process = "boot" /\ settling = None /\ usageMem.pending = {}
  /\ \E r \in Requests : claim[r] # None /\ Replay(r, "boot")
  /\ UNCHANGED <<pc, told, ledgers, manifest, ghosts, crashes>>

Started ==
  /\ process = "boot" /\ settling = None /\ usageMem.pending = {}
  /\ \A r \in Requests : claim[r] = None
  /\ process' = "live"
  /\ usageMem' = [usageMem EXCEPT !.receipts = {}]
  /\ usage' \in {usage, usageMem'}
  /\ goal' \in {goal} \cup (IF goal = None THEN {} ELSE {[goal EXCEPT !.receipts = {}]})
  /\ UNCHANGED <<requestVars, settling, deletion, ghosts, faults, crashes>>

\* A restart; the tombstone of a deletion that had not purged the Session is
\* removed, and one that had is undone from its bundle, or completed.
Crash ==
  /\ crashes < MaxCrashes
  /\ crashes' = crashes + 1
  /\ process' = "boot" /\ settling' = None
  /\ usageMem' = usage
  /\ pc' = [r \in Requests |-> IF pc[r] = "idle" THEN "idle" ELSE "over"]
  /\ told' = [r \in Requests |-> FALSE]
  /\ session' \in CASE session = "marked" -> {"alive"}
                     [] session = "staged" -> {"alive", "restoring"}
                     [] OTHER -> {session}
  /\ UNCHANGED <<claim, usage, goal, manifest, ghosts, faults>>

Restore ==
  /\ process = "live" /\ session = "restoring" /\ settling = None
  /\ session' = "alive"
  /\ usage' = manifest.usage /\ usageMem' = manifest.usage /\ goal' = manifest.goal
  /\ UNCHANGED <<requestVars, settling, process, manifest, ghosts, faults, crashes>>

\* session_delete: no new settlement is let in and those under way are waited
\* for; the tombstone; the run of the Session is stopped.
Delete ==
  /\ process = "live" /\ Admitted
  /\ settling = None /\ \A r \in Requests : pc[r] # "settling"
  /\ session' = "marked"
  /\ UNCHANGED <<requestVars, ledgers, settling, process, manifest, ghosts, faults, crashes>>

RunIsOver == \A r \in Requests \ Aside : pc[r] \in {"idle", "over"}

\* The barrier: the claims of the Session are settled ...
SettleForDeletion ==
  /\ process = "live" /\ session = "marked" /\ RunIsOver /\ settling = None
  /\ \E r \in Requests : claim[r] # None /\ Replay(r, "deletion")
  /\ UNCHANGED <<pc, told, ledgers, manifest, ghosts, crashes>>

\* ... and what it leaves behind is put into the bundle.
Stage ==
  /\ process = "live" /\ session = "marked" /\ RunIsOver /\ settling = None
  /\ \A r \in Requests : claim[r] = None
  /\ session' = "staged"
  /\ manifest' = [usage |-> usageMem, goal |-> goal]
  /\ UNCHANGED <<requestVars, ledgers, settling, process, ghosts, faults, crashes>>

DeletionFails ==
  /\ process = "live" /\ session \in {"marked", "staged"} /\ settling = None
  /\ session' = "alive"
  /\ UNCHANGED <<requestVars, ledgers, settling, process, manifest, ghosts, faults, crashes>>

Commit ==
  /\ process = "live" /\ session = "staged"
  /\ session' = "committed"
  /\ UNCHANGED <<requestVars, ledgers, settling, process, manifest, ghosts, faults, crashes>>

\* cleanup_references, again at the next start if it was not completed.
RemoveGoal ==
  /\ process = "live" /\ session = "committed" /\ goal # None
  /\ goal' = None
  /\ UNCHANGED <<requestVars, usage, usageMem, settling, process, deletion, ghosts, faults, crashes>>

RemoveUsage ==
  /\ process = "live" /\ session = "committed" /\ goal = None /\ settling = None
  /\ session' = "gone"
  /\ usage' = Nothing /\ usageMem' = Nothing
  /\ UNCHANGED <<requestVars, goal, settling, process, manifest, ghosts, faults, crashes>>

Deletion == Delete \/ SettleForDeletion \/ Stage \/ DeletionFails \/ Commit \/ RemoveGoal \/ RemoveUsage

InitMetering ==
  /\ pc = [r \in Requests |-> "idle"]
  /\ told = [r \in Requests |-> FALSE]
  /\ claim = [r \in Requests |-> None]
  /\ usage = Nothing /\ usageMem = Nothing /\ goal = NewGoal
  /\ settling = None /\ process = "live"
  /\ session = "alive" /\ manifest = None
  /\ called = {} /\ reported = {}
  /\ faults = 0 /\ crashes = 0

NextMetering ==
  \/ \E r \in Requests : \/ Begin(r) \/ Discard(r) \/ MarkStarted(r) \/ Call(r)
                         \/ Report(r) \/ Checkpoint(r) \/ LockMap(r)
  \/ Settlement \/ PayOwed \/ ReplayClaims \/ Started
  \/ Deletion \/ Crash \/ Restore

MeteringSpec == InitMetering /\ [][NextMetering]_metering

-----------------------------------------------------------------------------
Once(r) ==
  /\ usage.count[r] <= 1 /\ goal.count[r] <= 1
  /\ r \in called /\ claim[r] = None =>
       usage.count[r] = 1 /\ (r \in Bound => goal.count[r] = 1)
  /\ r \in reported /\ usage.count[r] = 1 => r \in usage.known

\* A request of a run that went over the network and left no claim behind
\* stands once in the ledger of its Session and once in its Goal, with its
\* tokens if they were ever made durable; none stands there twice, after any
\* crash, failing write and replay, whatever requests outside the run do.
CountedOnce == session = "alive" => \A r \in Requests \ Aside : Once(r)

\* Those outside the run are settled for a deletion while they are under way,
\* and their next checkpoint makes a claim again.
AsideCountedOnce == session = "alive" => \A r \in Aside : Once(r)

\* Not so when a request is outside the run (Aside): a start is refused only
\* for a write that failed.  Its claim may be made after the barrier of the
\* deletion, and every later start finds it without its Goal.
StartsAgain == process = "failed" => faults > 0
=============================================================================
