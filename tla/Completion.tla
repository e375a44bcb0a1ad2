----------------------------- MODULE Completion -----------------------------
(***************************************************************************)
(* The completion of a Goal: a paid judgement of the evidence, recorded in  *)
(* the Goal before, during and after the request (core/goal/completion,     *)
(* agent_loop/goal_tool/completion), against the owner, the budget and a    *)
(* restart.                                                                 *)
(*                                                                          *)
(* One Goal whose contract keeps its words; its budget is not counted: any  *)
(* charge may exhaust it.  The claim of the Provider is Metering's, taken   *)
(* here for what it says at a restart.  A write of the Goal is repaired     *)
(* once: when that fails as well, it may be visible all the same.           *)
(***************************************************************************)
EXTENDS Naturals, FiniteSets

CONSTANTS
  Callers,         \* runs that may call the tool
  Evidence,
  None,
  MaxJudgements,   \* bound: completion claims that are created
  MaxMishaps,      \* bound: writes that fail
  MaxRestarts      \* bound: restarts

VARIABLES
  goal,       \* [status, attempt]: the file of the Goal
  marker,     \* the Provider's claim of each operation: "none", "prepared", "started"
  counted,    \* what the ledgers say of it: "none", "known", "unknown"
  judging,    \* who holds completion_lock
  step,       \* where each caller is
  job,        \* and its operation and evidence
  usage,      \* what the judge reported of an operation
  sent,       \* requests that the owner has not acknowledged by an adjust
  next,       \* the next operation
  mishaps, restarts

completion == <<goal, marker, counted, judging, step, job, usage, sent, next, mishaps, restarts>>

Operations == 1 .. MaxJudgements

Statuses == {"Active", "Paused", "Complete", "Blocked", "BudgetLimited", "Canceled"}
Is(statuses) == goal.status \in statuses

\* An attempt; outcome and usage are there once it is scored.
Attempt(op, evidence, phase) ==
  [op |-> op, evidence |-> evidence, phase |-> phase, outcome |-> None, usage |-> None]
Holds(phases) == goal.attempt # None /\ goal.attempt.phase \in phases
Mine(c) == goal.attempt # None /\ goal.attempt.op = job[c].op

Goto(c, label) == step' = [step EXCEPT ![c] = label]
Proceed(c, label) == Goto(c, label) /\ UNCHANGED <<judging, job>>
End(c) == Goto(c, "idle") /\ judging' = None /\ job' = [job EXCEPT ![c] = None]

Mishap == mishaps < MaxMishaps /\ mishaps' = mishaps + 1

\* save_repaired: done, or failed and perhaps visible.
Saved(new, ok) ==
  IF ok THEN goal' = new /\ UNCHANGED mishaps
        ELSE goal' \in {goal, new} /\ Mishap

-----------------------------------------------------------------------------
(* The request *)

\* admit: a score of this evidence is used again; without an attempt a new
\* one is claimed.  Anything else is a conflict.
Admit(c, e) ==
  /\ step[c] = "idle" /\ judging = None
  /\ \/ /\ Holds({"Scored"}) /\ goal.attempt.evidence = e
        /\ Is({"Active", "Complete"})
        /\ Goto(c, "finalize") /\ judging' = c
        /\ job' = [job EXCEPT ![c] = [op |-> goal.attempt.op, evidence |-> e]]
        /\ UNCHANGED <<goal, mishaps, next>>
     \/ /\ goal.attempt = None /\ Is({"Active"})
        /\ next \in Operations /\ next' = next + 1
        /\ \E ok \in BOOLEAN :
             /\ Saved([goal EXCEPT !.attempt = Attempt(next, e, "Claimed")], ok)
             /\ IF ok THEN /\ Goto(c, "begin") /\ judging' = c
                           /\ job' = [job EXCEPT ![c] = [op |-> next, evidence |-> e]]
                      ELSE UNCHANGED <<step, judging, job>>
  /\ UNCHANGED <<marker, counted, usage, sent, restarts>>

\* The claim with the Provider, before anything is sent.
Begin(c) ==
  /\ step[c] = "begin"
  /\ \/ /\ marker' = [marker EXCEPT ![job[c].op] = "prepared"]
        /\ Proceed(c, "prepare") /\ UNCHANGED mishaps
     \/ /\ Mishap
        /\ \E m \in {"none", "prepared"} : marker' = [marker EXCEPT ![job[c].op] = m]
        /\ Proceed(c, "clear")
  /\ UNCHANGED <<goal, counted, usage, sent, next, restarts>>

\* mark_prepared: from now on a restart takes it for sent.
Prepare(c) ==
  /\ step[c] = "prepare"
  /\ IF Mine(c) /\ Holds({"Claimed", "Prepared"})
     THEN \E ok \in BOOLEAN : /\ Saved([goal EXCEPT !.attempt.phase = "Prepared"], ok)
                              /\ Proceed(c, IF ok THEN "ask" ELSE "discard")
     ELSE Proceed(c, "discard") /\ UNCHANGED <<goal, mishaps>>
  /\ UNCHANGED <<marker, counted, usage, sent, next, restarts>>

\* score_completion: it is admitted and crosses the boundary, or it is not
\* admitted, or the boundary cannot be written.
Ask(c) ==
  /\ step[c] = "ask"
  /\ \/ /\ marker' = [marker EXCEPT ![job[c].op] = "started"]
        /\ sent' = sent \cup {job[c].op}
        /\ Proceed(c, "asked") /\ UNCHANGED mishaps
     \/ Proceed(c, "discard") /\ UNCHANGED <<marker, sent, mishaps>>
     \/ /\ Mishap
        /\ \E m \in {"prepared", "started"} : marker' = [marker EXCEPT ![job[c].op] = m]
        /\ Proceed(c, "discard") /\ UNCHANGED sent
  /\ UNCHANGED <<goal, counted, usage, next, restarts>>

\* The run was cancelled, its grace is over and the future is dropped.
Drop(c) ==
  /\ step[c] \in {"ask", "asked"}
  /\ End(c)
  /\ UNCHANGED <<goal, marker, counted, usage, sent, next, mishaps, restarts>>

\* Nothing was sent: discard_unstarted, then clear_claim.
Discard(c) ==
  /\ step[c] = "discard"
  /\ \/ marker' = [marker EXCEPT ![job[c].op] = "none"] /\ UNCHANGED mishaps
     \/ Mishap /\ UNCHANGED marker
  /\ Proceed(c, "clear")
  /\ UNCHANGED <<goal, counted, usage, sent, next, restarts>>

Clear(c) ==
  /\ step[c] = "clear"
  /\ IF Mine(c) THEN \E ok \in BOOLEAN : Saved([goal EXCEPT !.attempt = None], ok)
                ELSE UNCHANGED <<goal, mishaps>>
  /\ End(c)
  /\ UNCHANGED <<marker, counted, usage, sent, next, restarts>>

-----------------------------------------------------------------------------
(* The answer *)

\* store_outcome comes before the settlement; an error, and a criterion that
\* is not met, are a failure.
Answer(c, outcome, report) ==
  /\ step[c] = "asked"
  /\ usage' = [usage EXCEPT ![job[c].op] = report]
  /\ IF Mine(c) /\ Holds({"Prepared"})
     THEN \E ok \in BOOLEAN :
            /\ Saved([goal EXCEPT !.attempt.phase = "Scored", !.attempt.outcome = outcome,
                                  !.attempt.usage = report], ok)
            /\ Proceed(c, IF ok THEN "settle" ELSE "lost")
     ELSE Proceed(c, "lost") /\ UNCHANGED <<goal, mishaps>>
  /\ UNCHANGED <<marker, counted, sent, next, restarts>>

Charged(g) == {g} \cup IF g.status = "Active" THEN {[g EXCEPT !.status = "BudgetLimited"]} ELSE {}

\* observe_usage and settle: counted once, the Goal charged, the claim removed.
\* A budget that is exhausted ends the request.
Settle(c) ==
  /\ step[c] \in {"settle", "lost"}
  /\ \/ /\ counted' = [counted EXCEPT ![job[c].op] = usage[job[c].op]]
        /\ marker' = [marker EXCEPT ![job[c].op] = "none"]
        /\ goal' \in Charged(goal)
        /\ IF step[c] = "lost" THEN Proceed(c, "recover")
           ELSE IF goal'.status = "BudgetLimited" THEN End(c)
           ELSE Proceed(c, "finalize")
        /\ UNCHANGED mishaps
     \/ /\ Mishap
        /\ IF step[c] = "lost" THEN Proceed(c, "recover") ELSE End(c)
        /\ UNCHANGED <<marker, counted, goal>>
  /\ UNCHANGED <<usage, sent, next, restarts>>

\* Mutant of Interrupted: whatever has no score is claimed anew.
InterruptedIsFree(g) ==
  IF g.attempt # None /\ g.attempt.phase \in {"Claimed", "Prepared"}
  THEN [g EXCEPT !.attempt = None] ELSE g

\* recover_interrupted_completion: what was claimed is free again, what may
\* have been sent is unknown, and blocks an active Goal.
Interrupted(g) ==
  CASE g.attempt # None /\ g.attempt.phase = "Claimed" -> [g EXCEPT !.attempt = None]
    [] g.attempt # None /\ g.attempt.phase = "Prepared" ->
         [g EXCEPT !.attempt.phase = "Unknown",
                   !.status = IF @ = "Active" THEN "Blocked" ELSE @]
    [] OTHER -> g

\* recover_unknown, of the caller whose outcome could not be stored.
Recover(c) ==
  /\ step[c] = "recover"
  /\ IF Mine(c) /\ Holds({"Prepared"})
     THEN \E ok \in BOOLEAN : Saved(Interrupted(goal), ok)
     ELSE UNCHANGED <<goal, mishaps>>
  /\ End(c)
  /\ UNCHANGED <<marker, counted, usage, sent, next, restarts>>

\* finalize: all criteria are met by this evidence, and the Goal is active.
Finalize(c) ==
  /\ step[c] = "finalize"
  /\ IF /\ Holds({"Scored"}) /\ goal.attempt.evidence = job[c].evidence
        /\ goal.attempt.outcome = "pass" /\ Is({"Active"})
     THEN \E ok \in BOOLEAN : Saved([goal EXCEPT !.status = "Complete"], ok)
     ELSE UNCHANGED <<goal, mishaps>>
  /\ End(c)
  /\ UNCHANGED <<marker, counted, usage, sent, next, restarts>>

-----------------------------------------------------------------------------
(* The owner, the other requests of the run, a restart.  These writes are    *)
(* not repaired: one that fails is one that was not made, or one that was.   *)

Turns(from, to) ==
  /\ goal.status \in from
  /\ goal' = [goal EXCEPT !.status = to]
  /\ UNCHANGED <<marker, counted, judging, step, job, usage, sent, next, mishaps, restarts>>

Pause == Turns({"Active"}, "Paused")
Resume == Turns({"Paused", "Blocked"}, "Active")

\* record_turn: the third block of one reason, or the end of the budget.
RecordTurn == \E to \in {"Blocked", "BudgetLimited"} : Turns({"Active"}, to)

Cancel ==
  /\ ~ Is({"Complete", "Canceled"})
  /\ goal' = [goal EXCEPT !.status = "Canceled", !.attempt = None]
  /\ UNCHANGED <<marker, counted, judging, step, job, usage, sent, next, mishaps, restarts>>

\* adjust: the owner takes note of a judgement that is lost, or gives up one
\* that was made; a higher budget keeps one that was passed.
Adjust ==
  /\ \/ Is({"Blocked"}) /\ Holds({"Unknown"})
     \/ Is({"Active"}) /\ Holds({"Scored"})
     \/ Is({"BudgetLimited"})
  /\ LET kept == Is({"BudgetLimited"})
                 /\ (Holds({"Claimed", "Prepared"}) \/ (Holds({"Scored"}) /\ goal.attempt.outcome = "pass")) IN
     /\ goal' = [status |-> "Active", attempt |-> IF kept THEN goal.attempt ELSE None]
     /\ sent' = IF kept THEN sent ELSE {}
  /\ UNCHANGED <<marker, counted, judging, step, job, usage, next, mishaps, restarts>>

\* Mutant of Hydrated: only the claim itself is asked.
HydratedFromClaim(op) == "unknown"

\* hydrate_completion_usage_in: a claim that crossed the boundary and has no
\* usage takes it from the scored attempt of its Goal.
Hydrated(op) ==
  IF Holds({"Scored"}) /\ goal.attempt.op = op THEN goal.attempt.usage ELSE "unknown"

\* reconcile_completion_attempts of one Goal.
Reconciled(g) ==
  IF g.status = "Canceled" \/ (g.status = "Complete" /\ g.attempt # None /\ g.attempt.phase # "Scored")
  THEN [g EXCEPT !.attempt = None] ELSE Interrupted(g)

\* Startup: the claims are settled first, then the attempts.
Restart ==
  LET Owed == {op \in Operations : marker[op] = "started"} IN
  /\ restarts < MaxRestarts /\ restarts' = restarts + 1
  /\ counted' = [op \in Operations |->
       IF op \in Owed /\ counted[op] = "none" THEN Hydrated(op) ELSE counted[op]]
  /\ marker' = [op \in Operations |-> "none"]
  /\ \E g \in (IF Owed # {} THEN Charged(goal) ELSE {goal}) : goal' = Reconciled(g)
  /\ step' = [c \in Callers |-> "idle"] /\ job' = [c \in Callers |-> None]
  /\ judging' = None
  /\ UNCHANGED <<usage, sent, next, mishaps>>

InitCompletion ==
  /\ goal = [status |-> "Active", attempt |-> None]
  /\ marker = [op \in Operations |-> "none"]
  /\ counted = [op \in Operations |-> "none"]
  /\ usage = [op \in Operations |-> "none"]
  /\ judging = None
  /\ step = [c \in Callers |-> "idle"] /\ job = [c \in Callers |-> None]
  /\ sent = {} /\ next = 1 /\ mishaps = 0 /\ restarts = 0

Request(c) ==
  \/ \E e \in Evidence : Admit(c, e)
  \/ Begin(c) \/ Prepare(c) \/ Ask(c) \/ Drop(c) \/ Discard(c) \/ Clear(c)
  \/ \E outcome \in {"pass", "fail"}, report \in {"known", "unknown"} : Answer(c, outcome, report)
  \/ Settle(c) \/ Recover(c) \/ Finalize(c)

NextCompletion ==
  \/ \E c \in Callers : Request(c)
  \/ Pause \/ Resume \/ RecordTurn \/ Cancel \/ Adjust \/ Restart

SpecCompletion == InitCompletion /\ [][NextCompletion]_completion

-----------------------------------------------------------------------------
TypeOK ==
  /\ goal.status \in Statuses
  /\ judging \in Callers \cup {None}
  /\ \A c \in Callers : (step[c] # "idle") = (judging = c)
  /\ sent \subseteq Operations

\* A judgement is paid for once: until the owner adjusts the Goal, no second
\* request is sent, whatever failed, was dropped, cancelled or restarted
\* (admit_completion, recover_interrupted_completion).
JudgedOnce == Cardinality(sent) <= 1

\* What the Goal knows of the cost of its judgement is never counted as
\* unknown (hydrate_completion_usage_in).
KnownIsCounted ==
  [][\A op \in Operations :
       counted[op] = "none" /\ counted'[op] = "unknown"
         => ~ (Holds({"Scored"}) /\ goal.attempt.op = op /\ goal.attempt.usage = "known")]_completion

\* A judgement that is lost can be acknowledged by an adjust.  A Goal that was
\* resumed, or paused when it was lost, is active: adjust refuses it, and so
\* does every later completion.
LostCanBeAdjusted == Holds({"Unknown"}) => ~ Is({"Active"})

\* A judgement in progress has a caller that will end it.  One whose caller
\* was dropped stays in progress until the next restart.
InProgressIsAlive ==
  Holds({"Claimed", "Prepared"}) => \E c \in Callers : job[c] # None /\ Mine(c)
=============================================================================
