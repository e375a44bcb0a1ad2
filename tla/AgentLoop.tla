----------------------------- MODULE AgentLoop -----------------------------
(***************************************************************************)
(* run_turn (agent/agent_loop): a request to the provider, the calls of    *)
(* tools that it asks for, their results, and again.  The request is       *)
(* claimed before it is sent and settled after it; what a turn did is on   *)
(* saved before the next request.                                           *)
(*                                                                         *)
(* The ledgers are module Metering, the permits module Permits, the drain  *)
(* of notices module Notices, the tool journal of a bot module BotRun.     *)
(***************************************************************************)
EXTENDS Naturals, Sequences, FiniteSets

CONSTANTS
  Plans,        \* what a reply may ask for: sequences of kinds of tools
  MaxTurns,
  MaxAttempts,
  MaxTroubles   \* bound: writes that fail

VARIABLES
  place, turn, attempt,
  refreshed,    \* the credential was refreshed because of a refusal
  cancelled, goalOver,
  reply,        \* of the request in flight
  ended,        \* how its stream ended
  ticket,       \* its durable claim
  spent,        \* a request of this turn may have cost something
  verdicts,     \* told to the circuit of the provider about this request
  asked,        \* of the last reply that asked for tools: their kinds
  tool,         \* where each call is
  effects,      \* calls that took effect
  answers,      \* what the model is told about each
  saved,         \* the answers on disk
  outcome, troubles

loop == <<place, turn, attempt, refreshed, cancelled, goalOver, reply, ended, ticket, spent, verdicts,
  asked, tool, effects, answers, saved, outcome, troubles>>
outside == <<cancelled, goalOver>>
iteration == <<asked, tool, effects, answers, saved>>
request == <<reply, ended, spent, verdicts>>

Silence == [produced |-> FALSE, reported |-> FALSE, plan |-> << >>]

\* A write that may fail: it succeeds, or it is one of the troubles.
Written(ok) == IF ok THEN UNCHANGED troubles ELSE troubles < MaxTroubles /\ troubles' = troubles + 1

Goto(next) == place' = next /\ UNCHANGED outcome
End(how) == place' = "over" /\ outcome' = how

-----------------------------------------------------------------------------
(* The gates before a request. *)

NextTurn ==
  /\ place = "turn"
  /\ turn' = turn + 1 /\ attempt' = 0 /\ refreshed' = FALSE /\ spent' = FALSE
  /\ IF turn' > MaxTurns \/ (goalOver /\ ~ cancelled) THEN End("error")
     ELSE IF cancelled THEN End("aborted")
     ELSE Goto("compact")
  /\ UNCHANGED <<outside, reply, ended, ticket, verdicts, iteration, troubles>>

\* compact_if_needed: its own request, its own claim.
Compact ==
  /\ place = "compact"
  /\ \/ Goto("oauth") /\ UNCHANGED <<ticket, troubles>>
     \/ goalOver /\ End("error") /\ UNCHANGED <<ticket, troubles>>
     \/ \E ok \in BOOLEAN :
          /\ Written(ok)
          /\ IF ok THEN Goto("distil") /\ ticket' = "prepared" ELSE End("error") /\ UNCHANGED ticket
  /\ UNCHANGED <<turn, attempt, refreshed, outside, request, iteration>>

\* It was sent and is settled, or it was not and its claim is discarded.  When
\* the provider fails, the ends of the history stand in for its summary.
Distil ==
  /\ place = "distil"
  /\ \E sent, ok \in BOOLEAN :
       /\ Written(ok)
       /\ ticket' = IF ok THEN "none" ELSE IF sent THEN "started" ELSE "prepared"
       /\ IF ~ ok THEN End("error")
          ELSE \/ cancelled /\ End("aborted")
               \/ sent /\ goalOver /\ End("error")
               \/ Goto("checkpoint")
  /\ UNCHANGED <<turn, attempt, refreshed, outside, request, iteration>>

Checkpoint ==
  /\ place = "checkpoint"
  /\ \E ok \in BOOLEAN : Written(ok) /\ IF ok THEN Goto("oauth") ELSE End("error")
  /\ UNCHANGED <<turn, attempt, refreshed, outside, request, ticket, iteration>>

\* refresh_oauth and dispatch_failure
RefreshOauth ==
  /\ place = "oauth"
  /\ \/ Goto("claim")
     \/ cancelled /\ End("aborted")
     \/ End("error")
  /\ UNCHANGED <<turn, attempt, refreshed, outside, request, ticket, iteration, troubles>>

BeginMeter ==
  /\ place = "claim"
  /\ \E ok \in BOOLEAN :
       /\ Written(ok)
       /\ IF ok THEN Goto("admit") /\ ticket' = "prepared" ELSE End("error") /\ UNCHANGED ticket
  /\ UNCHANGED <<turn, attempt, refreshed, outside, request, iteration>>

\* admit, and discard_pre_network when the request is not let through
Admit ==
  /\ place = "admit"
  /\ \/ Goto("mark") /\ UNCHANGED <<ended, ticket, troubles>>
     \/ \E ok \in BOOLEAN :
          /\ Written(ok)
          /\ ticket' = IF ok THEN "none" ELSE "prepared"
          /\ \/ ok /\ cancelled /\ End("aborted") /\ UNCHANGED ended
             \/ ok /\ goalOver /\ Goto("resolve") /\ ended' = "wall"
             \/ End("error") /\ UNCHANGED ended
  /\ UNCHANGED <<turn, attempt, refreshed, outside, reply, spent, verdicts, iteration>>

\* The start marker, then the request.
MarkStarted ==
  /\ place = "mark"
  /\ \E ok \in BOOLEAN :
       /\ Written(ok)
       /\ IF ok THEN Goto("stream") /\ ticket' = "started" ELSE End("error") /\ UNCHANGED ticket
  /\ reply' = Silence /\ ended' = "no" /\ verdicts' = {}
  /\ UNCHANGED <<turn, attempt, refreshed, outside, spent, iteration>>

-----------------------------------------------------------------------------
(* consume_stream *)

Streaming == place = "stream" /\ ended = "no"

Delta ==
  /\ Streaming
  /\ \/ reply' = [reply EXCEPT !.produced = TRUE]
     \/ \E plan \in Plans : reply.plan = << >> /\ reply' = [reply EXCEPT !.produced = TRUE, !.plan = plan]
  /\ UNCHANGED <<place, turn, attempt, refreshed, outside, ended, ticket, spent, verdicts, iteration, outcome, troubles>>

\* A report of usage is checkpointed in the claim.
Usage ==
  /\ Streaming
  /\ reply' = [reply EXCEPT !.reported = TRUE]
  /\ \E ok \in BOOLEAN : Written(ok) /\ ended' = IF ok THEN "no" ELSE "unchecked"
  /\ spent' = TRUE
  /\ UNCHANGED <<place, turn, attempt, refreshed, outside, ticket, verdicts, iteration, outcome>>

Silent == ~ reply.produced /\ ~ reply.reported

\* Mutant of Verdict: a reply that was cut short by a limit is asked for again.
VerdictAnyhow(error) ==
  IF error = "limited" /\ attempt + 1 < MaxAttempts THEN "failed" ELSE "fatal"

\* Only a refusal that says so, of a request that produced nothing.
Verdict(error) ==
  IF error = "limited" /\ Silent /\ attempt + 1 < MaxAttempts THEN "failed" ELSE "fatal"

\* "done", or an error: a limit (429), a refused credential, or any other, after
\* which the provider may have done the work.  A credential is refreshed once.
Closes ==
  /\ Streaming
  /\ \E close \in {"done", "limited", "denied", "other"} :
       LET heals == close = "denied" /\ Silent /\ ~ refreshed IN
       /\ refreshed' = (refreshed \/ heals)
       /\ \/ close = "done" /\ ended' = "done"
          \/ close # "done" /\ ended' = Verdict(close)
          \/ heals /\ ended' = "again"
          \/ heals /\ cancelled /\ ended' = "aborted"
       /\ spent' = (spent \/ ~ Silent \/ close \in {"done", "other"})
  /\ UNCHANGED <<place, turn, attempt, outside, reply, ticket, verdicts, iteration, outcome, troubles>>

Cut ==
  /\ Streaming
  /\ \/ cancelled /\ ended' = "aborted"
     \/ goalOver /\ ended' = "wall"
  /\ spent' = TRUE
  /\ UNCHANGED <<place, turn, attempt, refreshed, outside, reply, ticket, verdicts, iteration, outcome, troubles>>

-----------------------------------------------------------------------------
(* After the stream *)

\* What the circuit is told at once: a fatal error counts as a success here, and
\* as a failure when the run ends with it (fatal_stream_error).
Told ==
  CASE ended \in {"aborted", "wall", "again"} -> {}
    [] ended = "failed" -> {"failure"}
    [] OTHER -> {"success"}

\* settle_request, record_call_outcome, and what follows from both.
Settle ==
  /\ place = "stream" /\ ended # "no"
  /\ \E ok \in BOOLEAN :
       /\ Written(ok)
       /\ ticket' = IF ok THEN "none" ELSE ticket
       /\ LET stopped == ~ ok \/ (goalOver /\ ended \notin {"aborted", "wall"}) IN
          \/ stopped /\ End("error") /\ verdicts' = Told /\ UNCHANGED attempt
          \/ ok /\ CASE ended = "fatal" -> End("error") /\ verdicts' = Told \cup {"failure"} /\ UNCHANGED attempt
                    [] ended = "unchecked" -> End("error") /\ verdicts' = Told /\ UNCHANGED attempt
                    [] ended = "again" -> Goto("claim") /\ verdicts' = Told /\ UNCHANGED attempt
                    [] ended = "failed" -> Goto("backoff") /\ verdicts' = Told /\ attempt' = attempt + 1
                    [] ended = "aborted" -> End("aborted") /\ verdicts' = Told /\ UNCHANGED attempt
                    [] OTHER -> Goto("resolve") /\ verdicts' = Told /\ UNCHANGED attempt
  /\ UNCHANGED <<turn, refreshed, outside, reply, ended, spent, iteration>>

Backoff ==
  /\ place = "backoff"
  /\ Goto("claim") \/ (cancelled /\ End("aborted"))
  /\ UNCHANGED <<turn, attempt, refreshed, outside, request, ticket, iteration, troubles>>

Resolve ==
  /\ place = "resolve"
  /\ IF ended = "wall" THEN End("error") /\ UNCHANGED iteration
     ELSE IF reply.plan = << >>
     THEN (End("done") \/ (goalOver /\ End("error"))) /\ UNCHANGED iteration
     ELSE /\ Goto("tools")
          /\ asked' = reply.plan /\ tool' = [i \in DOMAIN asked' |-> "todo"]
          /\ effects' = {} /\ answers' = << >> /\ saved' = << >>
  /\ UNCHANGED <<turn, attempt, refreshed, outside, request, ticket, troubles>>

-----------------------------------------------------------------------------
(* execute_calls: reads that follow one another run side by side; any other   *)
(* call runs alone.  A "write" has effect and returns in one poll of its       *)
(* future (a file is written or edited).  An "open" call awaits something      *)
(* after its effect: a worktree, a team, a browser, a domain tool, or anything *)
(* that a post_tool_use hook follows.  A "slow" one does too, but is let       *)
(* finish (needs_cancel_cleanup).                                              *)

Kind(i) == asked[i]
Finished(i) == tool[i] \in {"result", "bare", "unknown"}

\* The calls before i that are not of the same batch are finished.
MayStart(i) ==
  \A j \in 1 .. i - 1 : Finished(j) \/ (\A k \in j .. i : Kind(k) = "read")

\* A batch is not begun after a cancel.
Halted == cancelled \/ \E i \in DOMAIN tool : tool[i] \in {"bare", "unknown"}
SameBatch(i, j) == \A k \in (IF i < j THEN i .. j ELSE j .. i) : Kind(k) = "read"
Begun(i) == \E j \in DOMAIN tool : j # i /\ tool[j] # "todo" /\ SameBatch(i, j)

StartCall(i) ==
  /\ place = "tools" /\ tool[i] = "todo" /\ MayStart(i)
  /\ i = 1 \/ Begun(i) \/ ~ Halted
  /\ tool' = [tool EXCEPT ![i] = "running"]
  /\ UNCHANGED <<place, turn, attempt, refreshed, outside, request, ticket, asked, effects, answers, saved, outcome, troubles>>

TakeEffect(i) ==
  /\ place = "tools" /\ i \notin effects
  /\ tool[i] \in {"running", "grace"} /\ Kind(i) # "read"
  /\ effects' = effects \cup {i}
  /\ tool' = IF Kind(i) = "write" THEN [tool EXCEPT ![i] = "result"] ELSE tool
  /\ UNCHANGED <<place, turn, attempt, refreshed, outside, request, ticket, asked, answers, saved, outcome, troubles>>

\* It returns: with or without effect.
ReturnCall(i) ==
  /\ place = "tools" /\ tool[i] \in {"running", "grace"}
  /\ tool' = [tool EXCEPT ![i] = "result"]
  /\ UNCHANGED <<place, turn, attempt, refreshed, outside, request, ticket, asked, effects, answers, saved, outcome, troubles>>

\* Mutant of Interrupt: no window in which the tool cleans up.
InterruptAtOnce(i) ==
  /\ place = "tools" /\ cancelled /\ tool[i] = "running"
  /\ tool' = [tool EXCEPT ![i] = "bare"]
  /\ UNCHANGED <<place, turn, attempt, refreshed, outside, request, ticket, asked, effects, answers, saved, outcome, troubles>>

\* A cancel drops the future, or gives the tool a while first.
Interrupt(i) ==
  /\ place = "tools"
  /\ \/ cancelled /\ tool[i] = "running"
        /\ tool' = [tool EXCEPT ![i] = IF Kind(i) = "slow" THEN "grace" ELSE "bare"]
     \/ tool[i] = "grace" /\ tool' = [tool EXCEPT ![i] = "unknown"]
  /\ UNCHANGED <<place, turn, attempt, refreshed, outside, request, ticket, asked, effects, answers, saved, outcome, troubles>>

Idle(i) == tool[i] = "todo" \/ Finished(i)

\* Each call is answered, in the order of the calls; then the turn is saved, its
\* Goal charged, and the run goes on or ends.
Persisted(ok) == IF ok THEN saved' = answers' ELSE UNCHANGED saved

\* The detector of loops ends the run at a call (looped); what the reads beside
\* it found is not kept.
CloseTurn ==
  /\ place = "tools" /\ \A i \in DOMAIN tool : Idle(i)
  /\ \E looped \in {0} \cup DOMAIN tool :
       /\ looped # 0 => tool[looped] = "result" /\ \A i \in DOMAIN tool : i > looped /\ Finished(i) => SameBatch(looped, i)
       /\ \E i \in DOMAIN tool : Finished(i)
       /\ \A i \in DOMAIN tool : Finished(i) \/ ~ Begun(i)
       /\ looped # 0 \/ Halted \/ \A i \in DOMAIN tool : Finished(i)
       /\ answers' = [i \in DOMAIN tool |-> IF Finished(i) /\ (looped = 0 \/ i <= looped) THEN tool[i] ELSE "skipped"]
       /\ \E ok \in BOOLEAN :
            /\ Written(ok) /\ Persisted(ok)
            /\ IF ~ ok THEN End("error")
               ELSE IF Halted THEN End("aborted")
               ELSE IF looped # 0 THEN End("error")
               ELSE Goto("turn") \/ (goalOver /\ End("error"))
  /\ UNCHANGED <<turn, attempt, refreshed, outside, request, ticket, asked, tool, effects>>

-----------------------------------------------------------------------------
Cancel ==
  /\ ~ cancelled /\ cancelled' = TRUE
  /\ UNCHANGED <<place, turn, attempt, refreshed, goalOver, request, ticket, iteration, outcome, troubles>>

\* Its wall budget is used up, or somebody pauses or cancels it.
GoalEnds ==
  /\ ~ goalOver /\ goalOver' = TRUE
  /\ UNCHANGED <<place, turn, attempt, refreshed, cancelled, request, ticket, iteration, outcome, troubles>>

InitLoop ==
  /\ place = "turn" /\ turn = 0 /\ attempt = 0 /\ refreshed = FALSE
  /\ cancelled = FALSE /\ goalOver = FALSE
  /\ reply = Silence /\ ended = "no" /\ ticket = "none" /\ spent = FALSE /\ verdicts = {}
  /\ asked = << >> /\ tool = << >> /\ effects = {} /\ answers = << >> /\ saved = << >>
  /\ outcome = "none" /\ troubles = 0

NextLoop ==
  \/ NextTurn \/ Compact \/ Distil \/ Checkpoint \/ RefreshOauth
  \/ BeginMeter \/ Admit \/ MarkStarted
  \/ Delta \/ Usage \/ Closes \/ Cut
  \/ Settle \/ Backoff \/ Resolve \/ CloseTurn
  \/ \E i \in DOMAIN tool : StartCall(i) \/ TakeEffect(i) \/ ReturnCall(i) \/ Interrupt(i)
  \/ place # "over" /\ (Cancel \/ GoalEnds)

LoopSpec == InitLoop /\ [][NextLoop]_loop

-----------------------------------------------------------------------------
\* A request is repeated only when nothing of it was produced, reported or may
\* have been charged: neither the retry after a limit nor the one after a
\* refreshed credential pays twice (llm/retry.rs).
PaidOnce == place \in {"claim", "admit", "mark"} => ~ spent

\* What the tools did is on disk, as the model was told it, before the next
\* request is sent and when the run ends without an error (resolve); and a call
\* that took effect is never answered by the bare "(interrupted)", which the
\* model takes for "was not executed" (run_calls.rs), unless it is an open one.
EffectsAreKnown ==
  \A i \in effects :
    /\ (place \notin {"tools", "over"} \/ outcome \in {"done", "aborted"}) => i \in DOMAIN saved /\ saved[i] = answers[i]
    /\ i \in DOMAIN answers /\ Kind(i) # "open" => answers[i] \in {"result", "unknown"}

\* Nor is an open one: the placeholder says whether a side effect is possible
\* (run_calls.rs: INTERRUPTED).
EveryEffectIsKnown == \A i \in effects : i \in DOMAIN answers => answers[i] # "bare"

\* A request that failed is not reported as a success.
ErrorNeverHeals == ended \in {"fatal", "failed"} => "success" \notin verdicts
=============================================================================
