------------------------------ MODULE Approval ------------------------------
(***************************************************************************)
(* The gate before a shell command (tools/exec safety_gate, agent/approval):*)
(* the rules of the Session and of its Workspace, then a question to the    *)
(* person that an answer, the timeout, an abort, the sweep of a Session and *)
(* the end of the asking future compete for.                                *)
(*                                                                          *)
(* All questions are of one Session and share one CancelToken.  A rule is   *)
(* named by the question it was made for; none of them expires, as made     *)
(* here.  The grant of an autonomous mode and the text matching of rules    *)
(* are left out: Command says which questions are about the same command.   *)
(***************************************************************************)
EXTENDS Naturals, FiniteSets

CONSTANTS
  Asks,
  Command,     \* [Asks -> commands]
  Kept,        \* questions whose answer may become a rule
  Revoker,     \* who revokes a rule of the Workspace: not one of Asks
  None,
  MaxIncidents  \* bound: writes that fail, and revocations

VARIABLES
  pending,       \* ApprovalBroker.pending
  channel,       \* what the sender did: "open", "allow", "deny", "closed"
  holder,        \* who took the entry: "none", "allow", "deny", "lost", "sweep", "swept"
  waiter,        \* where the asking future is
  heard,         \* and whether the token has woken it
  verdict,       \* what it returned: "none", "allow", "deny", "timeout", "rule"
  told,          \* [Asks -> decisions written to the Session]
  token,         \* the CancelToken: "clear", "set", "notified"
  sessionRules, cache, file,   \* rules: of the Session, cached and in the file
  edit, copy,    \* who is at work on the rules of the Workspace, and his copy
  revoked,       \* rules whose revocation was confirmed
  incidents

broker == <<pending, channel, holder>>
asking == <<waiter, heard, verdict>>
rules == <<sessionRules, cache, file, edit, copy, revoked>>
approval == <<broker, asking, told, token, rules, incidents>>

Editors == Asks \cup {Revoker}

\* A decision in the Session, or a write that fails.
Written(a, decision, ok) ==
  /\ told' = IF ok THEN [told EXCEPT ![a] = @ \cup {decision}] ELSE told
  /\ ok \/ incidents < MaxIncidents
  /\ incidents' = IF ok THEN incidents ELSE incidents + 1

Persist(a, decision) == \E ok \in BOOLEAN : Written(a, decision, ok)

Goto(a, label) == waiter' = [waiter EXCEPT ![a] = label]
Return(a, answer) == Goto(a, "done") /\ verdict' = [verdict EXCEPT ![a] = answer]
Turn(e, step) == edit' = [edit EXCEPT ![e] = step]

-----------------------------------------------------------------------------
(* Rules *)

Hits(a, known) == \E r \in known : Command[r] = Command[a]

\* try_rule_allow, rules of the Session: audited under their lock.
TrySessionRules(a) ==
  /\ waiter[a] = "new"
  /\ UNCHANGED <<broker, heard, token, sessionRules, cache, file, copy, revoked>>
  /\ IF ~ Hits(a, sessionRules)
     THEN Turn(a, "fetch") /\ Goto(a, "rules") /\ UNCHANGED <<verdict, told, incidents>>
     ELSE /\ UNCHANGED edit
          /\ \/ Written(a, "rule_allow", TRUE) /\ Return(a, "rule")
             \/ Written(a, "rule_allow", FALSE) /\ Goto(a, "register") /\ UNCHANGED verdict

\* cached_workspace_rules: what is cached, or else the file, which is cached.
Fetch(e) ==
  /\ edit[e] = "fetch"
  /\ IF cache # None THEN copy' = [copy EXCEPT ![e] = cache] /\ Turn(e, "change")
                     ELSE UNCHANGED copy /\ Turn(e, "load")
  /\ UNCHANGED <<broker, asking, told, token, sessionRules, cache, file, revoked, incidents>>

Load(e) ==
  /\ edit[e] = "load"
  /\ copy' = [copy EXCEPT ![e] = file] /\ Turn(e, "fill")
  /\ UNCHANGED <<broker, asking, told, token, sessionRules, cache, file, revoked, incidents>>

Fill(e) ==
  /\ edit[e] = "fill"
  /\ cache' = copy[e] /\ Turn(e, "change")
  /\ UNCHANGED <<broker, asking, told, token, sessionRules, file, copy, revoked, incidents>>

\* A rule that fits is audited; its count of uses goes to the file afterwards.
TryWorkspaceRules(a) ==
  /\ edit[a] = "change" /\ waiter[a] = "rules"
  /\ UNCHANGED <<broker, heard, verdict, token, sessionRules, cache, file, copy, revoked>>
  /\ IF Hits(a, copy[a])
     THEN \/ Written(a, "rule_allow", TRUE) /\ Turn(a, "save") /\ UNCHANGED waiter
          \/ Written(a, "rule_allow", FALSE) /\ Turn(a, "no") /\ Goto(a, "register")
     ELSE Turn(a, "no") /\ Goto(a, "register") /\ UNCHANGED <<told, incidents>>

\* remember_rule, of a Workspace
Remember(a) ==
  /\ edit[a] = "change" /\ waiter[a] # "rules"
  /\ copy' = [copy EXCEPT ![a] = @ \cup {a}] /\ Turn(a, "save")
  /\ UNCHANGED <<broker, asking, told, token, sessionRules, cache, file, revoked, incidents>>

\* revoke_rule, of a rule that is on the list
BeginRevoke ==
  /\ edit[Revoker] = "no" /\ file # {} /\ incidents < MaxIncidents
  /\ Turn(Revoker, "fetch") /\ incidents' = incidents + 1
  /\ UNCHANGED <<broker, asking, told, token, sessionRules, cache, file, copy, revoked>>

Revoke ==
  /\ edit[Revoker] = "change"
  /\ IF copy[Revoker] = {} THEN Turn(Revoker, "no") /\ UNCHANGED copy
     ELSE /\ \E r \in copy[Revoker] : copy' = [copy EXCEPT ![Revoker] = @ \ {r}]
          /\ Turn(Revoker, "save")
  /\ UNCHANGED <<broker, asking, told, token, sessionRules, cache, file, revoked, incidents>>

Save(e) ==
  /\ edit[e] = "save"
  /\ \/ file' = copy[e] /\ Turn(e, "insert") /\ UNCHANGED <<waiter, incidents>>
     \/ /\ incidents < MaxIncidents /\ incidents' = incidents + 1
        /\ Turn(e, "no") /\ UNCHANGED file
        /\ waiter' = IF e \in Asks /\ waiter[e] = "rules" THEN [waiter EXCEPT ![e] = "register"] ELSE waiter
  /\ UNCHANGED <<broker, heard, verdict, told, token, sessionRules, cache, copy, revoked>>

Insert(e) ==
  /\ edit[e] = "insert"
  /\ cache' = copy[e] /\ Turn(e, "no")
  /\ revoked' = IF e = Revoker THEN {r \in Asks : r \notin copy[e] /\ r \in cache} ELSE revoked
  /\ IF e \in Asks /\ waiter[e] = "rules" THEN Return(e, "rule") ELSE UNCHANGED <<waiter, verdict>>
  /\ UNCHANGED <<broker, heard, told, token, sessionRules, file, copy, incidents>>

-----------------------------------------------------------------------------
(* The question *)

Register(a) ==
  /\ waiter[a] = "register"
  /\ pending' = pending \cup {a}
  /\ Goto(a, "test")
  /\ UNCHANGED <<channel, holder, heard, verdict, told, token, rules, incidents>>

\* CancelToken::wait tests the flag, and makes its notification afterwards.
Test(a) ==
  /\ waiter[a] = "test"
  /\ IF token # "clear" THEN Goto(a, "select") /\ heard' = [heard EXCEPT ![a] = TRUE]
                        ELSE Goto(a, "listen") /\ UNCHANGED heard
  /\ UNCHANGED <<broker, verdict, told, token, rules, incidents>>

Listen(a) ==
  /\ waiter[a] = "listen" /\ Goto(a, "select")
  /\ UNCHANGED <<broker, heard, verdict, told, token, rules, incidents>>

\* cancel(): the flag, then everybody who listens.
Cancel ==
  /\ token = "clear" /\ token' = "set"
  /\ UNCHANGED <<broker, asking, told, rules, incidents>>

Notify ==
  /\ token = "set" /\ token' = "notified"
  /\ heard' = [a \in Asks |-> heard[a] \/ waiter[a] = "select"]
  /\ UNCHANGED <<broker, waiter, verdict, told, rules, incidents>>

Answer(a) == IF channel[a] = "allow" THEN "allow" ELSE "deny"

\* wait(): the answer, ...
Receive(a) ==
  /\ waiter[a] \in {"select", "late"} /\ channel[a] # "open"
  /\ Return(a, Answer(a))
  /\ UNCHANGED <<broker, heard, told, token, rules, incidents>>

\* Mutant of Lapse: the waiter decides although somebody else has.
LapseAlone(a) ==
  /\ waiter[a] = "select"
  /\ pending' = pending \ {a}
  /\ \/ Persist(a, "timeout") /\ Return(a, "timeout")
     \/ heard[a] /\ Persist(a, "cancel") /\ Return(a, "deny")
  /\ UNCHANGED <<channel, holder, heard, token, rules>>

\* ... or the timeout or an abort, if the entry is still there; else whoever
\* has it decides.
Lapse(a) ==
  /\ waiter[a] = "select"
  /\ IF a \in pending
     THEN /\ pending' = pending \ {a}
          /\ \/ Persist(a, "timeout") /\ Return(a, "timeout")
             \/ heard[a] /\ Persist(a, "cancel") /\ Return(a, "deny")
     ELSE Goto(a, "late") /\ UNCHANGED <<pending, verdict, told, incidents>>
  /\ UNCHANGED <<channel, holder, heard, token, rules>>

\* The future is dropped: first its receiver, then WaitCleanup.
Drop(a) ==
  /\ waiter[a] \in {"select", "late"} /\ Goto(a, "left")
  /\ UNCHANGED <<broker, heard, verdict, told, token, rules, incidents>>

Cleanup(a) ==
  /\ waiter[a] = "left" /\ Goto(a, "gone")
  /\ pending' = pending \ {a}
  /\ IF a \in pending THEN Persist(a, "cancel") ELSE UNCHANGED <<told, incidents>>
  /\ UNCHANGED <<channel, holder, heard, verdict, token, rules>>

-----------------------------------------------------------------------------
(* respond_ext and cancel_session *)

Respond(a, answer) ==
  /\ a \in pending
  /\ pending' = pending \ {a}
  /\ holder' = [holder EXCEPT ![a] = answer]
  /\ UNCHANGED <<channel, asking, told, token, rules, incidents>>

Send(a) ==
  /\ holder[a] \in {"allow", "deny"} /\ channel[a] = "open"
  /\ IF waiter[a] \in {"left", "gone"}
     THEN channel' = [channel EXCEPT ![a] = "closed"] /\ holder' = [holder EXCEPT ![a] = "lost"]
     ELSE channel' = [channel EXCEPT ![a] = holder[a]] /\ UNCHANGED holder
  /\ UNCHANGED <<pending, asking, told, token, rules, incidents>>

\* The decision is written after it was sent; then a rule may be made of it.
Record(a) ==
  /\ holder[a] \in {"allow", "deny", "lost"} /\ channel[a] # "open"
  /\ holder' = [holder EXCEPT ![a] = "none"]
  /\ Persist(a, IF holder[a] = "lost" THEN "cancel" ELSE holder[a])
  /\ \/ UNCHANGED <<sessionRules, edit>>
     \/ holder[a] = "allow" /\ a \in Kept /\ sessionRules' = sessionRules \cup {a} /\ UNCHANGED edit
     \/ holder[a] = "allow" /\ a \in Kept /\ Turn(a, "fetch") /\ UNCHANGED sessionRules
  /\ UNCHANGED <<pending, channel, asking, token, cache, file, copy, revoked>>

Sweep ==
  /\ pending # {}
  /\ pending' = {}
  /\ holder' = [a \in Asks |-> IF a \in pending THEN "sweep" ELSE holder[a]]
  /\ UNCHANGED <<channel, asking, told, token, rules, incidents>>

RecordSwept(a) ==
  /\ holder[a] = "sweep"
  /\ holder' = [holder EXCEPT ![a] = "swept"]
  /\ Persist(a, "cancel")
  /\ UNCHANGED <<pending, channel, asking, token, rules>>

EndSweep ==
  /\ \E a \in Asks : holder[a] = "swept"
  /\ \A a \in Asks : holder[a] # "sweep"
  /\ holder' = [a \in Asks |-> IF holder[a] = "swept" THEN "none" ELSE holder[a]]
  /\ channel' = [a \in Asks |-> IF holder[a] = "swept" THEN "closed" ELSE channel[a]]
  /\ UNCHANGED <<pending, asking, told, token, rules, incidents>>

-----------------------------------------------------------------------------
InitApproval ==
  /\ pending = {} /\ channel = [a \in Asks |-> "open"] /\ holder = [a \in Asks |-> "none"]
  /\ waiter = [a \in Asks |-> "new"] /\ heard = [a \in Asks |-> FALSE] /\ verdict = [a \in Asks |-> "none"]
  /\ told = [a \in Asks |-> {}] /\ token = "clear"
  /\ sessionRules = {} /\ cache = None /\ file = {}
  /\ edit = [e \in Editors |-> "no"] /\ copy = [e \in Editors |-> {}] /\ revoked = {}
  /\ incidents = 0

NextApproval ==
  \/ \E a \in Asks :
       \/ TrySessionRules(a) \/ TryWorkspaceRules(a) \/ Remember(a)
       \/ Register(a) \/ Test(a) \/ Listen(a) \/ Receive(a) \/ Lapse(a) \/ Drop(a) \/ Cleanup(a)
       \/ Respond(a, "allow") \/ Respond(a, "deny") \/ Send(a) \/ Record(a) \/ RecordSwept(a)
  \/ \E e \in Editors : Fetch(e) \/ Load(e) \/ Fill(e) \/ Save(e) \/ Insert(e)
  \/ BeginRevoke \/ Revoke \/ Cancel \/ Notify \/ Sweep \/ EndSweep

ApprovalSpec == InitApproval /\ [][NextApproval]_approval

-----------------------------------------------------------------------------
\* What the Session says of a question is what its command did: whoever takes
\* the entry decides, alone (wait, respond_ext, cancel_session).
RecordedIsActed ==
  \A a \in Asks :
    LET said == told[a] \ {"rule_allow"} IN
    CASE verdict[a] = "allow" -> said \subseteq {"allow"}
      [] verdict[a] = "deny" -> said \subseteq {"deny", "cancel"} /\ Cardinality(said) < 2
      [] verdict[a] = "timeout" -> said \subseteq {"timeout"}
      [] verdict[a] = "rule" -> told[a] = {"rule_allow"}
      [] OTHER -> Cardinality(said) < 2

\* What the Session calls allowed was carried out: fails when the future is
\* dropped between the answer and its next poll.
AllowIsActed == \A a \in Asks : "allow" \in told[a] => waiter[a] \notin {"left", "gone"}

\* A cancel wakes everybody: fails between Test and Listen.
CancelWakes == \A a \in Asks : token = "notified" /\ waiter[a] = "select" => heard[a]

\* A rule that was revoked is gone: fails when somebody else has a copy of the
\* rules from before and saves it (try_rule_allow, remember_rule).
RevokedIsGone == \A r \in revoked : r \notin file /\ (cache # None => r \notin cache)
=============================================================================
