------------------------------ MODULE Workflow ------------------------------
(***************************************************************************)
(* The journal of a workflow (agent/workflow_journal, workflow.rs,          *)
(* workflow/tools.rs): before a step of the script is dispatched its intent *)
(* is put on disk, after it its result; an execution under the same run id  *)
(* answers what is done from the journal, and refuses what was begun and      *)
(* has no result, since what that did is not known.                         *)
(*                                                                          *)
(* One run id and one script.  A step is one call of agent or tool, with    *)
(* its role, its arguments and its occurrence; an execution comes to each   *)
(* at most once, in any order and several side by side.  The budgets of     *)
(* calls, and the JavaScript, are not here.                                 *)
(***************************************************************************)
EXTENDS Naturals

CONSTANTS
  Executions,   \* invocations of the workflow, each any number of times
  Steps,
  MaxTorn,      \* bound: appends that fail
  MaxWeeks,     \* bound: times that the entries expire
  MaxStops      \* bound: the process ends, or the power

VARIABLES
  journal,      \* the file that is seen: the last phase of each step, and whether a line is broken
  journalMay,   \* what a loss of power may leave of it
  aged,         \* entries older than ENTRY_TTL_SECS
  script,       \* of each execution: "off", or "on" while it holds the lock
  results, intents, \* of each execution: what Journal has in memory
  came,         \* of each execution: where its call of a step is
  dispatches, repeats, \* steps that were dispatched, and dispatched again
  forgotten,    \* steps whose entry was dropped for its age, and its phase
  torn, weeks, stops

workflow == <<journal, journalMay, aged, script, results, intents, came, dispatches, repeats,
              forgotten, torn, weeks, stops>>

Empty == [lines |-> [s \in Steps |-> "none"], broken |-> FALSE]
NotYet == [s \in Steps |-> "not yet"]

-----------------------------------------------------------------------------
(* The file *)

\* append_entry: it fails before the line, amid it (the next line then runs
\* into it), or after it.
Appended(new) == journal' = new /\ journalMay' = {new} /\ UNCHANGED torn
NotAppended == torn < MaxTorn /\ torn' = torn + 1 /\ UNCHANGED <<journal, journalMay>>
Unsynced(new) == torn < MaxTorn /\ torn' = torn + 1 /\ journal' = new /\ journalMay' = journalMay \cup {new}
Line(s, phase) == [journal EXCEPT !.lines[s] = phase]
Broken == [journal EXCEPT !.broken = TRUE]
Refused(new) == NotAppended \/ Unsynced(Broken) \/ Unsynced(new)

-----------------------------------------------------------------------------
(* An execution *)

\* lock_journal: one execution at a time, in whatever process.
Locked == \A x \in Executions : script[x] = "off"

\* What the lines say: a result takes the intent away.
Opened(x, lines) ==
  /\ results' = [results EXCEPT ![x] = {s \in Steps : lines[s] = "done"}]
  /\ intents' = [intents EXCEPT ![x] = {s \in Steps : lines[s] = "started"}]

\* open: a broken line refuses; what is too old is dropped and the file
\* rewritten, and a failure of that refuses too.
Open(x) ==
  LET old == {s \in aged : journal.lines[s] # "none"}
      kept == [journal EXCEPT !.lines = [s \in Steps |-> IF s \in old THEN "none" ELSE @[s]]] IN
  /\ script[x] = "off" /\ Locked /\ ~journal.broken
  /\ \/ /\ IF old = {} THEN UNCHANGED <<journal, journalMay, torn>> ELSE Appended(kept)
        /\ script' = [script EXCEPT ![x] = "on"] /\ aged' = {}
        /\ Opened(x, kept.lines)
     \/ old # {} /\ Unsynced(kept) /\ UNCHANGED <<script, aged, results, intents>>
  /\ forgotten' = forgotten \cup {<<s, journal.lines[s]>> : s \in old}
  /\ UNCHANGED <<came, dispatches, repeats, weeks, stops>>

\* Mutant of State: what was begun is begun again.
StateRetries(x, s) == IF s \in results[x] THEN "done" ELSE "miss"

\* state
State(x, s) == IF s \in results[x] THEN "done" ELSE IF s \in intents[x] THEN "unknown" ELSE "miss"

Comes(x, s, to) == came' = [came EXCEPT ![x][s] = to]

Cached(x, s) ==
  /\ State(x, s) = "done" /\ Comes(x, s, "answered")
  /\ UNCHANGED <<journal, journalMay, aged, results, intents, dispatches, repeats, torn>>
Unknown(x, s) ==
  /\ State(x, s) = "unknown" /\ Comes(x, s, "unknown")
  /\ UNCHANGED <<journal, journalMay, aged, results, intents, dispatches, repeats, torn>>

\* begin, and the dispatch: it may be doing its work from here on.
Begin(x, s) ==
  /\ State(x, s) = "miss"
  /\ \/ /\ Appended(Line(s, "started")) /\ Comes(x, s, "dispatched")
        /\ intents' = [intents EXCEPT ![x] = @ \cup {s}]
        /\ dispatches' = dispatches \cup {s} /\ repeats' = repeats \cup (dispatches \cap {s})
     \/ Refused(Line(s, "started")) /\ Comes(x, s, "refused") /\ UNCHANGED <<intents, dispatches, repeats>>
  /\ aged' = aged \ {s} /\ UNCHANGED <<results>>

ResumeGate(x, s) ==
  /\ script[x] = "on" /\ came[x][s] = "not yet"
  /\ Cached(x, s) \/ Unknown(x, s) \/ Begin(x, s)
  /\ UNCHANGED <<script, forgotten, weeks, stops>>

\* The dispatch ends: with a result, whose record may fail while the memory
\* has it all the same; or it fails or is cancelled, and its intent stays.
Record(x, s) ==
  /\ came[x][s] = "dispatched"
  /\ \/ Appended(Line(s, "done")) /\ Comes(x, s, "answered")
     \/ Refused(Line(s, "done")) /\ Comes(x, s, "refused")
  /\ intents' = [intents EXCEPT ![x] = @ \ {s}] /\ results' = [results EXCEPT ![x] = @ \cup {s}]
  /\ UNCHANGED <<aged, script, dispatches, repeats, forgotten, weeks, stops>>

Fails(x, s) ==
  /\ came[x][s] = "dispatched" /\ Comes(x, s, "refused")
  /\ UNCHANGED <<journal, journalMay, aged, script, results, intents, dispatches, repeats>>
  /\ UNCHANGED <<forgotten, torn, weeks, stops>>

Gone(xs) ==
  /\ script' = [x \in Executions |-> IF x \in xs THEN "off" ELSE script[x]]
  /\ results' = [x \in Executions |-> IF x \in xs THEN {} ELSE results[x]]
  /\ intents' = [x \in Executions |-> IF x \in xs THEN {} ELSE intents[x]]
  /\ came' = [x \in Executions |-> IF x \in xs THEN NotYet ELSE came[x]]

\* The script ends, or the timeout or a cancel interrupts it; what it did not
\* wait for is dropped with its runtime.
Ends(x) ==
  /\ script[x] = "on" /\ Gone({x})
  /\ UNCHANGED <<journal, journalMay, aged, dispatches, repeats, forgotten, torn, weeks, stops>>

\* The process ends, or the power: of the file any state since the last sync
\* is left, and a line may break off.
Stop ==
  /\ stops < MaxStops /\ stops' = stops + 1
  /\ journal' \in journalMay \cup {journal} \cup {Broken : x \in {y \in Executions : script[y] = "on"}}
  /\ journalMay' = journalMay \cup {journal'} /\ Gone(Executions)
  /\ UNCHANGED <<aged, dispatches, repeats, forgotten, torn, weeks>>

\* No execution lasts a week.
AWeekPasses ==
  /\ Locked /\ weeks < MaxWeeks /\ weeks' = weeks + 1
  /\ aged' = {s \in Steps : journal.lines[s] # "none"}
  /\ UNCHANGED <<journal, journalMay, script, results, intents, came, dispatches, repeats>>
  /\ UNCHANGED <<forgotten, torn, stops>>

InitWorkflow ==
  /\ journal = Empty /\ journalMay = {Empty} /\ aged = {}
  /\ script = [x \in Executions |-> "off"]
  /\ results = [x \in Executions |-> {}] /\ intents = [x \in Executions |-> {}]
  /\ came = [x \in Executions |-> NotYet]
  /\ dispatches = {} /\ repeats = {} /\ forgotten = {}
  /\ torn = 0 /\ weeks = 0 /\ stops = 0

NextWorkflow ==
  \/ \E x \in Executions : Open(x) \/ Ends(x)
  \/ \E x \in Executions, s \in Steps : ResumeGate(x, s) \/ Record(x, s) \/ Fails(x, s)
  \/ Stop \/ AWeekPasses

-----------------------------------------------------------------------------
(* What it is for *)

\* However often a workflow is invoked again under its run id, across ends of
\* the process, cancels and failing writes, a step whose entry did not expire
\* is dispatched once: its side effects are not repeated, nor paid for again.
DispatchedOnce == \A s \in repeats : \E x \in forgotten : x[1] = s

\* Not so, though the module's comment says that a step is never silently
\* dispatched again: an intent without a result is dropped after a week too.
NeverSilently == \A s \in repeats : <<s, "started">> \notin forgotten

\* Nor this: a line that broke off makes the run id useless for good.
Resumable == ~journal.broken
=============================================================================
