--------------------------- MODULE CustomProvider ---------------------------
(***************************************************************************)
(* A custom provider is added or removed (ws/ops_provider/transaction.rs,   *)
(* account_store.rs): its definition is in config.toml and its key in       *)
(* auth.json, and a journal beside them takes both back when one of the     *)
(* steps fails or the process ends amid them.  Other settings are written   *)
(* to config.toml meanwhile (ws/ops_config.rs, workspace_runtime).          *)
(*                                                                          *)
(* One provider.  A transaction gives it version v in both files, 0 is none.*)
(* The three files are in one directory, whose sync makes all of them       *)
(* durable.  The mutex of the credentials lets one transaction run at a     *)
(* time.  What is in memory is not here but for the gate of the runtimes,   *)
(* which an update holds from its preparation on.                           *)
(***************************************************************************)
EXTENDS Naturals

CONSTANTS
  MaxDeals,    \* bound: transactions
  MaxEdits,    \* bound: other settings
  MaxBroken,   \* bound: writes that fail
  MaxPowers    \* bound: the process ends, or the power

VARIABLES
  files,       \* what is seen of config, auth and journal
  filesMay,    \* what a loss of power may leave of each
  deal,        \* the transaction, or the recovery of one
  deals,
  rmwLock,     \* CONFIG_RMW_LOCK: "free", "deal" or "edit"
  gate,        \* config_update_gate
  agreed,      \* what the user may find after the last answer
  editing,     \* the edit of another setting
  acked,       \* edits that were answered with Ok, and durable
  broken, powers

provider == <<files, filesMay, deal, deals, rmwLock, gate, agreed, editing, acked, broken, powers>>

NoJournal == [phase |-> "none"]
Idle == [at |-> "idle"]
To(place) == deal' = [deal EXCEPT !.at = place]

-----------------------------------------------------------------------------
(* Files *)

Breaks == broken < MaxBroken /\ broken' = broken + 1

Durable(f, new) ==
  /\ files' = [files EXCEPT ![f] = new] /\ filesMay' = [g \in DOMAIN files |-> {files'[g]}]
  /\ UNCHANGED broken
Unwritten == Breaks /\ UNCHANGED <<files, filesMay>>
Unsure(f, new) ==
  Breaks /\ files' = [files EXCEPT ![f] = new] /\ filesMay' = [filesMay EXCEPT ![f] = @ \cup {new}]

Seen(f, new) == Durable(f, new) \/ Unsure(f, new)
AnyWrite(f, new) == Seen(f, new) \/ Unwritten

Release == rmwLock' = "free" /\ gate' = "free"
Holds == UNCHANGED <<rmwLock, gate>>
OthersRest == UNCHANGED <<editing, acked, powers>>

-----------------------------------------------------------------------------
(* recover_custom_provider_transaction *)

\* It is done: what called it goes on.
Recovered == deal' = IF deal.then = "lock" THEN [deal EXCEPT !.at = "lock"] ELSE Idle
\* It failed: the journal stays armed.  At boot the process does not start.
NotRecovered == deal' = IF deal.then = "serve" THEN [at |-> "down"] ELSE Idle
\* The update of the runtimes is dropped with the call.
Drops == UNCHANGED rmwLock /\ gate' = IF gate = "deal" /\ deal.then = "over" THEN "free" ELSE gate

\* Mutant of Recover: what was not committed is forgotten.
RecoverForgets ==
  /\ deal.at = "recover" /\ UNCHANGED <<files, filesMay, broken, agreed, deals>> /\ OthersRest
  /\ \/ files.journal = NoJournal /\ Recovered /\ Drops
     \/ files.journal # NoJournal /\ To("unlink") /\ Holds

Recover ==
  /\ deal.at = "recover" /\ UNCHANGED <<files, filesMay, broken, agreed, deals>> /\ OthersRest
  /\ \/ files.journal = NoJournal /\ Recovered /\ Drops
     \/ files.journal.phase = "committed" /\ To("unlink") /\ Holds
     \/ files.journal.phase = "prepared" /\ To("restore config") /\ Holds

\* update_toml: under the lock.  An unsynced directory is only reported.
RestoreConfig ==
  /\ deal.at = "restore config" /\ rmwLock = "free" /\ UNCHANGED <<agreed, deals>> /\ OthersRest
  /\ \/ Seen("config", files.journal.config) /\ To("restore auth") /\ Holds
     \/ Unwritten /\ NotRecovered /\ Drops

RestoreAuth ==
  /\ deal.at = "restore auth" /\ UNCHANGED <<agreed, deals>> /\ OthersRest
  /\ \/ Durable("auth", files.journal.auth) /\ To("unlink") /\ Holds
     \/ (Unwritten \/ Unsure("auth", files.journal.auth)) /\ NotRecovered /\ Drops

Unlink ==
  /\ deal.at = "unlink" /\ UNCHANGED <<agreed, deals>> /\ OthersRest
  /\ \/ Durable("journal", NoJournal) /\ Recovered /\ Drops
     \/ (Unwritten \/ Unsure("journal", NoJournal)) /\ NotRecovered /\ Drops

-----------------------------------------------------------------------------
(* transact_custom_provider_with_runtime *)

Fails == deal' = [deal EXCEPT !.at = "recover", !.then = "over"]

Begin(version) ==
  /\ deal = Idle /\ deals < MaxDeals /\ deals' = deals + 1
  /\ deal' = [at |-> "recover", then |-> "lock", version |-> version]
  /\ UNCHANGED <<files, filesMay, agreed, broken>> /\ Holds /\ OthersRest

\* The journal is on disk before anything else is.
Prepare ==
  LET journal == [phase |-> "prepared", config |-> files.config, auth |-> files.auth] IN
  /\ deal.at = "lock" /\ rmwLock = "free" /\ UNCHANGED <<gate, agreed, deals>> /\ OthersRest
  /\ \/ Durable("journal", journal) /\ To("gate") /\ rmwLock' = "deal"
     \/ Unsure("journal", journal) /\ To("clean up") /\ rmwLock' = "deal"
     \/ Unwritten /\ Fails /\ UNCHANGED rmwLock

CleanUp ==
  /\ deal.at = "clean up" /\ AnyWrite("journal", NoJournal)
  /\ Fails /\ Release /\ UNCHANGED <<agreed, deals>> /\ OthersRest

\* prepare_config_update
EnterGate ==
  /\ deal.at = "gate" /\ gate = "free" /\ gate' = "deal" /\ To("write config")
  /\ UNCHANGED <<files, filesMay, rmwLock, agreed, deals, broken>> /\ OthersRest

WriteConfig ==
  /\ deal.at = "write config" /\ UNCHANGED <<agreed, deals>> /\ OthersRest
  /\ \/ Seen("config", [files.config EXCEPT !.provider = deal.version]) /\ To("write auth") /\ Holds
     \/ Unwritten /\ Fails /\ Release

\* The key is written and the runtimes take the candidate, which may refuse;
\* then the lock is given up, the gate not.
WriteAuth ==
  /\ deal.at = "write auth" /\ UNCHANGED <<agreed, deals, gate>> /\ OthersRest
  /\ \/ Durable("auth", deal.version) /\ To("mark") /\ rmwLock' = "free"
     \/ Durable("auth", deal.version) /\ To("undo config") /\ UNCHANGED rmwLock
     \/ (Unwritten \/ Unsure("auth", deal.version)) /\ To("undo auth") /\ UNCHANGED rmwLock

\* update_auth_with_compensation and update_toml_transaction_staged: each
\* tries once to take its own write back.
UndoAuth ==
  /\ deal.at = "undo auth" /\ AnyWrite("auth", files.journal.auth)
  /\ To("undo config") /\ Holds /\ UNCHANGED <<agreed, deals>> /\ OthersRest
UndoConfig ==
  /\ deal.at = "undo config" /\ AnyWrite("config", files.journal.config)
  /\ Fails /\ Release /\ UNCHANGED <<agreed, deals>> /\ OthersRest

\* The journal is marked: when that is not certain the answer says so, when
\* it failed all is taken back, with the gate still held.
Mark ==
  LET journal == [files.journal EXCEPT !.phase = "committed"] IN
  /\ deal.at = "mark" /\ UNCHANGED <<rmwLock, deals>> /\ OthersRest
  /\ \/ Durable("journal", journal) /\ To("commit") /\ agreed' = {deal.version} /\ UNCHANGED gate
     \/ Unsure("journal", journal) /\ deal' = Idle /\ agreed' = agreed \cup {deal.version} /\ gate' = "free"
     \/ Unwritten /\ Fails /\ UNCHANGED <<gate, agreed>>

Commit ==
  /\ deal.at = "commit" /\ AnyWrite("journal", NoJournal)
  /\ deal' = Idle /\ gate' = "free" /\ UNCHANGED <<rmwLock, agreed, deals>> /\ OthersRest

-----------------------------------------------------------------------------
(* Another setting: update_toml, and update_toml_with_runtime *)

Serving == deal.at # "down" /\ ~(deal.at # "idle" /\ deal.then = "serve")

EditLocks(next) ==
  /\ Serving /\ editing = "no" /\ rmwLock = "free" /\ files.config.edits < MaxEdits
  /\ rmwLock' = "edit" /\ editing' = next
  /\ UNCHANGED <<files, filesMay, deal, deals, gate, agreed, acked, broken, powers>>

EditEnters ==
  /\ editing = "gate" /\ gate = "free" /\ gate' = "edit" /\ editing' = "write"
  /\ UNCHANGED <<files, filesMay, deal, deals, rmwLock, agreed, acked, broken, powers>>

EditWrites ==
  LET edited == [files.config EXCEPT !.edits = @ + 1] IN
  /\ editing = "write" /\ editing' = "no" /\ rmwLock' = "free"
  /\ gate' = IF gate = "edit" THEN "free" ELSE gate
  /\ \/ Durable("config", edited) /\ acked' = edited.edits
     \/ (Unsure("config", edited) \/ Unwritten) /\ UNCHANGED acked
  /\ UNCHANGED <<deal, deals, agreed, powers>>

\* The process ends, or the power; the next one recovers before it serves.
Ends ==
  /\ powers < MaxPowers /\ powers' = powers + 1
  /\ \/ UNCHANGED <<files, filesMay>>
     \/ /\ files' \in [config : filesMay.config, auth : filesMay.auth, journal : filesMay.journal]
        /\ filesMay' = [g \in DOMAIN files |-> {files'[g]}]
  /\ deal' = [at |-> "recover", then |-> "serve"] /\ Release /\ editing' = "no"
  /\ UNCHANGED <<deals, agreed, acked, broken>>

InitProvider ==
  /\ files = [config |-> [provider |-> 0, edits |-> 0], auth |-> 0, journal |-> NoJournal]
  /\ filesMay = [g \in DOMAIN files |-> {files[g]}]
  /\ deal = Idle /\ deals = 0 /\ rmwLock = "free" /\ gate = "free" /\ agreed = {0}
  /\ editing = "no" /\ acked = 0 /\ broken = 0 /\ powers = 0

NextProvider ==
  \/ Begin(0) \/ Begin(deals + 1)
  \/ Recover \/ RestoreConfig \/ RestoreAuth \/ Unlink
  \/ Prepare \/ CleanUp \/ EnterGate \/ WriteConfig \/ WriteAuth \/ UndoAuth \/ UndoConfig \/ Mark \/ Commit
  \/ EditLocks("gate") \/ EditLocks("write") \/ EditEnters \/ EditWrites
  \/ Ends

-----------------------------------------------------------------------------
(* What it is for *)

\* When no transaction is under way and none is left to take back, the
\* definition and the key of the provider are of one transaction, and of one
\* that the user was told of: whichever writes failed, whenever the process
\* ended and whatever it lost.
AllOrNothing ==
  deal = Idle /\ files.journal.phase # "prepared" =>
    files.config.provider = files.auth /\ files.auth \in agreed

\* Not so: a setting that was saved stays.  The journal holds the whole of
\* config.toml as it was, and the lock is free before the journal is marked.
EditsAreKept == deal = Idle => files.config.edits >= acked

\* Nor this: when the mark fails, the transaction waits for the lock with the
\* gate in its hand, and an edit with the lock waits for the gate.
NobodyIsStuck ==
  ~(editing = "gate" /\ gate = "deal" /\ deal.at = "restore config")
=============================================================================
