---------------------------- MODULE Credentials ----------------------------
(***************************************************************************)
(* The OAuth credential of one account (auth/refresh.rs, refresh/grant.rs,  *)
(* auth/credential.rs, shared_store.rs, ws/llm_oauth.rs, ws/ops_provider).  *)
(* Each run works with a clone of it; a refresh spends the refresh token    *)
(* and answers with the next, and one lock and the credential that was      *)
(* refreshed last keep the runs from spending one twice.                    *)
(*                                                                          *)
(* A credential is the number of its refresh token, 0 is none.  The server  *)
(* takes a token once.  Accounts with a key, and the providers whose token  *)
(* is not rotated, are not here.                                            *)
(***************************************************************************)
EXTENDS Naturals

CONSTANTS
  Sessions,    \* runs, each any number of times
  Nobody,
  MaxTokens,   \* bound: credentials that are issued
  MaxLosses,   \* bound: writes that fail, calls that are dropped
  MaxReboots   \* bound: restarts

VARIABLES
  valid,       \* refresh tokens that the server takes
  issued,
  expired,     \* all up to this one expire soon or have expired
  auth,        \* auth.json
  authMay,     \* what a loss of power may leave of it
  shared,      \* AppState.auth_store
  recent,      \* RECENT: what was refreshed last
  clone,       \* the credential of each run
  work,        \* where each run is
  refreshing,  \* who holds REFRESH_LOCK
  snapshot,    \* a login wrote the file and has this to publish
  presented,       \* tokens that were presented to the server
  again,       \* those that were presented twice, and how
  lost,        \* tokens whose answer was lost or may not be on disk
  takenOut,     \* the user took the account out
  losses, reboots

credentials == <<valid, issued, expired, auth, authMay, shared, recent, clone, work, refreshing, snapshot,
                 presented, again, lost, takenOut, losses, reboots>>

Expired(c) == c <= expired
At(s, where) == work' = [work EXCEPT ![s] = [at |-> where]]
Loses == losses < MaxLosses /\ losses' = losses + 1

Files == <<auth, authMay>>
Stores == <<auth, authMay, shared, recent>>
Server == <<valid, issued, expired>>
Ghosts == <<presented, again, lost, takenOut>>

-----------------------------------------------------------------------------
(* A run *)

Starts(s) ==
  /\ work[s].at = "idle" /\ shared # 0
  /\ clone' = [clone EXCEPT ![s] = shared] /\ At(s, "runs")
  /\ UNCHANGED <<refreshing, snapshot, losses, reboots>> /\ UNCHANGED Stores /\ UNCHANGED Server /\ UNCHANGED Ghosts

Over(s) ==
  /\ work[s].at = "runs" /\ At(s, "idle") /\ clone' = [clone EXCEPT ![s] = 0]
  /\ UNCHANGED <<refreshing, snapshot, losses, reboots>> /\ UNCHANGED Stores /\ UNCHANGED Server /\ UNCHANGED Ghosts

\* adopt_recent, and what the start of a run writes back.
Adopts(s) ==
  /\ clone' = [clone EXCEPT ![s] = recent] /\ shared' \in {shared, recent} /\ At(s, "runs")
  /\ UNCHANGED <<auth, authMay, recent, refreshing>> /\ UNCHANGED Ghosts

\* ensure_fresh, for a credential that expires soon.
EnsureFresh(s) ==
  /\ work[s].at = "runs" /\ Expired(clone[s])
  /\ \/ recent # 0 /\ ~ Expired(recent) /\ Adopts(s)
     \/ /\ recent = 0 \/ Expired(recent)
        /\ At(s, "ensures") /\ UNCHANGED <<clone, refreshing>> /\ UNCHANGED Stores /\ UNCHANGED Ghosts
  /\ UNCHANGED <<snapshot, losses, reboots>> /\ UNCHANGED Server

\* force_refresh, after the server refused the access.
ForceRefresh(s) ==
  /\ work[s].at = "runs" /\ At(s, "forces")
  /\ UNCHANGED <<clone, refreshing, snapshot, losses, reboots>>
  /\ UNCHANGED Stores /\ UNCHANGED Server /\ UNCHANGED Ghosts

\* The recheck with the lock in hand: somebody else refreshed meanwhile.
Refreshed(s) ==
  /\ recent # 0 /\ ~ Expired(recent)
  /\ work[s].at = "forces" => recent # clone[s]

Present(s) ==
  /\ refreshing' = s /\ At(s, "sent") /\ presented' = presented \cup {clone[s]}
  /\ again' = IF clone[s] \in presented \ lost
              THEN again \cup {<<clone[s], IF recent # 0 /\ Expired(recent) THEN "outlived" ELSE "recent">>}
              ELSE again
  /\ UNCHANGED <<clone, lost, takenOut>> /\ UNCHANGED Stores

\* Mutant of Locked: who waited for the lock refreshes.
LockedPresents(s) ==
  /\ work[s].at \in {"ensures", "forces"} /\ refreshing = Nobody /\ Present(s)
  /\ UNCHANGED <<snapshot, losses, reboots>> /\ UNCHANGED Server

Locked(s) ==
  /\ work[s].at \in {"ensures", "forces"} /\ refreshing = Nobody
  /\ \/ Refreshed(s) /\ Adopts(s)
     \/ ~ Refreshed(s) /\ Present(s)
  /\ UNCHANGED <<snapshot, losses, reboots>> /\ UNCHANGED Server

Rotated(s) ==
  /\ clone[s] \in valid /\ issued < MaxTokens /\ issued' = issued + 1
  /\ valid' = (valid \ {clone[s]}) \cup {issued'} /\ UNCHANGED expired

Answer(s) ==
  /\ work[s].at = "sent"
  /\ \/ /\ Rotated(s) /\ work' = [work EXCEPT ![s] = [at |-> "answered", with |-> issued']]
        /\ UNCHANGED <<refreshing, lost>>
     \/ /\ clone[s] \notin valid /\ At(s, "runs") /\ refreshing' = Nobody
        /\ UNCHANGED lost /\ UNCHANGED Server
  /\ UNCHANGED <<clone, snapshot, presented, again, takenOut, losses, reboots>> /\ UNCHANGED Stores

\* apply_refresh_to: what did not reach the file is not published.
Apply(s) ==
  /\ work[s].at = "answered"
  /\ \/ /\ auth' = work[s].with /\ authMay' = {auth'}
        /\ work' = [work EXCEPT ![s].at = "stored"] /\ UNCHANGED <<refreshing, lost, losses>>
     \/ /\ Loses /\ auth' = work[s].with /\ authMay' = authMay \cup {auth'}
        /\ work' = [work EXCEPT ![s].at = "stored"] /\ lost' = lost \cup {clone[s]} /\ UNCHANGED refreshing
     \/ /\ Loses /\ At(s, "runs") /\ refreshing' = Nobody
        /\ lost' = lost \cup {clone[s]} /\ UNCHANGED Files
  /\ UNCHANGED <<shared, recent, clone, snapshot, presented, again, takenOut, reboots>> /\ UNCHANGED Server

\* publish_refresh, and the lock is given back.
PublishRefresh(s) ==
  LET new == work[s].with IN
  /\ work[s].at = "stored"
  /\ recent' = new /\ shared' = new /\ clone' = [clone EXCEPT ![s] = new]
  /\ refreshing' = Nobody /\ At(s, "runs")
  /\ UNCHANGED <<snapshot, losses, reboots>> /\ UNCHANGED Files /\ UNCHANGED Server /\ UNCHANGED Ghosts

\* A cancel, a deadline or the timeout of the request drops the call; the
\* server may have rotated the token all the same.
Dropped(s) ==
  /\ work[s].at \in {"ensures", "forces", "sent"} /\ Loses
  /\ IF work[s].at = "sent"
     THEN /\ refreshing' = Nobody /\ lost' = lost \cup {clone[s]}
          /\ Rotated(s) \/ UNCHANGED Server
     ELSE UNCHANGED <<refreshing, lost>> /\ UNCHANGED Server
  /\ At(s, "runs") /\ UNCHANGED <<clone, snapshot, presented, again, takenOut, reboots>> /\ UNCHANGED Stores

-----------------------------------------------------------------------------
(* The user, and time *)

\* oauth_begin's on_success writes the file, and publishes what it then read
\* from it.  Of another account: the same, with what was in the file.
Login ==
  /\ snapshot = Nobody /\ issued < MaxTokens /\ issued' = issued + 1
  /\ valid' = valid \cup {issued'} /\ auth' = issued' /\ authMay' = {auth'}
  /\ snapshot' = auth' /\ takenOut' = FALSE
  /\ UNCHANGED <<expired, shared, recent, clone, work, refreshing, presented, again, lost, losses, reboots>>

OtherLogin ==
  /\ snapshot = Nobody /\ snapshot' = auth /\ authMay' = {auth}
  /\ UNCHANGED <<auth, shared, recent, clone, work, refreshing, losses, reboots>>
  /\ UNCHANGED Server /\ UNCHANGED Ghosts

LoginShows ==
  /\ snapshot # Nobody /\ shared' = snapshot /\ snapshot' = Nobody
  /\ UNCHANGED <<recent, clone, work, refreshing, losses, reboots>>
  /\ UNCHANGED Files /\ UNCHANGED Server /\ UNCHANGED Ghosts

\* remove_account, under the lock of the shared store.
RemoveAccount ==
  /\ auth # 0 /\ auth' = 0 /\ authMay' = {0} /\ shared' = 0 /\ takenOut' = TRUE
  /\ UNCHANGED <<recent, clone, work, refreshing, snapshot, presented, again, lost, losses, reboots>>
  /\ UNCHANGED Server

TimePasses ==
  /\ expired < issued /\ expired' = issued
  /\ UNCHANGED <<valid, issued, clone, work, refreshing, snapshot, losses, reboots>>
  /\ UNCHANGED Stores /\ UNCHANGED Ghosts

Reboot ==
  /\ reboots < MaxReboots /\ reboots' = reboots + 1
  /\ auth' \in authMay /\ authMay' = {auth'} /\ shared' = auth' /\ recent' = 0
  /\ clone' = [s \in Sessions |-> 0] /\ work' = [s \in Sessions |-> [at |-> "idle"]]
  /\ refreshing' = Nobody /\ snapshot' = Nobody
  /\ lost' = lost \cup {clone[s] : s \in {x \in Sessions : work[x].at \in {"sent", "answered"}}}
  /\ UNCHANGED <<presented, again, takenOut, losses>> /\ UNCHANGED Server

InitCredentials ==
  /\ valid = {1} /\ issued = 1 /\ expired = 0
  /\ auth = 1 /\ authMay = {1} /\ shared = 1 /\ recent = 0
  /\ clone = [s \in Sessions |-> 0] /\ work = [s \in Sessions |-> [at |-> "idle"]]
  /\ refreshing = Nobody /\ snapshot = Nobody
  /\ presented = {} /\ again = {} /\ lost = {} /\ takenOut = FALSE /\ losses = 0 /\ reboots = 0

NextCredentials ==
  \/ \E s \in Sessions :
       \/ Starts(s) \/ Over(s) \/ EnsureFresh(s) \/ ForceRefresh(s) \/ Locked(s)
       \/ Answer(s) \/ Apply(s) \/ PublishRefresh(s) \/ Dropped(s)
  \/ Login \/ OtherLogin \/ LoginShows \/ RemoveAccount \/ TimePasses \/ Reboot

-----------------------------------------------------------------------------
(* What it is for *)

\* A refresh token whose answer was stored is not presented to the server
\* again, whichever runs hold clones of it and wait side by side, as long as
\* the credential that was refreshed last is itself still good.
RefreshedOnce == \A x \in again : x[2] # "recent"

\* Not so beyond that, though the module's comment says never: a clone that
\* outlives two refreshes presents a token that was revoked.
NeverTwice == again = {}

\* Nor this: a run that refreshes brings back an account that the user took
\* out meanwhile, in the file and in memory.
RemovedStaysOut == takenOut => auth = 0

\* Nor this: when no login and no refresh is amid its steps, what is shared
\* is what is in the file.  A login publishes an older copy of the file over
\* what a refresh has published.
SharedIsStored == refreshing = Nobody /\ snapshot = Nobody => shared = auth
=============================================================================
