------------------------------ MODULE Permits ------------------------------
(***************************************************************************)
(* What a request to a provider needs before it is sent (llm/mrm): room in *)
(* the window of its account, a permit of its provider and one of the      *)
(* process, and a circuit that lets it through; and what it gives back.    *)
(*                                                                         *)
(* A manager has a configuration of its own and shares the counts, windows *)
(* and circuits with the one it replaces.  A run keeps the manager that it *)
(* began with: its requests go by the limits of that one for good.         *)
(*                                                                         *)
(* A request may be dropped wherever it waits, and before it starts.       *)
(* Budgets are not modelled; the windows of accounts are those of their    *)
(* provider; all managers are of one scope.  Generations of a circuit and  *)
(* ids of probes do not wrap.                                              *)
(***************************************************************************)
EXTENDS Naturals, FiniteSets

CONSTANTS
  Clients, Providers,
  Of,          \* the provider of each caller
  Checks,      \* callers that check a credential: no circuit
  Rpm,         \* calls of a provider in its window
  Limits,      \* configurations: [provider, global, threshold]
  None,
  MaxCalls,    \* bound: calls
  MaxChanges   \* bound: changes of the configuration

VARIABLES
  limits,      \* the configuration of the manager that is in place
  former,      \* that of the one before, until the change is committed
  managers,    \* those of all managers that runs may have
  under,       \* the one that the request of each caller goes by
  stage,       \* where each caller is
  rest,        \* and how it waits there: "no", "full", "asleep", "woken"
  held,        \* Pools: who holds a permit of each provider, and of all
  started,     \* the calls that the window of each provider counts for good
  reserved,    \* callers that have a reservation in their window
  circuit,
  lease,       \* what each caller was admitted with
  calls, changes

permits == <<limits, former, managers, under, stage, rest, held, started, reserved, circuit, lease, calls, changes>>
config == <<limits, former, managers, changes>>
windows == <<started, reserved>>

Global == "global"
Pools == {"provider", "global"}
Key(c) == IF stage[c] \in {"global", "dropGlobal", "yieldGlobal"} THEN Global ELSE Of[c]

\* try_acquire: a limit of none is one.
HasRoom(key, by) ==
  held[key] = {} \/ Cardinality(held[key]) < (IF key = Global THEN by.global ELSE by.provider)

Go(c, label) == stage' = [stage EXCEPT ![c] = label]
Arrive(c, label) == Go(c, label) /\ rest' = [rest EXCEPT ![c] = "no"]

\* Mutant of Woken: a future registers when it falls asleep (no enable()).
WokenAsleep(places) ==
  [c \in Clients |-> IF stage[c] \in places /\ rest[c] = "asleep" THEN "woken" ELSE rest[c]]

\* notify_waiters: all that have registered, whatever key they wait for.
Woken(places) ==
  [c \in Clients |-> IF stage[c] \in places /\ rest[c] \in {"full", "asleep"} THEN "woken" ELSE rest[c]]

-----------------------------------------------------------------------------
(* The circuit of a provider. *)

Fresh(generation) == [failures |-> 0, opened |-> "no", probe |-> None, generation |-> generation]

Enforced(by) == by.threshold > 0
Tripped(k, by) == k.failures >= by.threshold

\* Health::eligible
Eligible(k, by) == ~ Enforced(by) \/ ~ Tripped(k, by) \/ (k.probe = None /\ k.opened = "cooled")

\* normalize_state, by whatever threshold the caller has
Normal(k, by) ==
  IF Tripped(k, by)
  THEN IF k.opened = "no" THEN [k EXCEPT !.opened = "cooling", !.generation = @ + 1] ELSE k
  ELSE [k EXCEPT !.opened = "no", !.probe = None,
                 !.generation = IF k.opened # "no" \/ k.probe # None THEN @ + 1 ELSE @]

Lease(k, probing) == [generation |-> k.generation, probing |-> probing]

\* Is this the result of the call that probes?  A call that was let in before
\* the circuit opened, or closed, does not count.
Probes(c, k) == lease[c].probing /\ k.probe = c

Counts(c, k) ==
  /\ Enforced(under[c]) /\ lease[c] # None
  /\ lease[c].generation = k.generation
  /\ k.probe = None \/ Probes(c, k)

Succeeded(c, k) == Fresh(IF Probes(c, k) THEN k.generation + 1 ELSE k.generation)

Failed(c, k) ==
  LET again == Probes(c, k) \/ (Tripped(k, under[c]) /\ k.opened = "cooled")
      trips == k.failures + 1 >= under[c].threshold
      opens == trips /\ (again \/ k.opened = "no") IN
  [failures |-> k.failures + 1,
   opened |-> IF opens THEN "cooling" ELSE k.opened,
   probe |-> None,
   generation |-> IF opens THEN k.generation + 1 ELSE k.generation]

-----------------------------------------------------------------------------
\* The run of the caller has the manager in place, or an earlier one.
Begin(c) ==
  /\ stage[c] = "idle" /\ calls < MaxCalls
  /\ \E by \in managers :
       /\ c \in Checks \/ Eligible(circuit[Of[c]], by)
       /\ under' = [under EXCEPT ![c] = by]
  /\ calls' = calls + 1
  /\ Arrive(c, "window")
  /\ UNCHANGED <<config, held, windows, circuit, lease>>

Waiting == {"window"} \cup Pools

\* A future registers (notified().enable()), tests, and awaits.  The test reads
\* the counts under a lock that is free again when the future falls asleep.
Stay(c) == rest' = [rest EXCEPT ![c] = "full"] /\ UNCHANGED stage

Sleep(c) ==
  /\ rest[c] = "full"
  /\ rest' = [rest EXCEPT ![c] = "asleep"]
  /\ UNCHANGED <<config, under, stage, held, windows, circuit, lease, calls>>

\* Pools::acquire
Acquire(c) ==
  /\ stage[c] \in Pools /\ rest[c] = "no"
  /\ IF HasRoom(Key(c), under[c])
     THEN /\ held' = [held EXCEPT ![Key(c)] = @ \cup {c}]
          /\ Arrive(c, IF stage[c] = "provider" THEN "global" ELSE "reserve")
     ELSE Stay(c) /\ UNCHANGED held
  /\ UNCHANGED <<config, under, windows, circuit, lease, calls>>

Open(p) == started[p] + Cardinality({c \in reserved : Of[c] = p}) < Rpm

\* wait_rpm_available only looks.
LookAtWindow(c) ==
  /\ stage[c] = "window" /\ rest[c] = "no"
  /\ IF Open(Of[c]) THEN Arrive(c, "provider") ELSE Stay(c)
  /\ UNCHANGED <<config, under, held, windows, circuit, lease, calls>>

\* The wait for the window ends with the minute of its oldest call, too.
Wake(c) ==
  /\ \/ rest[c] = "woken"
     \/ rest[c] = "asleep" /\ stage[c] = "window" /\ Open(Of[c])
  /\ rest' = [rest EXCEPT ![c] = "no"]
  /\ UNCHANGED <<config, under, stage, held, windows, circuit, lease, calls>>

Expire ==
  /\ \/ \E p \in Providers : started[p] > 0 /\ started' = [started EXCEPT ![p] = @ - 1] /\ UNCHANGED reserved
     \/ \E c \in reserved : reserved' = reserved \ {c} /\ UNCHANGED started
  /\ UNCHANGED <<config, under, stage, rest, held, circuit, lease, calls>>

\* try_reserve_rpm; who comes too late gives the permits back and waits again.
Reserve(c) ==
  /\ stage[c] = "reserve"
  /\ IF Open(Of[c])
     THEN reserved' = reserved \cup {c} /\ Go(c, "claim")
     ELSE Go(c, "yieldGlobal") /\ UNCHANGED reserved
  /\ UNCHANGED <<config, under, rest, held, started, circuit, lease, calls>>

\* Health::claim
Claim(c) ==
  /\ stage[c] = "claim"
  /\ LET of == Of[c]  k == Normal(circuit[of], under[c]) IN
     IF c \in Checks \/ ~ Enforced(under[c])
     THEN Go(c, "permit") /\ UNCHANGED <<circuit, lease>>
     ELSE IF ~ Tripped(k, under[c])
     THEN /\ Go(c, "permit")
          /\ circuit' = [circuit EXCEPT ![of] = k]
          /\ lease' = [lease EXCEPT ![c] = Lease(k, FALSE)]
     ELSE IF k.opened = "cooled" /\ k.probe = None
     THEN /\ Go(c, "permit")
          /\ circuit' = [circuit EXCEPT ![of] = [k EXCEPT !.probe = c]]
          /\ lease' = [lease EXCEPT ![c] = Lease(k, TRUE)]
     ELSE /\ Go(c, "dropGlobal")
          /\ circuit' = [circuit EXCEPT ![of] = k]
          /\ UNCHANGED lease
  /\ UNCHANGED <<config, under, rest, held, windows, calls>>

\* CallPermit::start
Start(c) ==
  /\ stage[c] = "permit"
  /\ Go(c, "call")
  /\ reserved' = reserved \ {c}
  /\ started' = IF c \in reserved THEN [started EXCEPT ![Of[c]] = @ + 1] ELSE started
  /\ UNCHANGED <<config, under, rest, held, circuit, lease, calls>>

\* A stream that ends with a terminal error is told as a success when it ends,
\* and as a failure by fatal_stream_error: the second may not count any more.
Both(c, k) == LET s == Succeeded(c, k) IN IF Counts(c, s) THEN Failed(c, s) ELSE s

\* record_call_outcome; one that was cancelled is neither.
Record(c) ==
  /\ stage[c] = "call"
  /\ Go(c, "dropGlobal")
  /\ LET of == Of[c]  k == circuit[of] IN
     circuit' \in {circuit} \cup
       (IF c \in Checks THEN {}
        ELSE {[circuit EXCEPT ![of] = IF Counts(c, k) THEN next ELSE k] : next \in
                IF lease[c] = None THEN {k} ELSE {Succeeded(c, k), Failed(c, k), Both(c, k)}})
  /\ UNCHANGED <<config, under, rest, held, windows, lease, calls>>

\* Mutant of Abandon: only a permit that was started gives anything back.
AbandonUnstarted(c) ==
  /\ stage[c] \in Waiting \cup {"permit"}
  /\ LET to == IF stage[c] = "global" THEN "dropProvider" ELSE "idle" IN
     /\ Arrive(c, to)
     /\ under' = IF to = "idle" THEN [under EXCEPT ![c] = None] ELSE under
  /\ UNCHANGED <<config, held, windows, circuit, lease, calls>>

\* The future is dropped where it waits, or the permit before it is started.
Abandon(c) ==
  /\ stage[c] \in Waiting \cup {"permit"}
  /\ LET to == CASE stage[c] = "permit" -> "dropGlobal" [] stage[c] = "global" -> "dropProvider" [] OTHER -> "idle" IN
     /\ Arrive(c, to)
     /\ under' = IF to = "idle" THEN [under EXCEPT ![c] = None] ELSE under
  /\ UNCHANGED <<config, held, windows, circuit, lease, calls>>

\* Drop of a Slot: its permits, each with its notification ...
Return(c) ==
  /\ stage[c] \in {"dropGlobal", "yieldGlobal", "dropProvider", "yieldProvider"}
  /\ held' = [held EXCEPT ![Key(c)] = @ \ {c}]
  /\ Go(c, CASE stage[c] = "dropGlobal" -> "dropProvider" [] stage[c] = "yieldGlobal" -> "yieldProvider"
             [] stage[c] = "dropProvider" -> "dropProbe" [] OTHER -> "window")
  /\ rest' = Woken(Pools)
  /\ UNCHANGED <<config, under, windows, circuit, lease, calls>>

\* ... then its probe ...
ReleaseProbe(c) ==
  /\ stage[c] = "dropProbe"
  /\ LET k == circuit[Of[c]]
         mine == lease[c] # None /\ Probes(c, k) /\ k.generation = lease[c].generation IN
     circuit' = IF mine THEN [circuit EXCEPT ![Of[c]].probe = None] ELSE circuit
  /\ lease' = [lease EXCEPT ![c] = None]
  /\ Go(c, "dropEntry")
  /\ UNCHANGED <<config, under, rest, held, windows, calls>>

\* ... and the reservation of a call that was not started.
ReturnEntry(c) ==
  /\ stage[c] = "dropEntry"
  /\ reserved' = reserved \ {c}
  /\ Go(c, "idle") /\ under' = [under EXCEPT ![c] = None]
  /\ rest' = IF c \in reserved THEN Woken({"window"}) ELSE rest
  /\ UNCHANGED <<config, held, started, circuit, lease, calls>>

Cool ==
  /\ \E p \in Providers : circuit[p].opened = "cooling" /\ circuit' = [circuit EXCEPT ![p].opened = "cooled"]
  /\ UNCHANGED <<config, under, stage, rest, held, windows, lease, calls>>

\* A candidate with other limits takes the place of the manager
\* (RuntimeConfigUpdate::apply, reload_config) ...
Reconfigure ==
  /\ former = None /\ changes < MaxChanges
  /\ limits' \in Limits \ {limits}
  /\ former' = limits /\ managers' = managers \cup {limits'} /\ changes' = changes + 1
  /\ UNCHANGED <<under, stage, rest, held, windows, circuit, lease, calls>>

\* ... and is activated when the change is committed, or taken back.
Activate ==
  /\ former # None /\ former' = None
  /\ circuit' = [p \in Providers |->
       IF Enforced(limits) THEN Normal(circuit[p], limits) ELSE Fresh(circuit[p].generation + 1)]
  /\ rest' = Woken(Waiting)
  /\ UNCHANGED <<limits, managers, changes, under, stage, held, windows, lease, calls>>

RollBack ==
  /\ former # None /\ former' = None /\ limits' = former
  /\ UNCHANGED <<managers, changes, under, stage, rest, held, windows, circuit, lease, calls>>

InitPermits ==
  /\ limits \in Limits /\ former = None /\ managers = {limits}
  /\ under = [c \in Clients |-> None]
  /\ stage = [c \in Clients |-> "idle"] /\ rest = [c \in Clients |-> "no"]
  /\ held = [k \in Providers \cup {Global} |-> {}]
  /\ started = [p \in Providers |-> 0] /\ reserved = {}
  /\ circuit = [p \in Providers |-> Fresh(0)]
  /\ lease = [c \in Clients |-> None]
  /\ calls = 0 /\ changes = 0

NextPermits ==
  \/ \E c \in Clients :
       \/ Begin(c) \/ Sleep(c) \/ Acquire(c) \/ LookAtWindow(c) \/ Wake(c)
       \/ Reserve(c) \/ Claim(c) \/ Start(c) \/ Record(c) \/ Abandon(c)
       \/ Return(c) \/ ReleaseProbe(c) \/ ReturnEntry(c)
  \/ Expire \/ Cool \/ Reconfigure \/ Activate \/ RollBack

PermitsSpec == InitPermits /\ [][NextPermits]_permits

-----------------------------------------------------------------------------
\* Nobody sleeps beside a permit that its limits leave free: no notification is
\* missed between the test and the sleep, or taken by a waiter for another key
\* (Pools::acquire, release).
NobodySleepsInVain ==
  \A c \in Clients : stage[c] \in Pools /\ rest[c] = "asleep" => ~ HasRoom(Key(c), under[c])

\* "So that a queued request does not go by the configuration of its arrival for
\* ever" (Pools::acquire): nobody sleeps beside a permit that the limits in
\* force leave free.
QueuedSeeNewLimits ==
  \A c \in Clients :
    stage[c] \in Pools /\ rest[c] = "asleep" /\ former = None => ~ HasRoom(Key(c), limits)

\* A circuit that is probed has a caller who will settle or release the probe:
\* else the provider would be refused for ever (AdmissionLease, CircuitLease).
ProbeIsHeld ==
  \A p \in Providers :
    LET k == circuit[p] IN
    k.probe # None => /\ lease[k.probe] = Lease(k, TRUE)
                      /\ stage[k.probe] \in {"permit", "call", "dropGlobal", "dropProvider", "dropProbe"}

=============================================================================
