----------------------------- MODULE MCServices -----------------------------
EXTENDS Services, FiniteSets, TLC

CONSTANTS p, q, a, b, d

\* Of Permits: who calls which provider; and a limit of one, and one
\* that is raised while the circuit is switched off.
MCOf == a :> p @@ b :> p @@ d :> q
MCLimits ==
  {[provider |-> 1, global |-> 2, threshold |-> 1], [provider |-> 2, global |-> 2, threshold |-> 0]}

\* Of AgentLoop: two reads side by side and a write; an open and a slow call.
MCPlans == {<<"read", "read", "write">>, <<"open", "slow">>}

\* Of Approval: both questions are about one command.
MCCommand == [ask \in Asks |-> "command"]

\* The bounds once a request came in too early: what the disk may hold, and one
\* request at a time.
EarlyBound == early => Cardinality(stable) <= 2 /\ Cardinality(ready) <= 1

\* Of Metering: a failed write and two stops are not of one behaviour.
LedgersBound == faults + crashes <= 2

\* Of Permits: three calls with a change of the settings, or with a circuit that
\* opened; two with both.
PermitsBound ==
  calls <= 2 \/ changes = 0 \/ \A key \in Providers : circuit[key].generation = 0

\* Permits begins with the limit of one.
MCInit == ServicesInit /\ limits.threshold = 1
MCSpec == MCInit /\ [][ServicesNext]_services
=============================================================================
