-------------------------- MODULE DeliveryPromise ---------------------------
(***************************************************************************)
(* What the durable queue promises to the callers that got an answer,      *)
(* without files, locks or blocks.  fate says of every delivery whether a  *)
(* restart would find it: surely ("in"), surely not ("out"), or either.    *)
(* A delivery whose fate is unsure may be found out to be in or out by any *)
(* later step; a sure one changes only by the call that is about it.  The   *)
(* promise may be suspended; when it is taken up again nobody is owed       *)
(* anything.                                                               *)
(***************************************************************************)
CONSTANT Deliveries

VARIABLES
  fate,  \* what a restart would find
  owed,  \* accepted with Ok and not consumed since
  done,  \* consumed with Ok
  suspended  \* nothing is promised now

vars == <<fate, owed, done, suspended>>

Fates == {"in", "unsure", "out"}

TypeOK ==
  /\ fate \in [Deliveries -> Fates]
  /\ owed \subseteq Deliveries
  /\ done \subseteq Deliveries
  /\ suspended \in BOOLEAN

\* Nothing is learnt of the others that was not unsure before.
OthersKept(S) ==
  /\ fate' \in [Deliveries -> Fates]
  /\ \A d \in Deliveries \ S : fate[d] \in {fate'[d], "unsure"}

Accept(d) ==
  /\ owed' = owed \cup {d}
  /\ done' = done \ {d}
  /\ fate'[d] = "in"
  /\ OthersKept({d})

\* The call about d failed: d may be in or out, but it was promised to nobody.
Doubt(d) ==
  /\ d \notin owed
  /\ done' = done \ {d}
  /\ OthersKept({d})
  /\ UNCHANGED owed

Consume(S) ==
  /\ owed' = owed \ S
  /\ done' = done \cup S
  /\ \A d \in S : fate'[d] = "out"
  /\ OthersKept(S)

\* The consumption of S was visible and then failed.
Drop(S) ==
  /\ owed' = owed \ S
  /\ OthersKept(S)
  /\ done \cap S = {}
  /\ UNCHANGED done

\* A claim, a release, a repair or a restart.
Recover ==
  /\ OthersKept({})
  /\ UNCHANGED <<owed, done>>

\* The file was replaced from outside: every promise is void.
Damage ==
  /\ fate' \in [Deliveries -> Fates]
  /\ owed' = {}
  /\ done' = {}

\* A request came in before the queue had been restored.
Suspend ==
  suspended'

Resume ==
  /\ suspended
  /\ ~ suspended'
  /\ Damage

Init ==
  /\ fate = [d \in Deliveries |-> "out"]
  /\ owed = {}
  /\ done = {}
  /\ suspended = FALSE

Call ==
  \/ Damage
  \/ Recover
  \/ \E d \in Deliveries : Accept(d) \/ Doubt(d)
  \/ \E S \in SUBSET Deliveries : Consume(S) \/ Drop(S)

Next ==
  \/ Suspend
  \/ Resume
  \/ ~ suspended /\ ~ suspended' /\ Call

Spec == Init /\ [][Next]_vars

-----------------------------------------------------------------------------
\* What was accepted and not consumed is found by every restart, and what was
\* consumed is found by none.
PromiseKept ==
  ~ suspended =>
    /\ \A d \in owed : fate[d] = "in"
    /\ \A d \in done : fate[d] = "out"

=============================================================================
