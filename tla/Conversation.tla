---------------------------- MODULE Conversation ----------------------------
(***************************************************************************)
(* What a Session promises about the messages a user sends to it, without  *)
(* runs, slots, leases, retries or blocks.  A message is sent once.  It is *)
(* said (appended to the history) at most once, and one that was accepted  *)
(* into the queue is dropped only when the user withdraws it.              *)
(***************************************************************************)
EXTENDS Sequences

CONSTANT Messages

VARIABLES
  state,    \* where every message is
  promised, \* accepted into the queue with Ok, neither said nor withdrawn
  said      \* the user messages of the history, in order

vars == <<state, promised, said>>

States == {"unsent", "carried", "queued", "said", "dropped"}

Moved(m, s) == state' = [state EXCEPT ![m] = s]

Init ==
  /\ state = [m \in Messages |-> "unsent"]
  /\ promised = {}
  /\ said = <<>>

\* A run takes m: straight from the user or from the queue.
Carry(m) ==
  /\ state[m] \in {"unsent", "queued"}
  /\ Moved(m, "carried")
  /\ UNCHANGED <<promised, said>>

\* m waits, or waits again; only a call that returned Ok promises it.
Queue(m) ==
  /\ state[m] \in {"unsent", "carried"}
  /\ Moved(m, "queued")
  /\ promised' \in {promised, promised \cup {m}}
  /\ UNCHANGED said

Say(m) ==
  /\ state[m] = "carried"
  /\ Moved(m, "said")
  /\ promised' = promised \ {m}
  /\ said' = Append(said, m)

\* A message nobody was promised may be lost with its run.
Lose(m) ==
  /\ state[m] = "carried"
  /\ m \notin promised
  /\ Moved(m, "dropped")
  /\ UNCHANGED <<promised, said>>

\* Stop, or clear of the queue: waiting messages are dropped; one that a run
\* has taken is that run's own from now on, or dropped when no run has it.
AfterWithdraw(s) ==
  CASE s = "queued"  -> {"dropped"}
    [] s = "carried" -> {"carried", "dropped"}
    [] OTHER         -> {s}

Withdraw(S) ==
  /\ state' \in [Messages -> States]
  /\ \A m \in S : state'[m] \in AfterWithdraw(state[m])
  /\ \A m \in Messages \ S : state'[m] = state[m]
  /\ promised' = promised \ S
  /\ UNCHANGED said

\* The process died with the messages S that no promise covers.
Crash(S) ==
  /\ S \cap promised = {}
  /\ \A m \in S : state[m] = "carried"
  /\ state' = [m \in Messages |-> IF m \in S THEN "dropped" ELSE state[m]]
  /\ UNCHANGED <<promised, said>>

Next ==
  \/ \E m \in Messages : Carry(m) \/ Queue(m) \/ Say(m) \/ Lose(m)
  \/ \E S \in SUBSET Messages : Withdraw(S) \/ Crash(S)

Spec == Init /\ [][Next]_vars

=============================================================================
