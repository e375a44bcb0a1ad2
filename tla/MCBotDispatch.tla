--------------------------- MODULE MCBotDispatch ---------------------------
(* BotDispatch on small instances. *)
EXTENDS BotDispatch

\* Bound: a run that is not dispatched asks nobody for anything.
DirectBound ==
  \A i \in DOMAIN messages : messages[i].kind = "request" => messages[i].run[1] # 0
=============================================================================
