------------------------------ MODULE MCBotRun ------------------------------
(* BotRun on small instances. *)
EXTENDS BotRun, TLC
MCOps == 1..2
MCTurns == 1..MaxTurns
InAnyOrder == Permutations(Calls)
=============================================================================
