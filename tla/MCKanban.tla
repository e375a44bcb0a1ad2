------------------------------ MODULE MCKanban ------------------------------
EXTENDS Kanban, TLC

CONSTANTS implementing, review, done

MCEntry == implementing :> "run" @@ review :> "gate" @@ done :> "none"
MCOnSuccess == implementing :> review @@ review :> done @@ done :> None
MCOnFailure == implementing :> None @@ review :> implementing @@ done :> None
MCWip == implementing :> 2 @@ review :> 1 @@ done :> 2

Symmetry == Permutations(Processes) \cup Permutations(Cards)
=============================================================================
