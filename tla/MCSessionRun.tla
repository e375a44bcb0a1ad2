---------------------------- MODULE MCSessionRun ----------------------------
(* Instances of SessionRun for TLC. *)
EXTENDS SessionRun, TLC

Symmetry == Permutations(Messages) \cup Permutations(Runs) \cup Permutations(Kickers)

=============================================================================
