------------------------ MODULE MCTurnTaskSupervisor ------------------------
(* TurnTaskSupervisor on a few submissions. *)
EXTENDS TurnTaskSupervisor, TLC

Symmetry == Permutations(Turns)
=============================================================================
