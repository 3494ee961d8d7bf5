----------------------- MODULE MCStoryTurnCoordinator -----------------------
(* StoryTurnCoordinator on a few turns of one or two stories. *)
EXTENDS StoryTurnCoordinator, TLC

Symmetry == Permutations(Turns)
=============================================================================
