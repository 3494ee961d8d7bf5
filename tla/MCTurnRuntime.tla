--------------------------- MODULE MCTurnRuntime ---------------------------
EXTENDS TurnRuntime
=============================================================================
