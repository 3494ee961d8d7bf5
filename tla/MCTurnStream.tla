---------------------------- MODULE MCTurnStream ----------------------------
EXTENDS TurnStream
=============================================================================
