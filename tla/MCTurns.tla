------------------------------ MODULE MCTurns ------------------------------
EXTENDS SchedTurns
=============================================================================
