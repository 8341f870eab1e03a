------------------------------ MODULE MCVarFifo ------------------------------
EXTENDS VarFifo
=============================================================================
