---------------------------- MODULE MCPortEvent -----------------------------
EXTENDS PortEvent
=============================================================================
