---------------------------- MODULE MCPortThread ----------------------------
EXTENDS PortThread
=============================================================================
