---------------------------- MODULE MCLinuxThread ----------------------------
EXTENDS LinuxThread
=============================================================================
