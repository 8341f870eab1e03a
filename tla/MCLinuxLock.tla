---------------------------- MODULE MCLinuxLock ----------------------------
(***************************************************************************)
(* The lock of the Linux application under names that the thread of the      *)
(* Linux application does not use.                                          *)
(***************************************************************************)
EXTENDS Naturals

CONSTANTS Threads, Second, Timeouts, Endless, NoOne, Signals     (* see LinuxLock *)
VARIABLES valid, sem, ownerThr, frac, holder, pc, timeout, left, nsec, answer

Lock == INSTANCE LinuxLock WITH Forever <- Endless, result <- answer

ASSUME LockConstants == Lock!LockAssumption

LockSpec == Lock!Spec

\* The lock has one holder or is free, and its record of the owner names no bystander.
HolderTrue == Lock!HolderTrue

\* Every call keeps the promise of a lock.
PromiseKept == Lock!PromiseKept

\* A call with a finite timeout returns.
TimedGetReturns == Lock!TimedGetReturns

\* A finite timeout other than 0 waits for that time.
WaitsItsTime == Lock!WaitsItsTime
=============================================================================
