---------------------------- MODULE MCSysObject ----------------------------
(***************************************************************************)
(* The system objects under names that the lock and the thread of the Linux  *)
(* application do not use.                                                 *)
(***************************************************************************)
EXTENDS Naturals, TLC

CONSTANTS Users, NumOfObject, Dummy, Null, Interrupts, MaxCount     (* see SysObject *)
VARIABLES initDone, objCount, marked, reqCount, dummyUsed, ptr, place

Table == INSTANCE SysObject WITH Signals <- Interrupts, pc <- place

ASSUME TableConstants == Table!TableAssumption

TableSpec == Table!Spec

\* An entry of the table has one owner at most.
SlotExclusive == Table!SlotExclusive

\* The counts kept with and without the lock agree with the owners.
CountsTrue == Table!CountsTrue

UserSymmetry == Permutations(Users)
=============================================================================
