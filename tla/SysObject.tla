------------------------------ MODULE SysObject ------------------------------
(***************************************************************************)
(* The system objects of common/ifxos_sys_show.c: a fixed table of trace    *)
(* objects that every lock, event, thread and FIFO draws one from when it   *)
(* is initialised and gives back when it is deleted.  The table is scanned  *)
(* and marked under IFXOS_SYS_Lock, while the request count of an object is *)
(* changed without it; when the table is full, every further caller gets    *)
(* the same dummy object.                                                   *)
(*                                                                         *)
(* The critical sections of Get and Release are one step each, and so is    *)
(* the code before and after them: the lock is only ever held for the       *)
(* critical section, which takes no other lock.                            *)
(***************************************************************************)
EXTENDS Naturals, FiniteSets

CONSTANTS
  Users,        \* the locks, events, threads and FIFOs that own a system object
  NumOfObject,  \* IFXOS_SYS_MAX_OBJECT, the length of the object table
  Dummy,        \* &IFXOS_dummySysObjectBuffer
  Null,         \* IFX_NULL
  Signals,      \* whether a signal may interrupt sem_wait on IFXOS_SYS_Lock
  MaxCount      \* bound of the check: largest objCount that Get starts from

Reserved == 2             \* the objects "own" and "memory", never handed out
Slots == Reserved .. NumOfObject - 1

\* What is assumed of the constants.
TableAssumption ==
  /\ NumOfObject \in Nat /\ NumOfObject >= Reserved
  /\ Null # Dummy /\ Signals \in BOOLEAN
  /\ {Null, Dummy} \cap Nat = {}

VARIABLES
  initDone,   \* control.initDone
  objCount,   \* control.objCount
  marked,     \* the slots whose objType is not 0
  reqCount,   \* reqCount of each slot
  dummyUsed,  \* reqCount of the dummy object is not 0
  ptr,        \* what Get found for the user, the user's pSysObject once it returned
  pc          \* where the user is in Get or Release

vars == <<initDone, objCount, marked, reqCount, dummyUsed, ptr, pc>>

\* Before Get, between its critical section and its return, while the user
\* owns what Get returned, and in Release before its critical section.
Places == {"none", "marking", "counting", "owning", "freeing"}

Init ==
  /\ initDone = FALSE /\ objCount = 0
  /\ marked = {} /\ reqCount = [s \in Slots |-> 0] /\ dummyUsed = FALSE
  /\ ptr = [u \in Users |-> Null] /\ pc = [u \in Users |-> "none"]

Goto(u, place) == pc' = [pc EXCEPT ![u] = place]

-----------------------------------------------------------------------------
\* IFXOS_SysObject_Setup clears the table but not the dummy object.
Setup ==
  /\ ~initDone
  /\ initDone' = TRUE /\ objCount' = Reserved
  /\ marked' = {} /\ reqCount' = [s \in Slots |-> 0]
  /\ UNCHANGED <<dummyUsed, ptr, pc>>

\* IFXOS_SysObject_Cleanup keeps the table.  The application calls it when
\* nothing owns an entry: the code has no means of telling.
Cleanup ==
  /\ initDone
  /\ \A u \in Users : ptr[u] = Null /\ pc[u] \in {"none", "owning"}
  /\ initDone' = FALSE
  /\ UNCHANGED <<objCount, marked, reqCount, dummyUsed, ptr, pc>>

-----------------------------------------------------------------------------
Free == Slots \ marked

\* The object the scan of the table ends with.
Found(o) == IF Free = {} THEN o = Dummy ELSE o \in Free /\ \A t \in Free : o <= t

\* Get before Setup returns IFX_NULL.
GetNothing(u) ==
  /\ pc[u] = "none" /\ ~initDone
  /\ Goto(u, "owning")
  /\ UNCHANGED <<initDone, objCount, marked, reqCount, dummyUsed, ptr>>

GetStart(u) ==
  /\ pc[u] = "none" /\ initDone
  /\ Goto(u, "marking")
  /\ UNCHANGED <<initDone, objCount, marked, reqCount, dummyUsed, ptr>>

\* Mutant: the slot is marked only after the lock was given back.
MarkMut_Later(o) == marked' = marked

\* The mark that the critical section leaves in the table.
Mark(o) == marked' = marked \cup (Slots \cap {o})

\* The critical section: objCount grows also when there is only the dummy.
GetMark(u) ==
  /\ pc[u] = "marking" /\ objCount < MaxCount
  /\ \E o \in Slots \cup {Dummy} : Found(o) /\ Mark(o) /\ ptr' = [ptr EXCEPT ![u] = o]
  /\ objCount' = objCount + 1
  /\ Goto(u, "counting")
  /\ UNCHANGED <<initDone, reqCount, dummyUsed>>

\* SetCreatorThrInfo, outside the lock.
GetCount(u) ==
  /\ pc[u] = "counting"
  /\ IF ptr[u] = Dummy
       THEN dummyUsed' = TRUE /\ UNCHANGED reqCount
       ELSE reqCount' = [reqCount EXCEPT ![ptr[u]] = @ + 1] /\ UNCHANGED dummyUsed
  /\ Goto(u, "owning")
  /\ UNCHANGED <<initDone, objCount, marked, ptr>>

\* sem_wait failed, as it does when a signal interrupts it: Get returns IFX_NULL.
GetInterrupted(u) ==
  /\ pc[u] = "marking" /\ Signals
  /\ Goto(u, "owning")
  /\ UNCHANGED <<initDone, objCount, marked, reqCount, dummyUsed, ptr>>

-----------------------------------------------------------------------------
Released(u) == ptr' = [ptr EXCEPT ![u] = Null] /\ Goto(u, "none")

\* Mutant: Release looks at the request count without having counted down.
CountDownMut_Missing(s) == reqCount[s]

\* What the request count of a slot becomes before Release looks at it.
CountDown(s) == IF s \in marked THEN reqCount[s] - 1 ELSE reqCount[s]

\* Mutant: the objects are counted down before Release looks at what it was given.
ReleaseNothingMut_CountsFirst(u) ==
  /\ pc[u] = "owning" /\ objCount > 0
  /\ ~initDone \/ ptr[u] = Null \/ (ptr[u] = Dummy /\ dummyUsed)
  /\ objCount' = objCount - 1
  /\ Released(u)
  /\ UNCHANGED <<initDone, marked, reqCount, dummyUsed>>

\* Release of IFX_NULL, or before Setup, and of the dummy: its objType is
\* always 0, so its count never goes down and Release stops at "multiple use".
ReleaseNothing(u) ==
  /\ pc[u] = "owning"
  /\ ~initDone \/ ptr[u] = Null \/ (ptr[u] = Dummy /\ dummyUsed)
  /\ Released(u)
  /\ UNCHANGED <<initDone, objCount, marked, reqCount, dummyUsed>>

\* Release up to its critical section.
ReleaseCount(u) ==
  /\ pc[u] = "owning" /\ initDone /\ ptr[u] \in Slots
  /\ LET left == CountDown(ptr[u]) IN
       /\ reqCount' = [reqCount EXCEPT ![ptr[u]] = left]
       /\ IF left > 0 THEN Released(u) ELSE Goto(u, "freeing") /\ UNCHANGED ptr
  /\ UNCHANGED <<initDone, objCount, marked, dummyUsed>>

ReleaseMark(u) ==
  /\ pc[u] = "freeing"
  /\ marked' = marked \ {ptr[u]}
  /\ objCount' = objCount - 1
  /\ Released(u)
  /\ UNCHANGED <<initDone, reqCount, dummyUsed>>

\* sem_wait failed: the slot stays marked, and the macro drops the pointer.
ReleaseInterrupted(u) ==
  /\ pc[u] = "freeing" /\ Signals
  /\ Released(u)
  /\ UNCHANGED <<initDone, objCount, marked, reqCount, dummyUsed>>

Step(u) ==
  \/ GetNothing(u) \/ GetStart(u) \/ GetMark(u) \/ GetCount(u) \/ GetInterrupted(u)
  \/ ReleaseNothing(u) \/ ReleaseCount(u) \/ ReleaseMark(u) \/ ReleaseInterrupted(u)

Next == Setup \/ Cleanup \/ \E u \in Users : Step(u)

Spec == Init /\ [][Next]_vars

-----------------------------------------------------------------------------
\* Every variable has its type, and who has no object points to none.
TypeOK ==
  /\ initDone \in BOOLEAN /\ dummyUsed \in BOOLEAN /\ objCount \in Nat
  /\ marked \subseteq Slots /\ reqCount \in [Slots -> Nat]
  /\ ptr \in [Users -> Slots \cup {Dummy, Null}] /\ pc \in [Users -> Places]
  /\ \A u \in Users : pc[u] \in {"none", "marking"} => ptr[u] = Null

\* No two users share an entry of the table, whatever the order in which their
\* unlocked and locked parts of Get and Release interleave.
SlotExclusive ==
  \A u, v \in Users : ptr[u] = ptr[v] /\ ptr[u] \in Slots => u = v

\* The request count of a slot, written outside the lock, is the number of
\* users whose Get returned it and whose Release has not begun: a slot that is
\* found free always starts from 0, so its next Release really releases it.
RequestsCounted ==
  initDone => \A s \in Slots :
    reqCount[s] = Cardinality({u \in Users : ptr[u] = s /\ pc[u] = "owning"})

\* objCount is at least the number of table entries in use, the two reserved
\* ones included.
CountCovers == initDone => objCount >= Reserved + Cardinality(marked)

\* The counts of the table and of its slots (IFXOS_SysObjectGet and Release), which are
\* written partly outside the lock.
CountsTrue == RequestsCounted /\ CountCovers

\* objCount is what its declaration says, the "current object count".
CurrentCount == initDone => objCount = Reserved + Cardinality({u \in Users : ptr[u] # Null})

=============================================================================
