------------------------------ MODULE PortLock ------------------------------
(***************************************************************************)
(* The locks and mutexes of the ports: IFXOS_LockInit, LockGet, LockTimedGet, *)
(* LockRelease and LockDelete of the Linux kernel, eCos, VxWorks, Windows,    *)
(* Nucleus, RTEMS, XAPI and the generic port (the lock of the Linux           *)
(* application is LinuxLock), IFXOS_MutexInit, MutexGet, MutexRelease and     *)
(* MutexDelete of these and of the Linux application.                        *)
(*                                                                         *)
(* A behaviour belongs to one port and one kind of object.  A call first      *)
(* looks at the valid flag and then waits; taking the semaphore is one step,  *)
(* putting the owner on record another.  The run-time checks are built in.    *)
(* Applications do not lock twice what is not recursive, release only what    *)
(* they hold, or a lock that is free where that does no harm, and delete what *)
(* nobody waits for.                                                       *)
(***************************************************************************)
EXTENDS PortTime

CONSTANTS
  LockPorts, MutexPorts,
  Threads, NoOne,
  Times,      \* the values of timeout_ms, in units
  Poll,       \* the 10 ms between two tries of the kernel port
  Depth,      \* bound of the check: how often a recursive mutex is taken
  MaxSem,     \* bound of the check: the semaphore at which RTEMS locks are still asked for in time
  MaxLost     \* bound of the check: semaphores the XAPI port leaves behind

AllPorts == {"linux_drv", "ecos", "vxworks", "win32", "nucleus", "rtems", "xapi", "generic"}

ASSUME PortLockAssumption ==
  /\ LockPorts \subseteq AllPorts /\ MutexPorts \subseteq AllPorts \cup {"linux_appl"}
  /\ NoOne \notin Threads
  /\ Times \subseteq 0 .. Forever
  /\ Poll \in Nat \ {0} /\ Depth \in Nat /\ MaxSem \in Nat /\ MaxLost \in Nat

VARIABLES
  port, kind,
  bValid,
  sem,       \* the value of the semaphore
  alive,     \* the object of the operating system exists
  entry,     \* the lock has an entry of the table of system objects
  owner,     \* the owner on record there
  lost,      \* the objects of the operating system that nothing refers to
  holds,     \* how often each thread was told that it has the lock
  st,        \* what each thread does
  timeout, left, age,  \* the time its call asked for, has left, and has lasted
  poll,      \* timeCnt
  phase,     \* the units since the last tick
  out        \* what its last call returned: result and return code

object == <<port, kind, bValid, sem, alive, entry, lost>>
clocks == <<timeout, left, age, poll>>
vars == <<object, owner, holds, st, clocks, phase, out>>

Nothing == [result |-> "none", code |-> 0]

Init ==
  /\ \/ kind = "lock" /\ port \in LockPorts
     \/ kind = "mutex" /\ port \in MutexPorts
  /\ bValid = FALSE /\ sem = 0 /\ alive = FALSE /\ entry = FALSE /\ lost = 0
  /\ owner = NoOne /\ phase = 0
  /\ holds = [t \in Threads |-> 0] /\ st = [t \in Threads |-> "idle"]
  /\ timeout = [t \in Threads |-> 0] /\ left = [t \in Threads |-> 0]
  /\ age = [t \in Threads |-> 0] /\ poll = [t \in Threads |-> 0]
  /\ out = [t \in Threads |-> Nothing]

Is(p, k) == port = p /\ kind = k

\* The mutexes that may be taken again by their holder.
Recursive == kind = "mutex" /\ port \in {"vxworks", "win32"}
Deepest == IF Recursive THEN Depth ELSE 1

\* The locks whose owner is put on record.
Recorded == kind = "lock" /\ port \in {"ecos", "vxworks", "win32", "nucleus", "generic"}

-----------------------------------------------------------------------------
(* Init and delete.                                                         *)

Opens(p, k) ==
  /\ Is(p, k) /\ ~bValid
  /\ bValid' = TRUE /\ sem' = 1 /\ alive' = TRUE
  /\ UNCHANGED <<port, kind, owner, holds, st, clocks, phase, out>>

WithEntry == entry' = TRUE /\ UNCHANGED lost
NoEntry == UNCHANGED <<entry, lost>>

\* Nobody is in a call, and only the thread that deletes a mutex may hold it.
Unused ==
  /\ \A t \in Threads : st[t] = "idle" /\ (kind = "lock" => holds[t] = 0)
  /\ \A t, u \in Threads : holds[t] > 0 /\ holds[u] > 0 => t = u
  /\ holds' = [t \in Threads |-> 0]
  /\ UNCHANGED <<port, kind, owner, st, clocks, phase, out>>

Invalidates(p, k) == Is(p, k) /\ bValid /\ Unused /\ bValid' = FALSE

Destroys == alive' = FALSE /\ sem' = 0
LeavesObject == UNCHANGED <<alive, sem>>

Closes(p, k) == Invalidates(p, k) /\ Destroys /\ entry' = FALSE /\ UNCHANGED lost

LinuxDrvLockInit == Opens("linux_drv", "lock") /\ NoEntry
LinuxDrvLockDelete == Closes("linux_drv", "lock")

EcosLockInit == Opens("ecos", "lock") /\ WithEntry
EcosLockDelete == Closes("ecos", "lock")

VxworksLockInit == Opens("vxworks", "lock") /\ WithEntry

\* Mutant: the entry of the table is kept.
VxworksLockDeleteMut_NoEntry ==
  Invalidates("vxworks", "lock") /\ Destroys /\ UNCHANGED <<entry, lost>>

VxworksLockDelete == Closes("vxworks", "lock")

Win32LockInit == Opens("win32", "lock") /\ WithEntry
Win32LockDelete == Closes("win32", "lock")

\* A semaphore that exists cannot be created again.
NucleusLockInit == ~alive /\ Opens("nucleus", "lock") /\ WithEntry

\* When the operating system refuses, the lock is invalid all the same.
NucleusLockDelete ==
  \/ Closes("nucleus", "lock")
  \/ Invalidates("nucleus", "lock") /\ LeavesObject /\ NoEntry

XapiLockInit == Opens("xapi", "lock") /\ NoEntry

\* IFXOS_LockDelete of XAPI returns IFX_SUCCESS and does nothing: there is no step.

GenericLockInit == Opens("generic", "lock") /\ WithEntry
GenericLockDelete == Closes("generic", "lock")

LinuxApplMutexInit == Opens("linux_appl", "mutex") /\ NoEntry
LinuxApplMutexDelete == Closes("linux_appl", "mutex")

LinuxDrvMutexInit == Opens("linux_drv", "mutex") /\ NoEntry
LinuxDrvMutexDelete == Closes("linux_drv", "mutex")

EcosMutexInit == Opens("ecos", "mutex") /\ NoEntry
EcosMutexDelete == Closes("ecos", "mutex")

VxworksMutexInit == Opens("vxworks", "mutex") /\ NoEntry
VxworksMutexDelete == Closes("vxworks", "mutex")

Win32MutexInit == Opens("win32", "mutex") /\ NoEntry
Win32MutexDelete == Closes("win32", "mutex")

\* The semaphore is not deleted, and the next init finds it there.
NucleusMutexInit == ~alive /\ Opens("nucleus", "mutex") /\ NoEntry
NucleusMutexDelete == Invalidates("nucleus", "mutex") /\ LeavesObject /\ NoEntry

XapiMutexInit ==
  /\ Opens("xapi", "mutex")
  /\ lost < MaxLost /\ lost' = (IF alive THEN lost + 1 ELSE lost)
  /\ UNCHANGED entry
XapiMutexDelete == Invalidates("xapi", "mutex") /\ LeavesObject /\ NoEntry

GenericMutexInit == Opens("generic", "mutex") /\ NoEntry
GenericMutexDelete == Closes("generic", "mutex")

\* A semaphore that could be deleted leaves the mutex valid, one that was deleted
\* before makes it invalid.
RtemsOpens(k) == Opens("rtems", k) /\ NoEntry
RtemsDeletes(k) ==
  /\ Is("rtems", k) /\ bValid /\ Unused /\ NoEntry
  /\ \/ alive /\ Destroys /\ UNCHANGED bValid
     \/ ~alive /\ bValid' = FALSE /\ LeavesObject

RtemsMutexInit == RtemsOpens("mutex")
RtemsMutexDelete == RtemsDeletes("mutex")
RtemsLockInit == RtemsOpens("lock")
RtemsLockDelete == RtemsDeletes("lock")

-----------------------------------------------------------------------------
(* Get and timed get.                                                       *)

\* A call enters its wait.
AsksFor(p, k, t, w, units) ==
  /\ Is(p, k) /\ bValid /\ st[t] = "idle" /\ holds[t] < Deepest
  /\ st' = [st EXCEPT ![t] = "asleep"]
  /\ timeout' = [timeout EXCEPT ![t] = w] /\ left' = [left EXCEPT ![t] = units]
  /\ out' = [out EXCEPT ![t] = Nothing]
  /\ UNCHANGED <<object, owner, holds, age, poll, phase>>

\* A call returns.
Returns(t, result, code) ==
  /\ st' = [st EXCEPT ![t] = "idle"]
  /\ out' = [out EXCEPT ![t] = [result |-> result, code |-> code]]
  /\ timeout' = [timeout EXCEPT ![t] = 0] /\ left' = [left EXCEPT ![t] = 0]
  /\ age' = [age EXCEPT ![t] = 0] /\ poll' = [poll EXCEPT ![t] = 0]
  /\ UNCHANGED phase

\* A call that got the lock returns, or goes on to the record.
Gets(t) ==
  /\ holds' = [holds EXCEPT ![t] = @ + 1]
  /\ \/ ~Recorded /\ Returns(t, "success", 0)
     \/ Recorded /\ st' = [st EXCEPT ![t] = "took"] /\ UNCHANGED <<clocks, phase, out>>
  /\ UNCHANGED <<port, kind, bValid, alive, entry, lost, owner>>

Takes(p, k, t) ==
  /\ Is(p, k) /\ alive /\ st[t] \in {"asleep", "trying"}
  /\ \/ holds[t] = 0 /\ sem > 0 /\ sem' = sem - 1
     \/ holds[t] > 0 /\ UNCHANGED sem
  /\ Gets(t)

Records(p, t) ==
  /\ Is(p, "lock") /\ st[t] = "took"
  /\ owner' = t
  /\ Returns(t, "success", 0)
  /\ UNCHANGED <<object, holds>>

Fails(p, k, t, code) ==
  /\ Is(p, k)
  /\ Returns(t, "error", code)
  /\ UNCHANGED <<object, owner, holds>>

\* The time of a wait is over and the semaphore is not there.
Expires(p, t, code) ==
  st[t] = "asleep" /\ left[t] = 0 /\ sem = 0 /\ Fails(p, "lock", t, code)

TryFails(p, t) == timeout[t] = 0 /\ Expires(p, t, 0)

\* Mutant: the wait that ran out gives back what it did not take.
RunsOutMut_GivesBack(p, t, code) ==
  /\ Is(p, "lock") /\ st[t] = "asleep" /\ timeout[t] # 0 /\ left[t] = 0 /\ sem = 0
  /\ sem' = 1
  /\ Returns(t, "error", code)
  /\ UNCHANGED <<port, kind, bValid, alive, entry, lost, owner, holds>>

\* Mutant: a wait that ran out is taken for one that got the lock.
RunsOutMut_Success(p, t, code) ==
  /\ Is(p, "lock") /\ st[t] = "asleep" /\ timeout[t] # 0 /\ left[t] = 0 /\ sem = 0
  /\ Returns(t, "success", 0)
  /\ UNCHANGED <<object, owner, holds>>

RunsOut(p, t, code) == timeout[t] # 0 /\ Expires(p, t, code)

\* The wait of less than a tick does not wait, and fails without a code.
FailsAtOnce(p, t) == RunsOut(p, t, 0)

LockGets(p, t) == AsksFor(p, "lock", t, Forever, Never) \/ Takes(p, "lock", t) \/ Records(p, t)
MutexGets(p, t) == AsksFor(p, "mutex", t, Forever, Never) \/ Takes(p, "mutex", t)

Ticks(w, n) == IF w = Forever THEN Never ELSE UntilTick(n, phase)

EcosLockGet(t) == LockGets("ecos", t)

EcosTimedGet(t, w) ==
  \/ AsksFor("ecos", "lock", t, w, Ticks(w, MSecToTick(w)))
  \/ Takes("ecos", "lock", t) \/ Records("ecos", t)
  \/ TryFails("ecos", t) \/ RunsOut("ecos", t, 1)

VxworksLockGet(t) == LockGets("vxworks", t)

\* Mutant: a wait that ran out sets no code.
VxworksTimedGetMut_NoCode(t, w) ==
  \/ AsksFor("vxworks", "lock", t, w, Ticks(w, HzTicks(w)))
  \/ Takes("vxworks", "lock", t) \/ Records("vxworks", t) \/ TryFails("vxworks", t)
  \/ RunsOut("vxworks", t, 0)

VxworksTimedGet(t, w) ==
  \/ AsksFor("vxworks", "lock", t, w, Ticks(w, HzTicks(w)))
  \/ Takes("vxworks", "lock", t) \/ Records("vxworks", t) \/ TryFails("vxworks", t)
  \/ HzTicks(timeout[t]) # 0 /\ RunsOut("vxworks", t, 1)
  \/ HzTicks(timeout[t]) = 0 /\ FailsAtOnce("vxworks", t)

Win32LockGet(t) == LockGets("win32", t)

Win32TimedGet(t, w) ==
  \/ AsksFor("win32", "lock", t, w, Finite(w))
  \/ Takes("win32", "lock", t) \/ Records("win32", t)
  \/ TryFails("win32", t) \/ RunsOut("win32", t, 1)

NucleusLockGet(t) == LockGets("nucleus", t)

NucleusTimedGet(t, w) ==
  \/ AsksFor("nucleus", "lock", t, w, Ticks(w, MSecToTick(w)))
  \/ Takes("nucleus", "lock", t) \/ Records("nucleus", t) \/ TryFails("nucleus", t)
  \/ MSecToTick(timeout[t]) # 0 /\ RunsOut("nucleus", t, 1)
  \/ MSecToTick(timeout[t]) = 0 /\ FailsAtOnce("nucleus", t)

XapiLockGet(t) == LockGets("xapi", t)

\* The time is handed on as a number of ticks.
XapiTimedGet(t, w) ==
  \/ AsksFor("xapi", "lock", t, w, Ticks(w, w))
  \/ Takes("xapi", "lock", t) \/ TryFails("xapi", t) \/ RunsOut("xapi", t, 1)

\* Nothing is taken: a stub, and the timed get of RTEMS.
Pretends(p, k, t) ==
  /\ Is(p, k) /\ bValid /\ st[t] = "idle" /\ holds[t] = 0
  /\ Gets(t)
  /\ UNCHANGED sem

\* RTEMS looks at the valid flag only: a semaphore that was deleted fails the wait.
FindsDead(k, t) == ~alive /\ st[t] = "asleep" /\ Fails("rtems", k, t, 0)

RtemsLockGet(t) == LockGets("rtems", t) \/ FindsDead("lock", t)
RtemsTimedGet(t, w) == sem < MaxSem /\ Pretends("rtems", "lock", t)

GenericLockGet(t) == Pretends("generic", "lock", t) \/ Records("generic", t)
GenericTimedGet(t, w) == Pretends("generic", "lock", t) \/ Records("generic", t)

LinuxDrvLockGet(t) == LockGets("linux_drv", t)

\* The wait of an event that nobody wakes up is a pause; its return tells the loop to
\* go on only when a signal came.
LinuxDrvPauses(t) ==
  /\ st[t] = "trying" /\ sem = 0 /\ poll[t] <= timeout[t]
  /\ st' = [st EXCEPT ![t] = "pausing"]
  /\ left' = [left EXCEPT ![t] = UntilTick(HzTicks(Poll), phase)]
  /\ UNCHANGED <<object, owner, holds, timeout, age, poll, phase, out>>

\* Mutant: the tries are not counted.
LinuxDrvGoesOnMut_NoCount(t) ==
  /\ st[t] = "pausing"
  /\ st' = [st EXCEPT ![t] = "trying"] /\ left' = [left EXCEPT ![t] = 0]
  /\ UNCHANGED <<object, owner, holds, timeout, age, poll, phase, out>>

LinuxDrvGoesOn(t) ==
  /\ st[t] = "pausing"
  /\ st' = [st EXCEPT ![t] = "trying"] /\ left' = [left EXCEPT ![t] = 0]
  /\ poll' = [poll EXCEPT ![t] = @ + Poll]
  /\ UNCHANGED <<object, owner, holds, timeout, age, phase, out>>

\* The init of the event looks at a valid flag that was never written.
LinuxDrvTimedGet(t, w) ==
  \/ w \in {0, Forever} /\ AsksFor("linux_drv", "lock", t, w, Finite(w))
  \/ Takes("linux_drv", "lock", t) \/ TryFails("linux_drv", t)
  \/ /\ Is("linux_drv", "lock") /\ bValid /\ st[t] = "idle" /\ holds[t] = 0
     /\ w \notin {0, Forever} /\ Fails("linux_drv", "lock", t, 0)
  \/ /\ Is("linux_drv", "lock") /\ bValid /\ st[t] = "idle" /\ holds[t] = 0
     /\ w \notin {0, Forever}
     /\ st' = [st EXCEPT ![t] = "trying"] /\ timeout' = [timeout EXCEPT ![t] = w]
     /\ out' = [out EXCEPT ![t] = Nothing]
     /\ UNCHANGED <<object, owner, holds, left, age, poll, phase>>
  \/ LinuxDrvPauses(t) \/ LinuxDrvGoesOn(t)
  \/ /\ st[t] = "trying" /\ sem = 0 /\ poll[t] > timeout[t]
     /\ Fails("linux_drv", "lock", t, 1)
  \/ st[t] = "pausing" /\ left[t] = 0 /\ Fails("linux_drv", "lock", t, 0)

LinuxApplMutexGet(t) == MutexGets("linux_appl", t)
LinuxDrvMutexGet(t) == MutexGets("linux_drv", t)
EcosMutexGet(t) == MutexGets("ecos", t)
VxworksMutexGet(t) == MutexGets("vxworks", t)
Win32MutexGet(t) == MutexGets("win32", t)
NucleusMutexGet(t) == MutexGets("nucleus", t)
RtemsMutexGet(t) == MutexGets("rtems", t) \/ FindsDead("mutex", t)
XapiMutexGet(t) == MutexGets("xapi", t)
GenericMutexGet(t) == Pretends("generic", "mutex", t)

-----------------------------------------------------------------------------
(* Release.                                                                 *)

\* The caller goes on to erase the record of the owner, or returns.
Done(t) ==
  /\ st' = [st EXCEPT ![t] = IF Recorded THEN "gave" ELSE "idle"]
  /\ UNCHANGED <<port, kind, bValid, alive, entry, lost, owner, clocks, phase, out>>

Posts(p, k, t) ==
  /\ Is(p, k) /\ bValid /\ alive /\ st[t] = "idle" /\ holds[t] > 0
  /\ holds' = [holds EXCEPT ![t] = @ - 1]
  /\ sem' = IF holds[t] = 1 THEN sem + 1 ELSE sem
  /\ Done(t)

\* Mutant: the record is left as it is.
ErasesMut_Kept(p, t) ==
  /\ Is(p, "lock") /\ st[t] = "gave"
  /\ st' = [st EXCEPT ![t] = "idle"]
  /\ UNCHANGED <<object, owner, holds, clocks, phase, out>>

Erases(p, t) ==
  /\ Is(p, "lock") /\ st[t] = "gave"
  /\ owner' = NoOne
  /\ st' = [st EXCEPT ![t] = "idle"]
  /\ UNCHANGED <<object, holds, clocks, phase, out>>

\* A release of a lock that is free.
Surplus(p, t) ==
  Is(p, "lock") /\ bValid /\ sem = 1 /\ st[t] = "idle" /\ holds[t] = 0 /\ UNCHANGED holds

LockPosts(p, t) == Posts(p, "lock", t) \/ Erases(p, t)

LinuxDrvLockRelease(t) == LockPosts("linux_drv", t)
EcosLockRelease(t) == LockPosts("ecos", t)

\* The semaphore is binary: it stays full, and the release succeeds.
VxworksLockRelease(t) ==
  LockPosts("vxworks", t) \/ (Surplus("vxworks", t) /\ UNCHANGED sem /\ Done(t))

\* The semaphore is at its maximum: the release fails.
Win32LockRelease(t) ==
  \/ LockPosts("win32", t)
  \/ Surplus("win32", t) /\ Fails("win32", "lock", t, 0)

NucleusLockRelease(t) == LockPosts("nucleus", t)
RtemsLockRelease(t) ==
  \/ Posts("rtems", "lock", t)
  \/ /\ bValid /\ ~alive /\ st[t] = "idle" /\ holds[t] > 0
     /\ Fails("rtems", "lock", t, 0)
XapiLockRelease(t) == Posts("xapi", "lock", t)

Pretended(k, t) ==
  /\ Is("generic", k) /\ bValid /\ st[t] = "idle" /\ holds[t] > 0
  /\ holds' = [holds EXCEPT ![t] = @ - 1]
  /\ UNCHANGED sem
  /\ Done(t)

GenericLockRelease(t) == Pretended("lock", t) \/ Erases("generic", t)

LinuxApplMutexRelease(t) == Posts("linux_appl", "mutex", t)
LinuxDrvMutexRelease(t) == Posts("linux_drv", "mutex", t)
EcosMutexRelease(t) == Posts("ecos", "mutex", t)
VxworksMutexRelease(t) == Posts("vxworks", "mutex", t)
Win32MutexRelease(t) == Posts("win32", "mutex", t)
NucleusMutexRelease(t) == Posts("nucleus", "mutex", t)
RtemsMutexRelease(t) == Posts("rtems", "mutex", t)
XapiMutexRelease(t) == Posts("xapi", "mutex", t)
GenericMutexRelease(t) == Pretended("mutex", t)

-----------------------------------------------------------------------------
InvalidCall(t) == ~bValid /\ st[t] = "idle" /\ Fails(port, kind, t, 0)

\* A unit of time passes.
Tick ==
  /\ kind = "lock" /\ port \notin {"rtems", "generic"}
  /\ phase' = (phase + 1) % TickLen
  /\ left' = [t \in Threads |->
       IF st[t] \in {"asleep", "pausing"} /\ left[t] \notin {0, Never}
       THEN left[t] - 1 ELSE left[t]]
  /\ age' = [t \in Threads |->
       IF st[t] = "asleep" /\ left[t] # Never /\ age[t] < timeout[t] THEN age[t] + 1 ELSE age[t]]
  /\ UNCHANGED <<object, owner, holds, st, timeout, poll, out>>

LockInit ==
  \/ LinuxDrvLockInit \/ EcosLockInit \/ VxworksLockInit \/ Win32LockInit
  \/ NucleusLockInit \/ RtemsLockInit \/ XapiLockInit \/ GenericLockInit

LockDelete ==
  \/ LinuxDrvLockDelete \/ EcosLockDelete \/ VxworksLockDelete \/ Win32LockDelete
  \/ NucleusLockDelete \/ RtemsLockDelete \/ GenericLockDelete

MutexInit ==
  \/ LinuxApplMutexInit \/ LinuxDrvMutexInit \/ EcosMutexInit \/ VxworksMutexInit
  \/ Win32MutexInit \/ NucleusMutexInit \/ RtemsMutexInit \/ XapiMutexInit
  \/ GenericMutexInit

MutexDelete ==
  \/ LinuxApplMutexDelete \/ LinuxDrvMutexDelete \/ EcosMutexDelete \/ VxworksMutexDelete
  \/ Win32MutexDelete \/ NucleusMutexDelete \/ RtemsMutexDelete \/ XapiMutexDelete
  \/ GenericMutexDelete

LockGet(t) ==
  \/ LinuxDrvLockGet(t) \/ EcosLockGet(t) \/ VxworksLockGet(t) \/ Win32LockGet(t)
  \/ NucleusLockGet(t) \/ RtemsLockGet(t) \/ XapiLockGet(t) \/ GenericLockGet(t)

LockTimedGet(t, w) ==
  \/ LinuxDrvTimedGet(t, w) \/ EcosTimedGet(t, w) \/ VxworksTimedGet(t, w)
  \/ Win32TimedGet(t, w) \/ NucleusTimedGet(t, w) \/ RtemsTimedGet(t, w)
  \/ XapiTimedGet(t, w) \/ GenericTimedGet(t, w)

LockRelease(t) ==
  \/ LinuxDrvLockRelease(t) \/ EcosLockRelease(t) \/ VxworksLockRelease(t)
  \/ Win32LockRelease(t) \/ NucleusLockRelease(t) \/ RtemsLockRelease(t)
  \/ XapiLockRelease(t) \/ GenericLockRelease(t)

MutexGet(t) ==
  \/ LinuxApplMutexGet(t) \/ LinuxDrvMutexGet(t) \/ EcosMutexGet(t) \/ VxworksMutexGet(t)
  \/ Win32MutexGet(t) \/ NucleusMutexGet(t) \/ RtemsMutexGet(t) \/ XapiMutexGet(t)
  \/ GenericMutexGet(t)

MutexRelease(t) ==
  \/ LinuxApplMutexRelease(t) \/ LinuxDrvMutexRelease(t) \/ EcosMutexRelease(t)
  \/ VxworksMutexRelease(t) \/ Win32MutexRelease(t) \/ NucleusMutexRelease(t)
  \/ RtemsMutexRelease(t) \/ XapiMutexRelease(t) \/ GenericMutexRelease(t)

Call(t) ==
  \/ LockGet(t) \/ LockRelease(t) \/ MutexGet(t) \/ MutexRelease(t) \/ InvalidCall(t)
  \/ \E w \in Times : LockTimedGet(t, w)

Next ==
  \/ LockInit \/ LockDelete \/ MutexInit \/ MutexDelete \/ Tick
  \/ \E t \in Threads : Call(t)

\* The clock goes on, and the system runs every thread that is in a call and can go on.
Fairness == WF_vars(Tick) /\ \A t \in Threads : WF_vars(st[t] # "idle" /\ Call(t))

Spec == Init /\ [][Next]_vars /\ Fairness

-----------------------------------------------------------------------------
\* Every variable has its type.
TypeOK ==
  /\ kind \in {"lock", "mutex"} /\ port \in AllPorts \cup {"linux_appl"}
  /\ bValid \in BOOLEAN /\ alive \in BOOLEAN /\ entry \in BOOLEAN
  /\ sem \in Nat /\ lost \in Nat /\ owner \in Threads \cup {NoOne}
  /\ holds \in [Threads -> Nat]
  /\ st \in [Threads -> {"idle", "asleep", "trying", "pausing", "took", "gave"}]
  /\ timeout \in [Threads -> Nat] /\ age \in [Threads -> Nat] /\ poll \in [Threads -> Nat]
  /\ left \in [Threads -> Int \cup {Never}]
  /\ phase \in 0 .. TickLen - 1

\* The ports whose calls take and give a semaphore: the generic port has none, and the
\* timed get of RTEMS takes none.
Excludes == port # "generic" /\ ~Is("rtems", "lock")

\* A lock that exists is free or has one holder, and neither two holders nor none with
\* the lock gone: whatever times out, fails or is released once too often.
OneHolder ==
  Excludes /\ bValid /\ alive =>
    \/ sem = 1 /\ \A t \in Threads : holds[t] = 0
    \/ sem = 0 /\ \E t \in Threads :
         holds[t] > 0 /\ \A u \in Threads \ {t} : holds[u] = 0

\* Whom the record names holds the lock or is about to erase it.
OwnerNotWrong == \A t \in Threads : owner = t => holds[t] > 0 \/ st[t] = "gave"

\* The lock and its record of the owner, on every port.
HolderTrue == OneHolder /\ OwnerNotWrong

\* What the lock is to its users: whether it excludes, whether it is there, who waits and
\* what everyone was told.
Waits == {"asleep", "trying", "pausing"}
Sort == IF ~Excludes THEN "pretended" ELSE IF Recursive THEN "recursive" ELSE "exclusive"
Exists == bValid /\ alive
Asleep == {t \in Threads : st[t] \in Waits}
Told == [t \in Threads |-> IF st[t] = "took" THEN "success" ELSE out[t].result]

Promise == INSTANCE LockPromise WITH
  Users <- Threads, kind <- Sort, open <- Exists, waiting <- Asleep, told <- Told

\* Every call of every port keeps the promise of a lock: whoever is told success has it
\* and nobody else has, and whoever is told an error was not given it, whatever ran out,
\* failed or was released once too often; but the generic port and the timed get of
\* RTEMS only pretend.
PromiseKept == Promise!Spec

\* An object that is not valid has nothing of the operating system and no entry: but
\* Nucleus keeps the semaphore of a mutex, and a lock that could not be deleted, and
\* XAPI the semaphores of its mutexes.
GivenBack ==
  /\ ~bValid /\ port # "nucleus" /\ ~Is("xapi", "mutex") => ~alive /\ ~entry
  /\ lost > 0 => Is("xapi", "mutex")

\* The time that a wait for w lasts at least when it runs out: the ports that count
\* ticks may miss one, and the part of w that fills no tick.
Promised(w) ==
  IF port \in {"ecos", "nucleus", "vxworks"} THEN (MSecToTick(w) - 1) * TickLen ELSE w

\* The time of what thread t waits for is over: of its call, or of the kernel's pause.
RanOut(t) ==
  \/ st[t] \in {"asleep", "pausing"} /\ left[t] = 0
  \/ st[t] = "trying" /\ poll[t] > timeout[t]

\* The waits that run out and leave the code 0: a timeout of 0 on every port, one of less
\* than a tick on VxWorks and Nucleus, and the kernel's pause.
Untold(t) ==
  \/ timeout[t] = 0 \/ st[t] = "pausing"
  \/ port = "vxworks" /\ HzTicks(timeout[t]) = 0
  \/ port = "nucleus" /\ MSecToTick(timeout[t]) = 0

\* "For timeout the return code is set to 1": a call that fails has the code 1 when its
\* time has run out and for no other cause, and no call runs out before its time; but
\* some waits that run out say nothing of it, on the kernel port signals count as time,
\* and on VxWorks the product of rate and time may overflow.
TimeoutTrue ==
  [][\A t \in Threads :
       st[t] \in Waits /\ st'[t] = "idle" /\ out'[t].result = "error"
         => /\ out'[t].code = 1 <=> RanOut(t) /\ ~Untold(t)
            /\ out'[t].code = 1 =>
                 \/ age[t] >= Promised(timeout[t])
                 \/ port = "linux_drv" \/ (port = "vxworks" /\ HzOverflows(timeout[t]))]_vars

\* A call with a limit returns, whoever holds the lock and for however long.
TimedGetReturns ==
  \A t \in Threads : (st[t] # "idle" /\ timeout[t] # Forever) ~> st[t] = "idle"

\* "For timeout the return code is set to 1", whatever the time was.
TimeoutTold ==
  [][\A t \in Threads :
       st[t] \in Waits /\ st'[t] = "idle" /\ out'[t].result = "error" /\ RanOut(t)
         => out'[t].code = 1]_vars
=============================================================================
