------------------------------ MODULE PortEvent ------------------------------
(***************************************************************************)
(* The events of the ports: IFXOS_EventInit, EventWakeUp, EventWait and       *)
(* EventDelete of the Linux application (POSIX semaphores), the Linux kernel, *)
(* eCos, VxWorks, Windows, Nucleus, RTEMS, XAPI and the generic port.         *)
(*                                                                         *)
(* A behaviour belongs to one port.  One thread initialises and deletes one   *)
(* event, anybody wakes it up, and several threads wait for it.  An event is  *)
(* a number of pending wake-ups, which the semaphores count and the others    *)
(* keep at one.  Waiting, and leaving the wait with a wake-up, is one call of *)
(* the operating system; on the Linux kernel the port looks at its own flag   *)
(* in that call and clears it afterwards, in a step of its own.               *)
(*                                                                         *)
(* Time is that of PortTime; the Linux application waits for a time of day, in *)
(* seconds and a rest.                                                       *)
(***************************************************************************)
EXTENDS PortTime, FiniteSets

CONSTANTS
  Ports,
  Waiters,
  Times,      \* the values of waitTime_ms, in units
  SemIds,     \* the calls of EventInit that find a name for their semaphore
  MaxWakes    \* bound of the check: wake-ups that are pending

AllPorts ==
  {"linux_appl", "linux_drv", "ecos", "vxworks", "win32", "nucleus", "rtems", "xapi",
   "generic"}

ASSUME PortEventAssumption ==
  /\ Ports \subseteq AllPorts
  /\ Times \subseteq 0 .. Forever
  /\ SemIds \in Nat /\ MaxWakes \in Nat

VARIABLES
  port,
  bValid,
  pending,   \* the value of the semaphore, or the flag
  gSemId,    \* the calls of EventInit counted by RTEMS and XAPI
  phase,     \* the units since the last tick, on linux_appl the tv_nsec of the clock
  st,        \* what each waiter does
  ms, left, age,  \* the time its wait asked for, has left, and has lasted
  out        \* what its last wait returned: result, return code and cause

object == <<bValid, pending, gSemId>>
clocks == <<phase, ms, left, age>>
vars == <<port, object, clocks, st, out>>

Nothing == [result |-> "none", code |-> 0, cause |-> "none"]

Init ==
  /\ port \in Ports
  /\ bValid = FALSE /\ pending = 0 /\ gSemId = 0
  /\ phase = 0
  /\ st = [w \in Waiters |-> "idle"] /\ out = [w \in Waiters |-> Nothing]
  /\ ms = [w \in Waiters |-> 0] /\ left = [w \in Waiters |-> 0]
  /\ age = [w \in Waiters |-> 0]

Asleep == {w \in Waiters : st[w] # "idle"}

-----------------------------------------------------------------------------
(* EventInit and EventDelete.  The event is not deleted while it is waited    *)
(* for, but on VxWorks and Nucleus, which send the waiters back.              *)

Opens(p) ==
  /\ port = p /\ ~bValid
  /\ bValid' = TRUE /\ pending' = 0
  /\ UNCHANGED <<port, clocks, st, out>>

Closes(p) ==
  /\ port = p /\ bValid
  /\ bValid' = FALSE /\ pending' = 0
  /\ ms' = [w \in Waiters |-> 0] /\ left' = ms' /\ age' = ms'
  /\ UNCHANGED <<port, gSemId, phase>>

\* The waiters that slept are told of an error.
SentBack ==
  /\ st' = [w \in Waiters |-> "idle"]
  /\ out' = [w \in Waiters |->
       IF w \in Asleep THEN [result |-> "error", code |-> 0, cause |-> "deleted"] ELSE out[w]]

Nobody == Asleep = {} /\ UNCHANGED <<st, out>>

LinuxApplInit == Opens("linux_appl") /\ UNCHANGED gSemId
LinuxApplDelete == Closes("linux_appl") /\ Nobody

LinuxDrvInit == Opens("linux_drv") /\ UNCHANGED gSemId
LinuxDrvDelete == Closes("linux_drv") /\ Nobody

EcosInit == Opens("ecos") /\ UNCHANGED gSemId
EcosDelete == Closes("ecos") /\ Nobody

VxworksInit == Opens("vxworks") /\ UNCHANGED gSemId
VxworksDelete == Closes("vxworks") /\ SentBack

Win32Init == Opens("win32") /\ UNCHANGED gSemId
Win32Delete == Closes("win32") /\ Nobody

NucleusInit == Opens("nucleus") /\ UNCHANGED gSemId
NucleusDelete == Closes("nucleus") /\ SentBack

\* Every call takes a name, the calls that are refused too.
CountsCall(p) == port = p /\ gSemId < SemIds /\ gSemId' = gSemId + 1

RefusedInit(p) ==
  /\ CountsCall(p) /\ bValid
  /\ UNCHANGED <<port, bValid, pending, clocks, st, out>>

RtemsInit == (CountsCall("rtems") /\ Opens("rtems")) \/ RefusedInit("rtems")
XapiInit == (CountsCall("xapi") /\ Opens("xapi")) \/ RefusedInit("xapi")

\* EventDelete of RTEMS and XAPI returns IFX_SUCCESS and deletes nothing: there is
\* no step.

GenericInit == Opens("generic") /\ UNCHANGED gSemId
GenericDelete == Closes("generic") /\ Nobody

-----------------------------------------------------------------------------
(* EventWakeUp.                                                             *)

WakesUp(p, value) ==
  /\ port = p /\ bValid /\ pending < MaxWakes
  /\ pending' = value
  /\ UNCHANGED <<port, bValid, gSemId, clocks, st, out>>

LinuxApplWakeUp == WakesUp("linux_appl", pending + 1)
LinuxDrvWakeUp == WakesUp("linux_drv", 1)
EcosWakeUp == WakesUp("ecos", 1)

VxworksWakeUp == WakesUp("vxworks", 1)
Win32WakeUp == WakesUp("win32", 1)
NucleusWakeUp == WakesUp("nucleus", 1)
RtemsWakeUp == WakesUp("rtems", pending + 1)
XapiWakeUp == WakesUp("xapi", pending + 1)
GenericWakeUp == WakesUp("generic", 0)

-----------------------------------------------------------------------------
(* EventWait.                                                               *)

Enters(p, w, t, units) ==
  /\ port = p /\ bValid /\ st[w] = "idle"
  /\ st' = [st EXCEPT ![w] = "asleep"]
  /\ ms' = [ms EXCEPT ![w] = t]
  /\ left' = [left EXCEPT ![w] = units]
  /\ age' = [age EXCEPT ![w] = 0]
  /\ out' = [out EXCEPT ![w] = Nothing]
  /\ UNCHANGED <<port, object, phase>>

Leaves(w, result, code, cause) ==
  /\ st' = [st EXCEPT ![w] = "idle"]
  /\ out' = [out EXCEPT ![w] = [result |-> result, code |-> code, cause |-> cause]]
  /\ ms' = [ms EXCEPT ![w] = 0] /\ left' = [left EXCEPT ![w] = 0]
  /\ age' = [age EXCEPT ![w] = 0]
  /\ UNCHANGED <<port, bValid, gSemId, phase>>

Succeeds(w) == Leaves(w, "success", 0, "none")

Gets(p, w) ==
  /\ port = p /\ st[w] = "asleep" /\ pending > 0
  /\ pending' = pending - 1
  /\ Succeeds(w)

\* The wait ends without a wake-up, for the given cause, and reports the given code.
Fails(p, w, code, cause) ==
  /\ port = p /\ st[w] = "asleep"
  /\ Leaves(w, "error", code, cause)
  /\ UNCHANGED pending

\* No time is left and no wake-up came: a timeout, whatever the port makes of it.
Expires(p, w, code) == left[w] = 0 /\ pending = 0 /\ Fails(p, w, code, "timeout")

\* A wait for 0 ms, whose failure these ports do not look into.
FindsNothing(p, w) == ms[w] = 0 /\ Expires(p, w, 0)

\* Mutant: the rest is carried over, and no second is added.
DeadlineMut_NoSecond(t) ==
  LET nsec == phase + (t % Sec)
  IN IF nsec >= Sec THEN (t \div Sec) * Sec + (nsec - Sec) ELSE (t \div Sec) * Sec + nsec

\* The end of the wait, counted from the begin of the current second.
Deadline(t) ==
  LET nsec == phase + (t % Sec)
  IN IF nsec >= Sec THEN (t \div Sec + 1) * Sec + (nsec - Sec) ELSE (t \div Sec) * Sec + nsec

UntilDeadline(t) ==
  IF t = Forever THEN Never ELSE IF Deadline(t) > phase THEN Deadline(t) - phase ELSE 0

LinuxApplWait(w, t) ==
  \/ Enters("linux_appl", w, t, UntilDeadline(t))
  \/ Gets("linux_appl", w) \/ FindsNothing("linux_appl", w)
  \/ ms[w] # 0 /\ Expires("linux_appl", w, 1)
  \/ ms[w] # 0 /\ Fails("linux_appl", w, 0, "signal")

\* Mutant: the wait for the condition goes on until the condition holds.
LinuxDrvWaitMut_NoLimit(w, t) ==
  \/ Enters("linux_drv", w, t, UntilTick(HzTicks(t), phase))
  \/ /\ port = "linux_drv" /\ st[w] = "asleep" /\ pending = 1
     /\ st' = [st EXCEPT ![w] = "seen"]
     /\ UNCHANGED <<port, object, clocks, out>>
  \/ port = "linux_drv" /\ st[w] = "seen" /\ pending' = 0 /\ Succeeds(w)

\* wait_event_interruptible_timeout looks at the flag; it is cleared however the
\* wait ended, and a signal counts as a wake-up.
LinuxDrvWait(w, t) ==
  \/ Enters("linux_drv", w, t, UntilTick(HzTicks(t), phase))
  \/ /\ port = "linux_drv" /\ st[w] = "asleep"
     /\ \/ st' = [st EXCEPT ![w] = "seen"] /\ pending = 1
        \/ st' = [st EXCEPT ![w] = "signalled"]
        \/ st' = [st EXCEPT ![w] = "late"] /\ pending = 0 /\ left[w] = 0
     /\ UNCHANGED <<port, object, clocks, out>>
  \/ port = "linux_drv" /\ st[w] \in {"seen", "signalled"} /\ pending' = 0 /\ Succeeds(w)
  \/ /\ port = "linux_drv" /\ st[w] = "late" /\ pending' = 0
     /\ Leaves(w, "error", 1, "timeout")

\* Mutant: the bits are not cleared by the wait that they end.
EcosWaitMut_NoClear(w, t) ==
  \/ Enters("ecos", w, t, UntilTick(MSecToTick(t), phase))
  \/ port = "ecos" /\ st[w] = "asleep" /\ pending > 0 /\ Succeeds(w) /\ UNCHANGED pending
  \/ Expires("ecos", w, 1)

EcosWait(w, t) ==
  \/ Enters("ecos", w, t, UntilTick(MSecToTick(t), phase))
  \/ Gets("ecos", w) \/ Expires("ecos", w, 1)

VxworksWait(w, t) ==
  \/ Enters("vxworks", w, t, UntilTick(HzTicks(t) + 1, phase))
  \/ Gets("vxworks", w) \/ Expires("vxworks", w, 1)

Win32Wait(w, t) ==
  \/ Enters("win32", w, t, Finite(t))
  \/ Gets("win32", w) \/ FindsNothing("win32", w)
  \/ ms[w] # 0 /\ Expires("win32", w, 1)

\* For less than a tick the call does not wait, and fails with NU_NOT_PRESENT.
NucleusWait(w, t) ==
  \/ Enters("nucleus", w, t, UntilTick(MSecToTick(t), phase))
  \/ Gets("nucleus", w)
  \/ MSecToTick(ms[w]) = 0 /\ Expires("nucleus", w, 0)
  \/ MSecToTick(ms[w]) # 0 /\ Expires("nucleus", w, 1)

\* The time is handed on as a number of ticks.
XsmWait(p, w, t) ==
  \/ Enters(p, w, t, IF t = Forever THEN Never ELSE UntilTick(t, phase))
  \/ Gets(p, w) \/ Expires(p, w, 1)

RtemsWait(w, t) == XsmWait("rtems", w, t)

XapiWait(w, t) == XsmWait("xapi", w, t)

\* A stub: it does not wait.
GenericWait(w, t) ==
  \/ Enters("generic", w, t, 0)
  \/ port = "generic" /\ st[w] = "asleep" /\ Succeeds(w) /\ UNCHANGED pending

\* A unit of time passes.
Period == IF port = "linux_appl" THEN Sec ELSE TickLen

Tick ==
  /\ phase' = (phase + 1) % Period
  /\ left' = [w \in Waiters |->
       IF st[w] = "asleep" /\ left[w] \notin {0, Never} THEN left[w] - 1 ELSE left[w]]
  /\ age' = [w \in Waiters |->
       IF st[w] = "asleep" /\ left[w] # Never /\ age[w] < ms[w] THEN age[w] + 1 ELSE age[w]]
  /\ UNCHANGED <<port, object, ms, st, out>>

-----------------------------------------------------------------------------
EventInit ==
  \/ LinuxApplInit \/ LinuxDrvInit \/ EcosInit \/ VxworksInit \/ Win32Init
  \/ NucleusInit \/ RtemsInit \/ XapiInit \/ GenericInit

EventDelete ==
  \/ LinuxApplDelete \/ LinuxDrvDelete \/ EcosDelete \/ VxworksDelete
  \/ Win32Delete \/ NucleusDelete \/ GenericDelete

EventWakeUp ==
  \/ LinuxApplWakeUp \/ LinuxDrvWakeUp \/ EcosWakeUp \/ VxworksWakeUp \/ Win32WakeUp
  \/ NucleusWakeUp \/ RtemsWakeUp \/ XapiWakeUp \/ GenericWakeUp

EventWait(w, t) ==
  \/ LinuxApplWait(w, t) \/ LinuxDrvWait(w, t) \/ EcosWait(w, t) \/ VxworksWait(w, t)
  \/ Win32Wait(w, t) \/ NucleusWait(w, t) \/ RtemsWait(w, t) \/ XapiWait(w, t)
  \/ GenericWait(w, t)

Next ==
  \/ EventInit \/ EventDelete \/ EventWakeUp \/ Tick
  \/ \E w \in Waiters, t \in Times : EventWait(w, t)

\* The clock goes on, and a wait that may end ends.
Fairness ==
  /\ WF_vars(Tick)
  /\ \A w \in Waiters : WF_vars(st[w] # "idle" /\ \E t \in Times : EventWait(w, t))

Spec == Init /\ [][Next]_vars /\ Fairness

-----------------------------------------------------------------------------
Places == {"idle", "asleep", "seen", "signalled", "late"}
Causes == {"none", "timeout", "signal", "deleted"}
Answers == [result : {"none", "success", "error"}, code : {0, 1}, cause : Causes]

\* Every variable has its type: no time left is negative.
TypeOK ==
  /\ port \in Ports /\ bValid \in BOOLEAN /\ pending \in Nat /\ gSemId \in 0 .. SemIds
  /\ phase \in 0 .. Period - 1
  /\ st \in [Waiters -> Places] /\ out \in [Waiters -> Answers]
  /\ ms \in [Waiters -> Nat] /\ age \in [Waiters -> Nat]
  /\ left \in [Waiters -> Nat \cup {Never}]

\* The kinds of events the ports provide.
Kind ==
  IF port \in {"linux_appl", "rtems", "xapi"} THEN "counting"
  ELSE IF port \in {"linux_drv", "generic"} THEN "lossy"
  ELSE "binary"

\* A wake-up is kept until a wait takes it, through timeouts and signals of other
\* waiters, and no wait succeeds without one.  The kernel port clears its flag after
\* a timeout, when a new wake-up may have set it, takes a signal for a wake-up, and
\* lets one wake-up end every wait that sees the flag; the generic port has nothing to
\* wait with.
E == INSTANCE Event WITH
  kind <- Kind, open <- bValid, count <- pending, waiting <- Asleep,
  told <- [w \in Waiters |-> out[w].result]
EventSpec == E!Spec

\* The time that a wait of t lasts at least when it runs out: the ports that count
\* ticks may miss a tick, and the part of t that fills no tick.
Promised(t) ==
  IF port \in {"ecos", "nucleus", "linux_drv"} THEN (MSecToTick(t) - 1) * TickLen
  ELSE IF port = "vxworks" THEN MSecToTick(t) * TickLen
  ELSE t

\* The product of rate and time does not fit its integer.
Overflows(t) == port \in {"linux_drv", "vxworks"} /\ HzOverflows(t)

\* Where the return code says nothing of a wait that had no time: against the line
\* quoted below, the wait for 0 ms of linux_appl and win32, and for less than a tick of
\* nucleus, return 0.
Untold(t) ==
  \/ port \in {"linux_appl", "win32"} /\ t = 0
  \/ port = "nucleus" /\ MSecToTick(t) = 0

\* "For timeout the return code is set to 1": a wait that fails because its time has run
\* out says so, but for those Untold, and has lasted that time; one that fails for
\* another cause never says so.
TimeoutTrue ==
  [][\A w \in Waiters :
       st[w] # "idle" /\ st'[w] = "idle" /\ out'[w].result = "error"
         => IF out'[w].cause = "timeout"
            THEN /\ out'[w].code = 1 <=> ~Untold(ms[w])
                 /\ age[w] >= Promised(ms[w]) \/ Overflows(ms[w])
            ELSE out'[w].code = 0]_vars

\* Every wait with a limit returns, and on the ports that know no wait for ever every
\* wait does.
WaitReturns ==
  \A w \in Waiters : (st[w] # "idle" /\ left[w] # Never) ~> st[w] = "idle"

\* "For timeout the return code is set to 1", whatever the time was.
TimeoutTold ==
  [][\A w \in Waiters :
       st[w] # "idle" /\ st'[w] = "idle" /\ out'[w].cause = "timeout" => out'[w].code = 1]_vars
=============================================================================
