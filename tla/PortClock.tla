----------------------------- MODULE PortClock -----------------------------
(***************************************************************************)
(* Sleeping and measuring time on ten ports (IFXOS_MSecSleep, SecSleep,        *)
(* USecSleep, ElapsedTimeMSecGet and ElapsedTimeSecGet).  A thread sleeps,     *)
(* and measures with a reference time it has asked for earlier.  The sleeps   *)
(* that count in a loop are in DelayLoop.                                     *)
(***************************************************************************)
EXTENDS PortTime

CONSTANTS
  Ports,
  MSecs,      \* times to sleep, in milliseconds
  Secs,       \* in seconds
  USecs,      \* and in microseconds
  UsPerMs,    \* microseconds of a millisecond, 1000 in the code
  MaxNow,     \* bound: how long the system runs, in milliseconds
  Signals     \* whether signals come

Posix == {"linux_appl", "sun_os"}
Ticking == {"linux_drv", "vxworks", "ecos", "nucleus"}
AllPorts == Posix \cup Ticking \cup {"rtems", "xapi", "win32", "generic"}

\* What is assumed of the constants.
PortClockAssumption ==
  /\ Ports \subseteq AllPorts
  /\ MSecs \cup Secs \cup USecs \subseteq Nat
  /\ {UsPerMs, MaxNow, Word, TickLen, Hz} \subseteq Nat \ {0} /\ Signals \in BOOLEAN

VARIABLES
  port,
  now,        \* the time since startup, or since 1970
  pc,         \* whether the thread sleeps
  asked,      \* the time it has asked for, in microseconds
  exact,      \* whether the calculation of the time was without overflow
  left,       \* the time the system has still to let it sleep
  slept,      \* the time it has slept
  watch       \* its stopwatch: the unit, the reference time, and when that was

vars == <<port, now, pc, asked, exact, left, slept, watch>>

None == [unit |-> "none", ref |-> 0, start |-> 0]

TypeOK ==
  /\ port \in Ports /\ now \in 0 .. MaxNow
  /\ pc \in {"awake", "asleep", "interrupted"}
  /\ asked \in Nat /\ exact \in BOOLEAN /\ left \in Nat /\ slept \in Nat
  /\ watch \in [unit : {"none", "ms", "sec"}, ref : 0 .. Word - 1, start : 0 .. MaxNow]

Init ==
  /\ port \in Ports /\ now = 0
  /\ pc = "awake" /\ asked = 0 /\ exact = TRUE /\ left = 0 /\ slept = 0
  /\ watch = None

-----------------------------------------------------------------------------
(* Sleeping.                                                                *)

\* The system is asked for a time, in milliseconds, instead of us microseconds.
Sleeps(p, us, ms, fits) ==
  /\ port = p /\ pc = "awake" /\ now + ms <= MaxNow
  /\ pc' = "asleep" /\ asked' = us /\ left' = ms /\ exact' = fits /\ slept' = 0
  /\ UNCHANGED <<port, now, watch>>

SleepsMs(p, t, ms, fits) == Sleeps(p, t * UsPerMs, ms, fits)
SleepsSec(p, s, ms, fits) == Sleeps(p, s * Sec * UsPerMs, ms, fits)

Ticks(n) == UntilTick(n, now % TickLen)

\* (IFX_time_t) sec * 1000.
SecToMSec(s) == (s * Sec) % Word
SecFits(s) == s * Sec < Word

\* The timespec of nanosleep.
TimeSpec(ms) == [tv_sec |-> ms \div Sec, tv_nsec |-> ms - (ms \div Sec) * Sec]
Span(tv) == tv.tv_sec * Sec + tv.tv_nsec

LinuxApplMSecSleep(t) == SleepsMs("linux_appl", t, Span(TimeSpec(t)), TRUE)
LinuxApplSecSleep(s) ==
  SleepsSec("linux_appl", s, Span([tv_sec |-> s, tv_nsec |-> 0]), TRUE)
SunOsMSecSleep(t) == SleepsMs("sun_os", t, Span(TimeSpec(t)), TRUE)
SunOsSecSleep(s) ==
  SleepsSec("sun_os", s, Span([tv_sec |-> s, tv_nsec |-> 0]), TRUE)

LinuxDrvMSecSleep(t) == SleepsMs("linux_drv", t, Ticks(HzTicks(t)), ~HzOverflows(t))

\* udelay counts at least as far.
LinuxDrvUSecSleep(us) == Sleeps("linux_drv", us, (us + UsPerMs - 1) \div UsPerMs, TRUE)

\* Mutant: rounded down, as the event wait does it.
VxworksTicksMut_Down(t) == HzTicks(t)

\* Rounded up.
VxworksTicks(t) ==
  IF t = 0 THEN 0 ELSE ((((Hz * t) % Word) + Sec - 1) % Word) \div Sec
VxworksFits(t) == Hz * t + Sec - 1 < Word

VxworksMSecSleep(t) == SleepsMs("vxworks", t, Ticks(VxworksTicks(t)), VxworksFits(t))
VxworksSecSleep(s) == SleepsSec("vxworks", s, Ticks((s * Hz) % Word), s * Hz < Word)

\* One tick at least, unless nothing is asked for.
EcosTicks(t) ==
  IF t = 0 THEN 0 ELSE IF MSecToTick(t) <= 1 THEN 1 ELSE MSecToTick(t)

EcosMSecSleep(t) == SleepsMs("ecos", t, Ticks(EcosTicks(t)), TRUE)
EcosSecSleep(s) == SleepsSec("ecos", s, Ticks(MSecToTick(SecToMSec(s))), SecFits(s))

NucleusMSecSleep(t) == SleepsMs("nucleus", t, Ticks(MSecToTick(t)), TRUE)
NucleusSecSleep(s) == SleepsSec("nucleus", s, Ticks(MSecToTick(SecToMSec(s))), SecFits(s))

RtemsUSecSleep(us) == Sleeps("rtems", us, us \div UsPerMs, TRUE)
RtemsMSecSleep(t) == SleepsMs("rtems", t, t, TRUE)
RtemsSecSleep(s) == SleepsSec("rtems", s, SecToMSec(s), SecFits(s))

XapiMSecSleep(t) == SleepsMs("xapi", t, t, TRUE)
XapiSecSleep(s) == SleepsSec("xapi", s, SecToMSec(s), SecFits(s))

\* Microseconds are slept as milliseconds.
Win32USecSleep(us) == Sleeps("win32", us, us, TRUE)
Win32MSecSleep(t) == SleepsMs("win32", t, t, TRUE)
Win32SecSleep(s) == SleepsSec("win32", s, SecToMSec(s), SecFits(s))

\* Left to the customer: nobody sleeps.
GenericSleeps(us) == Sleeps("generic", us, 0, TRUE)

MSecSleep(t) ==
  \/ LinuxApplMSecSleep(t) \/ SunOsMSecSleep(t) \/ LinuxDrvMSecSleep(t)
  \/ VxworksMSecSleep(t) \/ EcosMSecSleep(t) \/ NucleusMSecSleep(t)
  \/ RtemsMSecSleep(t) \/ XapiMSecSleep(t) \/ Win32MSecSleep(t)
  \/ GenericSleeps(t * UsPerMs)

SecSleep(s) ==
  \/ LinuxApplSecSleep(s) \/ SunOsSecSleep(s) \/ VxworksSecSleep(s)
  \/ EcosSecSleep(s) \/ NucleusSecSleep(s) \/ RtemsSecSleep(s)
  \/ XapiSecSleep(s) \/ Win32SecSleep(s) \/ GenericSleeps(s * Sec * UsPerMs)

USecSleep(us) ==
  LinuxDrvUSecSleep(us) \/ RtemsUSecSleep(us) \/ Win32USecSleep(us) \/ GenericSleeps(us)

Awakes ==
  /\ pc' = "awake" /\ asked' = 0 /\ exact' = TRUE /\ left' = 0 /\ slept' = 0
  /\ UNCHANGED <<port, now, watch>>

Wake == pc = "asleep" /\ left = 0 /\ Awakes

\* A signal ends nanosleep, which has stored what is left.
Interrupt ==
  /\ Signals /\ port \in Posix /\ pc = "asleep" /\ left > 0
  /\ pc' = "interrupted"
  /\ UNCHANGED <<port, now, asked, exact, left, slept, watch>>

\* The loop of IFXOS_NanoSleep goes on with what is left.
NanoSleep ==
  /\ pc = "interrupted"
  /\ pc' = "asleep"
  /\ UNCHANGED <<port, now, asked, exact, left, slept, watch>>

\* The kernel's sleep is interruptible, and does not look why it has ended.
Cut == Signals /\ port = "linux_drv" /\ pc = "asleep" /\ left > 0 /\ Awakes

-----------------------------------------------------------------------------
(* Measuring.                                                               *)

TickCount == now \div TickLen

\* The conversion to a signed integer.
Signed(n) == IF n >= Word \div 2 THEN n - Word ELSE n

\* Mutant: subtracted without looking which is larger.
DistanceMut_Modulo(current, ref) == (ref - current) % Word

\* Counted from the reference, or from the end of it.
Distance(current, ref) == IF current > ref THEN current - ref ELSE ref - current

\* Counted from the reference, or from the startup when there is none, or none in the past.
Since(current, ref) == IF ref = 0 \/ ref > current THEN current ELSE current - ref

\* On Windows the system's number is wider than that of the caller.
Win32Since(current, ref) ==
  IF ref = 0 \/ Signed(ref) > current THEN current % Word ELSE (current - ref) % Word

\* IFXOS_TICK_TO_MSEC, as a 32-bit integer.
TicksAsMSec == (TickCount * TickLen) % Word

LinuxApplElapsedMSec(ref) == Since(now % Word, ref)
SunOsElapsedMSec(ref) == Since(now % Word, ref)
LinuxDrvElapsedMSec(ref) == Distance(((TickCount * Sec) % Word) \div Hz, ref)
VxworksElapsedMSec(ref) == Distance(((TickCount * Sec) % Word) \div Hz, ref)
EcosElapsedMSec(ref) == Distance(TicksAsMSec, ref)
NucleusElapsedMSec(ref) == Distance(TicksAsMSec, ref)
RtemsElapsedMSec(ref) == Distance(now % Word, ref)
XapiElapsedMSec(ref) == Distance(now % Word, ref)
Win32ElapsedMSec(ref) == Win32Since((now \div Sec) * Sec, ref)
GenericElapsedMSec(ref) == Distance(0, ref)

LinuxApplElapsedSec(ref) == Since((now \div Sec) % Word, ref)
SunOsElapsedSec(ref) == Since((now \div Sec) % Word, ref)
VxworksElapsedSec(ref) == Since((TickCount % Word) \div Hz, ref)
EcosElapsedSec(ref) == Since(TicksAsMSec \div Sec, ref)
NucleusElapsedSec(ref) == Since(TicksAsMSec \div Sec, ref)
RtemsElapsedSec(ref) == Since((now % Word) \div Sec, ref)
Win32ElapsedSec(ref) == Win32Since(now \div Sec, ref)
GenericElapsedSec(ref) == Since(0, ref)

ElapsedMSec(ref) ==
  CASE port = "linux_appl" -> LinuxApplElapsedMSec(ref)
    [] port = "sun_os" -> SunOsElapsedMSec(ref)
    [] port = "linux_drv" -> LinuxDrvElapsedMSec(ref)
    [] port = "vxworks" -> VxworksElapsedMSec(ref)
    [] port = "ecos" -> EcosElapsedMSec(ref)
    [] port = "nucleus" -> NucleusElapsedMSec(ref)
    [] port = "rtems" -> RtemsElapsedMSec(ref)
    [] port = "xapi" -> XapiElapsedMSec(ref)
    [] port = "win32" -> Win32ElapsedMSec(ref)
    [] port = "generic" -> GenericElapsedMSec(ref)

ElapsedSec(ref) ==
  CASE port = "linux_appl" -> LinuxApplElapsedSec(ref)
    [] port = "sun_os" -> SunOsElapsedSec(ref)
    [] port = "vxworks" -> VxworksElapsedSec(ref)
    [] port = "ecos" -> EcosElapsedSec(ref)
    [] port = "nucleus" -> NucleusElapsedSec(ref)
    [] port = "rtems" -> RtemsElapsedSec(ref)
    [] port = "win32" -> Win32ElapsedSec(ref)
    [] port = "generic" -> GenericElapsedSec(ref)

\* The reference time is asked for.
StartWatch(u) ==
  /\ pc = "awake"
  /\ u = "sec" => port \notin {"linux_drv", "xapi"}
  /\ watch' = [unit |-> u,
               ref |-> IF u = "ms" THEN ElapsedMSec(0) ELSE ElapsedSec(0),
               start |-> now]
  /\ UNCHANGED <<port, now, pc, asked, exact, left, slept>>

-----------------------------------------------------------------------------
Millisecond ==
  /\ now < MaxNow
  /\ now' = now + 1
  /\ \/ pc = "asleep" /\ left > 0 /\ left' = left - 1 /\ slept' = slept + 1
     \/ pc = "awake" /\ UNCHANGED <<left, slept>>
  /\ UNCHANGED <<port, pc, asked, exact, watch>>

Next ==
  \/ \E t \in MSecs : MSecSleep(t)
  \/ \E s \in Secs : SecSleep(s)
  \/ \E us \in USecs : USecSleep(us)
  \/ Wake \/ Interrupt \/ NanoSleep \/ Cut
  \/ \E u \in {"ms", "sec"} : StartWatch(u)
  \/ Millisecond

\* The clock goes on however often signals come, and a thread that may wake up or sleep on does.
Spec ==
  Init /\ [][Next]_vars
    /\ SF_vars(Millisecond) /\ WF_vars(Wake) /\ WF_vars(NanoSleep)

-----------------------------------------------------------------------------
Wakes == pc # "awake" /\ pc' = "awake"

\* "Sleep at least the given time", "never be shorter".
NeverShorter == Wakes => slept * UsPerMs >= asked

\* The ticks by which a sleep may be too short: the first is not a whole one, and
\* some ports round down.
Short == IF port = "vxworks" THEN 1 ELSE IF port \in Ticking THEN 2 ELSE 0

\* A sleep that a calculation without overflow has begun and that no signal cuts is shorter than
\* asked for by less than these ticks; without ticks, by less than a millisecond.
SleepsNearly ==
  Wakes /\ exact /\ left = 0 /\ port # "generic"
    => asked - slept * UsPerMs < (IF Short = 0 THEN 1 ELSE Short * TickLen) * UsPerMs

Unit == IF watch.unit = "ms" THEN 1 ELSE Sec
Elapsed == IF watch.unit = "ms" THEN ElapsedMSec(watch.ref) ELSE ElapsedSec(watch.ref)

\* How fine the clock of the port is.  Where a number of milliseconds that has been cut is
\* divided by those of a second, its ticks and the seconds need not begin together.
Grain ==
  IF port \in {"ecos", "nucleus"} /\ watch.unit = "sec" THEN Sec + TickLen
  ELSE IF port = "win32" \/ watch.unit = "sec" THEN Sec
  ELSE IF port \in Ticking THEN TickLen ELSE 1

Measures == watch.unit # "none" /\ port # "generic"
Right == LET off == Elapsed * Unit - (now - watch.start) IN -Grain < off /\ off < Grain

\* "Elapsed time based on the given reference time".
ElapsedTrue == Measures => Right

\* What the system counts up to time t, and cuts to an integer before it divides.
Counted(t) ==
  CASE port \in {"linux_drv", "vxworks"} /\ watch.unit = "ms" -> (t \div TickLen) * Sec
    [] port = "vxworks" /\ watch.unit # "ms" -> t \div TickLen
    [] port \in {"ecos", "nucleus"} -> (t \div TickLen) * TickLen
    [] port \in {"linux_appl", "sun_os"} /\ watch.unit = "sec" -> t \div Sec
    [] OTHER -> t

\* That number has lost a digit since the reference time.
Wrapped == Counted(watch.start) \div Word # Counted(now) \div Word

\* Until the system's number wraps, the elapsed time is right to the grain of the clock; on
\* Windows, where only the caller's number wraps, until the time itself is near its end.
ElapsedRight ==
  Measures /\ (IF port = "win32" THEN (now - watch.start) \div Unit < Word - Sec ELSE ~Wrapped)
    => Right
=============================================================================
