------------------------------- MODULE Waits -------------------------------
(***************************************************************************)
(* A program that waits: for sockets, for time, at a pipe, for a device of a  *)
(* driver, for the devices of the device layer.  The services share no state,  *)
(* so that a behaviour is one of the service the program uses (part), and the  *)
(* variables of the others are off.  Each service is a module of its own,      *)
(* whose variables keep their names here.                                     *)
(***************************************************************************)
EXTENDS Integers, Sequences, FiniteSets

CONSTANTS
  Off,        \* the value of what is not in use
  Endless,    \* the timeout without end of the device layer
  Never,      \* the time at which a wait without limit runs out
  Nobody,     \* no driver
  Threads,    \* those that wait; two of them are the ends of the pipe
  Counters,   \* those that count in a loop
  Sockets, SocketTimes, PerSec, TickMs, FdSetSize,                   \* see SocketSelect
  Speeds, Limit,                                                     \* see DelayLoop
  Word, TickLen, Hz, UsPerMs, MSecs, Secs, USecs, MaxNow,            \* see PortClock
  MaxPrints, BufSize, PipeSize, MaxMsgs,                             \* see PortPipe, SelectQueue
  PollTime, SelectTimes                                              \* see DevIoSelect

VARIABLES
  part, port,
  pc, asked, left, waited, told, ready, driver,                      \* of several services
  fdSet, wanted, ret, readable, owner,                               \* SocketSelect
  speed, delayLoop, stack, clean,                                    \* DelayLoop
  now, exact, slept, watch,                                          \* PortClock
  node, blocking, met, held, leaked, spoilt, printed, buffer, fifo, ahead, got,   \* PortPipe
  task, wants, queue, woken, msgs,                                   \* SelectQueue
  threadLock, raced, first, device, fd, number, present, opened, closes, local,   \* DevIo
  at, next, seen, timeout, t                                         \* DevIoSelect

socketVars == <<fdSet, wanted, ret, readable, owner>>
loopVars == <<speed, delayLoop, stack, clean>>
clockVars == <<now, exact, slept, watch>>
pipeVars == <<node, blocking, met, held, leaked, spoilt, printed, buffer, fifo, ahead, got>>
queueVars == <<task, wants, queue, woken, msgs>>
deviceVars == <<threadLock, raced, first, device, fd, number, present, opened, closes, local,
                at, next, seen, timeout, t>>
shared == <<port, pc, asked, left, waited, told, ready, driver>>
vars == <<part, shared, socketVars, loopVars, clockVars, pipeVars, queueVars, deviceVars>>

-----------------------------------------------------------------------------
SocketPart == INSTANCE SocketSelect WITH
  Ports <- {"linux_appl", "vxworks", "ecos", "win32", "nucleus", "rtems", "generic"},
  Owned <- TRUE, Timeouts <- SocketTimes

LoopPart == INSTANCE DelayLoop WITH
  Ports <- {"ecos", "vxworks", "nucleus", "xapi"}, Threads <- Counters,
  Wishes <- {"some", "all"}, Preempts <- TRUE

ClockPart == INSTANCE PortClock WITH
  Ports <- {"linux_appl", "sun_os", "linux_drv", "vxworks", "ecos", "nucleus", "rtems", "xapi",
            "win32", "generic"},
  Forever <- Word - 1, Signals <- TRUE

PipePart == INSTANCE PortPipe

QueuePart == INSTANCE SelectQueue WITH
  Ports <- {"linux_drv", "vxworks", "rtems"}, Tasks <- Threads

\* One driver with one device, and two descriptors.
DevicePart == INSTANCE DevIoSelect WITH
  Procs <- {"p"}, Drivers <- {"d"}, Devices <- {"v"}, Driver <- [v \in {"v"} |-> "d"],
  Names <- {<<1>>}, Requests <- {<<1>>}, MaxDrivers <- 1, MaxDevices <- 1, MaxFds <- 2,
  MaxPrivs <- 2, MaxTimes <- 1, ThreadLocks <- {TRUE}, Hot <- {"fd"}, None <- Nobody,
  Timeouts <- SelectTimes, Forever <- Endless

ASSUME WaitsAssumption ==
  /\ SocketPart!SocketSelectAssumption /\ LoopPart!DelayLoopAssumption
  /\ ClockPart!PortClockAssumption /\ PipePart!PortPipeAssumption
  /\ QueuePart!SelectQueueAssumption
  /\ DevicePart!DevIoAssumption /\ DevicePart!SelectAssumption
  /\ PipePart!Ends \subseteq Threads /\ Counters \subseteq Threads

-----------------------------------------------------------------------------
Init ==
  /\ \/ part = "sockets" /\ SocketPart!Init
     \/ part = "loop" /\ LoopPart!Init
     \/ part = "clock" /\ ClockPart!Init
     \/ part = "pipe" /\ PipePart!Init
     \/ part = "queue" /\ QueuePart!Init
     \/ part = "devices" /\ DevicePart!Init /\ DevicePart!SelectInit
  /\ part # "sockets" =>
       fdSet = Off /\ wanted = Off /\ ret = Off /\ readable = Off /\ owner = Off
  /\ part # "loop" => speed = Off /\ delayLoop = Off /\ stack = Off /\ clean = Off
  /\ part # "clock" => now = Off /\ exact = Off /\ slept = Off /\ watch = Off
  /\ part # "pipe" =>
       /\ node = Off /\ blocking = Off /\ met = Off /\ held = Off /\ leaked = Off
       /\ spoilt = Off
       /\ printed = Off /\ buffer = Off /\ fifo = Off /\ ahead = Off /\ got = Off
  /\ part # "queue" => task = Off /\ wants = Off /\ queue = Off /\ woken = Off /\ msgs = Off
  /\ part # "devices" =>
       /\ threadLock = Off /\ raced = Off /\ first = Off /\ device = Off /\ fd = Off /\ number = Off /\ present = Off
       /\ opened = Off /\ closes = Off /\ local = Off
       /\ at = Off /\ next = Off /\ seen = Off /\ timeout = Off /\ t = Off
  /\ part \in {"pipe", "devices"} => port = Off
  /\ part \in {"loop", "queue"} => pc = Off
  /\ part \in {"loop", "pipe", "queue"} => asked = Off
  /\ part \notin {"sockets", "clock"} => left = Off
  /\ part \notin {"sockets", "devices"} => waited = Off
  /\ part \notin {"pipe", "queue"} => told = Off
  /\ part \notin {"queue", "devices"} => ready = Off /\ driver = Off

\* What is off stays off.
Rest ==
  /\ UNCHANGED part
  /\ part # "sockets" => UNCHANGED socketVars
  /\ part # "loop" => UNCHANGED loopVars
  /\ part # "clock" => UNCHANGED clockVars
  /\ part # "pipe" => UNCHANGED pipeVars
  /\ part # "queue" => UNCHANGED queueVars
  /\ part # "devices" => UNCHANGED deviceVars
  /\ part \in {"pipe", "devices"} => UNCHANGED port
  /\ part \in {"loop", "queue"} => UNCHANGED pc
  /\ part \in {"loop", "pipe", "queue"} => UNCHANGED asked
  /\ part \notin {"sockets", "clock"} => UNCHANGED left
  /\ part \notin {"sockets", "devices"} => UNCHANGED waited
  /\ part \notin {"pipe", "queue"} => UNCHANGED told
  /\ part \notin {"queue", "devices"} => UNCHANGED <<ready, driver>>

Next ==
  \/ part = "sockets" /\ SocketPart!Next /\ Rest
  \/ part = "loop" /\ LoopPart!Next /\ Rest
  \/ part = "clock" /\ ClockPart!Next /\ Rest
  \/ part = "pipe" /\ PipePart!Next /\ Rest
  \/ part = "queue" /\ QueuePart!Next /\ Rest
  \/ part = "devices" /\ DevicePart!SelectNext /\ Rest

-----------------------------------------------------------------------------
(* The fairness of each service as its module states it.  As only one of them *)
(* ever moves, the k-th fair action of each is part of one action.           *)

\* Who waits where one thread does.
One == "reader"

\* Time goes by, or the part of a service that answers its threads goes on.
System ==
  /\ \/ part = "sockets" /\ SocketPart!Millisecond
     \/ part = "queue" /\ QueuePart!DrvSelectQueueWakeUp
     \/ part = "devices" /\ DevicePart!Unlocking
     \/ part = "clock" /\ ClockPart!NanoSleep
  /\ Rest

GoesOn(k) ==
  /\ \/ part = "sockets" /\ SocketPart!Leave(k)
     \/ part = "pipe" /\ k \in PipePart!Ends /\ PipePart!Steps(k)
     \/ part = "queue" /\ QueuePart!GoesOn(k)
     \/ part = "loop" /\ k \in Counters /\ LoopPart!Step(k)
     \/ part = "clock" /\ k = One /\ ClockPart!Wake
     \/ part = "devices" /\ k = One /\ DevicePart!SelectStep
  /\ Rest

Receives(k) == part = "queue" /\ msgs > 0 /\ QueuePart!RtemsSelect(k) /\ Rest

Spec ==
  /\ Init /\ [][Next]_vars
  /\ WF_vars(System) /\ \A k \in Threads : WF_vars(GoesOn(k)) /\ WF_vars(Receives(k))
  /\ SF_vars(part = "clock" /\ ClockPart!Millisecond /\ Rest)

-----------------------------------------------------------------------------
TypeOK ==
  /\ part = "sockets" => SocketPart!TypeOK
  /\ part = "loop" => LoopPart!TypeOK
  /\ part = "clock" => ClockPart!TypeOK
  /\ part = "pipe" => PipePart!TypeOK
  /\ part = "queue" => QueuePart!TypeOK
  /\ part = "devices" => DevicePart!TypeOK

\* "Returns 0 on timeout" (IFXOS_SocketSelect), "Sleep a given time" (IFXOS_MSecSleep, SecSleep
\* and USecSleep), the timeout of DEVIO_select: what comes back without having found
\* anything has waited for its time, or all but the ticks that a port rounds off.
NotEarly ==
  [][/\ part = "sockets" => SocketPart!NotEarly
     /\ part = "clock" => ClockPart!SleepsNearly
     /\ part = "devices" => DevicePart!NotEarly']_vars

\* IFXOS_USecSleep that counts: as long as nobody has disturbed a search, it counts as far as
\* the processor needs for the time, and one loop further at most.  IFXOS_ElapsedTimeMSecGet
\* and SecGet: right to the grain of the clock until the system's number wraps.
TimeRight ==
  /\ part = "loop" => LoopPart!Calibrated
  /\ part = "clock" => ClockPart!ElapsedRight

\* IFXOS_SocketSelect: a socket that was told to be readable is so when its thread comes to
\* it.  IFXOS_DrvSelectQueueAddTask and WakeUp: no wakeup is lost between looking at the
\* device and waiting.
NotMissed ==
  /\ part = "sockets" => SocketPart!ToldReadable
  /\ part = "queue" => QueuePart!NotMissed

\* IFXOS_PipePrintf and PipeRead: what was printed is with the reader or on its way, byte for
\* byte; IFXOS_PipeOpen and Close: an end without a pointer is not left open, unless its open
\* got a descriptor and no stream.
PipeWhole == part = "pipe" => PipePart!NothingLost /\ PipePart!NullIsClosed

\* A call that does not wait for ever.
Waiting(k) ==
  \/ part = "sockets" /\ SocketPart!Ending(k)
  \/ part = "loop" /\ k \in Counters /\ LoopPart!Inside(k)
  \/ part = "clock" /\ k = One /\ pc # "awake"
  \/ part = "pipe" /\ k \in PipePart!Ends
     /\ (PipePart!Meeting \/ (k = "reader" /\ PipePart!ReadsClosed))
  \/ part = "queue" /\ port # "rtems" /\ QueuePart!Announced(k)
  \/ part = "queue" /\ port = "rtems" /\ k = One /\ QueuePart!AllWait
  \/ part = "devices" /\ k = One /\ DevicePart!Ending

\* It still waits.
Waits(k) ==
  \/ part \in {"sockets", "loop", "clock"} /\ Waiting(k)
  \/ part = "pipe" /\ (pc[k] = "opening" \/ (k = "reader" /\ PipePart!ReadsClosed))
  \/ part = "queue" /\ port # "rtems" /\ task[k] = "waiting"
  \/ part = "queue" /\ port = "rtems" /\ \A a \in Threads : task[a] = "waiting"
  \/ part = "devices" /\ at # "idle"

\* Who waits for something that comes does not wait for ever: a select with a time or a socket
\* that is readable, a sleep, the two calls of IFXOS_PipeOpen, a read whose writer has closed
\* the pipe and has no other descriptor of it, a select whose driver wakes up everyone (on RTEMS one of those that wait), and
\* DEVIO_select with a timeout or a descriptor that has data.
WaitsEnd == \A k \in Threads : Waiting(k) ~> ~Waits(k)
=============================================================================
