# TLA+ specifications of lib_ifxos

lib_ifxos is an operating-system abstraction: one C interface (`src/include`) over
Linux user space, the Linux kernel, eCos, VxWorks, Win32, RTEMS, Nucleus, XAPI and
Solaris, and a few components that are the library's own and the same everywhere.
These modules model the components that keep state and share it between callers.
`PROJECT.json` lists the components, runs, mutants, hazards, findings and
theorems, and maps each definition to the lines it translates. Paths below are
relative to the repository's `src/`.

    cd tla
    tlc -workers 2 -config <run>.cfg <module of the run>.tla
    tlapm <module>Proofs.tla

## 1. Inventory

| component | state | operations | interaction, and what is hard |
|---|---|---|---|
| variable-sized FIFO, `common/ifx_fifo.c` | buffer of words, `pRead`, `pWrite`, `count` | init, write, read, peek, clear, getRoom | a ring without wrapped elements: end markers, two addresses for one place, signed and unsigned room |
| fixed-size FIFO, same file | ring of equal elements | init, write, read, returnElement, clear | the ring is closed by the address of the last element; init again, undo of a read |
| system objects, `common/ifxos_sys_show.c` | table of trace objects, two counters, one dummy | Setup, Cleanup, Get, Release | every lock, event, thread and FIFO draws on it; counts are kept with and without its lock |
| lock, `linux/ifxos_linux_lock_appl.c` | POSIX semaphore, valid flag, owner record in its system object | init, delete, get, timed get, release | timeouts racing posts, signals, the record kept outside the protection |
| thread, `linux/ifxos_linux_thread_appl.c` | control struct with `bRunning`, `bShutDown`, `bValid` | init, delete, shutdown, the startup function | unprotected flags between caller and thread; polling, cancelling, reuse of the struct |
| Device IO layer, `dev_io/ifxos_device_io.c` | tables of drivers, devices and descriptors, one mutex | install, remove, add, delete, open, close, read, write, ioctl, select | driver callbacks run outside the mutex; indexes between tables go stale; first call initialises |
| threads of the ports, `<port>/ifxos_<port>_thread.c`, `linux/ifxos_linux_thread_drv.c` | the same control struct, stack, table object, task handle, completion | init, startup, delete, shutdown | what a failed creation or deletion leaves behind, who frees the stack, and whether a thread that did not answer is really ended |
| events, `<port>/ifxos_<port>_event.c`, `linux/ifxos_linux_event_{appl,drv}.c` | semaphore, event flag or condition flag | init, delete, wake up, wait | wake-ups lost or taken twice, deadlines, ticks rounded down, products that overflow |
| locks and mutexes of the ports, `<port>/ifxos_<port>_{lock,mutex}.c`, `linux/*_drv.c` | semaphore, valid flag, owner record | init, delete, get, timed get, release | timed locks built of event waits, surplus releases, deletes that leave the struct valid, the record outside the semaphore |
| memory of drivers, `<port>/ifxos_<port>_memory_map.c`, `linux/ifxos_linux_memory_map_drv.c` | the kernel's list of regions, the mapping of each driver | PhysToVirt map and unmap | check and request of a region are two calls; what fails half-way |
| file load and write, `<port>/ifxos_<port>_file_access*.c` | stream, memory of the caller, the file | FileLoad, FileWrite | the size is asked for before the file is read; errors that come with close |
| files in memory, same files (eCos, Windows, Nucleus) | a static table of buffers and positions | FOpen, FPrintf, FClose | table shared without protection; ends of buffers |
| socket addresses, `<port>/ifxos_<port>_socket.c` | static buffer of ntoa | Aton, Ntoa | byte order, errors, the shared buffer |
| socket select, same files | sets of sockets, time | SocketSelect, FdSet, FdClr, FdIsSet | timeouts and their conversion, sets that are too small, stale answers |
| sockets, same files | descriptors, addresses, streams | init, cleanup, create, close, bind, listen, connect, accept, send, recv, shutdown | peers that close or vanish, short sends, signals |
| time, `<port>/ifxos_<port>_time.c`, `linux/ifxos_linux_time_{appl,drv}.c` | clock, a static calibration | USec-, MSec-, SecSleep, elapsed times | rounding to ticks, overflow, wrap, a calibration other threads use |
| pipes, `linux/ifxos_linux_pipe_appl.c` | FIFO of the kernel, stdio streams | create, open, close, printf, read | opens that wait for each other, buffers, what close tells |
| queue of a driver's select, `<port>/ifxos_<port>_select.c` | wait queue, or messages (RTEMS) | init, wake up, add a task, select | a wakeup between look and wait; who is woken |
| checksums, option scan, ini access, `common/` | the scan position | functions of their arguments | |
| print, device access, copy, termios of all ports | none of their own | one system call each | |

What makes each correct:

- **FIFOs**: nothing unread is overwritten; reads return what was written, in
  order; an empty FIFO takes every admissible element; pointers stay in the buffer.
- **System objects**: one owner per entry; counts agree with the owners.
- **Lock**: one holder; no post lost or invented; a timed get returns, not early,
  and with or without the lock as it says; the record does not name a bystander.
- **Thread**: a successful delete or shutdown leaves nothing that uses the struct;
  `bRunning` is true of the present thread but while a delete cancels it; each call
  returns.
- **Ports**: the same promises as on Linux, on every port, or the exact list of the
  calls that do not keep them; nothing taken by an init is given back twice, freed
  under a running thread, or left behind.
- **Events**: a wake-up is kept until one wait takes it, and only a wait that took one
  succeeds; a timeout is reported for no other cause and not early; each wait with a
  limit returns.
- **Memory**: one driver per region; the list has what the drivers have.
- **Files**: a call leaves nothing open; what was reported written is in the file; a
  load returns the whole file. Files in memory: a buffer of one's own, whole texts.
- **Sockets**: a descriptor has one owner and an address one socket; a stream that has
  ended was received whole; a select waits as long as asked and wakes for what is
  there; an address is read and printed as it stands.
- **Time**: no sleep is shorter than asked, each ends, elapsed times are true.
- **Pipes**: bytes arrive in order, or a call says so; opens meet; readers come back.
- **Select queue**: no wakeup is missed; everybody who waits is woken.
- **Device IO**: the three tables agree; a priv is closed once and never lost; a
  callback gets its own driver's priv and device; a select returns in time.

## 2. Plan

The most important behaviour first: what is shared between callers on Linux, then
the same interface on the other ports, then their proofs.

1. FIFOs (`ElementQueue`, `VarFifo`, `Fifo`) — **done**; memory safety and order proved.
2. System objects (`SysObject`) — **done**, proved.
3. Lock (`LinuxLock`) — **done** for the POSIX branch, proved.
4. Thread (`LinuxThread`) — **done**, proved for a careful caller.
5. Device IO (`DevIo`, `DevIoSelect`) — **done**, closing proved.
6. Threads of the other eight ports (`PortThread`) — **done**, proved.
7. Events of all nine ports (`PortEvent`) against one abstract event (`Event`) —
   **done**, refinement and timeouts proved.
8. Locks of the other ports and mutexes of all (`PortLock`) — **done**, proved.

9. The other invariants of `DevIo` (`DevIoProofs`) — **done**.
10. Memory (`MemoryMap`), files (`FileAccess`, `MemFile`), sockets (`SocketAddress`,
    `SocketSelect`, `PortSocket`), time (`DelayLoop`, `PortClock`), pipes (`PortPipe`) and the
    select queue (`SelectQueue`) of the ports, and the programs that use them
    (`Resources`, `Waits`) — **done**.
11. Proofs about the parts of `Resources` and `Waits` — **done**.
12. An abstract lock (`LockPromise`) that `LinuxLock` and `PortLock` both implement —
    **done**, proved.

Left:

13. CRC tables and the option scan as functions against reference definitions.

## 3. Modules

| module | models | composition |
|---|---|---|
| `ElementQueue` | what a FIFO promises: a bounded queue with refusal, undo and clear | abstract |
| `VarFifo`, `Fifo` | the two FIFOs word by word | `QueueSpec` of each is `ElementQueue` under `INSTANCE ... WITH` (queue <- the unread elements) |
| `SysObject` | the object table | |
| `LockPromise` | what a lock promises: exclusive, recursive or pretended | abstract |
| `LinuxLock` | the lock, its clock and its owner record | `PromiseKept` is `LockPromise` under `INSTANCE ... WITH` |
| `LinuxThread` | one control struct, its caller, all pthreads ever created on it | |
| `DevIo` | the three tables and the threads in the layer | |
| `DevIoSelect` | one thread in `DEVIO_select` while the others go on | extends `DevIo`; its next-state relation is that of `DevIo` or a step of the select |
| `PortThread` | one control struct on one of eight ports, and the threads created on it | |
| `Event` | what an event promises: counting, binary or lossy | abstract |
| `PortTime` | milliseconds, ticks and their rounding and overflow | |
| `PortEvent` | one event on one of nine ports, its waiters and the clock | extends `PortTime`; `EventSpec` is `Event` under `INSTANCE ... WITH` |
| `PortLock` | one lock on one of eight ports or one mutex on one of nine, its users and the clock | extends `PortTime`; `PromiseKept` is `LockPromise` under `INSTANCE ... WITH` |
| `MemoryMap` | the drivers' mappings on eight ports, with the Linux kernel's list | |
| `FileAccess` | one file, its writers and loaders, on eight ports | |
| `MemFile` | the table of files in memory, on three ports | |
| `SocketAddress` | text to address and back, on six ports | |
| `SocketSelect` | threads in select, on seven ports | |
| `PortSocket` | servers, clients and the system's table of descriptors, on eight ports | |
| `DelayLoop` | the microsecond sleep that calibrates itself, on four ports | |
| `PortClock` | sleeps and a stopwatch, on ten ports | extends `PortTime` |
| `PortPipe` | a writer and a reader of a named pipe | |
| `SelectQueue` | a driver and the tasks that select its device, on three ports | |
| `Resources` | a program that maps memory, loads and writes files, prints into files in memory, reads addresses, or uses sockets | instances of `MemoryMap`, `FileAccess`, `MemFile`, `SocketAddress` and `PortSocket` |
| `Waits` | a program that waits for sockets, time, a pipe, a driver or the device layer | instances of `SocketSelect`, `DelayLoop`, `PortClock`, `PortPipe`, `SelectQueue` and `DevIoSelect` |
| `FifoProofs`, `LinuxProofs`, `DevIoProofs`, `PortThreadProofs`, `PortEventProofs`, `PortLockProofs`, `ResourcesProofs`, `WaitsProofs` | theorems | extend the modules they are about; `WaitsProofs` also has an instance of `DevIoProofs`, for the tables of the device layer |
| `MC...` | constants and symmetry of the runs | `MCFifo`, `MCLinuxLock` and `MCSysObject` name their component as an instance, so that `FifoProofs` can be about both FIFOs and `LinuxProofs` about the lock, the thread and the system objects |

Each module also holds definitions marked *Mutant*: the definition below with a
plausible slip in it. Each property of a passing run has one that violates it.

### State and actions

**`VarFifo`.** Addresses are word indexes from `pStart`; `mem` is the buffer as a
function that grows when a store leaves it, so that memory safety is `DOMAIN mem`
staying as it is. `writeElement`, `readElement`, `peekElement` and `Clear` are the
functions of the same names. `getRoom` is an operator, with the conversion of its
signed result to 32 bits (`U32`). `unread` is history: what was written and where.

**`Fifo`.** Also initialised again with other element sizes; an element size that
does not divide the buffer makes `IFX_Fifo_Init` fail.

**`SysObject`.** A user is a lock, event, thread or FIFO. Get and Release are split
at the critical section of `IFXOS_SYS_Lock`: `GetStart`, `GetMark`, `GetCount` and
`ReleaseCount`, `ReleaseMark`. The wait for the lock may be interrupted
(`GetInterrupted`, `ReleaseInterrupted`).

**`LinuxLock`.** `GetStart` is a call up to the semaphore wait; `Take`, `TryFails`,
`TimedOut`, `Rejected` (EINVAL) and `Interrupted` (EINTR) are how the wait ends;
`SetOwner`, `Post` and `ClearOwner` are steps of their own because the code makes
them one after the other without protection. `Deadline` leaves out the carry from
nanoseconds to seconds, as the code does. To `LockPromise` it shows who holds
the lock (`Holds`), who waits (`Asleep`) and what everyone was told (`Told`): success
from the moment the semaphore is taken.

**`LinuxThread`.** Every read and write of `bRunning` is a step. `thr` says what
each pthread does, numbered in order of creation. A delete whose thread has not
answered cancels it (`Cancel`), clears `bRunning` (`ClearRunning`) and makes the struct
invalid (`Close`) in three steps, between which the thread may go on, end or die;
`CancelFails` is its error path, which gives the struct up and leaves the thread.
`Early` allows a delete before the thread ran, `Reuse` a new init while a cancelled
pthread still lives.

**`DevIo`.** A section under the mutex is one step, a callback another. `pc` is what
a thread does between the sections; `local` are the variables it carries over.
Read, write and ioctl are `CallLook` and `CallDone`. Install looks at `first`
(`InstallFirst`), sets it (`InstallMark`), resets the tables (`InstallReset`) and
takes a slot (`InstallSlot`). `Locked` is `IFXOS_ThreadLock`, which keeps other threads from
running on VxWorks, Nucleus and XAPI, and is empty on Linux (user and kernel), eCos, RTEMS,
Windows and the generic port; a behaviour is that of a port of either kind (`threadLock`, of
`ThreadLocks`). `raced` is history: an install began while another was about to reset the
tables. Where that happens the mutex is initialised twice and drivers lose their
slots; what the layer does from then on is not followed, and its properties end there. `Hot` says which things the application takes away although
they are in use; what is not in `Hot` it treats with care. `present`, `opened` and
`closes` are history.

**`DevIoSelect`.** `SelectRead` is the unprotected look at a descriptor, `SelectPoll`
the callback, `SelectRound` the decision after a round, `SelectSleep` the sleep.

**`PortThread`.** A behaviour picks a `port` and stays on it; each function of each
port is an action (`EcosInit`, `EcosStartup`, `EcosDelete`, ...), built of what the ports
share: `Initialises`, `Creates`, `Starts`, `Stops`, `Begin`, `Sleep`, `LeaveLoop`, `Killed`.
Reads and writes of `bRunning` are steps of their own wherever the other side may
come between. `held` are the resources `<<kind, i>>` taken by init number i and not
given back, `misfreed` records that something was given back that was not held, and
`odd` what a careful caller and system avoid: an init of a struct in use (`"twice"`), a
call before the thread ran (`"early"`), a struct used again while an old thread is on
it (`"reused"`), a thread that the system could not delete (`"killFailed"`). `done` is the
kernel's completion: a kernel thread uses the struct up to `complete_and_exit`, which is
after it has cleared `bRunning` (`Using`), and `Completes` waits for it.

**`PortEvent`.** An event is the number of its pending wake-ups; the call of the
operating system that waits is a step when it is entered and one when it is left
(`Enters`, `Gets`, `Fails`). The kernel's wait reads its own flag in that call and
clears it in a step of its own. Time is units, `TickLen` to a tick, and `phase` the
units since the last tick, so that a wait for n ticks lasts between n - 1 and n of
them; on the Linux application `phase` is the nanoseconds of a time of day, which
the code carries into its seconds. `out` has the answer of a wait with its return code,
which is what the port's code sets, and the cause of a failure, which is what happened
(`Expires`: no time is left and no wake-up came). `HzTicks` is the product of rate and time modulo
`Word`.

**`PortLock`.** Port and `kind` (lock or mutex) are picked at the start. Taking and
giving the semaphore, putting the owner on record and erasing it are four steps
(`Takes`, `Records`, `Posts`, `Erases`). `LinuxDrvTimedGet` is the loop of tries and
pauses, with the event wait as the code composes it: the pause that runs out ends
the loop, with code 0. What a return code should have been is read off the clock
(`RanOut`), not off the branch that the code took. `Surplus` is a release of a free lock. `alive` and `entry` say whether the
semaphore and the table entry exist, `lost` counts those nothing refers to. To
`LockPromise` a lock `Exists` when it is valid and has its semaphore, and its `Sort` is
recursive where the system's mutex is, and pretended on the generic port and for
the locks of RTEMS, which may say success to several at once.

**`MemoryMap`.** The kernel's check and request of a region are two steps
(`check_mem_region`, `request_mem_region`), between which other drivers come. A refused
request is not noticed, and a driver whose remap failed may clean up with an unmap, which
releases its region by the physical address alone (`UnmapVirt`, `ReleaseRegion`) and so
may give back what another has reserved by then: `disputed` is history, the addresses
of both. `InterfaceCheck` is the build with the checks of `ifxos_rt_if_check.h`.

**`FileAccess`.** Each call of the C library is a step; `alloc` is the memory of a load,
`streams` who has one open, `saved` history: what an undisturbed write has reported as
written. `faulty` says that the last close did not pass on everything.

**`MemFile`.** `mem` is each user's buffer and what lies behind it. `Serial` keeps other
users out of an open.

**`SocketAddress`.** A text is a sequence of numbers, dots and words, where a word is anything that
is not a decimal number, and an address has four digits in base `Base`. The octal and
hexadecimal numbers that the C library also takes, and signs, are left out. `Int32` is the
kernel's conversion of a number to 32 bits, which wraps, `little` its byte order, and `crossed`
says of a thread that another has filled the buffer they share before it copied it; `LibReads` and `LibAddress` are what the system's function takes. The loops
of the kernel's reader have four rounds, which are written out (`KernelRead`, `KernelStore`):
a fold would be a definition that no proof can be about.

**`SocketSelect`.** `fdSet` is the caller's set, in and out; time is milliseconds, `TickMs` to
a tick. `Owned` keeps other threads from reading what a select has announced.

**`PortSocket`.** The system's side is one table of descriptors (`NumFds`) and one of
connections with two streams (`Backlog`, `NumConns`); each port's functions are actions
over them, with the checks of the port.

**`DelayLoop`.** The calibration calls the function itself, so that a thread is a stack of
calls; `speed` is the count that takes the time asked for on this processor, and
`clean` says that no interruption came into the search.

**`PortClock`.** Each port's sleep is an operator on the time asked for, with the port's
units, rounding and overflow; `NanoSleep` is the loop of the Linux application that
signals interrupt. `StartWatch` takes a reference time, the elapsed times are operators.

**`PortPipe`.** `buffer` and `ahead` are the streams of stdio, `fifo` the kernel's FIFO. Open is
two steps (`PipeOpen`, `Opened`), between which the other end comes. `Opened` may fail on
every open, when the descriptor is 0 or `fdopen` returns nothing: the caller gets NULL and
the descriptor stays open (`leaked`). `spoilt` is history.

**`SelectQueue`.** A task is added, looks at the device, and waits
(`DrvSelectQueueAddTask`, `Look`, `Resume`); the driver's event and its wakeup are two
steps, between which tasks move.

## 4. Runs

| run | module | question and bounds |
|---|---|---|
| `vfifo_order` | `MCVarFifo` | Is it a queue? 11 words; elements of 3 and 6 words in all, an inadmissible one; 2 payloads. Boundaries never meet the last word or the end, where the disagreements below are. Also `Drains`, under fairness of the reader. |
| `fifo_queue` | `MCFifo` | Is it a queue? 7 words, element sizes giving 7, 4 and 3 places and one that does not divide |
| `sysobj_table` | `MCSysObject` | Are entries exclusive and counts right? 3 users, 2 free entries and the dummy, interrupted waits, repeated setup |
| `lock_calls` | `MCLinuxLock` | Exclusion, the promise of a lock, termination: 2 threads, seconds of 3 ticks, timeouts 0, below and above a second, and for ever, with signals |
| `lock_early` | `MCLinuxLock` | violation of `WaitsItsTime` |
| `thread_calls` | `MCLinuxThread` | 3 pthreads one after the other on one struct, delete and shutdown, waits of 0, 1, 3 polls and for ever |
| `devio_tables` | `MCDevIo` | Do the tables agree? 2 threads, 2 drivers, a device each, names of which one is the beginning of the other, 3 descriptors; descriptors are closed in use; with a scheduler lock that works and with one that is empty |
| `port_threads` | `MCPortThread` | Eight ports: down, stacks, double frees, leftovers, termination. 2 inits on one struct, waits of 0, 1 polls and for ever, creations and deletions that fail, early calls, second inits |
| `port_events` | `MCPortEvent` | Nine ports: 2 waiters, up to 2 pending wake-ups, waits of none, 2.5 ticks, 3.5 ticks and for ever, 12-value integers so that the product of rate and time overflows for the larger, deletion and reopening |
| `port_locks` | `MCPortLock` | Eight ports' locks and nine ports' mutexes: exclusion, the promise of a lock, leftovers, timeouts, termination. 2 threads, times of none, half a tick, more than a pause of the kernel's loop and for ever, surplus releases, deletion and new inits |
| `resources` | `MCResources` | Is what a service hands out one user's, whole, and given back? The parts below |
| `waits` | `MCWaits` | Does each wait last its time, miss nothing and end? The parts below |

`Resources` and `Waits` stand for programs that use one of several services. The services
share no state, so that each behaviour is one of one service (`part`), with the
variables of the others `Off`; a property is the conjunction of what it means for
each of them. Where ports have the same code but for names, one of them has more threads
than the others. The instances are the `WITH` clauses of the two modules, their bounds the
constants of the runs:

| part | instance | bounds |
|---|---|---|
| memory | `MemoryMap` | 3 drivers on eight ports, regions of which two overlap, one at address 0; all drivers map and unmap at the same time |
| files | `FileAccess` | 2 threads that load and write one file of one or two words, on the Linux application, Nucleus and the ports without files, and one thread on the others (`LonePorts`), whose functions make the calls of the Linux application; calls of the C library may fail |
| texts | `MemFile` | 3 users of 2 buffers of 4 bytes on three ports, texts up to the end of a buffer and one beyond |
| addresses | `SocketAddress` | 2 threads on six ports, addresses of 4 digits of base 4, incomplete and wrong texts, numbers that wrap into a byte; kernels of both byte orders, and threads that fill the shared buffer of ntoa in any order |
| sockets | `PortSocket` | 2 servers and a client of the Linux application and the kernel (`CrowdedPorts`), a server and a client on the other six ports; one address, 3 descriptors, one connection, one word sent each way, two on Windows |
| sockets | `SocketSelect` | 2 threads, 2 sockets, times of none, a second and a rest, and for ever, on seven ports |
| loop | `DelayLoop` | one thread on four ports, 18 speeds around and above the limit of the search, interruptions |
| clock | `PortClock` | ten ports, integers of 16 values, sleeps around a tick, a second and the overflow, signals |
| pipe | `PortPipe` | 3 elements of 2 bytes, a stream of 3 bytes, a FIFO of 4; ends that wait or not, opens that get a descriptor and no stream |
| queue | `SelectQueue` | 2 tasks, read and write, 2 messages, on three ports |
| devices | `DevIoSelect` | one thread in select while another opens and closes, 2 descriptors, timeouts of none, 1.5 polls and for ever |

Deadlock is not checked for `LinuxThread` and `PortThread`, which stop when the bound
on the threads is reached and every call has returned; nor for `Resources` and `Waits`,
where a thread may wait for ever for a partner that never comes (`SocketSelect`, `PortSocket`,
`PortPipe`), or whose process has ended, and time and texts are bounded.

**Why the bounds are enough.** `VarFifo`: 9 elements at most can lie in the buffer at
once, every order of sizes around the ring occurs. `SysObject`: three users are one
more than the entries, so that two compete for a freed one while the third holds the
dummy. `LinuxLock`: two threads give every race of one post with one wait;
exclusion for more is proved. `LinuxThread`: a third pthread meets a struct used twice. `DevIo`: `MaxPrivs`
bounds the opens of a behaviour (3), enough for two descriptors to swap their
numbers; with as many descriptors as opens nothing is lost for want of one.
`PortThread`: two inits give an old and a new thread on one struct; more is proved.
`PortEvent`, `PortLock`: two threads give every race of a wake-up
or post with two waits or a timeout; the times include one that is no multiple of a
tick, and `Hz * t` on both sides of `Word`.
`MemoryMap`: a third driver meets a list that two have left half-way; two regions that overlap
without being the same tell a request that is refused from one that is repeated. `PortSocket`: with
three descriptors one is wanting when all have a socket and an accept comes. `PortClock`:
16 values make the product overflow within `MaxNow`. `DelayLoop` has one thread
because the searches of two can nest without end. `PortPipe`: 2 does not divide 3, so
that elements lie across the ends of buffers. `SelectQueue`: two tasks give every
order of a wakeup, a look and a wait.

Named bounds that are not in the code: `MaxCount` (elements; `objCount`),
`MaxThreads`, `MaxPrivs`, `MaxTimes` (entries of one device), `MaxWakes` (pending
wake-ups), `Depth` (of a recursive mutex), `MaxSem` and `MaxLost` (semaphores of RTEMS
and XAPI that only grow), and `Second`, the ticks of a second. `Wrap32` stands for 2^32 with any value above every room.

**Fairness.** `VarFifo`: a consumer that keeps calling read; nothing of writers.
`LinuxLock`: the clock goes on and a thread inside a call is scheduled (weak
fairness); a holder need never release, and weak fairness of the waiter as a whole
does not prefer it over others that take the semaphore. `LinuxThread`: the caller
inside a call and the library's own part of a thread are scheduled; the user's
thread function may run for ever, so `CallReturns` excludes an endless wait on it.
`PortThread`: the caller inside a call and the startup routine of each thread are
scheduled, the user's function is not; so `CallReturns` is about calls with a limit,
or whose thread has left the user's function, and not about the kernel's delete,
which has no limit. `PortEvent`, `PortLock`: the clock goes on, and each thread inside
a call is scheduled, weakly and as a whole; nobody need ever wake up or release.
`Waits`: as one service moves in a behaviour, the
fair actions of the services are parts of a few (`System`, `GoesOn`, `Receives`), of which
one part at a time is ever enabled. `SocketSelect`: the clock goes on, and a select that
may return does. `PortClock`: the same; the clock is strongly fair because signals may
come again and again between its steps. `DelayLoop`: the thread counts on. `PortPipe`: what
is inside a call goes on, and the system lets opens return that have met.
`SelectQueue`: a driver that has announced an event wakes up, and a task that can go on
does, or receives a message that is there; none need have a timeout. `DevIoSelect`: the
selecting thread is scheduled, and so is one that has locked the scheduler; the others
may stop anywhere. `Resources` states no fairness.

## 5. Theorems

All are proved by tlapm from the named assumptions on the constants alone, with no
bound on them. Where a run checks a conjunction, a theorem states it, which follows
from those of its parts: `CountersRight` (`CountsTrue`), `HolderRight` and `PortHolder`
(`HolderTrue`), `ThreadFlags` (`FlagsTrue`), `PortThreadKept` (`StacksKept`), `DriversApart`
(`OwnDriver`).

- **`FifoProofs!MemorySafety`**: with `SafeUse` (no element of 0 bytes, and the
  largest fits the buffer with header and trailer) `Spec => []TypeOK`: both pointers
  of the variable FIFO stay in the buffer and nothing is stored outside it — although
  `getRoom` may be wrong. `TypeOK` is inductive: below `pRead` a write is bounded by getRoom
  (`RoomBelow`), elsewhere by the test for the end (`WriteFits`).
- **`FifoProofs!VariableKept`, `VariableQueue`**: `ElementsKept`, and the refinement
  `QueueSpec` of the variable FIFO, for elements that fit the buffer as `Fitting` says:
  there is a set of positions, 0 among them and the last word and the end not, from
  each of which every element that is accepted ends at another, or does not fit behind
  it and fits in front of it. Without it the FIFO is no queue (section 6: each of its
  rows about `VarFifo` breaks a part of `Fitting` or `SafeUse`); the run's
  sizes satisfy it with the positions 0, 3, 6 and 9, and elements of one size do in
  every buffer longer than a whole number of them by two words or more. The invariant
  (`LaidOut`) is a picture of the buffer: the unread elements lie in one stretch from
  `pRead` to `pWrite` (`Straight`), or in two, with the marker of the end behind the
  first and room in front of `pRead` (`Wrapped`).
- **`FifoProofs!FixedPointers`, `FixedQueue`**: `PointersAgree` and the refinement
  `FixedQueueSpec` of the fixed-size FIFO, for any buffer and any element sizes, through
  any number of new initialisations. The invariant (`RingInv`) is that the elements lie
  one behind the other around a ring of `max_size` places.
- **`LinuxProofs!Exclusive`, `CountersRight`**: `SlotExclusive`, `RequestsCounted`
  and `CountCovers`. Exclusion alone is not inductive: what is held must be marked
  (`HeldIsMarked`), and while the table is down nothing may be held (`AtRest`). The
  count outside the lock is exact because a slot has at most one owner.
- **`LinuxProofs!LinuxKeepsPromise`, `PortLockProofs!PortsKeepPromise`**: the refinement
  `PromiseKept`, for any threads, timeouts and rates. It adds to exclusion that answers and
  holding agree: whoever is told success has the lock, whoever is told an error, for
  whatever cause, was given nothing and has nothing to give back, and nobody is given
  a lock that was deleted. The first abstract step of a call is the one that puts it
  to wait, the second the one that takes the semaphore (`Take`, `Takes`) or fails; the steps in which
  the record is kept, time passes or a pause ends are stutters. On the ports the
  steps have the shapes `Moves` and `Acts`, each of which is shown to be abstract steps
  (`Opening` and `Closing` for init and delete); besides the invariant of `OneHolder` it
  takes that nobody has a mutex whose object of the system is gone (`Gone`) and that who asks does
  not have the lock, or may have it again (`Asking`).
- **`LinuxProofs!WholeSecondsWaited`**: `WaitsItsTime`, which the run `lock_early` refutes,
  for timeouts of whole seconds and without signals: then no deadline needs the
  carry that the code leaves out (`InTime`).
- **`LinuxProofs!MutualExclusion`, `OwnerRecord`**: `OneHolder` and
  `OwnerNotWrong`. The invariant adds where in a call a thread may be (`Placed`) and
  exclusion without a cardinality (`Exclusion`).
- **`LinuxProofs!ThreadDown`, `ThreadFlag`, `ThreadTold`**: `DownIsDown`,
  `RunningIsTrue` and `ToldByCall`, assuming a careful caller (`~Early /\ ~Reuse`);
  without either the run finds them violated (section 6), and `RunningIsTrue` says nothing
  of `bRunning` between the `pthread_cancel` of a delete and its end. The flags are unprotected,
  so that their truth cannot be proved from the flags: the invariant is that at most
  one thread may write them (`OneWriter`), that the flag of a struct in use is that
  thread's until it is cancelled (`Truth`), and that a call about to close the struct has
  cancelled the thread or seen it ended (`Closing`). `FreeIsDown` is `DownIsDown` in inductive form.
- **`PortThreadProofs!PortThreadDown`, `PortThreadStack`, `PortThreadFrees`,
  `PortThreadTypes`**: `DownIsDown`, `OnItsStack`, `FreedOnce` and `TypeOK` on all eight
  ports. First every action of every port is shown to have one of five shapes
  (`Creating`, `Refusing`, `Running`, `Waiting`, `Ending`), which keep `Control`: again
  one writer and a true flag, now unless the struct was used again too early, and of the
  kernel that a delete which told the thread to shut down has waited for its completion
  (`Completing`). `DownIsDown` makes an exception of the thread that cleared `bRunning`
  before the call looked (`NotAwaited`): nobody waits for its completion (section 6). Then, as
  to resources, each has one of four (`Takes`, `TakesAgain`, `Gives`, `Keeps`), which keep
  `Holding`: a valid struct owns what its end gives back (`Owned`), and on eCos points
  to the stack of its own thread or none (`EcosStack`) — `FreedOnce` alone is not
  inductive because it says nothing of the pointers that will be freed next.
- **`PortThreadProofs!PortThreadGivesBack`**: `GivenBack`, the third part of
  `StacksKept`, follows from the same invariant: when all threads have ended and the struct is not in use, what it owned is free.
- **`PortEventProofs!PortsImplementEvent`, `EventTimeouts`, `EventTypes`**: the refinement
  `EventSpec`, step by step; `TimeoutTrue`; `TypeOK`. `TimeoutTrue` is about the moment of
  an answer, and makes an exception of the waits without time that return 0 (`Untold`); its invariant (`Prompt`) says of each wait with a limit that its age and
  what it has left make the promised time, which holds when it starts because a wait
  for n ticks lasts more than n - 1 of them (`UnitsKept`) and the product of rate and
  time is exact below `Word` (`HzTicksExact`), and which every unit of time keeps.
- **`PortLockProofs!PortExclusion`, `PortOwnerRecord`, `PortLockGivenBack`,
  `PortLockTypes`**: `OneHolder`, `OwnerNotWrong`, `GivenBack` and `TypeOK`. Each call of
  each port either only moves a thread along (`Moves`) or takes, records, gives or
  erases (`Acts`). The invariant adds that nobody is inside a call of an invalid lock,
  and that who has taken it and not yet put itself on record holds it (`Placed`).
- **`PortLockProofs!LockTimeouts`**: `TimeoutTrue`, along the argument of `EventTimeouts`:
  no port answers 1 before the time is over, and none fails with another code when it is, but
  the waits in `Untold`; whether the time is over is read off the clocks (`RanOut`).
- **`DevIoProofs!ClosingOnce`**: `ClosedOnce` for any tables, threads and devices, with
  drivers, devices and descriptors taken away in use, as long as no installs have met
  (`raced`).
  The inductive form says of each priv that its keepers exclude each other (one
  descriptor, one call about to bind it, one about to close it) and that a priv
  that was closed has none, nor has one that no open has returned.
- **`DevIoProofs!InstalledAlone`**: `InstalledStays` with any scheduler lock and with things
  taken away in use. Where the lock works no installs meet (`RacedStep`); where it is empty
  they may, and the theorem is about what happens until they do. The
  invariant `Install` says that one thread at most is between the look at `first` and
  the reset (`Once`), and that no driver has a slot or is about to take one before the
  reset (`Fresh`), so that there is nothing the reset could wipe out.
- **`DevIoProofs!DriversApart`**: `OwnDriver`, which is `OwnCallback` and `OwnDevice`, for a
  careful application (`Careful`: no driver removed and no device deleted in use,
  and no open of the empty name; section 6 has what happens otherwise), unless installs have
  met. The invariant
  `Route` follows the chain of indexes from every descriptor, and from the variables
  of every call that has left the mutex, to a driver (`Held`, `Sent`): the entry is in use,
  and its slot has the driver whose open returned the priv. Nobody on the way keeps
  a lock on it; that nothing changes under them is what `DriverUsed` and `DeviceUsed`
  ask of the application.
- **`DevIoProofs!OpenedIsKept`**: `NothingLost` for a careful application and at least as
  many descriptors as opens, unless installs have met. That a call with a priv in hand finds a free descriptor
  is the pigeonhole principle (`FreeFound`): all others would have different privs, and
  none of them this one.
- **`DevIoProofs!DevicesCounted`**: `DevicesPresent` if a device has one name at a time
  (`MaxTimes <= 1`), with anything taken away in use, unless installs have met. A deleted entry keeps its device pointer and
  delete does not look at `in_use`; the invariant is that an entry in use has no entry
  with its pointer before it (`FirstInUse`), since add takes the first free one.
- **`ResourcesProofs!Mapping`**: `RegionsKept` for any regions of memory and any drivers, all of
  which map and unmap at the same time. The list of the kernel
  says nothing of who asked; the invariant is that the regions of its drivers (`Holders`) are
  on it and have no address in common, but for what is in dispute, and that it has no others,
  but regions at address 0 (`Listed`). So the unchecked request and the unmap of a driver that
  had nothing mapped (section 6) cost the addresses of that region and no others, and a list
  without them is right.
- **`ResourcesProofs!FilesRight`, `LoadsRight`**: `FilesKept` and the action property
  `LoadsFile`, for any threads, contents, entries, buffers and texts, on all ports. Of a
  file the invariant says that its streams are those of calls under way (`Held`); that an
  undisturbed writer is alone and the file is as much as it has passed on (`Written`);
  and that an undisturbed reader has the beginning of the file, and knows its length
  (`Loaded`). Of a file in memory, that a stream is an entry with its user's buffer, which
  stands where the text ends (`Taken`) — so that no other user has it, and nobody
  else's print gets there — and that what fits is in the buffer (`Readable`).
- **`ResourcesProofs!SocketsRight`**: `SocketsKept` for any servers, clients, addresses,
  descriptors, connections and backlogs, on all ports. The invariant is that the descriptors in
  use are the sockets of the threads, each of one thread (`Owned`), with the cleanup
  of Windows, which ends all of them and is the last of all threads; that an address a thread was told
  is that of its descriptor, and no two descriptors have the same (`Named`), but on Windows and the
  stubs; and that what was reported as sent is what the system took, all of which who
  has come to the end of a shut stream has received (`Right`). That the lowest free descriptor
  exists (`LowestOf`) is the pigeonhole principle once more: an induction would need an
  operator.
- **`ResourcesProofs!AddressesRight`**: `AddressesRead` for any threads, any set of texts and
  any number of values of a byte, on all ports and kernels of both byte orders. The exceptions
  are those of the code (section 6): the bytes that a little-endian kernel reverses, the
  errors Windows does not tell, numbers that wrap in the kernel, and the text that
  another thread has overwritten in the shared buffer. The kernel's reader is shown to take four numbers with dots
  between them and nothing else (`KernelReads`), unless a number does not fit in 32 bits (`Int32`), and to move whatever four bytes were in the
  word out of it: each of its four steps drops the first of four digits and appends one
  (`Shifted`), and the digits of a number of four digits are those (`DigitsBack`). The
  invariant adds that the kernel's word is always four bytes (`KernelWord`), and that the text in the
  buffer is that of the thread that will copy it, unless another has filled it since (`OwnCopied`).
- **`WaitsProofs!Ready`, `PipeBytes`, `TimeWaited`, `Measured`, `WaitsTypes`**: `NotMissed`,
  `PipeWhole`, `NotEarly`, `TimeRight` and `TypeOK` on all ports, for any numbers of
  threads, sockets, descriptors in a set, messages and elements, all sizes, times, rates
  and widths of a word (of the device layer, for one driver, one device and two
  descriptors). Each service has an invariant of its own, and `Kept` is that of the
  service in use:
  - sockets: what select left in a set is its thread's own and readable (`Told`), and the time
    that was waited and that is left is what was asked for (`Timing`), since a time that
    select takes comes whole out of the conversion to seconds and microseconds (`Converted`);
  - queue: who is about to look or waits is in the queue (`Queued`), so that the wakeup
    between look and wait finds it there;
  - pipe: who has a pointer holds its end open, and who has none does not, unless its open
    failed with a descriptor in hand (`Places`, `leaked`); and what was printed lies in the
    writer's buffer, the FIFO, the reader's buffer and with the reader, one behind the other (`Flow`,
    `NothingLost`); a reader that comes finds them empty, unless the FIFO was spoilt (`Early`);
  - devices: `t` is ahead of the time waited by the sleep that has begun (`Slept`);
  - clock: what is slept and left to sleep is what was asked for, but for the ticks
    a port rounds off (`Dozing`), when the conversion does not overflow; a reference time is what the system
    counted then (`Watched`). That the difference of two numbers cut to a word and
    divided is right until they wrap is a lemma on each way to count (`RightUnwrapped`, `RightWindows`);
  - loop: while nobody has disturbed a search, one thread searches at most, and the value
    it is at is what the place in the search says (`Stage`): a power of two up to the first
    by which a tick goes by (`Goal`), then the values from half of that, up to the first
    that is enough or the next (`Results`).
- **`SysObjectTypes`, `LinuxLockTypes`, `LinuxThreadTypes`, `DevIoTypes`** in the modules
  of these components: `TypeOK`.

**Only model-checked**: all liveness (`Drains`, `TimedGetReturns`, `CallReturns`,
`WaitReturns`, `WaitsEnd`), since fairness is beyond the prover. `WaitsItsTime` is refuted,
but for whole seconds. Type invariants are proved for all modules with theorems,
and run for the variable FIFO, where the invariant says that the pointers stay in
the buffer.

What the proofs changed in the models: the ways to convert times in `PortClock` (`Short`,
`Grain`, `Counted`) had overlapping cases, of which TLC took the first; they exclude
each other now. Seconds of eCos and Nucleus come from a number of milliseconds that was cut to a
word before it was divided, and `TimeRight` says so where a tick does not divide a
second. `DelayLoop` assumes of the limit of its search that it is a power of two, at least 4,
as in the code, and `SocketSelect` that there are finitely many sockets. `SocketAddress`
had folds and powers, of which tlapm knows nothing.

## 6. Disagreements between code and documentation

`lock_early` runs one of them, and `PROJECT.json`, "findings", quotes the line that it
disagrees with: a timed get of the Linux lock fails at once when the nanoseconds of its
deadline add up to a second.

The modules state more promises that TLC refutes; each was seen with the instance
given, as changes of the constants of the named run, or of the `WITH` clause of the
part named, with the property of the module added to those of the run. The rows of
`DevIo` are changes of `devio_tables` with `Names` and `Requests` of `ShortOnly`, `MaxFds` and
`MaxPrivs` 2, unless they say otherwise; a part named alone is as it stands.

| property | where | instance |
|---|---|---|
| `VarFifo!Intact` | `getRoom` answers 2^32 - 1 when `pWrite` is on the last word and `pRead` at the start, and the next write overwrites | `vfifo_order` with Words 7, Sizes {4} |
| `VarFifo!Intact` | a reader at `pEnd` makes a full FIFO look empty | Words 6, Sizes {4} |
| `VarFifo!Intact` | an element of 0 bytes passes the test for room | Words 8, Sizes {0, 4} |
| `VarFifo!ReadsOldest` | an empty FIFO reports its whole buffer as room, and an element longer than what lies before `pRead` overwrites its own end marker | `vfifo_order` with Words 8, Sizes {4, 16} |
| `SysObject!CurrentCount` | `objCount`, "current object count" in `ifxos_sys_show.h`, is counted up for the dummy too and never down | `sysobj_table` with NumOfObject 3 |
| `LinuxLock!OwnerOnRecord` | release erases the record of the next holder | `lock_early` with Timeouts {0} |
| `LinuxLock!TimeoutReported` | a failed try answers return code 0, documented is 1 | Timeouts {0} |
| `LinuxLock!GetSucceeds` | `LockGet`, "not interuptable", fails when a signal comes | Timeouts {0}, Signals TRUE |
| `LinuxThread!DownIsDown` | a delete before the thread has set `bRunning` takes it for ended and reports success, and the thread then starts on the struct | `thread_calls` with MaxThreads 1, Early TRUE |
| `LinuxThread!DownIsDown` | a cancelled thread clears the `bRunning` of its successor | MaxThreads 2, Reuse TRUE |
| `LinuxThread!RunningExact` | a delete clears `bRunning` while the thread it has cancelled still runs, and makes the struct invalid only afterwards (`ifxos_linux_thread_appl.c:304`, `:327`) | `thread_calls` |
| `LinuxThread!ShutdownKeepsStruct` | a shutdown in vain invalidates the struct | MaxThreads 1 |
| `DevIo!OwnCallback` | `DEVIO_device_delete` leaves open descriptors and sets their `driver_number` to 0: later calls hand driver 0 another driver's priv | `devio_tables` with Hot {"device"} |
| `DevIo!UsedDriverStays` | `DEVIO_driver_remove` ignores `force` | Hot {"driver"} |
| `DevIo!SlotStays` | two first installs: one resets the tables in which the other has a slot, since `IFXOS_ThreadLock` is empty (`ifxos_linux_thread.h:124` and `:202`, `ifxos_ecos_thread.h:123`, `ifxos_rtems_thread.h:112`, `ifxos_generic_os_thread.h:112`, `ifxos_win32_thread.h:86`) | Hot {} |
| `DevIo!DevicesPresent` | delete takes a stale entry and leaves the real one | Names BothNames, MaxTimes 2, Hot {} |
| `DevIo!DeletedStaysClosed` | `name[0] == '0'` lets the empty name open a deleted device | Requests EmptyRequest, Hot {} |
| `DevIo!OwnDevice` | the entry changes between search and open callback | Hot {"device"} |
| `PortThread!DeleteReturns` | the kernel's delete waits for ever for a thread that does not answer | `port_threads` with Ports {"linux_drv"}, as a property |
| `PortThread!StructIsFree` | a kernel thread that has cleared `bRunning` is taken for ended, and uses the completion in the struct afterwards (`ifxos_linux_thread_drv.c:157`, `:159`, `:276`) | `port_threads` |
| `PortEvent!TimeoutTold` | a wait of 0 ms on the Linux application and on Windows, and one of less than a tick on Nucleus, returns code 0 when it finds nothing; documented for a timeout is 1 (`ifxos_event.h:184`) | `port_events` with Ports {"linux_appl"}, {"win32"} or {"nucleus"}, as a property |
| `PortLock!TimeoutTold` | a timed get of 0 ms on every port, of less than a tick on VxWorks and Nucleus, and the kernel's whose pause runs out (`ifxos_linux_lock_drv.c:316`) return code 0; documented for a timeout is 1 (`ifxos_lock.h:206`) | `port_locks` with Ports {"ecos"} or {"linux_drv"}, as a property |
| `DevIoSelect!PollsOpen` | select polls a priv that was closed meanwhile | devices, MaxPrivs 1, SelectTimes {0} |
| `DevIoSelect!NotLate` | `t > timeout_msec` waits one round too many | devices, MaxPrivs 1, SelectTimes {100} |
| `MemoryMap!MappedAlone` | two drivers that pass the check of a region before either requests it both map it, as the result of the request is not looked at (`ifxos_linux_memory_map_drv.c:100`); or a driver whose remap has failed cleans up with an unmap, which releases the region of whoever has it now (`:170`) | memory |
| `MemoryMap!FreshIsMapped` | RTEMS' map refuses a pointer that is not set yet | memory |
| `FileAccess!WriteTold` | a write that fails in fclose is reported as done | files |
| `FileAccess!LoadsOneVersion` | a load that a write overtakes returns parts of both files | files, Ports {"ecos"} |
| `MemFile!CountTrue` | a print that is cut returns the length of the whole text | texts |
| `MemFile!OneStream` | two users open at the same time and share an entry | texts, Serial FALSE |
| `MemFile!InBuffer` | a print that is too long stores behind the buffer | texts, MaxText 9 |
| `SocketAddress!NetworkOrder` | the kernel port stores an address in the order of the host, bytes reversed on a little-endian machine | addresses, Ports {"linux_drv"} |
| `SocketAddress!ErrorsTold` | Windows reports success for a text that is no address | addresses, Ports {"win32"} |
| `SocketAddress!ErrorsTold` | the kernel port cuts a number to 32 bits before it compares it with 255, and takes 4294967297.0.0.1 for 1.0.0.1 (`ifxos_linux_socket_drv.c:254`) | addresses, Ports {"linux_drv"} |
| `SocketAddress!TextIsOwn` | the static buffer of ntoa, overwritten by another thread | addresses, Ports {"ecos"} |
| `SocketSelect!WaitsTicks` | the timeout of select is taken for milliseconds, documented are ticks | sockets of `Waits`, as `[][...]_vars` |
| `SocketSelect!SetsInBounds` | a descriptor above the size of a set is stored outside of it | sockets of `Waits`, Sockets {0, 2} |
| `Waits!WaitsEnd` | a socket that no longer fits the set of Windows is left out without a word | sockets of `Waits`, Ports {"win32"}, FdSetSize 1 |
| `SocketSelect!ToldReadable` | another thread reads what select has announced | sockets of `Waits`, Ports {"linux_appl"}, Owned FALSE |
| `PortSocket!BoundAlone` | Windows reports success for an address in use | sockets of `Resources`, CrowdedPorts {"win32"} |
| `PortSocket!CreatedTrue` | the kernel port takes only -1 for an error and goes on without a socket | sockets of `Resources` |
| `PortSocket!Survives` | a send to a closed peer ends the process | sockets of `Resources` |
| `DelayLoop!SleepsItsTime` | an interruption ends the search too early, a second thread sleeps with the value the first is still searching, or the processor is too fast for its limit, and sleeps are too short | loop, Ports {"ecos"} and Speeds {2}; Speeds {2}, Counters {"reader", "writer"}, Preempts FALSE; or Speeds {20}, Preempts FALSE |
| `PortClock!NeverShorter` | a sleep rounded down to ticks, the first of which has begun | clock, as `[][...]_vars` |
| `PortClock!ElapsedTrue` | the product of ticks and 1000 overflows in the kernel's elapsed time | clock |
| `PortPipe!RefusedIsClosed` | an open that returns NULL because its descriptor is 0 or `fdopen` fails leaves the pipe open, and the other end a partner that is not there (`ifxos_linux_pipe_appl.c:286` to `:301`) | pipe |
| `Waits!WaitsEnd` | a wakeup on RTEMS reaches one of the tasks that wait | queue, without `port # "rtems"` in `Waiting` and `Waits` |

An interrupted Release of a system object loses its table entry for good; nothing
in the documentation says it should not.

The ports differ from each other where their interface does not. The modules follow
each port's code, and the properties name the ports they are about; what they have to
leave out is the list of the differences:

- Threads. Init of a struct in use frees the stack of the running thread on eCos and
  Nucleus (`OnItsStack` and `FreedOnce` except `"twice"`); delete of Nucleus frees the
  stack of a thread it could not end; delete of Windows closes the handle, which does
  not end the thread, shutdown of the kernel reports success with the thread running,
  and shutdown of RTEMS looks at a flag that nobody sets (`Careless`). What a port
  leaves behind even when every call succeeds is `LeftBehind`: the table object when a
  creation fails, the handle where only a forced end closes it.
- Events. The kernel's wait clears its flag after a timeout, when a wake-up may have
  set it, takes a signal for success, and one wake-up ends every wait that sees the
  flag: it is a `"lossy"` event (`Kind`), as is the generic one, which waits for nothing.
  RTEMS and XAPI hand milliseconds on as ticks, the others round down and may wait up
  to a tick less than asked (`Promised`). The product of rate and time overflows on
  VxWorks and in the kernel (`Overflows`). A wait
  that has no time returns code 0 on three ports (`Untold`).
- Locks. The kernel's timed get ends with its first pause of 10 ms, with code 0, or
  at once, since the init of its event on the stack may find a valid flag there; RTEMS'
  timed get reports success without taking (`Excludes`); VxWorks' timed get lacks the
  tick that its event wait adds (`Promised`). A timed get that has no time, and the
  kernel's pause, return code 0 (`Untold`).
- Mutexes. RTEMS' delete leaves the struct valid when it succeeds and invalid when it
  fails; Nucleus' does not delete the semaphore, so that the next init fails; XAPI's
  leaks it, and XAPI's `LockDelete` does nothing (`GivenBack`).

## 7. Not modelled

The components with status `not_modelled` in `PROJECT.json`, with the reason: what is left
of each port are wrappers of single calls without state of their own (print, device
access, copying, termios) and functions that only return an error. Most of the
repository's lines are comments, headers with one configuration switch after the
other, and build files: of its 60,000 lines 17,700 are inside the functions of C files,
and the map covers 10,100 of those, more than half. Inside the modelled
components:

- debug output, names and statistics of system objects and locks; thread priorities
  and ids;
- the System V branches of the Linux lock and event (`USE_PHTREAD_SEM` 0). The library does
  not compile with them: `ifxos_linux_event_appl.c:91` and `ifxos_sys_show.c:174` use
  `union semun`, which only `ifxos_linux_lock_appl.c:72` declares, and
  `ifxos_linux_event_appl.c:382` uses `IFXOSL_SemAlarm`, which is static in the lock's
  file;
- the parts of a wait that the operating system alone decides, such as which of two
  waiters a semaphore serves first: the modules allow any;
- what the Device IO layer does after two first installs have met, which initialise its
  mutex twice (`raced`); names
  longer than `DEVIO_MAXDEVNAME`; recursive locking by one thread where the lock is not
  recursive, a delete of a lock or event that is in use, and `IFXOS_SysObject_Cleanup`
  while objects are in use: all left to the application.
- the contents of datagrams (`IFXOS_SocketSendTo`, `IFXOS_SocketRecvFrom`), and sockets of
  a 64-bit kernel, which hands pointers on in an `int`;
- `IFXOS_SysTimeGet` as a call of its own; FOpen, FRead, FWrite and Stat where they hand
  their arguments to the C library;
- `IFXOS_DrvSelectQueueInit`, and the select queues of the ports whose functions do
  nothing;
- the lock of the object table on Nucleus and the generic port, which is empty.
