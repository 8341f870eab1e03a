-------------------------------- MODULE DevIo --------------------------------
(***************************************************************************)
(* The Device IO layer of dev_io/ifxos_device_io.c: a table of drivers, a    *)
(* table of devices that name their driver by its number, and a table of     *)
(* open descriptors that name their device by its index.  One mutex protects *)
(* the three; the callbacks of the drivers are called without it.  What is    *)
(* done under the mutex, and every callback, is one step.                    *)
(*                                                                         *)
(* The first installation resets the tables, and IFXOS_ThreadLock is to keep  *)
(* the others from running meanwhile.  On most ports it is empty: installs    *)
(* that meet there also initialise the mutex twice, and what the layer does   *)
(* after that is not followed: its properties end where installs have met.    *)
(*                                                                         *)
(* A driver is its set of callbacks.  What open returns to the layer, the     *)
(* priv that later callbacks are given, is numbered in the order of the       *)
(* opens.  Read, write and ioctl differ in the callback only and are Call.    *)
(***************************************************************************)
EXTENDS Integers, Sequences, FiniteSets

CONSTANTS
  Procs,       \* the threads that use the layer
  Drivers,
  Devices,     \* the device pointers
  Driver,      \* the driver that a device is made for
  Names,       \* the names that devices are added under, as sequences
  Requests,    \* the names that are opened
  MaxDrivers,  \* DEVIO_MAXDRIVERS
  MaxDevices,  \* DEVIO_MAXDEVICES
  MaxFds,      \* DEVIO_MAXFDS
  MaxPrivs,    \* bound of the check: opens that reach a driver
  ThreadLocks, \* whether IFXOS_ThreadLock keeps other threads from running: it does on
               \* VxWorks, Nucleus and XAPI, and is empty on the other ports
  MaxTimes,    \* how many names a device may have at a time
  Hot,         \* what may be taken away in use, of {"driver", "device", "fd"}
  None

ASSUME DevIoAssumption ==
  /\ MaxDrivers \in Nat \ {0} /\ MaxDevices \in Nat \ {0} /\ MaxFds \in Nat \ {0}
  /\ MaxPrivs \in Nat /\ MaxTimes \in Nat
  /\ Driver \in [Devices -> Drivers]
  /\ <<>> \notin Names /\ ThreadLocks \subseteq BOOLEAN
  /\ Hot \subseteq {"driver", "device", "fd"}
  /\ None \notin Drivers \cup Devices

VARIABLES
  threadLock,  \* which of them the port has
  raced,    \* history: an install began while another was about to reset the tables
  first,    \* the static first of DEVIO_driver_install
  driver,   \* DEVIO_driver_table: the callbacks in a slot that is in use
  device,   \* DEVIO_device_table
  fd,       \* DEVIO_fd_table
  number,   \* what install returned to each driver, until it is removed
  present,  \* how often each device was added and not deleted since
  opened,   \* the driver and device of every priv
  closes,   \* how often the close callback was called for a priv
  pc,       \* what a thread is about to do outside the mutex
  local     \* its local variables

tables == <<driver, device, fd>>
history == <<number, present, opened, closes>>
races == <<threadLock, raced>>
vars == <<races, first, tables, history, pc, local>>

Slots == 0 .. MaxDrivers - 1
Entries == 0 .. MaxDevices - 1
Fds == 0 .. MaxFds - 1
Privs == 1 .. MaxPrivs

Unused == [in_use |-> FALSE, device |-> None, name |-> <<>>, driver_number |-> 0]
Closed == [device_number |-> -1, priv |-> 0]
NoLocal == [foo |-> None, entry |-> -1, priv |-> 0]

Init ==
  /\ threadLock \in ThreadLocks /\ raced = FALSE
  /\ first = FALSE
  /\ driver = [s \in Slots |-> None] /\ device = [i \in Entries |-> Unused]
  /\ fd = [f \in Fds |-> [device_number |-> 0, priv |-> 0]]
  /\ number = [d \in Drivers |-> -1] /\ present = [v \in Devices |-> 0]
  /\ opened = <<>> /\ closes = [i \in Privs |-> 0]
  /\ pc = [p \in Procs |-> "idle"] /\ local = [p \in Procs |-> NoLocal]

Goto(p, place) == pc' = [pc EXCEPT ![p] = place]
Remember(p, values) == local' = [local EXCEPT ![p] = values]

\* A thread leaves the layer.
Return(p) == Goto(p, "idle") /\ Remember(p, NoLocal)

Least(i, S) == i \in S /\ \A j \in S : i <= j

-----------------------------------------------------------------------------
(* The users of the layer: a thing is in use while a descriptor or a call    *)
(* that has begun refers to it, a driver also while one of its devices is    *)
(* in the table.                                                             *)

Open == {f \in Fds : fd[f].device_number # -1 /\ fd[f].priv # 0}
Callers(place) == {p \in Procs : pc[p] = place}

Busy(e) ==
  \/ \E f \in Open : fd[f].device_number = e
  \/ \E p \in Procs : local[p].entry = e

DriverUsed(d) ==
  \/ \E e \in Entries : device[e].in_use /\ device[e].driver_number = number[d]
  \/ \E e \in Entries : Busy(e) /\ device[e].driver_number = number[d]
  \/ \E p \in Procs : local[p].foo = d

DeviceUsed(v) == \E e \in Entries : device[e].device = v /\ Busy(e)
FdUsed(f) == \E p \in Callers("calling") : local[p].priv = fd[f].priv

-----------------------------------------------------------------------------
(* DEVIO_driver_install and DEVIO_driver_remove.                            *)

Reset ==
  /\ driver' = [s \in Slots |-> None]
  /\ fd' = [f \in Fds |-> [fd[f] EXCEPT !.device_number = -1]]

\* Mutant: install does not lock the scheduler.
LockedMut_Never == FALSE

\* The scheduler is locked: only the thread that looks at first runs.
Locked == threadLock /\ \E p \in Procs : pc[p] \in {"marking", "resetting"}
Runs(p) == ~Locked \/ pc[p] \in {"marking", "resetting"}

\* Whoever finds first at 0 sets it to 1 and then resets the tables.
InstallFirst(p, d) ==
  /\ pc[p] = "idle" /\ number[d] = -1 /\ \A q \in Procs : local[q].foo # d
  /\ Remember(p, [NoLocal EXCEPT !.foo = d])
  /\ Goto(p, IF first THEN "installing" ELSE "marking")
  /\ raced' = (raced \/ \E q \in Procs : pc[q] \in {"marking", "resetting"})
  /\ UNCHANGED <<threadLock, first, tables, history>>

InstallMark(p) ==
  /\ pc[p] = "marking"
  /\ first' = TRUE
  /\ Goto(p, "resetting")
  /\ UNCHANGED <<races, tables, history, local>>

InstallReset(p) ==
  /\ pc[p] = "resetting"
  /\ Reset
  /\ Goto(p, "installing")
  /\ UNCHANGED <<first, races, device, history, local>>

InstallSlot(p) ==
  /\ pc[p] = "installing"
  /\ IF \E s \in Slots : driver[s] = None
     THEN \E s \in Slots :
            /\ Least(s, {t \in Slots : driver[t] = None})
            /\ driver' = [driver EXCEPT ![s] = local[p].foo]
            /\ number' = [number EXCEPT ![local[p].foo] = s]
     ELSE UNCHANGED <<driver, number>>
  /\ Return(p)
  /\ UNCHANGED <<first, races, device, fd, present, opened, closes>>

\* The parameter force is not looked at.
DriverRemove(d) ==
  /\ number[d] # -1
  /\ "driver" \in Hot \/ ~DriverUsed(d)
  /\ driver' = [driver EXCEPT ![number[d]] = None]
  /\ number' = [number EXCEPT ![d] = -1]
  /\ UNCHANGED <<first, races, device, fd, present, opened, closes, pc, local>>

-----------------------------------------------------------------------------
(* DEVIO_device_add and DEVIO_device_delete.                                *)

FreeEntries == {e \in Entries : ~device[e].in_use}

DeviceAdd(v, name) ==
  /\ number[Driver[v]] # -1 /\ present[v] < MaxTimes
  /\ present' = [present EXCEPT ![v] = @ + 1]
  /\ \E e \in Entries :
       /\ Least(e, FreeEntries)
       /\ device' = [device EXCEPT ![e] = [in_use |-> TRUE, device |-> v,
                       name |-> name, driver_number |-> number[Driver[v]]]]
  /\ UNCHANGED <<first, races, driver, fd, number, opened, closes, pc, local>>

\* The entries that DEVIO_device_delete takes for the device's.
Deletable(v) == {e \in Entries : device[e].device = v}

\* Mutant: a deleted entry stays in use.
DeviceDeleteMut_StaysUsed(v) ==
  /\ "device" \in Hot \/ ~DeviceUsed(v)
  /\ present[v] > 0 /\ present' = [present EXCEPT ![v] = @ - 1]
  /\ \E e \in Entries :
       /\ Least(e, Deletable(v))
       /\ device' = [device EXCEPT ![e] = [Unused EXCEPT !.device = v, !.in_use = TRUE]]
  /\ UNCHANGED <<first, races, driver, fd, number, opened, closes, pc, local>>

\* The first entry with the device pointer goes, used or not; the pointer stays.
DeviceDelete(v) ==
  /\ "device" \in Hot \/ ~DeviceUsed(v)
  /\ present[v] > 0 /\ present' = [present EXCEPT ![v] = @ - 1]
  /\ \E e \in Entries :
       /\ Least(e, Deletable(v))
       /\ device' = [device EXCEPT ![e] = [Unused EXCEPT !.device = v]]
  /\ UNCHANGED <<first, races, driver, fd, number, opened, closes, pc, local>>

-----------------------------------------------------------------------------
(* DEVIO_open.                                                              *)

\* The name begins with that of the entry, whose driver is there; the test that
\* should refuse the empty name compares with the digit '0'.
Matches(name, e) ==
  /\ Len(device[e].name) <= Len(name)
  /\ SubSeq(name, 1, Len(device[e].name)) = device[e].name
  /\ driver[device[e].driver_number] # None

\* The exact match or else the longest, the first of several.
Found(name, e) ==
  /\ Matches(name, e) /\ (device[e].name = <<>> => name = <<>>)
  /\ \A o \in Entries : Matches(name, o) =>
       \/ Len(device[o].name) < Len(device[e].name)
       \/ device[o].name = device[e].name /\ e <= o

OpenFind(p, name) ==
  /\ pc[p] = "idle"
  /\ \E e \in Entries :
       /\ Found(name, e)
       /\ Remember(p, [foo |-> driver[device[e].driver_number], entry |-> e, priv |-> 0])
  /\ Goto(p, "opening")
  /\ UNCHANGED <<first, races, tables, history>>

\* Mutant: the device is taken from the entry that the search ended with.
OpenCallMut_LastLooked(p) ==
  /\ pc[p] = "opening" /\ Len(opened) < MaxPrivs
  /\ opened' = Append(opened, [driver |-> local[p].foo,
                               device |-> device[MaxDevices - 1].device])
  /\ Remember(p, [local[p] EXCEPT !.priv = Len(opened) + 1])
  /\ Goto(p, "binding")
  /\ UNCHANGED <<first, races, tables, number, present, closes>>

\* The driver's open, with the device that is in the entry now.
OpenCall(p) ==
  /\ pc[p] = "opening" /\ Len(opened) < MaxPrivs
  /\ opened' = Append(opened, [driver |-> local[p].foo,
                               device |-> device[local[p].entry].device])
  /\ Remember(p, [local[p] EXCEPT !.priv = Len(opened) + 1])
  /\ Goto(p, "binding")
  /\ UNCHANGED <<first, races, tables, number, present, closes>>

\* It failed.
OpenFails(p) ==
  /\ pc[p] = "opening"
  /\ Return(p)
  /\ UNCHANGED <<first, races, tables, history>>

\* Mutant: the descriptor is taken without looking whether it is free.
FreeFdsMut_Unlooked == Fds

FreeFds == {f \in Fds : fd[f].device_number = -1}

\* Without a free descriptor the priv is dropped.
OpenBind(p) ==
  /\ pc[p] = "binding"
  /\ IF FreeFds = {} THEN UNCHANGED fd
     ELSE \E f \in Fds :
            /\ Least(f, FreeFds)
            /\ fd' = [fd EXCEPT ![f] = [device_number |-> local[p].entry,
                                        priv |-> local[p].priv]]
  /\ Return(p)
  /\ UNCHANGED <<first, races, driver, device, history>>

-----------------------------------------------------------------------------
(* DEVIO_close, and DEVIO_read, DEVIO_write and DEVIO_ioctl.                *)

\* Mutant: the device index is taken for the driver number.
LeadsMut_ByEntry(f) == driver[fd[f].device_number]

\* The driver that a descriptor leads to.
Leads(f) == driver[device[fd[f].device_number].driver_number]

Through(f, clear) == [foo |-> Leads(f), priv |-> fd[f].priv,
                      entry |-> IF clear THEN -1 ELSE fd[f].device_number]

\* Mutant: the descriptor stays in the table.
CloseClearMut_Kept(p, f) ==
  /\ pc[p] = "idle" /\ f \in Open
  /\ "fd" \in Hot \/ ~FdUsed(f)
  /\ IF Leads(f) = None THEN UNCHANGED <<pc, local>>
     ELSE Remember(p, Through(f, TRUE)) /\ Goto(p, "closing")
  /\ UNCHANGED <<first, races, tables, history>>

\* The descriptor is given up even when its driver is not there any more.
CloseClear(p, f) ==
  /\ pc[p] = "idle" /\ f \in Open
  /\ "fd" \in Hot \/ ~FdUsed(f)
  /\ fd' = [fd EXCEPT ![f] = Closed]
  /\ IF Leads(f) = None THEN UNCHANGED <<pc, local>>
     ELSE Remember(p, Through(f, TRUE)) /\ Goto(p, "closing")
  /\ UNCHANGED <<first, races, driver, device, history>>

CloseCall(p) ==
  /\ pc[p] = "closing"
  /\ closes' = [closes EXCEPT ![local[p].priv] = @ + 1]
  /\ Return(p)
  /\ UNCHANGED <<first, races, tables, number, present, opened>>

CallLook(p, f) ==
  /\ pc[p] = "idle" /\ f \in Open /\ Leads(f) # None
  /\ Remember(p, Through(f, FALSE))
  /\ Goto(p, "calling")
  /\ UNCHANGED <<first, races, tables, history>>

CallDone(p) ==
  /\ pc[p] = "calling"
  /\ Return(p)
  /\ UNCHANGED <<first, races, tables, history>>

-----------------------------------------------------------------------------
Opening(p) ==
  OpenCall(p) \/ OpenFails(p) \/ OpenBind(p) \/ \E name \in Requests : OpenFind(p, name)

Using(p) ==
  CloseCall(p) \/ CallDone(p) \/ \E f \in Fds : CloseClear(p, f) \/ CallLook(p, f)

Installing(p) ==
  \/ InstallMark(p) \/ InstallReset(p) \/ InstallSlot(p)
  \/ \E d \in Drivers : InstallFirst(p, d)

Next ==
  \/ \E p \in Procs : Runs(p) /\ (Installing(p) \/ Opening(p) \/ Using(p))
  \/ ~Locked /\ \E d \in Drivers : DriverRemove(d)
  \/ ~Locked /\ \E v \in Devices :
       DeviceDelete(v) \/ \E name \in Names : DeviceAdd(v, name)

Spec == Init /\ [][Next]_vars

-----------------------------------------------------------------------------
\* Every variable has its type.
TypeOK ==
  /\ threadLock \in BOOLEAN /\ raced \in BOOLEAN
  /\ first \in BOOLEAN /\ driver \in [Slots -> Drivers \cup {None}]
  /\ device \in [Entries -> [in_use : BOOLEAN, device : Devices \cup {None},
                             name : Names \cup {<<>>}, driver_number : Slots]]
  /\ fd \in [Fds -> [device_number : {-1} \cup Entries, priv : {0} \cup Privs]]
  /\ number \in [Drivers -> {-1} \cup Slots] /\ present \in [Devices -> 0 .. MaxTimes]
  /\ opened \in Seq([driver : Drivers, device : Devices \cup {None}])
  /\ Len(opened) <= MaxPrivs /\ closes \in [Privs -> Nat]
  /\ pc \in [Procs -> {"idle", "marking", "resetting", "installing",
                       "opening", "binding", "closing", "calling"}]
  /\ local \in [Procs -> [foo : Drivers \cup {None}, entry : {-1} \cup Entries,
                          priv : {0} \cup Privs]]

\* A driver that was installed has its slot to itself until it is removed, unless an
\* install met the first one; with a scheduler lock none does.
InstalledStays ==
  /\ threadLock => ~raced
  /\ ~raced => \A d \in Drivers : number[d] # -1 => driver[number[d]] = d

\* Who may close a priv: the descriptors it is in, and the calls to open and
\* close that have it in hand.
Keepers(i) ==
  Cardinality({f \in Open : fd[f].priv = i})
    + Cardinality({p \in Callers("binding") \cup Callers("closing") : local[p].priv = i})

\* Every priv is closed at most once, whichever threads race to close its
\* descriptor, and afterwards no descriptor has it, unless installs met.
ClosedOnce == ~raced => \A i \in Privs : closes[i] + Keepers(i) <= 1

\* No priv that a driver handed out is lost: it is closed, or there is a
\* descriptor or a call that will lead to its close.  (With as many descriptors
\* as opens: without a free one DEVIO_open does lose it; and unless installs met.)
NothingLost == ~raced => \A i \in 1 .. Len(opened) : closes[i] + Keepers(i) >= 1

\* A callback is only given a priv that the open of the same driver returned.
OwnCallback ==
  \A p \in Callers("closing") \cup Callers("calling") :
    opened[local[p].priv].driver = local[p].foo

\* A driver's open is only given devices that were made for it.
OwnDevice ==
  \A i \in 1 .. Len(opened) :
    opened[i].device \in {v \in Devices : Driver[v] = opened[i].driver}

\* No driver sees what is another's: neither its devices nor its privs, though slots of the
\* tables are given to one driver after the other, unless installs met.
OwnDriver == ~raced => OwnCallback /\ OwnDevice

\* The table has a device as often as it was added and not deleted, unless installs met.
DevicesPresent ==
  ~raced => \A v \in Devices :
    Cardinality({e \in Entries : device[e].in_use /\ device[e].device = v}) = present[v]

\* DEVIO_driver_remove without force leaves a driver alone "if the driver is used".
UsedDriverStays ==
  [][\A f \in Open : driver[device[fd[f].device_number].driver_number] =
                     driver'[device[fd[f].device_number].driver_number]]_vars

\* A device that was deleted is not opened any more.
DeletedStaysClosed ==
  [][\A p \in Procs : pc[p] = "idle" /\ pc'[p] = "opening" =>
       LET entry == device[local'[p].entry] IN entry.in_use \/ entry.device = None]_vars

\* InstalledStays without its exception.
SlotStays == \A d \in Drivers : number[d] # -1 => driver[number[d]] = d
=============================================================================
