---------------------------- MODULE SelectQueue ----------------------------
(***************************************************************************)
(* The queue of a driver's select (IFXOS_DrvSelectQueueInit, WakeUp, AddTask), *)
(* on the ports that have one.  In the Linux kernel and on VxWorks the system  *)
(* calls the driver's poll for the task, and that adds it and looks whether    *)
(* the device is ready; on RTEMS the task waits for messages (IFXOS_Select).   *)
(***************************************************************************)
EXTENDS Naturals, FiniteSets

CONSTANTS
  Ports,
  Tasks,
  MaxMsgs     \* the messages the queue has room for on RTEMS (10L)

\* What is assumed of the constants.
SelectQueueAssumption ==
  Ports \subseteq {"linux_drv", "vxworks", "rtems"} /\ MaxMsgs \in Nat \ {0}

Kinds == {"rd", "wr"}

VARIABLES
  port,
  task,     \* where each task is in its select
  wants,    \* whether it selects for reading or for writing
  told,     \* what its last select has returned
  queue,    \* the tasks in the queue
  woken,    \* those of them that have been woken up since they were added or looked
  msgs,     \* the messages in the queue on RTEMS
  ready,    \* what the device is ready for
  driver    \* the wakeup that the driver is about to do, or "idle"

vars == <<port, task, wants, told, queue, woken, msgs, ready, driver>>
device == <<port, msgs, ready, driver>>

TypeOK ==
  /\ port \in Ports
  /\ task \in [Tasks -> {"idle", "called", "added", "waiting"}]
  /\ wants \in [Tasks -> Kinds]
  /\ told \in [Tasks -> {"none", "ready", "timeout", "error"}]
  /\ queue \subseteq Tasks /\ woken \subseteq queue
  /\ msgs \in 0 .. MaxMsgs
  /\ ready \subseteq Kinds /\ driver \in Kinds \cup {"idle"}

Init ==
  /\ port \in Ports
  /\ task = [t \in Tasks |-> "idle"] /\ wants = [t \in Tasks |-> "rd"]
  /\ told = [t \in Tasks |-> "none"]
  /\ queue = {} /\ woken = {} /\ msgs = 0 /\ ready = {} /\ driver = "idle"

Goes(t, s) == task' = [task EXCEPT ![t] = s]
Leaves(t) == queue' = queue \ {t} /\ woken' = woken \ {t}

\* The select of a task returns; it is in no queue any more.
Returns(t, result) ==
  /\ Goes(t, "idle") /\ told' = [told EXCEPT ![t] = result]
  /\ Leaves(t)

-----------------------------------------------------------------------------
(* The driver.                                                              *)

\* The device gets ready, or more so, and the driver says it.
Event(k) ==
  /\ driver = "idle"
  /\ ready' = ready \cup {k} /\ driver' = k
  /\ UNCHANGED <<port, task, wants, told, queue, woken, msgs>>

\* Everybody in the queue, whatever drvSelType is.
LinuxWakeUp ==
  /\ port = "linux_drv"
  /\ woken' = queue /\ UNCHANGED msgs

\* Everybody in the queue with a node of this type.
VxworksWakeUp ==
  /\ port = "vxworks"
  /\ woken' = woken \cup {t \in queue : wants[t] = driver} /\ UNCHANGED msgs

\* Mutant: the address of the id is taken for the id.
RtemsWakeUpMut_Address ==
  port = "rtems" /\ UNCHANGED <<msgs, woken>>

\* One message, or none when the queue is full; the result of xq_send is not looked at.
RtemsWakeUp ==
  /\ port = "rtems"
  /\ msgs' = (IF msgs < MaxMsgs THEN msgs + 1 ELSE msgs) /\ UNCHANGED woken

DrvSelectQueueWakeUp ==
  /\ driver # "idle"
  /\ LinuxWakeUp \/ VxworksWakeUp \/ RtemsWakeUp
  /\ driver' = "idle"
  /\ UNCHANGED <<port, task, wants, told, queue, ready>>

-----------------------------------------------------------------------------
(* The tasks.                                                               *)

Select(t, k) ==
  /\ task[t] = "idle" /\ Goes(t, "called")
  /\ wants' = [wants EXCEPT ![t] = k] /\ told' = [told EXCEPT ![t] = "none"]
  /\ UNCHANGED <<queue, woken, device>>

\* Mutant: the task is not in the queue.
LinuxAddTaskMut_Not(t) ==
  /\ port = "linux_drv" /\ Goes(t, "added") /\ UNCHANGED <<told, queue, woken>>

LinuxAddTask(t) ==
  /\ port = "linux_drv" /\ Goes(t, "added")
  /\ queue' = queue \cup {t} /\ UNCHANGED <<told, woken>>

\* Mutant: an error of selNodeAdd is not reported.
VxworksAddTaskMut_Error(t) ==
  /\ port = "vxworks" /\ Goes(t, "added")
  /\ queue' \in {queue, queue \cup {t}} /\ UNCHANGED <<told, woken>>

\* selNodeAdd may have no memory.
VxworksAddTask(t) ==
  /\ port = "vxworks"
  /\ \/ Goes(t, "added") /\ queue' = queue \cup {t} /\ UNCHANGED <<told, woken>>
     \/ Returns(t, "error")

DrvSelectQueueAddTask(t) ==
  /\ task[t] = "called"
  /\ LinuxAddTask(t) \/ VxworksAddTask(t)
  /\ UNCHANGED <<wants, device>>

\* What the driver's poll and the system's select do next.
Look(t) ==
  /\ task[t] = "added"
  /\ \/ wants[t] \in ready /\ Returns(t, "ready")
     \/ wants[t] \notin ready /\ Goes(t, "waiting") /\ UNCHANGED <<told, queue, woken>>
  /\ UNCHANGED <<wants, device>>

\* The Linux kernel looks again, VxWorks returns.
Resume(t) ==
  /\ task[t] = "waiting" /\ t \in woken
  /\ \/ port = "linux_drv" /\ Goes(t, "added")
        /\ woken' = woken \ {t} /\ UNCHANGED <<told, queue>>
     \/ port = "vxworks" /\ Returns(t, "ready")
  /\ UNCHANGED <<wants, device>>

Timeout(t) ==
  /\ port # "rtems" /\ task[t] = "waiting" /\ t \notin woken /\ Returns(t, "timeout")
  /\ UNCHANGED <<wants, device>>

\* IFXOS_Select of RTEMS: xq_receive takes a message, waits for one, or has an error when
\* there is none and it does not wait, or no longer.
RtemsSelect(t) ==
  /\ port = "rtems" /\ task[t] \in {"called", "waiting"}
  /\ \/ msgs > 0 /\ msgs' = msgs - 1 /\ Returns(t, "ready")
     \/ msgs = 0 /\ Returns(t, "error") /\ UNCHANGED msgs
     \/ msgs = 0 /\ task[t] = "called" /\ Goes(t, "waiting")
        /\ UNCHANGED <<told, queue, woken, msgs>>
  /\ UNCHANGED <<port, wants, ready, driver>>

\* A task that was told so reads or writes.
Use(t) ==
  /\ task[t] = "idle" /\ told[t] = "ready"
  /\ ready' = ready \ {wants[t]} /\ told' = [told EXCEPT ![t] = "none"]
  /\ UNCHANGED <<port, task, wants, queue, woken, msgs, driver>>

GoesOn(t) == DrvSelectQueueAddTask(t) \/ Look(t) \/ Resume(t)

Next ==
  \/ \E k \in Kinds : Event(k)
  \/ DrvSelectQueueWakeUp
  \/ \E t \in Tasks :
       \/ \E k \in Kinds : Select(t, k)
       \/ GoesOn(t) \/ Timeout(t) \/ RtemsSelect(t) \/ Use(t)

\* The driver wakes up, tasks that can go on do, and messages are received; nobody need
\* have a timeout.
Spec ==
  /\ Init /\ [][Next]_vars /\ WF_vars(DrvSelectQueueWakeUp)
  /\ \A t \in Tasks :
       WF_vars(GoesOn(t)) /\ WF_vars(msgs > 0 /\ RtemsSelect(t))

-----------------------------------------------------------------------------
\* No wakeup is lost between looking and waiting (IFXOS_DrvSelectQueueAddTask comes before
\* the look at the device): a task that waits for what the device is ready for is woken up,
\* or the driver is about to do so.
NotMissed ==
  \A t \in Tasks :
    port # "rtems" /\ task[t] = "waiting" /\ wants[t] \in ready => t \in woken \/ driver = wants[t]

\* A task waits for what the driver is about to announce; "Wakeup from the Select Queue all
\* added task".
Announced(t) == task[t] = "waiting" /\ driver = wants[t]

\* All tasks wait when the driver is about to wake up.
AllWait == (\A t \in Tasks : task[t] = "waiting") /\ driver # "idle"
=============================================================================
