----------------------------- MODULE PortThread -----------------------------
(***************************************************************************)
(* The threads of the ports: IFXOS_ThreadInit, the thread's own startup       *)
(* routine, IFXOS_ThreadDelete and IFXOS_ThreadShutdown of the Linux kernel,  *)
(* eCos, VxWorks, Windows, Nucleus, RTEMS, XAPI and the generic port.         *)
(*                                                                         *)
(* A behaviour belongs to one port.  One controlling thread uses one control  *)
(* struct again and again; Init number i creates thread number i, if any.     *)
(* What Init takes, and nobody else gives back, is a set of resources         *)
(* <<kind, i>>: the stack, the object of the system table, and the handle or  *)
(* task of the operating system.  Steps of Init and of the end of a call that *)
(* only the caller sees are one step; every step that a thread and its caller *)
(* may see of each other is a step of its own.                                *)
(*                                                                         *)
(* The call of the operating system that ends a thread either ends it at once *)
(* or fails and leaves it as it is; the code provides for both.               *)
(***************************************************************************)
EXTENDS Naturals, FiniteSets

CONSTANTS
  Ports,       \* the ports looked at
  MaxThreads,  \* bound of the check: calls of IFXOS_ThreadInit
  Waits,       \* finite waitTime_ms, in units of IFXOS_THREAD_DOWN_WAIT_POLL_MS
  Forever      \* IFXOS_THREAD_DELETE_WAIT_FOREVER

AllPorts ==
  {"linux_drv", "ecos", "vxworks", "win32", "nucleus", "rtems", "xapi", "generic"}

ASSUME PortThreadAssumption ==
  /\ Ports \subseteq AllPorts
  /\ MaxThreads \in Nat
  /\ Waits \subseteq Nat /\ Forever \notin Nat

VARIABLES
  port,
  bValid, bRunning, bShutDown,
  done,           \* whether the struct's completion was given (linux_drv)
  stack_pointer,  \* the Init whose stack the struct points to, 0 for IFX_NULL
  tid,            \* the number of the last Init
  thr,            \* what each thread does
  held,           \* the resources taken and not given back
  misfreed,       \* whether a resource was given back that was not held
  odd,            \* what has happened that a careful caller and system avoid
  caller, call, waitCnt, result

flags == <<bValid, bRunning, bShutDown>>
taken == <<stack_pointer, held, misfreed>>
control == <<caller, call, waitCnt, result>>
vars == <<port, done, flags, taken, tid, thr, odd, control>>

Ids == 1 .. MaxThreads

ThreadStates == {"none", "created", "running", "leaving", "stopped", "ended"}

Alive == {i \in Ids : thr[i] \notin {"none", "ended"}}

\* The threads that may still use the control struct.  A thread that has cleared its
\* flag does not, but for that of the kernel, which goes on to the struct's completion.
Using == {i \in Alive : thr[i] # "stopped" \/ port = "linux_drv"}

Becomes(i, state) == thr' = [thr EXCEPT ![i] = state]

Return(code) == caller' = "idle" /\ result' = code

GiveBack(S) ==
  /\ held' = held \ S
  /\ misfreed' = (misfreed \/ ~(S \subseteq held))

Stack == IF stack_pointer = 0 THEN {} ELSE {<<"stack", stack_pointer>>}
Object == {<<"object", tid>>}
Handle == {<<"handle", tid>>}

Init ==
  /\ port \in Ports
  /\ bValid = FALSE /\ bRunning = FALSE /\ bShutDown = FALSE /\ done = FALSE
  /\ stack_pointer = 0 /\ held = {} /\ misfreed = FALSE
  /\ tid = 0 /\ thr = [i \in Ids |-> "none"] /\ odd = {}
  /\ caller = "idle" /\ call = "none" /\ waitCnt = 0 /\ result = "none"

-----------------------------------------------------------------------------
(* IFXOS_ThreadInit.                                                       *)

Initialises(p) ==
  /\ port = p /\ caller = "idle" /\ ~bValid /\ tid < MaxThreads
  /\ call' = "init"
  /\ bShutDown' = FALSE /\ done' = FALSE
  /\ tid' = tid + 1
  /\ odd' = IF Using = {} THEN odd ELSE odd \cup {"reused"}
  /\ UNCHANGED <<port, waitCnt>>

\* The thread is created and holds the resources of the kinds K.
Creates(K) ==
  /\ Becomes(tid + 1, "created")
  /\ held' = held \cup {<<k, tid + 1>> : k \in K}
  /\ bValid' = TRUE
  /\ Return("success")
  /\ UNCHANGED misfreed

\* No thread is created, and the resources of the kinds K stay behind.
CreatesNot(K) ==
  /\ held' = held \cup {<<k, tid + 1>> : k \in K}
  /\ Return("failed")
  /\ UNCHANGED <<thr, bValid, misfreed>>

\* The struct is in use already.
Refused(p) ==
  /\ port = p /\ caller = "idle" /\ bValid
  /\ odd' = odd \cup {"twice"}
  /\ call' = "init" /\ Return("failed")
  /\ UNCHANGED <<port, done, flags, tid, thr, waitCnt>>

LinuxDrvInit ==
  \/ /\ Initialises("linux_drv") /\ UNCHANGED <<bRunning, stack_pointer>>
     /\ \/ Creates({})
        \/ bValid' = TRUE /\ Return("success") /\ UNCHANGED <<thr, held, misfreed>>
  \/ Refused("linux_drv") /\ UNCHANGED taken

\* Mutant: the pointer to a stack that was given back is kept.
EcosInitMut_KeepsPointer ==
  \/ /\ Initialises("ecos") /\ UNCHANGED bRunning
     /\ \/ Creates({"object", "stack"}) /\ stack_pointer' = tid + 1
        \/ CreatesNot({"object"}) /\ stack_pointer' = 0
  \/ Refused("ecos") /\ GiveBack(Stack) /\ UNCHANGED stack_pointer

EcosInit ==
  \/ /\ Initialises("ecos") /\ UNCHANGED bRunning
     /\ \/ Creates({"object", "stack"}) /\ stack_pointer' = tid + 1
        \/ CreatesNot({"object"}) /\ stack_pointer' = 0
  \/ Refused("ecos") /\ GiveBack(Stack) /\ stack_pointer' = 0

VxworksInit ==
  \/ /\ Initialises("vxworks") /\ UNCHANGED <<bRunning, stack_pointer>>
     /\ Creates({"object"}) \/ CreatesNot({"object"})
  \/ Refused("vxworks") /\ UNCHANGED taken

Win32Init ==
  \/ /\ Initialises("win32") /\ bRunning' = FALSE /\ UNCHANGED stack_pointer
     /\ Creates({"object", "handle"}) \/ CreatesNot({"object"})
  \/ Refused("win32") /\ UNCHANGED taken

\* The stack is given back when no task can be created, but stays in the struct.
NucleusInit ==
  \/ /\ Initialises("nucleus") /\ UNCHANGED bRunning
     /\ \/ Creates({"object", "stack", "handle"}) /\ stack_pointer' = tid + 1
        \/ CreatesNot({}) /\ stack_pointer' \in {0, tid + 1}
  \/ Refused("nucleus") /\ GiveBack(Stack) /\ UNCHANGED stack_pointer

RtemsInit ==
  \/ /\ Initialises("rtems") /\ UNCHANGED <<bRunning, stack_pointer>>
     /\ Creates({"handle"}) \/ CreatesNot({}) \/ CreatesNot({"handle"})
  \/ Refused("rtems") /\ UNCHANGED taken

XapiInit ==
  \/ /\ Initialises("xapi") /\ UNCHANGED <<bRunning, stack_pointer>>
     /\ Creates({"handle"}) \/ CreatesNot({}) \/ CreatesNot({"handle"})
  \/ Refused("xapi") /\ UNCHANGED taken

\* The generic port has no call that creates a thread, and always fails.
GenericInit ==
  /\ Initialises("generic") /\ UNCHANGED <<bRunning, stack_pointer>>
  /\ CreatesNot({"object"})

-----------------------------------------------------------------------------
(* The thread: its startup routine and the user's function in it.           *)

Starts(p, i) ==
  /\ port = p /\ thr[i] = "created"
  /\ bRunning' = TRUE /\ Becomes(i, "running")
  /\ UNCHANGED <<port, done, bValid, bShutDown, taken, tid, odd, control>>

\* The user's function returns, of its own accord or told by bShutDown.
Finishes(p, i) ==
  /\ port = p /\ thr[i] = "running"
  /\ Becomes(i, "leaving")
  /\ UNCHANGED <<port, done, flags, taken, tid, odd, control>>

Stops(p, i) ==
  /\ port = p /\ thr[i] = "leaving"
  /\ bRunning' = FALSE /\ Becomes(i, "stopped")
  /\ UNCHANGED <<port, done, bValid, bShutDown, taken, tid, odd, control>>

\* The startup routine returns, or leaves by the exit of the operating system, on Linux
\* by complete_and_exit.
Exits(p, i) ==
  /\ port = p /\ thr[i] = "stopped"
  /\ Becomes(i, "ended")
  /\ done' = (done \/ p = "linux_drv")
  /\ UNCHANGED <<port, flags, taken, tid, odd, control>>

LinuxDrvStartup(i) ==
  Starts("linux_drv", i) \/ Stops("linux_drv", i) \/ Exits("linux_drv", i)
EcosStartup(i) == Starts("ecos", i) \/ Stops("ecos", i) \/ Exits("ecos", i)
VxworksStartup(i) == Starts("vxworks", i) \/ Stops("vxworks", i) \/ Exits("vxworks", i)
Win32Startup(i) == Starts("win32", i) \/ Stops("win32", i) \/ Exits("win32", i)
NucleusStartup(i) == Starts("nucleus", i) \/ Stops("nucleus", i) \/ Exits("nucleus", i)
XapiStartup(i) == Starts("xapi", i) \/ Stops("xapi", i) \/ Exits("xapi", i)

\* The RTEMS port has the task run the user's function itself, not its startup
\* routine, so that nothing sets bRunning.
RtemsStart(i) ==
  /\ port = "rtems" /\ thr[i] = "created"
  /\ Becomes(i, "running")
  /\ UNCHANGED <<port, done, flags, taken, tid, odd, control>>

RtemsReturn(i) ==
  /\ port = "rtems" /\ thr[i] = "running"
  /\ Becomes(i, "ended")
  /\ UNCHANGED <<port, done, flags, taken, tid, odd, control>>

UserFunction(i) ==
  \/ RtemsReturn(i)
  \/ \E p \in AllPorts \ {"rtems"} : Finishes(p, i)

-----------------------------------------------------------------------------
(* IFXOS_ThreadDelete and IFXOS_ThreadShutdown: the caller raises bShutDown,  *)
(* polls bRunning and then looks at it once more.                           *)

Begin(p, c, w) ==
  /\ port = p /\ caller = "idle" /\ bValid
  /\ call' = c
  /\ odd' = IF thr[tid] = "created" THEN odd \cup {"early"} ELSE odd
  /\ IF bRunning THEN bShutDown' = TRUE /\ waitCnt' = w /\ caller' = "polling"
                 ELSE caller' = "deciding" /\ UNCHANGED <<bShutDown, waitCnt>>
  /\ UNCHANGED <<port, done, bValid, bRunning, taken, tid, thr, result>>

\* Mutant: the polls are not counted.
SleepMut_Endless(p, c) ==
  /\ port = p /\ caller = "polling" /\ call = c /\ waitCnt # 0 /\ bRunning
  /\ UNCHANGED vars

Sleep(p, c) ==
  /\ port = p /\ caller = "polling" /\ call = c /\ waitCnt # 0 /\ bRunning
  /\ waitCnt' = IF waitCnt = Forever THEN Forever ELSE waitCnt - 1
  /\ UNCHANGED <<port, done, flags, taken, tid, thr, odd, caller, call, result>>

\* The loop is left, to the place next.
LeaveLoop(p, c, next) ==
  /\ port = p /\ caller = "polling" /\ call = c /\ (waitCnt = 0 \/ ~bRunning)
  /\ caller' = next
  /\ UNCHANGED <<port, done, flags, taken, tid, thr, odd, call, waitCnt, result>>

Asks(p, c, w) == Begin(p, c, w) \/ Sleep(p, c) \/ LeaveLoop(p, c, "deciding")

Decides(p, c) ==
  /\ port = p /\ caller = "deciding" /\ call = c
  /\ UNCHANGED <<port, done, bShutDown, tid, call, waitCnt>>

Invalidates(code) == bValid' = FALSE /\ Return(code)

\* The struct was not in use.
NotValid(p, c) ==
  /\ port = p /\ caller = "idle" /\ ~bValid
  /\ call' = c /\ Return("invalid")
  /\ UNCHANGED <<port, done, flags, taken, tid, thr, odd, waitCnt>>

\* The operating system ends the thread of the struct, or cannot.
Killed ==
  /\ thr' = IF tid \in Alive THEN [thr EXCEPT ![tid] = "ended"] ELSE thr
  /\ bRunning' = FALSE
  /\ UNCHANGED odd

NotKilled ==
  /\ odd' = odd \cup {"killFailed"}
  /\ UNCHANGED thr

Unharmed == UNCHANGED <<thr, odd, bRunning>>

\* Mutant: the completion is not waited for.
CompletesMut_NotAwaited(c) ==
  /\ port = "linux_drv" /\ caller = "completing" /\ call = c
  /\ caller' = "deciding"
  /\ UNCHANGED <<port, done, flags, taken, tid, thr, odd, call, waitCnt, result>>

\* wait_for_completion: a thread has left by complete_and_exit.  There is one wait for
\* every init_completion at most, so that it need not be counted.
Completes(c) ==
  /\ port = "linux_drv" /\ caller = "completing" /\ call = c /\ done
  /\ caller' = "deciding" /\ done' = FALSE
  /\ UNCHANGED <<port, flags, taken, tid, thr, odd, call, waitCnt, result>>

\* However long the caller wanted to wait, it waits for the thread to end.
LinuxDrvDelete(w) ==
  \/ Begin("linux_drv", "delete", w) \/ Sleep("linux_drv", "delete")
  \/ LeaveLoop("linux_drv", "delete", "completing") \/ Completes("delete")
  \/ /\ Decides("linux_drv", "delete") /\ Unharmed /\ UNCHANGED taken
     /\ Invalidates(IF bRunning THEN "error" ELSE "success")
  \/ NotValid("linux_drv", "delete")

LinuxDrvShutdown(w) ==
  \/ Begin("linux_drv", "shutdown", w) \/ Sleep("linux_drv", "shutdown")
  \/ LeaveLoop("linux_drv", "shutdown", IF bRunning THEN "deciding" ELSE "completing")
  \/ Completes("shutdown")
  \/ /\ Decides("linux_drv", "shutdown") /\ Unharmed /\ UNCHANGED taken
     /\ Invalidates("success")
  \/ NotValid("linux_drv", "shutdown")

\* Mutant: the stack is freed although the thread could not be deleted.
EcosRemovesMut_FreeAnyway ==
  \/ /\ Killed /\ GiveBack(Object \cup Stack) /\ stack_pointer' = 0
     /\ Invalidates("success")
  \/ /\ NotKilled /\ GiveBack(Object \cup Stack) /\ stack_pointer' = 0 /\ UNCHANGED bRunning
     /\ Invalidates("error")

\* Mutant: the pointer to the stack is forgotten before the stack is freed.
EcosRemovesMut_Forgets ==
  \/ /\ Killed /\ GiveBack(Object) /\ stack_pointer' = 0
     /\ Invalidates("success")
  \/ /\ NotKilled /\ GiveBack(Object) /\ stack_pointer' = 0 /\ UNCHANGED bRunning
     /\ Invalidates("error")

\* A thread that is not running is still registered, and is deleted as well.
EcosRemoves ==
  \/ /\ Killed /\ GiveBack(Object \cup Stack) /\ stack_pointer' = 0
     /\ Invalidates("success")
  \/ /\ NotKilled /\ GiveBack(Object) /\ stack_pointer' = 0 /\ UNCHANGED bRunning
     /\ Invalidates("error")

EcosDelete(w) ==
  \/ Asks("ecos", "delete", w)
  \/ Decides("ecos", "delete") /\ EcosRemoves
  \/ NotValid("ecos", "delete")

EcosShutdown(w) ==
  \/ Asks("ecos", "shutdown", w)
  \/ /\ Decides("ecos", "shutdown")
     /\ IF bRunning THEN Unharmed /\ Return("error") /\ UNCHANGED <<bValid, taken>>
                    ELSE EcosRemoves
  \/ NotValid("ecos", "shutdown")

VxworksDelete(w) ==
  \/ Asks("vxworks", "delete", w)
  \/ /\ Decides("vxworks", "delete") /\ GiveBack(Object) /\ UNCHANGED stack_pointer
     /\ \/ ~bRunning /\ Unharmed /\ Invalidates("success")
        \/ bRunning /\ Killed /\ Invalidates("success")
        \/ bRunning /\ NotKilled /\ UNCHANGED bRunning /\ Invalidates("error")
  \/ NotValid("vxworks", "delete")

VxworksShutdown(w) ==
  \/ Asks("vxworks", "shutdown", w)
  \/ /\ Decides("vxworks", "shutdown") /\ Unharmed
     /\ IF bRunning THEN Invalidates("error") /\ UNCHANGED taken
                    ELSE Invalidates("success") /\ GiveBack(Object) /\ UNCHANGED stack_pointer
  \/ NotValid("vxworks", "shutdown")

\* CloseHandle gives the handle back and leaves the thread to itself.
Win32Delete(w) ==
  \/ Asks("win32", "delete", w)
  \/ /\ Decides("win32", "delete") /\ UNCHANGED <<stack_pointer, thr>>
     /\ \/ /\ ~bRunning /\ GiveBack(Object) /\ UNCHANGED <<odd, bRunning>>
           /\ Invalidates("success")
        \/ /\ bRunning /\ GiveBack(Object \cup Handle) /\ UNCHANGED odd /\ bRunning' = FALSE
           /\ Invalidates("success")
        \/ /\ bRunning /\ GiveBack(Object) /\ odd' = odd \cup {"killFailed"}
           /\ UNCHANGED bRunning /\ Invalidates("error")
  \/ NotValid("win32", "delete")

Win32Shutdown(w) ==
  \/ Asks("win32", "shutdown", w)
  \/ /\ Decides("win32", "shutdown") /\ Unharmed
     /\ GiveBack(Object) /\ UNCHANGED stack_pointer
     /\ Invalidates(IF bRunning THEN "error" ELSE "success")
  \/ NotValid("win32", "shutdown")

\* The stack is given back in every case, and stays in the struct.
NucleusDelete(w) ==
  \/ Asks("nucleus", "delete", w)
  \/ /\ Decides("nucleus", "delete") /\ UNCHANGED stack_pointer
     /\ \/ ~bRunning /\ Unharmed /\ GiveBack(Object \cup Stack) /\ Invalidates("success")
        \/ /\ bRunning /\ Killed /\ GiveBack(Object \cup Stack \cup Handle)
           /\ Invalidates("success")
        \/ /\ bRunning /\ NotKilled /\ GiveBack(Object \cup Stack)
           /\ UNCHANGED bRunning /\ Invalidates("error")
  \/ NotValid("nucleus", "delete")

NucleusShutdown(w) ==
  \/ Asks("nucleus", "shutdown", w)
  \/ /\ Decides("nucleus", "shutdown") /\ Unharmed
     /\ GiveBack(Object) /\ UNCHANGED stack_pointer
     /\ Invalidates(IF bRunning THEN "error" ELSE "success")
  \/ NotValid("nucleus", "shutdown")

\* bRunning is set before it is looked at: the task is always deleted.
RtemsDelete(w) ==
  \/ Asks("rtems", "delete", w)
  \/ /\ Decides("rtems", "delete") /\ UNCHANGED stack_pointer
     /\ \/ Killed /\ GiveBack(Handle) /\ Invalidates("success")
        \/ NotKilled /\ GiveBack({}) /\ bRunning' = TRUE /\ Invalidates("error")
  \/ NotValid("rtems", "delete")

RtemsShutdown(w) ==
  \/ Asks("rtems", "shutdown", w)
  \/ /\ Decides("rtems", "shutdown") /\ Unharmed /\ UNCHANGED taken
     /\ Invalidates(IF bRunning THEN "error" ELSE "success")
  \/ NotValid("rtems", "shutdown")

XapiDelete(w) ==
  \/ Asks("xapi", "delete", w)
  \/ /\ Decides("xapi", "delete") /\ UNCHANGED stack_pointer
     /\ \/ ~bRunning /\ Unharmed /\ GiveBack({}) /\ Invalidates("success")
        \/ bRunning /\ Killed /\ GiveBack(Handle) /\ Invalidates("success")
        \/ /\ bRunning /\ NotKilled /\ GiveBack({})
           /\ UNCHANGED bRunning /\ Invalidates("error")
  \/ NotValid("xapi", "delete")

XapiShutdown(w) ==
  \/ Asks("xapi", "shutdown", w)
  \/ /\ Decides("xapi", "shutdown") /\ Unharmed /\ UNCHANGED taken
     /\ Invalidates(IF bRunning THEN "error" ELSE "success")
  \/ NotValid("xapi", "shutdown")

\* No Init of the generic port ever succeeds.
GenericDelete == NotValid("generic", "delete")
GenericShutdown == NotValid("generic", "shutdown")

-----------------------------------------------------------------------------
ThreadInit ==
  \/ LinuxDrvInit \/ EcosInit \/ VxworksInit \/ Win32Init
  \/ NucleusInit \/ RtemsInit \/ XapiInit \/ GenericInit

ThreadStartup(i) ==
  \/ LinuxDrvStartup(i) \/ EcosStartup(i) \/ VxworksStartup(i) \/ Win32Startup(i)
  \/ NucleusStartup(i) \/ XapiStartup(i) \/ RtemsStart(i)

ThreadDelete(w) ==
  \/ LinuxDrvDelete(w) \/ EcosDelete(w) \/ VxworksDelete(w) \/ Win32Delete(w)
  \/ NucleusDelete(w) \/ RtemsDelete(w) \/ XapiDelete(w) \/ GenericDelete

ThreadShutdown(w) ==
  \/ LinuxDrvShutdown(w) \/ EcosShutdown(w) \/ VxworksShutdown(w) \/ Win32Shutdown(w)
  \/ NucleusShutdown(w) \/ RtemsShutdown(w) \/ XapiShutdown(w) \/ GenericShutdown

Next ==
  \/ ThreadInit
  \/ \E i \in Ids : ThreadStartup(i) \/ UserFunction(i)
  \/ \E w \in Waits \cup {Forever} : ThreadDelete(w) \/ ThreadShutdown(w)

\* The steps of a call that has begun.
Proceed ==
  caller # "idle" /\ \E w \in Waits \cup {Forever} : ThreadDelete(w) \/ ThreadShutdown(w)

\* The scheduler runs the caller in its call, and every thread up to and after the
\* user's function; nothing is assumed of that function.
Fairness == WF_vars(Proceed) /\ \A i \in Ids : WF_vars(ThreadStartup(i))

Spec == Init /\ [][Next]_vars /\ Fairness

-----------------------------------------------------------------------------
\* Every variable has its type.
TypeOK ==
  /\ port \in Ports
  /\ bValid \in BOOLEAN /\ bRunning \in BOOLEAN /\ bShutDown \in BOOLEAN
  /\ done \in BOOLEAN
  /\ stack_pointer \in 0 .. MaxThreads /\ tid \in 0 .. MaxThreads
  /\ held \subseteq {"stack", "object", "handle"} \X Ids /\ misfreed \in BOOLEAN
  /\ thr \in [Ids -> ThreadStates]
  /\ odd \subseteq {"twice", "early", "reused", "killFailed"}
  /\ caller \in {"idle", "polling", "completing", "deciding"}
  /\ call \in {"none", "init", "delete", "shutdown"}
  /\ waitCnt \in Waits \cup {Forever} \cup Nat
  /\ result \in {"none", "success", "failed", "error", "invalid"}

Reported(code) == caller = "idle" /\ call \in {"delete", "shutdown"} /\ result = code

\* The calls that do not look after the thread they were made for: CloseHandle does
\* not end it, the kernel's shutdown does not report that it runs, and on RTEMS
\* shutdown looks at a flag that nobody sets.
Careless == {<<"win32", "delete">>, <<"linux_drv", "shutdown">>, <<"rtems", "shutdown">>}

\* The delete of the kernel that found bRunning cleared, so that it told nobody to shut
\* down, does not wait for the completion that the thread is about to give.
NotAwaited == port = "linux_drv" /\ ~bShutDown /\ thr[tid] = "stopped"

\* After a call that reports success, the thread of the struct uses the struct no
\* more, but for the last thing that a kernel thread NotAwaited does with it.  It may
\* when the call came before the thread had run at all, or when an older thread still
\* used the struct: but not on eCos, which deletes the threads that it does not see
\* running.
DownIsDown ==
  Reported("success") /\ <<port, call>> \notin Careless =>
    IF port = "ecos" THEN tid \notin Alive
    ELSE odd \cap {"early", "reused"} = {} => tid \notin Using \/ NotAwaited

\* No thread of eCos runs on a stack that was given back, unless the struct was
\* initialised a second time while in use.
OnItsStack ==
  port = "ecos" /\ "twice" \notin odd => \A i \in Alive : <<"stack", i>> \in held

\* Nothing is given back twice, with the exception of a Nucleus struct that was
\* initialised again while in use.
FreedOnce == misfreed => port = "nucleus" /\ "twice" \in odd

\* What a port may leave behind when the struct is free and all threads have ended.
LeftBehind(p) ==
  CASE p = "linux_drv" -> {}
    [] p = "ecos" -> {"object"} \cup (IF "killFailed" \in odd THEN {"stack"} ELSE {})
    [] p \in {"vxworks", "generic"} -> {"object"}
    [] p = "win32" -> {"object", "handle"}
    [] p = "nucleus" -> {"stack", "handle"}
    [] p \in {"rtems", "xapi"} -> {"handle"}

\* A port leaves nothing else behind: what every call and every failure of it owes
\* is given back in the end.
GivenBack ==
  caller = "idle" /\ ~bValid /\ Alive = {}
    => \A r \in held : r[1] \in LeftBehind(port)

\* What a thread runs on is there while it runs, and given back once (IFXOS_ThreadInit,
\* Delete and Shutdown), and nothing else stays behind.
StacksKept == OnItsStack /\ FreedOnce /\ GivenBack

\* Every call returns: within its time whatever the thread does, and when it waits
\* forever, once the user's function has returned.  The kernel's delete always waits
\* for the function.
CallReturns ==
  (/\ caller # "idle" /\ odd \cap {"early", "reused"} = {}
   /\ \/ waitCnt # Forever /\ <<port, call>> # <<"linux_drv", "delete">>
      \/ thr[tid] = "leaving")
     ~> caller = "idle"

\* The time given to delete is the time it takes at most.
DeleteReturns ==
  (caller # "idle" /\ waitCnt # Forever /\ odd = {}) ~> caller = "idle"

\* A kernel thread whose delete or shutdown has reported success does not use the struct.
StructIsFree ==
  port = "linux_drv" /\ Reported("success") /\ odd = {} => tid \notin Using
=============================================================================
