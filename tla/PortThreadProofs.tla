--------------------------- MODULE PortThreadProofs ---------------------------
(***************************************************************************)
(* That down is down on every port, for any number of threads and any waits,  *)
(* and what becomes of their stacks and of what is given back.  The first      *)
(* invariant is about the flags and the threads, the second about what is      *)
(* held; for the first, the calls of the ports come down to a few shapes.      *)
(***************************************************************************)
EXTENDS PortThread, TLAPS

Working == {"running", "leaving"}

\* The threads are numbered, and a call that ends one is made of a valid struct.
Numbered ==
  /\ \A i \in Ids : i > tid => thr[i] = "none"
  /\ bValid => tid \in Ids
  /\ caller # "idle" =>
       /\ bValid /\ call \in {"delete", "shutdown"}
       /\ "early" \notin odd => thr[tid] # "created"

\* Unless a struct was used again too early, its last thread is the only one that may
\* write the flags.
OneWriter == "reused" \notin odd => Using \subseteq {tid}

\* The flag is true of the thread of a valid struct, and never true of no thread.
Truth ==
  "reused" \notin odd /\ port # "rtems" =>
    /\ bRunning => tid \in Ids /\ thr[tid] \in Working
    /\ bValid /\ thr[tid] \in Working => bRunning

\* The kernel: no call has told the thread of an idle struct to shut down; a completion
\* that is there was given by the last thread; and a delete that told it to shut down has
\* seen it complete.
Completing ==
  port = "linux_drv" =>
    /\ bValid /\ caller = "idle" => ~bShutDown
    /\ "reused" \notin odd /\ done => tid \in Ids /\ thr[tid] = "ended"
    /\ "reused" \notin odd /\ caller = "deciding" /\ call = "delete" /\ bShutDown
         => thr[tid] = "ended"

\* The types of what the flags and the calls are about.
ControlOK ==
  /\ port \in AllPorts /\ done \in BOOLEAN
  /\ bValid \in BOOLEAN /\ bRunning \in BOOLEAN /\ bShutDown \in BOOLEAN
  /\ tid \in 0 .. MaxThreads /\ thr \in [Ids -> ThreadStates]
  /\ odd \subseteq {"twice", "early", "reused", "killFailed"}
  /\ caller \in {"idle", "polling", "completing", "deciding"}
  /\ call \in {"none", "init", "delete", "shutdown"}
  /\ waitCnt \in Waits \cup {Forever} \cup Nat
  /\ result \in {"none", "success", "failed", "error", "invalid"}

Control == ControlOK /\ Numbered /\ OneWriter /\ Truth /\ Completing /\ DownIsDown

\* The shapes of the steps, what is held left aside.
Creating ==
  /\ caller = "idle" /\ ~bValid /\ tid < MaxThreads
  /\ call' = "init" /\ caller' = "idle" /\ result' \in {"success", "failed"}
  /\ bShutDown' = FALSE /\ bRunning' \in {bRunning, FALSE} /\ bValid' \in {TRUE, FALSE}
  /\ done' = FALSE
  /\ tid' = tid + 1
  /\ odd' = (IF Using = {} THEN odd ELSE odd \cup {"reused"})
  /\ thr' = thr \/ thr' = [thr EXCEPT ![tid + 1] = "created"]
  /\ UNCHANGED <<port, waitCnt>>

\* A call that is refused, for a struct that is in use or one that is not.
Refusing ==
  /\ caller = "idle" /\ caller' = "idle"
  /\ \/ call' = "init" /\ result' = "failed" /\ odd' = odd \cup {"twice"}
     \/ call' \in {"delete", "shutdown"} /\ result' = "invalid" /\ odd' = odd
  /\ UNCHANGED <<port, done, flags, tid, thr, waitCnt>>

\* A thread goes on.
Running(i) ==
  /\ \/ thr[i] = "created" /\ bRunning' = (IF port = "rtems" THEN bRunning ELSE TRUE)
        /\ thr' = [thr EXCEPT ![i] = "running"]
     \/ thr[i] = "running" /\ bRunning' = bRunning
        /\ \/ thr' = [thr EXCEPT ![i] = "leaving"]
           \/ thr' = [thr EXCEPT ![i] = "ended"] /\ port = "rtems"
     \/ thr[i] = "leaving" /\ bRunning' = FALSE /\ thr' = [thr EXCEPT ![i] = "stopped"]
     \/ thr[i] = "stopped" /\ bRunning' = bRunning /\ thr' = [thr EXCEPT ![i] = "ended"]
  /\ done' = (done \/ (thr[i] = "stopped" /\ port = "linux_drv"))
  /\ UNCHANGED <<port, bValid, bShutDown, tid, odd, control>>

\* A call to end a thread begins and goes on.
Waiting ==
  /\ \/ /\ caller = "idle" /\ bValid /\ call' \in {"delete", "shutdown"}
        /\ odd' = (IF thr[tid] = "created" THEN odd \cup {"early"} ELSE odd)
     \/ caller # "idle" /\ call' = call /\ odd' = odd
  /\ caller' \in {"polling", "completing", "deciding"}
  /\ bShutDown' \in BOOLEAN /\ waitCnt' \in Waits \cup {Forever} \cup Nat
  /\ done' \in {done, FALSE}
  /\ port = "linux_drv" /\ caller' = "deciding" /\ call' = "delete" =>
       bShutDown' = bShutDown /\ (caller = "idle" \/ done)
  /\ UNCHANGED <<port, bValid, bRunning, tid, thr, result>>

\* A call to end a thread returns, and says success when it has ended it, when it saw
\* the flag down, or does not care.
Ending ==
  /\ caller = "deciding" /\ caller' = "idle" /\ result' \in {"success", "error"}
  /\ bValid' \in {bValid, FALSE}
  /\ \/ Killed
     \/ /\ thr' = thr /\ odd' \in {odd, odd \cup {"killFailed"}}
        /\ \/ /\ bRunning' = bRunning
              /\ result' = "success" =>
                   /\ port # "ecos"
                   /\ (~bRunning /\ port # "rtems") \/ <<port, call>> \in Careless
           \/ port = "win32" /\ call = "delete" /\ bRunning' = FALSE /\ bValid' = FALSE
           \/ port = "rtems" /\ bRunning' = TRUE /\ result' = "error"
  /\ port = "linux_drv" => ~bValid'
  /\ UNCHANGED <<port, done, bShutDown, tid, call, waitCnt>>

Shape == Creating \/ Refusing \/ (\E i \in Ids : Running(i)) \/ Waiting \/ Ending
-----------------------------------------------------------------------------
(* The calls of the ports have these shapes.                                *)

LEMMA InitShape ==
  ASSUME ControlOK, ThreadInit
  PROVE  Creating \/ Refusing
<1> USE DEF ControlOK, flags
<1>1. ASSUME NEW p, Initialises(p), NEW K, Creates(K), bRunning' \in {bRunning, FALSE}
      PROVE  Creating
  BY <1>1 DEF Initialises, Creates, Becomes, Return, Creating
<1>2. ASSUME NEW p, Initialises(p), NEW K, CreatesNot(K), bRunning' \in {bRunning, FALSE}
      PROVE  Creating
  BY <1>2 DEF Initialises, CreatesNot, Return, Creating
<1>3. ASSUME NEW p, Refused(p) PROVE Refusing
  BY <1>3 DEF Refused, Return, Refusing
<1>4. CASE LinuxDrvInit
  <2>1. ASSUME Initialises("linux_drv"), bRunning' = bRunning, bValid' = TRUE,
               Return("success"), UNCHANGED <<thr, held, misfreed>>
        PROVE  Creating
    BY <2>1 DEF Initialises, Return, Creating
  <2> QED BY <1>4, <1>1, <1>3, <2>1 DEF LinuxDrvInit
<1>5. CASE EcosInit BY <1>5, <1>1, <1>2, <1>3 DEF EcosInit
<1>6. CASE VxworksInit BY <1>6, <1>1, <1>2, <1>3 DEF VxworksInit
<1>7. CASE Win32Init BY <1>7, <1>1, <1>2, <1>3 DEF Win32Init
<1>8. CASE NucleusInit BY <1>8, <1>1, <1>2, <1>3 DEF NucleusInit
<1>9. CASE RtemsInit BY <1>9, <1>1, <1>2, <1>3 DEF RtemsInit
<1>10. CASE XapiInit BY <1>10, <1>1, <1>2, <1>3 DEF XapiInit
<1>11. CASE GenericInit BY <1>11, <1>2 DEF GenericInit
<1> QED
  BY <1>4, <1>5, <1>6, <1>7, <1>8, <1>9, <1>10, <1>11 DEF ThreadInit

LEMMA RunShape ==
  ASSUME ControlOK, NEW i \in Ids, ThreadStartup(i) \/ UserFunction(i)
  PROVE  Running(i)
<1> USE DEF ControlOK, flags, Becomes, Running
<1>1. ASSUME NEW p, p # "rtems", Starts(p, i) PROVE Running(i)
  BY <1>1 DEF Starts
<1>2. ASSUME NEW p, Finishes(p, i) PROVE Running(i)
  BY <1>2 DEF Finishes
<1>3. ASSUME NEW p, Stops(p, i) PROVE Running(i)
  BY <1>3 DEF Stops
<1>4. ASSUME NEW p, Exits(p, i) PROVE Running(i)
  BY <1>4 DEF Exits
<1>5. CASE RtemsStart(i) BY <1>5 DEF RtemsStart
<1>6. CASE RtemsReturn(i) BY <1>6 DEF RtemsReturn
<1> HIDE DEF Running
<1> QED
  BY <1>1, <1>2, <1>3, <1>4, <1>5, <1>6
  DEF ThreadStartup, UserFunction, LinuxDrvStartup, EcosStartup, VxworksStartup,
      Win32Startup, NucleusStartup, XapiStartup

LEMMA BeginShape ==
  ASSUME ControlOK, NEW p, NEW c \in {"delete", "shutdown"}, NEW w \in Waits \cup {Forever}
  PROVE  /\ Begin(p, c, w) => Waiting
         /\ Sleep(p, c) => Waiting
         /\ \A next \in {"completing", "deciding"} :
              (p = "linux_drv" /\ c = "delete" => next = "completing")
              /\ LeaveLoop(p, c, next) => Waiting
         /\ Completes(c) => Waiting
         /\ NotValid(p, c) => Refusing
<1> USE DEF ControlOK, flags, Waiting, control
<1>1. Begin(p, c, w) => Waiting
  BY DEF Begin
<1>2. Sleep(p, c) => Waiting
  BY PortThreadAssumption DEF Sleep
<1>3. \A next \in {"completing", "deciding"} :
        (p = "linux_drv" /\ c = "delete" => next = "completing")
        /\ LeaveLoop(p, c, next) => Waiting
  BY DEF LeaveLoop
<1>4. Completes(c) => Waiting
  BY DEF Completes
<1>5. NotValid(p, c) => Refusing
  BY DEF NotValid, Return, Refusing
<1> QED BY <1>1, <1>2, <1>3, <1>4, <1>5

LEMMA AskShape ==
  ASSUME ControlOK, NEW p, NEW c \in {"delete", "shutdown"}, NEW w \in Waits \cup {Forever},
         p # "linux_drv", Asks(p, c, w)
  PROVE  Waiting
BY BeginShape DEF Asks

LEMMA DeleteShape ==
  ASSUME ControlOK, NEW w \in Waits \cup {Forever}, ThreadDelete(w)
  PROVE  Refusing \/ Waiting \/ Ending
<1> DEFINE Q == Refusing \/ Waiting \/ Ending
<1>q. SUFFICES Q OBVIOUS
<1>b. "delete" \in {"delete", "shutdown"} OBVIOUS
<1>1. CASE LinuxDrvDelete(w)
  <2>1. ASSUME Decides("linux_drv", "delete"), Unharmed, 
               Invalidates(IF bRunning THEN "error" ELSE "success")
        PROVE  Ending
    BY <2>1 DEF Decides, Unharmed, Invalidates, Return, Ending, ControlOK
  <2> HIDE DEF Q
  <2>2. Refusing \/ Waiting \/ Ending => Q BY DEF Q
  <2> QED BY <1>1, <1>b, <2>1, <2>2, BeginShape DEF LinuxDrvDelete
<1>2. CASE EcosDelete(w)
  <2>1. ASSUME Decides("ecos", "delete"), EcosRemoves PROVE Ending
    BY <2>1 DEF Decides, EcosRemoves, NotKilled, Invalidates, Return, Ending, ControlOK
  <2> QED BY <1>2, <1>b, <2>1, AskShape, BeginShape DEF EcosDelete
<1>3. CASE VxworksDelete(w)
  <2>1. ASSUME Decides("vxworks", "delete"),
               \/ ~bRunning /\ Unharmed /\ Invalidates("success")
               \/ bRunning /\ Killed /\ Invalidates("success")
               \/ bRunning /\ NotKilled /\ UNCHANGED bRunning /\ Invalidates("error")
        PROVE  Ending
    BY <2>1 DEF Decides, Unharmed, NotKilled, Invalidates, Return, Ending, ControlOK
  <2> QED BY <1>3, <1>b, <2>1, AskShape, BeginShape DEF VxworksDelete
<1>4. CASE Win32Delete(w)
  <2>1. ASSUME Decides("win32", "delete"), thr' = thr,
               \/ /\ ~bRunning /\ UNCHANGED <<odd, bRunning>> /\ Invalidates("success")
               \/ /\ bRunning /\ UNCHANGED odd /\ bRunning' = FALSE
                  /\ Invalidates("success")
               \/ /\ bRunning /\ odd' = odd \cup {"killFailed"}
                  /\ UNCHANGED bRunning /\ Invalidates("error")
        PROVE  Ending
    BY <2>1 DEF Decides, Invalidates, Return, Ending, ControlOK
  <2> QED BY <1>4, <1>b, <2>1, AskShape, BeginShape DEF Win32Delete
<1>5. CASE NucleusDelete(w)
  <2>1. ASSUME Decides("nucleus", "delete"),
               \/ ~bRunning /\ Unharmed /\ Invalidates("success")
               \/ bRunning /\ Killed /\ Invalidates("success")
               \/ bRunning /\ NotKilled /\ UNCHANGED bRunning /\ Invalidates("error")
        PROVE  Ending
    BY <2>1 DEF Decides, Unharmed, NotKilled, Invalidates, Return, Ending, ControlOK
  <2> QED BY <1>5, <1>b, <2>1, AskShape, BeginShape DEF NucleusDelete
<1>6. CASE RtemsDelete(w)
  <2>1. ASSUME Decides("rtems", "delete"),
               \/ Killed /\ Invalidates("success")
               \/ NotKilled /\ bRunning' = TRUE /\ Invalidates("error")
        PROVE  Ending
    BY <2>1 DEF Decides, NotKilled, Invalidates, Return, Ending, ControlOK
  <2> QED BY <1>6, <1>b, <2>1, AskShape, BeginShape DEF RtemsDelete
<1>7. CASE XapiDelete(w)
  <2>1. ASSUME Decides("xapi", "delete"),
               \/ ~bRunning /\ Unharmed /\ Invalidates("success")
               \/ bRunning /\ Killed /\ Invalidates("success")
               \/ bRunning /\ NotKilled /\ UNCHANGED bRunning /\ Invalidates("error")
        PROVE  Ending
    BY <2>1 DEF Decides, Unharmed, NotKilled, Invalidates, Return, Ending, ControlOK
  <2> QED BY <1>7, <1>b, <2>1, AskShape, BeginShape DEF XapiDelete
<1>8. CASE GenericDelete
  BY <1>8, <1>b, BeginShape DEF GenericDelete
<1> HIDE DEF Q
<1> QED
  BY <1>1, <1>2, <1>3, <1>4, <1>5, <1>6, <1>7, <1>8 DEF ThreadDelete

LEMMA ShutdownShape ==
  ASSUME ControlOK, NEW w \in Waits \cup {Forever}, ThreadShutdown(w)
  PROVE  Refusing \/ Waiting \/ Ending
<1> DEFINE Q == Refusing \/ Waiting \/ Ending
<1>q. SUFFICES Q OBVIOUS
<1>b. "shutdown" \in {"delete", "shutdown"} OBVIOUS
<1>s. ASSUME NEW p \in AllPorts \ {"ecos", "linux_drv"}, Decides(p, "shutdown"), Unharmed,
             \/ bRunning /\ Invalidates("error")
             \/ ~bRunning /\ Invalidates("success")
      PROVE  Ending
  BY <1>s DEF Decides, Unharmed, Invalidates, Return, Ending, ControlOK, Careless
<1>1. CASE LinuxDrvShutdown(w)
  <2>1. ASSUME Decides("linux_drv", "shutdown"), Unharmed, Invalidates("success")
        PROVE  Ending
    BY <2>1 DEF Decides, Unharmed, Invalidates, Return, Ending, ControlOK, Careless
  <2> HIDE DEF Q
  <2>2. Refusing \/ Waiting \/ Ending => Q BY DEF Q
  <2> QED BY <1>1, <1>b, <2>1, <2>2, BeginShape DEF LinuxDrvShutdown
<1>2. CASE EcosShutdown(w)
  <2>1. ASSUME Decides("ecos", "shutdown"), EcosRemoves PROVE Ending
    BY <2>1 DEF Decides, EcosRemoves, NotKilled, Invalidates, Return, Ending, ControlOK
  <2>2. ASSUME Decides("ecos", "shutdown"), Unharmed, Return("error"), UNCHANGED bValid
        PROVE  Ending
    BY <2>2 DEF Decides, Unharmed, Return, Ending, ControlOK
  <2> QED BY <1>2, <1>b, <2>1, <2>2, AskShape, BeginShape DEF EcosShutdown
<1>3. CASE VxworksShutdown(w)
  BY <1>3, <1>b, <1>s, AskShape, BeginShape DEF VxworksShutdown, AllPorts
<1>4. CASE Win32Shutdown(w)
  BY <1>4, <1>b, <1>s, AskShape, BeginShape DEF Win32Shutdown, AllPorts
<1>5. CASE NucleusShutdown(w)
  BY <1>5, <1>b, <1>s, AskShape, BeginShape DEF NucleusShutdown, AllPorts
<1>6. CASE RtemsShutdown(w)
  BY <1>6, <1>b, <1>s, AskShape, BeginShape DEF RtemsShutdown, AllPorts
<1>7. CASE XapiShutdown(w)
  BY <1>7, <1>b, <1>s, AskShape, BeginShape DEF XapiShutdown, AllPorts
<1>8. CASE GenericShutdown
  BY <1>8, <1>b, BeginShape DEF GenericShutdown
<1> HIDE DEF Q
<1> QED
  BY <1>1, <1>2, <1>3, <1>4, <1>5, <1>6, <1>7, <1>8 DEF ThreadShutdown

LEMMA NextShape ==
  ASSUME ControlOK, Next
  PROVE  Shape
<1>1. CASE ThreadInit BY <1>1, InitShape DEF Shape
<1>2. CASE \E i \in Ids : ThreadStartup(i) \/ UserFunction(i)
  BY <1>2, RunShape DEF Shape
<1>3. CASE \E w \in Waits \cup {Forever} : ThreadDelete(w) \/ ThreadShutdown(w)
  BY <1>3, DeleteShape, ShutdownShape DEF Shape
<1> QED BY <1>1, <1>2, <1>3 DEF Next
-----------------------------------------------------------------------------
(* The shapes keep the invariant.                                           *)

LEMMA InitControl == Init => Control
<1> SUFFICES ASSUME Init PROVE Control
  OBVIOUS
<1> USE DEF Init
<1>1. ControlOK
  <2>1. tid \in 0 .. MaxThreads /\ port \in AllPorts
    BY PortThreadAssumption
  <2>2. thr \in [Ids -> ThreadStates]
    BY DEF ThreadStates
  <2> QED BY <2>1, <2>2 DEF ControlOK
<1>2. Numbered
  BY DEF Numbered
<1>3. OneWriter /\ Truth /\ Completing /\ DownIsDown
  BY DEF OneWriter, Truth, Completing, DownIsDown, Reported, Using, Alive
<1> QED BY <1>1, <1>2, <1>3 DEF Control

LEMMA CreatingControl ==
  ASSUME Control, Creating
  PROVE  Control'
<1> USE DEF Control, ControlOK
<1>1. /\ tid + 1 \in Ids /\ tid' \in Ids /\ tid' = tid + 1
      /\ thr[tid + 1] = "none" /\ tid \notin {tid + 1}
  BY PortThreadAssumption DEF Creating, Numbered, Ids
<1>2. /\ thr' \in [Ids -> ThreadStates]
      /\ \A i \in Ids : i # tid + 1 => thr'[i] = thr[i]
      /\ thr'[tid + 1] \in {"none", "created"} /\ port' = port
  BY <1>1 DEF Creating, ThreadStates
<1>3. ControlOK'
  <2>1. bRunning' \in BOOLEAN /\ bValid' \in BOOLEAN /\ bShutDown' \in BOOLEAN
    BY DEF Creating
  <2>2. odd' \subseteq {"twice", "early", "reused", "killFailed"}
    BY DEF Creating
  <2>3. tid' \in 0 .. MaxThreads
    BY <1>1 DEF Ids
  <2> QED BY <2>1, <2>2, <2>3, <1>2 DEF Creating
<1>4. Numbered'
  BY <1>1, <1>2 DEF Creating, Numbered, Ids
<1>5. "reused" \notin odd' => Using = {} /\ "reused" \notin odd
  BY DEF Creating
<1>6. OneWriter'
  BY <1>1, <1>2, <1>5 DEF OneWriter, Using, Alive
<1>7. Truth'
  <2> SUFFICES ASSUME "reused" \notin odd', port # "rtems"
               PROVE  ~bRunning' /\ thr'[tid'] \notin Working
    BY DEF Truth, Creating
  <2>1. ~bRunning
    BY <1>5 DEF Truth, Using, Alive, Working
  <2>2. ~bRunning'
    BY <2>1 DEF Creating
  <2> QED BY <2>2, <1>1, <1>2 DEF Working
<1>8. DownIsDown' /\ Completing'
  BY DEF DownIsDown, Reported, Completing, Creating
<1> QED BY <1>3, <1>4, <1>6, <1>7, <1>8

LEMMA RefusingControl ==
  ASSUME Control, Refusing
  PROVE  Control'
BY DEF Control, ControlOK, Numbered, OneWriter, Truth, Completing, DownIsDown, Reported,
       NotAwaited, Refusing, Using, Alive, flags

LEMMA RunningControl ==
  ASSUME Control, NEW i \in Ids, Running(i)
  PROVE  Control'
<1> USE DEF Control, ControlOK
<1>u. UNCHANGED <<port, bValid, bShutDown, tid, odd, caller, call, waitCnt, result>>
  BY DEF Running, control
<1>1. /\ thr' \in [Ids -> ThreadStates]
      /\ \A j \in Ids : j # i => thr'[j] = thr[j]
      /\ thr'[i] # "none" /\ thr'[i] # "created" /\ thr[i] \notin {"none", "ended"}
      /\ thr[i] = "stopped" => thr'[i] = "ended"
  BY DEF Running, ThreadStates
<1>2. bRunning' \in BOOLEAN
  BY DEF Running
<1>3. ControlOK'
  BY <1>u, <1>1, <1>2 DEF Running
<1>4. Numbered'
  BY <1>u, <1>1 DEF Numbered, Ids
<1>5. Using' \subseteq Using /\ Alive' \subseteq Alive
  BY <1>u, <1>1 DEF Using, Alive
<1>6. OneWriter'
  BY <1>u, <1>5 DEF OneWriter
<1>7. Truth'
  <2> SUFFICES ASSUME "reused" \notin odd, port # "rtems"
               PROVE  /\ bRunning' => tid \in Ids /\ thr'[tid] \in Working
                      /\ bValid /\ thr'[tid] \in Working => bRunning'
    BY <1>u DEF Truth
  <2>1. thr[i] # "stopped" => i = tid
    BY <1>1 DEF OneWriter, Using, Alive
  <2>2. CASE i = tid
    <3>1. bRunning' => thr'[tid] \in Working
      BY <2>2, <1>1 DEF Running, Truth, Working
    <3>2. bValid /\ thr'[tid] \in Working => bRunning'
      BY <2>2, <1>1 DEF Running, Truth, Working
    <3> QED BY <3>1, <3>2, <2>2
  <2>3. CASE i # tid
    <3>1. bRunning' = bRunning
      BY <2>1, <2>3 DEF Running
    <3> QED BY <3>1, <2>3, <1>1 DEF Truth, Numbered
  <2> QED BY <2>2, <2>3
<1>8. DownIsDown'
  <2>1. NotAwaited => NotAwaited' \/ tid \notin Using'
    BY <1>u, <1>1 DEF NotAwaited, Using, Alive
  <2>2. Reported("success")' = Reported("success") /\ Careless' = Careless
    BY <1>u DEF Reported, Careless
  <2> QED BY <2>1, <2>2, <1>u, <1>5 DEF DownIsDown
<1>9. Completing'
  <2> SUFFICES ASSUME port = "linux_drv", "reused" \notin odd
               PROVE  /\ done' => tid \in Ids /\ thr'[tid] = "ended"
                      /\ thr[tid] = "ended" => thr'[tid] = "ended"
    BY <1>u DEF Completing
  <2>1. i = tid
    BY <1>1 DEF OneWriter, Using, Alive
  <2> QED BY <2>1, <1>1 DEF Completing, Running
<1> QED BY <1>3, <1>4, <1>6, <1>7, <1>8, <1>9

LEMMA WaitingControl ==
  ASSUME Control, Waiting
  PROVE  Control'
<1> USE DEF Control, ControlOK, Waiting
<1>1. odd \subseteq odd' /\ odd' \subseteq odd \cup {"early"}
  OBVIOUS
<1>2. ControlOK'
  <2>1. odd' \subseteq {"twice", "early", "reused", "killFailed"}
    BY <1>1
  <2>2. call' \in {"none", "init", "delete", "shutdown"}
    OBVIOUS
  <2> QED BY <2>1, <2>2
<1>3. Numbered'
  BY DEF Numbered
<1>4. OneWriter' /\ Truth'
  BY <1>1 DEF OneWriter, Truth, Using, Alive
<1>5. DownIsDown'
  BY DEF DownIsDown, Reported
<1>6. Completing'
  BY <1>1 DEF Completing
<1> QED BY <1>2, <1>3, <1>4, <1>5, <1>6

LEMMA EndingControl ==
  ASSUME Control, Ending
  PROVE  Control'
<1> USE DEF Control, ControlOK
<1>1. /\ UNCHANGED <<port, bShutDown, tid, call, waitCnt>> /\ tid \in Ids /\ bValid
      /\ call \in {"delete", "shutdown"} /\ caller' = "idle"
      /\ "early" \notin odd => thr[tid] # "created"
  BY DEF Ending, Numbered
<1>2. odd' \in {odd, odd \cup {"killFailed"}}
  BY DEF Ending, Killed
<1>3. \/ Killed
      \/ thr' = thr /\ ~Killed
  BY DEF Ending
<1>4. thr' = thr \/ thr' = [thr EXCEPT ![tid] = "ended"]
  BY <1>3 DEF Killed
<1>5. /\ thr' \in [Ids -> ThreadStates]
      /\ \A i \in Ids : i # tid => thr'[i] = thr[i]
      /\ thr'[tid] \in {thr[tid], "ended"}
  BY <1>1, <1>4 DEF ThreadStates
<1>6. bRunning' \in BOOLEAN /\ bValid' \in BOOLEAN
  BY DEF Ending, Killed
<1>7. ControlOK'
  BY <1>1, <1>2, <1>5, <1>6 DEF Ending
<1>8. Numbered'
  BY <1>1, <1>5, <1>6 DEF Numbered, Ids
<1>9. Using' \subseteq Using
  BY <1>1, <1>5 DEF Using, Alive
<1>10. OneWriter' /\ Completing'
  BY <1>1, <1>2, <1>5, <1>9 DEF OneWriter, Completing, Ending
<1>11. CASE Killed
  <2>1. tid \notin Alive' /\ tid \notin Using'
    BY <1>11, <1>1 DEF Killed, Alive, Using
  <2>2. thr'[tid] \notin Working /\ ~bRunning'
    BY <2>1, <1>1, <1>11 DEF Alive, Working, Killed
  <2>3. Truth'
    BY <2>2, <1>1 DEF Truth
  <2>4. DownIsDown'
    BY <2>1, <1>1 DEF DownIsDown
  <2> QED BY <2>3, <2>4, <1>7, <1>8, <1>10
<1>12. CASE ~Killed
  <2>1. thr' = thr /\ Using' = Using /\ NotAwaited' = NotAwaited
    BY <1>12, <1>1, <1>3 DEF Using, Alive, NotAwaited
  <2>2. Truth'
    BY <1>12, <2>1, <1>1, <1>2 DEF Truth, Ending
  <2>3. ASSUME result' = "success", <<port, call>> \notin Careless
        PROVE  ~bRunning /\ port # "rtems" /\ port # "ecos"
    BY <2>3, <1>12 DEF Ending, Careless
  <2>4. ASSUME result' = "success", <<port, call>> \notin Careless,
               "early" \notin odd, "reused" \notin odd
        PROVE  tid \notin Using \/ NotAwaited
    <3>1. thr[tid] \in {"none", "stopped", "ended"}
      BY <2>3, <2>4, <1>1 DEF Truth, Working, ThreadStates
    <3>2. port = "linux_drv" /\ bShutDown => thr[tid] = "ended"
      BY <2>4, <1>1 DEF Ending, Completing, Careless
    <3> QED BY <3>1, <3>2 DEF Using, Alive, NotAwaited
  <2>5. DownIsDown'
    BY <2>1, <2>3, <2>4, <1>1, <1>2 DEF DownIsDown, Reported, Careless
  <2> QED BY <2>2, <2>5, <1>7, <1>8, <1>10
<1> QED BY <1>11, <1>12

LEMMA ControlStep ==
  ASSUME Control, [Next]_vars
  PROVE  Control'
<1>1. CASE Next
  <2>1. Shape BY <1>1, NextShape DEF Control
  <2> QED
    BY <2>1, CreatingControl, RefusingControl, RunningControl, WaitingControl,
       EndingControl DEF Shape
<1>2. CASE UNCHANGED vars
  BY <1>2 DEF Control, ControlOK, Numbered, OneWriter, Truth, Completing, DownIsDown,
     Reported, NotAwaited, Using, Alive, vars, flags, taken, control
<1> QED BY <1>1, <1>2

LEMMA ControlAlways == Spec => []Control
BY InitControl, ControlStep, PTL DEF Spec

\* On every port, a delete or shutdown that says it succeeded leaves no thread that
\* uses the control struct, but for the calls that do not look after it and for the
\* kernel thread whose completion a delete did not wait for.
THEOREM PortThreadDown == Spec => []DownIsDown
<1>1. Control => DownIsDown
  BY DEF Control
<1> QED BY <1>1, ControlAlways, PTL
-----------------------------------------------------------------------------
(* What is held.                                                            *)

HoldingOK ==
  /\ stack_pointer \in 0 .. MaxThreads
  /\ held \subseteq {"stack", "object", "handle"} \X Ids
  /\ misfreed \in BOOLEAN

ObjectPorts == {"ecos", "vxworks", "win32", "nucleus"}
HandlePorts == {"win32", "nucleus", "rtems", "xapi"}
StackPorts == {"ecos", "nucleus"}

\* A valid struct owns what the call that ends its thread gives back.
Owned ==
  bValid =>
    /\ port \in ObjectPorts => <<"object", tid>> \in held
    /\ port \in HandlePorts => <<"handle", tid>> \in held

\* The struct of eCos points to no stack, or to that of its own thread.
EcosStack ==
  port = "ecos" /\ stack_pointer # 0 => stack_pointer = tid /\ <<"stack", tid>> \in held

\* Unless it was used twice, a valid struct points to the stack of its thread.
ValidStack ==
  port \in StackPorts /\ bValid /\ "twice" \notin odd =>
    stack_pointer = tid /\ <<"stack", tid>> \in held

\* A port holds only what its Init takes; the object of Nucleus belongs to a valid struct,
\* and so does the stack of eCos, unless its thread could not be ended.
Owing ==
  \A r \in held :
    /\ r[1] = "stack" => port \in StackPorts
    /\ r[1] = "handle" => port \in HandlePorts
    /\ r[1] = "object" => port \in ObjectPorts \cup {"generic"}
    /\ port = "nucleus" /\ r[1] = "object" => bValid /\ r[2] = tid
    /\ port = "ecos" /\ r[1] = "stack" /\ "killFailed" \notin odd =>
         bValid /\ r[2] = stack_pointer

Holding == HoldingOK /\ Owned /\ EcosStack /\ ValidStack /\ OnItsStack /\ FreedOnce /\ Owing

\* The shapes of the steps, as to what is held: Init with resources of the kinds K,
\* Init of a valid struct, the end of a thread that gives the resources S back, and
\* what touches no resource.
Takes(K) ==
  /\ tid' = tid + 1 /\ tid' \in Ids
  /\ port' = port /\ odd \subseteq odd' /\ misfreed' = misfreed
  /\ K \subseteq {"stack", "object", "handle"}
  /\ held' = held \cup {<<k, tid + 1>> : k \in K}
  /\ stack_pointer' \in {stack_pointer, 0, tid + 1}
  /\ bValid' =>
       /\ port \in ObjectPorts => "object" \in K
       /\ port \in HandlePorts => "handle" \in K
       /\ port \in StackPorts => "stack" \in K /\ stack_pointer' = tid + 1
  /\ "stack" \in K => port \in StackPorts /\ bValid'
  /\ "handle" \in K => port \in HandlePorts
  /\ "object" \in K => port \in ObjectPorts \cup {"generic"} /\ (port = "nucleus" => bValid')
  /\ ~bValid
  /\ port = "ecos" /\ ~bValid' => stack_pointer' = 0
  /\ \A i \in Ids : thr'[i] = thr[i] \/ (i = tid + 1 /\ bValid')

TakesAgain ==
  /\ UNCHANGED <<port, tid, thr, bValid>> /\ odd' = odd \cup {"twice"}
  /\ \/ UNCHANGED taken /\ port \notin StackPorts
     \/ port = "ecos" /\ GiveBack(Stack) /\ stack_pointer' = 0
     \/ port = "nucleus" /\ GiveBack(Stack) /\ stack_pointer' = stack_pointer

Gives(S) ==
  /\ bValid /\ tid \in Ids /\ ~bValid'
  /\ UNCHANGED <<port, tid>> /\ odd \subseteq odd' /\ GiveBack(S)
  /\ S \subseteq Object \cup Handle \cup Stack
  /\ <<"object", tid>> \in S => port \in ObjectPorts
  /\ <<"handle", tid>> \in S => port \in HandlePorts
  /\ port = "nucleus" => Object \subseteq S
  /\ port = "ecos" => Stack \subseteq S \/ "killFailed" \in odd'
  /\ S \cap Stack # {} => port = "nucleus" \/ (port = "ecos" /\ tid \notin Alive')
  /\ stack_pointer' \in {0, stack_pointer} /\ (port = "ecos" => stack_pointer' = 0)
  /\ Alive' \subseteq Alive

Keeps ==
  /\ UNCHANGED <<port, taken, tid>> /\ odd \subseteq odd' /\ Alive' \subseteq Alive
  /\ bValid' => bValid
  /\ port \in StackPorts => bValid' = bValid

LEMMA InitHolding == Init => Holding
<1> SUFFICES ASSUME Init PROVE Holding
  OBVIOUS
<1> USE DEF Init
<1>1. HoldingOK
  <2>1. stack_pointer \in 0 .. MaxThreads
    BY PortThreadAssumption
  <2>2. held = {} /\ misfreed \in BOOLEAN
    OBVIOUS
  <2> QED BY <2>1, <2>2 DEF HoldingOK
<1>2. Owned /\ EcosStack /\ ValidStack /\ FreedOnce /\ Owing
  BY DEF Owned, EcosStack, ValidStack, FreedOnce, Owing
<1>3. OnItsStack
  BY DEF OnItsStack, Alive
<1> QED BY <1>1, <1>2, <1>3 DEF Holding

LEMMA TakesHolding ==
  ASSUME Control, Holding, NEW K, Takes(K)
  PROVE  Holding'
<1> USE DEF Control, ControlOK, Holding, HoldingOK, Takes
<1>1. \A r \in held : r \in held'
  OBVIOUS
<1>2. \A k \in K : <<k, tid'>> \in held'
  OBVIOUS
<1>3. HoldingOK'
  <2>1. held' \subseteq {"stack", "object", "handle"} \X Ids
    OBVIOUS
  <2>2. stack_pointer' \in 0 .. MaxThreads
    BY PortThreadAssumption DEF Ids
  <2> QED BY <2>1, <2>2
<1>4. Owned'
  BY <1>2 DEF Owned
<1>5. EcosStack' /\ ValidStack'
  BY <1>2 DEF EcosStack, ValidStack, StackPorts
<1>6. OnItsStack'
  BY <1>1, <1>2 DEF OnItsStack, Alive, StackPorts
<1>7. FreedOnce'
  BY DEF FreedOnce
<1>8. Owing'
  <2> SUFFICES ASSUME NEW r \in held'
      PROVE  /\ r[1] = "stack" => port \in StackPorts
             /\ r[1] = "handle" => port \in HandlePorts
             /\ r[1] = "object" => port \in ObjectPorts \cup {"generic"}
             /\ port = "nucleus" /\ r[1] = "object" => bValid' /\ r[2] = tid'
             /\ port = "ecos" /\ r[1] = "stack" /\ "killFailed" \notin odd' =>
                  bValid' /\ r[2] = stack_pointer'
    BY DEF Owing
  <2>1. CASE r \in held
    BY <2>1 DEF Owing
  <2>2. CASE r \in {<<k, tid + 1>> : k \in K}
    <3>1. r[1] \in K /\ r[2] = tid + 1
      BY <2>2
    <3> QED BY <3>1 DEF StackPorts
  <2> QED BY <2>1, <2>2
<1> QED BY <1>3, <1>4, <1>5, <1>6, <1>7, <1>8

LEMMA TakesAgainHolding ==
  ASSUME Control, Holding, TakesAgain
  PROVE  Holding'
<1> USE DEF Control, ControlOK, Holding, HoldingOK, TakesAgain
<1>1. HoldingOK'
  <2>1. stack_pointer' \in 0 .. MaxThreads
    BY PortThreadAssumption DEF taken
  <2>2. held' \subseteq held
    BY DEF GiveBack, taken
  <2>3. misfreed' \in BOOLEAN
    BY DEF GiveBack, taken
  <2> QED BY <2>1, <2>2, <2>3
<1>2. Owned'
  BY DEF Owned, GiveBack, taken, Stack
<1>3. EcosStack' /\ ValidStack' /\ OnItsStack'
  BY DEF EcosStack, ValidStack, OnItsStack, StackPorts, taken
<1>4. FreedOnce'
  BY DEF FreedOnce, EcosStack, GiveBack, Stack, taken
<1>5. Owing'
  <2>1. held' \subseteq held
    BY DEF GiveBack, taken
  <2>2. ASSUME NEW r \in held', port = "ecos", r[1] = "stack", "killFailed" \notin odd'
        PROVE  FALSE
    <3>1. held' = held \ Stack /\ r[2] = stack_pointer
      BY <2>1, <2>2 DEF Owing, GiveBack, StackPorts
    <3>2. r = <<"stack", stack_pointer>> /\ stack_pointer # 0
      BY <2>1, <2>2, <3>1, PortThreadAssumption DEF Ids
    <3> QED BY <2>2, <3>1, <3>2 DEF Stack
  <2> QED BY <2>1, <2>2 DEF Owing
<1> QED BY <1>1, <1>2, <1>3, <1>4, <1>5

LEMMA GivesHolding ==
  ASSUME Control, Holding, NEW S, Gives(S)
  PROVE  Holding'
<1> USE DEF Control, ControlOK, Holding, HoldingOK, Gives
<1>1. HoldingOK'
  <2>1. stack_pointer' \in 0 .. MaxThreads
    BY PortThreadAssumption
  <2>2. held' \subseteq held
    BY DEF GiveBack
  <2>3. misfreed' \in BOOLEAN
    BY DEF GiveBack
  <2> QED BY <2>1, <2>2, <2>3
<1>e. Owned' /\ EcosStack' /\ ValidStack'
  BY DEF Owned, EcosStack, ValidStack
<1>2. OnItsStack'
  <2> SUFFICES ASSUME port = "ecos", "twice" \notin odd', NEW i \in Alive'
               PROVE  <<"stack", i>> \in held'
    BY DEF OnItsStack
  <2>1. <<"stack", i>> \in held
    BY DEF OnItsStack
  <2>2. <<"stack", i>> \notin S
    BY DEF Object, Handle, Stack, EcosStack
  <2> QED BY <2>1, <2>2 DEF GiveBack
<1>3. FreedOnce'
  <2>1. CASE port = "nucleus" /\ "twice" \in odd
    BY <2>1 DEF FreedOnce
  <2>2. CASE ~(port = "nucleus" /\ "twice" \in odd)
    <3>1. ASSUME NEW r \in S PROVE r \in held
      <4>1. CASE r \in Object BY <4>1, <3>1 DEF Object, Owned
      <4>2. CASE r \in Handle BY <4>2, <3>1 DEF Handle, Owned
      <4>3. CASE r \in Stack
        BY <4>3, <3>1, <2>2 DEF Stack, EcosStack, ValidStack, StackPorts
      <4> QED BY <3>1, <4>1, <4>2, <4>3
    <3> QED BY <3>1, <2>2 DEF FreedOnce, GiveBack
  <2> QED BY <2>1, <2>2
<1>4. Owing'
  <2> SUFFICES ASSUME NEW r \in held'
      PROVE  /\ r[1] = "stack" => port \in StackPorts
             /\ r[1] = "handle" => port \in HandlePorts
             /\ r[1] = "object" => port \in ObjectPorts \cup {"generic"}
             /\ ~(port = "nucleus" /\ r[1] = "object")
             /\ ~(port = "ecos" /\ r[1] = "stack" /\ "killFailed" \notin odd')
    BY DEF Owing
  <2>1. r \in held /\ r \notin S
    BY DEF GiveBack
  <2>2. ASSUME port = "nucleus", r[1] = "object" PROVE FALSE
    <3>1. r = <<"object", tid>>
      BY <2>1, <2>2 DEF Owing
    <3> QED BY <2>1, <2>2, <3>1 DEF Object
  <2>3. ASSUME port = "ecos", r[1] = "stack", "killFailed" \notin odd' PROVE FALSE
    <3>1. r = <<"stack", stack_pointer>> /\ stack_pointer # 0
      BY <2>1, <2>3, PortThreadAssumption DEF Owing, Ids
    <3> QED BY <2>1, <2>3, <3>1 DEF Stack
  <2> QED BY <2>1, <2>2, <2>3 DEF Owing
<1> QED BY <1>1, <1>e, <1>2, <1>3, <1>4

LEMMA KeepsHolding ==
  ASSUME Control, Holding, Keeps
  PROVE  Holding'
BY DEF Control, Holding, HoldingOK, Keeps, Owned, EcosStack, ValidStack, OnItsStack,
       FreedOnce, taken, Owing, StackPorts

-----------------------------------------------------------------------------
(* The calls of the ports have these shapes too.                            *)

LEMMA InitTakes ==
  ASSUME Control, Holding, ThreadInit
  PROVE  (\E K : Takes(K)) \/ TakesAgain
<1> DEFINE Q == (\E K : Takes(K)) \/ TakesAgain
<1>q. SUFFICES Q OBVIOUS
<1>0. ASSUME NEW p, Initialises(p)
      PROVE  /\ port = p /\ port' = port /\ tid' = tid + 1 /\ tid' \in Ids /\ ~bValid
             /\ odd \subseteq odd' /\ tid + 1 \in Ids
  BY <1>0, PortThreadAssumption DEF Initialises, Control, ControlOK, Ids
<1>1. ASSUME NEW p, Initialises(p), NEW K \in SUBSET {"stack", "object", "handle"},
             Creates(K), stack_pointer' \in {stack_pointer, tid + 1},
             p \in ObjectPorts => "object" \in K,
             p \in HandlePorts => "handle" \in K,
             p \in StackPorts => "stack" \in K /\ stack_pointer' = tid + 1,
             "stack" \in K => p \in StackPorts, "handle" \in K => p \in HandlePorts,
             "object" \in K => p \in ObjectPorts \cup {"generic"}
      PROVE  Q
  <2>1. \A i \in Ids : thr'[i] = thr[i] \/ i = tid + 1
    BY <1>1 DEF Creates, Becomes, Control, ControlOK
  <2>2. Takes(K)
    BY <1>0, <1>1, <2>1 DEF Takes, Creates
  <2> QED BY <2>2
<1>2. ASSUME NEW p, Initialises(p), NEW K \in SUBSET {"stack", "object", "handle"},
             CreatesNot(K), stack_pointer' \in {stack_pointer, 0, tid + 1},
             p = "ecos" => stack_pointer' = 0,
             "stack" \notin K, "handle" \in K => p \in HandlePorts,
             "object" \in K => p \in (ObjectPorts \cup {"generic"}) \ {"nucleus"}
      PROVE  Q
  <2>1. Takes(K)
    BY <1>0, <1>2 DEF Takes, CreatesNot
  <2> QED BY <2>1
<1>3. ASSUME NEW p \in AllPorts \ StackPorts, Refused(p), UNCHANGED taken
      PROVE  Q
  BY <1>3 DEF Refused, TakesAgain, flags
<1> HIDE DEF Q
<1>d. StackPorts = {"ecos", "nucleus"} /\ ObjectPorts = {"ecos", "vxworks", "win32", "nucleus"}
      /\ HandlePorts = {"win32", "nucleus", "rtems", "xapi"}
  BY DEF StackPorts, ObjectPorts, HandlePorts
<1>4. CASE LinuxDrvInit
  <2>1. ASSUME Initialises("linux_drv"), bValid' = TRUE, stack_pointer' = stack_pointer,
               UNCHANGED <<thr, held, misfreed>>
        PROVE  Q
    <3>1. Takes({})
      BY <2>1, <1>0, <1>d DEF Takes
    <3> QED BY <3>1 DEF Q
  <2>2. ASSUME Initialises("linux_drv"), UNCHANGED stack_pointer, Creates({})
        PROVE  Q
    <3>1. {} \in SUBSET {"stack", "object", "handle"} OBVIOUS
    <3> QED BY <2>2, <3>1, <1>1, <1>d
  <2>3. ASSUME Refused("linux_drv"), UNCHANGED taken
        PROVE  Q
    BY <2>3, <1>3, <1>d DEF AllPorts
  <2> QED BY <1>4, <2>1, <2>2, <2>3 DEF LinuxDrvInit
<1>5. CASE EcosInit
  <2>1. ASSUME Refused("ecos"), GiveBack(Stack), stack_pointer' = 0
        PROVE  Q
    BY <2>1 DEF Q, Refused, TakesAgain, flags
  <2> QED BY <1>5, <1>1, <1>2, <2>1, <1>d DEF EcosInit
<1>6. CASE VxworksInit BY <1>6, <1>1, <1>2, <1>3, <1>d DEF VxworksInit, AllPorts
<1>7. CASE Win32Init BY <1>7, <1>1, <1>2, <1>3, <1>d DEF Win32Init, AllPorts
<1>8. CASE NucleusInit
  <2>1. ASSUME Refused("nucleus"), GiveBack(Stack), stack_pointer' = stack_pointer
        PROVE  Q
    BY <2>1 DEF Q, Refused, TakesAgain, flags
  <2> QED BY <1>8, <1>1, <1>2, <2>1, <1>d DEF NucleusInit
<1>9. CASE RtemsInit BY <1>9, <1>1, <1>2, <1>3, <1>d DEF RtemsInit, AllPorts
<1>10. CASE XapiInit BY <1>10, <1>1, <1>2, <1>3, <1>d DEF XapiInit, AllPorts
<1>11. CASE GenericInit BY <1>11, <1>2, <1>d DEF GenericInit
<1> QED
  BY <1>4, <1>5, <1>6, <1>7, <1>8, <1>9, <1>10, <1>11 DEF ThreadInit

LEMMA RunKeeps ==
  ASSUME Control, NEW i \in Ids, ThreadStartup(i) \/ UserFunction(i)
  PROVE  Keeps
<1>1. Running(i)
  BY RunShape DEF Control
<1>2. UNCHANGED taken
  BY DEF ThreadStartup, UserFunction, LinuxDrvStartup, EcosStartup, VxworksStartup,
         Win32Startup, NucleusStartup, XapiStartup, Starts, Finishes, Stops, Exits,
         RtemsStart, RtemsReturn
<1>3. Alive' \subseteq Alive
  BY <1>1 DEF Control, ControlOK, Running, Alive
<1> QED BY <1>1, <1>2, <1>3 DEF Keeps, Running

LEMMA AskKeeps ==
  ASSUME NEW p, NEW c, NEW w
  PROVE  /\ Begin(p, c, w) => Keeps
         /\ Sleep(p, c) => Keeps
         /\ \A next : LeaveLoop(p, c, next) => Keeps
         /\ Completes(c) => Keeps
         /\ NotValid(p, c) => Keeps
BY DEF Keeps, Begin, Sleep, LeaveLoop, Completes, NotValid, flags, Alive, Asks

LEMMA DecideFacts ==
  ASSUME Control, NEW p, NEW c, Decides(p, c)
  PROVE  port = p /\ UNCHANGED <<port, tid>> /\ bValid /\ tid \in Ids
BY DEF Decides, Control, Numbered

LEMMA KillFacts ==
  ASSUME Control
  PROVE  /\ Killed => tid \notin Alive' /\ Alive' \subseteq Alive /\ odd' = odd
         /\ NotKilled => Alive' = Alive /\ odd \subseteq odd'
         /\ Unharmed => Alive' = Alive /\ odd' = odd
<1>1. Killed => tid \notin Alive' /\ Alive' \subseteq Alive /\ odd' = odd
  BY DEF Killed, Alive, Control, ControlOK
<1> QED BY <1>1 DEF NotKilled, Unharmed, Alive
\* The ends of a thread, from the resources given back.
LEMMA GivesShape ==
  ASSUME Control, Holding, NEW p, NEW c, Decides(p, c), NEW S, GiveBack(S), bValid' = FALSE,
         Killed \/ NotKilled \/ Unharmed \/ (thr' = thr /\ odd \subseteq odd'),
         S \subseteq Object \cup Handle \cup Stack,
         p \notin ObjectPorts => S \cap Object = {},
         p \notin HandlePorts => S \cap Handle = {},
         S \cap Stack = {} \/ p = "nucleus" \/ (p = "ecos" /\ Killed),
         stack_pointer' \in {0, stack_pointer}, p = "ecos" => stack_pointer' = 0,
         p = "nucleus" => Object \subseteq S, p = "ecos" => Stack \subseteq S \/ NotKilled
  PROVE  Gives(S)
<1>1. port = p /\ UNCHANGED <<port, tid>> /\ bValid /\ tid \in Ids
  BY DecideFacts
<1>2. Alive' \subseteq Alive /\ odd \subseteq odd'
  BY KillFacts DEF Alive
<1>3. <<"object", tid>> \in S => port \in ObjectPorts
  BY <1>1 DEF Object
<1>4. <<"handle", tid>> \in S => port \in HandlePorts
  BY <1>1 DEF Handle
<1>5. S \cap Stack # {} => port = "nucleus" \/ (port = "ecos" /\ tid \notin Alive')
  BY <1>1, KillFacts
<1>6. port = "ecos" => Stack \subseteq S \/ "killFailed" \in odd'
  BY <1>1 DEF NotKilled
<1> QED BY <1>1, <1>2, <1>3, <1>4, <1>5, <1>6 DEF Gives

\* What is given back of a kind is not of another.
LEMMA Kinds ==
  /\ Object \cap Stack = {} /\ Object \cap Handle = {} /\ Handle \cap Stack = {}
  /\ (Object \cup Handle) \cap Stack = {} /\ (Object \cup Stack) \cap Handle = {}
BY DEF Object, Handle, Stack

LEMMA DeleteGives ==
  ASSUME Control, Holding, NEW w, ThreadDelete(w)
  PROVE  Keeps \/ \E S : Gives(S)
<1> DEFINE Q == Keeps \/ \E S : Gives(S)
<1>q. SUFFICES Q OBVIOUS
<1>k. ASSUME Keeps PROVE Q BY <1>k
<1>g. ASSUME NEW S, Gives(S) PROVE Q BY <1>g
<1>f. ASSUME NEW p, NEW c, Decides(p, c), bValid' = FALSE, UNCHANGED taken,
             Killed \/ NotKilled \/ Unharmed, p \notin StackPorts
      PROVE  Q
  <2>1. Alive' \subseteq Alive /\ odd \subseteq odd'
    BY <1>f, KillFacts
  <2> QED BY <1>f, <2>1 DEF Decides, Keeps
<1> HIDE DEF Q
<1>d. StackPorts = {"ecos", "nucleus"} /\ ObjectPorts = {"ecos", "vxworks", "win32", "nucleus"}
      /\ HandlePorts = {"win32", "nucleus", "rtems", "xapi"}
  BY DEF StackPorts, ObjectPorts, HandlePorts
<1>n. /\ "linux_drv" \notin StackPorts
      /\ "rtems" \in (AllPorts \cap HandlePorts) \ ({"ecos", "nucleus"} \cup ObjectPorts)
      /\ "xapi" \in (AllPorts \cap HandlePorts) \ ({"ecos", "nucleus"} \cup ObjectPorts)
  BY <1>d DEF AllPorts
<1>e. ASSUME NEW p \in AllPorts \ {"ecos"}, Decides(p, "delete"), bValid' = FALSE,
             UNCHANGED stack_pointer, NEW S, GiveBack(S),
             S \subseteq Object \cup Handle \cup Stack,
             p \notin ObjectPorts => S \cap Object = {},
             p \notin HandlePorts => S \cap Handle = {},
             S \cap Stack = {} \/ p = "nucleus", p = "nucleus" => Object \subseteq S
      PROVE  /\ Killed => Q
             /\ NotKilled => Q
             /\ Unharmed => Q
             /\ thr' = thr /\ odd \subseteq odd' => Q
  <2>1. Killed \/ NotKilled \/ Unharmed \/ (thr' = thr /\ odd \subseteq odd') => Gives(S)
    <3>1. stack_pointer' \in {0, stack_pointer} /\ p # "ecos"
      BY <1>e
    <3> QED BY <3>1, <1>e, GivesShape
  <2> QED BY <2>1, <1>g
<1>1. CASE LinuxDrvDelete(w)
  <2>1. ASSUME Decides("linux_drv", "delete"), bValid' = FALSE, UNCHANGED taken, Unharmed
        PROVE  Q
    BY <2>1, <1>f, <1>n
  <2> QED BY <1>1, <1>k, <2>1, AskKeeps DEF LinuxDrvDelete, Invalidates
<1>2. CASE EcosDelete(w)
  <2>1. ASSUME Decides("ecos", "delete"), EcosRemoves PROVE Q
    BY <2>1, <1>d, <1>g, GivesShape, Kinds DEF EcosRemoves, Invalidates
  <2> QED BY <1>2, <1>k, <2>1, AskKeeps DEF EcosDelete, Asks
<1>3. CASE VxworksDelete(w)
  <2>1. ASSUME Decides("vxworks", "delete"), GiveBack(Object), UNCHANGED stack_pointer,
               Killed \/ NotKilled \/ Unharmed, bValid' = FALSE
        PROVE  Q
    BY <2>1, <1>d, <1>e, Kinds DEF AllPorts
  <2> QED BY <1>3, <1>k, <2>1, AskKeeps DEF VxworksDelete, Asks, Invalidates
<1>4. CASE Win32Delete(w)
  <2>1. ASSUME Decides("win32", "delete"), GiveBack(Object) \/ GiveBack(Object \cup Handle),
               UNCHANGED <<stack_pointer, thr>>, odd \subseteq odd', bValid' = FALSE
        PROVE  Q
    BY <2>1, <1>d, <1>e, Kinds DEF AllPorts
  <2> QED BY <1>4, <1>k, <2>1, AskKeeps DEF Win32Delete, Asks, Invalidates
<1>5. CASE NucleusDelete(w)
  <2>1. ASSUME Decides("nucleus", "delete"), UNCHANGED stack_pointer, bValid' = FALSE,
               GiveBack(Object \cup Stack) \/ GiveBack(Object \cup Stack \cup Handle),
               Killed \/ NotKilled \/ Unharmed
        PROVE  Q
    BY <2>1, <1>d, <1>e, Kinds DEF AllPorts
  <2> QED BY <1>5, <1>k, <2>1, AskKeeps DEF NucleusDelete, Asks, Invalidates
<1>6. CASE RtemsDelete(w)
  <2>1. ASSUME Decides("rtems", "delete"), UNCHANGED stack_pointer, bValid' = FALSE,
               GiveBack(Handle) \/ GiveBack({}), Killed \/ NotKilled
        PROVE  Q
    <3>1. CASE GiveBack(Handle)
      BY <2>1, <3>1, <1>n, <1>e, Kinds
    <3>2. CASE GiveBack({})
      BY <2>1, <3>2, <1>n, <1>e
    <3> QED BY <2>1, <3>1, <3>2
  <2> QED BY <1>6, <1>k, <2>1, AskKeeps DEF RtemsDelete, Asks, Invalidates
<1>7. CASE XapiDelete(w)
  <2>1. ASSUME Decides("xapi", "delete"), UNCHANGED stack_pointer, bValid' = FALSE,
               GiveBack(Handle) \/ GiveBack({}), Killed \/ NotKilled \/ Unharmed
        PROVE  Q
    <3>1. CASE GiveBack(Handle)
      BY <2>1, <3>1, <1>n, <1>e, Kinds
    <3>2. CASE GiveBack({})
      BY <2>1, <3>2, <1>n, <1>e
    <3> QED BY <2>1, <3>1, <3>2
  <2> QED BY <1>7, <1>k, <2>1, AskKeeps DEF XapiDelete, Asks, Invalidates
<1>8. CASE GenericDelete
  BY <1>8, <1>k, AskKeeps DEF GenericDelete
<1> QED
  BY <1>1, <1>2, <1>3, <1>4, <1>5, <1>6, <1>7, <1>8 DEF ThreadDelete

LEMMA ShutdownGives ==
  ASSUME Control, Holding, NEW w, ThreadShutdown(w)
  PROVE  Keeps \/ \E S : Gives(S)
<1> DEFINE Q == Keeps \/ \E S : Gives(S)
<1>q. SUFFICES Q OBVIOUS
<1>k. ASSUME Keeps PROVE Q BY <1>k
<1>g. ASSUME NEW S, Gives(S) PROVE Q BY <1>g
<1>f. ASSUME NEW p, NEW c, Decides(p, c), bValid' \in {FALSE, bValid}, UNCHANGED taken, Unharmed,
             p \in StackPorts => bValid' = bValid
      PROVE  Q
  <2>1. Alive' \subseteq Alive /\ odd \subseteq odd'
    BY <1>f, KillFacts
  <2> QED BY <1>f, <2>1 DEF Decides, Keeps
<1> HIDE DEF Q
<1>d. StackPorts = {"ecos", "nucleus"} /\ ObjectPorts = {"ecos", "vxworks", "win32", "nucleus"}
      /\ HandlePorts = {"win32", "nucleus", "rtems", "xapi"}
  BY DEF StackPorts, ObjectPorts, HandlePorts
<1>o. ASSUME NEW p \in ObjectPorts \ {"ecos"}, Decides(p, "shutdown"), GiveBack(Object),
             UNCHANGED stack_pointer, Unharmed, bValid' = FALSE
      PROVE  Q
  BY <1>o, <1>g, GivesShape, Kinds
<1>1. CASE LinuxDrvShutdown(w)
  BY <1>1, <1>k, <1>f, <1>d, AskKeeps DEF LinuxDrvShutdown, Invalidates
<1>2. CASE EcosShutdown(w)
  <2>1. ASSUME Decides("ecos", "shutdown"), EcosRemoves PROVE Q
    BY <2>1, <1>d, <1>g, GivesShape, Kinds DEF EcosRemoves, Invalidates
  <2> QED BY <1>2, <1>k, <1>f, <2>1, AskKeeps DEF EcosShutdown, Asks
<1>3. CASE VxworksShutdown(w)
  BY <1>3, <1>k, <1>f, <1>o, <1>d, AskKeeps DEF VxworksShutdown, Asks, Invalidates
<1>4. CASE Win32Shutdown(w)
  BY <1>4, <1>k, <1>o, <1>d, AskKeeps DEF Win32Shutdown, Asks, Invalidates
<1>5. CASE NucleusShutdown(w)
  BY <1>5, <1>k, <1>o, <1>d, AskKeeps DEF NucleusShutdown, Asks, Invalidates
<1>6. CASE RtemsShutdown(w)
  BY <1>6, <1>k, <1>f, <1>d, AskKeeps DEF RtemsShutdown, Asks, Invalidates
<1>7. CASE XapiShutdown(w)
  BY <1>7, <1>k, <1>f, <1>d, AskKeeps DEF XapiShutdown, Asks, Invalidates
<1>8. CASE GenericShutdown
  BY <1>8, <1>k, AskKeeps DEF GenericShutdown
<1> QED
  BY <1>1, <1>2, <1>3, <1>4, <1>5, <1>6, <1>7, <1>8 DEF ThreadShutdown

LEMMA HoldingStep ==
  ASSUME Control, Holding, [Next]_vars
  PROVE  Holding'
<1>1. CASE ThreadInit
  BY <1>1, InitTakes, TakesHolding, TakesAgainHolding
<1>2. CASE \E i \in Ids : ThreadStartup(i) \/ UserFunction(i)
  BY <1>2, RunKeeps, KeepsHolding
<1>3. CASE \E w \in Waits \cup {Forever} : ThreadDelete(w) \/ ThreadShutdown(w)
  <2>1. Keeps \/ \E S : Gives(S)
    BY <1>3, DeleteGives, ShutdownGives
  <2> QED BY <2>1, GivesHolding, KeepsHolding
<1>4. CASE UNCHANGED vars
  BY <1>4, KeepsHolding DEF Keeps, vars, flags, taken, Alive
<1> QED BY <1>1, <1>2, <1>3, <1>4 DEF Next

LEMMA HoldingAlways == Spec => [](Control /\ Holding)
<1>1. Control /\ Holding /\ [Next]_vars => (Control /\ Holding)'
  BY ControlStep, HoldingStep
<1> QED BY <1>1, InitControl, InitHolding, PTL DEF Spec

\* A thread of eCos keeps its stack as long as it lives, but for an Init of a struct
\* in use.
THEOREM PortThreadStack == Spec => []OnItsStack
<1>1. Control /\ Holding => OnItsStack
  BY DEF Holding
<1> QED BY <1>1, HoldingAlways, PTL

\* No port gives back what it does not hold, but for Nucleus after an Init of a
\* struct in use.
THEOREM PortThreadFrees == Spec => []FreedOnce
<1>1. Control /\ Holding => FreedOnce
  BY DEF Holding
<1> QED BY <1>1, HoldingAlways, PTL

\* When the struct is free and its threads have ended, a port has left behind what its
\* calls never give back, and nothing else: whatever failed, was refused or came too early.
THEOREM PortThreadGivesBack == Spec => []GivenBack
<1>1. Control /\ Holding => GivenBack
  <2> SUFFICES ASSUME Control, Holding, ~bValid, NEW r \in held
               PROVE  r[1] \in LeftBehind(port)
    BY DEF GivenBack
  <2>1. r[1] \in {"stack", "object", "handle"} /\ port \in AllPorts
    BY DEF Control, ControlOK, Holding, HoldingOK
  <2>2. /\ r[1] = "stack" => port = "nucleus" \/ (port = "ecos" /\ "killFailed" \in odd)
        /\ r[1] = "handle" => port \in HandlePorts
        /\ r[1] = "object" => port \in (ObjectPorts \cup {"generic"}) \ {"nucleus"}
    BY DEF Holding, Owing, StackPorts
  <2> QED BY <2>1, <2>2 DEF LeftBehind, AllPorts, HandlePorts, ObjectPorts
<1> QED BY <1>1, HoldingAlways, PTL

\* Every variable of the threads of the ports keeps its type.
THEOREM PortThreadTypes == Spec => []TypeOK
<1>1. Control /\ Holding /\ port \in Ports => TypeOK
  BY DEF Control, ControlOK, Holding, HoldingOK, TypeOK
<1>2. Init => port \in Ports
  BY DEF Init
<1>3. Control /\ port \in Ports /\ [Next]_vars => (port \in Ports)'
  <2>1. Shape => port' = port
    BY DEF Shape, Creating, Refusing, Running, Waiting, Ending
  <2> QED BY <2>1, NextShape DEF Control, vars
<1> QED BY <1>1, <1>2, <1>3, HoldingAlways, ControlAlways, PTL DEF Spec

\* What a thread runs on is there while it runs, and is given back once, and nothing else
\* stays behind than what a port never gives back.
THEOREM PortThreadKept == Spec => []StacksKept
<1>1. OnItsStack /\ FreedOnce /\ GivenBack => StacksKept
  BY DEF StacksKept
<1> QED BY <1>1, PortThreadStack, PortThreadFrees, PortThreadGivesBack, PTL
=============================================================================
