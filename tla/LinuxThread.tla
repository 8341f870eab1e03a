----------------------------- MODULE LinuxThread -----------------------------
(***************************************************************************)
(* The threads of linux/ifxos_linux_thread_appl.c: one control struct, which  *)
(* a controlling thread initialises and deletes or shuts down again and       *)
(* again, and the pthreads it has created on it, which keep their pointer to  *)
(* the struct for as long as they live.  All they have in common are the      *)
(* unprotected flags bRunning and bShutDown, and every read of bRunning and    *)
(* every write to it is a step.                                               *)
(*                                                                         *)
(* The pthreads are numbered in the order of their creation.  A cancelled    *)
(* pthread ends at its next cancellation point, which may never come.         *)
(***************************************************************************)
EXTENDS Naturals

CONSTANTS
  MaxThreads,  \* bound of the check: pthreads created
  Calls,       \* the calls used to end a thread, of {"delete", "shutdown"}
  Waits,       \* their finite waitTime_ms, in units of IFXOS_THREAD_DOWN_WAIT_POLL_MS
  Forever,     \* IFXOS_THREAD_DELETE_WAIT_FOREVER
  Early,       \* whether they may be called before the thread has run at all
  Reuse        \* whether a struct is used again before a cancelled thread ended

ASSUME ThreadAssumption ==
  /\ MaxThreads \in Nat
  /\ Calls \subseteq {"delete", "shutdown"}
  /\ Waits \subseteq Nat /\ Forever \notin Nat
  /\ Early \in BOOLEAN /\ Reuse \in BOOLEAN

VARIABLES
  bValid, bRunning, bShutDown,
  tid,        \* the number of pthreads created, the last one in the struct
  thr,        \* what each pthread does
  cancelled,  \* the pthreads that pthread_cancel was called for
  caller,     \* where the controlling thread is
  call,       \* the call it is in, or was in last
  waitCnt,    \* the polls left to it
  result      \* what its last call returned

flags == <<bValid, bRunning, bShutDown>>
control == <<caller, call, waitCnt, result>>
vars == <<flags, tid, thr, cancelled, control>>

Ids == 1 .. MaxThreads

Init ==
  /\ bValid = FALSE /\ bRunning = FALSE /\ bShutDown = FALSE
  /\ tid = 0 /\ thr = [i \in Ids |-> "none"] /\ cancelled = {}
  /\ caller = "idle" /\ call = "none" /\ waitCnt = 0 /\ result = "none"

Return(code) == caller' = "idle" /\ result' = code

\* The pthreads that may still use the control struct.
Alive == {i \in Ids : thr[i] \in {"created", "running", "leaving"}}

Becomes(i, state) == thr' = [thr EXCEPT ![i] = state]

-----------------------------------------------------------------------------
(* IFXOS_ThreadInit.  The caller does not use a struct again whose thread it *)
(* was told did not end.                                                     *)

MayInit ==
  /\ caller = "idle" /\ ~bValid /\ result # "error" /\ tid < MaxThreads
  /\ Reuse \/ Alive \cap cancelled = {}

\* Mutant: the struct is not cleared, so that it keeps an old bShutDown.
InitCreateMut_Uncleared ==
  /\ MayInit
  /\ tid' = tid + 1 /\ Becomes(tid + 1, "created")
  /\ caller' = "creating" /\ call' = "init"
  /\ UNCHANGED <<flags, cancelled, waitCnt, result>>

InitCreate ==
  /\ MayInit
  /\ bRunning' = FALSE /\ bShutDown' = FALSE
  /\ tid' = tid + 1 /\ Becomes(tid + 1, "created")
  /\ caller' = "creating" /\ call' = "init"
  /\ UNCHANGED <<bValid, cancelled, waitCnt, result>>

\* bValid is only set when pthread_create has returned, the thread may run before.
InitDone ==
  /\ caller = "creating"
  /\ bValid' = TRUE
  /\ Return("success")
  /\ UNCHANGED <<bRunning, bShutDown, tid, thr, cancelled, call, waitCnt>>

\* pthread_create failed.
InitFailed ==
  /\ MayInit
  /\ bRunning' = FALSE /\ bShutDown' = FALSE
  /\ call' = "init" /\ Return("failed")
  /\ UNCHANGED <<bValid, tid, thr, cancelled, waitCnt>>

-----------------------------------------------------------------------------
(* IFXOS_UserThreadStartup.                                                *)
\* Mutant: bRunning is left to the user's thread function.
StartMut_NotRunning(i) ==
  /\ thr[i] = "created"
  /\ Becomes(i, "running")
  /\ UNCHANGED <<flags, tid, cancelled, control>>

Start(i) ==
  /\ thr[i] = "created"
  /\ bRunning' = TRUE
  /\ Becomes(i, "running")
  /\ UNCHANGED <<bValid, bShutDown, tid, cancelled, control>>

\* The user's thread function returns, of its own accord or told by bShutDown.
Finish(i) ==
  /\ thr[i] = "running"
  /\ Becomes(i, "leaving")
  /\ UNCHANGED <<flags, tid, cancelled, control>>

Stop(i) ==
  /\ thr[i] = "leaving"
  /\ bRunning' = FALSE
  /\ Becomes(i, "ended")
  /\ UNCHANGED <<bValid, bShutDown, tid, cancelled, control>>

\* A cancelled pthread reaches a cancellation point.
Die(i) ==
  /\ i \in cancelled \cap Alive
  /\ Becomes(i, "ended")
  /\ UNCHANGED <<flags, tid, cancelled, control>>

-----------------------------------------------------------------------------
(* IFXOS_ThreadDelete and IFXOS_ThreadShutdown, which differ in the end.   *)

EndStart(c, w) ==
  /\ caller = "idle" /\ bValid /\ (Early \/ thr[tid] # "created")
  /\ call' = c
  /\ IF bRunning THEN bShutDown' = TRUE /\ waitCnt' = w /\ caller' = "polling"
                 ELSE caller' = "deciding" /\ UNCHANGED <<bShutDown, waitCnt>>
  /\ UNCHANGED <<bValid, bRunning, tid, thr, cancelled, result>>

\* Mutant: the polls are not counted.
PollMut_Endless ==
  /\ caller = "polling" /\ waitCnt # 0 /\ bRunning
  /\ UNCHANGED vars

Poll ==
  /\ caller = "polling" /\ waitCnt # 0 /\ bRunning
  /\ waitCnt' = IF waitCnt = Forever THEN Forever ELSE waitCnt - 1
  /\ UNCHANGED <<flags, tid, thr, cancelled, caller, call, result>>

PollEnd ==
  /\ caller = "polling" /\ (waitCnt = 0 \/ ~bRunning)
  /\ caller' = "deciding"
  /\ UNCHANGED <<flags, tid, thr, cancelled, call, waitCnt, result>>

\* The thread is seen not to run.
Ended ==
  /\ caller = "deciding" /\ ~bRunning
  /\ caller' = "closing"
  /\ UNCHANGED <<flags, tid, thr, cancelled, call, waitCnt, result>>

StillRuns ==
  /\ caller = "deciding" /\ bRunning
  /\ caller' = "failing"
  /\ UNCHANGED <<flags, tid, thr, cancelled, call, waitCnt, result>>

\* Mutant: delete goes on to close the struct of a thread that it did not cancel.
CancelMut_Forgotten ==
  /\ caller = "failing" /\ call = "delete"
  /\ caller' = "clearing"
  /\ UNCHANGED <<flags, tid, thr, cancelled, call, waitCnt, result>>

\* Delete calls pthread_cancel for a thread that still runs, or that has ended since
\* it was looked at (ESRCH).
Cancel ==
  /\ caller = "failing" /\ call = "delete"
  /\ cancelled' = cancelled \cup {tid}
  /\ caller' = "clearing"
  /\ UNCHANGED <<flags, tid, thr, call, waitCnt, result>>

\* pthread_cancel returned another error: the struct is given up and the thread left.
CancelFails ==
  /\ caller = "failing" /\ call = "delete"
  /\ bValid' = FALSE
  /\ Return("error")
  /\ UNCHANGED <<bRunning, bShutDown, tid, thr, cancelled, call, waitCnt>>

\* The flag of a cancelled thread is cleared while the thread may still run.
ClearRunning ==
  /\ caller = "clearing"
  /\ bRunning' = FALSE
  /\ caller' = "closing"
  /\ UNCHANGED <<bValid, bShutDown, tid, thr, cancelled, call, waitCnt, result>>

Close ==
  /\ caller = "closing"
  /\ bValid' = FALSE
  /\ Return("success")
  /\ UNCHANGED <<bRunning, bShutDown, tid, thr, cancelled, call, waitCnt>>

\* Shutdown gives up.
GiveUp ==
  /\ caller = "failing" /\ call = "shutdown"
  /\ bValid' = FALSE
  /\ Return("error")
  /\ UNCHANGED <<bRunning, bShutDown, tid, thr, cancelled, call, waitCnt>>

-----------------------------------------------------------------------------
ThreadStep(i) == Start(i) \/ Finish(i) \/ Stop(i) \/ Die(i)

EndCall == \E c \in Calls, w \in Waits \cup {Forever} : EndStart(c, w)

\* The steps of a call that has begun.
Proceed ==
  \/ InitDone \/ Poll \/ PollEnd \/ Ended \/ StillRuns
  \/ Cancel \/ CancelFails \/ ClearRunning \/ Close \/ GiveUp

Next ==
  \/ InitCreate \/ InitFailed \/ EndCall \/ Proceed
  \/ \E i \in Ids : ThreadStep(i)

\* The scheduler runs the caller while it is in a call, and every pthread up to
\* and after the user's function; nothing is assumed of that function.
Fairness == WF_vars(Proceed) /\ \A i \in Ids : WF_vars(Start(i) \/ Stop(i))

Spec == Init /\ [][Next]_vars /\ Fairness

-----------------------------------------------------------------------------
\* Every variable has its type.
TypeOK ==
  /\ bValid \in BOOLEAN /\ bRunning \in BOOLEAN /\ bShutDown \in BOOLEAN
  /\ tid \in 0 .. MaxThreads /\ cancelled \subseteq Ids
  /\ thr \in [Ids -> {"none", "created", "running", "leaving", "ended"}]
  /\ caller \in {"idle", "creating", "polling", "deciding", "failing", "clearing", "closing"}
  /\ call \in {"none", "init"} \cup Calls
  /\ waitCnt \in Nat \cup {Forever}
  /\ result \in {"none", "success", "failed", "error"}

Reported(code) == caller = "idle" /\ call \in {"delete", "shutdown"} /\ result = code

\* A thread that was "successful deleted" does not run any more, or was cancelled
\* when it had to be deleted.  A delete whose pthread_cancel fails reports an error.
DownIsDown ==
  Reported("success") => Alive \subseteq (IF call = "delete" THEN cancelled ELSE {})

\* While the struct is valid, bRunning is true of its own thread, up to the moment in
\* which a delete cancels it: from then on the thread may run with bRunning cleared, or
\* have died with bRunning set, until the delete makes the struct invalid.
RunningIsTrue ==
  bValid =>
    \/ bRunning <=> thr[tid] \in {"running", "leaving"}
    \/ tid \in cancelled /\ call = "delete" /\ caller \in {"clearing", "closing"}

\* A thread is only told to shut down by a call made for it, never by one that
\* was made for an earlier thread on the same struct.
ToldByCall == bShutDown /\ bValid => call \in Calls

\* The two flags of the struct that thread and callers share without a lock.
FlagsTrue == RunningIsTrue /\ ToldByCall

\* Every call returns: within its time whatever the thread does, and when it
\* waits forever, once the user's function has returned.
CallReturns ==
  (caller # "idle" /\ (waitCnt # Forever \/ thr[tid] = "leaving")) ~> caller = "idle"

\* After a shutdown in vain the "thread struct still exists".
ShutdownKeepsStruct == call = "shutdown" /\ Reported("error") => bValid

\* RunningIsTrue without its exception: a valid struct says whether its thread runs.
RunningExact == bValid => (bRunning <=> thr[tid] \in {"running", "leaving"})
=============================================================================
