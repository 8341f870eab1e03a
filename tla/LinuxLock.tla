------------------------------ MODULE LinuxLock ------------------------------
(***************************************************************************)
(* The lock of linux/ifxos_linux_lock_appl.c as it is built by default, on a *)
(* POSIX semaphore (USE_PHTREAD_SEM = 1), with the owner that its system     *)
(* object records.  The owner is recorded after sem_wait and erased after    *)
(* sem_post, both outside the protection of the semaphore; these are steps   *)
(* of their own here.                                                       *)
(*                                                                         *)
(* Time passes in ticks, Second of them in a second; frac is the tv_nsec of  *)
(* the real-time clock.  Threads are lawful clients: they release what they  *)
(* hold, do not wait forever for what they hold ("recursive calls are not    *)
(* allowed"), and delete the lock when none of them uses it.                *)
(***************************************************************************)
EXTENDS Naturals, FiniteSets

CONSTANTS
  Threads,
  Second,    \* the ticks of one second
  Timeouts,  \* the finite timeout_ms of the callers, in ticks
  Forever,   \* 0xFFFFFFFF, and the timeout of IFXOS_LockGet
  NoOne,     \* the owner thread -1
  Signals    \* whether a signal may interrupt a wait

\* What is assumed of the constants.
LockAssumption ==
  /\ Second \in Nat \ {0}
  /\ Timeouts \subseteq Nat /\ Forever \notin Nat
  /\ NoOne \notin Threads
  /\ Signals \in BOOLEAN

VARIABLES
  valid,     \* bValid
  sem,       \* the value of the semaphore
  ownerThr,  \* pSysObject->ownerThr.thrId
  frac,      \* tv_nsec of the clock, in ticks
  holder,    \* the threads that took the semaphore and did not post it yet
  pc,        \* where a thread is in LockTimedGet or LockRelease
  timeout,   \* timeout_ms of its last LockTimedGet
  left,      \* the ticks of that timeout still to wait
  nsec,      \* t.tv_nsec of the deadline it waits for
  result     \* what that call returned

locals == <<timeout, left, nsec, result>>
vars == <<valid, sem, ownerThr, frac, holder, pc, locals>>

\* Outside, in the semaphore's wait, before and after the owner is noted.
Places == {"idle", "waiting", "taken", "posted"}

\* The results: none yet, IFX_SUCCESS, and IFX_ERROR with the lock not valid,
\* with return code 1 and with return code 0.
Results == {"none", "got", "refused", "timeout", "error"}

Init ==
  /\ valid = FALSE /\ sem = 0 /\ ownerThr = NoOne /\ frac = 0 /\ holder = {}
  /\ pc = [t \in Threads |-> "idle"]
  /\ timeout = [t \in Threads |-> Forever]
  /\ left = [t \in Threads |-> 0] /\ nsec = [t \in Threads |-> 0]
  /\ result = [t \in Threads |-> "none"]

Goto(t, place) == pc' = [pc EXCEPT ![t] = place]

-----------------------------------------------------------------------------
LockInit ==
  /\ ~valid
  /\ valid' = TRUE /\ sem' = 1
  /\ UNCHANGED <<ownerThr, frac, holder, pc, locals>>

LockDelete ==
  /\ valid /\ holder = {} /\ \A t \in Threads : pc[t] = "idle"
  /\ valid' = FALSE
  /\ UNCHANGED <<sem, ownerThr, frac, holder, pc, locals>>

\* The clock; a thread that waits comes nearer to its deadline.
Tick ==
  /\ frac' = (frac + 1) % Second
  /\ left' = [t \in Threads |->
                IF pc[t] = "waiting" /\ left[t] > 0 THEN left[t] - 1 ELSE left[t]]
  /\ UNCHANGED <<valid, sem, ownerThr, holder, pc, timeout, nsec, result>>

-----------------------------------------------------------------------------
(* LockGet and LockTimedGet.                                               *)

\* The tv_nsec of the deadline: the carry into tv_sec is left out.
Deadline(w) == IF w \in {0, Forever} THEN 0 ELSE frac + (w % Second)

GetRefused(t, w) ==
  /\ pc[t] = "idle" /\ ~valid
  /\ timeout' = [timeout EXCEPT ![t] = w]
  /\ result' = [result EXCEPT ![t] = "refused"]
  /\ UNCHANGED <<valid, sem, ownerThr, frac, holder, pc, left, nsec>>

\* Mutant: the caller is put on record before it has the semaphore.
GetStartMut_OwnerFirst(t, w) ==
  /\ pc[t] = "idle" /\ valid /\ (t \in holder => w # Forever)
  /\ timeout' = [timeout EXCEPT ![t] = w]
  /\ left' = [left EXCEPT ![t] = IF w = Forever THEN 0 ELSE w]
  /\ nsec' = [nsec EXCEPT ![t] = Deadline(w)]
  /\ result' = [result EXCEPT ![t] = "none"]
  /\ ownerThr' = t
  /\ Goto(t, "waiting")
  /\ UNCHANGED <<valid, sem, frac, holder>>

GetStart(t, w) ==
  /\ pc[t] = "idle" /\ valid /\ (t \in holder => w # Forever)
  /\ timeout' = [timeout EXCEPT ![t] = w]
  /\ left' = [left EXCEPT ![t] = IF w = Forever THEN 0 ELSE w]
  /\ nsec' = [nsec EXCEPT ![t] = Deadline(w)]
  /\ result' = [result EXCEPT ![t] = "none"]
  /\ Goto(t, "waiting")
  /\ UNCHANGED <<valid, sem, ownerThr, frac, holder>>

\* sem_wait, sem_trywait and sem_timedwait when the semaphore can be taken; the
\* last may also reject an invalid deadline first, see Rejected.
Take(t) ==
  /\ pc[t] = "waiting" /\ sem > 0
  /\ sem' = sem - 1 /\ holder' = holder \cup {t}
  /\ Goto(t, "taken")
  /\ UNCHANGED <<valid, ownerThr, frac, locals>>

SetOwner(t) ==
  /\ pc[t] = "taken"
  /\ ownerThr' = t
  /\ result' = [result EXCEPT ![t] = "got"]
  /\ nsec' = [nsec EXCEPT ![t] = 0]
  /\ Goto(t, "idle")
  /\ UNCHANGED <<valid, sem, frac, holder, timeout, left>>

\* Mutant: the failing call gives back a semaphore it never took.
FailMut_Posts(t, code) ==
  /\ pc[t] = "waiting"
  /\ sem' = sem + 1
  /\ result' = [result EXCEPT ![t] = code]
  /\ nsec' = [nsec EXCEPT ![t] = 0]
  /\ Goto(t, "idle")
  /\ UNCHANGED <<valid, ownerThr, frac, holder, timeout, left>>

Fail(t, code) ==
  /\ pc[t] = "waiting"
  /\ result' = [result EXCEPT ![t] = code]
  /\ nsec' = [nsec EXCEPT ![t] = 0]
  /\ Goto(t, "idle")
  /\ UNCHANGED <<valid, sem, ownerThr, frac, holder, timeout, left>>

\* Mutant: sem_wait is called for a timeout of 0 as well.
TryFailsMut_Waits(t) == timeout[t] = 0 /\ sem = 0 /\ FALSE

\* sem_trywait with the semaphore taken.
TryFails(t) == timeout[t] = 0 /\ sem = 0 /\ Fail(t, "error")

\* A deadline lies in the past.
Due(t) == timeout[t] \notin {0, Forever} /\ nsec[t] < Second /\ left[t] = 0

\* ETIMEDOUT, which may race a sem_post.
TimedOut(t) == Due(t) /\ Fail(t, "timeout")

\* EINVAL: a tv_nsec of a second or more is no valid time.
Rejected(t) == nsec[t] >= Second /\ Fail(t, "error")

\* Mutant: an interrupted wait is taken for one that got the lock.
InterruptedMut_Success(t) == Signals /\ timeout[t] # 0 /\ Fail(t, "got")

\* EINTR
Interrupted(t) == Signals /\ timeout[t] # 0 /\ Fail(t, "error")

-----------------------------------------------------------------------------
(* LockRelease.                                                            *)
Post(t) ==
  /\ pc[t] = "idle" /\ valid /\ t \in holder
  /\ sem' = sem + 1 /\ holder' = holder \ {t}
  /\ Goto(t, "posted")
  /\ UNCHANGED <<valid, ownerThr, frac, locals>>

ClearOwner(t) ==
  /\ pc[t] = "posted"
  /\ ownerThr' = NoOne
  /\ Goto(t, "idle")
  /\ UNCHANGED <<valid, sem, frac, holder, locals>>

-----------------------------------------------------------------------------
\* The steps of a call that has begun.
Proceed(t) ==
  \/ Take(t) \/ SetOwner(t) \/ ClearOwner(t)
  \/ TryFails(t) \/ TimedOut(t) \/ Rejected(t)

Next ==
  \/ LockInit \/ LockDelete \/ Tick
  \/ \E t \in Threads :
       \/ \E w \in Timeouts \cup {Forever} : GetRefused(t, w) \/ GetStart(t, w)
       \/ Proceed(t) \/ Interrupted(t) \/ Post(t)

\* The clock runs and the scheduler runs every thread that is inside a call; no
\* thread has to release what it holds, and no waiting thread is preferred.
Fairness == WF_vars(Tick) /\ \A t \in Threads : WF_vars(Proceed(t))

Spec == Init /\ [][Next]_vars /\ Fairness

-----------------------------------------------------------------------------
\* Every variable has its type.
TypeOK ==
  /\ valid \in BOOLEAN /\ sem \in Nat /\ ownerThr \in Threads \cup {NoOne}
  /\ frac \in 0 .. Second - 1 /\ holder \subseteq Threads
  /\ pc \in [Threads -> Places] /\ result \in [Threads -> Results]
  /\ timeout \in [Threads -> Timeouts \cup {Forever}]
  /\ left \in [Threads -> Nat] /\ nsec \in [Threads -> Nat]

\* The lock is held by at most one thread, it is never lost by a call that
\* failed, and it can be taken whenever nobody holds it.
OneHolder == valid => sem + Cardinality(holder) = 1

\* The recorded owner may be missing but is never a bystander: whom it names
\* holds the lock or is about to erase the record.  A thread that finds itself
\* there on calling LockGet, which is counted as a recursive call, does hold it.
OwnerNotWrong == \A t \in Threads : ownerThr = t => t \in holder \/ pc[t] = "posted"

\* The lock and its record of the owner (IFXOS_LockGet, TimedGet and Release).
HolderTrue == OneHolder /\ OwnerNotWrong

\* What the lock is to its users: how often each holds it, who waits and what everyone was
\* told.
Holds == [t \in Threads |-> IF t \in holder THEN 1 ELSE 0]
Asleep == {t \in Threads : pc[t] = "waiting"}
Told == [t \in Threads |->
  IF pc[t] = "taken" \/ result[t] = "got" THEN "success"
  ELSE IF result[t] = "none" THEN "none" ELSE "error"]

Promise == INSTANCE LockPromise WITH
  Users <- Threads, kind <- "exclusive", open <- valid,
  holds <- Holds, waiting <- Asleep, told <- Told

\* Whoever is told success has the lock and nobody else has, and whoever is told an
\* error was not given it, whatever ran out, was rejected or interrupted.
PromiseKept == Promise!Spec

\* A call with a finite timeout returns, whoever holds the lock and for however long.
TimedGetReturns ==
  \A t \in Threads : (pc[t] = "waiting" /\ timeout[t] # Forever) ~> pc[t] # "waiting"

\* A thread that has got the lock is on record as "the thread which currently
\* owns the object".
OwnerOnRecord == \A t \in holder : pc[t] # "taken" => ownerThr = t

\* A finite timeout other than 0 is "waiting for specified amount of milliseconds".
WaitsItsTime ==
  \A t \in Threads : timeout[t] \in Timeouts /\ result[t] = "error" => left[t] = 0

\* "For timeout the return code is set to 1", also for the timeout 0.
TimeoutReported ==
  \A t \in Threads : timeout[t] = 0 => result[t] # "error"

\* LockGet is "not interuptable": it does not fail on a valid lock.
GetSucceeds == \A t \in Threads : timeout[t] = Forever => result[t] # "error"
=============================================================================
