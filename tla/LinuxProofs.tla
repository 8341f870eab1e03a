----------------------------- MODULE LinuxProofs -----------------------------
(***************************************************************************)
(* The thread and the lock of the Linux application, and the system objects    *)
(* that they and the FIFOs draw.                                            *)
(*                                                                         *)
(* A thread that was reported down is down, for any number of threads and any *)
(* waits, when the caller lets a thread begin before it ends it and uses a    *)
(* struct again only after a cancelled thread has died.  Flags that nothing   *)
(* protects tell the truth only because at most one thread may write them:    *)
(* that is the invariant.                                                  *)
(*                                                                         *)
(* The lock excludes, and its record of the owner is true, for any number of  *)
(* threads and any timeouts, with interrupted and rejected waits.  The record *)
(* is written and erased outside the semaphore, so that its invariant has to  *)
(* say where in a call each thread may be.                                  *)
(*                                                                         *)
(* An entry of the table of system objects never has two owners, and the two  *)
(* counts kept with and without the lock agree with the owners, for any users, *)
(* any length of the table and with interrupted waits.  That needs that what  *)
(* is held is marked, and that nothing is held while the table is down.        *)
(***************************************************************************)
EXTENDS LinuxThread, MCLinuxLock, MCSysObject, FiniteSetTheorems, TLAPS

-----------------------------------------------------------------------------
(* The thread.                                                              *)

\* How a careful caller uses the struct.
Careful == ~Early /\ ~Reuse

Working == {"running", "leaving"}

\* The places of a call that ends a thread.
Ending == {"polling", "deciding", "failing", "clearing", "closing"}

\* The struct is in use: it is valid or about to become so.
InUse == bValid \/ caller = "creating"

\* The threads created are the first tid, and there is one when the struct is in use.
Numbered ==
  /\ \A i \in Ids : thr[i] # "none" \/ i \in cancelled => i <= tid
  /\ InUse => tid \in Ids /\ thr[tid] # "none"
  /\ caller \in Ending => bValid /\ thr[tid] # "created" /\ call \in Calls
  /\ caller = "creating" => ~bValid
  /\ InUse /\ caller \notin Ending => call = "init"

\* While the struct is in use only its own thread lives, and only a delete about to close
\* the struct has cancelled that.
OneWriter ==
  InUse =>
    /\ Alive \subseteq {tid}
    /\ tid \in cancelled => call = "delete" /\ caller \in {"clearing", "closing"}

\* The flag is true of a thread that is not cancelled.
Truth == InUse /\ tid \notin cancelled => (bRunning <=> thr[tid] \in Working)

\* A call about to clear or close the struct has cancelled the thread or seen it ended.
Closing ==
  /\ caller = "clearing" => tid \in cancelled
  /\ caller = "closing" /\ tid \notin cancelled => thr[tid] = "ended"

\* A struct that is free has left a thread alive only when the caller was told so, or
\* when the thread was cancelled.
FreeIsDown ==
  ~InUse /\ result # "error" =>
    /\ Alive \subseteq cancelled
    /\ call = "shutdown" => Alive = {}

\* A shutdown flag in force was raised by a call.
Told == InUse /\ bShutDown => call \in Calls

IInv ==
  TypeOK /\ Numbered /\ OneWriter /\ Truth /\ Closing /\ FreeIsDown /\ Told

LEMMA InitInvariant == Init => IInv
<1> SUFFICES ASSUME Init PROVE IInv
  OBVIOUS
<1>1. TypeOK
  <2>1. thr \in [Ids -> {"none", "created", "running", "leaving", "ended"}]
    BY DEF Init
  <2>2. tid \in 0 .. MaxThreads /\ waitCnt \in Nat \cup {Forever}
    BY ThreadAssumption DEF Init
  <2> QED
    BY <2>1, <2>2 DEF Init, TypeOK
<1>2. Numbered /\ OneWriter /\ Truth /\ Closing /\ FreeIsDown /\ Told
  <2>1. Alive = {} /\ ~InUse
    BY DEF Init, Alive, InUse
  <2> QED
    BY <2>1 DEF Init, Numbered, OneWriter, Truth, Closing, FreeIsDown, Told, Ending
<1> QED
  BY <1>1, <1>2 DEF IInv

\* Every step keeps the types.
LEMMA Typing == TypeOK /\ Numbered /\ [Next]_vars => TypeOK'
<1> SUFFICES ASSUME TypeOK, Numbered, [Next]_vars PROVE TypeOK'
  OBVIOUS
<1> USE ThreadAssumption DEF TypeOK
<1>1. CASE InitCreate
  <2>1. tid' \in 0 .. MaxThreads
    BY <1>1 DEF InitCreate, MayInit
  <2>2. thr' \in [Ids -> {"none", "created", "running", "leaving", "ended"}]
    BY <1>1 DEF InitCreate, Becomes
  <2> QED
    BY <1>1, <2>1, <2>2 DEF InitCreate
<1>2. CASE InitFailed \/ InitDone
  BY <1>2 DEF InitFailed, InitDone, Return
<1>3. CASE EndCall
  BY <1>3 DEF EndCall, EndStart
<1>4. CASE Poll \/ PollEnd
  BY <1>4 DEF Poll, PollEnd, flags
<1>5. CASE Ended \/ StillRuns \/ CancelFails \/ ClearRunning \/ Close \/ GiveUp
  BY <1>5 DEF Ended, StillRuns, CancelFails, ClearRunning, Close, GiveUp, Return, flags
<1>6. CASE Cancel
  <2>1. tid \in Ids
    BY <1>6 DEF Cancel, Numbered, InUse, Ending
  <2> QED
    BY <1>6, <2>1 DEF Cancel, flags
<1>7. CASE \E i \in Ids : ThreadStep(i)
  BY <1>7 DEF ThreadStep, Start, Finish, Stop, Die, Becomes, flags, control
<1>8. CASE UNCHANGED vars
  BY <1>8 DEF vars, flags, control
<1> QED
  BY <1>1, <1>2, <1>3, <1>4, <1>5, <1>6, <1>7, <1>8 DEF Next, Proceed

\* An init finds no thread that could still write to the struct.
LEMMA InitInvariantStep ==
  ASSUME Careful, IInv, InitCreate \/ InitFailed \/ InitDone
  PROVE  IInv'
<1>1. TypeOK'
  BY Typing DEF IInv, Next, Proceed
<1>2. CASE InitCreate
  <2>1. ~InUse /\ result # "error" /\ tid \in Nat /\ tid < MaxThreads
    BY <1>2 DEF InitCreate, MayInit, InUse, IInv, TypeOK
  <2>2. Alive = {}
    BY <1>2, <2>1 DEF InitCreate, MayInit, Careful, IInv, FreeIsDown
  <2>3. tid' = tid + 1 /\ tid' \in Ids /\ thr' = [thr EXCEPT ![tid'] = "created"]
    BY <1>2, <2>1, ThreadAssumption DEF InitCreate, Becomes, Ids
  <2>4. thr[tid'] = "none" /\ tid' \notin cancelled
    BY <2>1, <2>3 DEF IInv, Numbered, TypeOK
  <2>5. Numbered'
    BY <1>2, <2>1, <2>3, ThreadAssumption
    DEF InitCreate, IInv, TypeOK, Numbered, InUse, Ending, Ids
  <2>6. Alive' \subseteq {tid'}
    BY <2>2, <2>3 DEF Alive, IInv, TypeOK
  <2> QED
    BY <1>1, <1>2, <2>3, <2>4, <2>5, <2>6
    DEF InitCreate, IInv, TypeOK, OneWriter, Truth, Closing, FreeIsDown, Told, InUse, Working
<1>3. CASE InitFailed
  <2>1. /\ ~InUse /\ result # "error" /\ ~InUse' /\ thr' = thr /\ tid' = tid
        /\ caller' = "idle"
    BY <1>3 DEF InitFailed, MayInit, Return, InUse
  <2>2. Alive' = {} /\ cancelled' = cancelled
    BY <1>3, <2>1 DEF InitFailed, MayInit, Careful, IInv, FreeIsDown, Alive
  <2>3. Numbered'
    BY <1>3, <2>1 DEF InitFailed, MayInit, Return, IInv, Numbered, Ending
  <2> QED
    BY <1>1, <2>1, <2>2, <2>3 DEF IInv, OneWriter, Truth, Closing, FreeIsDown, Told
<1>4. CASE InitDone
  <2>1. InUse /\ InUse' /\ call = "init" /\ bValid' = TRUE /\ caller' = "idle"
    BY <1>4 DEF InitDone, Return, InUse, IInv, Numbered
  <2>2. UNCHANGED <<bRunning, bShutDown, tid, thr, cancelled, call>> /\ Alive' = Alive
    BY <1>4 DEF InitDone, Alive
  <2> QED
    BY <1>1, <2>1, <2>2
    DEF IInv, Numbered, OneWriter, Truth, Closing, FreeIsDown, Told, Ending
<1> QED
  BY <1>2, <1>3, <1>4

\* Beginning a call and polling change nothing but the call.
LEMMA PollInvariant ==
  ASSUME Careful, IInv, EndCall \/ Poll \/ PollEnd \/ StillRuns
  PROVE  IInv'
<1>1. TypeOK'
  BY Typing DEF IInv, Next, Proceed
<1>2. /\ UNCHANGED <<bValid, bRunning, tid, thr, cancelled, result>>
      /\ InUse /\ InUse' /\ call' \in Calls /\ Alive' = Alive
      /\ {caller, caller'} \subseteq {"idle", "polling", "deciding", "failing"}
  BY DEF EndCall, EndStart, Poll, PollEnd, StillRuns, flags, InUse, IInv, Numbered, Ending, Alive
<1>3. Numbered'
  BY <1>2 DEF EndCall, EndStart, Poll, PollEnd, StillRuns, flags, Careful, IInv, Numbered, Ending
<1> QED
  BY <1>1, <1>2, <1>3 DEF IInv, OneWriter, Truth, Closing, FreeIsDown, Told

\* A call that closes the struct has seen the thread ended, or has cancelled it.
LEMMA EndInvariant ==
  ASSUME Careful, IInv, Ended \/ Cancel \/ ClearRunning
  PROVE  IInv'
<1>1. TypeOK'
  BY Typing DEF IInv, Next, Proceed
<1>2. /\ UNCHANGED <<bValid, bShutDown, tid, thr, call, result>>
      /\ caller \in Ending /\ caller' \in {"clearing", "closing"} /\ Alive' = Alive
      /\ InUse /\ InUse' /\ tid \in Ids /\ thr[tid] \notin {"none", "created"}
  BY DEF Ended, Cancel, ClearRunning, InUse, Alive, flags, IInv, Numbered, Ending
<1>3. Numbered'
  BY <1>2, ThreadAssumption
  DEF Ended, Cancel, ClearRunning, IInv, TypeOK, Numbered, Ending, InUse
<1>4. OneWriter' /\ Truth' /\ Closing'
  <2>1. CASE Ended
    <3>1. UNCHANGED <<bRunning, cancelled>> /\ ~bRunning /\ caller' = "closing"
          /\ tid \notin cancelled
      BY <1>2, <2>1 DEF Ended, flags, IInv, OneWriter
    <3>2. thr[tid] = "ended"
      BY <1>2, <3>1 DEF IInv, Truth, Working, TypeOK
    <3> QED
      BY <1>2, <3>1, <3>2 DEF IInv, OneWriter, Truth, Closing
  <2>2. CASE Cancel
    BY <1>2, <2>2 DEF Cancel, flags, IInv, OneWriter, Truth, Closing
  <2>3. CASE ClearRunning
    BY <1>2, <2>3 DEF ClearRunning, IInv, OneWriter, Truth, Closing
  <2> QED
    BY <2>1, <2>2, <2>3
<1> QED
  BY <1>1, <1>2, <1>3, <1>4 DEF IInv, FreeIsDown, Told

\* A call that returns leaves the struct free.
LEMMA ReturnInvariant ==
  ASSUME Careful, IInv, Close \/ CancelFails \/ GiveUp
  PROVE  IInv'
<1>1. TypeOK'
  BY Typing DEF IInv, Next, Proceed
<1>2. /\ UNCHANGED <<tid, thr, cancelled, call>> /\ caller' = "idle" /\ ~InUse'
      /\ Alive' = Alive /\ InUse /\ tid \in Ids
  BY DEF Close, CancelFails, GiveUp, Return, InUse, Alive, IInv, Numbered, Ending
<1>3. Numbered'
  BY <1>2, ThreadAssumption
  DEF Close, CancelFails, GiveUp, IInv, TypeOK, Numbered, Ending
<1>4. FreeIsDown'
  <2>1. CASE Close
    <3>1. Alive \subseteq {tid} /\ (tid \in Alive => tid \in cancelled /\ call = "delete")
      BY <1>2, <2>1 DEF Close, IInv, OneWriter, Closing, Alive
    <3> QED
      BY <1>2, <3>1 DEF FreeIsDown
  <2>2. CASE CancelFails \/ GiveUp
    BY <2>2 DEF CancelFails, GiveUp, Return, FreeIsDown
  <2> QED
    BY <2>1, <2>2
<1> QED
  BY <1>1, <1>2, <1>3, <1>4 DEF IInv, OneWriter, Truth, Closing, Told

\* A thread that runs writes the flag of its own struct only.
LEMMA ThreadInvariant ==
  ASSUME IInv, NEW i \in Ids, ThreadStep(i)
  PROVE  IInv'
<1>1. TypeOK'
  BY Typing DEF IInv, Next
<1>2. /\ UNCHANGED <<bValid, bShutDown, tid, cancelled, caller, call, result>>
      /\ (InUse' <=> InUse) /\ i \in Alive
      /\ \E s \in {"running", "leaving", "ended"} : thr' = [thr EXCEPT ![i] = s]
  BY DEF ThreadStep, Start, Finish, Stop, Die, Becomes, flags, control, InUse, Alive
<1>3. Alive' \subseteq Alive
  BY <1>2 DEF IInv, TypeOK, Alive
<1>4. Numbered'
  BY <1>2 DEF IInv, TypeOK, Numbered, Alive, Ending
<1>5. OneWriter' /\ Closing' /\ FreeIsDown' /\ Told'
  BY <1>2, <1>3 DEF IInv, TypeOK, Numbered, InUse, Ending, OneWriter, Closing, FreeIsDown, Told, Alive
<1>6. Truth'
  <2> SUFFICES ASSUME InUse, tid \notin cancelled
      PROVE bRunning' <=> thr'[tid] \in Working
    BY <1>2 DEF Truth
  <2>1. i = tid /\ i \notin cancelled
    BY <1>2 DEF IInv, OneWriter
  <2>2. bRunning <=> thr[tid] \in Working
    BY DEF IInv, Truth
  <2> QED
    BY <2>1, <2>2
    DEF ThreadStep, Start, Finish, Stop, Die, Becomes, flags, Working, IInv, TypeOK
<1> QED
  BY <1>1, <1>4, <1>5, <1>6 DEF IInv

\* Every behaviour under a careful caller keeps the invariant.
LEMMA Invariant ==
  ASSUME Careful
  PROVE  Spec => []IInv
<1>1. IInv /\ [Next]_vars => IInv'
  <2> SUFFICES ASSUME IInv, [Next]_vars PROVE IInv'
    OBVIOUS
  <2>1. CASE UNCHANGED vars
    BY <2>1
    DEF vars, flags, control, IInv, TypeOK, Numbered, OneWriter, Truth, Closing, FreeIsDown, Told,
        InUse, Alive
  <2>2. ASSUME NEW i \in Ids, ThreadStep(i) PROVE IInv'
    BY <2>2, ThreadInvariant
  <2> QED
    BY <2>1, <2>2, InitInvariantStep, PollInvariant, EndInvariant,
       ReturnInvariant DEF Next, Proceed
<1> QED
  BY <1>1, InitInvariant, PTL DEF Spec

\* A thread that a call reports as deleted or shut down does not run any more, or was
\* cancelled because it did not end in time; for every number of threads.
THEOREM ThreadDown ==
  ASSUME Careful
  PROVE  Spec => []DownIsDown
<1>1. IInv => DownIsDown
  <2> SUFFICES ASSUME IInv, Reported("success")
      PROVE Alive \subseteq (IF call = "delete" THEN cancelled ELSE {})
    BY DEF DownIsDown
  <2>1. ~InUse /\ result # "error"
    BY DEF Reported, IInv, Numbered, Ending
  <2> QED
    BY <2>1 DEF IInv, FreeIsDown, Reported
<1> QED
  BY <1>1, Invariant, PTL

\* As long as the struct is valid its flag is true of its thread, unless a delete has
\* cancelled that and is about to close the struct.
THEOREM ThreadFlag ==
  ASSUME Careful
  PROVE  Spec => []RunningIsTrue
<1>1. IInv => RunningIsTrue
  BY DEF IInv, OneWriter, Truth, InUse, RunningIsTrue, Working
<1> QED
  BY <1>1, Invariant, PTL

\* A thread is told to shut down only by a call made for it.
THEOREM ThreadTold ==
  ASSUME Careful
  PROVE  Spec => []ToldByCall
<1>1. IInv => ToldByCall
  BY DEF IInv, Told, InUse, ToldByCall
<1> QED
  BY <1>1, Invariant, PTL

\* Every variable of the thread's struct and its callers keeps its type.
THEOREM LinuxThreadTypes ==
  ASSUME Careful
  PROVE  Spec => []TypeOK
<1>1. IInv => TypeOK
  BY DEF IInv
<1> QED
  BY <1>1, Invariant, PTL

\* Both flags of a valid struct are true of the thread that runs on it.
THEOREM ThreadFlags ==
  ASSUME Careful
  PROVE  Spec => []FlagsTrue
<1>1. RunningIsTrue /\ ToldByCall => FlagsTrue
  BY DEF FlagsTrue
<1> QED
  BY <1>1, ThreadFlag, ThreadTold, PTL

-----------------------------------------------------------------------------
(* The lock.                                                                *)

\* Who has taken the semaphore holds it, who has posted it does not, and a lock
\* that is not valid is not in use.
LockPlaced ==
  /\ \A t \in Threads : pc[t] = "taken" => t \in holder
  /\ \A t \in Threads : pc[t] = "posted" => t \notin holder
  /\ ~valid => holder = {} /\ \A t \in Threads : pc[t] = "idle"

\* OneHolder without a cardinality.
LockExclusion ==
  valid => \/ sem = 1 /\ holder = {}
           \/ sem = 0 /\ \E t \in Threads : holder = {t}

LockIInv == Lock!TypeOK /\ LockPlaced /\ LockExclusion /\ Lock!OwnerNotWrong

\* What the proofs use of the lock's constants.
LEMMA LockFacts ==
  /\ Second \in Nat \ {0}
  /\ Timeouts \subseteq Nat /\ Endless \notin Nat
  /\ NoOne \notin Threads
BY LockConstants DEF Lock!LockAssumption

\* A ticking clock stays within its second, and no deadline is negative.
LEMMA ClockFacts ==
  /\ \A n \in Nat : n % Second \in 0 .. Second - 1
  /\ \A f \in 0 .. Second - 1 : (f + 1) % Second \in 0 .. Second - 1
  /\ \A f \in 0 .. Second - 1, n \in Nat : f + (n % Second) \in Nat
BY LockFacts

\* The invariant holds before LockInit.
LEMMA LockInitInvariant == Lock!Init => LockIInv
<1> SUFFICES ASSUME Lock!Init PROVE LockIInv
  OBVIOUS
<1>1. Lock!TypeOK
  <2>1. frac \in 0 .. Second - 1
    BY LockFacts DEF Lock!Init
  <2>2. pc \in [Threads -> Lock!Places] /\ answer \in [Threads -> Lock!Results]
    BY DEF Lock!Init, Lock!Places, Lock!Results
  <2>3. timeout \in [Threads -> Timeouts \cup {Endless}]
        /\ left \in [Threads -> Nat] /\ nsec \in [Threads -> Nat]
    BY DEF Lock!Init
  <2> QED
    BY <2>1, <2>2, <2>3 DEF Lock!Init, Lock!TypeOK
<1>2. LockPlaced /\ LockExclusion /\ Lock!OwnerNotWrong
  BY LockFacts DEF Lock!Init, LockPlaced, LockExclusion, Lock!OwnerNotWrong
<1> QED
  BY <1>1, <1>2 DEF LockIInv

\* Steps that leave the semaphore, its holder and the record alone, and move a
\* thread at most between "idle" and "waiting" of a valid lock.
LEMMA Bystander ==
  ASSUME LockIInv, Lock!TypeOK', UNCHANGED <<valid, sem, ownerThr, holder>>,
         \/ UNCHANGED pc
         \/ valid /\ \E t \in Threads, next \in {"idle", "waiting"} :
              pc[t] \in {"idle", "waiting"} /\ pc' = [pc EXCEPT ![t] = next]
  PROVE  LockIInv'
<1>1. LockPlaced' /\ Lock!OwnerNotWrong'
  BY DEF LockIInv, Lock!TypeOK, LockPlaced, Lock!OwnerNotWrong
<1>2. LockExclusion'
  BY DEF LockIInv, LockExclusion
<1> QED
  BY <1>1, <1>2 DEF LockIInv

\* Starting the lock, deleting it and the passing of time.
LEMMA LockInvariant ==
  ASSUME LockIInv, Lock!LockInit \/ Lock!LockDelete \/ Lock!Tick
  PROVE  LockIInv'
<1>1. CASE Lock!LockInit
  <2>1. holder = {}
    BY <1>1 DEF LockIInv, LockPlaced, Lock!LockInit
  <2>2. Lock!TypeOK'
    BY <1>1 DEF LockIInv, Lock!TypeOK, Lock!LockInit, Lock!locals
  <2> QED
    BY <1>1, <2>1, <2>2 DEF LockIInv, LockPlaced, LockExclusion, Lock!OwnerNotWrong, Lock!LockInit
<1>2. CASE Lock!LockDelete
  <2>1. Lock!TypeOK'
    BY <1>2 DEF LockIInv, Lock!TypeOK, Lock!LockDelete, Lock!locals
  <2> QED
    BY <1>2, <2>1 DEF LockIInv, LockPlaced, LockExclusion, Lock!OwnerNotWrong, Lock!LockDelete
<1>3. CASE Lock!Tick
  <2>1. frac' \in 0 .. Second - 1
    BY <1>3, ClockFacts DEF LockIInv, Lock!TypeOK, Lock!Tick
  <2>2. left' \in [Threads -> Nat]
    BY <1>3 DEF LockIInv, Lock!TypeOK, Lock!Tick
  <2>3. Lock!TypeOK'
    BY <1>3, <2>1, <2>2 DEF LockIInv, Lock!TypeOK, Lock!Tick
  <2> QED
    BY <1>3, <2>3, Bystander DEF Lock!Tick
<1> QED
  BY <1>1, <1>2, <1>3

\* Calls that begin or fail.
LEMMA CallInvariant ==
  ASSUME LockIInv, NEW t \in Threads, NEW w \in Timeouts \cup {Endless},
         NEW code \in {"timeout", "error"},
         Lock!GetRefused(t, w) \/ Lock!GetStart(t, w) \/ Lock!Fail(t, code)
  PROVE  LockIInv'
<1>1. CASE Lock!GetRefused(t, w)
  <2>1. Lock!TypeOK'
    BY <1>1 DEF LockIInv, Lock!TypeOK, Lock!Results, Lock!GetRefused
  <2> QED
    BY <1>1, <2>1, Bystander DEF Lock!GetRefused
<1>2. CASE Lock!GetStart(t, w)
  <2>1. Lock!Deadline(w) \in Nat
    BY ClockFacts, LockFacts DEF LockIInv, Lock!TypeOK, Lock!Deadline
  <2>2. (IF w = Endless THEN 0 ELSE w) \in Nat
    BY LockFacts
  <2>3. Lock!TypeOK'
    BY <1>2, <2>1, <2>2 DEF LockIInv, Lock!TypeOK, Lock!Places, Lock!Results, Lock!GetStart, Lock!Goto
  <2>4. pc[t] = "idle" /\ valid /\ pc' = [pc EXCEPT ![t] = "waiting"]
        /\ UNCHANGED <<valid, sem, ownerThr, holder>>
    BY <1>2 DEF Lock!GetStart, Lock!Goto
  <2> QED
    BY <2>3, <2>4, Bystander
<1>3. CASE Lock!Fail(t, code)
  <2>1. Lock!TypeOK'
    BY <1>3 DEF LockIInv, Lock!TypeOK, Lock!Places, Lock!Results, Lock!Fail, Lock!Goto
  <2>2. pc[t] = "waiting" /\ pc' = [pc EXCEPT ![t] = "idle"]
        /\ UNCHANGED <<valid, sem, ownerThr, holder>>
    BY <1>3 DEF Lock!Fail, Lock!Goto
  <2>3. valid
    BY <2>2 DEF LockIInv, LockPlaced
  <2> QED
    BY <2>1, <2>2, <2>3, Bystander
<1> QED
  BY <1>1, <1>2, <1>3

\* Taking and posting the semaphore, and noting and erasing the owner.
LEMMA OwnerInvariant ==
  ASSUME LockIInv, NEW t \in Threads,
         Lock!Take(t) \/ Lock!SetOwner(t) \/ Lock!Post(t) \/ Lock!ClearOwner(t)
  PROVE  LockIInv'
<1>1. CASE Lock!Take(t)
  <2>1. valid /\ sem = 1 /\ holder = {}
    BY <1>1 DEF LockIInv, LockPlaced, LockExclusion, Lock!Take
  <2>2. sem' = 0 /\ holder' = {t} /\ valid' = valid /\ ownerThr' = ownerThr
        /\ pc' = [pc EXCEPT ![t] = "taken"]
    BY <1>1, <2>1 DEF Lock!Take, Lock!Goto
  <2>3. Lock!TypeOK'
    BY <1>1, <2>2 DEF LockIInv, Lock!TypeOK, Lock!Places, Lock!Take, Lock!locals
  <2>4. LockPlaced' /\ LockExclusion' /\ Lock!OwnerNotWrong'
    BY <2>1, <2>2 DEF LockIInv, Lock!TypeOK, LockPlaced, LockExclusion, Lock!OwnerNotWrong
  <2> QED
    BY <2>3, <2>4 DEF LockIInv
<1>2. CASE Lock!SetOwner(t)
  <2>1. t \in holder /\ valid
    BY <1>2 DEF LockIInv, LockPlaced, Lock!SetOwner
  <2>2. Lock!TypeOK'
    BY <1>2 DEF LockIInv, Lock!TypeOK, Lock!Places, Lock!Results, Lock!SetOwner, Lock!Goto
  <2>3. LockPlaced' /\ LockExclusion' /\ Lock!OwnerNotWrong'
    BY <1>2, <2>1 DEF LockIInv, Lock!TypeOK, LockPlaced, LockExclusion, Lock!OwnerNotWrong, Lock!SetOwner, Lock!Goto
  <2> QED
    BY <2>2, <2>3 DEF LockIInv
<1>3. CASE Lock!Post(t)
  <2>1. valid /\ sem = 0 /\ holder = {t}
    BY <1>3 DEF LockIInv, LockExclusion, Lock!Post
  <2>2. sem' = 1 /\ holder' = {} /\ valid' = valid /\ ownerThr' = ownerThr
        /\ pc' = [pc EXCEPT ![t] = "posted"]
    BY <1>3, <2>1 DEF Lock!Post, Lock!Goto
  <2>3. Lock!TypeOK'
    BY <1>3, <2>2 DEF LockIInv, Lock!TypeOK, Lock!Places, Lock!Post, Lock!locals
  <2>4. LockPlaced' /\ LockExclusion' /\ Lock!OwnerNotWrong'
    BY <2>1, <2>2 DEF LockIInv, Lock!TypeOK, LockPlaced, LockExclusion, Lock!OwnerNotWrong
  <2> QED
    BY <2>3, <2>4 DEF LockIInv
<1>4. CASE Lock!ClearOwner(t)
  <2>1. valid
    BY <1>4 DEF LockIInv, LockPlaced, Lock!ClearOwner
  <2>2. Lock!TypeOK'
    BY <1>4 DEF LockIInv, Lock!TypeOK, Lock!Places, Lock!ClearOwner, Lock!Goto, Lock!locals
  <2>3. LockPlaced' /\ LockExclusion' /\ Lock!OwnerNotWrong'
    BY <1>4, <2>1, LockFacts
       DEF LockIInv, Lock!TypeOK, LockPlaced, LockExclusion, Lock!OwnerNotWrong, Lock!ClearOwner, Lock!Goto
  <2> QED
    BY <2>2, <2>3 DEF LockIInv
<1> QED
  BY <1>1, <1>2, <1>3, <1>4

\* Every behaviour of the lock keeps the invariant.
LEMMA LockKept == LockSpec => []LockIInv
<1>1. LockIInv /\ [Lock!Next]_(Lock!vars) => LockIInv'
  <2> SUFFICES ASSUME LockIInv, [Lock!Next]_(Lock!vars) PROVE LockIInv'
    OBVIOUS
  <2>1. CASE Lock!LockInit \/ Lock!LockDelete \/ Lock!Tick
    BY <2>1, LockInvariant
  <2>2. ASSUME NEW t \in Threads, NEW w \in Timeouts \cup {Endless},
               Lock!GetRefused(t, w) \/ Lock!GetStart(t, w)
        PROVE  LockIInv'
    BY <2>2, CallInvariant
  <2>3. ASSUME NEW t \in Threads, Lock!Proceed(t) \/ Lock!Interrupted(t) \/ Lock!Post(t)
        PROVE  LockIInv'
    <3>1. CASE Lock!TryFails(t) \/ Lock!TimedOut(t) \/ Lock!Rejected(t) \/ Lock!Interrupted(t)
      <4>1. PICK code \in {"timeout", "error"} : Lock!Fail(t, code)
        BY <3>1 DEF Lock!TryFails, Lock!TimedOut, Lock!Rejected, Lock!Interrupted
      <4>2. Endless \in Timeouts \cup {Endless}
        OBVIOUS
      <4> QED
        BY <4>1, <4>2, CallInvariant
    <3>2. CASE Lock!Take(t) \/ Lock!SetOwner(t) \/ Lock!ClearOwner(t) \/ Lock!Post(t)
      BY <3>2, OwnerInvariant
    <3> QED
      BY <2>3, <3>1, <3>2 DEF Lock!Proceed
  <2>4. CASE UNCHANGED Lock!vars
    <3>1. UNCHANGED <<valid, sem, ownerThr, frac, holder, pc, timeout, left, nsec, answer>>
      BY <2>4 DEF Lock!vars, Lock!locals
    <3>2. Lock!TypeOK'
      BY <3>1 DEF LockIInv, Lock!TypeOK
    <3> QED
      BY <3>1, <3>2, Bystander
  <2> QED
    BY <2>1, <2>2, <2>3, <2>4 DEF Lock!Next
<1> QED
  BY <1>1, LockInitInvariant, PTL DEF LockSpec, Lock!Spec

\* The lock excludes: it never has two holders, and is free when it has none.
THEOREM MutualExclusion == LockSpec => []Lock!OneHolder
<1>1. LockIInv => Lock!OneHolder
  <2> SUFFICES ASSUME LockIInv, valid PROVE sem + Cardinality(holder) = 1
    <3>1. Lock!Cardinality(holder) = Cardinality(holder)
      BY DEF Lock!Cardinality, Cardinality
    <3> QED
      BY <3>1 DEF Lock!OneHolder
  <2>1. CASE sem = 1 /\ holder = {}
    BY <2>1, FS_EmptySet
  <2>2. CASE sem = 0 /\ \E t \in Threads : holder = {t}
    <3>1. PICK t \in Threads : holder = {t}
      BY <2>2
    <3>2. Cardinality({t}) = 1
      BY FS_Singleton
    <3> QED
      BY <2>2, <3>1, <3>2
  <2> QED
    BY <2>1, <2>2 DEF LockIInv, LockExclusion
<1> QED
  BY <1>1, LockKept, PTL

\* The owner on record is never a thread that does not hold the lock, except for
\* the moment in which it is about to erase itself.
THEOREM OwnerRecord == LockSpec => []Lock!OwnerNotWrong
<1>1. LockIInv => Lock!OwnerNotWrong
  BY DEF LockIInv
<1> QED
  BY <1>1, LockKept, PTL

\* Every variable of the lock and its threads keeps its type.
THEOREM LinuxLockTypes == LockSpec => []Lock!TypeOK
<1>1. LockIInv => Lock!TypeOK
  BY DEF LockIInv
<1> QED
  BY <1>1, LockKept, PTL

\* The lock has one holder or is free, and its record names no bystander.
THEOREM HolderRight == LockSpec => []HolderTrue
<1>1. Lock!OneHolder /\ Lock!OwnerNotWrong => HolderTrue
  BY DEF HolderTrue, Lock!HolderTrue
<1> QED
  BY <1>1, MutualExclusion, OwnerRecord, PTL

\* No deadline lies across a second, and a call that failed on a valid lock has waited
\* until nothing was left, as has one that asked for no time.
InTime ==
  \A t \in Threads :
    /\ nsec[t] < Second
    /\ pc[t] = "waiting" /\ timeout[t] = 0 => left[t] = 0
    /\ answer[t] = "error" /\ timeout[t] \in Timeouts => left[t] = 0

\* IFXOS_LockTimedGet waits for timeouts of whole seconds in full, unless a signal comes:
\* their deadlines need no carry, which the code leaves out. A fraction of a second does,
\* and the wait may end at once.
THEOREM WholeSecondsWaited ==
  ASSUME ~Signals, \A w \in Timeouts : w % Second = 0
  PROVE  LockSpec => []WaitsItsTime
<1>1. Lock!Init => InTime
  BY LockFacts DEF Lock!Init, InTime
<1>2. LockIInv /\ InTime /\ [Lock!Next]_(Lock!vars) => InTime'
  <2> SUFFICES ASSUME LockIInv, InTime, [Lock!Next]_(Lock!vars) PROVE InTime'
    OBVIOUS
  <2>1. CASE Lock!Tick
    <3>1. \A t \in Threads : left[t] = 0 => left'[t] = 0
      BY <2>1 DEF Lock!Tick, LockIInv, Lock!TypeOK
    <3> QED
      BY <2>1, <3>1 DEF Lock!Tick, InTime
  <2>2. CASE Lock!LockInit \/ Lock!LockDelete \/ UNCHANGED Lock!vars
    BY <2>2 DEF Lock!LockInit, Lock!LockDelete, Lock!vars, Lock!locals, InTime
  <2>3. ASSUME NEW t \in Threads, NEW w \in Timeouts \cup {Endless}, Lock!GetRefused(t, w)
        PROVE  InTime'
    BY <2>3 DEF Lock!GetRefused, LockIInv, Lock!TypeOK, InTime
  <2>4. ASSUME NEW t \in Threads, NEW w \in Timeouts \cup {Endless}, Lock!GetStart(t, w)
        PROVE  InTime'
    <3>1. Lock!Deadline(w) < Second
      <4>1. CASE w \in {0, Endless}
        BY <4>1, LockFacts DEF Lock!Deadline
      <4>2. CASE w \notin {0, Endless}
        <5>1. w % Second = 0 /\ frac \in 0 .. Second - 1
          BY <4>2 DEF LockIInv, Lock!TypeOK
        <5> QED
          BY <4>2, <5>1, LockFacts DEF Lock!Deadline
      <4> QED
        BY <4>1, <4>2
    <3> QED
      BY <2>4, <3>1 DEF Lock!GetStart, Lock!Goto, LockIInv, Lock!TypeOK, InTime
  <2>5. ASSUME NEW t \in Threads, Lock!TryFails(t) \/ Lock!TimedOut(t) PROVE InTime'
    <3>1. PICK code \in {"timeout", "error"} :
            Lock!Fail(t, code) /\ (code = "error" => left[t] = 0)
      BY <2>5 DEF Lock!TryFails, Lock!TimedOut, Lock!Fail, InTime
    <3>2. /\ answer' = [answer EXCEPT ![t] = code] /\ nsec' = [nsec EXCEPT ![t] = 0]
          /\ pc' = [pc EXCEPT ![t] = "idle"] /\ UNCHANGED <<timeout, left>>
      BY <3>1 DEF Lock!Fail, Lock!Goto
    <3> QED
      BY <3>1, <3>2, LockFacts DEF LockIInv, Lock!TypeOK, InTime
  <2>6. ASSUME NEW t \in Threads PROVE ~Lock!Rejected(t) /\ ~Lock!Interrupted(t)
    BY LockFacts DEF Lock!Rejected, Lock!Interrupted, InTime, LockIInv, Lock!TypeOK
  <2>7. ASSUME NEW t \in Threads,
               Lock!Take(t) \/ Lock!SetOwner(t) \/ Lock!ClearOwner(t) \/ Lock!Post(t)
        PROVE  InTime'
    BY <2>7, LockFacts
    DEF Lock!Take, Lock!SetOwner, Lock!ClearOwner, Lock!Post, Lock!Goto, Lock!locals,
        LockIInv, Lock!TypeOK, InTime
  <2> QED
    BY <2>1, <2>2, <2>3, <2>4, <2>5, <2>6, <2>7 DEF Lock!Next, Lock!Proceed
<1>3. InTime => WaitsItsTime
  BY DEF InTime, WaitsItsTime, Lock!WaitsItsTime
<1> QED
  BY <1>1, <1>2, <1>3, LockKept, PTL DEF LockSpec, Lock!Spec

\* A step of thread t alone shows of t what it does and of the others nothing.
LEMMA LockShown ==
  ASSUME LockIInv, LockIInv', NEW t \in Threads,
         \A u \in Threads \ {t} : pc'[u] = pc[u] /\ answer'[u] = answer[u]
  PROVE  /\ Lock!Asleep' = (IF pc'[t] = "waiting" THEN Lock!Asleep \cup {t} ELSE Lock!Asleep \ {t})
         /\ Lock!Told' = [Lock!Told EXCEPT ![t] =
              IF pc'[t] = "taken" \/ answer'[t] = "got" THEN "success"
              ELSE IF answer'[t] = "none" THEN "none" ELSE "error"]
<1>1. Lock!Asleep' = (IF pc'[t] = "waiting" THEN Lock!Asleep \cup {t} ELSE Lock!Asleep \ {t})
  BY DEF Lock!Asleep
<1>2. \A u \in Threads \ {t} : Lock!Told'[u] = Lock!Told[u]
  BY DEF Lock!Told
<1>3. Lock!Told'[t] = IF pc'[t] = "taken" \/ answer'[t] = "got" THEN "success"
                      ELSE IF answer'[t] = "none" THEN "none" ELSE "error"
  BY DEF Lock!Told
<1>4. /\ Lock!Told' = [u \in Threads |-> Lock!Told'[u]]
      /\ Lock!Told = [u \in Threads |-> Lock!Told[u]]
  BY DEF Lock!Told
<1> QED
  BY <1>1, <1>2, <1>3, <1>4

\* The calls of the lock are those of the abstract lock, and noting and erasing the owner
\* is nothing that its users see.
LEMMA LockCallRefines ==
  ASSUME LockIInv, LockIInv', NEW t \in Threads, NEW w \in Timeouts \cup {Endless},
         NEW code \in {"timeout", "error"},
         \/ Lock!GetRefused(t, w) \/ Lock!GetStart(t, w) \/ Lock!Fail(t, code)
         \/ Lock!Take(t) \/ Lock!SetOwner(t) \/ Lock!Post(t) \/ Lock!ClearOwner(t)
  PROVE  [Lock!Promise!Next]_(Lock!Promise!vars)
<1>1. pc \in [Threads -> Lock!Places] /\ answer \in [Threads -> Lock!Results]
  BY DEF LockIInv, Lock!TypeOK
<1>2. \A u \in Threads \ {t} : pc'[u] = pc[u] /\ answer'[u] = answer[u]
  BY <1>1
  DEF Lock!GetRefused, Lock!GetStart, Lock!Fail, Lock!Take, Lock!SetOwner, Lock!Post,
      Lock!ClearOwner, Lock!Goto, Lock!locals
<1>3. /\ Lock!Asleep' = (IF pc'[t] = "waiting" THEN Lock!Asleep \cup {t} ELSE Lock!Asleep \ {t})
      /\ Lock!Told' = [Lock!Told EXCEPT ![t] =
           IF pc'[t] = "taken" \/ answer'[t] = "got" THEN "success"
           ELSE IF answer'[t] = "none" THEN "none" ELSE "error"]
  BY <1>2, LockShown
<1>4. t \in Lock!Asleep <=> pc[t] = "waiting"
  BY DEF Lock!Asleep
<1>5. CASE Lock!GetRefused(t, w) \/ Lock!Fail(t, code)
  <2>1. pc'[t] = "idle" /\ answer'[t] \in {"refused", "timeout", "error"}
        /\ UNCHANGED <<valid, holder>>
    BY <1>1, <1>5 DEF Lock!GetRefused, Lock!Fail, Lock!Goto
  <2>2. Lock!Promise!Refuse(t)
    BY <1>3, <2>1 DEF Lock!Promise!Refuse, Lock!Holds
  <2> QED
    BY <2>2 DEF Lock!Promise!Next
<1>6. CASE Lock!GetStart(t, w)
  <2>1. pc[t] = "idle" /\ pc'[t] = "waiting" /\ answer'[t] = "none" /\ UNCHANGED <<valid, holder>>
    BY <1>1, <1>6 DEF Lock!GetStart, Lock!Goto
  <2>2. Lock!Promise!Ask(t)
    BY <1>3, <1>4, <2>1 DEF Lock!Promise!Ask, Lock!Holds
  <2> QED
    BY <2>2 DEF Lock!Promise!Next
<1>7. CASE Lock!Take(t)
  <2>1. valid /\ holder = {} /\ holder' = {t} /\ valid' = valid
        /\ pc[t] = "waiting" /\ pc'[t] = "taken"
    BY <1>1, <1>7 DEF LockIInv, LockPlaced, LockExclusion, Lock!Take, Lock!Goto
  <2>2. Lock!Holds' = [Lock!Holds EXCEPT ![t] = @ + 1]
        /\ \A u \in Threads : Lock!Holds[u] = 0
    BY <2>1 DEF Lock!Holds
  <2>3. Lock!Promise!Get(t)
    BY <1>3, <1>4, <2>1, <2>2 DEF Lock!Promise!Get, Lock!Promise!Free
  <2> QED
    BY <2>3 DEF Lock!Promise!Next
<1>8. CASE Lock!Post(t)
  <2>1. /\ pc[t] = "idle" /\ valid /\ t \in holder /\ pc'[t] = "posted"
        /\ holder' = holder \ {t} /\ valid' = valid /\ answer' = answer
    BY <1>1, <1>8 DEF Lock!Post, Lock!Goto, Lock!locals
  <2>2. Lock!Holds' = [Lock!Holds EXCEPT ![t] = @ - 1] /\ Lock!Holds[t] > 0
    <3>1. Lock!Holds' = [Lock!Holds EXCEPT ![t] = 0]
      BY <2>1 DEF Lock!Holds
    <3>2. Lock!Holds[t] = 1
      BY <2>1 DEF Lock!Holds
    <3> QED
      BY <3>1, <3>2
  <2>3. t \notin Lock!Asleep /\ Lock!Asleep' = Lock!Asleep
    BY <1>3, <1>4, <2>1
  <2>4. Lock!Told' = Lock!Told
    BY <1>2, <2>1 DEF Lock!Told
  <2>5. Lock!Promise!Release(t)
    BY <2>1, <2>2, <2>3, <2>4 DEF Lock!Promise!Release
  <2> QED
    BY <2>5 DEF Lock!Promise!Next
<1>9. CASE Lock!SetOwner(t) \/ Lock!ClearOwner(t)
  <2>1. /\ UNCHANGED <<valid, holder>> /\ pc'[t] = "idle" /\ pc[t] \in {"taken", "posted"}
        /\ pc[t] = "taken" => answer'[t] = "got"
        /\ pc[t] = "posted" => answer'[t] = answer[t]
    BY <1>1, <1>9 DEF Lock!SetOwner, Lock!ClearOwner, Lock!Goto, Lock!locals
  <2>2. Lock!Asleep' = Lock!Asleep
    BY <1>3, <1>4, <2>1
  <2>3. Lock!Told' = Lock!Told
    BY <1>2, <2>1 DEF Lock!Told
  <2> QED
    BY <2>1, <2>2, <2>3 DEF Lock!Promise!vars, Lock!Holds
<1> QED
  BY <1>5, <1>6, <1>7, <1>8, <1>9

\* The lock of the Linux application implements the abstract lock: whoever is told success
\* has it and nobody else has, and whoever is told an error was not given it, for every
\* number of threads and timeouts, with interrupted and rejected waits.
THEOREM LinuxKeepsPromise == LockSpec => PromiseKept
<1>1. Lock!Init => Lock!Promise!Init
  <2> SUFFICES ASSUME Lock!Init PROVE Lock!Promise!Init
    OBVIOUS
  <2>1. /\ Lock!Asleep = {} /\ Lock!Holds = [t \in Threads |-> 0]
        /\ Lock!Told = [t \in Threads |-> "none"]
    BY DEF Lock!Init, Lock!Asleep, Lock!Holds, Lock!Told
  <2> QED
    BY <2>1 DEF Lock!Init, Lock!Promise!Init, Lock!Promise!Kinds
<1>2. LockIInv /\ LockIInv' /\ [Lock!Next]_(Lock!vars)
        => [Lock!Promise!Next]_(Lock!Promise!vars)
  <2> SUFFICES ASSUME LockIInv, LockIInv', [Lock!Next]_(Lock!vars)
               PROVE  [Lock!Promise!Next]_(Lock!Promise!vars)
    OBVIOUS
  <2>1. CASE Lock!LockInit
    <3>1. UNCHANGED <<Lock!Asleep, Lock!Holds, Lock!Told>> /\ ~valid /\ valid'
      BY <2>1 DEF Lock!LockInit, Lock!Asleep, Lock!Holds, Lock!Told, Lock!locals
    <3> QED
      BY <3>1 DEF LockIInv, Lock!TypeOK, Lock!Promise!Create, Lock!Promise!Next
  <2>2. CASE Lock!LockDelete
    <3>1. UNCHANGED <<Lock!Asleep, Lock!Told>> /\ Lock!Asleep = {} /\ valid /\ valid' = FALSE
          /\ Lock!Holds' = [t \in Threads |-> 0]
      BY <2>2 DEF Lock!LockDelete, Lock!Asleep, Lock!Holds, Lock!Told, Lock!locals
    <3> QED
      BY <3>1 DEF Lock!Promise!Destroy, Lock!Promise!Next
  <2>3. CASE Lock!Tick \/ UNCHANGED Lock!vars
    <3>1. UNCHANGED <<valid, holder, pc, answer>>
      BY <2>3 DEF Lock!Tick, Lock!vars, Lock!locals
    <3> QED
      BY <3>1 DEF Lock!Promise!vars, Lock!Asleep, Lock!Holds, Lock!Told
  <2>4. ASSUME NEW t \in Threads, NEW w \in Timeouts \cup {Endless},
               Lock!GetRefused(t, w) \/ Lock!GetStart(t, w)
        PROVE  [Lock!Promise!Next]_(Lock!Promise!vars)
    BY <2>4, LockCallRefines
  <2>5. ASSUME NEW t \in Threads, Lock!Proceed(t) \/ Lock!Interrupted(t) \/ Lock!Post(t)
        PROVE  [Lock!Promise!Next]_(Lock!Promise!vars)
    <3>1. Endless \in Timeouts \cup {Endless}
      OBVIOUS
    <3>2. CASE \E code \in {"timeout", "error"} : Lock!Fail(t, code)
      BY <3>1, <3>2, LockCallRefines
    <3>3. CASE Lock!Take(t) \/ Lock!SetOwner(t) \/ Lock!ClearOwner(t) \/ Lock!Post(t)
      BY <3>1, <3>3, LockCallRefines
    <3> QED
      BY <2>5, <3>2, <3>3
      DEF Lock!Proceed, Lock!TryFails, Lock!TimedOut, Lock!Rejected, Lock!Interrupted
  <2> QED
    BY <2>1, <2>2, <2>3, <2>4, <2>5 DEF Lock!Next
<1> QED
  BY <1>1, <1>2, LockKept, PTL
  DEF LockSpec, Lock!Spec, PromiseKept, Lock!PromiseKept, Lock!Promise!Spec
-----------------------------------------------------------------------------
(* The system objects.                                                      *)

DownAtRest == ~initDone => \A u \in Users : ptr[u] = Null /\ place[u] \in {"none", "owning"}

OnItsWay == \A u \in Users :
  /\ place[u] = "counting" => ptr[u] # Null
  /\ place[u] = "freeing" => ptr[u] \in Table!Slots

HeldIsMarked == \A u \in Users : ptr[u] \in Table!Slots => ptr[u] \in marked

RequestsRight == \A s \in Table!Slots :
  reqCount[s] = IF \E u \in Users : ptr[u] = s /\ place[u] = "owning" THEN 1 ELSE 0

\* As CountCovers.
Covers == initDone => objCount >= Table!Reserved + Cardinality(marked)

TableInv ==
  Table!TypeOK /\ DownAtRest /\ OnItsWay /\ HeldIsMarked /\ Table!SlotExclusive /\ RequestsRight /\ Covers

LEMMA SizeOf == \A S : Table!Cardinality(S) = Cardinality(S)
BY DEF Table!Cardinality, Cardinality

\* The table is finite, and neither Null nor the dummy is one of its entries.
LEMMA SlotFacts ==
  /\ \A S \in SUBSET Table!Slots : IsFiniteSet(S) /\ Cardinality(S) \in Nat
  /\ Null \notin Table!Slots /\ Dummy \notin Table!Slots /\ Null # Dummy
  /\ Table!Slots \subseteq Nat
<1>1. IsFiniteSet(Table!Slots)
  BY FS_Interval, TableConstants DEF Table!TableAssumption, Table!Slots, Table!Reserved
<1>2. \A S \in SUBSET Table!Slots : IsFiniteSet(S) /\ Cardinality(S) \in Nat
  BY <1>1, FS_Subset, FS_CardinalityType
<1>3. Table!Slots \subseteq Nat
  BY TableConstants DEF Table!TableAssumption, Table!Slots, Table!Reserved
<1>4. Null \notin Nat /\ Dummy \notin Nat /\ Null # Dummy
  BY TableConstants DEF Table!TableAssumption
<1> QED
  BY <1>2, <1>3, <1>4

\* The invariant holds before Table!Setup.
LEMMA TableStarts == Table!Init => TableInv
<1> SUFFICES ASSUME Table!Init PROVE TableInv
  OBVIOUS
<1>1. Table!TypeOK
  BY DEF Table!Init, Table!TypeOK, Table!Places
<1>2. DownAtRest /\ OnItsWay /\ Covers
  BY DEF Table!Init, DownAtRest, OnItsWay, Covers
<1>3. HeldIsMarked /\ Table!SlotExclusive /\ RequestsRight
  BY SlotFacts DEF Table!Init, HeldIsMarked, Table!SlotExclusive, RequestsRight
<1> QED
  BY <1>1, <1>2, <1>3 DEF TableInv

\* Table!Setup starts with an empty table, which nobody holds an entry of.
LEMMA SetupInvariant == TableInv /\ Table!Setup => TableInv'
<1> SUFFICES ASSUME TableInv, Table!Setup PROVE TableInv'
  OBVIOUS
<1>1. Cardinality({}) = 0
  BY FS_EmptySet
<1>2. \A u \in Users : ptr[u] = Null
  BY DEF TableInv, DownAtRest, Table!Setup
<1> QED
  BY <1>1, <1>2, SlotFacts DEF TableInv, Table!Setup, Table!TypeOK, DownAtRest, OnItsWay, HeldIsMarked,
     Table!SlotExclusive, RequestsRight, Covers, Table!Reserved

\* Table!Cleanup only happens while nobody holds an entry.
LEMMA CleanupInvariant == TableInv /\ Table!Cleanup => TableInv'
<1> SUFFICES ASSUME TableInv, Table!Cleanup PROVE TableInv'
  OBVIOUS
<1>1. Table!TypeOK' /\ Covers'
  BY DEF TableInv, Table!Cleanup, Table!TypeOK, Covers
<1>2. DownAtRest' /\ OnItsWay'
  BY DEF TableInv, Table!Cleanup, DownAtRest, OnItsWay
<1>3. HeldIsMarked' /\ Table!SlotExclusive' /\ RequestsRight'
  BY DEF TableInv, Table!Cleanup, HeldIsMarked, Table!SlotExclusive, RequestsRight
<1> QED
  BY <1>1, <1>2, <1>3 DEF TableInv

\* Get up to its critical section, and the calls of Get and Release that touch
\* no entry of the table.
LEMMA NothingInvariant ==
  ASSUME TableInv, NEW u \in Users,
         Table!GetNothing(u) \/ Table!GetStart(u) \/ Table!GetInterrupted(u) \/ Table!ReleaseNothing(u)
  PROVE  TableInv'
<1>1. ptr[u] \notin Table!Slots
  BY SlotFacts DEF TableInv, Table!TypeOK, DownAtRest, Table!GetNothing, Table!GetStart, Table!GetInterrupted, Table!ReleaseNothing
<1>2. /\ ptr' = ptr \/ ptr' = [ptr EXCEPT ![u] = Null]
      /\ UNCHANGED <<initDone, objCount, marked, reqCount, dummyUsed>>
      /\ \E p \in {"none", "marking", "owning"} : place' = [place EXCEPT ![u] = p]
  BY DEF Table!GetNothing, Table!GetStart, Table!GetInterrupted, Table!ReleaseNothing, Table!Released, Table!Goto
<1>3. Table!TypeOK'
  BY <1>2 DEF TableInv, Table!TypeOK, Table!Places, Table!GetNothing, Table!GetStart, Table!GetInterrupted, Table!ReleaseNothing,
     Table!Released, Table!Goto
<1>4. DownAtRest' /\ OnItsWay'
  BY <1>2, SlotFacts DEF TableInv, Table!TypeOK, DownAtRest, OnItsWay, Table!GetNothing, Table!GetStart,
     Table!GetInterrupted, Table!ReleaseNothing, Table!Released, Table!Goto
<1>5. HeldIsMarked' /\ Table!SlotExclusive' /\ Covers'
  BY <1>1, <1>2, SlotFacts DEF TableInv, Table!TypeOK, HeldIsMarked, Table!SlotExclusive, Covers
<1>6. RequestsRight'
  BY <1>1, <1>2, SlotFacts DEF TableInv, Table!TypeOK, RequestsRight
<1> QED
  BY <1>3, <1>4, <1>5, <1>6 DEF TableInv

\* The critical section of Get takes a slot that nobody holds.
LEMMA GetMarkInvariant ==
  ASSUME TableInv, NEW u \in Users, Table!GetMark(u)
  PROVE  TableInv'
<1> PICK o \in Table!Slots \cup {Dummy} : Table!Found(o) /\ Table!Mark(o) /\ ptr' = [ptr EXCEPT ![u] = o]
  BY DEF Table!GetMark
<1>1. initDone /\ ptr[u] = Null /\ place[u] = "marking"
  BY DEF TableInv, Table!TypeOK, DownAtRest, Table!GetMark
<1>2. o \in Table!Slots => o \notin marked
  BY SlotFacts DEF Table!Found, Table!Free
<1>3. marked' = marked \cup (Table!Slots \cap {o}) /\ place' = [place EXCEPT ![u] = "counting"]
  BY DEF Table!Mark, Table!GetMark, Table!Goto
<1>4. Cardinality(marked') \in Nat /\ Cardinality(marked) \in Nat
      /\ Cardinality(marked') <= Cardinality(marked) + 1
  <2>1. IsFiniteSet(marked) /\ Cardinality(marked) \in Nat
    BY SlotFacts DEF TableInv, Table!TypeOK
  <2>2. marked' = marked \/ marked' = marked \cup {o}
    BY <1>3, SlotFacts
  <2>3. Cardinality(marked \cup {o}) = IF o \in marked THEN Cardinality(marked)
                                                      ELSE Cardinality(marked) + 1
    BY <2>1, FS_AddElement
  <2>4. CASE marked' = marked
    BY <2>1, <2>4
  <2>5. CASE marked' = marked \cup {o}
    BY <2>1, <2>3, <2>5
  <2> QED
    BY <2>2, <2>4, <2>5
<1>5. Table!TypeOK'
  BY <1>1, <1>3, SlotFacts DEF TableInv, Table!TypeOK, Table!GetMark, Table!Places
<1>6. DownAtRest' /\ OnItsWay'
  BY <1>1, <1>3, SlotFacts DEF TableInv, Table!TypeOK, DownAtRest, OnItsWay, Table!GetMark
<1>7. HeldIsMarked' /\ Table!SlotExclusive'
  BY <1>2, <1>3, SlotFacts DEF TableInv, Table!TypeOK, HeldIsMarked, Table!SlotExclusive
<1>8. RequestsRight'
  BY <1>1, <1>3, SlotFacts DEF TableInv, Table!TypeOK, RequestsRight, Table!GetMark
<1>9. Covers'
  BY <1>1, <1>4 DEF TableInv, Table!TypeOK, Covers, Table!GetMark, Table!Reserved
<1> QED
  BY <1>5, <1>6, <1>7, <1>8, <1>9 DEF TableInv

\* The unlocked end of Get counts the one request of its slot.
LEMMA GetCountInvariant ==
  ASSUME TableInv, NEW u \in Users, Table!GetCount(u)
  PROVE  TableInv'
<1>1. initDone /\ place[u] = "counting" /\ ptr[u] \in Table!Slots \cup {Dummy}
  BY DEF TableInv, Table!TypeOK, DownAtRest, OnItsWay, Table!GetCount
<1>2. place' = [place EXCEPT ![u] = "owning"] /\ UNCHANGED <<initDone, objCount, marked, ptr>>
  BY DEF Table!GetCount, Table!Goto
<1>3. \A s \in Table!Slots : reqCount[s] \in Nat
  BY DEF TableInv, Table!TypeOK
<1>4. reqCount' \in [Table!Slots -> Nat] /\ dummyUsed' \in BOOLEAN
  <2>1. CASE ptr[u] = Dummy
    BY <2>1 DEF TableInv, Table!TypeOK, Table!GetCount
  <2>2. CASE ptr[u] \in Table!Slots
    <3>1. reqCount' = [reqCount EXCEPT ![ptr[u]] = reqCount[ptr[u]] + 1]
          /\ UNCHANGED dummyUsed
      BY <2>2, SlotFacts DEF Table!GetCount
    <3> QED
      BY <2>2, <3>1, <1>3 DEF TableInv, Table!TypeOK
  <2> QED
    BY <1>1, <2>1, <2>2
<1>5. Table!TypeOK'
  BY <1>1, <1>2, <1>4 DEF TableInv, Table!TypeOK, Table!Places
<1>6. DownAtRest' /\ OnItsWay' /\ HeldIsMarked' /\ Table!SlotExclusive' /\ Covers'
  BY <1>1, <1>2, SlotFacts
     DEF TableInv, Table!TypeOK, DownAtRest, OnItsWay, HeldIsMarked, Table!SlotExclusive, Covers
<1>7. RequestsRight'
  <2>1. CASE ptr[u] = Dummy
    <3>1. reqCount' = reqCount
      BY <2>1 DEF Table!GetCount
    <3>2. \A v \in Users : place'[v] = IF v = u THEN "owning" ELSE place[v]
      BY <1>2 DEF TableInv, Table!TypeOK
    <3> QED
      BY <2>1, <3>1, <3>2, <1>1, <1>2, SlotFacts DEF TableInv, RequestsRight
  <2>2. CASE ptr[u] \in Table!Slots
    <3>1. \A v \in Users : ptr[v] = ptr[u] => v = u
      BY <2>2 DEF TableInv, Table!SlotExclusive
    <3>2. reqCount[ptr[u]] = 0
      BY <2>2, <3>1, <1>1 DEF TableInv, RequestsRight
    <3>3. reqCount' = [reqCount EXCEPT ![ptr[u]] = 1]
      BY <2>2, <3>2, SlotFacts DEF Table!GetCount
    <3>4. \A v \in Users : place'[v] = IF v = u THEN "owning" ELSE place[v]
      BY <1>2 DEF TableInv, Table!TypeOK
    <3>5. \A s \in Table!Slots : reqCount'[s] = IF s = ptr[u] THEN 1 ELSE reqCount[s]
      BY <3>3 DEF TableInv, Table!TypeOK
    <3> QED
      BY <2>2, <3>1, <3>4, <3>5, <1>2 DEF TableInv, RequestsRight
  <2> QED
    BY <1>1, <2>1, <2>2
<1> QED
  BY <1>5, <1>6, <1>7 DEF TableInv

\* Release of a slot takes back the only request of it, so that it always goes
\* on to its critical section.
LEMMA ReleaseCountInvariant ==
  ASSUME TableInv, NEW u \in Users, Table!ReleaseCount(u)
  PROVE  TableInv'
<1>1. initDone /\ place[u] = "owning" /\ ptr[u] \in Table!Slots /\ ptr[u] \in marked
  BY DEF TableInv, HeldIsMarked, Table!ReleaseCount
<1>2. reqCount[ptr[u]] = 1
  BY <1>1 DEF TableInv, RequestsRight
<1>3. Table!CountDown(ptr[u]) = 0
  BY <1>1, <1>2 DEF Table!CountDown
<1>4. /\ reqCount' = [reqCount EXCEPT ![ptr[u]] = 0]
      /\ place' = [place EXCEPT ![u] = "freeing"]
      /\ UNCHANGED <<initDone, objCount, marked, dummyUsed, ptr>>
  BY <1>3 DEF Table!ReleaseCount, Table!Goto, Table!Released
<1>5. Table!TypeOK'
  BY <1>1, <1>4 DEF TableInv, Table!TypeOK, Table!Places
<1>6. DownAtRest' /\ OnItsWay' /\ HeldIsMarked' /\ Table!SlotExclusive' /\ Covers'
  BY <1>1, <1>4 DEF TableInv, Table!TypeOK, DownAtRest, OnItsWay, HeldIsMarked, Table!SlotExclusive, Covers
<1>7. RequestsRight'
  <2>1. \A v \in Users : ptr[v] = ptr[u] => v = u
    BY <1>1 DEF TableInv, Table!SlotExclusive
  <2>2. \A v \in Users : place'[v] = IF v = u THEN "freeing" ELSE place[v]
    BY <1>4 DEF TableInv, Table!TypeOK
  <2>3. \A s \in Table!Slots : reqCount'[s] = IF s = ptr[u] THEN 0 ELSE reqCount[s]
    BY <1>4 DEF TableInv, Table!TypeOK
  <2> QED
    BY <1>1, <1>4, <2>1, <2>2, <2>3 DEF TableInv, RequestsRight
<1> QED
  BY <1>5, <1>6, <1>7 DEF TableInv

\* The end of Release, whether or not it got into its critical section.
LEMMA ReleaseEndInvariant ==
  ASSUME TableInv, NEW u \in Users, Table!ReleaseMark(u) \/ Table!ReleaseInterrupted(u)
  PROVE  TableInv'
<1>1. place[u] = "freeing" /\ ptr[u] \in Table!Slots /\ ptr[u] \in marked /\ initDone
  BY DEF TableInv, DownAtRest, OnItsWay, HeldIsMarked, Table!ReleaseMark, Table!ReleaseInterrupted
<1>2. /\ ptr' = [ptr EXCEPT ![u] = Null] /\ place' = [place EXCEPT ![u] = "none"]
      /\ UNCHANGED <<initDone, reqCount, dummyUsed>>
      /\ \/ marked' = marked /\ objCount' = objCount
         \/ marked' = marked \ {ptr[u]} /\ objCount' = objCount - 1
  BY DEF Table!ReleaseMark, Table!ReleaseInterrupted, Table!Released, Table!Goto
<1>3. Cardinality(marked) \in Nat
      /\ Cardinality(marked \ {ptr[u]}) = Cardinality(marked) - 1
  BY <1>1, SlotFacts, FS_RemoveElement DEF TableInv, Table!TypeOK
<1>4. Cardinality(marked \ {ptr[u]}) \in Nat
  BY SlotFacts DEF TableInv, Table!TypeOK
<1>5. objCount' \in Nat /\ Covers'
  <2>1. objCount \in Nat /\ objCount >= 2 + Cardinality(marked)
    BY <1>1 DEF TableInv, Table!TypeOK, Covers, Table!Reserved
  <2>2. \/ Cardinality(marked') = Cardinality(marked) /\ objCount' = objCount
        \/ Cardinality(marked') = Cardinality(marked) - 1 /\ objCount' = objCount - 1
    BY <1>2, <1>3
  <2> QED
    BY <2>1, <2>2, <1>3, <1>4 DEF Covers, Table!Reserved
<1>6. Table!TypeOK'
  BY <1>1, <1>2, <1>5 DEF TableInv, Table!TypeOK, Table!Places
<1>7. DownAtRest' /\ OnItsWay'
  BY <1>1, <1>2 DEF TableInv, Table!TypeOK, DownAtRest, OnItsWay
<1>8. HeldIsMarked' /\ Table!SlotExclusive'
  BY <1>1, <1>2, SlotFacts DEF TableInv, Table!TypeOK, HeldIsMarked, Table!SlotExclusive
<1>9. RequestsRight'
  BY <1>1, <1>2, SlotFacts DEF TableInv, Table!TypeOK, RequestsRight
<1> QED
  BY <1>5, <1>6, <1>7, <1>8, <1>9 DEF TableInv

\* Every behaviour of the table keeps the invariant.
LEMMA TableInvariant == TableSpec => []TableInv
<1>1. TableInv /\ [Table!Next]_(Table!vars) => TableInv'
  <2> SUFFICES ASSUME TableInv, [Table!Next]_(Table!vars) PROVE TableInv'
    OBVIOUS
  <2>1. CASE Table!Setup
    BY <2>1, SetupInvariant
  <2>2. CASE Table!Cleanup
    BY <2>2, CleanupInvariant
  <2>3. ASSUME NEW u \in Users, Table!Step(u) PROVE TableInv'
    BY <2>3, NothingInvariant, GetMarkInvariant, GetCountInvariant, ReleaseCountInvariant,
       ReleaseEndInvariant DEF Table!Step
  <2>4. CASE UNCHANGED (Table!vars)
    <3>1. UNCHANGED <<initDone, objCount, marked, reqCount, dummyUsed, ptr, place>>
      BY <2>4 DEF Table!vars
    <3>2. Table!TypeOK' /\ DownAtRest' /\ OnItsWay'
      BY <3>1 DEF TableInv, Table!TypeOK, DownAtRest, OnItsWay
    <3>3. HeldIsMarked' /\ Table!SlotExclusive' /\ RequestsRight' /\ Covers'
      BY <3>1 DEF TableInv, HeldIsMarked, Table!SlotExclusive, RequestsRight, Covers
    <3> QED
      BY <3>2, <3>3 DEF TableInv
  <2> QED
    BY <2>1, <2>2, <2>3, <2>4 DEF Table!Next
<1> QED
  BY <1>1, TableStarts, PTL DEF TableSpec, Table!Spec

\* No two users ever own the same entry of the table.
THEOREM Exclusive == TableSpec => []SlotExclusive
<1>1. TableInv => SlotExclusive
  BY DEF TableInv, SlotExclusive
<1> QED
  BY <1>1, TableInvariant, PTL

\* The request count kept outside the lock is exact, and objCount never falls
\* below the number of entries in use.
THEOREM CountersRight == TableSpec => []CountsTrue
<1>1. TableInv => Table!RequestsCounted
  <2> SUFFICES ASSUME TableInv, NEW s \in Table!Slots
               PROVE  reqCount[s] =
                        Table!Cardinality({u \in Users : ptr[u] = s /\ place[u] = "owning"})
    BY DEF Table!RequestsCounted
  <2> SUFFICES reqCount[s] = Cardinality({u \in Users : ptr[u] = s /\ place[u] = "owning"})
    BY SizeOf
  <2> DEFINE Owners == {u \in Users : ptr[u] = s /\ place[u] = "owning"}
  <2>1. CASE Owners = {}
    BY <2>1, FS_EmptySet DEF TableInv, RequestsRight
  <2>2. CASE Owners # {}
    <3>1. PICK w \in Users : ptr[w] = s /\ place[w] = "owning"
      BY <2>2
    <3>2. Owners = {w}
      BY <3>1 DEF TableInv, Table!SlotExclusive
    <3>3. reqCount[s] = 1
      BY <3>1 DEF TableInv, RequestsRight
    <3> QED
      BY <3>2, <3>3, FS_Singleton
  <2> QED
    BY <2>1, <2>2
<1>2. TableInv => Table!CountCovers
  BY SizeOf DEF TableInv, Covers, Table!CountCovers
<1>3. TableInv => CountsTrue
  BY <1>1, <1>2 DEF CountsTrue, Table!CountsTrue
<1> QED
  BY <1>3, TableInvariant, PTL

\* Every variable of the table of objects and its users keeps its type.
THEOREM SysObjectTypes == TableSpec => []Table!TypeOK
<1>1. TableInv => Table!TypeOK
  BY DEF TableInv
<1> QED
  BY <1>1, TableInvariant, PTL
=============================================================================
