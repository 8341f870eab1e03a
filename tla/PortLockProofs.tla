---------------------------- MODULE PortLockProofs ----------------------------
(***************************************************************************)
(* What the locks and mutexes of all ports promise together, for any threads  *)
(* and any times.  The calls of the ports are many, but they disturb the lock *)
(* in a few ways only: the proofs first take every call of every port to one  *)
(* of these shapes, and then look at the shapes.                            *)
(***************************************************************************)
EXTENDS PortLock, TLAPS

\* The clocks of the calls have their types.
ClocksOK ==
  /\ timeout \in [Threads -> Nat] /\ age \in [Threads -> Nat] /\ poll \in [Threads -> Nat]
  /\ left \in [Threads -> Int \cup {Never}]
  /\ phase \in 0 .. TickLen - 1

\* The conversions of a time yield a time.
LEMMA TimeFacts ==
  /\ Times \subseteq Nat /\ Forever \in Nat
  /\ \A x \in Nat : HzTicks(x) \in Int /\ MSecToTick(x) \in Int
  /\ \A w \in Times : Finite(w) \in Int \cup {Never}
  /\ \A n \in Int : phase \in Int => UntilTick(n, phase) \in Int
  /\ \A w \in Times, n \in Int : phase \in Int => Ticks(w, n) \in Int \cup {Never}
<1>1. Times \subseteq Nat /\ Forever \in Nat
  BY PortTimeAssumption, PortLockAssumption
<1>2. \A x \in Nat : HzTicks(x) \in Int /\ MSecToTick(x) \in Int
  <2>1. ASSUME NEW x \in Nat, NEW y \in Nat \ {0} PROVE x \div y \in Int /\ x % y \in Nat
    OBVIOUS
  <2>2. ASSUME NEW x \in Nat, NEW y \in Nat \ {0} PROVE y * x \in Nat
    OBVIOUS
  <2>3. ASSUME NEW x \in Nat \ {0}, NEW y \in Nat \ {0} PROVE x * y \in Nat \ {0}
    OBVIOUS
  <2>4. ASSUME NEW x \in Nat PROVE HzTicks(x) \in Int
    <3>1. Hz * x \in Nat /\ Sec \in Nat \ {0}
      BY <2>2, <2>3, PortTimeAssumption DEF Sec
    <3>2. (Hz * x) % Word \in Nat
      BY <3>1, <2>1, PortTimeAssumption
    <3> QED
      BY <3>1, <3>2, <2>1 DEF HzTicks
  <2> QED
    BY <2>1, <2>4, PortTimeAssumption DEF MSecToTick
<1>3. \A n \in Int : phase \in Int => UntilTick(n, phase) \in Int
  BY PortTimeAssumption DEF UntilTick
<1> QED
  BY <1>1, <1>2, <1>3 DEF Finite, Ticks

\* A step of thread t that neither takes nor gives back: its call fails, enters a wait or
\* goes on waiting.
Moves(t) ==
  /\ UNCHANGED <<object, owner, holds>>
  /\ ClocksOK => ClocksOK'
  /\ st[t] \notin {"took", "gave"}
  /\ \/ /\ st' = [st EXCEPT ![t] = "idle"]
        /\ \E code :
             out' = [out EXCEPT ![t] = [result |-> "error", code |-> code]]
     \/ /\ bValid /\ st[t] = "idle" /\ holds[t] < Deepest
        /\ \E place \in Waits : st' = [st EXCEPT ![t] = place]
        /\ out' = [out EXCEPT ![t] = Nothing]
     \/ /\ st[t] \in Waits /\ \E place \in Waits : st' = [st EXCEPT ![t] = place]
        /\ UNCHANGED out

\* A step of thread t that takes, records, gives back or erases.
Acts(t) ==
  \/ \E p \in AllPorts \cup {"linux_appl"}, k \in {"lock", "mutex"} :
       Takes(p, k, t) \/ Posts(p, k, t)
  \/ \E p \in AllPorts : Records(p, t) \/ Erases(p, t)
  \/ Pretends("generic", "lock", t) \/ Pretends("generic", "mutex", t)
  \/ Pretends("rtems", "lock", t)
  \/ Pretended("lock", t) \/ Pretended("mutex", t)
  \/ Surplus("vxworks", t) /\ UNCHANGED sem /\ Done(t)

\* A call that returns leaves the clocks typed.
LEMMA ReturnsTyped ==
  ASSUME NEW t \in Threads, NEW result, NEW code, Returns(t, result, code), ClocksOK
  PROVE  ClocksOK'
<1>1. timeout' \in [Threads -> Nat] /\ age' \in [Threads -> Nat] /\ poll' \in [Threads -> Nat]
  BY DEF Returns, ClocksOK
<1>2. left' \in [Threads -> Int \cup {Never}]
  BY DEF Returns, ClocksOK
<1>3. phase' \in 0 .. TickLen - 1
  BY DEF Returns, ClocksOK
<1> QED
  BY <1>1, <1>2, <1>3 DEF ClocksOK

\* A call that fails, and one that enters its wait, only move.
LEMMA FailsMoves ==
  ASSUME NEW t \in Threads, NEW p, NEW k, NEW code,
         Fails(p, k, t, code), st[t] \notin {"took", "gave"}
  PROVE  Moves(t)
<1>1. ClocksOK => ClocksOK'
  BY ReturnsTyped DEF Fails
<1> QED
  BY <1>1 DEF Fails, Returns, Moves

LEMMA AsksMoves ==
  ASSUME NEW t \in Threads, NEW p, NEW k, NEW w \in Nat, NEW units,
         phase \in Int => units \in Int \cup {Never},
         AsksFor(p, k, t, w, units)
  PROVE  Moves(t)
<1>1. ClocksOK => ClocksOK'
  BY DEF AsksFor, ClocksOK
<1> QED
  BY <1>1 DEF AsksFor, Moves, Waits, object

LEMMA LockGetsShape ==
  ASSUME NEW t \in Threads, NEW p \in AllPorts, LockGets(p, t)
  PROVE  Moves(t) \/ Acts(t)
BY AsksMoves, TimeFacts DEF LockGets, Acts

LEMMA MutexGetsShape ==
  ASSUME NEW t \in Threads, NEW p \in AllPorts \cup {"linux_appl"}, MutexGets(p, t)
  PROVE  Moves(t) \/ Acts(t)
BY AsksMoves, TimeFacts DEF MutexGets, Acts

LEMMA FailureShapes ==
  ASSUME NEW t \in Threads, NEW p, NEW code,
         TryFails(p, t) \/ RunsOut(p, t, code) \/ FailsAtOnce(p, t)
  PROVE  Moves(t)
BY FailsMoves DEF TryFails, RunsOut, FailsAtOnce, Expires

LEMMA TimedGetShape ==
  ASSUME NEW t \in Threads, NEW w \in Times, LockTimedGet(t, w)
  PROVE  Moves(t) \/ Acts(t)
<1>1. CASE LinuxDrvTimedGet(t, w)
  <2>1. CASE LinuxDrvPauses(t) \/ LinuxDrvGoesOn(t)
    <3>1. phase \in Int => UntilTick(HzTicks(Poll), phase) \in Int
      BY TimeFacts, PortLockAssumption
    <3>2. ClocksOK => ClocksOK'
      BY <2>1, <3>1, PortLockAssumption, PortTimeAssumption
      DEF LinuxDrvPauses, LinuxDrvGoesOn, ClocksOK
    <3> QED
      BY <2>1, <3>2 DEF LinuxDrvPauses, LinuxDrvGoesOn, Moves, Waits
  <2>2. CASE /\ Is("linux_drv", "lock") /\ bValid /\ st[t] = "idle" /\ holds[t] = 0
             /\ w \notin {0, Forever}
             /\ st' = [st EXCEPT ![t] = "trying"] /\ timeout' = [timeout EXCEPT ![t] = w]
             /\ out' = [out EXCEPT ![t] = Nothing]
             /\ UNCHANGED <<object, owner, holds, left, age, poll, phase>>
    <3>1. ClocksOK => ClocksOK'
      BY <2>2, TimeFacts DEF ClocksOK
    <3>2. holds[t] < Deepest
      BY <2>2 DEF Deepest, Recursive, Is
    <3> QED
      BY <2>2, <3>1, <3>2 DEF Moves, Waits
  <2>3. CASE \/ w \in {0, Forever} /\ AsksFor("linux_drv", "lock", t, w, Finite(w))
             \/ Takes("linux_drv", "lock", t) \/ TryFails("linux_drv", t)
    BY <2>3, AsksMoves, FailureShapes, TimeFacts DEF Acts, AllPorts
  <2> QED
    BY <1>1, <2>1, <2>2, <2>3, FailsMoves DEF LinuxDrvTimedGet
<1>2. CASE EcosTimedGet(t, w)
  BY <1>2, AsksMoves, FailureShapes, TimeFacts DEF EcosTimedGet, Acts, AllPorts
<1>3. CASE VxworksTimedGet(t, w)
  BY <1>3, AsksMoves, FailureShapes, TimeFacts DEF VxworksTimedGet, Acts, AllPorts
<1>4. CASE Win32TimedGet(t, w)
  BY <1>4, AsksMoves, FailureShapes, TimeFacts DEF Win32TimedGet, Acts, AllPorts
<1>5. CASE NucleusTimedGet(t, w)
  BY <1>5, AsksMoves, FailureShapes, TimeFacts DEF NucleusTimedGet, Acts, AllPorts
<1>6. CASE XapiTimedGet(t, w)
  BY <1>6, AsksMoves, FailureShapes, TimeFacts DEF XapiTimedGet, Acts, AllPorts
<1>7. CASE RtemsTimedGet(t, w) \/ GenericTimedGet(t, w)
  BY <1>7 DEF RtemsTimedGet, GenericTimedGet, Acts, AllPorts
<1> QED
  BY <1>1, <1>2, <1>3, <1>4, <1>5, <1>6, <1>7 DEF LockTimedGet

LEMMA GetShape ==
  ASSUME NEW t \in Threads, LockGet(t) \/ MutexGet(t)
  PROVE  Moves(t) \/ Acts(t)
<1>1. ASSUME NEW k, FindsDead(k, t) PROVE Moves(t)
  BY <1>1, FailsMoves DEF FindsDead
<1>2. CASE LockGet(t)
  <2>1. CASE \E p \in AllPorts : LockGets(p, t)
    BY <2>1, LockGetsShape
  <2>2. CASE FindsDead("lock", t) \/ GenericLockGet(t)
    BY <2>2, <1>1 DEF GenericLockGet, Acts, AllPorts
  <2> QED
    BY <1>2, <2>1, <2>2
    DEF LockGet, LinuxDrvLockGet, EcosLockGet, VxworksLockGet, Win32LockGet,
        NucleusLockGet, RtemsLockGet, XapiLockGet, AllPorts
<1>3. CASE MutexGet(t)
  <2>1. CASE \E p \in AllPorts \cup {"linux_appl"} : MutexGets(p, t)
    BY <2>1, MutexGetsShape
  <2>2. CASE FindsDead("mutex", t) \/ GenericMutexGet(t)
    BY <2>2, <1>1 DEF GenericMutexGet, Acts
  <2> QED
    BY <1>3, <2>1, <2>2
    DEF MutexGet, LinuxApplMutexGet, LinuxDrvMutexGet, EcosMutexGet, VxworksMutexGet,
        Win32MutexGet, NucleusMutexGet, RtemsMutexGet, XapiMutexGet, AllPorts
<1> QED
  BY <1>2, <1>3

LEMMA ReleaseShape ==
  ASSUME NEW t \in Threads, LockRelease(t) \/ MutexRelease(t)
  PROVE  Moves(t) \/ Acts(t)
<1>1. CASE LockRelease(t)
  <2>1. ASSUME NEW p \in AllPorts, LockPosts(p, t) PROVE Acts(t)
    BY <2>1 DEF LockPosts, Acts
  <2>2. CASE Win32LockRelease(t) \/ RtemsLockRelease(t)
    BY <2>2, <2>1, FailsMoves
    DEF Win32LockRelease, RtemsLockRelease, Surplus, Acts, AllPorts
  <2>3. CASE VxworksLockRelease(t)
    BY <2>3, <2>1 DEF VxworksLockRelease, Acts, AllPorts
  <2>4. CASE XapiLockRelease(t) \/ GenericLockRelease(t)
    BY <2>4 DEF XapiLockRelease, GenericLockRelease, Acts, AllPorts
  <2> QED
    BY <1>1, <2>1, <2>2, <2>3, <2>4
    DEF LockRelease, LinuxDrvLockRelease, EcosLockRelease, NucleusLockRelease, AllPorts
<1>2. CASE MutexRelease(t)
  BY <1>2
  DEF MutexRelease, LinuxApplMutexRelease, LinuxDrvMutexRelease, EcosMutexRelease,
      VxworksMutexRelease, Win32MutexRelease, NucleusMutexRelease, RtemsMutexRelease,
      XapiMutexRelease, GenericMutexRelease, Acts, AllPorts
<1> QED
  BY <1>1, <1>2

\* Every call of every port moves or acts.
LEMMA CallShape ==
  ASSUME NEW t \in Threads, Call(t)
  PROVE  Moves(t) \/ Acts(t)
<1>1. CASE InvalidCall(t)
  BY <1>1, FailsMoves DEF InvalidCall
<1> QED
  BY <1>1, GetShape, ReleaseShape, TimedGetShape DEF Call

-----------------------------------------------------------------------------
\* A lock that is not valid is not in use; who has just taken it has it, and only a
\* lock with a record is between taking and recording.
Placed ==
  /\ ~bValid => \A t \in Threads : st[t] = "idle" /\ holds[t] = 0
  /\ \A t \in Threads : st[t] = "took" => holds[t] > 0
  /\ \A t \in Threads : st[t] \in {"took", "gave"} => Recorded
  /\ ~Recorded => owner = NoOne

\* The locks with a record are those that have an entry to keep it in.
Entries == entry => Recorded

IInv == TypeOK /\ Placed /\ OneHolder /\ OwnerNotWrong /\ GivenBack /\ Entries

\* The invariant holds before the first init.
LEMMA InitInvariant == Init => IInv
<1> SUFFICES ASSUME Init PROVE IInv
  OBVIOUS
<1>1. TypeOK
  <2>1. phase \in 0 .. TickLen - 1
    BY PortTimeAssumption DEF Init
  <2>2. left \in [Threads -> Int \cup {Never}] /\ st \in [Threads ->
          {"idle", "asleep", "trying", "pausing", "took", "gave"}]
    BY DEF Init
  <2>3. /\ timeout \in [Threads -> Nat] /\ age \in [Threads -> Nat]
        /\ poll \in [Threads -> Nat] /\ holds \in [Threads -> Nat]
    BY DEF Init
  <2>4. kind \in {"lock", "mutex"} /\ port \in AllPorts \cup {"linux_appl"}
    BY PortLockAssumption DEF Init
  <2> QED
    BY <2>1, <2>2, <2>3, <2>4 DEF Init, TypeOK
<1>2. Placed /\ OneHolder
  BY DEF Init, Placed, OneHolder
<1>3. OwnerNotWrong /\ GivenBack /\ Entries
  BY PortLockAssumption DEF Init, OwnerNotWrong, GivenBack, Entries
<1> QED
  BY <1>1, <1>2, <1>3 DEF IInv

\* A step that only moves a thread keeps the invariant.
LEMMA MovesInvariant ==
  ASSUME IInv, NEW t \in Threads, Moves(t)
  PROVE  IInv'
<1>1. TypeOK'
  BY DEF IInv, TypeOK, Moves, Waits, ClocksOK, object
<1>2. UNCHANGED <<port, kind, bValid, sem, alive, entry, lost, owner, holds>>
  BY DEF Moves, object
<1>3. \A u \in Threads : st'[u] = st[u] \/ (u = t /\ st'[u] \notin {"took", "gave"}
                                           /\ (bValid \/ st[u] # "idle" \/ st'[u] = "idle"))
  BY DEF Moves, Waits, IInv, TypeOK
<1>4. Placed'
  BY <1>2, <1>3 DEF IInv, Placed, Recorded
<1>5. OwnerNotWrong'
  BY <1>2, <1>3 DEF IInv, OwnerNotWrong, Moves
<1>6. OneHolder' /\ GivenBack' /\ Entries'
  BY <1>2 DEF IInv, OneHolder, Excludes, Is, GivenBack, Entries, Recorded
<1> QED
  BY <1>1, <1>4, <1>5, <1>6 DEF IInv

\* What every taking, recording, giving back and erasing leaves as it is.
LEMMA ActsFrame ==
  ASSUME IInv, NEW t \in Threads, Acts(t)
  PROVE  /\ UNCHANGED <<port, kind, bValid, alive, entry, lost>>
         /\ bValid
         /\ ClocksOK'
         /\ \A u \in Threads \ {t} : holds'[u] = holds[u] /\ st'[u] = st[u]
         /\ TypeOK'
<1> USE DEF IInv, TypeOK
<1>1. ClocksOK
  BY DEF ClocksOK
<1>2. ASSUME Gets(t), sem' \in Nat, bValid
      PROVE  /\ UNCHANGED <<port, kind, bValid, alive, entry, lost>> /\ bValid /\ ClocksOK'
             /\ \A u \in Threads \ {t} : holds'[u] = holds[u] /\ st'[u] = st[u]
             /\ TypeOK'
  <2>1. ClocksOK'
    BY <1>1, <1>2, ReturnsTyped DEF Gets, ClocksOK, clocks
  <2>2. st' \in [Threads -> {"idle", "asleep", "trying", "pausing", "took", "gave"}]
    BY <1>2 DEF Gets, Returns
  <2>3. holds' \in [Threads -> Nat]
    BY <1>2 DEF Gets
  <2>4. \A u \in Threads \ {t} : holds'[u] = holds[u] /\ st'[u] = st[u]
    BY <1>2 DEF Gets, Returns
  <2> QED
    BY <1>2, <2>1, <2>2, <2>3, <2>4 DEF Gets, ClocksOK
<1>3. ASSUME Done(t), sem' \in Nat, bValid, holds' \in [Threads -> Nat],
             \A u \in Threads \ {t} : holds'[u] = holds[u]
      PROVE  /\ UNCHANGED <<port, kind, bValid, alive, entry, lost>> /\ bValid /\ ClocksOK'
             /\ \A u \in Threads \ {t} : holds'[u] = holds[u] /\ st'[u] = st[u]
             /\ TypeOK'
  BY <1>1, <1>3 DEF Done, ClocksOK, clocks
<1>4. ASSUME NEW p, NEW k, Takes(p, k, t)
      PROVE  Gets(t) /\ sem' \in Nat /\ bValid
  BY <1>4 DEF Takes, Placed
<1>5. ASSUME NEW p, NEW k, Pretends(p, k, t)
      PROVE  Gets(t) /\ sem' \in Nat /\ bValid
  BY <1>5 DEF Pretends
<1>6. ASSUME NEW p, NEW k, Posts(p, k, t) \/ Pretended(k, t)
      PROVE  /\ Done(t) /\ sem' \in Nat /\ bValid /\ holds' \in [Threads -> Nat]
             /\ \A u \in Threads \ {t} : holds'[u] = holds[u]
  BY <1>6 DEF Posts, Pretended
<1>7. CASE \E p \in AllPorts : Records(p, t) \/ Erases(p, t)
  <2>1. ClocksOK'
    BY <1>1, <1>7, ReturnsTyped DEF Records, Erases, ClocksOK, clocks
  <2>2. st' \in [Threads -> {"idle", "asleep", "trying", "pausing", "took", "gave"}]
    BY <1>7 DEF Records, Returns, Erases
  <2>3. bValid /\ UNCHANGED <<object, holds>> /\ owner' \in Threads \cup {NoOne}
    BY <1>7 DEF Records, Erases, Placed
  <2>4. \A u \in Threads \ {t} : st'[u] = st[u]
    BY <1>7 DEF Records, Erases, Returns
  <2> QED
    BY <2>1, <2>2, <2>3, <2>4 DEF ClocksOK, object
<1>8. CASE Surplus("vxworks", t) /\ UNCHANGED sem /\ Done(t)
  BY <1>8, <1>3 DEF Surplus
<1> HIDE DEF IInv, TypeOK
<1> QED
  BY <1>2, <1>3, <1>4, <1>5, <1>6, <1>7, <1>8 DEF Acts

\* Taking and giving back keep the one holder, and what pretends is no lock.
LEMMA ActsHolder ==
  ASSUME IInv, NEW t \in Threads, Acts(t)
  PROVE  OneHolder'
<1> SUFFICES ASSUME Excludes, bValid, alive PROVE OneHolder'
  BY ActsFrame DEF OneHolder, Excludes, Is
<1>1. \/ sem = 1 /\ \A u \in Threads : holds[u] = 0
      \/ sem = 0 /\ \E u \in Threads : holds[u] > 0 /\ \A v \in Threads \ {u} : holds[v] = 0
  BY DEF IInv, OneHolder
<1>2. holds \in [Threads -> Nat] /\ sem \in Nat
  BY DEF IInv, TypeOK
<1>3. CASE \E p, k : Takes(p, k, t)
  <2>1. holds' = [holds EXCEPT ![t] = @ + 1]
    BY <1>3 DEF Takes, Gets
  <2>2. \/ holds[t] = 0 /\ sem > 0 /\ sem' = sem - 1
        \/ holds[t] > 0 /\ sem' = sem
    BY <1>3 DEF Takes
  <2> QED
    BY <1>1, <1>2, <2>1, <2>2 DEF OneHolder
<1>4. CASE \E p, k : Posts(p, k, t)
  <2>1. holds[t] > 0 /\ holds' = [holds EXCEPT ![t] = @ - 1]
    BY <1>4 DEF Posts
  <2>2. sem' = IF holds[t] = 1 THEN sem + 1 ELSE sem
    BY <1>4 DEF Posts
  <2> QED
    BY <1>1, <1>2, <2>1, <2>2 DEF OneHolder
<1>5. CASE \/ \E p \in AllPorts : Records(p, t) \/ Erases(p, t)
           \/ Surplus("vxworks", t) /\ UNCHANGED sem /\ Done(t)
  <2>1. UNCHANGED <<sem, holds>>
    BY <1>5 DEF Records, Erases, Surplus, object
  <2> QED
    BY <1>1, <2>1 DEF OneHolder
<1>6. ~Pretends("generic", "lock", t) /\ ~Pretends("generic", "mutex", t)
      /\ ~Pretends("rtems", "lock", t) /\ ~Pretended("lock", t) /\ ~Pretended("mutex", t)
  BY DEF Pretends, Pretended, Excludes, Is
<1> QED
  BY <1>3, <1>4, <1>5, <1>6 DEF Acts

\* The record follows the holder.
LEMMA ActsOwner ==
  ASSUME IInv, NEW t \in Threads, Acts(t)
  PROVE  Placed' /\ OwnerNotWrong'
<1>1. holds \in [Threads -> Nat] /\ NoOne \notin Threads
      /\ st \in [Threads -> {"idle", "asleep", "trying", "pausing", "took", "gave"}]
  BY PortLockAssumption DEF IInv, TypeOK
<1>2. \A u \in Threads \ {t} : holds'[u] = holds[u] /\ st'[u] = st[u]
  BY ActsFrame
<1>3. UNCHANGED <<port, kind, bValid>> /\ bValid /\ (Recorded' <=> Recorded)
  BY ActsFrame DEF Recorded
<1>4. CASE Gets(t)
  <2>1. owner' = owner /\ holds'[t] > 0 /\ st'[t] = (IF Recorded THEN "took" ELSE "idle")
    BY <1>1, <1>4 DEF Gets, Returns
  <2> QED
    BY <1>2, <1>3, <2>1 DEF IInv, Placed, OwnerNotWrong
<1>5. CASE Done(t)
  <2>1. owner' = owner /\ st'[t] = (IF Recorded THEN "gave" ELSE "idle")
    BY <1>1, <1>5 DEF Done
  <2> QED
    BY <1>1, <1>2, <1>3, <2>1 DEF IInv, Placed, OwnerNotWrong
<1>6. CASE \E p \in AllPorts : Records(p, t)
  <2>1. owner' = t /\ st'[t] = "idle" /\ st[t] = "took" /\ holds' = holds
    BY <1>1, <1>6 DEF Records, Returns
  <2> QED
    BY <1>1, <1>2, <1>3, <2>1 DEF IInv, Placed, OwnerNotWrong
<1>7. CASE \E p \in AllPorts : Erases(p, t)
  <2>1. owner' = NoOne /\ st'[t] = "idle" /\ st[t] = "gave" /\ holds' = holds
    BY <1>1, <1>7 DEF Erases
  <2> QED
    BY <1>1, <1>2, <1>3, <2>1 DEF IInv, Placed, OwnerNotWrong
<1> QED
  BY <1>4, <1>5, <1>6, <1>7 DEF Acts, Takes, Posts, Pretends, Pretended

LEMMA ActsInvariant ==
  ASSUME IInv, NEW t \in Threads, Acts(t)
  PROVE  IInv'
<1>1. GivenBack' /\ Entries'
  BY ActsFrame DEF IInv, GivenBack, Entries, Is, Recorded
<1> QED
  BY <1>1, ActsFrame, ActsHolder, ActsOwner DEF IInv

-----------------------------------------------------------------------------
\* What every init does, and every delete.
Opening ==
  /\ ~bValid /\ bValid' = TRUE /\ sem' = 1 /\ alive' = TRUE
  /\ entry' = entry \/ (entry' = TRUE /\ Recorded)
  /\ lost' = lost \/ (lost' = lost + 1 /\ Is("xapi", "mutex"))
  /\ UNCHANGED <<port, kind, owner, holds, st, clocks, phase, out>>

Closing ==
  /\ bValid /\ Unused /\ UNCHANGED lost
  /\ bValid' = FALSE \/ (bValid' = bValid /\ alive' = FALSE /\ port = "rtems")
  /\ (sem' = 0 /\ alive' = FALSE) \/ (sem' = sem /\ alive' = alive)
  /\ entry' = FALSE \/ entry' = entry
  /\ (alive' = FALSE /\ entry' = FALSE) \/ port = "nucleus" \/ Is("xapi", "mutex")

LEMMA InitShape == TypeOK /\ (LockInit \/ MutexInit) => Opening
BY DEF TypeOK, LockInit, MutexInit, Opening, Opens, Is, Recorded, WithEntry, NoEntry,
       LinuxDrvLockInit, EcosLockInit, VxworksLockInit, Win32LockInit, NucleusLockInit,
       RtemsLockInit, XapiLockInit, GenericLockInit, LinuxApplMutexInit, LinuxDrvMutexInit,
       EcosMutexInit, VxworksMutexInit, Win32MutexInit, NucleusMutexInit, RtemsMutexInit,
       XapiMutexInit, GenericMutexInit, RtemsOpens

LEMMA DeleteShape == IInv /\ (LockDelete \/ MutexDelete) => Closing
<1> SUFFICES ASSUME IInv, LockDelete \/ MutexDelete PROVE Closing
  OBVIOUS
<1> USE DEF IInv, TypeOK
<1>1. ASSUME NEW p, NEW k, Closes(p, k) PROVE Closing
  BY <1>1 DEF Closes, Invalidates, Destroys, Closing
<1>2. CASE NucleusLockDelete \/ NucleusMutexDelete \/ XapiMutexDelete
  BY <1>2, <1>1
  DEF NucleusLockDelete, NucleusMutexDelete, XapiMutexDelete, Invalidates, LeavesObject,
      NoEntry, Closing, Is
<1>3. ASSUME NEW k, RtemsDeletes(k) PROVE Closing
  <2>1. entry = FALSE
    BY <1>3 DEF RtemsDeletes, Is, Entries, Recorded
  <2>2. alive' = FALSE /\ entry' = FALSE
    BY <1>3, <2>1 DEF RtemsDeletes, Destroys, LeavesObject, NoEntry
  <2> QED
    BY <1>3, <2>2 DEF RtemsDeletes, Is, Destroys, LeavesObject, NoEntry, Closing
<1> HIDE DEF IInv, TypeOK
<1> QED
  BY <1>1, <1>2, <1>3
  DEF LockDelete, MutexDelete, LinuxDrvLockDelete, EcosLockDelete, VxworksLockDelete,
      Win32LockDelete, RtemsLockDelete, GenericLockDelete, LinuxApplMutexDelete,
      LinuxDrvMutexDelete, EcosMutexDelete, VxworksMutexDelete, Win32MutexDelete,
      RtemsMutexDelete, GenericMutexDelete

LEMMA OpeningInvariant == IInv /\ Opening => IInv'
<1> SUFFICES ASSUME IInv, Opening PROVE IInv'
  OBVIOUS
<1>1. TypeOK'
  <2>1. bValid' \in BOOLEAN /\ alive' \in BOOLEAN /\ entry' \in BOOLEAN
    BY DEF IInv, TypeOK, Opening
  <2>2. sem' \in Nat /\ lost' \in Nat
    BY DEF IInv, TypeOK, Opening
  <2> QED
    BY <2>1, <2>2 DEF IInv, TypeOK, Opening, clocks
<1>2. Placed' /\ OneHolder' /\ OwnerNotWrong'
  BY DEF IInv, Opening, Placed, OneHolder, OwnerNotWrong, Recorded
<1>3. GivenBack' /\ Entries'
  BY DEF IInv, TypeOK, Opening, GivenBack, Entries, Recorded, Is
<1> QED
  BY <1>1, <1>2, <1>3 DEF IInv

LEMMA ClosingInvariant == IInv /\ Closing => IInv'
<1> SUFFICES ASSUME IInv, Closing PROVE IInv'
  OBVIOUS
<1>1. TypeOK'
  <2>1. bValid' \in BOOLEAN /\ alive' \in BOOLEAN /\ entry' \in BOOLEAN
    BY DEF IInv, TypeOK, Closing
  <2>2. sem' \in Nat /\ lost' \in Nat /\ holds' \in [Threads -> Nat]
    BY DEF IInv, TypeOK, Closing, Unused
  <2> QED
    BY <2>1, <2>2 DEF IInv, TypeOK, Closing, Unused, clocks
<1>2. \A t \in Threads : st'[t] = "idle" /\ holds'[t] = 0
  BY DEF Closing, Unused
<1>3. UNCHANGED <<port, kind, owner, st>> /\ (Recorded => kind = "lock")
  BY DEF Closing, Unused, Recorded
<1>4. Placed' /\ OneHolder'
  BY <1>2, <1>3 DEF IInv, Closing, Placed, OneHolder, Recorded
<1>5. OwnerNotWrong'
  \* A lock is deleted only when nobody holds it, and a mutex has no record.
  <2>1. ASSUME NEW t \in Threads PROVE owner # t
    BY <2>1, <1>3, PortLockAssumption DEF IInv, Closing, Unused, OwnerNotWrong, Placed
  <2> QED
    BY <2>1, <1>3 DEF OwnerNotWrong
<1>6. GivenBack' /\ Entries'
  BY <1>3 DEF IInv, Closing, GivenBack, Entries, Recorded, Is
<1> QED
  BY <1>1, <1>4, <1>5, <1>6 DEF IInv

LEMMA TickInvariant == IInv /\ Tick => IInv'
<1> SUFFICES ASSUME IInv, Tick PROVE IInv'
  OBVIOUS
<1>1. TypeOK'
  <2>1. phase' \in 0 .. TickLen - 1
    BY PortTimeAssumption DEF IInv, TypeOK, Tick
  <2>2. left' \in [Threads -> Int \cup {Never}] /\ age' \in [Threads -> Nat]
    <3>1. ASSUME NEW t \in Threads, left[t] \notin {0, Never} PROVE left[t] - 1 \in Int
      BY <3>1 DEF IInv, TypeOK
    <3> QED
      BY <3>1 DEF IInv, TypeOK, Tick
  <2> QED
    BY <2>1, <2>2 DEF IInv, TypeOK, Tick, object
<1>2. Placed' /\ OneHolder' /\ OwnerNotWrong' /\ GivenBack' /\ Entries'
  BY DEF IInv, Tick, object, Placed, OneHolder, Excludes, OwnerNotWrong, GivenBack, Entries,
         Recorded, Is
<1> QED
  BY <1>1, <1>2 DEF IInv

\* Every behaviour of every lock and mutex of every port keeps the invariant.
LEMMA Invariant == Spec => []IInv
<1>1. IInv /\ [Next]_vars => IInv'
  <2> SUFFICES ASSUME IInv, [Next]_vars PROVE IInv'
    OBVIOUS
  <2>1. CASE LockInit \/ MutexInit
    BY <2>1, InitShape, OpeningInvariant DEF IInv
  <2>2. CASE LockDelete \/ MutexDelete
    BY <2>2, DeleteShape, ClosingInvariant
  <2>3. CASE Tick
    BY <2>3, TickInvariant
  <2>4. ASSUME NEW t \in Threads, Call(t) PROVE IInv'
    BY <2>4, CallShape, MovesInvariant, ActsInvariant
  <2>5. CASE UNCHANGED vars
    BY <2>5
    DEF vars, object, clocks, IInv, TypeOK, Placed, OneHolder, Excludes, OwnerNotWrong,
        GivenBack, Entries, Recorded, Is
  <2> QED
    BY <2>1, <2>2, <2>3, <2>4, <2>5 DEF Next
<1> QED
  BY <1>1, InitInvariant, PTL DEF Spec

\* On every port but the generic one, and the lock of RTEMS, the lock or mutex that
\* exists is free or has one holder, after any failed, expired or surplus call.
THEOREM PortExclusion == Spec => []OneHolder
<1>1. IInv => OneHolder
  BY DEF IInv
<1> QED
  BY <1>1, Invariant, PTL

\* The record of the owner, written and erased outside the semaphore, never names a
\* thread that does not hold the lock and is not about to erase itself.
THEOREM PortOwnerRecord == Spec => []OwnerNotWrong
<1>1. IInv => OwnerNotWrong
  BY DEF IInv
<1> QED
  BY <1>1, Invariant, PTL

\* Every variable of the locks keeps its type, whatever times the conversions yield.
THEOREM PortLockTypes == Spec => []TypeOK
<1>1. IInv => TypeOK
  BY DEF IInv
<1> QED
  BY <1>1, Invariant, PTL

\* What an invalid lock or mutex leaves behind on each port.
THEOREM PortLockGivenBack == Spec => []GivenBack
<1>1. IInv => GivenBack
  BY DEF IInv
<1> QED
  BY <1>1, Invariant, PTL

\* On every port the lock or mutex that exists is free or has one holder, and its record
\* names no bystander.
THEOREM PortHolder == Spec => []HolderTrue
<1>1. OneHolder /\ OwnerNotWrong => HolderTrue
  BY DEF HolderTrue
<1> QED
  BY <1>1, PortExclusion, PortOwnerRecord, PTL

-----------------------------------------------------------------------------
\* The whole ticks of a time, and the time they last.
LEMMA WholeTicks ==
  ASSUME NEW x \in Nat
  PROVE  /\ MSecToTick(x) \in Nat /\ MSecToTick(x) * TickLen \in Nat
         /\ MSecToTick(x) * TickLen <= x /\ x < MSecToTick(x) * TickLen + TickLen
         /\ (MSecToTick(x) - 1) * TickLen = MSecToTick(x) * TickLen - TickLen
<1> DEFINE q == x \div TickLen
<1>1. TickLen \in Nat \ {0}
  BY PortTimeAssumption
<1>2. q \in Nat /\ x = TickLen * q + (x % TickLen) /\ x % TickLen \in 0 .. TickLen - 1
  <2>1. ASSUME NEW y \in Nat \ {0}
        PROVE  /\ x \div y \in Nat /\ x % y \in 0 .. y - 1
               /\ x = y * (x \div y) + (x % y)
    OBVIOUS
  <2> QED
    BY <1>1, <2>1
<1> HIDE DEF q
<1>3. TickLen * q = q * TickLen /\ q * TickLen \in Nat
      /\ (q - 1) * TickLen = q * TickLen - TickLen
  BY <1>1, <1>2
<1> QED
  BY <1>1, <1>2, <1>3 DEF MSecToTick, q

\* The product that fits its integer counts the whole ticks.
LEMMA HzWholeTicks ==
  ASSUME NEW x \in Nat, ~HzOverflows(x)
  PROVE  HzTicks(x) = MSecToTick(x)
<1> DEFINE q == MSecToTick(x)
<1>1. TickLen \in Nat \ {0} /\ Hz \in Nat \ {0} /\ Word \in Nat \ {0}
  BY PortTimeAssumption
<1>2. /\ q \in Nat /\ q * TickLen \in Nat
      /\ q * TickLen <= x /\ x < q * TickLen + TickLen
  BY WholeTicks
<1> HIDE DEF q
<1>3. Hz * (q * TickLen) <= Hz * x /\ Hz * x < Hz * (q * TickLen + TickLen)
  <2>1. ASSUME NEW a \in Nat \ {0}, NEW b \in Nat, NEW c \in Nat
        PROVE  (b <= c => a * b <= a * c) /\ (b < c => a * b < a * c)
    OBVIOUS
  <2> QED
    BY <1>1, <1>2, <2>1
<1>4. /\ Hz * (q * TickLen) = q * Sec /\ Hz * (q * TickLen + TickLen) = q * Sec + Sec
      /\ Sec \in Nat \ {0} /\ Hz * x \in Nat
  <2>1. ASSUME NEW a \in Nat \ {0}, NEW b \in Nat \ {0} PROVE a * b \in Nat \ {0}
    OBVIOUS
  <2> QED
    BY <1>1, <1>2, <2>1 DEF Sec
<1>5. ASSUME NEW n \in Nat, NEW y \in Nat \ {0}, NEW p \in Nat, p * y <= n, n < p * y + y
      PROVE  n \div y = p
  BY <1>5
<1>6. (Hz * x) \div Sec = q
  BY <1>2, <1>3, <1>4, <1>5
<1>7. (Hz * x) % Word = Hz * x
  BY <1>1, <1>4 DEF HzOverflows
<1> QED
  BY <1>6, <1>7 DEF HzTicks, q

\* What a port promises of a wait is no more than what the wait asks for.
LEMMA PromisedFacts ==
  ASSUME NEW w \in Nat
  PROVE  Promised(w) \in Int /\ Promised(w) <= w
BY WholeTicks, PortTimeAssumption DEF Promised

\* The units that a wait for w is given keep what the port promises of it.
Lasts(w, units) ==
  \/ units = Never
  \/ port = "linux_drv" \/ (port = "vxworks" /\ HzOverflows(w))
  \/ port # "rtems" /\ units \in Int /\ units >= Promised(w)

LEMMA UnitsLast ==
  ASSUME NEW w \in Times, phase \in 0 .. TickLen - 1
  PROVE  /\ port \in {"ecos", "nucleus"} => Lasts(w, Ticks(w, MSecToTick(w)))
         /\ port = "vxworks" => Lasts(w, Ticks(w, HzTicks(w)))
         /\ port = "win32" => Lasts(w, Finite(w))
         /\ port = "xapi" => Lasts(w, Ticks(w, w))
<1>1. w \in Nat /\ TickLen \in Nat \ {0}
  BY PortTimeAssumption, PortLockAssumption
<1>2. ASSUME port \in {"ecos", "nucleus", "vxworks"} PROVE Lasts(w, Ticks(w, MSecToTick(w)))
  <2> DEFINE n == MSecToTick(w)
  <2>1. n \in Nat /\ n * TickLen \in Nat /\ (n - 1) * TickLen = n * TickLen - TickLen
    BY <1>1, WholeTicks
  <2>2. Promised(w) = (n - 1) * TickLen
    BY <1>2 DEF Promised
  <2> HIDE DEF n
  <2>3. UntilTick(n, phase) \in Int /\ UntilTick(n, phase) >= n * TickLen - TickLen
    <3>1. ASSUME NEW y \in Nat \ {0} PROVE 0 * y = 0
      OBVIOUS
    <3> QED
      BY <1>1, <2>1, <3>1 DEF UntilTick
  <2>4. Ticks(w, n) = Never \/ (Ticks(w, n) \in Int /\ Ticks(w, n) >= Promised(w))
    BY <1>1, <2>1, <2>2, <2>3 DEF Ticks
  <2> QED
    BY <1>2, <2>4 DEF n, Lasts
<1>3. ASSUME port = "vxworks" PROVE Lasts(w, Ticks(w, HzTicks(w)))
  BY <1>1, <1>2, <1>3, HzWholeTicks DEF Lasts
<1>4. ASSUME port = "win32" PROVE Lasts(w, Finite(w))
  BY <1>1, <1>4 DEF Lasts, Promised, Finite
<1>5. ASSUME port = "xapi" PROVE Lasts(w, Ticks(w, w))
  \* The last of w ticks comes w - 1 ticks after the first, and the first within a tick.
  <2>1. ASSUME NEW n \in Nat \ {0}, NEW y \in Nat \ {0}
        PROVE  n * y \in Nat /\ n * y >= n + y - 1
    <3>1. (n - 1) * (y - 1) >= 0 /\ (n - 1) * (y - 1) = n * y - n - y + 1
      OBVIOUS
    <3>2. n * y \in Nat
      OBVIOUS
    <3> QED
      BY <3>1, <3>2
  <2> QED
    BY <1>1, <1>5, <2>1 DEF Lasts, Promised, Ticks, UntilTick
<1> QED
  BY <1>2, <1>3, <1>4, <1>5

\* The wait of thread t has lasted as long as its port promises.
Lasted(t) ==
  \/ age[t] >= Promised(timeout[t])
  \/ port = "linux_drv" \/ (port = "vxworks" /\ HzOverflows(timeout[t]))

Answers == [result : {"none", "success", "error"}, code : {0, 1}]

\* Every wait that sleeps has lasted, or will have when its units are over, and on RTEMS
\* has no limit; a thread that
\* is in no wait has no time left of one.
Waiting(t) ==
  \/ left[t] = Never
  \/ port # "rtems" /\ (Lasted(t) \/ age[t] + left[t] >= Promised(timeout[t]))
Timed ==
  /\ out \in [Threads -> Answers]
  /\ \A t \in Threads : st[t] \in {"idle", "gave"} => timeout[t] = 0
  /\ \A t \in Threads : st[t] \in {"trying", "pausing"} => timeout[t] # 0
  /\ \A t \in Threads : st[t] = "asleep" => Waiting(t)

\* What the code of a wait that fails says.
Says(t, code) ==
  st[t] \in Waits => (code = 1 <=> RanOut(t) /\ ~Untold(t)) /\ (code = 1 => Lasted(t))

\* What every call does to the clocks and the answers: it leaves those of other threads
\* alone, enters a wait with units enough and says of itself what is so.
Keeps(t) ==
  /\ port' = port
  /\ out' \in [Threads -> Answers]
  /\ \A u \in Threads \ {t} :
       /\ st'[u] = st[u] /\ out'[u] = out[u]
       /\ timeout'[u] = timeout[u] /\ left'[u] = left[u] /\ age'[u] = age[u]
  /\ st'[t] \in {"idle", "gave"} => timeout'[t] = 0
  /\ st'[t] \in {"trying", "pausing"} => timeout'[t] # 0
  /\ st'[t] = "asleep" => Lasts(timeout'[t], left'[t])
  /\ st'[t] = "idle" /\ out'[t].result = "error" => Says(t, out'[t].code)

\* A call that returns keeps them when its code says what is so.
LEMMA ReturnsKeeps ==
  ASSUME TypeOK, Timed, port' = port, NEW t \in Threads,
         NEW result \in {"success", "error"}, NEW code \in {0, 1},
         Returns(t, result, code), result = "error" => Says(t, code)
  PROVE  Keeps(t)
<1>1. /\ st'[t] = "idle" /\ timeout'[t] = 0
      /\ out'[t] = [result |-> result, code |-> code]
  BY DEF TypeOK, Timed, Returns
<1>2. out' \in [Threads -> Answers]
  BY DEF Timed, Returns, Answers
<1>3. \A u \in Threads \ {t} :
        /\ st'[u] = st[u] /\ out'[u] = out[u]
        /\ timeout'[u] = timeout[u] /\ left'[u] = left[u] /\ age'[u] = age[u]
  BY DEF TypeOK, Timed, Returns
<1> QED
  BY <1>1, <1>2, <1>3 DEF Keeps

LEMMA FailsKeeps ==
  ASSUME TypeOK, Timed, NEW t \in Threads, NEW p, NEW k, NEW code \in {0, 1},
         Fails(p, k, t, code), Is(p, k) => Says(t, code)
  PROVE  Keeps(t)
BY ReturnsKeeps DEF Fails, object

\* A wait that runs out has lasted, and has the code 1 but where nothing tells of it.
LEMMA ExpiresKeeps ==
  ASSUME TypeOK, Timed, NEW t \in Threads, NEW p, NEW code \in {0, 1}, Expires(p, t, code),
         port = p => (code = 1 <=> ~Untold(t))
  PROVE  Keeps(t)
<1>1. RanOut(t)
  BY DEF RanOut, Expires
<1>2. Lasted(t)
  <2>1. left[t] = 0 /\ left[t] # Never /\ Waiting(t) /\ age[t] \in Nat
    BY PortTimeAssumption DEF Expires, Timed, TypeOK
  <2>2. Promised(timeout[t]) \in Int
    BY PromisedFacts DEF TypeOK
  <2> QED
    BY <2>1, <2>2 DEF Waiting, Lasted
<1> QED
  BY <1>1, <1>2, FailsKeeps DEF Expires, Says, Is

\* A try, and a wait of less than a tick, fail without a code.
LEMMA FailuresKeep ==
  ASSUME TypeOK, Timed, NEW t \in Threads, NEW p,
         \/ TryFails(p, t)
         \/ p = "vxworks" /\ HzTicks(timeout[t]) = 0 /\ FailsAtOnce(p, t)
         \/ p = "nucleus" /\ MSecToTick(timeout[t]) = 0 /\ FailsAtOnce(p, t)
  PROVE  Keeps(t)
BY ExpiresKeeps DEF TryFails, FailsAtOnce, RunsOut, Untold

\* A wait of a tick and more has the code 1.
LEMMA RunsOutKeeps ==
  ASSUME TypeOK, Timed, NEW t \in Threads, NEW p, RunsOut(p, t, 1),
         p = "vxworks" => HzTicks(timeout[t]) # 0,
         p = "nucleus" => MSecToTick(timeout[t]) # 0
  PROVE  Keeps(t)
BY ExpiresKeeps DEF RunsOut, Expires, Untold

\* A call that enters its wait with units enough.
LEMMA AsksKeeps ==
  ASSUME TypeOK, Timed, NEW t \in Threads, NEW p, NEW k, NEW w, NEW units,
         AsksFor(p, k, t, w, units), Lasts(w, units)
  PROVE  Keeps(t)
<1>1. st'[t] = "asleep" /\ timeout'[t] = w /\ left'[t] = units /\ out'[t] = Nothing
  BY DEF TypeOK, Timed, AsksFor
<1>2. out' \in [Threads -> Answers] /\ Nothing.result # "error"
  BY DEF Timed, AsksFor, Nothing, Answers
<1>3. \A u \in Threads \ {t} :
        /\ st'[u] = st[u] /\ out'[u] = out[u]
        /\ timeout'[u] = timeout[u] /\ left'[u] = left[u] /\ age'[u] = age[u]
  BY DEF TypeOK, Timed, AsksFor
<1> QED
  BY <1>1, <1>2, <1>3 DEF Keeps, AsksFor, object

\* Taking, recording, giving back and erasing say nothing of time.
LEMMA ActsKeeps ==
  ASSUME TypeOK, Timed, NEW t \in Threads, Acts(t)
  PROVE  Keeps(t)
<1>1. ASSUME Gets(t) PROVE Keeps(t)
  <2>1. CASE Returns(t, "success", 0)
    BY <1>1, <2>1, ReturnsKeeps DEF Gets
  <2>2. CASE st' = [st EXCEPT ![t] = "took"] /\ UNCHANGED <<clocks, phase, out>>
    BY <1>1, <2>2 DEF Gets, TypeOK, Timed, Keeps, clocks
  <2> QED
    BY <1>1, <2>1, <2>2 DEF Gets
<1>2. ASSUME Done(t), st[t] = "idle" PROVE Keeps(t)
  BY <1>2 DEF Done, TypeOK, Timed, Keeps, Says, Waits, clocks
<1>3. CASE \E p \in AllPorts : Records(p, t)
  BY <1>3, ReturnsKeeps DEF Records, object
<1>4. CASE \E p \in AllPorts : Erases(p, t)
  <2>1. st[t] = "gave" /\ st' = [st EXCEPT ![t] = "idle"]
        /\ UNCHANGED <<port, timeout, left, age, out>>
    BY <1>4 DEF Erases, object, clocks
  <2> QED
    BY <2>1 DEF TypeOK, Timed, Keeps, Says, Waits
<1> QED
  BY <1>1, <1>2, <1>3, <1>4 DEF Acts, Takes, Posts, Pretends, Pretended, Surplus

LEMMA LockGetsKeeps ==
  ASSUME TypeOK, Timed, NEW t \in Threads,
         \/ \E p \in AllPorts : LockGets(p, t)
         \/ \E p \in AllPorts \cup {"linux_appl"} : MutexGets(p, t)
  PROVE  Keeps(t)
BY AsksKeeps, ActsKeeps DEF LockGets, MutexGets, Acts, Lasts

LEMMA TimedGetKeeps ==
  ASSUME TypeOK, Timed, NEW t \in Threads, NEW w \in Times, LockTimedGet(t, w)
  PROVE  Keeps(t)
<1>1. phase \in 0 .. TickLen - 1
  BY DEF TypeOK
<1>2. CASE Acts(t) \/ (\E p \in AllPorts : TryFails(p, t))
  BY <1>2, ActsKeeps, FailuresKeep
<1>3. CASE EcosTimedGet(t, w)
  <2>1. ASSUME AsksFor("ecos", "lock", t, w, Ticks(w, MSecToTick(w))) PROVE Keeps(t)
    BY <1>1, <2>1, AsksKeeps, UnitsLast DEF AsksFor, Is
  <2> QED
    BY <1>2, <1>3, <2>1, RunsOutKeeps, FailuresKeep DEF EcosTimedGet, Acts, AllPorts
<1>4. CASE VxworksTimedGet(t, w)
  <2>1. ASSUME AsksFor("vxworks", "lock", t, w, Ticks(w, HzTicks(w))) PROVE Keeps(t)
    BY <1>1, <2>1, AsksKeeps, UnitsLast DEF AsksFor, Is
  <2> QED
    BY <1>2, <1>4, <2>1, RunsOutKeeps, FailuresKeep DEF VxworksTimedGet, Acts, AllPorts
<1>5. CASE Win32TimedGet(t, w)
  <2>1. ASSUME AsksFor("win32", "lock", t, w, Finite(w)) PROVE Keeps(t)
    BY <1>1, <2>1, AsksKeeps, UnitsLast DEF AsksFor, Is
  <2> QED
    BY <1>2, <1>5, <2>1, RunsOutKeeps, FailuresKeep DEF Win32TimedGet, Acts, AllPorts
<1>6. CASE NucleusTimedGet(t, w)
  <2>1. ASSUME AsksFor("nucleus", "lock", t, w, Ticks(w, MSecToTick(w))) PROVE Keeps(t)
    BY <1>1, <2>1, AsksKeeps, UnitsLast DEF AsksFor, Is
  <2> QED
    BY <1>2, <1>6, <2>1, RunsOutKeeps, FailuresKeep DEF NucleusTimedGet, Acts, AllPorts
<1>7. CASE XapiTimedGet(t, w)
  <2>1. ASSUME AsksFor("xapi", "lock", t, w, Ticks(w, w)) PROVE Keeps(t)
    BY <1>1, <2>1, AsksKeeps, UnitsLast DEF AsksFor, Is
  <2> QED
    BY <1>2, <1>7, <2>1, RunsOutKeeps, FailuresKeep DEF XapiTimedGet, Acts, AllPorts
<1>8. CASE RtemsTimedGet(t, w) \/ GenericTimedGet(t, w)
  BY <1>2, <1>8 DEF RtemsTimedGet, GenericTimedGet, Acts, AllPorts
<1>9. CASE LinuxDrvTimedGet(t, w)
  <2>1. CASE AsksFor("linux_drv", "lock", t, w, Finite(w))
    BY <2>1, AsksKeeps DEF Lasts, AsksFor, Is
  <2>2. CASE Takes("linux_drv", "lock", t) \/ TryFails("linux_drv", t)
    BY <1>2, <2>2 DEF Acts, AllPorts
  <2>3. CASE /\ Is("linux_drv", "lock")
             /\ w \notin {0, Forever}
             /\ st' = [st EXCEPT ![t] = "trying"] /\ timeout' = [timeout EXCEPT ![t] = w]
             /\ out' = [out EXCEPT ![t] = Nothing]
             /\ UNCHANGED <<object, owner, holds, left, age, poll, phase>>
    BY <2>3 DEF TypeOK, Timed, Keeps, Nothing, Answers, object
  <2>4. CASE LinuxDrvPauses(t) \/ LinuxDrvGoesOn(t)
    BY <2>4 DEF LinuxDrvPauses, LinuxDrvGoesOn, TypeOK, Timed, Keeps, object
  <2>5. CASE st[t] = "idle" /\ Fails("linux_drv", "lock", t, 0)
    BY <2>5, FailsKeeps DEF Says, Waits
  <2>6. CASE /\ st[t] = "trying" /\ sem = 0 /\ poll[t] > timeout[t]
             /\ Fails("linux_drv", "lock", t, 1)
    <3>1. Fails("linux_drv", "lock", t, 1) /\ RanOut(t) /\ st[t] = "trying" /\ timeout[t] # 0
      BY <2>6 DEF RanOut, Timed
    <3>2. Is("linux_drv", "lock") => Lasted(t) /\ ~Untold(t)
      BY <3>1 DEF Lasted, Untold, Is
    <3> QED
      BY <3>1, <3>2, FailsKeeps DEF Says
  <2>7. CASE st[t] = "pausing" /\ left[t] = 0 /\ Fails("linux_drv", "lock", t, 0)
    BY <2>7, FailsKeeps DEF Says, Untold
  <2> QED
    BY <1>9, <2>1, <2>2, <2>3, <2>4, <2>5, <2>6, <2>7 DEF LinuxDrvTimedGet
<1> QED
  BY <1>3, <1>4, <1>5, <1>6, <1>7, <1>8, <1>9 DEF LockTimedGet

LEMMA CallKeeps ==
  ASSUME TypeOK, Timed, NEW t \in Threads, Call(t)
  PROVE  Keeps(t)
<1>1. ASSUME NEW p, NEW k, st[t] = "idle", Fails(p, k, t, 0) PROVE Keeps(t)
  BY <1>1, FailsKeeps DEF Says, Waits
<1>d. ASSUME NEW k, FindsDead(k, t) PROVE Keeps(t)
  <2>1. Is("rtems", k) => Says(t, 0)
    BY <1>d, PortTimeAssumption DEF FindsDead, Is, Timed, Waiting, Says, RanOut
  <2> QED
    BY <1>d, <2>1, FailsKeeps DEF FindsDead
<1>2. CASE LockGet(t)
  BY <1>d, <1>2, LockGetsKeeps, ActsKeeps
  DEF LockGet, LinuxDrvLockGet, EcosLockGet, VxworksLockGet, Win32LockGet, NucleusLockGet,
      RtemsLockGet, XapiLockGet, GenericLockGet, Acts, AllPorts
<1>3. CASE MutexGet(t)
  BY <1>d, <1>3, LockGetsKeeps, ActsKeeps
  DEF MutexGet, LinuxApplMutexGet, LinuxDrvMutexGet, EcosMutexGet, VxworksMutexGet,
      Win32MutexGet, NucleusMutexGet, RtemsMutexGet, XapiMutexGet, GenericMutexGet,
      Acts, AllPorts
<1>f. ASSUME NEW p, Surplus(p, t), Fails(p, "lock", t, 0) PROVE Keeps(t)
  BY <1>1, <1>f DEF Surplus
<1>4. CASE LockRelease(t)
  BY <1>1, <1>f, <1>4, ActsKeeps
  DEF LockRelease, LinuxDrvLockRelease, EcosLockRelease, VxworksLockRelease,
      Win32LockRelease, NucleusLockRelease, RtemsLockRelease, XapiLockRelease,
      GenericLockRelease, LockPosts, Acts, AllPorts
<1>5. CASE MutexRelease(t)
  BY <1>5, ActsKeeps
  DEF MutexRelease, LinuxApplMutexRelease, LinuxDrvMutexRelease, EcosMutexRelease,
      VxworksMutexRelease, Win32MutexRelease, NucleusMutexRelease, RtemsMutexRelease,
      XapiMutexRelease, GenericMutexRelease, Acts, AllPorts
<1>6. CASE InvalidCall(t)
  BY <1>1, <1>6 DEF InvalidCall
<1> QED
  BY <1>2, <1>3, <1>4, <1>5, <1>6, TimedGetKeeps DEF Call

\* A call keeps what is so of the clocks.
LEMMA CallTimed ==
  ASSUME TypeOK', Timed, NEW t \in Threads, Keeps(t)
  PROVE  Timed'
<1>1. port' = port /\ out' \in [Threads -> Answers]
  BY DEF Keeps
<1>2. \A u \in Threads : /\ st'[u] \in {"idle", "gave"} => timeout'[u] = 0
                         /\ st'[u] \in {"trying", "pausing"} => timeout'[u] # 0
  BY DEF Keeps, Timed
<1>3. ASSUME NEW u \in Threads, st'[u] = "asleep" PROVE Waiting(u)'
  <2>1. CASE u = t
    <3>1. Lasts(timeout'[u], left'[u])
      BY <1>3, <2>1 DEF Keeps
    <3>2. age'[u] \in Nat /\ timeout'[u] \in Nat
      BY DEF TypeOK
    <3>3. Promised(timeout'[u]) \in Int
      BY <3>2, PromisedFacts
    <3>4. (Promised(timeout[u]))' = Promised(timeout'[u])
      BY <1>1 DEF Promised
    <3> QED
      BY <1>1, <3>1, <3>2, <3>3, <3>4 DEF Lasts, Waiting, Lasted
  <2>2. CASE u # t
    BY <1>1, <1>3, <2>2 DEF Keeps, Timed, Waiting, Lasted, Promised
  <2> QED
    BY <2>1, <2>2
<1> QED
  BY <1>1, <1>2, <1>3 DEF Timed

\* While time passes, what a wait has lasted and what it has left add up.
LEMMA TickTimed ==
  ASSUME TypeOK, Timed, Tick
  PROVE  Timed'
<1>1. UNCHANGED <<port, st, timeout, out>>
  BY DEF Tick, object
<1>2. ASSUME NEW t \in Threads, st[t] = "asleep" PROVE Waiting(t)'
  <2>1. (Promised(timeout[t]))' = Promised(timeout[t])
    BY <1>1 DEF Promised
  <2>2. /\ Promised(timeout[t]) \in Int /\ Promised(timeout[t]) <= timeout[t]
        /\ timeout[t] \in Nat /\ age[t] \in Nat /\ left[t] \in Int \cup {Never}
    BY PromisedFacts DEF TypeOK
  <2>3. /\ left'[t] = IF left[t] \notin {0, Never} THEN left[t] - 1 ELSE left[t]
        /\ age'[t] = IF left[t] # Never /\ age[t] < timeout[t] THEN age[t] + 1 ELSE age[t]
    BY <1>2 DEF Tick
  <2>4. Waiting(t) /\ Never \notin Int
    BY <1>2, PortTimeAssumption DEF Timed
  <2> QED
    BY <1>1, <2>1, <2>2, <2>3, <2>4 DEF Waiting, Lasted
<1> QED
  BY <1>1, <1>2 DEF Timed

\* A step that is no call leaves the clocks and the answers as they are, or brings nobody
\* back from a wait.
LEMMA TimedStep ==
  ASSUME IInv, IInv', Timed, [Next]_vars
  PROVE  /\ Timed'
         /\ \A t \in Threads :
              st'[t] = "idle" /\ out'[t].result = "error" => Says(t, out'[t].code)
<1>1. TypeOK /\ TypeOK'
  BY DEF IInv
<1> DEFINE Honest == \A t \in Threads :
             st'[t] = "idle" /\ out'[t].result = "error" => Says(t, out'[t].code)
<1>2. ASSUME UNCHANGED st PROVE Honest
  BY <1>2 DEF Says, Waits
<1>s. ASSUME UNCHANGED <<port, st, timeout, left, age, out>> PROVE Timed' /\ Honest
  BY <1>2, <1>s DEF Timed, Waiting, Lasted, Promised
<1> HIDE DEF Honest
<1> SUFFICES Timed' /\ Honest
  BY DEF Honest
<1>3. CASE LockInit \/ MutexInit
  <2>1. UNCHANGED <<port, st, timeout, left, age, out>>
    BY <1>1, <1>3, InitShape DEF Opening, clocks
  <2> QED
    BY <1>s, <2>1
<1>4. CASE LockDelete \/ MutexDelete
  <2>1. UNCHANGED <<port, st, timeout, left, age, out>>
    BY <1>4, DeleteShape DEF Closing, Unused, clocks
  <2> QED
    BY <1>s, <2>1
<1>5. CASE Tick
  BY <1>1, <1>2, <1>5, TickTimed DEF Tick
<1>6. ASSUME NEW t \in Threads, Call(t)
      PROVE  Timed' /\ Honest
  <2>1. Keeps(t)
    BY <1>1, <1>6, CallKeeps
  <2>2. Timed'
    BY <1>1, <2>1, CallTimed
  <2> QED
    BY <2>1, <2>2 DEF Keeps, Says, Waits, Honest
<1>7. CASE UNCHANGED vars
  BY <1>s, <1>7 DEF vars, object, clocks
<1> QED
  BY <1>3, <1>4, <1>5, <1>6, <1>7 DEF Next

LEMMA InitTimed == Init => Timed
BY DEF Init, Timed, Nothing, Answers

\* The return code of a timed get that fails is 1 when its time has run out and in no other
\* case, but for the waits that say nothing of it; and no time runs out early but by the
\* tick that some ports miss, by the kernel's signals and by the overflow of VxWorks: for
\* any threads, times, rates and lengths of a tick.
THEOREM LockTimeouts == Spec => TimeoutTrue
<1>1. IInv /\ IInv' /\ Timed /\ [Next]_vars => Timed'
  BY TimedStep
<1>2. IInv /\ IInv' /\ Timed /\ [Next]_vars => [\A t \in Threads :
         st[t] \in Waits /\ st'[t] = "idle" /\ out'[t].result = "error"
           => /\ out'[t].code = 1 <=> RanOut(t) /\ ~Untold(t)
              /\ out'[t].code = 1 =>
                   \/ age[t] >= Promised(timeout[t])
                   \/ port = "linux_drv" \/ (port = "vxworks" /\ HzOverflows(timeout[t]))]_vars
  BY TimedStep DEF Says, Lasted
<1> QED
  BY <1>1, <1>2, InitTimed, Invariant, PTL DEF Spec, TimeoutTrue

-----------------------------------------------------------------------------
(* The promise of a lock.                                                   *)

\* Only RTEMS has an object that is valid and gone, and nobody has a mutex that is; whoever
\* asks for a lock does not have it, or may have it again.
Gone == bValid /\ ~alive =>
  port = "rtems" /\ (kind = "mutex" => \A t \in Threads : holds[t] = 0)
Asking == \A t \in Asleep : holds[t] < Deepest

Shown == IInv /\ Gone /\ Asking /\ out \in [Threads -> Answers]

\* What the mapping shows of a thread.
LEMMA ShownFacts ==
  ASSUME Shown
  PROVE  /\ \A t \in Threads : t \in Asleep <=> st[t] \in Waits
         /\ Asleep \subseteq Threads
         /\ Told \in [Threads -> {"none", "success", "error"}]
         /\ \A t \in Threads : Told[t] = IF st[t] = "took" THEN "success" ELSE out[t].result
<1>1. \A t \in Threads : out[t].result \in {"none", "success", "error"}
  BY DEF Shown, Answers
<1> QED
  BY <1>1 DEF Asleep, Told

\* When the lock is not seen to change but thread t, the answers and the waits of the
\* others stay as they are.
LEMMA OthersShown ==
  ASSUME Shown, NEW t \in Threads,
         st' \in [Threads -> {"idle", "asleep", "trying", "pausing", "took", "gave"}],
         out' \in [Threads -> Answers],
         \A u \in Threads \ {t} : st'[u] = st[u] /\ out'[u] = out[u]
  PROVE  /\ Asleep' = (IF st'[t] \in Waits THEN Asleep \cup {t} ELSE Asleep \ {t})
         /\ Told' = [Told EXCEPT ![t] = IF st'[t] = "took" THEN "success" ELSE out'[t].result]
<1>1. Asleep' = (IF st'[t] \in Waits THEN Asleep \cup {t} ELSE Asleep \ {t})
  BY DEF Asleep
<1>2. \A u \in Threads \ {t} : Told'[u] = Told[u]
  BY DEF Told
<1>3. Told'[t] = IF st'[t] = "took" THEN "success" ELSE out'[t].result
  BY DEF Told
<1>4. Told' = [u \in Threads |-> Told'[u]] /\ Told = [u \in Threads |-> Told[u]]
  BY DEF Told
<1> QED
  BY <1>1, <1>2, <1>3, <1>4

LEMMA SortKept == ASSUME UNCHANGED <<port, kind>> PROVE Sort' = Sort /\ Deepest' = Deepest
BY DEF Sort, Excludes, Recursive, Deepest, Is

\* A call that fails, enters a wait or goes on waiting.
LEMMA MovesRefines ==
  ASSUME Shown, TypeOK', out' \in [Threads -> Answers], NEW t \in Threads, Moves(t)
  PROVE  Gone' /\ Asking' /\ [Promise!Next]_(Promise!vars)
<1>1. st \in [Threads -> {"idle", "asleep", "trying", "pausing", "took", "gave"}]
      /\ st' \in [Threads -> {"idle", "asleep", "trying", "pausing", "took", "gave"}]
      /\ out \in [Threads -> Answers]
  BY DEF Shown, IInv, TypeOK
<1>2. UNCHANGED <<port, kind, bValid, alive, holds, Exists, Sort, Deepest>>
  BY SortKept DEF Moves, object, Exists
<1>3. Gone'
  BY <1>2 DEF Shown, Gone
<1>4. \A u \in Threads \ {t} : st'[u] = st[u] /\ out'[u] = out[u]
  BY <1>1 DEF Moves
<1>5. /\ Asleep' = (IF st'[t] \in Waits THEN Asleep \cup {t} ELSE Asleep \ {t})
      /\ Told' = [Told EXCEPT ![t] = IF st'[t] = "took" THEN "success" ELSE out'[t].result]
  BY <1>1, <1>4, OthersShown
<1>6. CASE /\ st' = [st EXCEPT ![t] = "idle"]
           /\ \E code :
                out' = [out EXCEPT ![t] = [result |-> "error", code |-> code]]
  <2>1. st'[t] = "idle" /\ out'[t].result = "error"
    BY <1>1, <1>6
  <2>2. Asleep' = Asleep \ {t} /\ Told' = [Told EXCEPT ![t] = "error"]
    BY <1>5, <2>1 DEF Waits
  <2>3. Promise!Refuse(t)
    BY <1>2, <2>2 DEF Promise!Refuse
  <2>4. Asking'
    BY <1>2, <2>2 DEF Shown, Asking
  <2> QED
    BY <1>3, <2>3, <2>4 DEF Promise!Next
<1>7. CASE /\ st[t] = "idle" /\ holds[t] < Deepest
           /\ \E place \in Waits : st' = [st EXCEPT ![t] = place]
           /\ out' = [out EXCEPT ![t] = Nothing]
  <2>1. st'[t] \in Waits /\ out'[t].result = "none"
    BY <1>1, <1>7 DEF Nothing
  <2>2. Asleep' = Asleep \cup {t} /\ Told' = [Told EXCEPT ![t] = "none"]
    BY <1>5, <2>1 DEF Waits
  <2>3. t \notin Asleep
    BY <1>7, ShownFacts DEF Waits
  <2>4. Promise!Ask(t)
    BY <1>2, <2>2, <2>3 DEF Promise!Ask
  <2>5. Asking'
    BY <1>2, <1>7, <2>2 DEF Shown, Asking
  <2> QED
    BY <1>3, <2>4, <2>5 DEF Promise!Next
<1>8. CASE /\ st[t] \in Waits /\ \E place \in Waits : st' = [st EXCEPT ![t] = place]
           /\ UNCHANGED out
  <2>1. st'[t] \in Waits /\ st[t] \in Waits /\ st[t] # "took" /\ st'[t] # "took"
    BY <1>1, <1>8 DEF Waits
  <2>2. t \in Asleep /\ Told[t] = out[t].result /\ Told \in [Threads -> {"none", "success", "error"}]
    BY <2>1, ShownFacts
  <2>3. Asleep' = Asleep /\ Told' = Told
    BY <1>5, <1>8, <2>1, <2>2
  <2>4. Asking'
    BY <1>2, <2>3 DEF Shown, Asking
  <2> QED
    BY <1>2, <1>3, <2>3, <2>4 DEF Promise!vars
<1> QED
  BY <1>3, <1>6, <1>7, <1>8 DEF Moves

\* Taking, recording, giving back and erasing.
LEMMA ActsRefines ==
  ASSUME Shown, Timed, NEW t \in Threads, Acts(t)
  PROVE  Gone' /\ Asking' /\ [Promise!Next]_(Promise!vars)
<1>1. /\ UNCHANGED <<port, kind, bValid, alive, Sort, Exists, Deepest>> /\ bValid
      /\ \A u \in Threads \ {t} : holds'[u] = holds[u]
      /\ TypeOK'
  BY ActsFrame, SortKept DEF Shown, Exists
<1>2. st \in [Threads -> {"idle", "asleep", "trying", "pausing", "took", "gave"}]
      /\ st' \in [Threads -> {"idle", "asleep", "trying", "pausing", "took", "gave"}]
      /\ holds \in [Threads -> Nat] /\ out \in [Threads -> Answers]
  BY <1>1 DEF Shown, IInv, TypeOK
<1>3. Keeps(t)
  BY ActsKeeps DEF Shown, IInv
<1>4. out' \in [Threads -> Answers]
      /\ \A u \in Threads \ {t} : st'[u] = st[u] /\ out'[u] = out[u]
  BY <1>3 DEF Keeps
<1>5. /\ Asleep' = (IF st'[t] \in Waits THEN Asleep \cup {t} ELSE Asleep \ {t})
      /\ Told' = [Told EXCEPT ![t] = IF st'[t] = "took" THEN "success" ELSE out'[t].result]
  BY <1>2, <1>4, OthersShown
<1>6. ASSUME st'[t] \notin Waits PROVE Asleep' = Asleep \ {t} /\ Asking'
  BY <1>1, <1>5, <1>6 DEF Shown, Asking, Asleep
<1>7. ASSUME Gets(t)
      PROVE  /\ holds' = [holds EXCEPT ![t] = @ + 1] /\ Asleep' = Asleep \ {t} /\ Asking'
             /\ Told' = [Told EXCEPT ![t] = "success"]
  <2>1. \/ st'[t] = "idle" /\ out'[t].result = "success"
        \/ st'[t] = "took"
    BY <1>2, <1>7 DEF Gets, Returns
  <2>2. st'[t] \notin Waits /\ Told' = [Told EXCEPT ![t] = "success"]
    BY <1>5, <2>1 DEF Waits
  <2> QED
    BY <1>6, <1>7, <2>2 DEF Gets
<1>8. ASSUME st[t] \notin Waits, st'[t] \notin Waits,
             Told[t] = IF st'[t] = "took" THEN "success" ELSE out'[t].result
      PROVE  UNCHANGED <<Asleep, Told>> /\ Asking'
  BY <1>5, <1>6, <1>8, ShownFacts
<1>9. ASSUME Done(t), st[t] = "idle" PROVE UNCHANGED <<Asleep, Told>> /\ Asking'
  <2>1. st'[t] \in {"idle", "gave"} /\ out' = out
    BY <1>2, <1>9 DEF Done
  <2> QED
    BY <1>8, <1>9, <2>1, ShownFacts DEF Waits
<1>10. CASE \E p, k : Takes(p, k, t)
  <2>1. Gets(t) /\ alive /\ t \in Asleep
    BY <1>10, ShownFacts DEF Takes, Waits
  <2>2. Excludes => Promise!Free(t)
    <3>1. SUFFICES ASSUME Excludes PROVE Promise!Free(t)
      OBVIOUS
    <3>2. \/ sem = 1 /\ \A u \in Threads : holds[u] = 0
          \/ sem = 0 /\ \E u \in Threads : holds[u] > 0 /\ \A v \in Threads \ {u} : holds[v] = 0
      BY <1>1, <2>1, <3>1 DEF Shown, IInv, OneHolder
    <3>3. (holds[t] = 0 /\ sem > 0) \/ holds[t] > 0
      BY <1>10 DEF Takes
    <3>4. \A u \in Threads \ {t} : holds[u] = 0
      BY <1>2, <3>2, <3>3
    <3>5. Sort = "exclusive" => holds[t] = 0
      BY <1>2, <2>1 DEF Sort, Shown, Asking, Deepest
    <3> QED
      BY <3>4, <3>5 DEF Promise!Free
  <2>3. Promise!Get(t)
    BY <1>1, <1>7, <2>1, <2>2 DEF Promise!Get, Sort, Exists
  <2>4. Gone'
    BY <1>1, <2>1 DEF Gone
  <2> QED
    BY <1>7, <2>1, <2>3, <2>4 DEF Promise!Next
<1>11. CASE \E p, k : Posts(p, k, t)
  <2>1. Done(t) /\ st[t] = "idle" /\ alive /\ holds[t] > 0 /\ holds' = [holds EXCEPT ![t] = @ - 1]
    BY <1>11 DEF Posts
  <2>2. t \notin Asleep
    BY <2>1, ShownFacts DEF Waits
  <2>3. Promise!Release(t)
    BY <1>1, <1>9, <2>1, <2>2 DEF Promise!Release, Exists
  <2>4. Gone'
    BY <1>1, <2>1 DEF Gone
  <2> QED
    BY <1>9, <2>1, <2>3, <2>4 DEF Promise!Next
<1>12. CASE \E p \in AllPorts : Records(p, t) \/ Erases(p, t)
  <2>1. /\ st[t] \in {"took", "gave"} /\ st'[t] = "idle" /\ holds' = holds
        /\ st[t] = "took" => out'[t].result = "success"
        /\ st[t] = "gave" => out'[t] = out[t]
    BY <1>2, <1>12 DEF Records, Erases, Returns
  <2>2. UNCHANGED <<Asleep, Told>> /\ Asking'
    BY <1>8, <2>1, ShownFacts DEF Waits
  <2>3. Gone'
    BY <1>1, <2>1 DEF Shown, Gone
  <2> QED
    BY <1>1, <2>1, <2>2, <2>3 DEF Promise!vars
<1>13. CASE Pretends("generic", "lock", t) \/ Pretends("generic", "mutex", t)
            \/ Pretends("rtems", "lock", t)
  <2>1. Gets(t) /\ ~Excludes /\ (port = "generic" \/ kind = "lock")
    BY <1>13 DEF Pretends, Excludes, Is
  <2>2. Promise!Get(t)
    BY <1>1, <1>7, <2>1 DEF Promise!Get, Sort
  <2>3. Gone'
    BY <1>1, <2>1 DEF Shown, Gone
  <2> QED
    BY <1>7, <2>1, <2>2, <2>3 DEF Promise!Next
<1>14. CASE Pretended("lock", t) \/ Pretended("mutex", t)
  <2>1. /\ Done(t) /\ st[t] = "idle" /\ port = "generic" /\ holds[t] > 0
        /\ holds' = [holds EXCEPT ![t] = @ - 1]
    BY <1>14 DEF Pretended, Is
  <2>2. alive /\ t \notin Asleep
    BY <1>1, <2>1, ShownFacts DEF Shown, IInv, TypeOK, Gone, Waits
  <2>3. Promise!Release(t)
    BY <1>1, <1>9, <2>1, <2>2 DEF Promise!Release, Exists
  <2>4. Gone'
    BY <1>1, <2>2 DEF Gone
  <2> QED
    BY <1>9, <2>1, <2>3, <2>4 DEF Promise!Next
<1>15. CASE Surplus("vxworks", t) /\ UNCHANGED sem /\ Done(t)
  <2>1. st[t] = "idle" /\ holds' = holds
    BY <1>15 DEF Surplus
  <2>2. Gone'
    BY <1>1, <2>1 DEF Shown, Gone
  <2> QED
    BY <1>1, <1>9, <1>15, <2>1, <2>2 DEF Promise!vars
<1> QED
  BY <1>10, <1>11, <1>12, <1>13, <1>14, <1>15 DEF Acts

\* Init and delete.
LEMMA OpeningRefines ==
  ASSUME Shown, Opening
  PROVE  Gone' /\ Asking' /\ Promise!Create
<1>1. UNCHANGED <<port, kind, holds, st, out>> /\ ~Exists /\ Exists'
  BY DEF Opening, Exists
<1>2. UNCHANGED <<Asleep, Told, Sort, Deepest>>
  BY <1>1, SortKept DEF Asleep, Told
<1>3. Gone' /\ Asking'
  BY <1>1, <1>2 DEF Shown, Gone, Asking, Exists
<1> QED
  BY <1>1, <1>2, <1>3 DEF Promise!Create

LEMMA ClosingRefines ==
  ASSUME Shown, Closing
  PROVE  Gone' /\ Asking' /\ [Promise!Next]_(Promise!vars)
<1>1. /\ UNCHANGED <<port, kind, st, out>> /\ bValid /\ ~Exists'
      /\ holds' = [u \in Threads |-> 0] /\ \A u \in Threads : st[u] = "idle"
  BY DEF Closing, Unused, Exists
<1>2. UNCHANGED <<Asleep, Told, Sort, Deepest>> /\ Asleep = {}
  BY <1>1, SortKept DEF Asleep, Told, Waits
<1>3. Gone' /\ Asking'
  <2>1. bValid' => port = "rtems"
    BY DEF Shown, IInv, TypeOK, Gone, Closing
  <2> QED
    BY <1>1, <1>2, <2>1 DEF Gone, Asking
<1>4. CASE Exists
  <2>1. Promise!Destroy
    BY <1>1, <1>2, <1>4 DEF Promise!Destroy, Shown, IInv, TypeOK, Exists
  <2> QED
    BY <1>3, <2>1 DEF Promise!Next
<1>5. CASE ~Exists
  \* A lock is not deleted while it is held, and nobody has a mutex that is gone.
  <2>1. \A u \in Threads : holds[u] = 0
    BY <1>1, <1>5 DEF Shown, IInv, TypeOK, Gone, Closing, Unused, Exists
  <2>2. holds \in [Threads -> Nat]
    BY DEF Shown, IInv, TypeOK
  <2>3. holds' = holds
    BY <1>1, <2>1, <2>2
  <2> QED
    BY <1>1, <1>2, <1>3, <1>5, <2>3 DEF Promise!vars, Exists
<1> QED
  BY <1>4, <1>5

\* Every step of the ports is a step of the abstract lock, or none that its users see.
LEMMA NextRefines ==
  ASSUME Shown, IInv', Timed, [Next]_vars
  PROVE  Gone' /\ Asking' /\ [Promise!Next]_(Promise!vars)
<1>1. TypeOK /\ IInv
  BY DEF Shown, IInv
<1>2. TypeOK' /\ out' \in [Threads -> Answers]
  BY <1>1, TimedStep DEF IInv, Timed
<1>3. CASE LockInit \/ MutexInit
  BY <1>1, <1>3, InitShape, OpeningRefines DEF Promise!Next
<1>4. CASE LockDelete \/ MutexDelete
  BY <1>1, <1>4, DeleteShape, ClosingRefines
<1>5. CASE Tick \/ UNCHANGED vars
  <2>1. UNCHANGED <<port, kind, bValid, alive, holds, st, out>>
    BY <1>5 DEF Tick, vars, object
  <2>2. UNCHANGED <<Asleep, Told, Sort, Exists, Deepest>>
    BY <2>1, SortKept DEF Asleep, Told, Exists
  <2> QED
    BY <2>1, <2>2 DEF Shown, Gone, Asking, Promise!vars
<1>6. ASSUME NEW t \in Threads, Call(t)
      PROVE  Gone' /\ Asking' /\ [Promise!Next]_(Promise!vars)
  BY <1>2, <1>6, CallShape, MovesRefines, ActsRefines
<1> QED
  BY <1>3, <1>4, <1>5, <1>6 DEF Next

\* Every lock and mutex of every port implements the abstract lock: whoever is told success
\* has it and nobody else has, and whoever is told an error was not given it; the generic
\* port and the locks of RTEMS, whose timed get takes nothing, only pretend.
THEOREM PortsKeepPromise == Spec => PromiseKept
<1>1. Init => Promise!Init /\ Gone /\ Asking
  <2> SUFFICES ASSUME Init PROVE Promise!Init /\ Gone /\ Asking
    OBVIOUS
  <2>1. Asleep = {} /\ Told = [t \in Threads |-> "none"]
    BY DEF Init, Asleep, Told, Nothing, Waits
  <2>2. Sort \in Promise!Kinds
    BY DEF Sort, Promise!Kinds
  <2> QED
    BY <2>1, <2>2 DEF Init, Promise!Init, Exists, Gone, Asking
<1>2. IInv /\ IInv' /\ Timed /\ [Next]_vars => Timed'
  BY TimedStep
<1>3. IInv /\ Timed /\ Gone /\ Asking => Shown
  BY DEF Shown, Timed
<1>4. Shown /\ IInv' /\ Timed /\ [Next]_vars
        => Gone' /\ Asking' /\ [Promise!Next]_(Promise!vars)
  BY NextRefines
<1> QED
  BY <1>1, <1>2, <1>3, <1>4, InitTimed, Invariant, PTL DEF Spec, PromiseKept, Promise!Spec
=============================================================================
