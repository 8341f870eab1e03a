----------------------------- MODULE WaitsProofs -----------------------------
(***************************************************************************)
(* What a program that waits may rely on, for any numbers of threads, sockets  *)
(* and messages, all times and all sizes.  Every service has an invariant of   *)
(* its own; as only one service moves, a theorem about all of them takes them  *)
(* one by one.                                                                *)
(***************************************************************************)
EXTENDS Waits, FiniteSetTheorems, SequenceTheorems, TLAPS

(* Sockets: what select has left in the set of a thread is readable until that *)
(* thread takes it, since nobody else uses the socket.                         *)

SocketsOf(x) == {f \in Sockets : owner[f] = x}

Told ==
  /\ pc = [x \in Threads |-> pc[x]] /\ ret = [x \in Threads |-> ret[x]]
  /\ fdSet = [x \in Threads |-> fdSet[x]]
  /\ \A x \in Threads : fdSet[x] \subseteq SocketsOf(x)
  /\ SocketPart!ToldReadable

LEMMA SocketsInit == SocketPart!Init => Told
BY DEF SocketPart!Init, Told, SocketPart!ToldReadable

LEMMA ToldStep ==
  ASSUME Told, SocketPart!Next
  PROVE  Told'
<1> USE DEF Told, SocketPart!ToldReadable, SocketsOf
<1>1. ASSUME NEW x \in Threads, NEW s, NEW w, s \subseteq SocketsOf(x), SocketPart!SetBecomes(x, s, w)
      PROVE  Told'
  <2>1. /\ fdSet'[x] = s /\ ret'[x] = 0
        /\ \A y \in Threads \ {x} : fdSet'[y] = fdSet[y] /\ ret'[y] = ret[y]
        /\ ret' = [y \in Threads |-> ret'[y]] /\ fdSet' = [y \in Threads |-> fdSet'[y]]
    BY <1>1 DEF SocketPart!SetBecomes
  <2> QED
    BY <1>1, <2>1 DEF SocketPart!SetBecomes, SocketPart!noSelect
<1>2. ASSUME NEW x \in Threads, SocketPart!SocFdZero(x) PROVE Told'
  BY <1>1, <1>2 DEF SocketPart!SocFdZero
<1>3. ASSUME NEW x \in Threads, NEW f \in Sockets, SocketPart!SocFdSet(x, f) PROVE Told'
  BY <1>1, <1>3 DEF SocketPart!SocFdSet, SocketPart!Uses, SocketPart!Joined
<1>4. ASSUME NEW x \in Threads, NEW f \in Sockets, SocketPart!SocFdClr(x, f) PROVE Told'
  BY <1>1, <1>4 DEF SocketPart!SocFdClr
<1>5. ASSUME NEW x \in Threads, NEW f \in Sockets, SocketPart!SetsOfStubs(x, f) PROVE Told'
  BY <1>1, <1>5 DEF SocketPart!SetsOfStubs
<1>6. ASSUME NEW x \in Threads, SocketPart!Leave(x) PROVE Told'
  BY <1>6 DEF SocketPart!Leave, SocketPart!CallOver
<1>7. ASSUME NEW x \in Threads, NEW ms, NEW p, SocketPart!Enter(p, x, ms) PROVE Told'
  BY <1>7 DEF SocketPart!Enter
<1>8. ASSUME NEW x \in Threads, NEW ms, NEW p, SocketPart!StubSelect(p, x, ms) PROVE Told'
  BY <1>8 DEF SocketPart!StubSelect
<1>9. ASSUME NEW x \in Threads, NEW ms, SocketPart!SocketSelect(x, ms) PROVE Told'
  BY <1>7, <1>8, <1>9 DEF SocketPart!SocketSelect, SocketPart!LinuxApplSelect,
     SocketPart!VxworksSelect, SocketPart!EcosSelect, SocketPart!Win32Select,
     SocketPart!NucleusSelect, SocketPart!RtemsSelect, SocketPart!GenericSelect
<1>10. ASSUME NEW x \in Threads, NEW f \in Sockets, SocketPart!Receives(x, f) PROVE Told'
  BY <1>10, ZenonT(60) DEF SocketPart!Receives
<1>11. ASSUME NEW f \in Sockets, SocketPart!Arrives(f) PROVE Told'
  BY <1>11 DEF SocketPart!Arrives
<1>12. CASE SocketPart!Millisecond
  BY <1>12 DEF SocketPart!Millisecond
<1> QED
  BY <1>2, <1>3, <1>4, <1>5, <1>6, <1>9, <1>10, <1>11, <1>12 DEF SocketPart!Next

(* How long select waits: the time it has waited and the time left are what it  *)
(* was asked for.                                                             *)

LEMMA SocketSets ==
  \A S : (SocketPart!Cardinality(S) = Cardinality(S))
         /\ (SocketPart!IsFiniteSet(S) <=> IsFiniteSet(S))
BY DEF SocketPart!Cardinality, Cardinality, SocketPart!IsFiniteSet, IsFiniteSet

LEMMA Countable ==
  ASSUME SocketPart!SocketSelectAssumption, NEW S \in SUBSET Sockets
  PROVE  /\ SocketPart!Cardinality(S) \in -1 .. SocketPart!Cardinality(Sockets)
         /\ SocketPart!Cardinality(S) = 0 => S = {}
<1>1. IsFiniteSet(Sockets)
  BY SocketSets DEF SocketPart!SocketSelectAssumption
<1>2. IsFiniteSet(S) /\ Cardinality(S) <= Cardinality(Sockets)
  BY <1>1, FS_Subset
<1>3. Cardinality(S) \in Nat /\ Cardinality(Sockets) \in Nat /\ (Cardinality(S) = 0 => S = {})
  BY <1>1, <1>2, FS_CardinalityType, FS_EmptySet
<1> QED
  BY <1>2, <1>3, SocketSets

\* A time that select takes comes out of the conversion to seconds and microseconds whole.
LEMMA Converted ==
  ASSUME SocketPart!SocketSelectAssumption, NEW ms \in Int,
         SocketPart!Valid(SocketPart!TimeVal(ms))
  PROVE  ms >= 0 /\ SocketPart!Length(SocketPart!TimeVal(ms)) = ms
<1> DEFINE q == SocketPart!Quotient(ms, PerSec)
           r == ms - PerSec * q
<1>1. PerSec \in Nat \ {0}
  BY DEF SocketPart!SocketSelectAssumption
<1>2. q \in Int /\ r \in Int
  <2>1. ASSUME NEW a \in Nat PROVE a \div PerSec \in Nat
    BY <1>1, <2>1
  <2>2. CASE ms >= 0
    BY <1>1, <2>1, <2>2 DEF SocketPart!Quotient
  <2>3. CASE ~(ms >= 0)
    <3>1. -ms \in Nat
      BY <2>3
    <3>2. (-ms) \div PerSec \in Nat
      BY <2>1, <3>1
    <3> QED
      BY <1>1, <2>3, <3>2 DEF SocketPart!Quotient
  <2> QED
    BY <2>2, <2>3
<1>3. q >= 0 /\ r * 1000 >= 0
  BY DEF SocketPart!Valid, SocketPart!TimeVal, SocketPart!Rest
<1>4. q * PerSec + r = ms
  BY <1>1, <1>2
<1>5. (r * 1000) \div 1000 = r
  BY <1>2
<1>6. SocketPart!Length(SocketPart!TimeVal(ms)) = q * PerSec + (r * 1000) \div 1000
  BY DEF SocketPart!Length, SocketPart!TimeVal, SocketPart!Rest
<1>7. q * PerSec >= 0
  BY <1>1, <1>2, <1>3
<1> HIDE DEF q, r
<1> QED
  BY <1>1, <1>2, <1>3, <1>4, <1>5, <1>6, <1>7

Ticking(x) ==
  /\ pc[x] = "idle" => waited[x] = 0
  /\ pc[x] = "waiting" =>
       \/ asked[x] = -1 /\ left[x] = -1
       \/ asked[x] >= 0 /\ left[x] \in Nat /\ left[x] + waited[x] = asked[x]

Timing == SocketPart!TypeOK /\ \A x \in Threads : Ticking(x)

LEMMA TimingInit ==
  ASSUME SocketPart!SocketSelectAssumption, SocketPart!Init
  PROVE  Timing
<1>1. 0 \in -1 .. SocketPart!Cardinality(Sockets)
  <2>1. SocketPart!Cardinality({}) = 0
    BY SocketSets, FS_EmptySet
  <2> QED
    BY <2>1, Countable
<1> QED
  BY <1>1 DEF SocketPart!Init, SocketPart!TypeOK, Timing, Ticking, SocketPart!NoWait,
     SocketPart!WaitForever

LEMMA StartTime ==
  ASSUME SocketPart!SocketSelectAssumption, NEW ms \in SocketTimes, NEW s, SocketPart!Takes(s, ms)
  PROVE  \/ ms = -1 /\ SocketPart!Start(ms) = -1
         \/ ms \in Nat /\ SocketPart!Start(ms) = ms
<1>1. ms \in Int
  BY DEF SocketPart!SocketSelectAssumption
<1> QED
  BY <1>1, Converted DEF SocketPart!Takes, SocketPart!Start, SocketPart!WaitForever, SocketPart!NoWait

LEMMA TimingStep ==
  ASSUME SocketPart!SocketSelectAssumption, Timing, SocketPart!Next
  PROVE  Timing'
<1> USE DEF Timing, SocketPart!TypeOK
<1>0. 0 \in -1 .. SocketPart!Cardinality(Sockets) /\ -1 \in -1 .. SocketPart!Cardinality(Sockets)
  <2>1. SocketPart!Cardinality({}) = 0
    BY SocketSets, FS_EmptySet
  <2> QED
    BY <2>1, Countable
<1>1. ASSUME NEW x \in Threads, NEW s \in SUBSET Sockets, NEW w \in SUBSET Sockets,
             SocketPart!SetBecomes(x, s, w)
      PROVE  Timing'
  BY <1>0, <1>1 DEF SocketPart!SetBecomes, SocketPart!noSelect, Ticking
<1>2. ASSUME NEW x \in Threads, SocketPart!SocFdZero(x) PROVE Timing'
  BY <1>1, <1>2 DEF SocketPart!SocFdZero
<1>3. ASSUME NEW x \in Threads, NEW f \in Sockets, SocketPart!SocFdSet(x, f) PROVE Timing'
  <2>1. SocketPart!Joined(fdSet[x], f) \in SUBSET Sockets /\ wanted[x] \cup {f} \in SUBSET Sockets
    BY DEF SocketPart!Joined
  <2>2. SocketPart!SetBecomes(x, SocketPart!Joined(fdSet[x], f), wanted[x] \cup {f})
    BY <1>3 DEF SocketPart!SocFdSet
  <2> HIDE DEF Timing, SocketPart!TypeOK
  <2> QED
    BY <1>1, <2>1, <2>2
<1>4. ASSUME NEW x \in Threads, NEW f \in Sockets, SocketPart!SocFdClr(x, f) PROVE Timing'
  <2>1. fdSet[x] \ {f} \in SUBSET Sockets /\ wanted[x] \ {f} \in SUBSET Sockets
    BY <1>4
  <2>2. SocketPart!SetBecomes(x, fdSet[x] \ {f}, wanted[x] \ {f})
    BY <1>4 DEF SocketPart!SocFdClr
  <2> HIDE DEF Timing, SocketPart!TypeOK
  <2> QED
    BY <1>1, <2>1, <2>2
<1>5. ASSUME NEW x \in Threads, NEW f \in Sockets, SocketPart!SetsOfStubs(x, f) PROVE Timing'
  <2>1. fdSet[x] \in SUBSET Sockets /\ wanted[x] \cup {f} \in SUBSET Sockets
    BY <1>5
  <2>2. SocketPart!SetBecomes(x, fdSet[x], wanted[x] \cup {f})
    BY <1>5 DEF SocketPart!SetsOfStubs
  <2> HIDE DEF Timing, SocketPart!TypeOK
  <2> QED
    BY <1>1, <2>1, <2>2
<1>6. ASSUME NEW x \in Threads, SocketPart!Leave(x) PROVE Timing'
  <2>1. fdSet[x] \cap readable \in SUBSET Sockets
    OBVIOUS
  <2>2. SocketPart!Cardinality(fdSet[x] \cap readable) \in -1 .. SocketPart!Cardinality(Sockets)
    BY <2>1, Countable
  <2>3. fdSet'[x] = fdSet[x] \cap readable
    BY <1>6 DEF SocketPart!Leave
  <2>4. SocketPart!TypeOK'
    BY <1>6, <2>1, <2>2, <2>3 DEF SocketPart!Leave, SocketPart!CallOver, SocketPart!NoWait
  <2>5. ASSUME NEW y \in Threads PROVE Ticking(y)'
    BY <1>6, <2>5 DEF SocketPart!Leave, SocketPart!CallOver, Ticking
  <2> QED
    BY <2>4, <2>5
<1>7. ASSUME NEW x \in Threads, NEW ms \in SocketTimes, NEW p, SocketPart!Enter(p, x, ms)
      PROVE  Timing'
  <2>1. CASE ~SocketPart!Takes(fdSet[x], ms)
    BY <1>0, <1>7, <2>1 DEF SocketPart!Enter, Ticking
  <2>2. CASE SocketPart!Takes(fdSet[x], ms)
    <3>1. \/ ms = -1 /\ SocketPart!Start(ms) = -1
          \/ ms \in Nat /\ SocketPart!Start(ms) = ms
      BY <2>2, StartTime
    <3>2. /\ pc[x] = "idle" /\ pc' = [pc EXCEPT ![x] = "waiting"]
          /\ asked' = [asked EXCEPT ![x] = ms] /\ left' = [left EXCEPT ![x] = SocketPart!Start(ms)]
          /\ ret' = [ret EXCEPT ![x] = 0]
          /\ UNCHANGED <<port, fdSet, wanted, waited, readable, owner>>
      BY <1>7, <2>2 DEF SocketPart!Enter
    <3>3. SocketPart!TypeOK'
      BY <1>0, <3>1, <3>2 DEF SocketPart!WaitForever
    <3>4. ASSUME NEW y \in Threads PROVE Ticking(y)'
      BY <3>1, <3>2 DEF Ticking
    <3> QED
      BY <3>3, <3>4
  <2> QED
    BY <2>1, <2>2
<1>8. ASSUME NEW x \in Threads, NEW ms, NEW p, SocketPart!StubSelect(p, x, ms) PROVE Timing'
  BY <1>0, <1>8 DEF SocketPart!StubSelect, Ticking
<1>9. ASSUME NEW x \in Threads, NEW ms \in SocketTimes, SocketPart!SocketSelect(x, ms)
      PROVE  Timing'
  BY <1>7, <1>8, <1>9 DEF SocketPart!SocketSelect, SocketPart!LinuxApplSelect,
     SocketPart!VxworksSelect, SocketPart!EcosSelect, SocketPart!Win32Select,
     SocketPart!NucleusSelect, SocketPart!RtemsSelect, SocketPart!GenericSelect
<1>10. ASSUME NEW x \in Threads, NEW f \in Sockets, SocketPart!Receives(x, f) PROVE Timing'
  BY <1>10 DEF SocketPart!Receives, Ticking
<1>11. ASSUME NEW f \in Sockets, SocketPart!Arrives(f) PROVE Timing'
  BY <1>11 DEF SocketPart!Arrives, Ticking
<1>12. CASE SocketPart!Millisecond
  <2>1. ASSUME NEW x \in Threads
        PROVE  /\ left'[x] \in Nat \cup {-1} /\ waited'[x] \in Nat
               /\ \/ left'[x] = left[x] /\ waited'[x] = waited[x]
                  \/ left'[x] = left[x] - 1 /\ waited'[x] = waited[x] + 1 /\ left[x] \in Nat
                     /\ left[x] > 0 /\ pc[x] = "waiting"
    BY <1>12 DEF SocketPart!Millisecond, SocketPart!Timed, SocketPart!WaitForever
  <2>2. left' = [x \in Threads |-> left'[x]] /\ waited' = [x \in Threads |-> waited'[x]]
    BY <1>12 DEF SocketPart!Millisecond
  <2>3. left' \in [Threads -> Nat \cup {-1}] /\ waited' \in [Threads -> Nat]
    BY <2>1, <2>2
  <2>4. UNCHANGED <<port, fdSet, wanted, pc, asked, ret, readable, owner>>
    BY <1>12 DEF SocketPart!Millisecond
  <2>5. SocketPart!TypeOK'
    BY <2>3, <2>4 DEF SocketPart!WaitForever
  <2>6. ASSUME NEW x \in Threads PROVE Ticking(x)'
    <3>1. asked[x] \in Int
      <4>1. asked \in [Threads -> SocketTimes \cup {0}]
        BY DEF SocketPart!NoWait
      <4>2. asked[x] \in SocketTimes \cup {0}
        BY <4>1
      <4>3. SocketTimes \subseteq Int
        BY DEF SocketPart!SocketSelectAssumption
      <4> HIDE DEF Timing, SocketPart!TypeOK
      <4>4. CASE asked[x] \in SocketTimes
        BY <4>3, <4>4, Zenon
      <4>5. CASE asked[x] = 0
        BY <4>5
      <4> QED
        BY <4>2, <4>4, <4>5
    <3>2. Ticking(x)
      OBVIOUS
    <3>3. left[x] \in Nat \cup {-1} /\ waited[x] \in Nat
      BY DEF SocketPart!WaitForever
    <3> QED
      BY <2>1, <2>4, <3>1, <3>2, <3>3 DEF Ticking
  <2> QED
    BY <2>5, <2>6
<1> QED
  BY <1>2, <1>3, <1>4, <1>5, <1>6, <1>9, <1>10, <1>11, <1>12 DEF SocketPart!Next

\* Only a wait that is over ends with nothing.
LEMMA WaitedFor ==
  ASSUME SocketPart!SocketSelectAssumption, Timing, SocketPart!Next
  PROVE  SocketPart!NotEarly
<1> SUFFICES ASSUME NEW x \in Threads, SocketPart!TimedOut(x)
             PROVE  asked[x] >= 0 /\ waited[x] = asked[x]
  BY DEF SocketPart!NotEarly
<1>1. pc[x] = "waiting" /\ pc'[x] = "idle" /\ ret'[x] = 0
  BY DEF SocketPart!TimedOut
<1>2. SocketPart!Leave(x)
  <2> USE <1>1 DEF Timing, SocketPart!TypeOK, SocketPart!SocketSelect, SocketPart!LinuxApplSelect,
     SocketPart!VxworksSelect, SocketPart!EcosSelect, SocketPart!Win32Select,
     SocketPart!NucleusSelect, SocketPart!RtemsSelect, SocketPart!GenericSelect
  <2>1. ASSUME NEW y \in Threads, NEW ms, SocketPart!SocketSelect(y, ms) PROVE FALSE
    BY <2>1 DEF SocketPart!Enter, SocketPart!StubSelect
  <2>2. ASSUME NEW y \in Threads, SocketPart!SocFdZero(y) PROVE FALSE
    BY <2>2 DEF SocketPart!SocFdZero, SocketPart!SetBecomes, SocketPart!noSelect
  <2>3. ASSUME NEW y \in Threads, NEW f \in Sockets,
               \/ SocketPart!SocFdSet(y, f) \/ SocketPart!SocFdClr(y, f)
               \/ SocketPart!SetsOfStubs(y, f) \/ SocketPart!Receives(y, f) \/ SocketPart!Arrives(f)
        PROVE  FALSE
    BY <2>3 DEF SocketPart!SocFdSet, SocketPart!SocFdClr, SocketPart!SetsOfStubs,
       SocketPart!SetBecomes, SocketPart!noSelect, SocketPart!Receives, SocketPart!Arrives
  <2>4. CASE SocketPart!Millisecond
    BY <2>4 DEF SocketPart!Millisecond
  <2>5. ASSUME NEW y \in Threads, SocketPart!Leave(y) PROVE y = x
    BY <2>5 DEF SocketPart!Leave, SocketPart!CallOver
  <2> QED
    BY <2>1, <2>2, <2>3, <2>4, <2>5 DEF SocketPart!Next
<1>3. fdSet[x] \cap readable \in SUBSET Sockets
  BY DEF Timing, SocketPart!TypeOK
<1>4. ret'[x] = SocketPart!Cardinality(fdSet[x] \cap readable)
  BY <1>2 DEF SocketPart!Leave, Timing, SocketPart!TypeOK
<1>5. fdSet[x] \cap readable = {}
  BY <1>1, <1>3, <1>4, Countable
<1>6. left[x] = 0
  BY <1>2, <1>5 DEF SocketPart!Leave
<1>7. waited[x] \in Nat
  BY DEF Timing, SocketPart!TypeOK
<1> QED
  BY <1>1, <1>6, <1>7 DEF Timing, Ticking

-----------------------------------------------------------------------------
(* The queue of a driver: a task is in the queue before it looks, so that who   *)
(* waits for what the device is ready for has been woken up, or is about to be. *)

Queued ==
  /\ task = [x \in Threads |-> task[x]] /\ wants \in [Threads -> QueuePart!Kinds]
  /\ woken \subseteq queue
  /\ port # "rtems" => \A x \in Threads : task[x] \in {"added", "waiting"} => x \in queue
  /\ QueuePart!NotMissed

LEMMA QueueInit == QueuePart!Init => Queued
BY DEF QueuePart!Init, Queued, QueuePart!NotMissed, QueuePart!Kinds

\* The select of a task returns, and the others do not notice.
LEMMA ReturnQueued ==
  ASSUME Queued, NEW x \in Threads, NEW result, QueuePart!Returns(x, result),
         port' = port, wants' = wants, ready' = ready, driver' = driver
  PROVE  Queued'
<1>1. /\ task'[x] = "idle" /\ task' = [y \in Threads |-> task'[y]]
      /\ \A y \in Threads \ {x} : task'[y] = task[y]
  BY DEF Queued, QueuePart!Returns, QueuePart!Goes
<1>2. queue' = queue \ {x} /\ woken' = woken \ {x}
  BY DEF QueuePart!Returns, QueuePart!Leaves
<1> QED
  BY <1>1, <1>2 DEF Queued, QueuePart!NotMissed

\* It goes on inside of its select, and those that wait have been added.
LEMMA GoQueued ==
  ASSUME Queued, NEW x \in Threads, NEW place, QueuePart!Goes(x, place),
         port' = port, wants' = wants, ready' = ready, driver' = driver,
         queue' \in {queue, queue \cup {x}}, woken' \in {woken, woken \ {x}},
         place \in {"added", "waiting"} => x \in queue',
         place = "waiting" => wants[x] \notin ready
  PROVE  Queued'
<1>1. /\ task'[x] = place /\ task' = [y \in Threads |-> task'[y]]
      /\ \A y \in Threads \ {x} : task'[y] = task[y]
  BY DEF Queued, QueuePart!Goes
<1> QED
  BY <1>1 DEF Queued, QueuePart!NotMissed

LEMMA QueuedStep ==
  ASSUME Queued, QueuePart!Next
  PROVE  Queued'
<1>1. ASSUME NEW k \in QueuePart!Kinds, QueuePart!Event(k) PROVE Queued'
  BY <1>1 DEF Queued, QueuePart!NotMissed, QueuePart!Event, QueuePart!Kinds
<1>2. CASE QueuePart!DrvSelectQueueWakeUp
  <2>1. woken \subseteq woken' /\ woken' \subseteq queue
    BY <1>2 DEF Queued, QueuePart!DrvSelectQueueWakeUp, QueuePart!LinuxWakeUp,
       QueuePart!VxworksWakeUp, QueuePart!RtemsWakeUp
  <2>2. ASSUME NEW x \in Threads, port # "rtems", x \in queue, wants[x] = driver
        PROVE  x \in woken'
    BY <1>2, <2>2 DEF QueuePart!DrvSelectQueueWakeUp, QueuePart!LinuxWakeUp,
       QueuePart!VxworksWakeUp, QueuePart!RtemsWakeUp
  <2> QED
    BY <1>2, <2>1, <2>2 DEF Queued, QueuePart!NotMissed, QueuePart!DrvSelectQueueWakeUp
<1>3. ASSUME NEW x \in Threads, NEW k \in QueuePart!Kinds, QueuePart!Select(x, k) PROVE Queued'
  <2>1. /\ task'[x] = "called" /\ task' = [y \in Threads |-> task'[y]]
        /\ wants' \in [Threads -> QueuePart!Kinds]
        /\ \A y \in Threads \ {x} : task'[y] = task[y] /\ wants'[y] = wants[y]
    BY <1>3 DEF Queued, QueuePart!Select, QueuePart!Goes
  <2> QED
    BY <1>3, <2>1 DEF Queued, QueuePart!NotMissed, QueuePart!Select, QueuePart!device
<1>4. ASSUME NEW x \in Threads, QueuePart!DrvSelectQueueAddTask(x) PROVE Queued'
  <2>1. /\ port' = port /\ wants' = wants /\ ready' = ready /\ driver' = driver
        /\ \/ QueuePart!Returns(x, "error")
           \/ QueuePart!Goes(x, "added") /\ queue' = queue \cup {x} /\ woken' = woken
    BY <1>4 DEF QueuePart!DrvSelectQueueAddTask, QueuePart!LinuxAddTask,
       QueuePart!VxworksAddTask, QueuePart!device
  <2> QED
    BY <2>1, ReturnQueued, GoQueued
<1>5. ASSUME NEW x \in Threads, QueuePart!Look(x) PROVE Queued'
  <2>1. port # "rtems" => x \in queue
    BY <1>5 DEF Queued, QueuePart!Look
  <2>2. CASE port = "rtems"
    BY <1>5, <2>2, ReturnQueued DEF QueuePart!Look, QueuePart!device, QueuePart!Goes, Queued,
       QueuePart!NotMissed
  <2>3. CASE port # "rtems"
    BY <1>5, <2>1, <2>3, ReturnQueued, GoQueued DEF QueuePart!Look, QueuePart!device
  <2> QED
    BY <2>2, <2>3
<1>6. ASSUME NEW x \in Threads, QueuePart!Resume(x) PROVE Queued'
  <2>1. x \in queue
    BY <1>6 DEF Queued, QueuePart!Resume
  <2> QED
    BY <1>6, <2>1, ReturnQueued, GoQueued DEF QueuePart!Resume, QueuePart!device
<1>7. ASSUME NEW x \in Threads, QueuePart!Timeout(x) PROVE Queued'
  BY <1>7, ReturnQueued DEF QueuePart!Timeout, QueuePart!device
<1>8. ASSUME NEW x \in Threads, QueuePart!RtemsSelect(x) PROVE Queued'
  <2>1. woken' \subseteq queue' /\ task' = [y \in Threads |-> task'[y]]
    BY <1>8 DEF Queued, QueuePart!RtemsSelect, QueuePart!Returns, QueuePart!Leaves, QueuePart!Goes
  <2> QED
    BY <1>8, <2>1 DEF Queued, QueuePart!NotMissed, QueuePart!RtemsSelect
<1>9. ASSUME NEW x \in Threads, QueuePart!Use(x) PROVE Queued'
  BY <1>9 DEF Queued, QueuePart!NotMissed, QueuePart!Use
<1> QED
  BY <1>1, <1>2, <1>3, <1>4, <1>5, <1>6, <1>7, <1>8, <1>9 DEF QueuePart!Next, QueuePart!GoesOn

LEMMA QueueTypesInit ==
  ASSUME QueuePart!SelectQueueAssumption, QueuePart!Init
  PROVE  QueuePart!TypeOK
BY DEF QueuePart!SelectQueueAssumption, QueuePart!Init, QueuePart!TypeOK, QueuePart!Kinds

LEMMA QueueTypesStep ==
  ASSUME QueuePart!SelectQueueAssumption, QueuePart!TypeOK, QueuePart!Next
  PROVE  QueuePart!TypeOK'
<1> USE DEF QueuePart!TypeOK, QueuePart!Kinds, QueuePart!device, QueuePart!Goes,
    QueuePart!Returns, QueuePart!Leaves
<1>1. ASSUME NEW k \in QueuePart!Kinds, QueuePart!Event(k) PROVE QueuePart!TypeOK'
  BY <1>1 DEF QueuePart!Event
<1>2. CASE QueuePart!DrvSelectQueueWakeUp
  <2>1. woken' \subseteq queue
    BY <1>2 DEF QueuePart!DrvSelectQueueWakeUp, QueuePart!LinuxWakeUp, QueuePart!VxworksWakeUp,
       QueuePart!RtemsWakeUp
  <2>2. msgs' \in 0 .. MaxMsgs
    BY <1>2 DEF QueuePart!DrvSelectQueueWakeUp, QueuePart!LinuxWakeUp, QueuePart!VxworksWakeUp,
       QueuePart!RtemsWakeUp, QueuePart!SelectQueueAssumption
  <2> QED
    BY <1>2, <2>1, <2>2 DEF QueuePart!DrvSelectQueueWakeUp
<1>3. ASSUME NEW x \in Threads, NEW k \in QueuePart!Kinds, QueuePart!Select(x, k)
      PROVE  QueuePart!TypeOK'
  BY <1>3 DEF QueuePart!Select
<1>4. ASSUME NEW x \in Threads, QueuePart!DrvSelectQueueAddTask(x) PROVE QueuePart!TypeOK'
  BY <1>4 DEF QueuePart!DrvSelectQueueAddTask, QueuePart!LinuxAddTask, QueuePart!VxworksAddTask
<1>5. ASSUME NEW x \in Threads, QueuePart!Look(x) PROVE QueuePart!TypeOK'
  BY <1>5 DEF QueuePart!Look
<1>6. ASSUME NEW x \in Threads, QueuePart!Resume(x) PROVE QueuePart!TypeOK'
  BY <1>6 DEF QueuePart!Resume
<1>7. ASSUME NEW x \in Threads, QueuePart!Timeout(x) PROVE QueuePart!TypeOK'
  BY <1>7 DEF QueuePart!Timeout
<1>8. ASSUME NEW x \in Threads, QueuePart!RtemsSelect(x) PROVE QueuePart!TypeOK'
  <2>1. msgs' \in 0 .. MaxMsgs
    <3>1. msgs \in 0 .. MaxMsgs /\ MaxMsgs \in Nat
      BY DEF QueuePart!SelectQueueAssumption
    <3>2. msgs' = msgs \/ (msgs > 0 /\ msgs' = msgs - 1)
      BY <1>8 DEF QueuePart!RtemsSelect
    <3> QED
      BY <3>1, <3>2
  <2>2. /\ task' \in [Threads -> {"idle", "called", "added", "waiting"}]
        /\ told' \in [Threads -> {"none", "ready", "timeout", "error"}]
        /\ queue' \subseteq Threads /\ woken' \subseteq queue'
    BY <1>8 DEF QueuePart!RtemsSelect
  <2> QED
    BY <1>8, <2>1, <2>2 DEF QueuePart!RtemsSelect
<1>9. ASSUME NEW x \in Threads, QueuePart!Use(x) PROVE QueuePart!TypeOK'
  BY <1>9 DEF QueuePart!Use
<1> QED
  BY <1>1, <1>2, <1>3, <1>4, <1>5, <1>6, <1>7, <1>8, <1>9 DEF QueuePart!Next, QueuePart!GoesOn

-----------------------------------------------------------------------------
(* The pipe: the bytes are in four places one behind the other, and a reader    *)
(* that has not come yet, or come back, finds them empty or spoilt.            *)

LEMMA BytesFacts ==
  /\ << >> \in PipePart!Bytes /\ Len(<< >>) = 0
  /\ \A s \in PipePart!Bytes :
       /\ Len(s) \in Nat /\ (Len(s) = 0 => s = << >>)
       /\ s \o << >> = s /\ << >> \o s = s
BY EmptySeq, LenProperties, ConcatEmptySeq DEF PipePart!Bytes

LEMMA BytesJoined ==
  ASSUME NEW s \in PipePart!Bytes, NEW u \in PipePart!Bytes
  PROVE  s \o u \in PipePart!Bytes /\ Len(s \o u) = Len(s) + Len(u)
BY ConcatProperties DEF PipePart!Bytes

LEMMA BytesGrouped ==
  ASSUME NEW s \in PipePart!Bytes, NEW u \in PipePart!Bytes, NEW v \in PipePart!Bytes
  PROVE  (s \o u) \o v = s \o (u \o v)
BY ConcatAssociative, SMTT(40) DEF PipePart!Bytes

LEMMA BytesCut ==
  ASSUME NEW s \in PipePart!Bytes, NEW n \in Nat, n <= Len(s)
  PROVE  /\ SubSeq(s, 1, n) \in PipePart!Bytes /\ Len(SubSeq(s, 1, n)) = n
         /\ SubSeq(s, n + 1, Len(s)) \in PipePart!Bytes
         /\ Len(SubSeq(s, n + 1, Len(s))) = Len(s) - n
         /\ SubSeq(s, 1, n) \o SubSeq(s, n + 1, Len(s)) = s
<1> DEFINE S == (1 .. MaxPrints) \X {1, 2}
<1>1. s \in Seq(S) /\ Len(s) \in Nat /\ \A i \in 1 .. Len(s) : s[i] \in S
  BY LenProperties, ElementOfSeq DEF PipePart!Bytes
<1> HIDE DEF S
<1>2. SubSeq(s, 1, n) \in Seq(S) /\ Len(SubSeq(s, 1, n)) = n
  <2>1. \A i \in 1 .. n : s[i] \in S
    BY <1>1
  <2>2. 1 \in Int /\ n \in Int
    OBVIOUS
  <2> QED
    BY <2>1, <2>2, SubSeqProperties, SMTT(20)
<1>3. SubSeq(s, n + 1, Len(s)) \in Seq(S) /\ Len(SubSeq(s, n + 1, Len(s))) = Len(s) - n
  <2>1. \A i \in n + 1 .. Len(s) : s[i] \in S
    BY <1>1
  <2>2. n + 1 \in Int /\ Len(s) \in Int
    BY <1>1
  <2> QED
    BY <1>1, <2>1, <2>2, SubSeqProperties, SMTT(20)
<1>4. SubSeq(s, 1, n) \o SubSeq(s, n + 1, Len(s)) = s
  <2>1. 1 \in 1 .. Len(s) + 1 /\ n \in 1 - 1 .. Len(s) /\ Len(s) \in n .. Len(s)
    BY <1>1
  <2>2. SubSeq(s, 1, n) \o SubSeq(s, n + 1, Len(s)) = SubSeq(s, 1, Len(s))
    BY <1>1, <2>1, ConcatAdjacentSubSeq
  <2> QED
    BY <1>1, <2>2, SubSeqFull
<1> QED
  BY <1>2, <1>3, <1>4 DEF PipePart!Bytes, S

\* What is printed goes behind what was.
LEMMA ElementType ==
  ASSUME PipePart!PortPipeAssumption, NEW n \in 0 .. MaxPrints, n < MaxPrints
  PROVE  PipePart!Element(n + 1) \in PipePart!Bytes /\ Len(PipePart!Element(n + 1)) = 2
<1>1. n + 1 \in 1 .. MaxPrints
  BY DEF PipePart!PortPipeAssumption
<1> QED
  BY <1>1 DEF PipePart!Element, PipePart!Bytes

LEMMA ElementsFacts ==
  ASSUME NEW n \in Nat
  PROVE  /\ PipePart!Elements(n) \in Seq(Nat \X {1, 2}) /\ Len(PipePart!Elements(n)) = 2 * n
         /\ \A i \in 1 .. 2 * n :
              PipePart!Elements(n)[i] = <<(i + 1) \div 2, ((i - 1) % 2) + 1>>
<1>1. \A i \in 1 .. 2 * n : (i + 1) \div 2 \in Nat /\ ((i - 1) % 2) + 1 \in {1, 2}
  OBVIOUS
<1> QED
  BY <1>1 DEF PipePart!Elements

LEMMA ElementsMore ==
  ASSUME NEW n \in Nat
  PROVE  PipePart!Elements(n + 1) = PipePart!Elements(n) \o PipePart!Element(n + 1)
<1> DEFINE S == Nat \X {1, 2}
           s == PipePart!Elements(n)
           v == PipePart!Elements(n + 1)
           u == PipePart!Element(n + 1)
<1>1. u \in Seq(S) /\ Len(u) = 2 /\ u[1] = <<n + 1, 1>> /\ u[2] = <<n + 1, 2>>
  BY DEF PipePart!Element
<1>2. /\ s \in Seq(S) /\ Len(s) = 2 * n
      /\ \A i \in 1 .. 2 * n : s[i] = <<(i + 1) \div 2, ((i - 1) % 2) + 1>>
  BY ElementsFacts
<1>3. /\ v \in Seq(S) /\ Len(v) = 2 * (n + 1)
      /\ \A i \in 1 .. 2 * (n + 1) : v[i] = <<(i + 1) \div 2, ((i - 1) % 2) + 1>>
  BY ElementsFacts
<1> HIDE DEF S, s, v, u
<1>4. /\ s \o u \in Seq(S) /\ Len(s \o u) = 2 * (n + 1)
      /\ \A i \in 1 .. 2 * n : (s \o u)[i] = s[i]
      /\ (s \o u)[2 * n + 1] = u[1] /\ (s \o u)[2 * n + 2] = u[2]
  <2>1. /\ s \o u \in Seq(S) /\ Len(s \o u) = Len(s) + Len(u)
        /\ \A i \in 1 .. Len(s) + Len(u) :
             (s \o u)[i] = IF i <= Len(s) THEN s[i] ELSE u[i - Len(s)]
    BY <1>1, <1>2, ConcatProperties
  <2>2. Len(s) = 2 * n /\ Len(u) = 2
    BY <1>1, <1>2
  <2> QED
    BY <2>1, <2>2
<1>5. ASSUME NEW i \in 1 .. 2 * (n + 1) PROVE v[i] = (s \o u)[i]
  <2>1. v[i] = <<(i + 1) \div 2, ((i - 1) % 2) + 1>>
    BY <1>3
  <2>2. CASE i \in 1 .. 2 * n
    BY <1>2, <1>4, <2>1, <2>2
  <2>3. CASE i = 2 * n + 1
    <3>1. (i + 1) \div 2 = n + 1 /\ ((i - 1) % 2) + 1 = 1
      BY <2>3
    <3> QED
      BY <1>1, <1>4, <2>1, <2>3, <3>1
  <2>4. CASE i = 2 * n + 2
    <3>1. (i + 1) \div 2 = n + 1 /\ ((i - 1) % 2) + 1 = 2
      BY <2>4
    <3> QED
      BY <1>1, <1>4, <2>1, <2>4, <3>1
  <2>5. i \in 1 .. 2 * n \/ i = 2 * n + 1 \/ i = 2 * n + 2
    OBVIOUS
  <2> QED
    BY <2>2, <2>3, <2>4, <2>5
<1>6. v = s \o u
  BY <1>3, <1>4, <1>5, SeqEqual
<1> QED
  BY <1>6 DEF s, u, v

\* What is so of the ends whatever the bytes are: who is in a call or has a pointer holds
\* its end open, and who has none does not, unless an open has lost a descriptor.
Places ==
  /\ node \in BOOLEAN /\ spoilt \in BOOLEAN /\ held \subseteq PipePart!Ends
  /\ leaked \subseteq held /\ (leaked # {} => spoilt)
  /\ pc \in [PipePart!Ends ->
              {"closed", "opening", "open", "reading", "printing", "closing", "killed"}]
  /\ blocking \in [PipePart!Ends -> BOOLEAN] /\ met \in [PipePart!Ends -> BOOLEAN]
  /\ told \in [PipePart!Ends -> {"none", "ok", "error", "eof"}]
  /\ pc["writer"] \in {"open", "printing", "closing"} => "writer" \in held
  /\ pc["writer"] # "reading" /\ pc["reader"] \notin {"printing", "killed"}
  /\ PipePart!NullIsClosed

\* The bytes, and those that the writer's stream has not written out.
Flow ==
  /\ printed \in 0 .. MaxPrints
  /\ buffer \in PipePart!Bytes /\ fifo \in PipePart!Bytes
  /\ ahead \in PipePart!Bytes /\ got \in PipePart!Bytes
  /\ Len(fifo) <= PipeSize /\ Len(buffer) <= BufSize + 2 /\ Len(got) % 2 = 0
  /\ pc["writer"] \in {"closed", "opening", "killed"} => buffer = << >>
  /\ pc["writer"] = "open" => Len(buffer) <= BufSize

\* A reader that has not come, or has gone: nothing was printed yet, or it is spoilt.
Empty == printed = 0 /\ buffer = << >> /\ fifo = << >> /\ ahead = << >> /\ got = << >>

Early ==
  pc["reader"] = "closed" /\ ~spoilt =>
    Empty /\ pc["writer"] \in {"closed", "opening", "killed"} /\ ~met["writer"]

Whole == Places /\ Flow /\ Early /\ PipePart!NothingLost

LEMMA PlacesInit == PipePart!Init => Places
BY DEF PipePart!Init, Places, PipePart!Ends, PipePart!NullIsClosed

LEMMA EmptyFlow ==
  ASSUME PipePart!PortPipeAssumption, Empty
  PROVE  Flow /\ PipePart!NothingLost
<1>1. Flow
  BY BytesFacts DEF PipePart!PortPipeAssumption, Empty, Flow
<1>2. PipePart!Elements(0) = << >>
  <2>1. PipePart!Elements(0) \in Seq(Nat \X {1, 2}) /\ Len(PipePart!Elements(0)) = 0
    BY ElementsFacts
  <2> QED
    BY <2>1, EmptySeq
<1>3. << >> \o << >> \o << >> \o << >> = << >>
  BY BytesFacts
<1> QED
  BY <1>1, <1>2, <1>3 DEF Empty, PipePart!NothingLost

LEMMA WholeInit ==
  ASSUME PipePart!PortPipeAssumption, PipePart!Init
  PROVE  Whole
<1>1. Empty /\ Early
  BY DEF PipePart!Init, Empty, Early, PipePart!Ends
<1> QED
  BY <1>1, PlacesInit, EmptyFlow DEF Whole

LEMMA PlacesStep ==
  ASSUME Places, PipePart!Next
  PROVE  Places'
<1> USE DEF Places, PipePart!Ends, PipePart!NullIsClosed, PipePart!Goes, PipePart!Returns,
    PipePart!state
<1>1. ASSUME NEW e \in PipePart!Ends, PipePart!PipeCreate(e) PROVE Places'
  BY <1>1 DEF PipePart!PipeCreate
<1>2. ASSUME NEW e \in PipePart!Ends, NEW b \in BOOLEAN, PipePart!PipeOpen(e, b) PROVE Places'
  <2>1. spoilt' \in BOOLEAN
    BY <1>2 DEF PipePart!PipeOpen, PipePart!Fresh
  <2>2. CASE PipePart!Refused(e, b)
    BY <1>2, <2>2 DEF PipePart!PipeOpen
  <2>3. CASE ~PipePart!Refused(e, b)
    <3> DEFINE w(o) == IF o = e THEN ~b \/ PipePart!Present(e) ELSE met[o] \/ PipePart!Present(e)
    <3>1. met' = [o \in PipePart!Ends |-> w(o)]
      BY <1>2, <2>3 DEF PipePart!PipeOpen
    <3>2. \A o \in PipePart!Ends : w(o) \in BOOLEAN
      BY DEF PipePart!Present
    <3>3. met' \in [PipePart!Ends -> BOOLEAN]
      <4> HIDE DEF w
      <4> QED
        BY <3>1, <3>2
    <3>4. blocking' \in [PipePart!Ends -> BOOLEAN] /\ node' \in BOOLEAN
      BY <1>2, <2>3 DEF PipePart!PipeOpen
    <3>5. held' \subseteq held \cup {e} /\ held \subseteq held'
      BY <1>2, <2>3 DEF PipePart!PipeOpen
    <3>6. pc' = [pc EXCEPT ![e] = "opening"] /\ told' = [told EXCEPT ![e] = "none"]
      BY <1>2, <2>3 DEF PipePart!PipeOpen
    <3>7. leaked' = leaked /\ (leaked # {} => spoilt')
      <4>1. spoilt' = spoilt \/ held = {}
        BY <1>2, <2>3 DEF PipePart!PipeOpen, PipePart!Fresh
      <4> QED
        BY <1>2, <4>1 DEF PipePart!PipeOpen
    <3> QED
      BY <2>1, <3>3, <3>4, <3>5, <3>6, <3>7
  <2> QED
    BY <2>2, <2>3
<1>3. ASSUME NEW e \in PipePart!Ends, PipePart!Opened(e) PROVE Places'
  <2>1. pc[e] = "opening" /\ held' = held \cup {e}
    BY <1>3 DEF PipePart!Opened
  <2>2. CASE PipePart!Returns(e, "open", "ok") /\ UNCHANGED leaked
    BY <1>3, <2>1, <2>2 DEF PipePart!Opened
  <2>3. CASE PipePart!Returns(e, "closed", "error") /\ leaked' = leaked \cup {e}
    BY <1>3, <2>1, <2>3 DEF PipePart!Opened
  <2> QED
    BY <1>3, <2>2, <2>3 DEF PipePart!Opened
<1>4. ASSUME NEW e \in PipePart!Ends, PipePart!PipeClose(e) PROVE Places'
  BY <1>4 DEF PipePart!PipeClose
<1>5. ASSUME NEW e \in PipePart!Ends, PipePart!Closed(e) PROVE Places'
  BY <1>5 DEF PipePart!Closed, PipePart!LetGo
<1>6. CASE PipePart!PipePrintf
  BY <1>6 DEF PipePart!PipePrintf
<1>7. CASE PipePart!Flush
  BY <1>7 DEF PipePart!Flush
<1>8. CASE PipePart!Killed
  BY <1>8 DEF PipePart!Killed
<1>9. CASE PipePart!Printed
  BY <1>9 DEF PipePart!Printed
<1>10. CASE PipePart!PrintFails
  BY <1>10 DEF PipePart!PrintFails
<1>11. CASE PipePart!CloseFails
  BY <1>11 DEF PipePart!CloseFails, PipePart!LetGo
<1>12. CASE PipePart!PipeRead
  BY <1>12 DEF PipePart!PipeRead
<1>13. CASE PipePart!Fill
  BY <1>13 DEF PipePart!Fill
<1>14. CASE PipePart!ReadDone
  BY <1>14 DEF PipePart!ReadDone
<1>15. CASE PipePart!ReadShort
  BY <1>15 DEF PipePart!ReadShort, PipePart!Reads
<1> QED
  BY <1>1, <1>2, <1>3, <1>4, <1>5, <1>6, <1>7, <1>8, <1>9, <1>10, <1>11, <1>12, <1>13, <1>14,
     <1>15 DEF PipePart!Next, PipePart!Steps

\* An open of the writer does not return before the reader has come.
LEMMA EarlyStep ==
  ASSUME Places, Early, PipePart!Next
  PROVE  Early'
<1> USE DEF Places, PipePart!Ends, PipePart!NullIsClosed, PipePart!Goes, PipePart!Returns,
    PipePart!state, Early
<1> SUFFICES ASSUME pc'["reader"] = "closed", ~spoilt'
             PROVE  Empty' /\ pc'["writer"] \in {"closed", "opening", "killed"} /\ ~met'["writer"]
  OBVIOUS
<1>1. ASSUME NEW e \in PipePart!Ends, NEW b \in BOOLEAN, PipePart!PipeOpen(e, b)
      PROVE  Empty' /\ pc'["writer"] \in {"closed", "opening", "killed"} /\ ~met'["writer"]
  <2>1. CASE PipePart!Refused(e, b)
    BY <1>1, <2>1 DEF PipePart!PipeOpen, PipePart!data, Empty
  <2>2. CASE ~PipePart!Refused(e, b)
    <3>1. pc' = [pc EXCEPT ![e] = "opening"]
      BY <1>1, <2>2 DEF PipePart!PipeOpen
    <3>2. e = "writer" /\ pc["reader"] = "closed" /\ "reader" \notin held
      <4>1. e = "writer" /\ pc["reader"] = "closed"
        BY <3>1
      <4>2. held = {} \/ ~spoilt
        BY <1>1, <2>2 DEF PipePart!PipeOpen, PipePart!Fresh
      <4> QED
        BY <4>1, <4>2
    <3>3. ~PipePart!Present(e)
      BY <3>2 DEF PipePart!Present
    <3>4. b
      BY <2>2, <3>2, <3>3 DEF PipePart!Refused, PipePart!Flags
    <3>5. ~met'["writer"]
      BY <1>1, <2>2, <3>2, <3>3, <3>4 DEF PipePart!PipeOpen
    <3>6. Empty'
      BY <1>1, <2>2, <3>2 DEF PipePart!PipeOpen, PipePart!Fresh, PipePart!data, Empty
    <3> QED
      BY <3>1, <3>2, <3>5, <3>6
  <2> QED
    BY <2>1, <2>2
<1>2. ASSUME NEW e \in PipePart!Ends, PipePart!PipeCreate(e) \/ PipePart!PipeClose(e)
      PROVE  Empty' /\ pc'["writer"] \in {"closed", "opening", "killed"} /\ ~met'["writer"]
  BY <1>2 DEF PipePart!PipeCreate, PipePart!PipeClose, PipePart!data, Empty
<1>3. ASSUME NEW e \in PipePart!Ends, PipePart!Opened(e)
      PROVE  Empty' /\ pc'["writer"] \in {"closed", "opening", "killed"} /\ ~met'["writer"]
  BY <1>3 DEF PipePart!Opened, PipePart!data, Empty
<1>4. ASSUME NEW e \in PipePart!Ends, PipePart!Closed(e)
      PROVE  Empty' /\ pc'["writer"] \in {"closed", "opening", "killed"} /\ ~met'["writer"]
  BY <1>4 DEF PipePart!Closed, Empty
<1>5. CASE PipePart!PipePrintf
  BY <1>5 DEF PipePart!PipePrintf
<1>6. CASE PipePart!Flush \/ PipePart!Killed \/ PipePart!Printed \/ PipePart!PrintFails \/ PipePart!CloseFails
  BY <1>6 DEF PipePart!Flush, PipePart!Killed, PipePart!Printed, PipePart!PrintFails,
     PipePart!CloseFails, PipePart!Flushing, PipePart!NoRoom
<1>7. CASE PipePart!PipeRead
  BY <1>7 DEF PipePart!PipeRead
<1>8. CASE PipePart!Fill \/ PipePart!ReadDone \/ PipePart!ReadShort
  BY <1>8 DEF PipePart!Fill, PipePart!ReadDone, PipePart!ReadShort, PipePart!Reads
<1> QED
  BY <1>1, <1>2, <1>3, <1>4, <1>5, <1>6, <1>7, <1>8 DEF PipePart!Next, PipePart!Steps

\* What the steps need to know of the bytes.
LEMMA Parts ==
  ASSUME Whole
  PROVE  /\ buffer \in PipePart!Bytes /\ fifo \in PipePart!Bytes
         /\ ahead \in PipePart!Bytes /\ got \in PipePart!Bytes
         /\ Len(buffer) \in Nat /\ Len(fifo) \in Nat /\ Len(ahead) \in Nat /\ Len(got) \in Nat
         /\ printed \in Nat
BY BytesFacts DEF Whole, Flow

\* A step that leaves the bytes alone.
LEMMA SameFlow ==
  ASSUME PipePart!PortPipeAssumption, Whole, UNCHANGED PipePart!data,
         pc'["writer"] \in {"closed", "opening", "killed"} => buffer = << >>,
         pc'["writer"] = "open" => Len(buffer) <= BufSize,
         ~spoilt' /\ blocking'["reader"] => Empty \/ (~spoilt /\ blocking["reader"])
  PROVE  Flow' /\ PipePart!NothingLost'
<1>1. Flow'
  BY DEF Whole, Flow, PipePart!data
<1>2. Empty => got \o ahead \o fifo \o buffer = PipePart!Elements(printed)
  <2>1. PipePart!Elements(0) = << >>
    <3>1. PipePart!Elements(0) \in Seq(Nat \X {1, 2}) /\ Len(PipePart!Elements(0)) = 0
      BY ElementsFacts
    <3> QED
      BY <3>1, EmptySeq
  <2>2. << >> \o << >> \o << >> \o << >> = << >>
    BY BytesFacts
  <2> QED
    BY <2>1, <2>2 DEF Empty
<1>3. ASSUME ~spoilt', blocking'["reader"]
      PROVE  got \o ahead \o fifo \o buffer = PipePart!Elements(printed)
  BY <1>2, <1>3 DEF Whole, PipePart!NothingLost
<1>4. UNCHANGED <<got, ahead, fifo, buffer, printed>>
  BY DEF PipePart!data
<1> QED
  BY <1>1, <1>3, <1>4 DEF PipePart!NothingLost

\* The steps that move bytes on.
LEMMA PrintFlow ==
  ASSUME PipePart!PortPipeAssumption, Whole, PipePart!PipePrintf
  PROVE  Flow' /\ PipePart!NothingLost'
<1> DEFINE s == got \o ahead \o fifo
           v == PipePart!Element(printed + 1)
<1>1. v \in PipePart!Bytes /\ Len(v) = 2
  BY ElementType DEF Whole, Flow, PipePart!PipePrintf
<1>2. /\ printed' = printed + 1 /\ buffer' = buffer \o v
      /\ UNCHANGED <<fifo, ahead, got, spoilt, blocking>>
      /\ pc["writer"] = "open" /\ pc'["writer"] = "printing" /\ printed < MaxPrints
  BY DEF PipePart!PipePrintf, PipePart!Goes, PipePart!state, Whole, Places, PipePart!Ends
<1>3. buffer' \in PipePart!Bytes /\ Len(buffer') = Len(buffer) + 2
  <2> HIDE DEF v
  <2>1. buffer \o v \in PipePart!Bytes /\ Len(buffer \o v) = Len(buffer) + Len(v)
    BY <1>1, Parts, BytesJoined
  <2> QED
    BY <1>1, <1>2, <2>1
<1>4. Flow'
  <2>1. printed' \in 0 .. MaxPrints /\ Len(buffer) <= BufSize /\ Len(buffer) \in Nat
    BY <1>2, BytesFacts DEF Whole, Flow, PipePart!PortPipeAssumption
  <2> QED
    BY <1>2, <1>3, <2>1 DEF Whole, Flow, PipePart!PortPipeAssumption
<1>5. s \o (buffer \o v) = (s \o buffer) \o v
  <2>1. s \in PipePart!Bytes
    BY BytesJoined, Parts
  <2> HIDE DEF s, v
  <2> QED
    BY <1>1, <2>1, BytesGrouped, Parts
<1>6. PipePart!Elements(printed + 1) = PipePart!Elements(printed) \o v
  BY Parts, ElementsMore
<1>7. ASSUME ~spoilt, blocking["reader"] PROVE s \o buffer = PipePart!Elements(printed)
  BY <1>7 DEF Whole, PipePart!NothingLost
<1>8. PipePart!NothingLost'
  <2> SUFFICES ASSUME ~spoilt, blocking["reader"]
               PROVE  s \o (buffer \o v) = PipePart!Elements(printed + 1)
    BY <1>2 DEF PipePart!NothingLost
  <2> HIDE DEF s, v
  <2> QED
    BY <1>5, <1>6, <1>7
<1> QED
  BY <1>4, <1>8

LEMMA FlushFlow ==
  ASSUME PipePart!PortPipeAssumption, Whole, PipePart!Flush
  PROVE  Flow' /\ PipePart!NothingLost'
<1> DEFINE s == got \o ahead
           n == PipePart!Piece
           front == SubSeq(buffer, 1, n)
           rest == SubSeq(buffer, n + 1, Len(buffer))
<1>1. /\ fifo' = fifo \o front /\ buffer' = rest
      /\ UNCHANGED <<printed, ahead, got, spoilt, blocking, pc>>
      /\ pc["writer"] \in {"printing", "closing"} /\ Len(fifo) + n <= PipeSize
  BY DEF PipePart!Flush, PipePart!Flushing, PipePart!Fits, PipePart!state
<1>2. n \in Nat /\ n <= Len(buffer)
  BY BytesFacts DEF Whole, Flow, PipePart!Piece, PipePart!PortPipeAssumption
<1> HIDE DEF n
<1>3. /\ front \in PipePart!Bytes /\ Len(front) = n
      /\ rest \in PipePart!Bytes /\ Len(rest) = Len(buffer) - n /\ front \o rest = buffer
  BY <1>2, BytesCut, Parts
<1> HIDE DEF front, rest
<1>4. fifo' \in PipePart!Bytes /\ Len(fifo') = Len(fifo) + n
  BY <1>1, <1>3, BytesJoined, Parts
<1>5. Flow'
  <2>1. Len(buffer') <= BufSize + 2
    BY <1>1, <1>2, <1>3, BytesFacts DEF Whole, Flow, PipePart!PortPipeAssumption
  <2> QED
    BY <1>1, <1>3, <1>4, <2>1 DEF Whole, Flow
<1>6. (s \o (fifo \o front)) \o rest = (s \o fifo) \o buffer
  <2>1. s \in PipePart!Bytes /\ s \o fifo \in PipePart!Bytes
    BY BytesJoined, Parts
  <2> HIDE DEF s
  <2>2. (s \o fifo) \o front = s \o (fifo \o front)
    <3>1. s \in PipePart!Bytes /\ fifo \in PipePart!Bytes /\ front \in PipePart!Bytes
      BY <1>3, <2>1, Parts
    <3> QED
      BY <3>1, BytesGrouped
  <2>3. ((s \o fifo) \o front) \o rest = (s \o fifo) \o (front \o rest)
    BY <1>3, <2>1, BytesGrouped
  <2> QED
    BY <1>3, <2>2, <2>3
<1>7. PipePart!NothingLost'
  <2> SUFFICES ASSUME ~spoilt, blocking["reader"]
               PROVE  (s \o (fifo \o front)) \o rest = PipePart!Elements(printed)
    BY <1>1 DEF PipePart!NothingLost
  <2>1. (s \o fifo) \o buffer = PipePart!Elements(printed)
    BY DEF Whole, PipePart!NothingLost
  <2> QED
    BY <1>6, <2>1
<1> QED
  BY <1>5, <1>7

LEMMA FillFlow ==
  ASSUME PipePart!PortPipeAssumption, Whole, PipePart!Fill
  PROVE  Flow' /\ PipePart!NothingLost'
<1>1. /\ ahead' = ahead \o fifo /\ fifo' = << >>
      /\ UNCHANGED <<printed, buffer, got, spoilt, blocking, pc>>
  BY DEF PipePart!Fill, PipePart!state
<1>2. ahead \o fifo \in PipePart!Bytes /\ got \o (ahead \o fifo) \in PipePart!Bytes
  BY BytesJoined, Parts
<1>3. Flow'
  BY <1>1, <1>2, BytesFacts DEF Whole, Flow, PipePart!PortPipeAssumption
<1>4. got \o (ahead \o fifo) \o << >> = (got \o ahead) \o fifo
  BY <1>2, BytesFacts, BytesGrouped, Parts, ZenonT(60)
<1>5. PipePart!NothingLost'
  <2> SUFFICES ASSUME ~spoilt, blocking["reader"]
               PROVE  got \o (ahead \o fifo) \o << >> \o buffer = PipePart!Elements(printed)
    BY <1>1 DEF PipePart!NothingLost
  <2> QED
    BY <1>4 DEF Whole, PipePart!NothingLost
<1> QED
  BY <1>3, <1>5

LEMMA ReadFlow ==
  ASSUME PipePart!PortPipeAssumption, Whole, PipePart!ReadDone
  PROVE  Flow' /\ PipePart!NothingLost'
<1> DEFINE front == SubSeq(ahead, 1, 2)
           rest == SubSeq(ahead, 2 + 1, Len(ahead))
<1>1. /\ got' = got \o front /\ ahead' = rest
      /\ UNCHANGED <<printed, buffer, fifo, blocking>> /\ spoilt' = spoilt
      /\ pc'["writer"] = pc["writer"] /\ 2 <= Len(ahead)
  <2>1. Len(PipePart!Element(1)) = 2
    BY DEF PipePart!Element
  <2>2. pc["reader"] = "reading" /\ ~PipePart!Reads /\ Len(ahead) \in Nat
    BY BytesFacts DEF PipePart!ReadDone, Whole, Flow
  <2>3. 2 <= Len(ahead)
    BY <2>1, <2>2 DEF PipePart!Reads
  <2> QED
    BY <2>3 DEF PipePart!ReadDone, PipePart!Returns, PipePart!Goes, PipePart!state, Whole, Places,
       PipePart!Ends
<1>2. /\ front \in PipePart!Bytes /\ Len(front) = 2
      /\ rest \in PipePart!Bytes /\ front \o rest = ahead
  BY <1>1, BytesCut, Parts
<1> HIDE DEF front, rest
<1>3. got' \in PipePart!Bytes /\ Len(got') = Len(got) + 2 /\ Len(got) \in Nat
  <2>1. got \o front \in PipePart!Bytes /\ Len(got \o front) = Len(got) + Len(front)
    BY <1>2, Parts, BytesJoined
  <2> QED
    BY <1>1, <1>2, <2>1, Parts
<1>4. Flow'
  <2>1. Len(got') % 2 = 0
    BY <1>3 DEF Whole, Flow
  <2> QED
    BY <1>1, <1>2, <1>3, <2>1 DEF Whole, Flow
<1>5. (got \o front) \o rest = got \o ahead
  <2>1. got \in PipePart!Bytes /\ front \in PipePart!Bytes /\ rest \in PipePart!Bytes
    BY <1>2, Parts
  <2>2. (got \o front) \o rest = got \o (front \o rest)
    BY <2>1, BytesGrouped
  <2> QED
    BY <1>2, <2>2
<1>6. PipePart!NothingLost'
  <2> SUFFICES ASSUME ~spoilt, blocking["reader"]
               PROVE  (got \o front) \o rest \o fifo \o buffer = PipePart!Elements(printed)
    BY <1>1 DEF PipePart!NothingLost
  <2> QED
    BY <1>5 DEF Whole, PipePart!NothingLost
<1> QED
  BY <1>4, <1>6

\* A reader that finds the end of the pipe has been given all of it: elements have
\* two bytes, and a writer that is gone has left none of one in its stream.
LEMMA EndFlow ==
  ASSUME PipePart!PortPipeAssumption, Whole, PipePart!ReadShort
  PROVE  Flow' /\ PipePart!NothingLost'
<1>1. /\ ahead' = << >> /\ fifo = << >> /\ pc'["writer"] = pc["writer"]
      /\ UNCHANGED <<printed, buffer, fifo, got, spoilt, blocking>>
      /\ "writer" \notin held \/ ~blocking["reader"]
  BY DEF PipePart!ReadShort, PipePart!Goes, PipePart!state, Whole, Places, PipePart!Ends
<1>2. Len(ahead) \in Nat /\ Len(ahead) < 2
  BY BytesFacts DEF PipePart!ReadShort, PipePart!Reads, PipePart!Element, Whole, Flow
<1>3. Flow'
  BY <1>1, BytesFacts DEF Whole, Flow
<1>4. ASSUME ~spoilt, blocking["reader"] PROVE ahead = << >>
  <2>1. buffer = << >>
    BY <1>1, <1>4 DEF Whole, Places, Flow, PipePart!Ends
  <2>2. got \o ahead \in PipePart!Bytes /\ Len(got \o ahead) = Len(got) + Len(ahead)
    BY BytesJoined, Parts
  <2>3. got \o ahead = PipePart!Elements(printed)
    BY <1>1, <1>4, <2>1, <2>2, BytesFacts DEF Whole, PipePart!NothingLost
  <2>4. Len(PipePart!Elements(printed)) = 2 * printed /\ printed \in Nat
    BY ElementsFacts DEF Whole, Flow
  <2>5. Len(got) \in Nat /\ Len(got) % 2 = 0
    BY BytesFacts DEF Whole, Flow
  <2>6. Len(ahead) = 0
    BY <1>2, <2>2, <2>3, <2>4, <2>5
  <2> QED
    BY <2>6, BytesFacts DEF Whole, Flow
<1>5. PipePart!NothingLost'
  <2> SUFFICES ASSUME ~spoilt, blocking["reader"]
               PROVE  got \o << >> \o fifo \o buffer = PipePart!Elements(printed)
    BY <1>1 DEF PipePart!NothingLost
  <2> QED
    BY <1>4 DEF Whole, PipePart!NothingLost
<1> QED
  BY <1>3, <1>5

\* The steps of the ends that move no bytes, and those that drop some, which are told.
LEMMA EndsFlow ==
  ASSUME PipePart!PortPipeAssumption, Whole, NEW e \in PipePart!Ends,
         \/ PipePart!PipeCreate(e) \/ PipePart!PipeClose(e) \/ PipePart!Opened(e)
         \/ PipePart!Closed(e) \/ \E b \in BOOLEAN : PipePart!PipeOpen(e, b)
  PROVE  Flow' /\ PipePart!NothingLost'
<1> USE DEF PipePart!Ends, PipePart!Goes, PipePart!Returns, PipePart!state
<1>1. CASE PipePart!PipeCreate(e)
  BY <1>1, SameFlow DEF PipePart!PipeCreate, PipePart!data, Whole, Flow
<1>2. CASE PipePart!PipeClose(e)
  BY <1>2, SameFlow DEF PipePart!PipeClose, PipePart!data, Whole, Flow, Places
<1>3. CASE PipePart!Opened(e)
  <2>1. /\ pc["writer"] = "opening" => buffer = << >>
        /\ pc["writer"] = "open" => Len(buffer) <= BufSize
        /\ pc["writer"] \in {"closed", "opening", "killed"} => buffer = << >>
    BY DEF Whole, Flow
  <2>2. Len(<< >>) <= BufSize
    BY BytesFacts DEF PipePart!PortPipeAssumption
  <2>3. \/ pc'["writer"] = pc["writer"]
        \/ pc["writer"] = "opening" /\ pc'["writer"] \in {"open", "closed"}
    BY <1>3 DEF PipePart!Opened, Whole, Places
  <2>4. (spoilt => spoilt') /\ blocking' = blocking /\ UNCHANGED PipePart!data
    BY <1>3 DEF PipePart!Opened, PipePart!data, Whole, Places
  <2> QED
    BY <2>1, <2>2, <2>3, <2>4, SameFlow
<1>4. CASE PipePart!Closed(e)
  <2>1. pc["writer"] = "closing" /\ e = "writer" => buffer = << >>
    BY <1>4, Parts, BytesFacts DEF PipePart!Closed, PipePart!MustFlush
  <2>2. CASE e = "writer"
    <3>1. /\ pc'["writer"] = "closed" /\ buffer = << >> /\ spoilt' = spoilt
          /\ UNCHANGED PipePart!data /\ blocking' = blocking
      BY <1>4, <2>1, <2>2 DEF PipePart!Closed, PipePart!data, Whole, Places
    <3> QED
      BY <3>1, SameFlow
  <2>3. CASE e = "reader"
    <3>1. /\ pc'["writer"] = pc["writer"] /\ spoilt' /\ ahead' = << >>
          /\ UNCHANGED <<printed, buffer, fifo, got>>
      BY <1>4, <2>3 DEF PipePart!Closed, Whole, Places
    <3> QED
      BY <3>1, BytesFacts DEF Whole, Flow, PipePart!NothingLost
  <2> QED
    BY <2>2, <2>3
<1>5. ASSUME NEW b \in BOOLEAN, PipePart!PipeOpen(e, b) PROVE Flow' /\ PipePart!NothingLost'
  <2>1. CASE PipePart!Refused(e, b)
    <3>1. UNCHANGED <<blocking, pc, spoilt, PipePart!data>>
      BY <1>5, <2>1 DEF PipePart!PipeOpen
    <3> QED
      BY <3>1, SameFlow DEF Whole, Flow, PipePart!data
  <2>2. CASE ~PipePart!Refused(e, b)
    <3>1. /\ pc[e] = "closed" /\ pc' = [pc EXCEPT ![e] = "opening"] /\ PipePart!Fresh
          /\ blocking' = [blocking EXCEPT ![e] = b]
      BY <1>5, <2>2 DEF PipePart!PipeOpen
    <3>2. CASE Empty'
      <4>1. PipePart!PortPipeAssumption'
        BY DEF PipePart!PortPipeAssumption
      <4> QED
        BY <3>2, <4>1, EmptyFlow, PTL
    <3>3. CASE UNCHANGED <<spoilt, PipePart!data>>
      <4>1. pc["writer"] \in {"closed", "opening", "killed"} => buffer = << >>
        BY DEF Whole, Flow
      <4>2. pc["writer"] = "open" => Len(buffer) <= BufSize
        BY DEF Whole, Flow
      <4>3. pc'["writer"] \in {"closed", "opening", "killed"} => buffer = << >>
        BY <3>1, <4>1 DEF Whole, Places
      <4>4. pc'["writer"] = "open" => Len(buffer) <= BufSize
        BY <3>1, <4>2 DEF Whole, Places
      <4>5. ASSUME ~spoilt', blocking'["reader"]
            PROVE  Empty \/ (~spoilt /\ blocking["reader"])
        BY <3>1, <3>3, <4>5 DEF Whole, Early, Places
      <4> QED
        BY <3>3, <4>3, <4>4, <4>5, SameFlow
    <3> QED
      BY <3>1, <3>2, <3>3 DEF PipePart!Fresh, Empty
  <2> QED
    BY <2>1, <2>2
<1> QED
  BY <1>1, <1>2, <1>3, <1>4, <1>5

LEMMA WriterFlow ==
  ASSUME PipePart!PortPipeAssumption, Whole,
         PipePart!Killed \/ PipePart!Printed \/ PipePart!PrintFails \/ PipePart!CloseFails
  PROVE  Flow' /\ PipePart!NothingLost'
<1> USE DEF PipePart!Ends, PipePart!Goes, PipePart!Returns, PipePart!state
<1>1. CASE PipePart!Killed \/ PipePart!CloseFails
  <2>1. /\ pc'["writer"] \in {"killed", "closed"} /\ spoilt' /\ buffer' = << >>
        /\ UNCHANGED <<printed, fifo, ahead, got>>
    BY <1>1 DEF PipePart!Killed, PipePart!CloseFails, Whole, Places
  <2> QED
    BY <2>1, BytesFacts DEF Whole, Flow, PipePart!NothingLost, PipePart!PortPipeAssumption
<1>2. CASE PipePart!Printed
  <2>1. Len(buffer) <= BufSize
    BY <1>2, Parts DEF PipePart!Printed, PipePart!MustFlush, PipePart!PortPipeAssumption
  <2>2. /\ pc'["writer"] = "open" /\ spoilt' = spoilt /\ blocking' = blocking
        /\ UNCHANGED PipePart!data
    BY <1>2 DEF PipePart!Printed, Whole, Places
  <2> QED
    BY <2>1, <2>2, SameFlow
<1>3. CASE PipePart!PrintFails
  <2>1. /\ pc'["writer"] = "open" /\ spoilt'
        /\ UNCHANGED <<printed, fifo, ahead, got>>
        /\ pc["writer"] = "printing" /\ PipePart!MustFlush
        /\ buffer' = << >> \/ buffer' = SubSeq(buffer, 1, BufSize)
    BY <1>3 DEF PipePart!PrintFails, PipePart!NoRoom, PipePart!Flushing, Whole, Places
  <2>2. BufSize \in Nat /\ BufSize <= Len(buffer)
    BY <2>1, Parts DEF PipePart!MustFlush, PipePart!PortPipeAssumption
  <2>3. SubSeq(buffer, 1, BufSize) \in PipePart!Bytes /\ Len(SubSeq(buffer, 1, BufSize)) = BufSize
    BY <2>2, Parts, BytesCut
  <2>4. buffer' \in PipePart!Bytes /\ Len(buffer') \in Nat /\ Len(buffer') <= BufSize
    <3>1. << >> \in PipePart!Bytes /\ Len(<< >>) = 0
      BY BytesFacts
    <3>2. buffer' = << >> \/ buffer' = SubSeq(buffer, 1, BufSize)
      BY <2>1
    <3>3. ASSUME NEW s, s \in PipePart!Bytes, Len(s) = 0 \/ Len(s) = BufSize
          PROVE  s \in PipePart!Bytes /\ Len(s) \in Nat /\ Len(s) <= BufSize
      BY <2>2, <3>3
    <3> QED
      BY <2>3, <3>1, <3>2, <3>3, Zenon
  <2>5. Flow'
    <3>1. Len(buffer') <= BufSize + 2
      BY <2>2, <2>4
    <3>2. /\ printed \in 0 .. MaxPrints /\ fifo \in PipePart!Bytes /\ ahead \in PipePart!Bytes
          /\ got \in PipePart!Bytes /\ Len(fifo) <= PipeSize /\ Len(got) % 2 = 0
      BY DEF Whole, Flow
    <3> QED
      BY <2>1, <2>4, <3>1, <3>2 DEF Flow
  <2> QED
    BY <2>1, <2>5 DEF PipePart!NothingLost
<1> QED
  BY <1>1, <1>2, <1>3

LEMMA WholeStep ==
  ASSUME PipePart!PortPipeAssumption, Whole, PipePart!Next
  PROVE  Whole'
<1>1. Places' /\ Early'
  BY PlacesStep, EarlyStep DEF Whole
<1>2. CASE PipePart!PipeRead
  <2>1. pc'["writer"] = pc["writer"] /\ UNCHANGED <<spoilt, blocking, PipePart!data>>
    BY <1>2 DEF PipePart!PipeRead, PipePart!Goes, PipePart!state, Whole, Places, PipePart!Ends
  <2> QED
    <3>1. /\ pc["writer"] \in {"closed", "opening", "killed"} => buffer = << >>
          /\ pc["writer"] = "open" => Len(buffer) <= BufSize
      BY DEF Whole, Flow
    <3>2. Flow' /\ PipePart!NothingLost'
      BY <1>1, <2>1, <3>1, SameFlow
    <3> QED
      BY <1>1, <3>2 DEF Whole
<1>3. CASE PipePart!PipePrintf \/ PipePart!Flush \/ PipePart!Fill \/ PipePart!ReadDone
           \/ PipePart!ReadShort
  BY <1>1, <1>3, PrintFlow, FlushFlow, FillFlow, ReadFlow, EndFlow DEF Whole
<1>4. CASE PipePart!Killed \/ PipePart!Printed \/ PipePart!PrintFails \/ PipePart!CloseFails
  BY <1>1, <1>4, WriterFlow DEF Whole
<1>5. ASSUME NEW e \in PipePart!Ends,
             \/ PipePart!PipeCreate(e) \/ PipePart!PipeClose(e) \/ PipePart!Opened(e)
             \/ PipePart!Closed(e) \/ \E b \in BOOLEAN : PipePart!PipeOpen(e, b)
      PROVE  Whole'
  BY <1>1, <1>5, EndsFlow DEF Whole
<1> QED
  BY <1>2, <1>3, <1>4, <1>5 DEF PipePart!Next, PipePart!Steps

-----------------------------------------------------------------------------
(* DEVIO_select: t is the time of the sleeps, and ahead of it by the one that   *)
(* has begun.                                                                 *)

Slept ==
  /\ at \in {"idle", "reading", "polling", "sleeping"}
  /\ timeout \in Nat \cup {Endless} /\ t \in Nat /\ waited \in Nat
  /\ at \in {"reading", "polling"} /\ timeout # Endless => t = waited
  /\ at = "sleeping" /\ timeout # Endless => t = waited + PollTime
  /\ DevicePart!NotEarly

LEMMA SleptInit ==
  ASSUME DevicePart!SelectAssumption, DevicePart!SelectInit
  PROVE  Slept
BY DEF DevicePart!SelectAssumption, DevicePart!SelectInit, DevicePart!NotEarly, Slept

LEMMA SleptStep ==
  ASSUME DevicePart!SelectAssumption, Slept, DevicePart!SelectNext
  PROVE  Slept'
<1> USE DEF Slept, DevicePart!NotEarly, DevicePart!SelectAssumption
<1>1. CASE DevicePart!SelectRead
  BY <1>1 DEF DevicePart!SelectRead
<1>2. CASE DevicePart!SelectPoll
  BY <1>2 DEF DevicePart!SelectPoll
<1>3. CASE DevicePart!SelectRound
  <2>1. CASE timeout = Endless
    BY <1>3, <2>1 DEF DevicePart!SelectRound, DevicePart!Over, DevicePart!Count
  <2>2. CASE timeout # Endless
    <3>1. timeout \in Nat /\ PollTime \in Nat
      BY <2>2
    <3> QED
      BY <1>3, <2>2, <3>1 DEF DevicePart!SelectRound, DevicePart!Over, DevicePart!Count
  <2> QED
    BY <2>1, <2>2
<1>4. CASE DevicePart!SelectSleep
  BY <1>4 DEF DevicePart!SelectSleep
<1>5. ASSUME NEW S, NEW limit \in SelectTimes \cup {Endless}, DevicePart!SelectStart(S, limit)
      PROVE  Slept'
  BY <1>5 DEF DevicePart!SelectStart
<1>6. CASE UNCHANGED DevicePart!select
  BY <1>6 DEF DevicePart!select
<1> QED
  BY <1>1, <1>2, <1>3, <1>4, <1>5, <1>6 DEF DevicePart!SelectNext, DevicePart!SelectStep

\* The tables of the device layer meanwhile: what DevIoProofs shows of them.
Tables == INSTANCE DevIoProofs WITH
  Procs <- {"p"}, Drivers <- {"d"}, Devices <- {"v"}, Driver <- [v \in {"v"} |-> "d"],
  Names <- {<<1>>}, Requests <- {<<1>>}, MaxDrivers <- 1, MaxDevices <- 1, MaxFds <- 2,
  MaxPrivs <- 2, MaxTimes <- 1, ThreadLocks <- {TRUE}, Hot <- {"fd"}, None <- Nobody

LEMMA TablesAssumed == DevicePart!DevIoAssumption => Tables!DevIoAssumption
BY DEF DevicePart!DevIoAssumption, Tables!DevIoAssumption

\* The instance of the proofs has the steps of the service.
LEMMA TablesNext == DevicePart!Next => Tables!Next
BY Zenon DEF
  DevicePart!Next, DevicePart!Runs, DevicePart!Locked, DevicePart!Installing,
     DevicePart!InstallMark, DevicePart!InstallReset, DevicePart!Reset, DevicePart!InstallSlot,
     DevicePart!InstallFirst, DevicePart!Opening, DevicePart!OpenCall, DevicePart!OpenFails,
     DevicePart!OpenBind, DevicePart!FreeFds, DevicePart!OpenFind, DevicePart!Found,
     DevicePart!Matches, DevicePart!Using, DevicePart!CloseCall, DevicePart!CallDone,
     DevicePart!CloseClear, DevicePart!Leads, DevicePart!Through, DevicePart!CallLook,
     DevicePart!Open, DevicePart!FdUsed, DevicePart!Callers, DevicePart!DriverRemove,
     DevicePart!DriverUsed, DevicePart!Busy, DevicePart!DeviceDelete, DevicePart!DeviceUsed,
     DevicePart!Deletable, DevicePart!DeviceAdd, DevicePart!FreeEntries, DevicePart!Goto,
     DevicePart!Remember, DevicePart!Return, DevicePart!Least, DevicePart!NoLocal,
     DevicePart!Unused, DevicePart!Closed, DevicePart!Slots, DevicePart!Entries,
     DevicePart!Fds, DevicePart!Privs, DevicePart!tables, DevicePart!history, DevicePart!races, DevicePart!vars,
     Tables!Next, Tables!Runs, Tables!Locked, Tables!Installing, Tables!InstallMark,
     Tables!InstallReset, Tables!Reset, Tables!InstallSlot, Tables!InstallFirst,
     Tables!Opening, Tables!OpenCall, Tables!OpenFails, Tables!OpenBind, Tables!FreeFds,
     Tables!OpenFind, Tables!Found, Tables!Matches, Tables!Using, Tables!CloseCall,
     Tables!CallDone, Tables!CloseClear, Tables!Leads, Tables!Through, Tables!CallLook,
     Tables!Open, Tables!FdUsed, Tables!Callers, Tables!DriverRemove, Tables!DriverUsed,
     Tables!Busy, Tables!DeviceDelete, Tables!DeviceUsed, Tables!Deletable, Tables!DeviceAdd,
     Tables!FreeEntries, Tables!Goto, Tables!Remember, Tables!Return, Tables!Least,
     Tables!NoLocal, Tables!Unused, Tables!Closed, Tables!Slots, Tables!Entries, Tables!Fds,
     Tables!Privs, Tables!tables, Tables!history, Tables!races, Tables!vars

LEMMA TablesInit ==
  ASSUME DevicePart!DevIoAssumption, DevicePart!Init
  PROVE  Tables!IInv
<1>1. Tables!Init
  BY Zenon DEF
    DevicePart!Init, DevicePart!Slots, DevicePart!Entries, DevicePart!Fds, DevicePart!Privs,
       DevicePart!Unused, DevicePart!NoLocal, Tables!Init, Tables!Slots, Tables!Entries,
       Tables!Fds, Tables!Privs, Tables!Unused, Tables!NoLocal
<1> QED
  BY <1>1, TablesAssumed, Tables!InitInvariant

LEMMA TablesStep ==
  ASSUME DevicePart!DevIoAssumption, Tables!IInv,
         DevicePart!SelectNext \/ UNCHANGED DevicePart!vars
  PROVE  Tables!IInv'
<1>1. DevicePart!Next \/ UNCHANGED DevicePart!vars
  BY DEF DevicePart!SelectNext, DevicePart!SelectStep, DevicePart!SelectRead,
     DevicePart!SelectPoll, DevicePart!SelectRound, DevicePart!SelectSleep,
     DevicePart!SelectStart
<1>2. UNCHANGED DevicePart!vars => UNCHANGED Tables!vars
  BY DEF DevicePart!vars, DevicePart!tables, DevicePart!history, DevicePart!races, Tables!vars,
     Tables!tables, Tables!history, Tables!races
<1> QED
  BY <1>1, <1>2, TablesNext, TablesAssumed, Tables!NextInvariant

LEMMA TablesTyped == Tables!IInv => DevicePart!TypeOK
BY DEF Tables!IInv, Tables!TypeOK, DevicePart!TypeOK, Tables!Slots, Tables!Entries, Tables!Fds,
   Tables!Privs, DevicePart!Slots, DevicePart!Entries, DevicePart!Fds, DevicePart!Privs

-----------------------------------------------------------------------------
(* Sleeping: what a thread has slept and what the system has still to let it    *)
(* sleep is what it has asked for, but for the ticks that are rounded off.     *)

Counting ==
  /\ Hz \in Nat \ {0} /\ TickLen \in Nat \ {0} /\ Word \in Nat \ {0} /\ UsPerMs \in Nat \ {0}
  /\ ClockPart!Sec \in Nat \ {0} /\ ClockPart!Sec = Hz * TickLen

LEMMA Positive ==
  ASSUME NEW a \in Nat \ {0}, NEW b \in Nat \ {0}
  PROVE  a * b \in Nat \ {0}
OBVIOUS

LEMMA CountsTime == ClockPart!PortClockAssumption => Counting
BY Positive DEF ClockPart!PortClockAssumption, Counting, ClockPart!Sec

LEMMA Quotients ==
  ASSUME NEW a \in Nat, NEW k \in Nat \ {0}
  PROVE  /\ a \div k \in Nat /\ a % k \in 0 .. k - 1
         /\ (a \div k) * k <= a /\ a < (a \div k) * k + k
OBVIOUS

LEMMA Products ==
  ASSUME NEW a \in Nat, NEW b \in Nat
  PROVE  a * b \in Nat
OBVIOUS

LEMMA ProductsLess ==
  ASSUME NEW a \in Int, NEW b \in Int, NEW c \in Nat \ {0}
  PROVE  /\ a < b => a * c < b * c
         /\ a * c < b * c => a < b
OBVIOUS

\* The largest whole number of k in a.
LEMMA QuotientIs ==
  ASSUME NEW a \in Nat, NEW k \in Nat \ {0}, NEW q \in Nat, q * k <= a, a < q * k + k
  PROVE  a \div k = q
<1> DEFINE p == a \div k
<1>1. p \in Nat /\ p * k <= a /\ a < p * k + k
  BY Quotients
<1>2. (q + 1) * k = q * k + k /\ (p + 1) * k = p * k + k
  BY <1>1
<1> HIDE DEF p
<1>3. q * k < (p + 1) * k /\ p * k < (q + 1) * k
  BY <1>1, <1>2
<1>4. q < p + 1 /\ p < q + 1
  BY <1>1, <1>3, ProductsLess
<1>5. p = q
  BY <1>1, <1>4
<1> QED
  BY <1>5 DEF p

\* The milliseconds that a sleep may be too short.
Lost == IF ClockPart!Short = 0 THEN 1 ELSE ClockPart!Short * TickLen

\* The system is asked for no less.
Enough(us, ms) == us - ms * UsPerMs < Lost * UsPerMs

LEMMA LostTime == Counting => Lost \in Nat \ {0}
BY DEF Counting, Lost, ClockPart!Short

LEMMA EnoughMs ==
  ASSUME Counting, NEW a \in Nat, NEW ms \in Nat, a - ms < Lost
  PROVE  Enough(a * UsPerMs, ms)
<1>1. Lost \in Nat /\ UsPerMs \in Nat \ {0}
  BY LostTime DEF Counting
<1>2. (a - ms) * UsPerMs = a * UsPerMs - ms * UsPerMs
  BY <1>1
<1>3. (a - ms) * UsPerMs < Lost * UsPerMs
  BY <1>1, ProductsLess
<1> QED
  BY <1>2, <1>3 DEF Enough

\* The first of n ticks is cut.
LEMMA TicksWait ==
  ASSUME Counting, now \in Nat, NEW n \in Nat
  PROVE  ClockPart!Ticks(n) \in Nat /\ n * TickLen - ClockPart!Ticks(n) < TickLen
<1>1. TickLen \in Nat \ {0} /\ now % TickLen \in 0 .. TickLen - 1
  BY Quotients DEF Counting
<1>2. n # 0 => n * TickLen >= TickLen
  <2>1. n # 0 => (n - 1) * TickLen >= 0 /\ (n - 1) * TickLen = n * TickLen - TickLen
    BY <1>1
  <2> QED
    BY <1>1, <2>1
<1>3. n * TickLen \in Nat /\ (n = 0 => n * TickLen = 0)
  BY <1>1
<1> QED
  BY <1>1, <1>2, <1>3 DEF ClockPart!Ticks, ClockPart!UntilTick

\* Rounded down to ticks.
LEMMA TicksOf ==
  ASSUME Counting, NEW a \in Nat
  PROVE  ClockPart!MSecToTick(a) \in Nat /\ a - ClockPart!MSecToTick(a) * TickLen < TickLen
BY Quotients DEF Counting, ClockPart!MSecToTick

LEMMA HzTicksOf ==
  ASSUME Counting, NEW a \in Nat
  PROVE  /\ ClockPart!HzTicks(a) \in Nat
         /\ ~ClockPart!HzOverflows(a) => ClockPart!HzTicks(a) = ClockPart!MSecToTick(a)
<1> DEFINE q == a \div TickLen
<1>1. Hz \in Nat \ {0} /\ TickLen \in Nat \ {0} /\ Word \in Nat \ {0} /\ ClockPart!Sec \in Nat \ {0}
  BY DEF Counting
<1>2. Hz * a \in Nat /\ (Hz * a) % Word \in Nat
  BY <1>1, Products, Quotients
<1>3. ((Hz * a) % Word) \div ClockPart!Sec \in Nat
  BY <1>1, <1>2, Quotients
<1>4. q \in Nat /\ q * TickLen <= a /\ a < q * TickLen + TickLen
  BY <1>1, Quotients
<1> HIDE DEF q
<1>5. q * TickLen * Hz = q * ClockPart!Sec /\ (q * TickLen + TickLen) * Hz = q * ClockPart!Sec + ClockPart!Sec
  BY <1>1, <1>4 DEF Counting
<1>6. q * TickLen \in Nat /\ q * TickLen + TickLen \in Nat /\ Hz * a = a * Hz
  BY <1>1, <1>4
<1>7. q * TickLen * Hz <= a * Hz /\ a * Hz < (q * TickLen + TickLen) * Hz
  BY <1>1, <1>4, <1>6, ProductsLess
<1>8. q * ClockPart!Sec <= Hz * a /\ Hz * a < q * ClockPart!Sec + ClockPart!Sec
  BY <1>5, <1>6, <1>7
<1>9. (Hz * a) \div ClockPart!Sec = q
  BY <1>1, <1>2, <1>4, <1>8, QuotientIs
<1>10. ~ClockPart!HzOverflows(a) => (Hz * a) % Word = Hz * a
  BY <1>1, <1>2 DEF ClockPart!HzOverflows
<1> QED
  BY <1>3, <1>9, <1>10 DEF ClockPart!HzTicks, ClockPart!MSecToTick, q

\* Rounded up to ticks.
LEMMA VxworksTicksOf ==
  ASSUME Counting, NEW a \in Nat
  PROVE  /\ ClockPart!VxworksTicks(a) \in Nat
         /\ ClockPart!VxworksFits(a) => ClockPart!VxworksTicks(a) * TickLen >= a
<1> DEFINE h == Hz * a
           q == (h + ClockPart!Sec - 1) \div ClockPart!Sec
<1>1. Hz \in Nat \ {0} /\ TickLen \in Nat \ {0} /\ Word \in Nat \ {0} /\ ClockPart!Sec \in Nat \ {0}
  BY DEF Counting
<1>2. h \in Nat /\ (h % Word) + ClockPart!Sec - 1 \in Nat
  <2>1. h \in Nat
    BY <1>1, Products
  <2> HIDE DEF h
  <2>2. h % Word \in Nat
    BY <1>1, <2>1, Quotients
  <2> QED
    BY <1>1, <2>1, <2>2
<1>3. ClockPart!VxworksTicks(a) \in Nat
  <2>1. ((h % Word) + ClockPart!Sec - 1) % Word \in Nat
    BY <1>1, <1>2, Quotients
  <2>2. (((h % Word) + ClockPart!Sec - 1) % Word) \div ClockPart!Sec \in Nat
    BY <1>1, <2>1, Quotients
  <2> QED
    BY <2>2 DEF ClockPart!VxworksTicks
<1>4. ASSUME ClockPart!VxworksFits(a), a # 0 PROVE ClockPart!VxworksTicks(a) = q
  <2>1. h + ClockPart!Sec - 1 < Word
    BY <1>4 DEF ClockPart!VxworksFits
  <2>2. ClockPart!VxworksTicks(a) = (((h % Word) + ClockPart!Sec - 1) % Word) \div ClockPart!Sec
    BY <1>4 DEF ClockPart!VxworksTicks
  <2> HIDE DEF h
  <2>3. h % Word = h
    BY <1>1, <1>2, <2>1
  <2>4. (h + ClockPart!Sec - 1) % Word = h + ClockPart!Sec - 1
    BY <1>1, <1>2, <2>1
  <2> QED
    BY <2>2, <2>3, <2>4
<1>5. q \in Nat /\ h + ClockPart!Sec - 1 < q * ClockPart!Sec + ClockPart!Sec
  <2> HIDE DEF h
  <2>1. h + ClockPart!Sec - 1 \in Nat
    BY <1>1, <1>2
  <2> QED
    BY <1>1, <2>1, Quotients
<1>6. h = a * Hz /\ q * ClockPart!Sec = q * TickLen * Hz
  <2>1. h = a * Hz
    BY <1>1
  <2> HIDE DEF q
  <2>2. q * (Hz * TickLen) = q * TickLen * Hz
    BY <1>1, <1>5
  <2> QED
    BY <2>1, <2>2 DEF Counting
<1>7. q * TickLen \in Nat
  BY <1>1, <1>5, Products
<1> HIDE DEF q
<1>8. a * Hz < q * TickLen * Hz + 1
  BY <1>1, <1>2, <1>5, <1>6
<1>9. ~(q * TickLen < a)
  <2>1. q * TickLen < a => q * TickLen * Hz < a * Hz
    BY <1>1, <1>7, ProductsLess
  <2>2. q * TickLen * Hz \in Nat /\ a * Hz \in Nat
    BY <1>1, <1>7, Products
  <2> QED
    BY <1>8, <2>1, <2>2
<1> QED
  BY <1>1, <1>3, <1>4, <1>7, <1>9 DEF ClockPart!VxworksTicks

ClockTypes == ClockPart!TypeOK

Dozing == pc # "awake" /\ exact /\ port # "generic" => Enough(asked, slept + left)

LEMMA SleepsStep ==
  ASSUME Counting, ClockTypes, NEW p, NEW us \in Nat, NEW ms \in Nat, NEW fits \in BOOLEAN,
         ClockPart!Sleeps(p, us, ms, fits), fits /\ port # "generic" => Enough(us, ms)
  PROVE  ClockTypes' /\ Dozing'
<1>1. ClockTypes'
  BY DEF ClockTypes, ClockPart!TypeOK, ClockPart!Sleeps
<1>2. asked' = us /\ slept' + left' = ms /\ exact' = fits /\ port' = port
  BY DEF ClockPart!Sleeps
<1>3. Enough(asked, slept + left)' <=> Enough(us, ms)
  BY <1>2 DEF Enough, Lost, ClockPart!Short
<1> QED
  BY <1>1, <1>2, <1>3 DEF Dozing

\* Two ticks where a time is rounded down to ticks, and one where it is rounded up.
LEMMA LostIs ==
  ASSUME Counting
  PROVE  /\ port \in {"linux_drv", "ecos", "nucleus"} => Lost = TickLen + TickLen
         /\ port = "vxworks" => Lost = TickLen
         /\ Lost \in Nat \ {0}
<1>1. /\ port \in {"linux_drv", "ecos", "nucleus"} => ClockPart!Short = 2
      /\ port = "vxworks" => ClockPart!Short = 1
  BY DEF ClockPart!Short, ClockPart!Ticking
<1>2. TickLen \in Nat \ {0}
  BY DEF Counting
<1> QED
  BY <1>1, <1>2, LostTime DEF Lost

\* A sleep that is rounded down to ticks, and one that is rounded up.
LEMMA TicksEnough ==
  ASSUME Counting, now \in Nat, NEW a \in Nat, NEW n \in Nat,
         \/ port \in {"linux_drv", "ecos", "nucleus"} /\ a - n * TickLen < TickLen
         \/ port = "vxworks" /\ a <= n * TickLen
  PROVE  ClockPart!Ticks(n) \in Nat /\ Enough(a * UsPerMs, ClockPart!Ticks(n))
<1>1. ClockPart!Ticks(n) \in Nat /\ n * TickLen - ClockPart!Ticks(n) < TickLen
  BY TicksWait
<1>2. n * TickLen \in Nat /\ TickLen \in Nat
  BY Products DEF Counting
<1>3. a - ClockPart!Ticks(n) < Lost
  BY <1>1, <1>2, LostIs
<1> QED
  BY <1>1, <1>3, EnoughMs

\* A sleep that is not rounded.
LEMMA AllEnough ==
  ASSUME Counting, NEW a \in Nat
  PROVE  Enough(a * UsPerMs, a)
BY LostIs, EnoughMs

LEMMA MSecStep ==
  ASSUME Counting, ClockTypes, NEW a \in Nat, ClockPart!MSecSleep(a)
  PROVE  ClockTypes' /\ Dozing'
<1>0. /\ now \in Nat /\ a * UsPerMs \in Nat /\ UsPerMs \in Nat \ {0}
      /\ TickLen \in Nat \ {0} /\ ClockPart!Sec \in Nat \ {0}
  BY Products DEF ClockTypes, ClockPart!TypeOK, Counting
<1>1. ASSUME NEW p, NEW ms \in Nat, NEW fits \in BOOLEAN, ClockPart!SleepsMs(p, a, ms, fits),
             fits /\ port = p => Enough(a * UsPerMs, ms)
      PROVE  ClockTypes' /\ Dozing'
  <2>1. ClockPart!Sleeps(p, a * UsPerMs, ms, fits)
    BY <1>1 DEF ClockPart!SleepsMs
  <2>2. port = p
    BY <2>1 DEF ClockPart!Sleeps
  <2> QED
    BY <1>0, <1>1, <2>1, <2>2, SleepsStep
<1>2. ClockPart!Span(ClockPart!TimeSpec(a)) = a
  <2>1. a \div ClockPart!Sec \in Nat
    BY <1>0, Quotients
  <2>2. (a \div ClockPart!Sec) * ClockPart!Sec \in Nat
    BY <1>0, <2>1, Products
  <2> QED
    BY <2>2 DEF ClockPart!Span, ClockPart!TimeSpec
<1>3. CASE ClockPart!LinuxApplMSecSleep(a)
  <2>1. ClockPart!SleepsMs("linux_appl", a, a, TRUE)
    BY <1>2, <1>3, Zenon DEF ClockPart!LinuxApplMSecSleep
  <2> QED
    BY <1>1, <2>1, AllEnough
<1>4. CASE ClockPart!SunOsMSecSleep(a)
  <2>1. ClockPart!SleepsMs("sun_os", a, a, TRUE)
    BY <1>2, <1>4, Zenon DEF ClockPart!SunOsMSecSleep
  <2> QED
    BY <1>1, <2>1, AllEnough
<1>5. CASE ClockPart!LinuxDrvMSecSleep(a)
  <2> DEFINE n == ClockPart!HzTicks(a)
  <2>1. n \in Nat /\ (~ClockPart!HzOverflows(a) => a - n * TickLen < TickLen)
    BY HzTicksOf, TicksOf
  <2>2. ClockPart!SleepsMs("linux_drv", a, ClockPart!Ticks(n), ~ClockPart!HzOverflows(a))
    BY <1>5 DEF ClockPart!LinuxDrvMSecSleep
  <2>3. ClockPart!Ticks(n) \in Nat
    BY <1>0, <2>1, TicksWait
  <2> HIDE DEF n
  <2>4. ~ClockPart!HzOverflows(a) /\ port = "linux_drv" => Enough(a * UsPerMs, ClockPart!Ticks(n))
    BY <1>0, <2>1, TicksEnough
  <2> QED
    BY <1>1, <2>2, <2>3, <2>4
<1>6. CASE ClockPart!VxworksMSecSleep(a)
  <2> DEFINE n == ClockPart!VxworksTicks(a)
  <2>1. n \in Nat /\ (ClockPart!VxworksFits(a) => a <= n * TickLen)
    BY VxworksTicksOf
  <2>2. ClockPart!SleepsMs("vxworks", a, ClockPart!Ticks(n), ClockPart!VxworksFits(a))
    BY <1>6 DEF ClockPart!VxworksMSecSleep
  <2>3. ClockPart!Ticks(n) \in Nat /\ ClockPart!VxworksFits(a) \in BOOLEAN
    BY <1>0, <2>1, TicksWait DEF ClockPart!VxworksFits
  <2> HIDE DEF n
  <2>4. ClockPart!VxworksFits(a) /\ port = "vxworks" => Enough(a * UsPerMs, ClockPart!Ticks(n))
    BY <1>0, <2>1, TicksEnough
  <2> QED
    BY <1>1, <2>2, <2>3, <2>4
<1>7. CASE ClockPart!EcosMSecSleep(a)
  <2> DEFINE n == ClockPart!EcosTicks(a)
  <2>1. ClockPart!MSecToTick(a) \in Nat /\ a - ClockPart!MSecToTick(a) * TickLen < TickLen
    BY TicksOf
  <2>2. n \in Nat /\ a - n * TickLen < TickLen
    BY <1>0, <2>1 DEF ClockPart!EcosTicks
  <2>3. ClockPart!SleepsMs("ecos", a, ClockPart!Ticks(n), TRUE)
    BY <1>7 DEF ClockPart!EcosMSecSleep
  <2> HIDE DEF n
  <2>4. ClockPart!Ticks(n) \in Nat
    BY <1>0, <2>2, TicksWait
  <2>5. port = "ecos" => Enough(a * UsPerMs, ClockPart!Ticks(n))
    BY <1>0, <2>2, TicksEnough
  <2> QED
    BY <1>1, <2>3, <2>4, <2>5
<1>8. CASE ClockPart!NucleusMSecSleep(a)
  <2> DEFINE n == ClockPart!MSecToTick(a)
  <2>1. n \in Nat /\ a - n * TickLen < TickLen
    BY TicksOf
  <2>2. ClockPart!SleepsMs("nucleus", a, ClockPart!Ticks(n), TRUE)
    BY <1>8 DEF ClockPart!NucleusMSecSleep
  <2> HIDE DEF n
  <2>3. ClockPart!Ticks(n) \in Nat
    BY <1>0, <2>1, TicksWait
  <2>4. port = "nucleus" => Enough(a * UsPerMs, ClockPart!Ticks(n))
    BY <1>0, <2>1, TicksEnough
  <2> QED
    BY <1>1, <2>2, <2>3, <2>4
<1>9. ASSUME NEW p, ClockPart!SleepsMs(p, a, a, TRUE) PROVE ClockTypes' /\ Dozing'
  BY <1>1, <1>9, AllEnough
<1>10. CASE ClockPart!RtemsMSecSleep(a) \/ ClockPart!XapiMSecSleep(a) \/ ClockPart!Win32MSecSleep(a)
  BY <1>9, <1>10 DEF ClockPart!RtemsMSecSleep, ClockPart!XapiMSecSleep, ClockPart!Win32MSecSleep
<1>11. CASE ClockPart!GenericSleeps(a * UsPerMs)
  <2>1. ClockPart!Sleeps("generic", a * UsPerMs, 0, TRUE)
    BY <1>11 DEF ClockPart!GenericSleeps
  <2>2. port = "generic"
    BY <2>1 DEF ClockPart!Sleeps
  <2> QED
    BY <1>0, <2>1, <2>2, SleepsStep
<1> QED
  BY <1>3, <1>4, <1>5, <1>6, <1>7, <1>8, <1>10, <1>11 DEF ClockPart!MSecSleep

\* (IFX_time_t) sec * 1000, where it fits.
LEMMA SecToMSecOf ==
  ASSUME Counting, NEW s \in Nat
  PROVE  /\ ClockPart!SecToMSec(s) \in Nat
         /\ ClockPart!SecFits(s) => ClockPart!SecToMSec(s) = s * ClockPart!Sec
<1> DEFINE m == s * ClockPart!Sec
<1>1. m \in Nat /\ Word \in Nat \ {0}
  BY Products DEF Counting
<1>2. ClockPart!SecToMSec(s) = m % Word /\ (ClockPart!SecFits(s) <=> m < Word)
  BY DEF ClockPart!SecToMSec, ClockPart!SecFits
<1> HIDE DEF m
<1>3. m % Word \in Nat /\ (m < Word => m % Word = m)
  BY <1>1, Quotients
<1> QED
  BY <1>2, <1>3 DEF m

LEMMA SecStep ==
  ASSUME Counting, ClockTypes, NEW s \in Nat, ClockPart!SecSleep(s)
  PROVE  ClockTypes' /\ Dozing'
<1> DEFINE a == s * ClockPart!Sec
<1>0. /\ now \in Nat /\ a \in Nat /\ a * UsPerMs \in Nat
      /\ TickLen \in Nat \ {0} /\ Hz \in Nat \ {0} /\ Word \in Nat \ {0}
  <2>1. a \in Nat
    BY Products DEF Counting
  <2> HIDE DEF a
  <2> QED
    BY <2>1, Products DEF ClockTypes, ClockPart!TypeOK, Counting
<1>1. ASSUME NEW p, NEW ms \in Nat, NEW fits \in BOOLEAN, ClockPart!SleepsSec(p, s, ms, fits),
             fits /\ port = p => Enough(a * UsPerMs, ms)
      PROVE  ClockTypes' /\ Dozing'
  <2>1. ClockPart!Sleeps(p, a * UsPerMs, ms, fits)
    BY <1>1 DEF ClockPart!SleepsSec
  <2>2. port = p
    BY <2>1 DEF ClockPart!Sleeps
  <2> HIDE DEF a
  <2> QED
    BY <1>0, <1>1, <2>1, <2>2, SleepsStep
<1>2. ClockPart!Span([tv_sec |-> s, tv_nsec |-> 0]) = a
  <2>1. ClockPart!Span([tv_sec |-> s, tv_nsec |-> 0]) = a + 0
    BY DEF ClockPart!Span
  <2> HIDE DEF a
  <2> QED
    BY <1>0, <2>1
<1>3. ClockPart!SecToMSec(s) \in Nat /\ (ClockPart!SecFits(s) => ClockPart!SecToMSec(s) = a)
  BY SecToMSecOf
<1>4. ClockPart!SecFits(s) \in BOOLEAN
  BY DEF ClockPart!SecFits
<1> HIDE DEF a
<1>5. ASSUME NEW p, NEW ms \in Nat, NEW fits \in BOOLEAN, ClockPart!SleepsSec(p, s, ms, fits),
             fits => ms = a
      PROVE  ClockTypes' /\ Dozing'
  BY <1>0, <1>1, <1>5, AllEnough
<1>6. CASE ClockPart!LinuxApplSecSleep(s)
  <2>1. ClockPart!SleepsSec("linux_appl", s, a, TRUE)
    BY <1>2, <1>6, Zenon DEF ClockPart!LinuxApplSecSleep
  <2> QED
    BY <1>0, <1>5, <2>1
<1>7. CASE ClockPart!SunOsSecSleep(s)
  <2>1. ClockPart!SleepsSec("sun_os", s, a, TRUE)
    BY <1>2, <1>7, Zenon DEF ClockPart!SunOsSecSleep
  <2> QED
    BY <1>0, <1>5, <2>1
<1>8. CASE ClockPart!VxworksSecSleep(s)
  <2> DEFINE n == (s * Hz) % Word
             fits == s * Hz < Word
  <2>1. s * Hz \in Nat
    BY <1>0, Products
  <2>2. n \in Nat /\ (fits => n = s * Hz)
    <3>1. ASSUME NEW h \in Nat PROVE h % Word \in Nat /\ (h < Word => h % Word = h)
      BY <1>0
    <3> QED
      BY <2>1, <3>1
  <2>3. s * Hz * TickLen = a
    <3>1. s * (Hz * TickLen) = s * Hz * TickLen
      BY <1>0
    <3> QED
      BY <3>1 DEF a, Counting
  <2>4. ClockPart!SleepsSec("vxworks", s, ClockPart!Ticks(n), fits)
    BY <1>8 DEF ClockPart!VxworksSecSleep
  <2>5. fits => a <= n * TickLen
    BY <1>0, <2>2, <2>3
  <2>6. fits \in BOOLEAN
    OBVIOUS
  <2> HIDE DEF n, fits
  <2>7. ClockPart!Ticks(n) \in Nat
    BY <1>0, <2>2, TicksWait
  <2>8. fits /\ port = "vxworks" => Enough(a * UsPerMs, ClockPart!Ticks(n))
    BY <1>0, <2>2, <2>5, TicksEnough
  <2> QED
    BY <1>1, <2>4, <2>6, <2>7, <2>8
<1>9. ASSUME NEW p \in {"ecos", "nucleus"},
             ClockPart!SleepsSec(p, s, ClockPart!Ticks(ClockPart!MSecToTick(ClockPart!SecToMSec(s))),
                                 ClockPart!SecFits(s))
      PROVE  ClockTypes' /\ Dozing'
  <2> DEFINE n == ClockPart!MSecToTick(ClockPart!SecToMSec(s))
  <2>1. n \in Nat /\ (ClockPart!SecFits(s) => a - n * TickLen < TickLen)
    BY <1>3, TicksOf
  <2> HIDE DEF n
  <2>2. ClockPart!Ticks(n) \in Nat
    BY <1>0, <2>1, TicksWait
  <2>3. ClockPart!SecFits(s) /\ port = p => Enough(a * UsPerMs, ClockPart!Ticks(n))
    BY <1>0, <2>1, TicksEnough
  <2>4. ClockPart!SleepsSec(p, s, ClockPart!Ticks(n), ClockPart!SecFits(s))
    BY <1>9 DEF n
  <2> QED
    BY <1>1, <1>4, <2>2, <2>3, <2>4
<1>10. CASE ClockPart!EcosSecSleep(s) \/ ClockPart!NucleusSecSleep(s)
  BY <1>9, <1>10 DEF ClockPart!EcosSecSleep, ClockPart!NucleusSecSleep
<1>11. ASSUME NEW p, ClockPart!SleepsSec(p, s, ClockPart!SecToMSec(s), ClockPart!SecFits(s))
       PROVE  ClockTypes' /\ Dozing'
  BY <1>3, <1>4, <1>5, <1>11
<1>12. CASE ClockPart!RtemsSecSleep(s) \/ ClockPart!XapiSecSleep(s) \/ ClockPart!Win32SecSleep(s)
  BY <1>11, <1>12 DEF ClockPart!RtemsSecSleep, ClockPart!XapiSecSleep, ClockPart!Win32SecSleep
<1>13. CASE ClockPart!GenericSleeps(s * ClockPart!Sec * UsPerMs)
  <2>1. ClockPart!Sleeps("generic", a * UsPerMs, 0, TRUE)
    BY <1>13 DEF ClockPart!GenericSleeps, a
  <2>2. port = "generic"
    BY <2>1 DEF ClockPart!Sleeps
  <2> QED
    BY <1>0, <2>1, <2>2, SleepsStep
<1> QED
  BY <1>6, <1>7, <1>8, <1>10, <1>12, <1>13 DEF ClockPart!SecSleep

LEMMA USecStep ==
  ASSUME Counting, ClockTypes, NEW us \in Nat, ClockPart!USecSleep(us)
  PROVE  ClockTypes' /\ Dozing'
<1>0. UsPerMs \in Nat \ {0} /\ Lost \in Nat \ {0} /\ Lost * UsPerMs \in Nat /\ UsPerMs <= Lost * UsPerMs
  <2>1. UsPerMs \in Nat \ {0} /\ Lost \in Nat \ {0}
    BY LostIs DEF Counting
  <2>2. (Lost - 1) * UsPerMs \in Nat /\ (Lost - 1) * UsPerMs = Lost * UsPerMs - UsPerMs
    BY <2>1
  <2> QED
    BY <2>1, <2>2, Products
<1>1. CASE ClockPart!LinuxDrvUSecSleep(us)
  <2> DEFINE ms == (us + UsPerMs - 1) \div UsPerMs
  <2>1. us + UsPerMs - 1 \in Nat
    BY <1>0
  <2>2. ms \in Nat /\ us + UsPerMs - 1 < ms * UsPerMs + UsPerMs
    BY <1>0, <2>1, Quotients
  <2>3. ClockPart!Sleeps("linux_drv", us, ms, TRUE)
    BY <1>1 DEF ClockPart!LinuxDrvUSecSleep
  <2> HIDE DEF ms
  <2>4. ms * UsPerMs \in Nat
    BY <1>0, <2>2, Products
  <2>5. Enough(us, ms)
    BY <1>0, <2>2, <2>4 DEF Enough
  <2> QED
    BY <2>2, <2>3, <2>5, SleepsStep
<1>2. CASE ClockPart!RtemsUSecSleep(us)
  <2> DEFINE ms == us \div UsPerMs
  <2>1. ms \in Nat /\ us < ms * UsPerMs + UsPerMs
    BY <1>0, Quotients
  <2>2. ClockPart!Sleeps("rtems", us, ms, TRUE)
    BY <1>2 DEF ClockPart!RtemsUSecSleep
  <2> HIDE DEF ms
  <2>3. ms * UsPerMs \in Nat
    BY <1>0, <2>1, Products
  <2>4. Enough(us, ms)
    BY <1>0, <2>1, <2>3 DEF Enough
  <2> QED
    BY <2>1, <2>2, <2>4, SleepsStep
<1>3. CASE ClockPart!Win32USecSleep(us)
  <2>1. ClockPart!Sleeps("win32", us, us, TRUE)
    BY <1>3 DEF ClockPart!Win32USecSleep
  <2>2. us <= us * UsPerMs /\ us * UsPerMs \in Nat
    <3>1. us * (UsPerMs - 1) \in Nat /\ us * (UsPerMs - 1) = us * UsPerMs - us
      BY <1>0
    <3> QED
      BY <1>0, <3>1, Products
  <2>3. Enough(us, us)
    BY <1>0, <2>2 DEF Enough
  <2> QED
    BY <2>1, <2>3, SleepsStep
<1>4. CASE ClockPart!GenericSleeps(us)
  <2>1. ClockPart!Sleeps("generic", us, 0, TRUE)
    BY <1>4 DEF ClockPart!GenericSleeps
  <2>2. port = "generic"
    BY <2>1 DEF ClockPart!Sleeps
  <2> QED
    BY <2>1, <2>2, SleepsStep
<1> QED
  BY <1>1, <1>2, <1>3, <1>4 DEF ClockPart!USecSleep

-----------------------------------------------------------------------------
(* Measuring: what the system counts is cut to an integer and then divided, and *)
(* its difference to the count of the reference time is right as long as the    *)
(* part that is cut off has stayed.                                           *)

\* What is counted in the unit u up to the time x, and what it is divided by.
Count(u, x) ==
  IF port \in {"linux_drv", "vxworks"} /\ u = "ms" THEN (x \div TickLen) * ClockPart!Sec
  ELSE IF port = "vxworks" THEN x \div TickLen
  ELSE IF port \in {"ecos", "nucleus"} THEN (x \div TickLen) * TickLen
  ELSE IF port \in {"linux_appl", "sun_os", "win32"} /\ u = "sec" THEN x \div ClockPart!Sec
  ELSE IF port = "win32" THEN (x \div ClockPart!Sec) * ClockPart!Sec
  ELSE x

Divisor(u) ==
  IF port \in {"linux_drv", "vxworks"} THEN Hz
  ELSE IF port \in {"ecos", "nucleus", "rtems"} /\ u = "sec" THEN ClockPart!Sec
  ELSE 1

\* What the call gives without a reference time.
Number(u, x) ==
  IF port = "generic" THEN 0
  ELSE (Count(u, x) % Word) \div Divisor(u)

Has(u) == u \in {"ms", "sec"} /\ (u = "sec" => port \notin {"linux_drv", "xapi"})

\* What the call gives with one.
Gives(u, ref) == IF u = "ms" THEN ClockPart!ElapsedMSec(ref) ELSE ClockPart!ElapsedSec(ref)

LEMMA CountOf ==
  ASSUME Counting, NEW u, NEW x \in Nat
  PROVE  Count(u, x) \in Nat /\ Divisor(u) \in Nat \ {0}
<1>1. /\ TickLen \in Nat \ {0} /\ ClockPart!Sec \in Nat \ {0} /\ Hz \in Nat \ {0}
      /\ x \div TickLen \in Nat /\ x \div ClockPart!Sec \in Nat
  BY Quotients DEF Counting
<1>2. /\ (x \div TickLen) * ClockPart!Sec \in Nat /\ (x \div TickLen) * TickLen \in Nat
      /\ (x \div ClockPart!Sec) * ClockPart!Sec \in Nat
  BY <1>1, Products
<1> QED
  BY <1>1, <1>2 DEF Count, Divisor

LEMMA NumberOf ==
  ASSUME Counting, NEW u, NEW x \in Nat
  PROVE  Number(u, x) \in 0 .. Word - 1
<1> DEFINE c == Count(u, x)
           d == Divisor(u)
<1>1. c \in Nat /\ d \in Nat \ {0} /\ Word \in Nat \ {0}
  BY CountOf DEF Counting
<1> HIDE DEF c, d
<1>2. c % Word \in 0 .. Word - 1
  BY <1>1
<1>3. ASSUME NEW a \in 0 .. Word - 1 PROVE a \div d \in 0 .. Word - 1
  <2>1. a \div d \in Nat /\ (a \div d) * d <= a
    BY <1>1, <1>3, Quotients
  <2>2. ASSUME NEW q \in Nat, q * d <= a PROVE q <= a
    <3>1. q * (d - 1) \in Nat /\ q * (d - 1) = q * d - q
      BY <1>1
    <3> QED
      BY <1>1, <1>3, <2>2, <3>1
  <2> QED
    BY <1>1, <1>3, <2>1, <2>2
<1> QED
  BY <1>1, <1>2, <1>3 DEF Number, c, d

\* All ports read their numbers so, and differ in how they subtract.
LEMMA Reads ==
  ASSUME Counting, now \in Nat, NEW u, Has(u), NEW ref \in Nat, port \in ClockPart!AllPorts
  PROVE  /\ port # "win32" => Gives(u, ref) \in {ClockPart!Distance(Number(u, now), ref),
                                                 ClockPart!Since(Number(u, now), ref)}
         /\ port = "win32" => Gives(u, ref) = ClockPart!Win32Since(Count(u, now), ref)
<1>1. ASSUME NEW a \in Nat PROVE (a % Word) \div 1 = a % Word
  BY <1>1 DEF Counting
<1>2. Count(u, now) \in Nat
  BY CountOf
<1>3. Divisor(u) = 1 /\ port # "generic" => Number(u, now) = Count(u, now) % Word
  BY <1>1, <1>2 DEF Number
<1> USE DEF Has, Gives, ClockPart!ElapsedMSec, ClockPart!ElapsedSec, Count, Divisor,
    ClockPart!TickCount, ClockPart!TicksAsMSec
<1>4. CASE port = "linux_appl"
  BY <1>3, <1>4 DEF ClockPart!LinuxApplElapsedMSec, ClockPart!LinuxApplElapsedSec
<1>5. CASE port = "sun_os"
  BY <1>3, <1>5 DEF ClockPart!SunOsElapsedMSec, ClockPart!SunOsElapsedSec
<1>6. CASE port = "linux_drv"
  BY <1>6 DEF Number, ClockPart!LinuxDrvElapsedMSec
<1>7. CASE port = "vxworks"
  BY <1>7 DEF Number, ClockPart!VxworksElapsedMSec, ClockPart!VxworksElapsedSec
<1>8. CASE port = "ecos"
  <2>1. CASE u = "ms"
    BY <1>3, <1>8, <2>1 DEF ClockPart!EcosElapsedMSec
  <2>2. CASE u = "sec"
    BY <1>8, <2>2 DEF Number, ClockPart!EcosElapsedSec
  <2> QED
    BY <2>1, <2>2
<1>9. CASE port = "nucleus"
  <2>1. CASE u = "ms"
    BY <1>3, <1>9, <2>1 DEF ClockPart!NucleusElapsedMSec
  <2>2. CASE u = "sec"
    BY <1>9, <2>2 DEF Number, ClockPart!NucleusElapsedSec
  <2> QED
    BY <2>1, <2>2
<1>10. CASE port = "rtems"
  <2>1. CASE u = "ms"
    BY <1>3, <1>10, <2>1 DEF ClockPart!RtemsElapsedMSec
  <2>2. CASE u = "sec"
    BY <1>10, <2>2 DEF Number, ClockPart!RtemsElapsedSec
  <2> QED
    BY <2>1, <2>2
<1>11. CASE port = "xapi"
  BY <1>3, <1>11 DEF ClockPart!XapiElapsedMSec
<1>12. CASE port = "win32"
  BY <1>12 DEF ClockPart!Win32ElapsedMSec, ClockPart!Win32ElapsedSec
<1>13. CASE port = "generic"
  BY <1>13 DEF Number, ClockPart!GenericElapsedMSec, ClockPart!GenericElapsedSec
<1> QED
  BY <1>4, <1>5, <1>6, <1>7, <1>8, <1>9, <1>10, <1>11, <1>12, <1>13
     DEF ClockPart!AllPorts, ClockPart!Posix, ClockPart!Ticking

\* Since the reference time was asked for, it is what was counted up to then.
Watched ==
  watch.unit # "none" =>
    Has(watch.unit) /\ watch.start \in 0 .. now /\ watch.ref = Number(watch.unit, watch.start)

LEMMA StartRead ==
  ASSUME Counting, port \in ClockPart!AllPorts, now \in Nat, NEW u \in {"ms", "sec"},
         ClockPart!StartWatch(u)
  PROVE  /\ watch' = [unit |-> u, ref |-> Number(u, now), start |-> now]
         /\ Has(u) /\ Number(u, now) \in 0 .. Word - 1
<1>1. Has(u)
  BY DEF Has, ClockPart!StartWatch
<1>2. Number(u, now) \in 0 .. Word - 1 /\ Number(u, now) \in Nat
  BY NumberOf DEF Counting
<1>3. ASSUME port # "win32" PROVE Gives(u, 0) = Number(u, now)
  <2>1. Gives(u, 0) \in {ClockPart!Distance(Number(u, now), 0), ClockPart!Since(Number(u, now), 0)}
    BY <1>1, <1>3, Reads
  <2> QED
    BY <1>2, <2>1 DEF ClockPart!Distance, ClockPart!Since
<1>4. ASSUME port = "win32" PROVE Gives(u, 0) = Number(u, now)
  <2>1. Count(u, now) \in Nat /\ Word \in Nat \ {0}
    BY CountOf DEF Counting
  <2>2. ASSUME NEW a \in Nat PROVE (a % Word) \div 1 = a % Word
    BY <2>1, <2>2
  <2>3. Number(u, now) = (Count(u, now) % Word) \div 1
    BY <1>4 DEF Number, Divisor
  <2>4. Gives(u, 0) = ClockPart!Win32Since(Count(u, now), 0)
    BY <1>1, <1>4, Reads
  <2> QED
    BY <2>1, <2>2, <2>3, <2>4 DEF ClockPart!Win32Since
<1>5. watch' = [unit |-> u, ref |-> Gives(u, 0), start |-> now]
  BY DEF ClockPart!StartWatch, Gives
<1> QED
  BY <1>1, <1>2, <1>3, <1>4, <1>5

LEMMA WatchedStep ==
  ASSUME Counting, port \in ClockPart!AllPorts, now \in Nat, Watched, ClockPart!Next
  PROVE  Watched'
<1>1. ASSUME UNCHANGED <<port, watch>>, now' \in Nat, now <= now' PROVE Watched'
  <2>1. watch' = watch /\ port' = port
    BY <1>1
  <2>2. Number(watch.unit, watch.start)' = Number(watch.unit, watch.start)
    BY <2>1 DEF Number, Count, Divisor
  <2>3. Has(watch.unit)' <=> Has(watch.unit)
    BY <2>1 DEF Has
  <2> QED
    BY <1>1, <2>1, <2>2, <2>3 DEF Watched
<1>2. ASSUME NEW u \in {"ms", "sec"}, ClockPart!StartWatch(u) PROVE Watched'
  <2>1. port' = port /\ now' = now
    BY <1>2 DEF ClockPart!StartWatch
  <2>2. watch' = [unit |-> u, ref |-> Number(u, now), start |-> now] /\ Has(u)
    BY <1>2, StartRead
  <2>3. watch'.unit = u /\ watch'.ref = Number(u, now) /\ watch'.start = now
    BY <2>2
  <2>4. Number(watch.unit, watch.start)' = Number(u, now)
    BY <2>1, <2>3 DEF Number, Count, Divisor
  <2>5. Has(watch.unit)' <=> Has(u)
    BY <2>1, <2>3 DEF Has
  <2> QED
    BY <2>1, <2>2, <2>3, <2>4, <2>5 DEF Watched
<1>3. \/ UNCHANGED <<port, watch>> /\ (now' = now \/ now' = now + 1)
      \/ \E u \in {"ms", "sec"} : ClockPart!StartWatch(u)
  BY DEF ClockPart!Next, ClockPart!Wake, ClockPart!Awakes, ClockPart!Cut, ClockPart!Interrupt,
     ClockPart!NanoSleep, ClockPart!Millisecond, ClockPart!MSecSleep, ClockPart!SecSleep, ClockPart!USecSleep,
     ClockPart!Sleeps, ClockPart!SleepsMs, ClockPart!SleepsSec, ClockPart!GenericSleeps,
     ClockPart!LinuxApplMSecSleep, ClockPart!LinuxApplSecSleep, ClockPart!SunOsMSecSleep,
     ClockPart!SunOsSecSleep, ClockPart!LinuxDrvMSecSleep, ClockPart!LinuxDrvUSecSleep,
     ClockPart!VxworksMSecSleep, ClockPart!VxworksSecSleep, ClockPart!EcosMSecSleep, ClockPart!EcosSecSleep,
     ClockPart!NucleusMSecSleep, ClockPart!NucleusSecSleep, ClockPart!RtemsUSecSleep,
     ClockPart!RtemsMSecSleep, ClockPart!RtemsSecSleep, ClockPart!XapiMSecSleep, ClockPart!XapiSecSleep,
     ClockPart!Win32USecSleep, ClockPart!Win32MSecSleep, ClockPart!Win32SecSleep
<1> QED
  BY <1>1, <1>2, <1>3

\* Two counts that differ in what is not cut off.
LEMMA RestsDiffer ==
  ASSUME NEW k \in Nat \ {0}, NEW a \in Nat, NEW b \in Nat, a \div k = b \div k
  PROVE  (b % k) - (a % k) = b - a
OBVIOUS

\* Two numbers of whole k are as far from each other as what they are in, but for one k.
LEMMA QuotientsDiffer ==
  ASSUME NEW k \in Nat \ {0}, NEW a \in Nat, NEW b \in Nat, a <= b
  PROVE  /\ a \div k <= b \div k
         /\ -k < (b \div k - a \div k) * k - (b - a) /\ (b \div k - a \div k) * k - (b - a) < k
<1> DEFINE p == a \div k
           q == b \div k
<1>1. p \in Nat /\ p * k <= a /\ a < p * k + k
  BY Quotients
<1>2. q \in Nat /\ q * k <= b /\ b < q * k + k
  BY Quotients
<1> HIDE DEF p, q
<1>3. (q - p) * k = q * k - p * k /\ (q + 1) * k = q * k + k /\ p * k \in Nat /\ q * k \in Nat
  BY <1>1, <1>2
<1>4. p * k < (q + 1) * k
  BY <1>1, <1>2, <1>3
<1>5. p < q + 1
  BY <1>1, <1>2, <1>4, ProductsLess
<1>6. p <= q
  BY <1>1, <1>2, <1>5
<1>7. -k < (q - p) * k - (b - a) /\ (q - p) * k - (b - a) < k
  BY <1>1, <1>2, <1>3
<1> QED
  BY <1>6, <1>7 DEF p, q

\* What differs by m whole k differs by m when it is divided.
LEMMA WholeDiffer ==
  ASSUME NEW k \in Nat \ {0}, NEW a \in Nat, NEW b \in Nat, NEW m \in Nat, b - a = m * k
  PROVE  b \div k - a \div k = m
<1> DEFINE p == a \div k
<1>1. p \in Nat /\ p * k <= a /\ a < p * k + k
  BY Quotients
<1> HIDE DEF p
<1>2. m * k \in Nat /\ p * k \in Nat /\ (p + m) * k = p * k + m * k
  BY <1>1
<1>3. (p + m) * k <= b /\ b < (p + m) * k + k
  BY <1>1, <1>2
<1>4. b \div k = p + m
  BY <1>1, <1>3, QuotientIs
<1>5. b \div k \in Int
  BY <1>1, <1>4
<1> QED
  BY <1>1, <1>4 DEF p

\* How far the count of an interval is from the time of it.
Astray(e) == e * ClockPart!Unit - (now - watch.start)

\* A number of the port that has not wrapped gives the difference of the counts.
LEMMA NumbersDiffer ==
  ASSUME Counting, Watched, port \in ClockPart!AllPorts, now \in Nat, port \notin {"generic", "win32"},
         watch.unit # "none", ~ClockPart!Wrapped
  PROVE  LET c == Count(watch.unit, watch.start) % Word
             e == Count(watch.unit, now) % Word
         IN /\ c \in Nat /\ e \in Nat /\ c <= e
            /\ e - c = Count(watch.unit, now) - Count(watch.unit, watch.start)
            /\ ClockPart!Elapsed = e \div Divisor(watch.unit) - c \div Divisor(watch.unit)
<1> DEFINE u == watch.unit
           s == watch.start
           a == Count(u, s)
           b == Count(u, now)
           d == Divisor(u)
<1>1. Has(u) /\ s \in Nat /\ s <= now /\ watch.ref = Number(u, s)
  BY DEF Watched
<1>2. a \in Nat /\ b \in Nat /\ d \in Nat \ {0} /\ Word \in Nat \ {0}
  BY <1>1, CountOf DEF Counting
<1>3. a <= b
  <2>1. /\ s \div TickLen <= now \div TickLen /\ s \div ClockPart!Sec <= now \div ClockPart!Sec
        /\ s \div TickLen \in Nat /\ now \div TickLen \in Nat
        /\ s \div ClockPart!Sec \in Nat /\ now \div ClockPart!Sec \in Nat
    BY <1>1, QuotientsDiffer, Quotients DEF Counting
  <2>2. ASSUME NEW p \in Nat, NEW q \in Nat, p <= q, NEW k \in Nat \ {0} PROVE p * k <= q * k
    BY <2>2, ProductsLess
  <2>3. /\ (s \div TickLen) * ClockPart!Sec <= (now \div TickLen) * ClockPart!Sec
        /\ (s \div TickLen) * TickLen <= (now \div TickLen) * TickLen
    BY <2>1, <2>2 DEF Counting
  <2> QED
    BY <1>1, <2>1, <2>3 DEF Count
<1>4. ASSUME NEW x \in Nat PROVE ClockPart!Counted(x) = Count(u, x)
  BY <1>1 DEF ClockPart!Counted, Count, Has, ClockPart!AllPorts, ClockPart!Posix, ClockPart!Ticking
<1>5. a \div Word = b \div Word
  BY <1>1, <1>4 DEF ClockPart!Wrapped
<1>6. ClockPart!Elapsed = Gives(u, Number(u, s))
  BY <1>1 DEF ClockPart!Elapsed, Gives
<1>7. /\ Number(u, s) = (a % Word) \div d /\ Number(u, now) = (b % Word) \div d
  BY DEF Number
<1> HIDE DEF a, b, d
<1>8. a % Word \in Nat /\ b % Word \in Nat /\ (b % Word) - (a % Word) = b - a
  <2>1. a % Word \in Nat /\ b % Word \in Nat
    BY <1>2
  <2>2. (b % Word) - (a % Word) = b - a
    BY <1>2, <1>5, RestsDiffer
  <2> QED
    BY <2>1, <2>2
<1>9. a % Word <= b % Word
  BY <1>2, <1>3, <1>8
<1>10. Number(u, s) <= Number(u, now) /\ Number(u, s) \in Nat /\ Number(u, now) \in Nat
  BY <1>2, <1>7, <1>8, <1>9, QuotientsDiffer, Quotients
<1>11. Gives(u, Number(u, s)) \in {ClockPart!Distance(Number(u, now), Number(u, s)),
                                   ClockPart!Since(Number(u, now), Number(u, s))}
  BY <1>1, <1>10, Reads
<1>12. Gives(u, Number(u, s)) = Number(u, now) - Number(u, s)
  <2> HIDE DEF u, s
  <2> QED
    BY <1>10, <1>11 DEF ClockPart!Distance, ClockPart!Since
<1> QED
  BY <1>6, <1>7, <1>8, <1>9, <1>12 DEF a, b, d, u, s

\* The count of whole ticks, in milliseconds, or of whole seconds.
LEMMA WholeCount ==
  ASSUME NEW k \in Nat \ {0}, NEW s \in Nat, NEW x \in Nat, s <= x
  PROVE  LET m == x \div k - s \div k
         IN /\ m \in Nat /\ -k < m * k - (x - s) /\ m * k - (x - s) < k
            /\ \A h \in Nat : (x \div k) * h - (s \div k) * h = m * h
<1> DEFINE p == s \div k
           q == x \div k
<1>1. p \in Nat /\ q \in Nat /\ p <= q
  BY Quotients, QuotientsDiffer
<1>2. -k < (q - p) * k - (x - s) /\ (q - p) * k - (x - s) < k
  BY QuotientsDiffer
<1> HIDE DEF p, q
<1>3. q - p \in Nat
  BY <1>1
<1>4. ASSUME NEW h \in Nat PROVE q * h - p * h = (q - p) * h
  BY <1>1, <1>4
<1> QED
  BY <1>2, <1>3, <1>4 DEF p, q

LEMMA RightUnwrapped ==
  ASSUME Counting, Watched, port \in ClockPart!AllPorts, now \in Nat, port \notin {"generic", "win32"},
         watch.unit # "none", ~ClockPart!Wrapped
  PROVE  ClockPart!Right
<1> DEFINE u == watch.unit
           s == watch.start
           c == Count(u, s) % Word
           e == Count(u, now) % Word
           L == TickLen
           S == ClockPart!Sec
           m == now \div L - s \div L
           E == ClockPart!Elapsed
<1>1. Has(u) /\ s \in Nat /\ s <= now
  BY DEF Watched
<1>2. L \in Nat \ {0} /\ Hz \in Nat \ {0} /\ S \in Nat \ {0} /\ S = Hz * L
  BY DEF Counting
<1>3. /\ c \in Nat /\ e \in Nat /\ c <= e /\ e - c = Count(u, now) - Count(u, s)
      /\ E = e \div Divisor(u) - c \div Divisor(u)
  BY NumbersDiffer
<1>4. /\ m \in Nat /\ -L < m * L - (now - s) /\ m * L - (now - s) < L
      /\ (now \div L) * S - (s \div L) * S = m * S /\ (now \div L) * L - (s \div L) * L = m * L
  <2> HIDE DEF u, s, L, S
  <2>1. /\ m \in Nat /\ -L < m * L - (now - s) /\ m * L - (now - s) < L
        /\ \A h \in Nat : (now \div L) * h - (s \div L) * h = m * h
    BY <1>1, <1>2, WholeCount
  <2> HIDE DEF m
  <2> QED
    BY <1>2, <2>1
<1>5. ASSUME -ClockPart!Grain < E * ClockPart!Unit - (now - s),
             E * ClockPart!Unit - (now - s) < ClockPart!Grain
      PROVE  ClockPart!Right
  BY <1>5 DEF ClockPart!Right
<1>6. /\ u = "ms" => ClockPart!Unit = 1
      /\ u = "sec" => ClockPart!Unit = S
  BY DEF ClockPart!Unit
<1>7. ASSUME NEW x \in Nat, NEW y \in Nat PROVE x \div 1 - y \div 1 = x - y
  BY <1>7
<1>8. e - c \in Nat
  BY <1>3
<1> HIDE DEF u, s, c, e, L, S, m, E
\* Milliseconds by the ticks that the second has.
<1>9. CASE port \in {"linux_drv", "vxworks"} /\ u = "ms"
  <2>1. Divisor(u) = Hz /\ e - c = m * S /\ ClockPart!Grain = L
    BY <1>3, <1>4, <1>9 DEF Divisor, Count, ClockPart!Grain, ClockPart!Ticking, u, S, L
  <2>2. m * S = (m * L) * Hz /\ m * L \in Nat
    BY <1>2, <1>4
  <2>3. e \div Hz - c \div Hz = m * L
    <3>1. e - c = (m * L) * Hz
      BY <2>1, <2>2
    <3> QED
      BY <1>2, <1>3, <2>2, <3>1, WholeDiffer
  <2>4. E = m * L /\ E * 1 = E
    BY <1>3, <2>1, <2>2, <2>3
  <2> QED
    BY <1>4, <1>5, <1>6, <1>9, <2>1, <2>4
\* Seconds by ticks.
<1>10. CASE port = "vxworks" /\ u = "sec"
  <2>1. Divisor(u) = Hz /\ e - c = m /\ ClockPart!Grain = S
    BY <1>3, <1>4, <1>10 DEF Divisor, Count, ClockPart!Grain, u, S, L, m
  <2>2. -Hz < E * Hz - m /\ E * Hz - m < Hz
    BY <1>2, <1>3, <2>1, QuotientsDiffer
  <2>3. E \in Int
    BY <1>2, <1>3, <2>1
  <2>4. -Hz + 1 <= E * Hz - m /\ E * Hz - m <= Hz - 1 /\ E * Hz \in Int
    BY <1>2, <1>4, <2>2, <2>3
  <2>5. ASSUME NEW a \in Int, NEW b \in Int, a <= b PROVE a * L <= b * L
    BY <1>2, <2>5
  <2>6. (-Hz + 1) * L <= (E * Hz - m) * L /\ (E * Hz - m) * L <= (Hz - 1) * L
    BY <1>2, <1>4, <2>4, <2>5
  <2>7. /\ (-Hz + 1) * L = -S + L /\ (Hz - 1) * L = S - L
        /\ (E * Hz - m) * L = E * S - m * L
    BY <1>2, <1>4, <2>3, <2>4
  <2>8. E * S \in Int /\ m * L \in Int
    BY <1>2, <1>4, <2>3
  <2>9. -S < E * S - (now - s) /\ E * S - (now - s) < S
    BY <1>1, <1>2, <1>4, <2>6, <2>7, <2>8
  <2> QED
    BY <1>5, <1>6, <1>10, <2>1, <2>9
<1>11. CASE port \in {"ecos", "nucleus"} /\ u = "ms"
  <2>1. Divisor(u) = 1 /\ e - c = m * L /\ ClockPart!Grain = L
    BY <1>3, <1>4, <1>11 DEF Divisor, Count, ClockPart!Grain, ClockPart!Ticking, u, S, L
  <2>2. E = m * L
    BY <1>3, <1>7, <2>1
  <2>3. E * 1 = E
    BY <1>2, <1>4, <2>2
  <2> QED
    BY <1>4, <1>5, <1>6, <1>11, <2>1, <2>2, <2>3
<1>12. CASE port \in {"ecos", "nucleus"} /\ u = "sec"
  <2>1. Divisor(u) = S /\ e - c = m * L /\ ClockPart!Grain = S + L
    BY <1>3, <1>4, <1>12 DEF Divisor, Count, ClockPart!Grain, u, S, L
  <2>2. -S < E * S - m * L /\ E * S - m * L < S
    BY <1>2, <1>3, <2>1, QuotientsDiffer
  <2>3. E * S \in Int /\ m * L \in Int
    BY <1>2, <1>3, <1>4, <2>1
  <2> QED
    BY <1>1, <1>2, <1>4, <1>5, <1>6, <1>12, <2>1, <2>2, <2>3
<1>13. CASE port \in {"linux_appl", "sun_os", "rtems", "xapi"} /\ u = "ms"
  <2>1. Divisor(u) = 1 /\ e - c = now - s /\ ClockPart!Grain = 1
    BY <1>3, <1>13 DEF Divisor, Count, ClockPart!Grain, ClockPart!Ticking, u
  <2>2. E = now - s
    BY <1>3, <1>7, <2>1
  <2> QED
    BY <1>1, <1>5, <1>6, <1>13, <2>1, <2>2
<1>14. CASE port \in {"linux_appl", "sun_os"} /\ u = "sec"
  <2>1. Divisor(u) = 1 /\ e - c = now \div S - s \div S /\ ClockPart!Grain = S
    BY <1>3, <1>14 DEF Divisor, Count, ClockPart!Grain, u, S
  <2>2. E = now \div S - s \div S
    BY <1>3, <1>7, <2>1
  <2>3. -S < E * S - (now - s) /\ E * S - (now - s) < S
    BY <1>1, <1>2, <2>2, QuotientsDiffer
  <2> QED
    BY <1>5, <1>6, <1>14, <2>1, <2>3
<1>15. CASE port = "rtems" /\ u = "sec"
  <2>1. Divisor(u) = S /\ e - c = now - s /\ ClockPart!Grain = S
    BY <1>3, <1>15 DEF Divisor, Count, ClockPart!Grain, u, S
  <2>2. -S < E * S - (e - c) /\ E * S - (e - c) < S
    BY <1>2, <1>3, <2>1, QuotientsDiffer
  <2> QED
    BY <1>5, <1>6, <1>15, <2>1, <2>2
<1>16. u \in {"ms", "sec"} /\ (u = "sec" => port \notin {"linux_drv", "xapi"})
  BY <1>1 DEF Has
<1> QED
  BY <1>9, <1>10, <1>11, <1>12, <1>13, <1>14, <1>15, <1>16
     DEF ClockPart!AllPorts, ClockPart!Posix, ClockPart!Ticking

\* On Windows the time is not cut, and a reference time is not in the future.
LEMMA SinceOf ==
  ASSUME NEW W \in Nat \ {0}, NEW a \in Nat, NEW b \in Nat, a <= b, b - a < W
  PROVE  (b - (a % W)) % W = b - a
<1> DEFINE q == a \div W
           r == a % W
<1>1. q \in Nat /\ r \in Nat /\ a = q * W + r
  <2>1. a = (a \div W) * W + (a % W)
    OBVIOUS
  <2> QED
    BY <2>1, Quotients
<1> HIDE DEF q, r
<1>2. b - r = q * W + (b - a) /\ q * W \in Nat
  BY <1>1
<1>3. ASSUME NEW d \in 0 .. W - 1 PROVE (q * W + d) % W = d
  BY <1>1, <1>3
<1>4. b - a \in 0 .. W - 1
  OBVIOUS
<1>5. (q * W + (b - a)) % W = b - a
  BY <1>3, <1>4
<1> QED
  BY <1>2, <1>5 DEF r

LEMMA RightWindows ==
  ASSUME Counting, Watched, now \in Nat, port = "win32", watch.unit # "none",
         (now - watch.start) \div ClockPart!Unit < Word - ClockPart!Sec
  PROVE  ClockPart!Right
<1> DEFINE u == watch.unit
           s == watch.start
           S == ClockPart!Sec
           a == Count(u, s)
           b == Count(u, now)
           m == now \div S - s \div S
           U == ClockPart!Unit
<1>1. Has(u) /\ s \in Nat /\ s <= now /\ watch.ref = Number(u, s) /\ u \in {"ms", "sec"}
  BY DEF Watched, Has
<1>2. S \in Nat \ {0} /\ Word \in Nat \ {0} /\ a \in Nat /\ b \in Nat
  BY <1>1, CountOf DEF Counting
<1>3. Number(u, s) = a % Word
  <2>1. ASSUME NEW x \in Nat PROVE (x % Word) \div 1 = x % Word
    BY <1>2, <2>1
  <2>2. Number(u, s) = (a % Word) \div 1
    BY DEF Number, Divisor
  <2> HIDE DEF a
  <2> QED
    BY <1>2, <2>1, <2>2
<1>4. ClockPart!Elapsed = Gives(u, Number(u, s))
  BY <1>1 DEF ClockPart!Elapsed, Gives
<1>5. Gives(u, Number(u, s)) = ClockPart!Win32Since(b, a % Word)
  <2>1. a % Word \in Nat
    BY <1>2, Quotients
  <2> QED
    BY <1>1, <1>3, <2>1, Reads DEF ClockPart!AllPorts
<1>6. /\ U \in {1, S} /\ (u = "ms" => U = 1) /\ (u = "sec" => U = S)
      /\ ClockPart!Grain = S
  BY <1>1 DEF ClockPart!Unit, ClockPart!Grain
<1>7. m \in Nat /\ -S < m * S - (now - s) /\ m * S - (now - s) < S
      /\ (now \div S) * S - (s \div S) * S = m * S
  <2> HIDE DEF u, s, S
  <2>1. /\ m \in Nat /\ -S < m * S - (now - s) /\ m * S - (now - s) < S
        /\ \A h \in Nat : (now \div S) * h - (s \div S) * h = m * h
    BY <1>1, <1>2, WholeCount
  <2> HIDE DEF m
  <2> QED
    BY <1>2, <2>1
<1>8. (u = "ms" => b - a = m * S) /\ (u = "sec" => b - a = m)
  BY <1>7 DEF Count
<1> HIDE DEF u, s, S, a, b, m, U
\* The wrap is not reached.
<1>9. a <= b /\ b - a < Word
  <2>1. CASE u = "ms"
    <3>1. (now - s) \div 1 = now - s
      BY <1>1
    <3>2. now - s < Word - S
      BY <1>6, <2>1, <3>1 DEF u, s, S, U
    <3>3. m * S \in Nat
      BY <1>2, <1>7, Products
    <3> QED
      BY <1>1, <1>2, <1>7, <1>8, <2>1, <3>2, <3>3
  <2>2. CASE u = "sec"
    <3> DEFINE k == (now - s) \div S
    <3>1. now - s \in Nat
      BY <1>1
    <3>2. k \in Nat /\ now - s < k * S + S
      BY <1>2, <3>1, Quotients
    <3>3. k < Word - S
      BY <1>6, <2>2 DEF u, s, S, U
    <3> HIDE DEF k
    <3>4. (k + 2) * S = k * S + S + S /\ m * S \in Nat
      BY <1>2, <1>7, <3>2
    <3>5. m * S < (k + 2) * S
      BY <1>1, <1>2, <1>7, <3>2, <3>4
    <3>6. m < k + 2
      BY <1>2, <1>7, <3>2, <3>5, ProductsLess
    <3> QED
      BY <1>2, <1>7, <1>8, <2>2, <3>2, <3>3, <3>6
  <2> QED
    BY <1>1, <2>1, <2>2
<1>10. ClockPart!Win32Since(b, a % Word) = b - a
  <2> DEFINE r == a % Word
  <2>1. r \in Nat /\ r <= a
    BY <1>2
  <2>2. (b - r) % Word = b - a
    BY <1>2, <1>9, SinceOf
  <2> HIDE DEF r
  <2>3. ClockPart!Signed(r) <= r
    BY <1>2, <2>1 DEF ClockPart!Signed
  <2>4. ~(ClockPart!Signed(r) > b)
    BY <1>2, <1>9, <2>1, <2>3 DEF ClockPart!Signed
  <2> QED
    BY <1>2, <2>1, <2>2, <2>4 DEF ClockPart!Win32Since, r
<1>11. ClockPart!Elapsed = b - a
  BY <1>4, <1>5, <1>10
<1>12. ClockPart!Elapsed * U = m * S
  BY <1>1, <1>2, <1>6, <1>7, <1>8, <1>11
<1> QED
  BY <1>6, <1>7, <1>12 DEF ClockPart!Right, s, U

\* A sleep is over when the system has let the thread sleep all it has been asked for.
LEMMA DozingStep ==
  ASSUME ClockPart!PortClockAssumption, Counting, ClockTypes, Dozing, ClockPart!Next
  PROVE  ClockTypes' /\ Dozing' /\ ClockPart!SleepsNearly
<1>0. MSecs \subseteq Nat /\ Secs \subseteq Nat /\ USecs \subseteq Nat
  BY DEF ClockPart!PortClockAssumption
<1>1. ASSUME ClockPart!Wakes PROVE ClockPart!SleepsNearly
  <2>1. ASSUME exact, left = 0, port # "generic"
        PROVE  asked - slept * UsPerMs < Lost * UsPerMs
    BY <1>1, <2>1 DEF Dozing, Enough, ClockPart!Wakes, ClockTypes, ClockPart!TypeOK
  <2> QED
    BY <2>1 DEF ClockPart!SleepsNearly, Lost
<1>2. ClockPart!SleepsNearly
  BY <1>1 DEF ClockPart!SleepsNearly
<1>3. ASSUME NEW t0 \in MSecs, ClockPart!MSecSleep(t0) PROVE ClockTypes' /\ Dozing'
  BY <1>0, <1>3, MSecStep
<1>4. ASSUME NEW t0 \in Secs, ClockPart!SecSleep(t0) PROVE ClockTypes' /\ Dozing'
  BY <1>0, <1>4, SecStep
<1>5. ASSUME NEW t0 \in USecs, ClockPart!USecSleep(t0) PROVE ClockTypes' /\ Dozing'
  BY <1>0, <1>5, USecStep
<1>6. ASSUME ClockPart!Awakes PROVE ClockTypes' /\ Dozing'
  BY <1>6 DEF ClockPart!Awakes, ClockTypes, ClockPart!TypeOK, Dozing
<1>7. ASSUME ClockPart!Interrupt \/ ClockPart!NanoSleep PROVE ClockTypes' /\ Dozing'
  <2>1. /\ UNCHANGED <<port, now, asked, exact, left, slept, watch>>
        /\ pc # "awake" /\ pc' \in {"asleep", "interrupted"}
    BY <1>7 DEF ClockPart!Interrupt, ClockPart!NanoSleep
  <2>2. ClockTypes'
    BY <2>1 DEF ClockTypes, ClockPart!TypeOK
  <2>3. (Enough(asked, slept + left))' <=> Enough(asked, slept + left)
    BY <2>1 DEF Enough, Lost, ClockPart!Short
  <2> QED
    BY <2>1, <2>2, <2>3 DEF Dozing
<1>8. ASSUME ClockPart!Millisecond PROVE ClockTypes' /\ Dozing'
  <2>1. /\ UNCHANGED <<port, pc, asked, exact, watch>> /\ now \in 0 .. MaxNow /\ MaxNow \in Nat
        /\ now < MaxNow /\ now' = now + 1 /\ left \in Nat /\ slept \in Nat
        /\ \/ left > 0 /\ left' = left - 1 /\ slept' = slept + 1
           \/ left' = left /\ slept' = slept
    BY <1>8 DEF ClockPart!Millisecond, ClockTypes, ClockPart!TypeOK, ClockPart!PortClockAssumption
  <2>2. now' \in 0 .. MaxNow /\ left' \in Nat /\ slept' \in Nat /\ slept' + left' = slept + left
    BY <2>1
  <2>3. ClockTypes'
    BY <2>1, <2>2 DEF ClockTypes, ClockPart!TypeOK
  <2>4. (Enough(asked, slept + left))' <=> Enough(asked, slept + left)
    BY <2>1, <2>2 DEF Enough, Lost, ClockPart!Short
  <2> QED
    BY <2>1, <2>3, <2>4 DEF Dozing
<1>9. ASSUME NEW u \in {"ms", "sec"}, ClockPart!StartWatch(u) PROVE ClockTypes' /\ Dozing'
  <2>1. UNCHANGED <<port, now, pc, asked, exact, left, slept>>
    BY <1>9 DEF ClockPart!StartWatch
  <2>2. ClockTypes'
    <3>1. port \in ClockPart!AllPorts /\ now \in Nat /\ now \in 0 .. MaxNow
      BY DEF ClockTypes, ClockPart!TypeOK, ClockPart!AllPorts, ClockPart!Posix, ClockPart!Ticking
    <3>2. watch' = [unit |-> u, ref |-> Number(u, now), start |-> now] /\ Number(u, now) \in 0 .. Word - 1
      BY <1>9, <3>1, StartRead
    <3>3. watch' \in [unit : {"none", "ms", "sec"}, ref : 0 .. Word - 1, start : 0 .. MaxNow]
      BY <1>9, <3>1, <3>2
    <3> QED
      BY <2>1, <3>3 DEF ClockTypes, ClockPart!TypeOK
  <2>3. (Enough(asked, slept + left))' <=> Enough(asked, slept + left)
    BY <2>1 DEF Enough, Lost, ClockPart!Short
  <2> QED
    BY <2>1, <2>2, <2>3 DEF Dozing
<1> QED
  BY <1>2, <1>3, <1>4, <1>5, <1>6, <1>7, <1>8, <1>9
     DEF ClockPart!Next, ClockPart!Wake, ClockPart!Cut

Clocked == ClockTypes /\ Dozing /\ Watched

LEMMA ClockInit ==
  ASSUME ClockPart!PortClockAssumption, ClockPart!Init
  PROVE  Clocked
BY DEF ClockPart!PortClockAssumption, ClockPart!Init, Clocked, ClockTypes, ClockPart!TypeOK,
   ClockPart!None, Dozing, Watched

LEMMA ClockStep ==
  ASSUME ClockPart!PortClockAssumption, Clocked, ClockPart!Next
  PROVE  Clocked' /\ ClockPart!SleepsNearly
<1>1. Counting /\ port \in ClockPart!AllPorts /\ now \in Nat
  BY CountsTime DEF Clocked, ClockTypes, ClockPart!TypeOK, ClockPart!AllPorts, ClockPart!Posix,
     ClockPart!Ticking
<1> QED
  BY <1>1, DozingStep, WatchedStep DEF Clocked

LEMMA ClockRight ==
  ASSUME ClockPart!PortClockAssumption, Clocked
  PROVE  ClockPart!ElapsedRight
<1>1. Counting /\ port \in ClockPart!AllPorts /\ now \in Nat
  BY CountsTime DEF Clocked, ClockTypes, ClockPart!TypeOK, ClockPart!AllPorts, ClockPart!Posix,
     ClockPart!Ticking
<1> QED
  BY <1>1, RightUnwrapped, RightWindows DEF Clocked, ClockPart!ElapsedRight, ClockPart!Measures

-----------------------------------------------------------------------------
(* Counting: the calls a thread is in.  A call for a tick is always inside of    *)
(* one that searches.                                                         *)

LEMMA Replaced ==
  ASSUME NEW S, NEW s \in Seq(S), s # << >>, NEW c \in S
  PROVE  LET r == <<c>> \o Tail(s)
         IN r \in Seq(S) /\ Len(r) = Len(s) /\ r[1] = c /\ (Len(s) > 1 => r[Len(s)] = s[Len(s)])
OBVIOUS

LEMMA TailOf ==
  ASSUME NEW S, NEW s \in Seq(S), s # << >>
  PROVE  /\ Tail(s) \in Seq(S) /\ Len(s) \in Nat \ {0} /\ Len(Tail(s)) = Len(s) - 1
         /\ \A i \in 1 .. Len(s) - 1 : Tail(s)[i] = s[i + 1]
OBVIOUS

LEMMA Pushed ==
  ASSUME NEW S, NEW s \in Seq(S), s # << >>, NEW n \in S, NEW c \in S
  PROVE  LET r == <<n, c>> \o Tail(s)
         IN r \in Seq(S) /\ Len(r) = Len(s) + 1
            /\ r[Len(r)] = IF Len(s) = 1 THEN c ELSE s[Len(s)]
<1> DEFINE q == Tail(s)
<1>1. /\ q \in Seq(S) /\ Len(s) \in Nat \ {0} /\ Len(q) = Len(s) - 1
      /\ \A i \in 1 .. Len(s) - 1 : q[i] = s[i + 1]
  BY TailOf
<1> HIDE DEF q
<1> DEFINE r == <<n, c>> \o q
<1>2. r \in Seq(S) /\ Len(r) = Len(s) + 1 /\ r[2] = c /\ \A i \in 1 .. Len(q) : r[i + 2] = q[i]
  BY <1>1
<1> HIDE DEF r
<1>3. Len(s) # 1 => r[Len(s) - 1 + 2] = q[Len(s) - 1] /\ q[Len(s) - 1] = s[Len(s) - 1 + 1]
  BY <1>1, <1>2
<1>4. Len(s) - 1 + 2 = Len(s) + 1 /\ Len(s) - 1 + 1 = Len(s)
  BY <1>1
<1>5. r[Len(r)] = IF Len(s) = 1 THEN c ELSE s[Len(s)]
  BY <1>1, <1>2, <1>3, <1>4
<1> QED
  BY <1>2, <1>5 DEF r, q

LEMMA Popped ==
  ASSUME NEW S, NEW s \in Seq(S), Len(s) > 1, NEW c \in S
  PROVE  LET r == <<c>> \o Tail(Tail(s))
         IN r \in Seq(S) /\ Len(r) = Len(s) - 1
            /\ r[Len(r)] = IF Len(s) = 2 THEN c ELSE s[Len(s)]
<1> DEFINE q == Tail(s)
<1>1. /\ q \in Seq(S) /\ Len(s) \in Nat \ {0} /\ Len(q) = Len(s) - 1
      /\ \A i \in 1 .. Len(s) - 1 : q[i] = s[i + 1]
  <2>1. s # << >>
    OBVIOUS
  <2> QED
    BY <2>1, TailOf
<1> HIDE DEF q
<1>2. q # << >>
  BY <1>1
<1> DEFINE r == <<c>> \o Tail(q)
<1>3. r \in Seq(S) /\ Len(r) = Len(q) /\ r[1] = c /\ (Len(q) > 1 => r[Len(q)] = q[Len(q)])
  BY <1>1, <1>2, Replaced
<1> HIDE DEF r
<1>4. Len(s) # 2 => q[Len(s) - 1] = s[Len(s) - 1 + 1]
  BY <1>1
<1>5. Len(s) - 1 + 1 = Len(s)
  BY <1>1
<1>6. r[Len(r)] = IF Len(s) = 2 THEN c ELSE s[Len(s)]
  BY <1>1, <1>3, <1>4, <1>5
<1> QED
  BY <1>1, <1>3, <1>6 DEF r, q

\* The outermost call is not for a tick.
Outer(s) == s # << >> => s[Len(s)].wish # "tick"

LoopTypes ==
  /\ port \in {"ecos", "vxworks", "nucleus", "xapi"} /\ speed \in Speeds
  /\ delayLoop \in Nat /\ clean \in BOOLEAN
  /\ stack \in [Counters -> Seq(LoopPart!Call)] /\ \A x \in Counters : Outer(stack[x])

\* The calls of one thread change.
LEMMA StackTypes ==
  ASSUME LoopTypes, NEW x \in Counters, NEW r \in Seq(LoopPart!Call), Outer(r),
         stack' = [stack EXCEPT ![x] = r], port' = port, speed' = speed,
         delayLoop' \in Nat, clean' \in BOOLEAN
  PROVE  LoopTypes'
<1>1. stack' \in [Counters -> Seq(LoopPart!Call)]
  BY DEF LoopTypes
<1>2. ASSUME NEW y \in Counters PROVE Outer(stack'[y])
  BY DEF LoopTypes
<1> QED
  BY <1>1, <1>2 DEF LoopTypes

\* A thread goes on in the same call.
LEMMA GoesTypes ==
  ASSUME LoopTypes, NEW x \in Counters, LoopPart!Inside(x), NEW c \in LoopPart!Call,
         c.wish = LoopPart!Top(x).wish, LoopPart!Goes(x, c), port' = port, speed' = speed,
         delayLoop' \in Nat, clean' \in BOOLEAN
  PROVE  LoopTypes'
<1> DEFINE s == stack[x]
           r == <<c>> \o Tail(s)
<1>1. s \in Seq(LoopPart!Call) /\ s # << >> /\ Outer(s) /\ s[1].wish = c.wish
  BY DEF LoopTypes, LoopPart!Inside, LoopPart!Top
<1>2. stack' = [stack EXCEPT ![x] = r]
  BY DEF LoopPart!Goes, LoopTypes
<1> HIDE DEF s
<1>3. r \in Seq(LoopPart!Call) /\ Len(r) = Len(s) /\ r[1] = c /\ (Len(s) > 1 => r[Len(s)] = s[Len(s)])
  BY <1>1, Replaced
<1>4. Len(s) \in Nat /\ Len(s) # 0
  BY <1>1
<1> HIDE DEF r
<1>5. Outer(r)
  BY <1>1, <1>3, <1>4 DEF Outer
<1> QED
  BY <1>2, <1>3, <1>5, StackTypes

LEMMA MeasuresTypes ==
  ASSUME LoopTypes, NEW x \in Counters, LoopPart!Inside(x), NEW place \in LoopPart!Steps,
         LoopPart!Measures(x, place), LoopPart!Keep
  PROVE  LoopTypes'
<1> DEFINE s == stack[x]
           n == LoopPart!Nested("tick")
           c == [LoopPart!Top(x) EXCEPT !.at = place]
           r == <<n, c>> \o Tail(s)
<1>1. s \in Seq(LoopPart!Call) /\ s # << >> /\ Outer(s) /\ s[1] \in LoopPart!Call
  BY DEF LoopTypes, LoopPart!Inside
<1>2. n \in LoopPart!Call /\ c \in LoopPart!Call /\ c.wish = s[1].wish
  BY <1>1 DEF LoopPart!Call, LoopPart!Nested, LoopPart!Top, LoopPart!Steps
<1>3. stack' = [stack EXCEPT ![x] = r] /\ delayLoop' = delayLoop
  BY DEF LoopPart!Measures, LoopTypes
<1> HIDE DEF s, n, c
<1>4. r \in Seq(LoopPart!Call) /\ Len(r) = Len(s) + 1 /\ r[Len(r)] = IF Len(s) = 1 THEN c ELSE s[Len(s)]
  BY <1>1, <1>2, Pushed
<1>5. Len(s) \in Nat
  BY <1>1
<1> HIDE DEF r
<1>6. Outer(r)
  BY <1>1, <1>2, <1>4, <1>5 DEF Outer
<1> QED
  BY <1>3, <1>4, <1>6, StackTypes DEF LoopPart!Keep, LoopTypes

LEMMA CountTypes ==
  ASSUME LoopTypes, NEW x \in Counters, LoopPart!Count(x)
  PROVE  LoopTypes'
<1> DEFINE s == stack[x]
<1>1. s \in Seq(LoopPart!Call) /\ s # << >> /\ Outer(s) /\ Len(s) \in Nat \ {0}
  BY DEF LoopTypes, LoopPart!Inside, LoopPart!Count, LoopPart!At
<1>2. port' = port /\ speed' = speed /\ delayLoop' \in Nat /\ clean' \in BOOLEAN
  BY DEF LoopPart!Count, LoopTypes, LoopPart!LongEnough
<1>3. CASE LoopPart!Top(x).wish = "tick"
  <2>1. PICK moved \in BOOLEAN :
          stack' = [stack EXCEPT ![x] = <<[s[2] EXCEPT !.moved = moved]>> \o Tail(Tail(s))]
    BY <1>3 DEF LoopPart!Count, LoopTypes
  <2> DEFINE c == [s[2] EXCEPT !.moved = moved]
             r == <<c>> \o Tail(Tail(s))
  <2>2. Len(s) > 1
    BY <1>1, <1>3 DEF Outer, LoopPart!Top
  <2>3. s[2] \in LoopPart!Call
    BY <1>1, <2>2
  <2>4. c \in LoopPart!Call /\ c.wish = s[2].wish
    BY <2>3 DEF LoopPart!Call
  <2> HIDE DEF s, c
  <2>5. r \in Seq(LoopPart!Call) /\ Len(r) = Len(s) - 1 /\ r[Len(r)] = IF Len(s) = 2 THEN c ELSE s[Len(s)]
    BY <1>1, <2>2, <2>4, Popped
  <2>6. stack' = [stack EXCEPT ![x] = r]
    BY <2>1 DEF c
  <2> HIDE DEF r
  <2>7. Outer(r)
    BY <1>1, <2>4, <2>5 DEF Outer
  <2> QED
    BY <1>2, <2>5, <2>6, <2>7, StackTypes
<1>4. CASE LoopPart!Top(x).wish # "tick"
  <2>1. stack' = [stack EXCEPT ![x] = << >>] /\ Outer(<< >>) /\ << >> \in Seq(LoopPart!Call)
    BY <1>4 DEF LoopPart!Count, Outer
  <2> QED
    BY <1>2, <2>1, StackTypes
<1> QED
  BY <1>3, <1>4

LEMMA LoopTypesStep ==
  ASSUME LoopTypes, LoopPart!Next
  PROVE  LoopTypes'
<1>1. ASSUME NEW x \in Counters, LoopPart!Inside(x)
      PROVE  /\ LoopPart!Top(x) \in LoopPart!Call
             /\ \A p \in LoopPart!Steps : [LoopPart!Top(x) EXCEPT !.at = p] \in LoopPart!Call
  <2>1. LoopPart!Top(x) \in LoopPart!Call
    BY <1>1 DEF LoopTypes, LoopPart!Top, LoopPart!Inside
  <2> QED
    BY <2>1 DEF LoopPart!Call
<1>2. ASSUME NEW x \in Counters, LoopPart!Inside(x), NEW p \in LoopPart!Steps, LoopPart!To(x, p),
             port' = port, speed' = speed, delayLoop' \in Nat, clean' \in BOOLEAN
      PROVE  LoopTypes'
  <2> DEFINE c == [LoopPart!Top(x) EXCEPT !.at = p]
  <2>1. c \in LoopPart!Call /\ c.wish = LoopPart!Top(x).wish
    BY <1>1, <1>2 DEF LoopPart!Call
  <2>2. LoopPart!Goes(x, c)
    BY <1>2 DEF LoopPart!To
  <2> HIDE DEF c
  <2> QED
    BY <1>2, <2>1, <2>2, GoesTypes
<1>3. ASSUME NEW x \in Counters, LoopPart!Step(x) PROVE LoopTypes'
  <2> DEFINE c == LoopPart!Top(x)
  <2>1. LoopPart!Inside(x)
    BY <1>3 DEF LoopPart!Step, LoopPart!Look, LoopPart!Begin, LoopPart!Test, LoopPart!Shift,
       LoopPart!Halve, LoopPart!AtLeastFour, LoopPart!Quarter, LoopPart!TestAgain, LoopPart!StepAgain,
       LoopPart!Count, LoopPart!At
  <2>2. c \in LoopPart!Call
    BY <1>1, <2>1
  <2>3. delayLoop \in Nat /\ clean \in BOOLEAN
    BY DEF LoopTypes
  <2>4. CASE LoopPart!Look(x)
    BY <1>2, <2>1, <2>3, <2>4 DEF LoopPart!Look, LoopPart!Steps
  <2>5. CASE LoopPart!Begin(x)
    <3> DEFINE e == [c EXCEPT !.at = "test", !.searched = TRUE]
    <3>1. e \in LoopPart!Call /\ e.wish = c.wish
      BY <2>2 DEF LoopPart!Call, LoopPart!Steps
    <3>2. LoopPart!Goes(x, e) /\ LoopPart!Keep /\ delayLoop' = 1
      BY <2>5 DEF LoopPart!Begin
    <3> HIDE DEF e
    <3> QED
      BY <2>1, <2>3, <3>1, <3>2, GoesTypes DEF LoopPart!Keep
  <2>6. CASE LoopPart!Test(x) \/ LoopPart!TestAgain(x)
    BY <1>2, <2>1, <2>3, <2>6, MeasuresTypes
       DEF LoopPart!Test, LoopPart!TestAgain, LoopPart!Keep, LoopPart!Steps
  <2>7. CASE LoopPart!Shift(x)
    BY <1>2, <2>1, <2>3, <2>7 DEF LoopPart!Shift, LoopPart!Keep, LoopPart!Steps
  <2>8. CASE LoopPart!Halve(x)
    <3> DEFINE e == [c EXCEPT !.at = "four", !.max = delayLoop \div 2, !.moved = FALSE]
    <3>1. e \in LoopPart!Call /\ e.wish = c.wish
      <4>1. delayLoop \div 2 \in Nat
        BY <2>3
      <4>2. ASSUME NEW a \in LoopPart!Call, NEW h \in Nat
            PROVE  LET b == [a EXCEPT !.at = "four", !.max = h, !.moved = FALSE]
                   IN b \in LoopPart!Call /\ b.wish = a.wish
        BY <4>2 DEF LoopPart!Call, LoopPart!Steps
      <4> QED
        BY <2>2, <4>1, <4>2
    <3>2. LoopPart!Goes(x, e) /\ LoopPart!Keep /\ delayLoop' = delayLoop
      BY <2>8 DEF LoopPart!Halve
    <3> HIDE DEF e
    <3> QED
      BY <2>1, <2>3, <3>1, <3>2, GoesTypes DEF LoopPart!Keep
  <2>9. CASE LoopPart!AtLeastFour(x)
    BY <1>2, <2>1, <2>3, <2>9 DEF LoopPart!AtLeastFour, LoopPart!Keep, LoopPart!Steps
  <2>10. CASE LoopPart!Quarter(x)
    <3>1. delayLoop \div 4 \in Nat
      BY <2>3
    <3> QED
      BY <1>2, <2>1, <2>3, <2>10, <3>1 DEF LoopPart!Quarter, LoopPart!Keep, LoopPart!Steps
  <2>11. CASE LoopPart!StepAgain(x)
    BY <1>2, <2>1, <2>3, <2>11 DEF LoopPart!StepAgain, LoopPart!Keep, LoopPart!Steps
  <2>12. CASE LoopPart!Count(x)
    BY <2>12, CountTypes
  <2> QED
    BY <1>3, <2>4, <2>5, <2>6, <2>7, <2>8, <2>9, <2>10, <2>11, <2>12 DEF LoopPart!Step
<1>4. ASSUME NEW x \in Counters, NEW p, NEW w \in {"some", "all"}, LoopPart!USecSleep(p, x, w)
      PROVE  LoopTypes'
  <2> DEFINE n == LoopPart!Nested(w)
  <2>1. n \in LoopPart!Call /\ n.wish # "tick"
    BY <1>4 DEF LoopPart!Nested, LoopPart!Call, LoopPart!Steps
  <2>2. /\ stack' = [stack EXCEPT ![x] = <<n>>] /\ port' = port /\ speed' = speed
        /\ delayLoop' = delayLoop /\ clean' \in BOOLEAN
    BY <1>4 DEF LoopPart!USecSleep, LoopTypes
  <2> HIDE DEF n
  <2>3. <<n>> \in Seq(LoopPart!Call) /\ Outer(<<n>>)
    BY <2>1 DEF Outer
  <2>4. delayLoop \in Nat
    BY DEF LoopTypes
  <2> QED
    BY <2>2, <2>3, <2>4, StackTypes
<1> QED
  BY <1>3, <1>4 DEF LoopPart!Next, LoopPart!EcosUSecSleep, LoopPart!VxworksUSecSleep,
     LoopPart!NucleusUSecSleep, LoopPart!XapiUSecSleep

(* The search: it doubles the value until a tick goes by, and counts from half   *)
(* of the last value that was too small.  A thread that searches is alone, as   *)
(* long as nobody has disturbed a search.                                     *)

Bounds(v) ==
  /\ Limit \in Nat /\ Limit >= 4 /\ v \in Nat \ {0}
  /\ \A n \in 2 .. Limit : Limit % n = 0 => n % 2 = 0

\* A value that is reached by doubling, and is not too large but by the last doubling.
Power(v, d) == d \in 1 .. Limit /\ Limit % d = 0 /\ (d = 1 \/ d < 2 * v)

\* The first value by which a tick goes by, or half of the limit.
Goal(v, m) ==
  /\ m \in Nat \ {0} /\ 2 * m <= Limit
  /\ \/ v <= m /\ (m = 1 \/ m < 2 * v)
     \/ 2 * m = Limit /\ m < v

\* What the search finds on the processor v.
Results(v) == IF 2 * v <= Limit THEN {v, v + 1} ELSE {Limit \div 2}

\* The value d while the outermost call of a thread is c, with the call for a tick inside or not.
Stage(v, c, d, inside) ==
  /\ c.at \in {"look", "one", "halve", "four", "quarter", "count"} => ~inside
  /\ c.at \in {"look", "one", "four", "quarter"} => ~c.moved
  /\ c.at = "one" => d = 0 \/ d \in Results(v)
  /\ c.at = "test" => ~inside /\ IF c.moved THEN \E m \in Nat : d = 2 * m /\ Goal(v, m) ELSE Power(v, d)
  /\ c.at = "shift" =>
       Power(v, d) /\ d < Limit /\ IF inside THEN ~c.moved ELSE c.moved <=> d >= v
  /\ c.at = "halve" => \E m \in Nat : d = 2 * m /\ Goal(v, m)
  /\ c.at = "four" => d = 2 * c.max /\ Goal(v, c.max)
  /\ c.at = "quarter" => Goal(v, c.max) /\ d = IF 2 * c.max < 4 THEN 4 ELSE 2 * c.max
  /\ c.at = "test2" =>
       ~inside /\ Goal(v, c.max) /\ d \in 1 .. c.max /\ IF c.moved THEN d = v + 1 ELSE d <= v
  /\ c.at = "step2" =>
       /\ Goal(v, c.max) /\ d \in 1 .. c.max - 1 /\ d <= v
       /\ IF inside THEN ~c.moved ELSE c.moved <=> d >= v
  /\ c.at = "count" => d \in Results(v)

\* A power of two below the limit, doubled.
LEMMA Doubles ==
  ASSUME NEW v, Bounds(v), NEW d \in 1 .. Limit, Limit % d = 0, d < Limit
  PROVE  Limit % (2 * d) = 0 /\ 2 * d <= Limit
<1> DEFINE k == Limit \div d
<1>1. d \in Nat \ {0} /\ Limit \in Nat
  BY DEF Bounds
<1>2. k \in Nat /\ k * d = Limit
  <2>1. k \in Nat
    BY <1>1, Quotients
  <2>2. Limit = (Limit \div d) * d + (Limit % d)
    BY <1>1
  <2> HIDE DEF k
  <2>3. k * d = Limit
    <3>1. k * d \in Nat
      BY <1>1, <2>1, Products
    <3> QED
      BY <1>1, <2>2, <3>1 DEF k
  <2> QED
    BY <2>1, <2>3
<1> HIDE DEF k
<1>3. k # 0 /\ k # 1
  BY <1>1, <1>2
<1>4. Limit % k = 0
  <2>1. k \in Nat \ {0} /\ Limit = d * k
    BY <1>1, <1>2, <1>3
  <2>2. ASSUME NEW a \in Nat \ {0}, NEW b \in Nat PROVE (b * a) % a = 0
    <3>1. b * a \in Nat /\ (b * a) \div a = b
      <4>1. b * a \in Nat
        BY <2>2, Products
      <4>2. b * a < b * a + a
        BY <2>2, <4>1
      <4> QED
        BY <2>2, <4>1, <4>2, QuotientIs
    <3>2. ASSUME NEW x \in Nat PROVE x = (x \div a) * a + (x % a)
      BY <2>2, <3>2
    <3>3. b * a = b * a + ((b * a) % a)
      BY <3>1, <3>2
    <3>4. ASSUME NEW x \in Nat PROVE x % a \in Nat
      BY <2>2, <3>4
    <3> QED
      BY <3>1, <3>3, <3>4
  <2> QED
    BY <1>1, <2>1, <2>2
<1>5. k <= Limit
  <2>1. k * (d - 1) \in Nat /\ k * (d - 1) = k * d - k
    BY <1>1, <1>2
  <2> QED
    BY <1>1, <1>2, <2>1
<1>6. k % 2 = 0
  BY <1>2, <1>3, <1>4, <1>5 DEF Bounds
<1>7. PICK j \in Nat : k = 2 * j
  <2>1. k = 2 * (k \div 2) /\ k \div 2 \in Nat
    BY <1>2, <1>6
  <2> QED
    BY <2>1
<1>8. Limit = j * (2 * d) /\ j # 0
  BY <1>1, <1>2, <1>3, <1>7
<1>9. 2 * d \in Nat \ {0}
  BY <1>1
<1>10. Limit % (2 * d) = 0
  <2> DEFINE e == 2 * d
  <2>1. e \in Nat \ {0} /\ Limit = j * e
    BY <1>8, <1>9
  <2> HIDE DEF e
  <2>2. Limit \div e = j
    <3>1. j * e <= Limit /\ Limit < j * e + e
      BY <1>1, <2>1
    <3> QED
      BY <1>1, <2>1, <3>1, QuotientIs
  <2>3. Limit = (Limit \div e) * e + (Limit % e) /\ Limit % e \in Nat
    BY <1>1, <2>1
  <2>4. Limit % e = 0
    BY <1>1, <2>1, <2>2, <2>3
  <2> QED
    BY <2>4 DEF e
<1>11. 2 * d <= Limit
  <2>1. (j - 1) * (2 * d) \in Nat /\ (j - 1) * (2 * d) = j * (2 * d) - 2 * d
    BY <1>8, <1>9
  <2> QED
    BY <1>1, <1>8, <1>9, <2>1
<1> QED
  BY <1>10, <1>11

LEMMA FoundFacts ==
  ASSUME NEW v, Bounds(v)
  PROVE  /\ \A d \in Results(v) : d \in 1 .. Limit
         /\ 2 * v <= Limit => v \in Results(v) /\ v + 1 \in Results(v)
         /\ \A m \in Nat : 2 * m = Limit /\ m < v => m \in Results(v)
<1>1. Limit \div 2 \in Nat /\ 2 * (Limit \div 2) <= Limit /\ Limit < 2 * (Limit \div 2) + 2
  BY DEF Bounds
<1>2. Limit \div 2 \in 1 .. Limit
  BY <1>1 DEF Bounds
<1>3. ASSUME NEW m \in Nat, 2 * m = Limit PROVE m = Limit \div 2
  BY <1>1, <1>3 DEF Bounds
<1> QED
  BY <1>2, <1>3 DEF Results, Bounds

\* One clean step of the search takes the outermost call from one stage to the next.
LEMMA Stages ==
  ASSUME NEW v, Bounds(v), NEW c \in LoopPart!Call, NEW d \in Nat
  PROVE  /\ c.at = "one" /\ Stage(v, c, d, FALSE)
              => Stage(v, [c EXCEPT !.at = "test", !.searched = TRUE], 1, FALSE)
         /\ c.at = "test" /\ Stage(v, c, d, FALSE) /\ d < Limit /\ ~c.moved
              => Stage(v, [c EXCEPT !.at = "shift"], d, TRUE) /\ d > 0
         /\ c.at = "test" /\ Stage(v, c, d, FALSE) /\ ~(d < Limit /\ ~c.moved)
              => Stage(v, [c EXCEPT !.at = "halve"], d, FALSE)
         /\ c.at = "shift" /\ Stage(v, c, d, FALSE) => Stage(v, [c EXCEPT !.at = "test"], 2 * d, FALSE)
         /\ c.at = "halve" /\ Stage(v, c, d, FALSE)
              => Stage(v, [c EXCEPT !.at = "four", !.max = d \div 2, !.moved = FALSE], d, FALSE)
         /\ c.at = "four" /\ Stage(v, c, d, FALSE)
              => Stage(v, [c EXCEPT !.at = "quarter"], IF d < 4 THEN 4 ELSE d, FALSE)
         /\ c.at = "quarter" /\ Stage(v, c, d, FALSE)
              => Stage(v, [c EXCEPT !.at = "test2"], d \div 4, FALSE)
         /\ c.at = "test2" /\ Stage(v, c, d, FALSE) /\ d < c.max /\ ~c.moved
              => Stage(v, [c EXCEPT !.at = "step2"], d, TRUE) /\ d > 0
         /\ c.at = "test2" /\ Stage(v, c, d, FALSE) /\ ~(d < c.max /\ ~c.moved)
              => Stage(v, [c EXCEPT !.at = "count"], d, FALSE)
         /\ c.at = "step2" /\ Stage(v, c, d, FALSE) => Stage(v, [c EXCEPT !.at = "test2"], d + 1, FALSE)
<1> DEFINE To(p) == [c EXCEPT !.at = p]
<1>0. /\ c.max \in Nat /\ c.moved \in BOOLEAN
      /\ \A p \in LoopPart!Steps : To(p).at = p /\ To(p).max = c.max /\ To(p).moved = c.moved
  BY DEF LoopPart!Call
<1>b. Limit \in Nat /\ Limit >= 4 /\ v \in Nat \ {0}
  BY DEF Bounds
<1>1. ASSUME c.at = "one", Stage(v, c, d, FALSE)
      PROVE  Stage(v, [c EXCEPT !.at = "test", !.searched = TRUE], 1, FALSE)
  <2> DEFINE e == [c EXCEPT !.at = "test", !.searched = TRUE]
  <2>1. e.at = "test" /\ e.moved = FALSE
    BY <1>0, <1>1 DEF Stage, LoopPart!Call
  <2>2. Power(v, 1)
    <3>1. Limit % 1 = 0
      BY <1>b
    <3> QED
      BY <1>b, <3>1 DEF Power
  <2> HIDE DEF e
  <2>3. Stage(v, e, 1, FALSE)
    BY <2>1, <2>2 DEF Stage
  <2> QED
    BY <2>3 DEF e
<1>2. ASSUME c.at = "test", Stage(v, c, d, FALSE), d < Limit, ~c.moved
      PROVE  Stage(v, To("shift"), d, TRUE) /\ d > 0
  <2>1. Power(v, d) /\ d > 0
    BY <1>2 DEF Stage, Power
  <2> HIDE DEF To
  <2> QED
    BY <1>0, <1>2, <2>1 DEF Stage, LoopPart!Steps
<1>3. ASSUME c.at = "test", Stage(v, c, d, FALSE), ~(d < Limit /\ ~c.moved)
      PROVE  Stage(v, To("halve"), d, FALSE)
  <2>1. \E m \in Nat : d = 2 * m /\ Goal(v, m)
    <3>1. CASE c.moved
      BY <1>3, <3>1 DEF Stage
    <3>2. CASE ~c.moved
      <4>1. Power(v, d) /\ d = Limit
        BY <1>b, <1>3, <3>2 DEF Stage, Power
      <4>2. Limit % 2 = 0
        BY <1>b DEF Bounds
      <4>3. PICK m \in Nat : Limit = 2 * m
        <5>1. Limit = 2 * (Limit \div 2) /\ Limit \div 2 \in Nat
          BY <1>b, <4>2
        <5> QED
          BY <5>1
      <4>4. Goal(v, m)
        BY <1>b, <4>1, <4>3 DEF Goal, Power
      <4> QED
        BY <4>1, <4>3, <4>4
    <3> QED
      BY <3>1, <3>2
  <2> HIDE DEF To
  <2> QED
    BY <1>0, <2>1 DEF Stage, LoopPart!Steps
<1>4. ASSUME c.at = "shift", Stage(v, c, d, FALSE) PROVE Stage(v, To("test"), 2 * d, FALSE)
  <2>1. Power(v, d) /\ d < Limit /\ (c.moved <=> d >= v)
    BY <1>4 DEF Stage
  <2>2. Limit % (2 * d) = 0 /\ 2 * d <= Limit /\ d \in 1 .. Limit
    BY <2>1, Doubles DEF Power
  <2>3. c.moved => Goal(v, d)
    BY <1>b, <2>1, <2>2 DEF Goal, Power
  <2>4. ~c.moved => Power(v, 2 * d)
    BY <1>b, <2>1, <2>2 DEF Power
  <2> HIDE DEF To
  <2> QED
    BY <1>0, <2>3, <2>4 DEF Stage, LoopPart!Steps
<1>5. ASSUME c.at = "halve", Stage(v, c, d, FALSE)
      PROVE  Stage(v, [c EXCEPT !.at = "four", !.max = d \div 2, !.moved = FALSE], d, FALSE)
  <2> DEFINE e == [c EXCEPT !.at = "four", !.max = d \div 2, !.moved = FALSE]
  <2>1. PICK m \in Nat : d = 2 * m /\ Goal(v, m)
    BY <1>5 DEF Stage
  <2>2. d \div 2 = m
    BY <2>1
  <2>3. e.at = "four" /\ e.max = m /\ e.moved = FALSE
    BY <2>2 DEF LoopPart!Call
  <2> HIDE DEF e
  <2>4. Stage(v, e, d, FALSE)
    BY <2>1, <2>3 DEF Stage
  <2> QED
    BY <2>4 DEF e
<1>6. ASSUME c.at = "four", Stage(v, c, d, FALSE)
      PROVE  Stage(v, To("quarter"), IF d < 4 THEN 4 ELSE d, FALSE)
  <2>1. d = 2 * c.max /\ Goal(v, c.max) /\ ~c.moved
    BY <1>6 DEF Stage
  <2> HIDE DEF To
  <2> QED
    BY <1>0, <2>1 DEF Stage, LoopPart!Steps
<1>7. ASSUME c.at = "quarter", Stage(v, c, d, FALSE) PROVE Stage(v, To("test2"), d \div 4, FALSE)
  <2>1. Goal(v, c.max) /\ (d = IF 2 * c.max < 4 THEN 4 ELSE 2 * c.max) /\ ~c.moved
    BY <1>7 DEF Stage
  <2>2. d \div 4 \in 1 .. c.max /\ (2 * (d \div 4) <= c.max \/ d \div 4 = 1)
    BY <1>0, <2>1 DEF Goal
  <2>3. d \div 4 <= v
    BY <1>0, <1>b, <2>1, <2>2 DEF Goal
  <2> HIDE DEF To
  <2> QED
    BY <1>0, <2>1, <2>2, <2>3 DEF Stage, LoopPart!Steps
<1>8. ASSUME c.at = "test2", Stage(v, c, d, FALSE), d < c.max, ~c.moved
      PROVE  Stage(v, To("step2"), d, TRUE) /\ d > 0
  <2>1. Goal(v, c.max) /\ d \in 1 .. c.max - 1 /\ d <= v /\ d > 0
    BY <1>0, <1>8 DEF Stage
  <2> HIDE DEF To
  <2> QED
    BY <1>0, <1>8, <2>1 DEF Stage, LoopPart!Steps
<1>9. ASSUME c.at = "test2", Stage(v, c, d, FALSE), ~(d < c.max /\ ~c.moved)
      PROVE  Stage(v, To("count"), d, FALSE)
  <2>1. Goal(v, c.max) /\ d \in 1 .. c.max /\ (IF c.moved THEN d = v + 1 ELSE d <= v)
    BY <1>9 DEF Stage
  <2>2. d \in Results(v)
    <3>1. CASE c.moved
      <4>1. d = v + 1 /\ 2 * v <= Limit
        BY <1>0, <1>b, <2>1, <3>1 DEF Goal
      <4> QED
        BY <4>1, FoundFacts
    <3>2. CASE ~c.moved
      <4>1. d = c.max /\ d <= v
        BY <1>0, <1>9, <2>1, <3>2
      <4>2. \/ d = v /\ 2 * v <= Limit
            \/ 2 * d = Limit /\ d < v
        BY <1>0, <1>b, <2>1, <4>1 DEF Goal
      <4> QED
        BY <4>2, FoundFacts
    <3> QED
      BY <3>1, <3>2
  <2> HIDE DEF To
  <2> QED
    BY <1>0, <2>2 DEF Stage, LoopPart!Steps
<1>10. ASSUME c.at = "step2", Stage(v, c, d, FALSE) PROVE Stage(v, To("test2"), d + 1, FALSE)
  <2>1. Goal(v, c.max) /\ d \in 1 .. c.max - 1 /\ d <= v /\ (c.moved <=> d >= v)
    BY <1>10 DEF Stage
  <2>2. d + 1 \in 1 .. c.max /\ IF c.moved THEN d + 1 = v + 1 ELSE d + 1 <= v
    BY <1>0, <1>b, <2>1
  <2> HIDE DEF To
  <2> QED
    BY <1>0, <2>1, <2>2 DEF Stage, LoopPart!Steps
<1> QED
  BY <1>1, <1>2, <1>3, <1>4, <1>5, <1>6, <1>7, <1>8, <1>9, <1>10, ZenonT(40)

\* The calls of a thread while no search has been disturbed: none, one, or one for a tick inside
\* of one that searches.
Calm(v, s, d) ==
  \/ s = << >>
  \/ \E c \in LoopPart!Call : s = <<c>> /\ c.wish # "tick" /\ Stage(v, c, d, FALSE)
  \/ \E n, c \in LoopPart!Call :
       /\ s = <<n, c>> /\ n.wish = "tick" /\ n.at \in {"look", "count"} /\ ~n.searched
       /\ c.wish # "tick" /\ c.at \in {"shift", "step2"} /\ Stage(v, c, d, TRUE)

Seeks(s) == \E i \in DOMAIN s : s[i].at \notin {"look", "count"}

Quiet ==
  clean =>
    /\ \A x \in Counters : Calm(speed, stack[x], delayLoop)
    /\ \A x \in Counters : Seeks(stack[x]) => \A y \in Counters \ {x} : stack[y] = << >>
    /\ (\A x \in Counters : ~Seeks(stack[x])) => delayLoop = 0 \/ delayLoop \in Results(speed)

LEMMA SeeksOf ==
  /\ ~Seeks(<< >>)
  /\ \A c : Seeks(<<c>>) <=> c.at \notin {"look", "count"}
  /\ \A n, c : c.at \notin {"look", "count"} => Seeks(<<n, c>>)
BY DEF Seeks

\* A thread that searches goes on.
LEMMA SearchGoes ==
  ASSUME LoopTypes, Quiet, clean, NEW x \in Counters, Seeks(stack[x]), NEW s, NEW d,
         stack' = [stack EXCEPT ![x] = s], delayLoop' = d, speed' = speed, Calm(speed, s, d),
         Seeks(s) \/ d \in Results(speed)
  PROVE  Quiet'
<1>1. /\ stack'[x] = s /\ \A y \in Counters \ {x} : stack'[y] = << >>
      /\ delayLoop' = d /\ speed' = speed
  BY DEF LoopTypes, Quiet
<1>2. \A y \in Counters : Calm(speed, stack'[y], d)
  BY <1>1, Zenon DEF Calm
<1>3. \A y \in Counters : Seeks(stack'[y]) => y = x
  BY <1>1, SeeksOf
<1>4. (\A y \in Counters : ~Seeks(stack'[y])) => d \in Results(speed)
  BY <1>1
<1>5. \A z \in Counters : Seeks(stack'[z]) => \A y \in Counters \ {z} : stack'[y] = << >>
  BY <1>1, <1>3
<1> QED
  BY <1>1, <1>2, <1>4, <1>5 DEF Quiet

\* A thread goes on while nobody searches, and may begin to when it is alone.
LEMMA OthersGo ==
  ASSUME LoopTypes, Quiet, clean, \A y \in Counters : ~Seeks(stack[y]), NEW x \in Counters, NEW s,
         stack' = [stack EXCEPT ![x] = s], delayLoop' = delayLoop, speed' = speed,
         Calm(speed, s, delayLoop), Seeks(s) => \A y \in Counters \ {x} : stack[y] = << >>
  PROVE  Quiet'
<1>1. /\ stack'[x] = s /\ \A y \in Counters \ {x} : stack'[y] = stack[y]
      /\ delayLoop' = delayLoop /\ speed' = speed
  BY DEF LoopTypes
<1>2. \A y \in Counters : Calm(speed, stack'[y], delayLoop)
  BY <1>1 DEF Quiet
<1>3. \A y \in Counters : Seeks(stack'[y]) => y = x
  BY <1>1
<1>4. \A z \in Counters : Seeks(stack'[z]) => \A y \in Counters \ {z} : stack'[y] = << >>
  BY <1>1, <1>3
<1>5. delayLoop = 0 \/ delayLoop \in Results(speed)
  BY DEF Quiet
<1> QED
  BY <1>1, <1>2, <1>4, <1>5 DEF Quiet

\* Its only call goes on, or calls itself.
LEMMA OneCall ==
  ASSUME NEW c, NEW e
  PROVE  /\ <<e>> \o Tail(<<c>>) = <<e>>
         /\ \A n : <<n, e>> \o Tail(<<c>>) = <<n, e>>
         /\ Head(<<c>>) = c
BY SMTT(20)

LEMMA TwoCalls ==
  ASSUME NEW n, NEW c
  PROVE  /\ Head(<<n, c>>) = n /\ <<n, c>>[2] = c
         /\ \A e : <<e>> \o Tail(<<n, c>>) = <<e, c>>
         /\ \A e : <<e>> \o Tail(Tail(<<n, c>>)) = <<e>>
<1>1. Head(<<n, c>>) = n /\ <<n, c>>[2] = c
  BY SMT
<1>2. Tail(<<n, c>>) = <<c>>
  <2> DEFINE r == Tail(<<n, c>>)
  <2>1. <<n, c>> \in Seq({n, c}) /\ <<n, c>> # << >> /\ Len(<<n, c>>) = 2
    OBVIOUS
  <2>2. r \in Seq({n, c}) /\ Len(r) = 1 /\ r[1] = <<n, c>>[2]
    BY <2>1, TailOf
  <2> HIDE DEF r
  <2>3. ASSUME NEW S, NEW q \in Seq(S), Len(q) = 1 PROVE q = <<q[1]>>
    BY <2>3
  <2>4. r = <<c>>
    BY <1>1, <2>2, <2>3
  <2> QED
    BY <2>4 DEF r
<1>3. ASSUME NEW e PROVE <<e>> \o <<c>> = <<e, c>>
  <2> DEFINE r == <<e>> \o <<c>>
  <2>1. r \in Seq({e, c}) /\ Len(r) = 2 /\ r[1] = e /\ r[2] = c
    OBVIOUS
  <2> HIDE DEF r
  <2>2. ASSUME NEW S, NEW q \in Seq(S), Len(q) = 2 PROVE q = <<q[1], q[2]>>
    BY <2>2
  <2>3. r = <<e, c>>
    BY <2>1, <2>2
  <2> QED
    BY <2>3 DEF r
<1>4. ASSUME NEW e PROVE <<e>> \o Tail(<<c>>) = <<e>>
  BY OneCall
<1> QED
  BY <1>1, <1>2, <1>3, <1>4, Zenon

\* Nobody searches while a thread counts that does not.
LEMMA NobodySeeks ==
  ASSUME Quiet, clean, NEW x \in Counters, stack[x] # << >>, ~Seeks(stack[x])
  PROVE  \A y \in Counters : ~Seeks(stack[y])
BY DEF Quiet

LEMMA QuietStepOne ==
  ASSUME Bounds(speed), LoopTypes, Quiet, clean, clean', NEW x \in Counters, LoopPart!Step(x),
         NEW c \in LoopPart!Call, stack[x] = <<c>>, c.wish # "tick", Stage(speed, c, delayLoop, FALSE)
  PROVE  Quiet'
<1> DEFINE d == delayLoop
           v == speed
           To(p) == [c EXCEPT !.at = p]
<1>0. /\ d \in Nat /\ LoopPart!Top(x) = c /\ Bounds(v)
      /\ \A p \in LoopPart!Steps : To(p) \in LoopPart!Call /\ To(p).at = p /\ To(p).wish = c.wish
  BY OneCall DEF LoopTypes, LoopPart!Top, LoopPart!Call
<1>1. ASSUME NEW e, LoopPart!Goes(x, e) PROVE stack' = [stack EXCEPT ![x] = <<e>>]
  BY <1>1, OneCall DEF LoopPart!Goes, LoopTypes
<1>2. ASSUME NEW p, LoopPart!Measures(x, p)
      PROVE  stack' = [stack EXCEPT ![x] = <<LoopPart!Nested("tick"), To(p)>>]
  BY <1>0, <1>2, OneCall DEF LoopPart!Measures, LoopTypes
<1>3. c.at \notin {"look", "count"} => Seeks(stack[x])
  BY SeeksOf
\* The call goes on as e with the value h, inside of its search.
<1>4. ASSUME c.at \notin {"look", "count"}, NEW e \in LoopPart!Call, e.wish = c.wish, NEW h,
             LoopPart!Goes(x, e), delayLoop' = h, speed' = speed, Stage(v, e, h, FALSE),
             e.at \notin {"look", "count"} \/ h \in Results(v)
      PROVE  Quiet'
  <2>1. Calm(v, <<e>>, h)
    BY <1>4, Zenon DEF Calm
  <2>2. Seeks(<<e>>) \/ h \in Results(v)
    BY <1>4, SeeksOf
  <2> QED
    BY <1>1, <1>3, <1>4, <2>1, <2>2, SearchGoes
<1>5. ASSUME c.at \notin {"look", "count"}, NEW p \in {"shift", "step2"}, LoopPart!Measures(x, p),
             speed' = speed, Stage(v, To(p), d, TRUE)
      PROVE  Quiet'
  <2> DEFINE n == LoopPart!Nested("tick")
             e == To(p)
  <2>1. n \in LoopPart!Call /\ n.wish = "tick" /\ n.at = "look" /\ ~n.searched
    BY DEF LoopPart!Nested, LoopPart!Call, LoopPart!Steps
  <2>2. e \in LoopPart!Call /\ e.at = p /\ e.wish = c.wish
    BY <1>0, <1>5 DEF LoopPart!Steps
  <2>3. stack' = [stack EXCEPT ![x] = <<n, e>>] /\ delayLoop' = d
    BY <1>2, <1>5 DEF LoopPart!Measures
  <2>4. Stage(v, e, d, TRUE)
    BY <1>5
  <2> HIDE DEF n, e
  <2>5. Calm(v, <<n, e>>, d)
    BY <1>5, <2>1, <2>2, <2>4 DEF Calm
  <2>6. Seeks(<<n, e>>)
    BY <1>5, <2>2, SeeksOf
  <2> QED
    BY <1>3, <1>5, <2>3, <2>5, <2>6, SearchGoes
<1>6. CASE LoopPart!Look(x)
  <2>1. /\ c.at = "look" /\ ~c.moved /\ delayLoop' = d /\ speed' = speed
        /\ LET searches == d = 0 \/ c.wish = "all"
           IN /\ LoopPart!Goes(x, To(IF searches THEN "one" ELSE "count"))
              /\ searches => LoopPart!Alone(x)
    BY <1>0, <1>6 DEF LoopPart!Look, LoopPart!At, LoopPart!To, Stage
  <2>2. \A y \in Counters : ~Seeks(stack[y])
    <3>1. ~Seeks(<<c>>)
      BY <2>1, SeeksOf
    <3>2. ~Seeks(stack[x]) /\ stack[x] # << >>
      BY <3>1
    <3> QED
      BY <3>2, NobodySeeks
  <2>3. CASE d = 0 \/ c.wish = "all"
    <3> DEFINE e == To("one")
    <3>1. e \in LoopPart!Call /\ e.wish = c.wish /\ e.at = "one" /\ ~e.moved
      BY <1>0, <2>1 DEF LoopPart!Steps, LoopPart!Call
    <3>2. LoopPart!Goes(x, e) /\ LoopPart!Alone(x)
      BY <2>1, <2>3
    <3> HIDE DEF e
    <3>3. d = 0 \/ d \in Results(v)
      BY <2>2 DEF Quiet
    <3>4. Calm(v, <<e>>, d)
      BY <3>1, <3>3, Zenon DEF Calm, Stage
    <3>5. \A y \in Counters \ {x} : stack[y] = << >>
      BY <3>2 DEF LoopPart!Alone, LoopPart!Inside
    <3> QED
      BY <1>1, <2>1, <2>2, <3>2, <3>4, <3>5, OthersGo
  <2>4. CASE ~(d = 0 \/ c.wish = "all")
    <3> DEFINE e == To("count")
    <3>1. e \in LoopPart!Call /\ e.wish = c.wish /\ e.at = "count"
      BY <1>0 DEF LoopPart!Steps
    <3>2. LoopPart!Goes(x, e)
      BY <2>1, <2>4
    <3>3. d \in Results(v)
      BY <2>2, <2>4 DEF Quiet
    <3> HIDE DEF e
    <3>4. Calm(v, <<e>>, d) /\ ~Seeks(<<e>>)
      BY <3>1, <3>3, SeeksOf, Zenon DEF Calm, Stage
    <3> QED
      BY <1>1, <2>1, <2>2, <3>2, <3>4, OthersGo
  <2> QED
    BY <2>3, <2>4
<1>7. CASE LoopPart!Begin(x)
  <2> DEFINE e == [c EXCEPT !.at = "test", !.searched = TRUE]
  <2>1. c.at = "one" /\ LoopPart!Goes(x, e) /\ delayLoop' = 1 /\ speed' = speed
    BY <1>0, <1>7 DEF LoopPart!Begin, LoopPart!At, LoopPart!Keep
  <2>2. e \in LoopPart!Call /\ e.wish = c.wish /\ e.at = "test"
    BY DEF LoopPart!Call, LoopPart!Steps
  <2>3. Stage(v, e, 1, FALSE)
    BY <1>0, <2>1, Stages
  <2> HIDE DEF e
  <2> QED
    BY <1>4, <2>1, <2>2, <2>3
<1>8. CASE LoopPart!Test(x)
  <2>1. c.at = "test" /\ speed' = speed
    BY <1>0, <1>8 DEF LoopPart!Test, LoopPart!At, LoopPart!Keep
  <2>2. CASE d < Limit /\ ~c.moved
    <3>1. LoopPart!Measures(x, "shift")
      BY <1>0, <1>8, <2>2, SMTT(40) DEF LoopPart!Test
    <3>2. Stage(v, To("shift"), d, TRUE)
      BY <1>0, <2>1, <2>2, Stages
    <3> HIDE DEF To
    <3> QED
      BY <1>5, <2>1, <3>1, <3>2
  <2>3. CASE ~(d < Limit /\ ~c.moved)
    <3>1. LoopPart!Goes(x, To("halve")) /\ delayLoop' = d
      BY <1>0, <1>8, <2>3 DEF LoopPart!Test, LoopPart!To
    <3>2. Stage(v, To("halve"), d, FALSE)
      BY <1>0, <2>1, <2>3, Stages, Zenon
    <3> HIDE DEF To
    <3> QED
      BY <1>0, <1>4, <2>1, <3>1, <3>2 DEF LoopPart!Steps
  <2> QED
    BY <2>2, <2>3
<1>9. CASE LoopPart!Shift(x)
  <2>1. c.at = "shift" /\ LoopPart!Goes(x, To("test")) /\ delayLoop' = 2 * d /\ speed' = speed
    BY <1>0, <1>9 DEF LoopPart!Shift, LoopPart!At, LoopPart!Keep, LoopPart!To
  <2>2. Stage(v, To("test"), 2 * d, FALSE)
    BY <1>0, <2>1, Stages
  <2> HIDE DEF To
  <2> QED
    BY <1>0, <1>4, <2>1, <2>2 DEF LoopPart!Steps
<1>10. CASE LoopPart!Halve(x)
  <2> DEFINE e == [c EXCEPT !.at = "four", !.max = d \div 2, !.moved = FALSE]
  <2>1. c.at = "halve" /\ LoopPart!Goes(x, e) /\ delayLoop' = d /\ speed' = speed
    BY <1>0, <1>10 DEF LoopPart!Halve, LoopPart!At, LoopPart!Keep
  <2>2. e \in LoopPart!Call /\ e.wish = c.wish /\ e.at = "four"
    <3>1. d \div 2 \in Nat
      BY <1>0
    <3>2. ASSUME NEW h \in Nat
          PROVE  LET b == [c EXCEPT !.at = "four", !.max = h, !.moved = FALSE]
                 IN b \in LoopPart!Call /\ b.wish = c.wish /\ b.at = "four"
      BY <3>2, Zenon DEF LoopPart!Call, LoopPart!Steps
    <3> QED
      BY <3>1, <3>2
  <2>3. Stage(v, e, d, FALSE)
    BY <1>0, <2>1, Stages
  <2> HIDE DEF e
  <2> QED
    BY <1>4, <2>1, <2>2, <2>3
<1>11. CASE LoopPart!AtLeastFour(x)
  <2> DEFINE h == IF d < 4 THEN 4 ELSE d
  <2>1. c.at = "four" /\ LoopPart!Goes(x, To("quarter")) /\ delayLoop' = h /\ speed' = speed
    BY <1>0, <1>11 DEF LoopPart!AtLeastFour, LoopPart!At, LoopPart!Keep, LoopPart!To
  <2>2. Stage(v, To("quarter"), h, FALSE)
    BY <1>0, <2>1, Stages
  <2> HIDE DEF To, h
  <2> QED
    BY <1>0, <1>4, <2>1, <2>2 DEF LoopPart!Steps
<1>12. CASE LoopPart!Quarter(x)
  <2> DEFINE h == d \div 4
  <2>1. c.at = "quarter" /\ LoopPart!Goes(x, To("test2")) /\ delayLoop' = h /\ speed' = speed
    BY <1>0, <1>12 DEF LoopPart!Quarter, LoopPart!At, LoopPart!Keep, LoopPart!To
  <2>2. Stage(v, To("test2"), h, FALSE)
    BY <1>0, <2>1, Stages
  <2> HIDE DEF To, h
  <2> QED
    BY <1>0, <1>4, <2>1, <2>2 DEF LoopPart!Steps
<1>13. CASE LoopPart!TestAgain(x)
  <2>1. c.at = "test2" /\ speed' = speed
    BY <1>0, <1>13 DEF LoopPart!TestAgain, LoopPart!At, LoopPart!Keep
  <2>2. CASE d < c.max /\ ~c.moved
    <3>1. LoopPart!Measures(x, "step2")
      BY <1>0, <1>13, <2>2, SMTT(40) DEF LoopPart!TestAgain
    <3>2. Stage(v, To("step2"), d, TRUE)
      BY <1>0, <2>1, <2>2, Stages
    <3> HIDE DEF To
    <3> QED
      BY <1>5, <2>1, <3>1, <3>2
  <2>3. CASE ~(d < c.max /\ ~c.moved)
    <3>1. LoopPart!Goes(x, To("count")) /\ delayLoop' = d
      BY <1>0, <1>13, <2>3 DEF LoopPart!TestAgain, LoopPart!To
    <3>2. Stage(v, To("count"), d, FALSE)
      BY <1>0, <2>1, <2>3, Stages
    <3>3. To("count").at = "count" /\ To("count") \in LoopPart!Call /\ To("count").wish = c.wish
      BY <1>0 DEF LoopPart!Steps
    <3> HIDE DEF To
    <3>4. d \in Results(v)
      BY <3>2, <3>3 DEF Stage
    <3> QED
      BY <1>4, <2>1, <3>1, <3>2, <3>3, <3>4
  <2> QED
    BY <2>2, <2>3
<1>14. CASE LoopPart!StepAgain(x)
  <2>1. c.at = "step2" /\ LoopPart!Goes(x, To("test2")) /\ delayLoop' = d + 1 /\ speed' = speed
    BY <1>0, <1>14 DEF LoopPart!StepAgain, LoopPart!At, LoopPart!Keep, LoopPart!To
  <2>2. Stage(v, To("test2"), d + 1, FALSE)
    BY <1>0, <2>1, Stages
  <2> HIDE DEF To
  <2> QED
    BY <1>0, <1>4, <2>1, <2>2 DEF LoopPart!Steps
<1>15. CASE LoopPart!Count(x)
  <2>1. c.at = "count" /\ delayLoop' = d /\ speed' = speed /\ stack' = [stack EXCEPT ![x] = << >>]
    BY <1>0, <1>15 DEF LoopPart!Count, LoopPart!At
  <2>2. \A y \in Counters : ~Seeks(stack[y])
    <3>1. ~Seeks(<<c>>)
      BY <2>1, SeeksOf
    <3>2. ~Seeks(stack[x]) /\ stack[x] # << >>
      BY <3>1
    <3> QED
      BY <3>2, NobodySeeks
  <2>3. Calm(v, << >>, d) /\ ~Seeks(<< >>)
    BY SeeksOf DEF Calm
  <2> QED
    BY <2>1, <2>2, <2>3, OthersGo
<1> QED
  BY <1>6, <1>7, <1>8, <1>9, <1>10, <1>11, <1>12, <1>13, <1>14, <1>15 DEF LoopPart!Step

LEMMA QuietStepTwo ==
  ASSUME Bounds(speed), LoopTypes, Quiet, clean, clean', NEW x \in Counters, LoopPart!Step(x),
         NEW n \in LoopPart!Call, NEW c \in LoopPart!Call, stack[x] = <<n, c>>,
         n.wish = "tick", n.at \in {"look", "count"}, ~n.searched, c.wish # "tick",
         c.at \in {"shift", "step2"}, Stage(speed, c, delayLoop, TRUE)
  PROVE  Quiet'
<1>1. LoopPart!Top(x) = n /\ delayLoop \in Nat /\ delayLoop > 0 /\ Seeks(stack[x])
  BY TwoCalls, SeeksOf DEF LoopPart!Top, LoopTypes, Stage, Power
<1>2. LoopPart!Look(x) \/ LoopPart!Count(x)
  BY <1>1 DEF LoopPart!Step, LoopPart!Begin, LoopPart!Test, LoopPart!Shift,
     LoopPart!Halve, LoopPart!AtLeastFour, LoopPart!Quarter, LoopPart!TestAgain, LoopPart!StepAgain,
     LoopPart!At
<1>3. CASE LoopPart!Look(x)
  <2> DEFINE e == [n EXCEPT !.at = "count"]
  <2>1. e \in LoopPart!Call /\ e.wish = "tick" /\ e.at = "count" /\ ~e.searched
    BY DEF LoopPart!Call, LoopPart!Steps
  <2>2. LoopPart!Goes(x, e) /\ delayLoop' = delayLoop /\ speed' = speed
    BY <1>1, <1>3 DEF LoopPart!Look, LoopPart!To
  <2> HIDE DEF e
  <2>3. stack' = [stack EXCEPT ![x] = <<e, c>>]
    <3>1. stack' = [stack EXCEPT ![x] = <<e>> \o Tail(stack[x])]
      BY <2>2 DEF LoopPart!Goes, LoopTypes
    <3>2. <<e>> \o Tail(stack[x]) = <<e, c>>
      BY TwoCalls
    <3> QED
      BY <3>1, <3>2, Zenon
  <2>4. Calm(speed, <<e, c>>, delayLoop) /\ Seeks(<<e, c>>)
    BY <2>1, SeeksOf DEF Calm
  <2> QED
    BY <1>1, <2>2, <2>3, <2>4, SearchGoes
<1>4. CASE LoopPart!Count(x)
  <2>1. PICK moved \in BOOLEAN :
          /\ moved = LoopPart!LongEnough(x)
          /\ stack' = [stack EXCEPT ![x] = <<[@[2] EXCEPT !.moved = moved]>> \o Tail(Tail(@))]
    BY <1>1, <1>4 DEF LoopPart!Count
  <2> DEFINE e == [c EXCEPT !.moved = moved]
  <2>2. e \in LoopPart!Call /\ e.wish = c.wish /\ e.at = c.at /\ e.max = c.max /\ e.moved = moved
    BY DEF LoopPart!Call
  <2>3. stack' = [stack EXCEPT ![x] = <<e>>]
    BY <2>1, TwoCalls DEF LoopTypes
  <2>4. moved <=> delayLoop >= speed
    BY <1>1, <2>1 DEF LoopPart!LongEnough
  <2> HIDE DEF e
  <2>5. Stage(speed, e, delayLoop, FALSE)
    BY <2>2, <2>4 DEF Stage
  <2>6. Calm(speed, <<e>>, delayLoop) /\ Seeks(<<e>>)
    BY <2>2, <2>5, SeeksOf, Zenon DEF Calm
  <2>7. delayLoop' = delayLoop /\ speed' = speed
    BY <1>4 DEF LoopPart!Count
  <2> QED
    BY <1>1, <2>3, <2>6, <2>7, SearchGoes
<1> QED
  BY <1>2, <1>3, <1>4

LEMMA SearchesSeek ==
  ASSUME NEW x \in Counters
  PROVE  LoopPart!Searches(x) <=> Seeks(stack[x])
BY DEF LoopPart!Searches, Seeks

LEMMA QuietStep ==
  ASSUME Bounds(speed), LoopTypes, Quiet, LoopPart!Next
  PROVE  Quiet'
<1> SUFFICES ASSUME clean' PROVE Quiet'
  BY DEF Quiet
<1>1. ASSUME NEW x \in Counters, LoopPart!Step(x) PROVE Quiet'
  <2>1. clean
    BY <1>1 DEF LoopPart!Step, LoopPart!Look, LoopPart!Begin, LoopPart!Test, LoopPart!Shift,
       LoopPart!Halve, LoopPart!AtLeastFour, LoopPart!Quarter, LoopPart!TestAgain, LoopPart!StepAgain,
       LoopPart!Count, LoopPart!Keep
  <2>2. LoopPart!Inside(x)
    BY <1>1 DEF LoopPart!Step, LoopPart!Look, LoopPart!Begin, LoopPart!Test, LoopPart!Shift,
       LoopPart!Halve, LoopPart!AtLeastFour, LoopPart!Quarter, LoopPart!TestAgain, LoopPart!StepAgain,
       LoopPart!Count, LoopPart!At
  <2>3. Calm(speed, stack[x], delayLoop) /\ stack[x] # << >>
    BY <2>1, <2>2 DEF Quiet, LoopPart!Inside
  <2> QED
    BY <1>1, <2>1, <2>3, QuietStepOne, QuietStepTwo DEF Calm
<1>2. ASSUME NEW x \in Counters, NEW p, NEW w \in {"some", "all"}, LoopPart!USecSleep(p, x, w)
      PROVE  Quiet'
  <2> DEFINE n == LoopPart!Nested(w)
  <2>1. n \in LoopPart!Call /\ n.wish # "tick" /\ n.at = "look" /\ ~n.moved
    BY <1>2 DEF LoopPart!Nested, LoopPart!Call, LoopPart!Steps
  <2>2. /\ stack' = [stack EXCEPT ![x] = <<n>>] /\ speed' = speed /\ delayLoop' = delayLoop
        /\ clean /\ \A u \in Counters : ~Seeks(stack[u])
    BY <1>2, SearchesSeek DEF LoopPart!USecSleep
  <2> HIDE DEF n
  <2>3. Calm(speed, <<n>>, delayLoop) /\ ~Seeks(<<n>>)
    BY <2>1, SeeksOf, Zenon DEF Calm, Stage
  <2> QED
    BY <2>2, <2>3, OthersGo
<1> QED
  BY <1>1, <1>2 DEF LoopPart!Next, LoopPart!EcosUSecSleep, LoopPart!VxworksUSecSleep,
     LoopPart!NucleusUSecSleep, LoopPart!XapiUSecSleep

Looped == LoopTypes /\ Quiet

LEMMA LoopBounds ==
  ASSUME LoopPart!DelayLoopAssumption, speed \in Speeds
  PROVE  Bounds(speed)
BY DEF LoopPart!DelayLoopAssumption, Bounds

LEMMA LoopInit ==
  ASSUME LoopPart!DelayLoopAssumption, LoopPart!Init
  PROVE  Looped
<1>1. LoopTypes
  BY DEF LoopPart!Init, LoopTypes, Outer
<1>2. \A x \in Counters : stack[x] = << >>
  BY DEF LoopPart!Init
<1>3. delayLoop = 0
  BY DEF LoopPart!Init
<1>4. \A x \in Counters : Calm(speed, stack[x], delayLoop) /\ ~Seeks(stack[x])
  BY <1>2, SeeksOf DEF Calm
<1> QED
  BY <1>1, <1>3, <1>4 DEF Looped, Quiet

LEMMA LoopStep ==
  ASSUME LoopPart!DelayLoopAssumption, Looped, LoopPart!Next
  PROVE  Looped'
BY LoopBounds, LoopTypesStep, QuietStep DEF Looped, LoopTypes

\* What a search has tried is within the limit.
LEMMA StageLimit ==
  ASSUME NEW v, Bounds(v), NEW c \in LoopPart!Call, NEW d \in Nat, NEW i \in BOOLEAN, Stage(v, c, d, i),
         c.at \notin {"look", "count"}
  PROVE  d <= Limit
<1>1. c.at \in LoopPart!Steps /\ c.max \in Nat /\ Limit \in Nat /\ Limit >= 4 /\ c.moved \in BOOLEAN
  BY DEF LoopPart!Call, Bounds
<1>2. ASSUME Goal(v, c.max) PROVE 2 * c.max <= Limit
  BY <1>2 DEF Goal
<1>3. CASE c.at = "one"
  BY <1>1, <1>3, FoundFacts DEF Stage
<1>4. CASE c.at \in {"test", "shift", "halve"}
  BY <1>1, <1>4 DEF Stage, Power, Goal
<1>5. CASE c.at \in {"four", "quarter", "test2", "step2"}
  BY <1>1, <1>2, <1>5 DEF Stage
<1> QED
  BY <1>1, <1>3, <1>4, <1>5 DEF LoopPart!Steps

LEMMA LoopTyped ==
  ASSUME LoopPart!DelayLoopAssumption, Looped
  PROVE  LoopPart!TypeOK
<1>1. Bounds(speed) /\ delayLoop \in Nat
  BY LoopBounds DEF Looped, LoopTypes
<1>2. ASSUME clean PROVE delayLoop <= Limit
  <2>1. CASE \A x \in Counters : ~Seeks(stack[x])
    <3>1. delayLoop = 0 \/ delayLoop \in Results(speed)
      BY <1>2, <2>1 DEF Looped, Quiet
    <3> QED
      BY <1>1, <3>1, FoundFacts DEF Bounds
  <2>2. ASSUME NEW x \in Counters, Seeks(stack[x]) PROVE delayLoop <= Limit
    <3>1. Calm(speed, stack[x], delayLoop)
      BY <1>2 DEF Looped, Quiet
    <3>2. PICK c \in LoopPart!Call, i \in BOOLEAN :
            Stage(speed, c, delayLoop, i) /\ c.at \notin {"look", "count"}
      BY <2>2, <3>1, SeeksOf DEF Calm
    <3> QED
      BY <1>1, <3>2, StageLimit
  <2> QED
    BY <2>1, <2>2
<1>3. ASSUME NEW x \in Counters PROVE \A i \in DOMAIN stack[x] : stack[x][i] \in LoopPart!Call
  <2>1. stack[x] \in Seq(LoopPart!Call)
    BY DEF Looped, LoopTypes
  <2>2. ASSUME NEW S, NEW s \in Seq(S) PROVE \A i \in DOMAIN s : s[i] \in S
    BY <2>2
  <2> QED
    BY <2>1, <2>2
<1> QED
  BY <1>2, <1>3 DEF Looped, LoopTypes, LoopPart!TypeOK

LEMMA LoopCalibrated ==
  ASSUME Looped
  PROVE  LoopPart!Calibrated
<1> SUFFICES ASSUME clean, NEW x \in Counters, LoopPart!Sleeping(x)
             PROVE  delayLoop \in LoopPart!Found
  BY DEF LoopPart!Calibrated
<1>1. /\ stack[x] # << >> /\ Head(stack[x]).at = "count" /\ Head(stack[x]).wish # "tick"
      /\ Calm(speed, stack[x], delayLoop)
  BY DEF LoopPart!Sleeping, LoopPart!At, LoopPart!Inside, LoopPart!Top, Looped, Quiet
<1>2. PICK c : c.at = "count" /\ Stage(speed, c, delayLoop, FALSE)
  BY <1>1, OneCall, TwoCalls DEF Calm
<1>3. delayLoop \in Results(speed)
  BY <1>2 DEF Stage
<1> QED
  BY <1>3 DEF Results, LoopPart!Found

-----------------------------------------------------------------------------
(* One service moves, and the program uses no other.                           *)

\* What is so of the service in use stays so when every step of it keeps it.
Kept ==
  /\ part = "sockets" => Told /\ Timing
  /\ part = "queue" => Queued /\ QueuePart!TypeOK
  /\ part = "pipe" => Whole
  /\ part = "devices" => Slept /\ Tables!IInv
  /\ part = "clock" => Clocked
  /\ part = "loop" => Looped

LEMMA KeptInit == Init => Kept
BY WaitsAssumption, SocketsInit, TimingInit, QueueInit, QueueTypesInit, WholeInit, SleptInit,
   TablesInit, ClockInit, LoopInit DEF WaitsAssumption, Init, Kept

\* Nothing of a service is kept by other variables than its own.
LEMMA Unmoved == Kept /\ UNCHANGED vars => Kept'
<1> SUFFICES ASSUME Kept, UNCHANGED vars PROVE Kept'
  OBVIOUS
<1> USE DEF vars, shared, socketVars, loopVars, clockVars, pipeVars, queueVars, deviceVars
<1>1. ASSUME Told, Timing PROVE Told' /\ Timing'
  BY <1>1, Zenon DEF Told, Timing, SocketPart!TypeOK, SocketPart!ToldReadable, SocketsOf, Ticking
<1>2. ASSUME Queued, QueuePart!TypeOK PROVE Queued' /\ QueuePart!TypeOK'
  BY <1>2, Zenon DEF Queued, QueuePart!TypeOK, QueuePart!NotMissed
<1>3. ASSUME Whole PROVE Whole'
  BY <1>3, Zenon DEF Whole, Places, Flow, Early, Empty, PipePart!NothingLost, PipePart!NullIsClosed
<1>4. ASSUME Slept, Tables!IInv PROVE Slept' /\ Tables!IInv'
  <2>1. UNCHANGED DevicePart!vars
    BY DEF DevicePart!vars, DevicePart!tables, DevicePart!history, DevicePart!races
  <2> QED
    BY <1>4, <2>1, TablesStep, WaitsAssumption DEF WaitsAssumption, Slept, DevicePart!NotEarly
<1>5. ASSUME Clocked PROVE Clocked'
  BY <1>5, Zenon DEF Clocked, ClockTypes, ClockPart!TypeOK, Dozing, Watched, Enough, Lost,
     ClockPart!Short, Has, Number, Count, Divisor
<1>6. ASSUME Looped PROVE Looped'
  BY <1>6, Zenon DEF Looped, LoopTypes, Quiet
<1>7. part' = part
  OBVIOUS
<1> QED
  BY <1>1, <1>2, <1>3, <1>4, <1>5, <1>6, <1>7 DEF Kept

LEMMA KeptStep == Kept /\ [Next]_vars => Kept'
<1> SUFFICES ASSUME Kept, Next PROVE Kept'
  BY Unmoved
<1> USE WaitsAssumption DEF WaitsAssumption
<1>1. part' = part
  BY DEF Next, Rest
<1>2. CASE part = "sockets"
  <2>1. SocketPart!Next
    BY <1>2 DEF Next
  <2> QED
    BY <1>1, <1>2, <2>1, ToldStep, TimingStep DEF Kept
<1>3. CASE part = "queue"
  <2>1. QueuePart!Next
    BY <1>3 DEF Next
  <2> QED
    BY <1>1, <1>3, <2>1, QueuedStep, QueueTypesStep DEF Kept
<1>4. CASE part = "pipe"
  <2>1. PipePart!Next
    BY <1>4 DEF Next
  <2> QED
    BY <1>1, <1>4, <2>1, WholeStep DEF Kept
<1>5. CASE part = "devices"
  <2>1. DevicePart!SelectNext
    BY <1>5 DEF Next
  <2> QED
    BY <1>1, <1>5, <2>1, SleptStep, TablesStep DEF Kept
<1>6. CASE part = "clock"
  <2>1. ClockPart!Next
    BY <1>6 DEF Next
  <2> QED
    BY <1>1, <1>6, <2>1, ClockStep DEF Kept
<1>7. CASE part = "loop"
  <2>1. LoopPart!Next
    BY <1>7 DEF Next
  <2> QED
    BY <1>1, <1>7, <2>1, LoopStep DEF Kept
<1> QED
  BY <1>1, <1>2, <1>3, <1>4, <1>5, <1>6, <1>7 DEF Kept

LEMMA KeptAlways == Spec => []Kept
BY KeptInit, KeptStep, PTL DEF Spec

\* Whatever the threads, sockets and messages, no readiness is missed: a socket that select
\* has told to be readable is so when its thread comes to it, and no wakeup of a driver
\* comes between looking and waiting.
THEOREM Ready == Spec => []NotMissed
<1>1. Kept => NotMissed
  BY DEF Kept, Told, Queued, NotMissed
<1> QED
  BY <1>1, KeptAlways, PTL

\* However much is printed and whatever the sizes of the writer's buffer and of the pipe, no
\* byte of a pipe that is not spoilt is lost, doubled or out of order, and an end without a
\* pointer is not left open.
THEOREM PipeBytes == Spec => []PipeWhole
<1>1. Kept => PipeWhole
  BY DEF Kept, Whole, Places, PipeWhole
<1> QED
  BY <1>1, KeptAlways, PTL

\* For all times and processors: who counts in a loop while nobody has disturbed a search
\* counts as far as its processor needs, and one loop further at most, and the elapsed time
\* is right to the grain of the clock until the system's number wraps.
THEOREM Measured == Spec => []TimeRight
<1>1. Kept => TimeRight
  BY WaitsAssumption, LoopCalibrated, ClockRight DEF WaitsAssumption, Kept, TimeRight
<1> QED
  BY <1>1, KeptAlways, PTL

\* Whatever the times, the timeouts and the rates of the clocks, nothing that waits comes back
\* before its time without having found anything, but for the ticks that a port rounds off.
THEOREM TimeWaited == Spec => NotEarly
<1>1. Kept /\ Kept' /\ [Next]_vars =>
        [/\ part = "sockets" => SocketPart!NotEarly
         /\ part = "clock" => ClockPart!SleepsNearly
         /\ part = "devices" => DevicePart!NotEarly']_vars
  <2> SUFFICES ASSUME Kept, Kept', Next
               PROVE  /\ part = "sockets" => SocketPart!NotEarly
                      /\ part = "clock" => ClockPart!SleepsNearly
                      /\ part = "devices" => DevicePart!NotEarly'
    OBVIOUS
  <2> USE WaitsAssumption DEF WaitsAssumption
  <2>1. ASSUME part = "sockets" PROVE SocketPart!NotEarly
    BY <2>1, WaitedFor DEF Next, Kept
  <2>2. ASSUME part = "clock" PROVE ClockPart!SleepsNearly
    BY <2>2, ClockStep DEF Next, Kept
  <2>3. ASSUME part = "devices" PROVE DevicePart!NotEarly'
    <3>1. part' = part
      BY DEF Next, Rest
    <3> QED
      BY <2>3, <3>1 DEF Kept, Slept
  <2> QED
    BY <2>1, <2>2, <2>3
<1> QED
  BY <1>1, KeptAlways, PTL DEF Spec, NotEarly

\* Every variable keeps its type, in whichever service it is.
THEOREM WaitsTypes == Spec => []TypeOK
<1>1. ASSUME Whole PROVE PipePart!TypeOK
  BY <1>1 DEF Whole, Places, Flow, PipePart!TypeOK
<1>2. Kept => TypeOK
  BY WaitsAssumption, <1>1, TablesTyped, LoopTyped DEF WaitsAssumption, Kept, Timing, Clocked,
     ClockTypes, TypeOK
<1> QED
  BY <1>2, KeptAlways, PTL
=============================================================================
