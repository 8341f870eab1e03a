---------------------------- MODULE SocketSelect ----------------------------
(***************************************************************************)
(* IFXOS_SocketSelect and the sets of sockets it takes.  A thread puts sockets *)
(* into its set, waits for one to be readable, at most for a time, and then     *)
(* receives from those that are still in the set.                            *)
(***************************************************************************)
EXTENDS Integers, FiniteSets

CONSTANTS
  Ports,
  Threads,
  Sockets,      \* their numbers
  Owned,        \* whether a socket is used by one thread only
  Timeouts,     \* in milliseconds, or one of the two special values
  PerSec,       \* milliseconds of a second, 1000 in the code
  TickMs,       \* milliseconds of a tick of the system
  FdSetSize     \* FD_SETSIZE

Stubs == {"rtems", "generic"}
AllPorts == {"linux_appl", "vxworks", "ecos", "win32", "nucleus"} \cup Stubs

WaitForever == -1   \* IFXOS_SOC_WAIT_FOREVER
NoWait == 0         \* IFXOS_SOC_NO_WAIT

\* What is assumed of the constants.
SocketSelectAssumption ==
  /\ Ports \subseteq AllPorts /\ Timeouts \subseteq Int
  /\ Sockets \subseteq Nat /\ IsFiniteSet(Sockets) /\ Owned \in BOOLEAN
  /\ {PerSec, TickMs, FdSetSize} \subseteq Nat \ {0}

VARIABLES
  port,
  fdSet,    \* the set of each thread
  wanted,   \* what the thread has put into it
  pc,       \* what the thread does
  asked,    \* the timeout of its call
  left,     \* the time it has still to wait
  waited,   \* the time it has waited
  ret,      \* what the last call returned
  readable, \* the sockets that have something
  owner     \* who uses each socket

vars == <<port, fdSet, wanted, pc, asked, left, waited, ret, readable, owner>>

TypeOK ==
  /\ port \in Ports
  /\ fdSet \in [Threads -> SUBSET Sockets] /\ wanted \in [Threads -> SUBSET Sockets]
  /\ pc \in [Threads -> {"idle", "waiting"}]
  /\ asked \in [Threads -> Timeouts \cup {NoWait}]
  /\ left \in [Threads -> Nat \cup {WaitForever}] /\ waited \in [Threads -> Nat]
  /\ ret \in [Threads -> -1 .. Cardinality(Sockets)]
  /\ readable \subseteq Sockets /\ owner \in [Sockets -> Threads]

Init ==
  /\ port \in Ports
  /\ fdSet = [t \in Threads |-> {}] /\ wanted = [t \in Threads |-> {}]
  /\ pc = [t \in Threads |-> "idle"] /\ asked = [t \in Threads |-> NoWait]
  /\ left = [t \in Threads |-> 0] /\ waited = [t \in Threads |-> 0]
  /\ ret = [t \in Threads |-> 0]
  /\ readable = {}
  /\ owner \in [Sockets -> Threads]

Uses(t, f) == Owned => owner[f] = t

-----------------------------------------------------------------------------
(* The sets.                                                                *)

noSelect == <<port, pc, asked, left, waited, readable, owner>>

\* The set is that of a new wait: what the last one has told is no longer asked for.
SetBecomes(t, s, w) ==
  /\ pc[t] = "idle"
  /\ fdSet' = [fdSet EXCEPT ![t] = s]
  /\ wanted' = [wanted EXCEPT ![t] = w]
  /\ ret' = [ret EXCEPT ![t] = 0]
  /\ UNCHANGED noSelect

SocFdZero(t) == port \notin Stubs /\ SetBecomes(t, {}, {})

\* Mutant: the last place is never taken.
JoinedMut_Last(s, f) ==
  IF port = "win32" /\ Cardinality(s) + 1 >= FdSetSize THEN s ELSE s \cup {f}

\* A set of Windows is a list of FD_SETSIZE sockets, and one too many is left out;
\* elsewhere it is that many bits.
Joined(s, f) ==
  IF port = "win32" /\ Cardinality(s) >= FdSetSize THEN s ELSE s \cup {f}

SocFdSet(t, f) ==
  /\ port \notin Stubs /\ Uses(t, f)
  /\ SetBecomes(t, Joined(fdSet[t], f), wanted[t] \cup {f})

SocFdClr(t, f) ==
  /\ port \notin Stubs
  /\ SetBecomes(t, fdSet[t] \ {f}, wanted[t] \ {f})

SetsOfStubs(t, f) == port \in Stubs /\ SetBecomes(t, fdSet[t], wanted[t] \cup {f})

-----------------------------------------------------------------------------
(* SocketSelect.                                                            *)

\* Division in C, towards zero, and its remainder.
Quotient(a, b) == IF a >= 0 THEN a \div b ELSE -((-a) \div b)
Rest(a, b) == a - b * Quotient(a, b)

\* Mutant: the rest of the second is forgotten.
TimeValMut_Seconds(ms) == [tv_sec |-> Quotient(ms, PerSec), tv_usec |-> 0]

TimeVal(ms) == [tv_sec |-> Quotient(ms, PerSec), tv_usec |-> Rest(ms, PerSec) * 1000]

Valid(tv) == tv.tv_sec >= 0 /\ tv.tv_usec >= 0
Length(tv) == tv.tv_sec * PerSec + tv.tv_usec \div 1000

\* Mutant: only the call that does not wait gets a time.
StartMut_NoTime(ms) ==
  IF ms = NoWait THEN 0 ELSE WaitForever

\* A null pointer waits forever, and the time for not waiting is zero.
Start(ms) ==
  IF ms = WaitForever THEN WaitForever ELSE IF ms = NoWait THEN 0 ELSE Length(TimeVal(ms))

\* select refuses a time below zero, and on Windows also a set without a socket.
Takes(s, ms) ==
  /\ ms = WaitForever \/ Valid(TimeVal(ms))
  /\ port = "win32" => s # {}

Enter(p, t, ms) ==
  /\ port = p /\ pc[t] = "idle"
  /\ IF Takes(fdSet[t], ms)
     THEN /\ pc' = [pc EXCEPT ![t] = "waiting"]
          /\ asked' = [asked EXCEPT ![t] = ms]
          /\ left' = [left EXCEPT ![t] = Start(ms)]
          /\ ret' = [ret EXCEPT ![t] = 0]
     ELSE ret' = [ret EXCEPT ![t] = -1] /\ UNCHANGED <<pc, asked, left>>
  /\ UNCHANGED <<port, fdSet, wanted, waited, readable, owner>>

CallOver(t) ==
  /\ pc' = [pc EXCEPT ![t] = "idle"]
  /\ asked' = [asked EXCEPT ![t] = NoWait]
  /\ left' = [left EXCEPT ![t] = 0]
  /\ waited' = [waited EXCEPT ![t] = 0]

\* Mutant: the set of the caller stays as it was.
LeaveMut_Copy(t) ==
  /\ pc[t] = "waiting"
  /\ fdSet[t] \cap readable # {} \/ left[t] = 0
  /\ ret' = [ret EXCEPT ![t] = Cardinality(fdSet[t] \cap readable)]
  /\ CallOver(t)
  /\ UNCHANGED <<port, fdSet, wanted, readable, owner>>

\* select returns: something is readable, or the time is over.
Leave(t) ==
  /\ pc[t] = "waiting"
  /\ fdSet[t] \cap readable # {} \/ left[t] = 0
  /\ fdSet' = [fdSet EXCEPT ![t] = @ \cap readable]
  /\ wanted' = [wanted EXCEPT ![t] = fdSet'[t]]
  /\ ret' = [ret EXCEPT ![t] = Cardinality(fdSet'[t])]
  /\ CallOver(t)
  /\ UNCHANGED <<port, readable, owner>>

LinuxApplSelect(t, ms) == Enter("linux_appl", t, ms)
VxworksSelect(t, ms) == Enter("vxworks", t, ms)
EcosSelect(t, ms) == Enter("ecos", t, ms)
Win32Select(t, ms) == Enter("win32", t, ms)
NucleusSelect(t, ms) == Enter("nucleus", t, ms)

\* Nothing is looked at, and the call returns 0 at once.
StubSelect(p, t, ms) ==
  /\ port = p /\ pc[t] = "idle"
  /\ ret' = [ret EXCEPT ![t] = 0]
  /\ UNCHANGED <<port, fdSet, wanted, pc, asked, left, waited, readable, owner>>

RtemsSelect(t, ms) == StubSelect("rtems", t, ms)
GenericSelect(t, ms) == StubSelect("generic", t, ms)

SocketSelect(t, ms) ==
  \/ LinuxApplSelect(t, ms) \/ VxworksSelect(t, ms) \/ EcosSelect(t, ms)
  \/ Win32Select(t, ms) \/ NucleusSelect(t, ms)
  \/ RtemsSelect(t, ms) \/ GenericSelect(t, ms)

-----------------------------------------------------------------------------
(* The sockets and the time.                                                *)

Arrives(f) ==
  /\ f \notin readable
  /\ readable' = readable \cup {f}
  /\ UNCHANGED <<port, fdSet, wanted, pc, asked, left, waited, ret, owner>>

\* SocFdIsSet has said yes, and the thread takes what has come.
Receives(t, f) ==
  /\ pc[t] = "idle" /\ ret[t] > 0 /\ f \in fdSet[t] /\ f \in readable
  /\ readable' = readable \ {f}
  /\ fdSet' = [fdSet EXCEPT ![t] = @ \ {f}]
  /\ wanted' = [wanted EXCEPT ![t] = @ \ {f}]
  /\ UNCHANGED <<port, pc, asked, left, waited, ret, owner>>

Timed == {t \in Threads : pc[t] = "waiting" /\ left[t] > 0}

Millisecond ==
  /\ Timed # {}
  /\ left' = [t \in Threads |-> IF t \in Timed THEN left[t] - 1 ELSE left[t]]
  /\ waited' = [t \in Threads |-> IF t \in Timed THEN waited[t] + 1 ELSE waited[t]]
  /\ UNCHANGED <<port, fdSet, wanted, pc, asked, ret, readable, owner>>

Next ==
  \/ \E t \in Threads :
       \/ SocFdZero(t) \/ Leave(t)
       \/ \E ms \in Timeouts : SocketSelect(t, ms)
       \/ \E f \in Sockets :
            SocFdSet(t, f) \/ SocFdClr(t, f) \/ SetsOfStubs(t, f) \/ Receives(t, f)
  \/ \E f \in Sockets : Arrives(f)
  \/ Millisecond

\* The system's own part: time goes by, and a wait that can end does.
Fairness == WF_vars(Millisecond) /\ \A t \in Threads : WF_vars(Leave(t))

Spec == Init /\ [][Next]_vars /\ Fairness

-----------------------------------------------------------------------------
TimedOut(t) == pc[t] = "waiting" /\ pc'[t] = "idle" /\ ret'[t] = 0

\* "Returns 0 on timeout": a call that returns 0 has waited for its time, all of it, and
\* one that waits forever never does.
NotEarly == \A t \in Threads : TimedOut(t) => asked[t] >= 0 /\ waited[t] = asked[t]

\* "number of system ticks for timeout".
WaitsTicks == \A t \in Threads : TimedOut(t) => waited[t] >= asked[t] * TickMs

\* A socket that select has left in the set is readable when its thread comes to it,
\* however late: to receive from it does not block.
ToldReadable ==
  \A t \in Threads : pc[t] = "idle" /\ ret[t] > 0 => fdSet[t] \subseteq readable

\* A call that does not go on for ever: it has a time, or something has arrived at a socket
\* that its thread has put into its set and nobody else takes.
Ending(t) ==
  pc[t] = "waiting" /\ (asked[t] # WaitForever \/ wanted[t] \cap readable # {})

\* No bit is set outside of a set.
SetsInBounds ==
  port # "win32" => \A t \in Threads : \A f \in fdSet[t] : f < FdSetSize
=============================================================================
