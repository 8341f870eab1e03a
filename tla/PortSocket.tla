----------------------------- MODULE PortSocket -----------------------------
(***************************************************************************)
(* The life of the sockets of a port: servers bind, listen and accept, clients *)
(* connect, both send, receive, shut down and close.  The network below is the *)
(* system's; what is the port's is what it hands down, what it makes of the     *)
(* results, and what it tells its caller.  A call that fails and changes nothing *)
(* is a stuttering step; a call that would block is not enabled.               *)
(***************************************************************************)
EXTENDS Integers, Sequences, FiniteSets

CONSTANTS
  Ports,
  Servers, Clients,  \* threads
  Addresses,
  NumFds,      \* descriptors of the system
  NumConns,    \* connections at a time
  Backlog,     \* the connections a listening socket keeps
  MaxWords     \* bound of the check: what is sent on a connection of a port, each way

Stubs == {"rtems", "generic"}
AllPorts == {"linux_appl", "linux_drv", "vxworks", "ecos", "win32", "nucleus"} \cup Stubs

\* What is assumed of the constants.
PortSocketAssumption ==
  /\ Ports \subseteq AllPorts
  /\ {NumFds, NumConns, Backlog} \subseteq Nat \ {0} /\ MaxWords \in [Ports -> Nat]
  /\ Servers \cap Clients = {}

VARIABLES
  port,
  up,       \* the threads that have called SocketInit and not SocketCleanup
  desc,     \* the descriptors of the system
  queue,    \* the connections that wait to be accepted, for each descriptor
  streams,  \* what has gone each way on each connection
  reset,    \* the connections that were broken off
  made,     \* the threads that were told they have a socket
  sock,     \* the socket of each thread
  conn,     \* the socket it was given by an accept
  bound,    \* the address it was told its socket has
  alive     \* the process still runs

given == <<made, sock, conn, bound>>
vars == <<port, up, desc, queue, streams, reset, given, alive>>

Threads == Servers \cup Clients
Fds == 1 .. NumFds
Conns == 1 .. NumConns
None == 0
Nowhere == "nowhere"

Free == [kind |-> "free", addr |-> Nowhere, conn |-> None, side |-> None]
Sides == {1, 2}
Other(s) == 3 - s
Unused == [taken |-> 0, sent |-> 0, got |-> 0, shut |-> FALSE, ended |-> FALSE]

Init ==
  /\ port \in Ports
  /\ up = {} /\ made = {} /\ reset = {} /\ alive = TRUE
  /\ desc = [f \in Fds |-> Free] /\ queue = [f \in Fds |-> << >>]
  /\ streams = [c \in Conns |-> [s \in Sides |-> Unused]]
  /\ sock = [t \in Threads |-> None] /\ conn = [t \in Threads |-> None]
  /\ bound = [t \in Threads |-> Nowhere]

-----------------------------------------------------------------------------
(* The system.                                                              *)

Used(f) == f # None /\ desc[f].kind # "free"
FreeFds == {f \in Fds : desc[f].kind = "free"}
Lowest(S) == CHOOSE f \in S : \A g \in S : f <= g

Waiting(c) == \E f \in Fds : \E i \in 1 .. Len(queue[f]) : queue[f][i] = c
Open(c, s) ==
  \/ \E f \in Fds : desc[f].conn = c /\ desc[f].side = s
  \/ s = 2 /\ Waiting(c)
FreeConns == {c \in Conns : ~Open(c, 1) /\ ~Open(c, 2)}

Taken(a) == \E f \in Fds : desc[f].addr = a

Unread(c, s) == streams[c][Other(s)].got < streams[c][Other(s)].taken

\* What the end of these descriptors does to their connections: the other side reads to
\* the end, or is reset if something was left unread or nobody has accepted it.
Gone(S) ==
  LET pending == {c \in Conns : \E f \in S : \E i \in 1 .. Len(queue[f]) : queue[f][i] = c}
      ends == {e \in Conns \X Sides : \E f \in S : desc[f].conn = e[1] /\ desc[f].side = e[2]}
      over == {c \in Conns : \A s \in Sides : Open(c, s) => <<c, s>> \in ends \/ c \in pending}
  IN /\ desc' = [f \in Fds |-> IF f \in S THEN Free ELSE desc[f]]
     /\ queue' = [f \in Fds |-> IF f \in S THEN << >> ELSE queue[f]]
     /\ streams' = [c \in Conns |-> [s \in Sides |->
          IF c \in over THEN Unused
          ELSE [streams[c][s] EXCEPT !.shut = @ \/ <<c, s>> \in ends]]]
     /\ reset' = (reset \cup pending \cup {e[1] : e \in {d \in ends : Unread(d[1], d[2])}})
                   \ over

noNet == <<desc, queue, streams, reset>>

-----------------------------------------------------------------------------
(* Init, cleanup, create, close and shutdown.                                *)

SocketInit(t) ==
  /\ t \notin up
  /\ up' = up \cup {t}
  /\ UNCHANGED <<port, noNet, given, alive>>

Forgets ==
  /\ made' = {}
  /\ sock' = [t \in Threads |-> None] /\ conn' = [t \in Threads |-> None]
  /\ bound' = [t \in Threads |-> Nowhere]

\* Mutant: the first cleanup ends it for all.
SocketCleanupMut_First(t) ==
  /\ t \in up
  /\ up' = up \ {t}
  /\ IF port = "win32" THEN Gone({f \in Fds : Used(f)}) ELSE UNCHANGED noNet
  /\ IF port = "win32" /\ up' = {} THEN Forgets ELSE UNCHANGED given
  /\ UNCHANGED <<port, alive>>

\* Windows counts, and the last one ends all sockets; elsewhere nothing is done.
SocketCleanup(t) ==
  /\ t \in up
  /\ up' = up \ {t}
  /\ IF port = "win32" /\ up' = {}
     THEN Gone({f \in Fds : Used(f)}) /\ Forgets
     ELSE UNCHANGED <<noNet, given>>
  /\ UNCHANGED <<port, alive>>

Created(t, f) ==
  /\ t \in up /\ t \notin made
  /\ made' = made \cup {t}
  /\ sock' = [sock EXCEPT ![t] = f]
  /\ desc' = IF f = None THEN desc ELSE [desc EXCEPT ![f] = [Free EXCEPT !.kind = "new"]]
  /\ UNCHANGED <<port, up, queue, streams, reset, conn, bound, alive>>

SocketCreate(t) == FreeFds # {} /\ Created(t, Lowest(FreeFds))

\* sock_create returns the negative number of an error, of which only -1 is taken for one.
DrvCreate(t) == SocketCreate(t) \/ Created(t, None)

SocketClose(t) ==
  /\ t \in made
  /\ Gone({sock[t]} \ {None})
  /\ made' = made \ {t}
  /\ sock' = [sock EXCEPT ![t] = None]
  /\ bound' = [bound EXCEPT ![t] = Nowhere]
  /\ UNCHANGED <<port, up, conn, alive>>

\* sock_release of a null pointer ends the kernel.
DrvClose(t) ==
  \/ Used(sock[t]) /\ SocketClose(t)
  \/ t \in made /\ ~Used(sock[t]) /\ alive' = FALSE /\ UNCHANGED <<port, up, noNet, given>>

CloseAccepted(t) ==
  /\ conn[t] # None
  /\ Gone({conn[t]})
  /\ conn' = [conn EXCEPT ![t] = None]
  /\ UNCHANGED <<port, up, made, sock, bound, alive>>

\* The sockets of a thread that are connected.
Connected(t) == {f \in {sock[t], conn[t]} : Used(f) /\ desc[f].kind = "stream"}

\* Of transmission; that of reception is the caller's own affair.
SocketShutdown(t) ==
  \E f \in Connected(t) :
    LET c == desc[f].conn  s == desc[f].side
    IN /\ ~streams[c][s].shut
       /\ streams' = [streams EXCEPT ![c][s].shut = TRUE]
       /\ UNCHANGED <<port, up, desc, queue, reset, given, alive>>

-----------------------------------------------------------------------------
(* Bind, listen, accept and connect.                                         *)

Binds(t, a, inUse) ==
  /\ t \in up /\ Used(sock[t]) /\ desc[sock[t]].kind = "new"
  /\ bound[t] = Nowhere
  /\ inUse <=> Taken(a)
  /\ bound' = [bound EXCEPT ![t] = a]
  /\ desc' = IF inUse THEN desc ELSE [desc EXCEPT ![sock[t]].addr = a]
  /\ UNCHANGED <<port, up, queue, streams, reset, made, sock, conn, alive>>

\* Mutant: an address in use is good enough.
SocketBindMut_InUse(t, a) == \E inUse \in BOOLEAN : Binds(t, a, inUse)

SocketBind(t, a) == Binds(t, a, FALSE)

\* WSAEADDRINUSE counts as success.
Win32Bind(t, a) == \E inUse \in BOOLEAN : Binds(t, a, inUse)

SocketListen(t) ==
  /\ Used(sock[t]) /\ desc[sock[t]].kind = "new" /\ desc[sock[t]].addr # Nowhere
  /\ desc' = [desc EXCEPT ![sock[t]].kind = "listening"]
  /\ UNCHANGED <<port, up, queue, streams, reset, given, alive>>

SocketAccept(t) ==
  /\ Used(sock[t]) /\ queue[sock[t]] # << >> /\ conn[t] = None /\ FreeFds # {}
  /\ LET f == Lowest(FreeFds)
     IN /\ desc' = [desc EXCEPT ![f] =
                      [Free EXCEPT !.kind = "stream", !.conn = Head(queue[sock[t]]), !.side = 2]]
        /\ conn' = [conn EXCEPT ![t] = f]
  /\ queue' = [queue EXCEPT ![sock[t]] = Tail(@)]
  /\ UNCHANGED <<port, up, streams, reset, made, sock, bound, alive>>

SocketConnect(t, a) ==
  /\ t \in up /\ Used(sock[t]) /\ desc[sock[t]].kind = "new" /\ FreeConns # {}
  /\ \E g \in Fds :
       /\ desc[g].kind = "listening" /\ desc[g].addr = a /\ Len(queue[g]) < Backlog
       /\ LET c == Lowest(FreeConns)
          IN /\ queue' = [queue EXCEPT ![g] = Append(@, c)]
             /\ streams' = [streams EXCEPT ![c] = [s \in Sides |-> Unused]]
             /\ reset' = reset \ {c}
             /\ desc' = [desc EXCEPT ![sock[t]].kind = "stream", ![sock[t]].conn = c,
                                     ![sock[t]].side = 1]
  /\ UNCHANGED <<port, up, given, alive>>

-----------------------------------------------------------------------------
(* Send and receive.                                                        *)

\* Mutant: what was asked for is reported as sent.
SendResultMut_Asked(n, k) == n

\* The bytes the system has taken, which may be fewer than asked for.
SendResult(n, k) == k

SocketSend(t, n) ==
  \E f \in Connected(t) :
    LET c == desc[f].conn  s == desc[f].side
    IN /\ ~streams[c][s].shut
       /\ \E k \in 1 .. n :
            /\ streams[c][s].sent + n <= MaxWords[port]
            /\ streams' = [streams EXCEPT ![c][s].taken = @ + k,
                                          ![c][s].sent = @ + SendResult(n, k)]
            /\ reset' = IF Open(c, Other(s)) THEN reset ELSE reset \cup {c}
       /\ UNCHANGED <<port, up, desc, queue, given, alive>>

\* send to a connection that was broken off or shut: a process that has not asked for
\* anything else is ended by the signal SIGPIPE.
SendBroken(t) ==
  /\ \E f \in Connected(t) :
       desc[f].conn \in reset \/ streams[desc[f].conn][desc[f].side].shut
  /\ alive' = FALSE
  /\ UNCHANGED <<port, up, noNet, given>>

SocketRecv(t, n) ==
  \E f \in Connected(t) :
    LET c == desc[f].conn  s == Other(desc[f].side)
    IN /\ c \notin reset
       /\ streams[c][s].got = streams[c][s].taken => streams[c][s].shut /\ ~streams[c][s].ended
       /\ IF streams[c][s].got = streams[c][s].taken
          THEN streams' = [streams EXCEPT ![c][s].ended = TRUE]
          ELSE \E k \in 1 .. n :
                 /\ streams[c][s].got + k <= streams[c][s].taken
                 /\ streams' = [streams EXCEPT ![c][s].got = @ + k]
       /\ UNCHANGED <<port, up, desc, queue, reset, given, alive>>

-----------------------------------------------------------------------------
(* The ports.                                                               *)

Lives(p, t) == alive /\ port = p /\ t \in Threads

Opens(t) ==
  SocketInit(t) \/ SocketCleanup(t) \/ SocketCreate(t) \/ SocketClose(t) \/ CloseAccepted(t)

Connects(t) ==
  \/ t \in Servers /\ (SocketListen(t) \/ SocketAccept(t))
  \/ t \in Clients /\ \E a \in Addresses : SocketConnect(t, a)

Names(t) == t \in Servers /\ \E a \in Addresses : SocketBind(t, a)

Moves(t) == \E n \in 1 .. MaxWords[port] : SocketSend(t, n) \/ SocketRecv(t, n)

LinuxApplOpens(t) == Lives("linux_appl", t) /\ (Opens(t) \/ SocketShutdown(t))
VxworksOpens(t) == Lives("vxworks", t) /\ (Opens(t) \/ SocketShutdown(t))
EcosOpens(t) == Lives("ecos", t) /\ (Opens(t) \/ SocketShutdown(t))
Win32Opens(t) == Lives("win32", t) /\ (Opens(t) \/ SocketShutdown(t))
NucleusOpens(t) == Lives("nucleus", t) /\ Opens(t)
LinuxDrvOpens(t) ==
  Lives("linux_drv", t) /\ (SocketInit(t) \/ SocketCleanup(t) \/ DrvCreate(t) \/ DrvClose(t))

LinuxApplConnects(t) == Lives("linux_appl", t) /\ (Names(t) \/ Connects(t))
VxworksConnects(t) == Lives("vxworks", t) /\ (Names(t) \/ Connects(t))
EcosConnects(t) == Lives("ecos", t) /\ (Names(t) \/ Connects(t))
NucleusConnects(t) == Lives("nucleus", t) /\ (Names(t) \/ Connects(t))
Win32Connects(t) ==
  /\ Lives("win32", t)
  /\ \/ Connects(t)
     \/ t \in Servers /\ \E a \in Addresses : Win32Bind(t, a)
LinuxDrvConnects(t) == Lives("linux_drv", t) /\ Names(t)

LinuxApplMoves(t) == Lives("linux_appl", t) /\ (Moves(t) \/ SendBroken(t))
VxworksMoves(t) == Lives("vxworks", t) /\ Moves(t)
EcosMoves(t) == Lives("ecos", t) /\ Moves(t)
Win32Moves(t) == Lives("win32", t) /\ Moves(t)
NucleusMoves(t) == Lives("nucleus", t) /\ Moves(t)

\* Nothing is done, and all calls succeed; no number is stored for the socket.
Pretends(p, t) ==
  /\ Lives(p, t)
  /\ \/ SocketInit(t) \/ SocketCleanup(t) \/ Created(t, None) \/ SocketClose(t)
     \/ /\ t \in made /\ bound[t] = Nowhere
        /\ \E a \in Addresses : bound' = [bound EXCEPT ![t] = a]
        /\ UNCHANGED <<port, up, noNet, made, sock, conn, alive>>

RtemsSockets(t) == Pretends("rtems", t)
GenericSockets(t) == Pretends("generic", t)

Call(t) ==
  \/ LinuxApplOpens(t) \/ LinuxApplConnects(t) \/ LinuxApplMoves(t)
  \/ LinuxDrvOpens(t) \/ LinuxDrvConnects(t)
  \/ VxworksOpens(t) \/ VxworksConnects(t) \/ VxworksMoves(t)
  \/ EcosOpens(t) \/ EcosConnects(t) \/ EcosMoves(t)
  \/ Win32Opens(t) \/ Win32Connects(t) \/ Win32Moves(t)
  \/ NucleusOpens(t) \/ NucleusConnects(t) \/ NucleusMoves(t)
  \/ RtemsSockets(t) \/ GenericSockets(t)

Next == \E t \in Threads : Call(t)

Spec == Init /\ [][Next]_vars

-----------------------------------------------------------------------------
Holds(t, f) == f # None /\ (sock[t] = f \/ conn[t] = f)

\* Every descriptor the system keeps belongs to one thread, and no thread that has the
\* sockets initialised loses one by what another thread does.
SocketsOwned ==
  /\ \A f \in Fds : Used(f) => Cardinality({t \in Threads : Holds(t, f)}) = 1
  /\ \A t \in up, f \in Fds : Holds(t, f) => Used(f)

\* Two threads are not both told that the same address is that of their socket.
BoundAlone ==
  \A t, u \in Threads : bound[t] # Nowhere /\ bound[t] = bound[u] => t = u

\* So it is where there are addresses, and an error for one in use is one.
BindsTrue == port \in Stubs \cup {"win32"} \/ BoundAlone

\* Who has received all there is has received all that the other side was told was sent.
EndTrue ==
  \A c \in Conns, s \in Sides :
    c \notin reset /\ streams[c][s].ended => streams[c][s].got = streams[c][s].sent

\* "IFX_ERROR if operation failed": a thread that was told it has a socket has one.
CreatedTrue == port \notin Stubs => \A t \in made \cap up : Used(sock[t])

\* "Returns a negative value if an error occured", so that no call ends the program.
Survives == alive
=============================================================================
