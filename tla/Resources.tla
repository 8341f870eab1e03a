----------------------------- MODULE Resources -----------------------------
(***************************************************************************)
(* A program that uses one of the services which hand out something of the    *)
(* port: mappings of memory, files, files in memory, addresses, sockets.      *)
(* The services share no state, so that a behaviour is one of the service the *)
(* program uses (part), and the variables of the others are off.  Each service *)
(* is a module of its own, whose variables keep their names here.             *)
(***************************************************************************)
EXTENDS Integers, Sequences, FiniteSets

CONSTANTS
  Off,               \* the value of what is not in use
  Pair, Lone,        \* the threads: those that are alike and another
  Single,            \* a server on the ports where there are not those that are alike
  Regions,           \* the regions of the memory, of which some may overlap
  Contents,          \* what is written to a file
  LonePorts,         \* bound of the check: the ports on which only Lone has files
  NumEntries, BufSize, Texts, MaxText,  \* the files in memory, see MemFile
  Base, AddressTexts,  \* the addresses, see SocketAddress
  CrowdedPorts,      \* bound of the check: the ports on which Pair are servers
  Addresses, NumFds, NumConns, Backlog, MaxWords    \* the sockets, see PortSocket

Threads == Pair \cup Lone

VARIABLES
  part, port,
  pc, told, streams, pBuffer,                                    \* of several services
  busy, region, virt, disputed,                                  \* MemoryMap
  file, alloc, size, data, passed, quiet, saved, faulty,         \* FileAccess
  currPos, found, stream, mem, text, nRet,                       \* MemFile
  sinAddr, asked, buffer, little, crossed,                       \* SocketAddress
  up, desc, queue, reset, made, sock, conn, bound, alive         \* PortSocket

memoryVars == <<busy, region, virt, disputed>>
fileVars == <<file, alloc, size, data, passed, quiet, saved, faulty>>
textVars == <<currPos, found, stream, mem, text, nRet>>
addressVars == <<sinAddr, asked, buffer, little, crossed>>
socketVars == <<up, desc, queue, reset, made, sock, conn, bound, alive>>
shared == <<port, pc, told, streams, pBuffer>>
vars == <<part, shared, memoryVars, fileVars, textVars, addressVars, socketVars>>

-----------------------------------------------------------------------------
MemoryPart == INSTANCE MemoryMap WITH
  Ports <- {"linux_drv", "linux_appl", "ecos", "vxworks", "win32", "nucleus", "rtems", "generic"},
  Drivers <- Threads, InterfaceCheck <- TRUE

FilePart == INSTANCE FileAccess WITH
  Ports <- {"linux_appl", "sun_os", "ecos", "vxworks", "win32", "nucleus", "rtems", "generic"}

TextPart == INSTANCE MemFile WITH
  Ports <- {"ecos", "win32", "nucleus"}, Users <- Threads, Texts <- Texts, Serial <- TRUE

AddressPart == INSTANCE SocketAddress WITH
  Ports <- {"linux_appl", "linux_drv", "vxworks", "ecos", "win32", "nucleus"},
  Threads <- Pair, Texts <- AddressTexts, OneBuffer <- {"ecos"}

SocketPart == INSTANCE PortSocket WITH
  Ports <- {"linux_appl", "linux_drv", "vxworks", "ecos", "win32", "nucleus", "rtems", "generic"},
  Servers <- Pair \cup Single, Clients <- Lone

ASSUME ResourcesAssumption ==
  /\ MemoryPart!MemoryMapAssumption /\ FilePart!FileAccessAssumption /\ TextPart!MemFileAssumption
  /\ AddressPart!SocketAddressAssumption /\ SocketPart!PortSocketAssumption

-----------------------------------------------------------------------------
\* The threads that load and write files.
FileUsers == IF port \in LonePorts THEN Lone ELSE Pair

\* The servers and the clients.
SocketUsers == Lone \cup IF port \in CrowdedPorts THEN Pair ELSE Single

Init ==
  /\ \/ part = "memory" /\ MemoryPart!Init
     \/ part = "files" /\ FilePart!Init
     \/ part = "texts" /\ TextPart!Init
     \/ part = "addresses" /\ AddressPart!Init
     \/ part = "sockets" /\ SocketPart!Init
  /\ part # "memory" => busy = Off /\ region = Off /\ virt = Off /\ disputed = Off
  /\ part # "files" =>
       /\ file = Off /\ alloc = Off /\ size = Off /\ data = Off
       /\ passed = Off /\ quiet = Off /\ saved = Off /\ faulty = Off
  /\ part # "texts" =>
       /\ currPos = Off /\ found = Off /\ stream = Off /\ mem = Off /\ text = Off /\ nRet = Off
  /\ part # "addresses" =>
       sinAddr = Off /\ asked = Off /\ buffer = Off /\ little = Off /\ crossed = Off
  /\ part # "sockets" =>
       /\ up = Off /\ desc = Off /\ queue = Off /\ reset = Off /\ made = Off
       /\ sock = Off /\ conn = Off /\ bound = Off /\ alive = Off
  /\ part \in {"texts", "sockets"} => pc = Off /\ told = Off
  /\ part \notin {"files", "sockets"} => streams = Off
  /\ part \notin {"texts", "addresses"} => pBuffer = Off

\* What is off stays off.
Rest ==
  /\ UNCHANGED part
  /\ part # "memory" => UNCHANGED memoryVars
  /\ part # "files" => UNCHANGED fileVars
  /\ part # "texts" => UNCHANGED textVars
  /\ part # "addresses" => UNCHANGED addressVars
  /\ part # "sockets" => UNCHANGED socketVars
  /\ part \in {"texts", "sockets"} => UNCHANGED <<pc, told>>
  /\ part \notin {"files", "sockets"} => UNCHANGED streams
  /\ part \notin {"texts", "addresses"} => UNCHANGED pBuffer

Next ==
  \/ part = "memory" /\ MemoryPart!Next /\ Rest
  \/ part = "files" /\ (\E t \in FileUsers : FilePart!FileCall(t)) /\ Rest
  \/ part = "texts" /\ TextPart!Next /\ Rest
  \/ part = "addresses" /\ AddressPart!Next /\ Rest
  \/ part = "sockets" /\ (\E t \in SocketUsers : SocketPart!Call(t)) /\ Rest

Spec == Init /\ [][Next]_vars

-----------------------------------------------------------------------------
\* IFXOS_Phy2VirtMap and Unmap: no address of the kernel's memory has two users, and its
\* list of reserved regions has what is mapped, but where another driver came between look
\* and request or gave back what was not its own; and no more than that, but for a region
\* at address 0.
RegionsKept == part = "memory" => MemoryPart!OneUser /\ MemoryPart!ListTrue

\* IFXOS_FileLoad and FileWrite: however a call ends its stream is closed and its memory
\* given back, and what an undisturbed write has reported is what the file holds.  The files
\* in memory of print_io: two users never share an entry, and each finds in its buffer what
\* it has printed, as long as it fits.
FilesKept ==
  /\ part = "files" => FilePart!NothingLeft /\ FilePart!WriteKept
  /\ part = "texts" => TextPart!OneStream /\ TextPart!TextWhole

\* IFXOS_FileLoad: a load that succeeds while nobody writes returns the whole file, with a
\* word behind it.
LoadsFile == [][part = "files" => FilePart!LoadIsFile]_pc

\* IFXOS_SocketAton and SocketNtoa: four numbers are read to the same address on every port,
\* but backwards by a little-endian kernel, and come out as they went in, but where threads
\* share a buffer at the same time; what is no address is an error, but on Windows and, with
\* a number that does not fit in a word, in the kernel.
AddressesRead ==
  part = "addresses" => AddressPart!QuadsRead /\ AddressPart!ErrorsKept /\ AddressPart!OwnText

\* The socket calls: every descriptor the system keeps has one owner, who keeps it until its
\* own close; no two threads are told that they have the same address; who has received all
\* there is has received all that the other side was told was sent.
SocketsKept ==
  part = "sockets" => SocketPart!SocketsOwned /\ SocketPart!BindsTrue /\ SocketPart!EndTrue
=============================================================================
