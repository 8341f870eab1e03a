--------------------------- MODULE SocketAddress ---------------------------
(***************************************************************************)
(* IFXOS_SocketAton and IFXOS_SocketNtoa: dotted text to the address in a     *)
(* sockaddr_in and back.  Linux has a reader of its own for the kernel, the    *)
(* rest call the C library, whose inet_ntoa may have one buffer for all        *)
(* threads.  Text is a sequence of numbers, dots and words; an address is its   *)
(* four bytes in the order they have in memory, which is that of the network.  *)
(* Numbers are of any size, decimal, without a sign and without leading zeros:  *)
(* the library also takes 0x10 and 010, which the kernel's reader refuses or    *)
(* takes for ten, and that reader takes -0.                                    *)
(***************************************************************************)
EXTENDS Integers, Sequences

CONSTANTS
  Ports,
  Threads,
  Texts,         \* what is to be read
  Base,          \* the values of a byte, 256 in the code
  OneBuffer      \* the ports whose inet_ntoa has one buffer for all threads

AllPorts == {"linux_appl", "linux_drv", "vxworks", "ecos", "win32", "nucleus"}

Dot == -1
Word == -2

\* What is assumed of the constants.
SocketAddressAssumption ==
  /\ Ports \subseteq AllPorts /\ OneBuffer \subseteq AllPorts
  /\ Base \in Nat \ {0, 1}
  /\ Texts \subseteq Seq(Nat \cup {Dot, Word})

VARIABLES
  port,
  pc,      \* what each thread does
  sinAddr, \* the address in the structure of each thread
  asked,   \* the text it has read last
  told,    \* and what the call returned
  buffer,  \* the buffer of inet_ntoa, for each thread
  pBuffer, \* the text each thread has got
  little,  \* whether the kernel's machine has the lowest byte of a word first
  crossed  \* whether the buffer was filled anew before the thread had copied it

vars == <<port, pc, sinAddr, asked, told, buffer, pBuffer, little, crossed>>

Places == 1 .. 4
Byte == 0 .. Base - 1
Nothing == << >>
Zeros == <<0, 0, 0, 0>>
InaddrNone == [i \in Places |-> Base - 1]

Init ==
  /\ port \in Ports
  /\ pc = [t \in Threads |-> "idle"] /\ sinAddr = [t \in Threads |-> Zeros]
  /\ asked = [t \in Threads |-> Nothing] /\ told = [t \in Threads |-> "none"]
  /\ buffer = [t \in Threads |-> Nothing] /\ pBuffer = [t \in Threads |-> Nothing]
  /\ little \in BOOLEAN /\ (little => port = "linux_drv")
  /\ crossed = [t \in Threads |-> FALSE]

-----------------------------------------------------------------------------
(* Bytes and numbers.                                                       *)

\* The number of values of so many bytes.
Power(count) ==
  IF count = 0 THEN 1
  ELSE <<Base, Base * Base, Base * Base * Base, Base * Base * Base * Base>>[count]

\* The number whose four digits these are, the first one the highest.
Number(digits) == ((digits[1] * Base + digits[2]) * Base + digits[3]) * Base + digits[4]

Digits(n, count) == [i \in 1 .. count |-> (n \div Power(count - i)) % Base]

Backwards(a) == [i \in Places |-> a[5 - i]]
InMemory(digits) == IF little THEN Backwards(digits) ELSE digits

\* A number in a signed word of four bytes.
Int32(n) ==
  LET low == n % Power(4)
  IN IF 2 * low < Power(4) THEN low ELSE low - Power(4)

\* The numbers between the dots, if it is numbers and dots in turn.
Fields(x) == [i \in 1 .. (Len(x) + 1) \div 2 |-> x[2 * i - 1]]
Alternates(x) ==
  /\ Len(x) % 2 = 1
  /\ \A i \in 1 .. Len(x) : IF i % 2 = 1 THEN x[i] >= 0 ELSE x[i] = Dot

IsQuad(x) == Len(x) = 7 /\ Alternates(x) /\ \A i \in Places : Fields(x)[i] \in Byte

\* inet_aton and inet_addr: up to four numbers, of which the last has the rest of the
\* bytes.
LibReads(x) ==
  /\ Alternates(x) /\ Len(Fields(x)) \in Places
  /\ LET n == Len(Fields(x))
     IN /\ \A i \in 1 .. n - 1 : Fields(x)[i] \in Byte
        /\ Fields(x)[n] < Power(5 - n)

LibAddress(x) ==
  LET n == Len(Fields(x))
  IN SubSeq(Fields(x), 1, n - 1) \o Digits(Fields(x)[n], 5 - n)

\* A text with a number that does not fit in four bytes.
Wraps(x) == \E i \in 1 .. Len(x) : x[i] >= Power(4)

Dotted(a) == <<a[1], Dot, a[2], Dot, a[3], Dot, a[4]>>

-----------------------------------------------------------------------------
(* The reader of the kernel: four times a number, which ends at a dot or at the *)
(* end of the text.                                                         *)

Numeral(x, conv) == conv <= Len(x) /\ x[conv] >= 0

\* Where the number at conv ends: behind the end of the text conv is the null pointer.
Temp(x, conv) == IF Numeral(x, conv) THEN conv + 1 ELSE conv

\* The long that simple_strtol returns is kept in an IFX_int32_t.
IpAddr(x, conv) == IF Numeral(x, conv) THEN Int32(x[conv]) ELSE 0

\* Mutant: one value too many.
BadPartMut_Bound(x, conv, i) ==
  \/ IpAddr(x, conv) < 0 \/ IpAddr(x, conv) > Base
  \/ Temp(x, conv) = conv
  \/ i < 4 /\ (Temp(x, conv) > Len(x) \/ x[Temp(x, conv)] # Dot)

BadPart(x, conv, i) ==
  \/ IpAddr(x, conv) < 0 \/ IpAddr(x, conv) > Base - 1
  \/ Temp(x, conv) = conv
  \/ i < 4 /\ (Temp(x, conv) > Len(x) \/ x[Temp(x, conv)] # Dot)

\* conv stands behind the dot then.
ReadPart(x, read, i) ==
  [ok |-> read.ok /\ ~BadPart(x, read.conv, i),
   parts |-> Append(read.parts, IpAddr(x, read.conv)),
   conv |-> Temp(x, read.conv) + 1]

KernelRead(x) ==
  LET start == [ok |-> TRUE, parts |-> Nothing, conv |-> 1]
  IN ReadPart(x, ReadPart(x, ReadPart(x, ReadPart(x, start, 1), 2), 3), 4)

\* The end of the text is reached, by the byte behind it.
AllRead(x) == KernelRead(x).conv = Len(x) + 2

\* s_addr is moved up by a byte, and what does not fit is moved out of its 32 bits.
Shift(word, n) == (word * Base + n) % Power(4)

\* Mutant: the word is not full yet.
KernelStoreMut_Three(old, parts) ==
  LET word == Number(InMemory(old))
  IN InMemory(Digits(Shift(Shift(Shift(word, parts[2]), parts[3]), parts[4]), 4))

\* Four times, without having been cleared.
KernelStore(old, parts) ==
  LET word == Number(InMemory(old))
  IN InMemory(Digits(Shift(Shift(Shift(Shift(word, parts[1]), parts[2]), parts[3]), parts[4]), 4))

-----------------------------------------------------------------------------
(* Aton.                                                                    *)

Reads(p, t, x) ==
  /\ port = p /\ pc[t] = "idle"
  /\ asked' = [asked EXCEPT ![t] = x]
  /\ pBuffer' = [pBuffer EXCEPT ![t] = Nothing]
  /\ UNCHANGED <<port, pc, buffer, little, crossed>>

Stores(t, a, result) ==
  /\ sinAddr' = [sinAddr EXCEPT ![t] = a]
  /\ told' = [told EXCEPT ![t] = result]

Inet_aton(t, x) ==
  IF LibReads(x) THEN Stores(t, LibAddress(x), "success") ELSE Stores(t, sinAddr[t], "error")

LinuxApplAton(t, x) == Reads("linux_appl", t, x) /\ Inet_aton(t, x)
VxworksAton(t, x) == Reads("vxworks", t, x) /\ Inet_aton(t, x)
EcosAton(t, x) == Reads("ecos", t, x) /\ Inet_aton(t, x)

\* inet_addr, whose value for an error is stored like any other.
Win32Aton(t, x) ==
  /\ Reads("win32", t, x)
  /\ Stores(t, IF LibReads(x) THEN LibAddress(x) ELSE InaddrNone, "success")

LinuxDrvAton(t, x) ==
  /\ Reads("linux_drv", t, x)
  /\ IF KernelRead(x).ok /\ AllRead(x)
     THEN Stores(t, KernelStore(sinAddr[t], KernelRead(x).parts), "success")
     ELSE Stores(t, sinAddr[t], "error")

SocketAton(t) ==
  \E x \in Texts :
    \/ LinuxApplAton(t, x) \/ VxworksAton(t, x) \/ EcosAton(t, x)
    \/ Win32Aton(t, x) \/ LinuxDrvAton(t, x)

-----------------------------------------------------------------------------
(* Ntoa, and the macro.                                                      *)

Shares(t) == IF port \in OneBuffer THEN Threads ELSE {t}

\* inet_ntoa, into its own buffer.
Fills(p, t) ==
  /\ port = p /\ pc[t] = "idle"
  /\ pc' = [pc EXCEPT ![t] = "copying"]
  /\ buffer' = [u \in Threads |-> IF u \in Shares(t) THEN Dotted(sinAddr[t]) ELSE buffer[u]]
  /\ crossed' = [u \in Threads |->
                   u # t /\ (crossed[u] \/ (u \in Shares(t) /\ pc[u] = "copying"))]
  /\ UNCHANGED <<port, sinAddr, asked, told, pBuffer, little>>

\* strcpy, out of it.
Copies(p, t) ==
  /\ port = p /\ pc[t] = "copying"
  /\ pc' = [pc EXCEPT ![t] = "idle"]
  /\ pBuffer' = [pBuffer EXCEPT ![t] = buffer[t]]
  /\ UNCHANGED <<port, sinAddr, asked, told, buffer, little, crossed>>

LinuxApplNtoa(t) == Fills("linux_appl", t) \/ Copies("linux_appl", t)
Win32Ntoa(t) == Fills("win32", t) \/ Copies("win32", t)
EcosNtoa(t) == Fills("ecos", t) \/ Copies("ecos", t)

\* Mutant: the address is taken for a number of the host.
IntoOwnMut_HostOrder(p, t) ==
  /\ port = p /\ pc[t] = "idle"
  /\ pBuffer' = [pBuffer EXCEPT ![t] = Dotted(Backwards(sinAddr[t]))]
  /\ UNCHANGED <<port, pc, sinAddr, asked, told, buffer, little, crossed>>

\* inet_ntoa_b, into the buffer of the caller.
IntoOwn(p, t) ==
  /\ port = p /\ pc[t] = "idle"
  /\ pBuffer' = [pBuffer EXCEPT ![t] = Dotted(sinAddr[t])]
  /\ UNCHANGED <<port, pc, sinAddr, asked, told, buffer, little, crossed>>

VxworksNtoa(t) == IntoOwn("vxworks", t)
NucleusNtoa(t) == IntoOwn("nucleus", t)

SocketNtoa(t) ==
  LinuxApplNtoa(t) \/ Win32Ntoa(t) \/ EcosNtoa(t) \/ VxworksNtoa(t) \/ NucleusNtoa(t)

\* IFXOS_SOC_ADDR_SET, or a call that gives the address of the other side.
SocAddrSet(t) ==
  /\ pc[t] = "idle"
  /\ \E x \in Texts : IsQuad(x) /\ sinAddr' = [sinAddr EXCEPT ![t] = Fields(x)]
  /\ asked' = [asked EXCEPT ![t] = Nothing] /\ told' = [told EXCEPT ![t] = "none"]
  /\ pBuffer' = [pBuffer EXCEPT ![t] = Nothing]
  /\ UNCHANGED <<port, pc, buffer, little, crossed>>

Next == \E t \in Threads : SocketAton(t) \/ SocketNtoa(t) \/ SocAddrSet(t)

Spec == Init /\ [][Next]_vars

-----------------------------------------------------------------------------
\* A text of four numbers is read to the address of these four bytes, on every port and
\* whatever the structure held before; a kernel whose machine has the lowest byte of a
\* word first has them the other way round.
QuadsRead ==
  \A t \in Threads : IsQuad(asked[t]) =>
    told[t] = "success" /\ sinAddr[t] = InMemory(Fields(asked[t]))

\* "IFX_ERROR if operation failed": a call succeeds only for a text that names the
\* address it has stored.
TellsErrors(t) ==
  told[t] = "success" =>
    LibReads(asked[t]) /\ sinAddr[t] = InMemory(LibAddress(asked[t]))

\* So it is on Windows for texts that are addresses alone, and in the kernel for texts
\* whose numbers fit in a word.
ErrorsKept ==
  \A t \in Threads :
    \/ TellsErrors(t)
    \/ port = "win32" /\ ~LibReads(asked[t])
    \/ port = "linux_drv" /\ Wraps(asked[t])

\* The text a call has returned is that of the thread's own address, unless another thread
\* has filled the buffer they share: what was read as four numbers comes out as it went in.
OwnText ==
  \A t \in Threads : pc[t] = "idle" /\ pBuffer[t] # Nothing /\ ~crossed[t] =>
    /\ pBuffer[t] = Dotted(sinAddr[t])
    /\ IsQuad(asked[t]) => pBuffer[t] = asked[t]

\* ErrorsKept without its exceptions.
ErrorsTold == \A t \in Threads : TellsErrors(t)

\* "converts a dotted decimal address to a network address": the first byte comes first.
NetworkOrder == \A t \in Threads : IsQuad(asked[t]) => sinAddr[t] = Fields(asked[t])

\* OwnText without its exception.
TextIsOwn ==
  \A t \in Threads :
    pc[t] = "idle" /\ pBuffer[t] # Nothing => pBuffer[t] = Dotted(sinAddr[t])
=============================================================================
