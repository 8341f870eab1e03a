------------------------------ MODULE MemFile ------------------------------
(***************************************************************************)
(* Files in memory on eCos, Windows and Nucleus (IFXOS_ADD_STATIC_MEMORY_FILE): *)
(* a table of a few entries, each the buffer of one user and a position in it, *)
(* shared by all threads without a lock.  IFXOS_FPrintf prints into the       *)
(* buffer.  Here every user has one buffer, with room behind it to see what is *)
(* stored there.                                                           *)
(***************************************************************************)
EXTENDS Integers, Sequences

CONSTANTS
  Ports,
  Users,
  NumEntries,  \* IFXOS_MAX_NUM_OF_STATIC_MEMFILES
  BufSize,
  Texts,       \* what is printed: sequences of characters
  MaxText,     \* bound of the check: what one user prints into one file
  Serial       \* whether only one user at a time opens

AllPorts == {"ecos", "win32", "nucleus"}

Null == "null"    \* no buffer

\* What is assumed of the constants.
MemFileAssumption ==
  /\ Null \notin Users
  /\ Ports \subseteq AllPorts
  /\ NumEntries \in Nat \ {0} /\ BufSize \in Nat \ {0} /\ MaxText \in Nat
  /\ Texts \subseteq Seq(Nat \ {0}) /\ Serial \in BOOLEAN

VARIABLES
  port,
  pBuffer, currPos,   \* of each entry
  found,    \* the entry that an open has found
  stream,   \* the entry each user has, as its stream
  mem,      \* the buffer of each user
  text,     \* what each user has printed since it opened
  nRet      \* what its last print returned, and the characters it stored

vars == <<port, pBuffer, currPos, found, stream, mem, text, nRet>>

Entries == 1 .. NumEntries
None == 0
End == 0          \* the end of a string
Untouched == -1
Cells == 0 .. MaxText

Init ==
  /\ port \in Ports
  /\ pBuffer = [e \in Entries |-> Null] /\ currPos = [e \in Entries |-> 0]
  /\ found = [u \in Users |-> None] /\ stream = [u \in Users |-> None]
  /\ mem = [u \in Users |-> [i \in Cells |-> Untouched]]
  /\ text = [u \in Users |-> << >>]
  /\ nRet = [u \in Users |-> <<0, 0>>]

-----------------------------------------------------------------------------
Free == {e \in Entries : pBuffer[e] = Null}

First(S) == CHOOSE e \in S : \A d \in S : e <= d

\* Mutant: the entry of highest number, in use or not.
OpenLookMut_Any(p, u) ==
  /\ port = p /\ stream[u] = None /\ found[u] = None
  /\ Serial => \A v \in Users : found[v] = None
  /\ found' = [found EXCEPT ![u] = NumEntries]
  /\ UNCHANGED <<port, pBuffer, currPos, stream, mem, text, nRet>>

\* The first entry without a buffer.
OpenLook(p, u) ==
  /\ port = p /\ stream[u] = None /\ found[u] = None
  /\ Serial => \A v \in Users : found[v] = None
  /\ Free # {}
  /\ found' = [found EXCEPT ![u] = First(Free)]
  /\ UNCHANGED <<port, pBuffer, currPos, stream, mem, text, nRet>>

OpenTake(p, u) ==
  /\ port = p /\ found[u] # None
  /\ pBuffer' = [pBuffer EXCEPT ![found[u]] = u]
  /\ currPos' = [currPos EXCEPT ![found[u]] = 0]
  /\ stream' = [stream EXCEPT ![u] = found[u]]
  /\ found' = [found EXCEPT ![u] = None]
  /\ mem' = [mem EXCEPT ![u] = [i \in Cells |-> Untouched]]
  /\ text' = [text EXCEPT ![u] = << >>]
  /\ UNCHANGED <<port, nRet>>

Opens(p, u) == OpenLook(p, u) \/ OpenTake(p, u)

Closes(p, u) ==
  /\ port = p /\ stream[u] # None
  /\ pBuffer' = [pBuffer EXCEPT ![stream[u]] = Null]
  /\ currPos' = [currPos EXCEPT ![stream[u]] = 0]
  /\ stream' = [stream EXCEPT ![u] = None]
  /\ UNCHANGED <<port, found, mem, text, nRet>>

\* n characters of t and the end of the string, from a place in a buffer on.
Stored(buf, from, t, n) ==
  [i \in Cells |-> IF i \in from .. from + n - 1 THEN t[i - from + 1]
                   ELSE IF i = from + n THEN End ELSE buf[i]]

\* Mutant: the end of the string counts.
PrintsMut_CountsEnd(p, u, t, n) ==
  /\ port = p /\ stream[u] # None
  /\ Len(text[u]) + Len(t) < MaxText
  /\ LET e == stream[u]
     IN /\ pBuffer[e] # Null
        /\ mem' = [mem EXCEPT ![pBuffer[e]] =
                     IF n = None THEN @ ELSE Stored(@, currPos[e], t, n - 1)]
        /\ currPos' = [currPos EXCEPT ![e] = @ + Len(t) + 1]
  /\ text' = [text EXCEPT ![u] = @ \o t]
  /\ nRet' = [nRet EXCEPT ![u] = <<Len(t), n>>]
  /\ UNCHANGED <<port, pBuffer, found, stream>>

\* Prints t, of which n - 1 characters and the end are stored, and nothing for n = 0.
Prints(p, u, t, n) ==
  /\ port = p /\ stream[u] # None
  /\ Len(text[u]) + Len(t) < MaxText
  /\ LET e == stream[u]
     IN /\ pBuffer[e] # Null
        /\ mem' = [mem EXCEPT ![pBuffer[e]] =
                     IF n = None THEN @ ELSE Stored(@, currPos[e], t, n - 1)]
        /\ currPos' = [currPos EXCEPT ![e] = @ + Len(t)]
  /\ text' = [text EXCEPT ![u] = @ \o t]
  /\ nRet' = [nRet EXCEPT ![u] = <<Len(t), n>>]
  /\ UNCHANGED <<port, pBuffer, found, stream>>

\* vsnprintf: the room is a difference of unsigned numbers, which is large for a
\* position behind the buffer, and the result is the length that was asked for.
EcosFPrintf(u, t) ==
  /\ stream[u] # None
  /\ LET pos == currPos[stream[u]]
         n == IF pos > BufSize \/ Len(t) < BufSize - pos THEN Len(t) + 1 ELSE BufSize - pos
     IN Prints("ecos", u, t, n)

\* vsprintf, which knows no size.
Win32FPrintf(u, t) == Prints("win32", u, t, Len(t) + 1)
NucleusFPrintf(u, t) == Prints("nucleus", u, t, Len(t) + 1)

EcosOpen(u) == Opens("ecos", u)
Win32Open(u) == Opens("win32", u)
NucleusOpen(u) == Opens("nucleus", u)

EcosClose(u) == Closes("ecos", u)
Win32Close(u) == Closes("win32", u)
NucleusClose(u) == Closes("nucleus", u)

Next ==
  \E u \in Users :
    \/ EcosOpen(u) \/ Win32Open(u) \/ NucleusOpen(u)
    \/ EcosClose(u) \/ Win32Close(u) \/ NucleusClose(u)
    \/ \E t \in Texts : EcosFPrintf(u, t) \/ Win32FPrintf(u, t) \/ NucleusFPrintf(u, t)

Spec == Init /\ [][Next]_vars

-----------------------------------------------------------------------------
Openers == {u \in Users : stream[u] # None}

\* Two users never share an entry, and each prints into its own buffer.
OneStream ==
  /\ \A u, v \in Openers : u # v => stream[u] # stream[v]
  /\ \A u \in Openers : pBuffer[stream[u]] = u

\* As long as it fits with its end, the buffer has what was printed, one piece after
\* the other, and nothing is stored behind it.
TextWhole ==
  \A u \in Openers : LET n == Len(text[u]) IN
    n \in 1 .. BufSize - 1 =>
      /\ \A i \in 1 .. n : mem[u][i - 1] = text[u][i]
      /\ mem[u][n] = End
      /\ \A i \in BufSize .. MaxText : mem[u][i] = Untouched

\* "For success - Number of written bytes": a print tells what it has stored.
CountTrue == \A u \in Users : nRet[u][1] > 0 => nRet[u][2] = nRet[u][1] + 1

\* Nothing is ever stored behind the buffer.
InBuffer == \A u \in Users : \A i \in BufSize .. MaxText : mem[u][i] = Untouched
=============================================================================
