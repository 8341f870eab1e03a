------------------------------ MODULE PortPipe ------------------------------
(***************************************************************************)
(* Named pipes (IFXOS_PipeCreate, Open, Close, Printf, Read): on Linux streams *)
(* of the C library over a FIFO of the kernel; on the other ports they are not  *)
(* built.  A writer prints elements of two bytes, and a reader reads them one  *)
(* by one.                                                                     *)
(***************************************************************************)
EXTENDS Integers, Sequences

CONSTANTS
  MaxPrints,    \* bound: the elements printed in one use of the pipe
  BufSize,      \* bytes of the writer's stream
  PipeSize      \* bytes of the FIFO, which takes the whole of a stream or nothing

\* What is assumed of the constants.
PortPipeAssumption ==
  /\ MaxPrints \in Nat /\ BufSize \in Nat \ {0} /\ PipeSize \in Nat /\ BufSize <= PipeSize

Ends == {"reader", "writer"}

VARIABLES
  node,       \* whether the FIFO is in the file system
  pc,         \* what each end does
  blocking,   \* how it has opened the pipe
  met,        \* whether the other end has come since it waits in open
  held,       \* the ends the kernel has open
  leaked,     \* those with a descriptor that no pointer leads to
  told,       \* what the last call of each end has returned
  spoilt,     \* history: an end was told of an error or went away, in this use of the pipe
  printed,    \* the elements printed
  buffer,     \* the bytes in the writer's stream
  fifo,       \* the bytes in the FIFO
  ahead,      \* the bytes in the reader's stream
  got         \* the bytes of the elements it was given

state == <<node, blocking, met, held, leaked>>
data == <<printed, buffer, fifo, ahead, got>>
vars == <<state, pc, told, spoilt, data>>

Bytes == Seq((1 .. MaxPrints) \X {1, 2})

TypeOK ==
  /\ node \in BOOLEAN
  /\ pc \in [Ends -> {"closed", "opening", "open", "reading", "printing", "closing", "killed"}]
  /\ blocking \in [Ends -> BOOLEAN] /\ met \in [Ends -> BOOLEAN] /\ spoilt \in BOOLEAN
  /\ held \subseteq Ends /\ leaked \subseteq Ends
  /\ told \in [Ends -> {"none", "ok", "error", "eof"}]
  /\ printed \in 0 .. MaxPrints
  /\ {buffer, fifo, ahead, got} \subseteq Bytes
  /\ Len(fifo) <= PipeSize /\ Len(buffer) <= BufSize + 2

Init ==
  /\ node = FALSE
  /\ pc = [e \in Ends |-> "closed"] /\ blocking = [e \in Ends |-> FALSE]
  /\ met = [e \in Ends |-> FALSE] /\ held = {} /\ leaked = {}
  /\ told = [e \in Ends |-> "none"] /\ spoilt = FALSE
  /\ printed = 0 /\ buffer = << >> /\ fifo = << >> /\ ahead = << >> /\ got = << >>

Element(k) == <<<<k, 1>>, <<k, 2>>>>

\* The bytes of the first n elements.
Elements(n) == [i \in 1 .. 2 * n |-> <<(i + 1) \div 2, ((i - 1) % 2) + 1>>]

Goes(e, s) == pc' = [pc EXCEPT ![e] = s]

\* A call returns, to where the end is afterwards.
Returns(e, s, result) ==
  /\ Goes(e, s) /\ told' = [told EXCEPT ![e] = result]
  /\ spoilt' = (spoilt \/ result = "error")

-----------------------------------------------------------------------------
(* Create and open.                                                         *)

\* A FIFO that is there already is as good as a new one.
PipeCreate(e) ==
  /\ pc[e] = "closed"
  /\ node' = TRUE
  /\ UNCHANGED <<pc, blocking, met, held, leaked, told, spoilt, data>>

\* Mutant: everybody opens the pipe for writing.
FlagsMut_Write(e) == "writer"

\* O_RDONLY or O_WRONLY.
Flags(e) == e

\* Somebody has the other end open, or waits for this one.
Present(e) ==
  \E o \in Ends \ {e} : Flags(o) # Flags(e) /\ (o \in held \/ pc[o] = "opening")

\* There is no FIFO, or it is O_NONBLOCK and O_WRONLY without a reader.
Refused(e, b) == ~node \/ (~b /\ Flags(e) = "writer" /\ ~Present(e))

\* The FIFO is empty when nobody has it: a new use of it begins.
Fresh ==
  IF held = {} /\ \A e \in Ends : pc[e] # "opening"
  THEN /\ printed' = 0 /\ buffer' = << >> /\ fifo' = << >> /\ ahead' = << >> /\ got' = << >>
       /\ spoilt' = FALSE
  ELSE UNCHANGED <<spoilt, data>>

\* The call of the kernel's open, which waits for the other end unless O_NONBLOCK is set.
PipeOpen(e, b) ==
  /\ pc[e] = "closed"
  /\ IF Refused(e, b)
     THEN /\ told' = [told EXCEPT ![e] = "error"]
          /\ UNCHANGED <<blocking, pc, met, held, spoilt, data>>
     ELSE /\ told' = [told EXCEPT ![e] = "none"]
          /\ blocking' = [blocking EXCEPT ![e] = b]
          /\ Goes(e, "opening") /\ Fresh
          /\ held' = (IF b THEN held ELSE held \cup {e})
          /\ met' = [o \in Ends |-> IF o = e THEN ~b \/ Present(e) ELSE met[o] \/ Present(e)]
  /\ UNCHANGED <<node, leaked>>

\* It has returned a descriptor.  Where fdopen has no memory for a stream, or the descriptor
\* is 0, which is taken for an error, it is not closed.
Opened(e) ==
  /\ pc[e] = "opening" /\ met[e]
  /\ held' = held \cup {e}
  /\ \/ Returns(e, "open", "ok") /\ UNCHANGED leaked
     \/ Returns(e, "closed", "error") /\ leaked' = leaked \cup {e}
  /\ met' = [met EXCEPT ![e] = FALSE]
  /\ UNCHANGED <<node, blocking, data>>

-----------------------------------------------------------------------------
(* Print.                                                                   *)

\* The stream writes out a buffer that is full, and all of it to be closed.
MustFlush == Len(buffer) > (IF pc["writer"] = "closing" THEN 0 ELSE BufSize)

PipePrintf ==
  /\ pc["writer"] = "open" /\ printed < MaxPrints
  /\ printed' = printed + 1
  /\ buffer' = buffer \o Element(printed + 1)
  /\ Goes("writer", "printing")
  /\ UNCHANGED <<state, told, spoilt, fifo, ahead, got>>

Piece == IF Len(buffer) < BufSize THEN Len(buffer) ELSE BufSize
Fits == Len(fifo) + Piece <= PipeSize

Flushing == pc["writer"] \in {"printing", "closing"} /\ MustFlush

Flush ==
  /\ Flushing /\ "reader" \in held /\ Fits
  /\ fifo' = fifo \o SubSeq(buffer, 1, Piece)
  /\ buffer' = SubSeq(buffer, Piece + 1, Len(buffer))
  /\ UNCHANGED <<state, pc, told, spoilt, printed, ahead, got>>

\* Nobody reads any more: a signal ends the process, and closes what it has open.
Killed ==
  /\ Flushing /\ "reader" \notin held
  /\ Goes("writer", "killed") /\ spoilt' = TRUE
  /\ held' = held \ {"writer"} /\ leaked' = leaked \ {"writer"}
  /\ buffer' = << >>
  /\ UNCHANGED <<node, blocking, met, told, printed, fifo, ahead, got>>

Printed ==
  /\ pc["writer"] = "printing" /\ ~MustFlush
  /\ Returns("writer", "open", "ok")
  /\ UNCHANGED <<state, data>>

NoRoom == Flushing /\ "reader" \in held /\ ~Fits /\ ~blocking["writer"]

\* The pipe is full and the stream does not wait; what it keeps is up to the C library.
PrintFails ==
  /\ pc["writer"] = "printing" /\ NoRoom
  /\ Returns("writer", "open", "error")
  /\ buffer' \in {<< >>, SubSeq(buffer, 1, BufSize)}
  /\ UNCHANGED <<state, printed, fifo, ahead, got>>

-----------------------------------------------------------------------------
(* Read.                                                                    *)

\* A stream at its end is only closed.
PipeRead ==
  /\ pc["reader"] = "open" /\ told["reader"] # "eof"
  /\ Goes("reader", "reading")
  /\ UNCHANGED <<state, told, spoilt, data>>

Reads == pc["reader"] = "reading" /\ Len(ahead) < Len(Element(1))

\* The stream takes what is in the FIFO.
Fill ==
  /\ Reads /\ fifo # << >>
  /\ ahead' = ahead \o fifo /\ fifo' = << >>
  /\ UNCHANGED <<state, pc, told, spoilt, printed, buffer, got>>

ReadDone ==
  /\ pc["reader"] = "reading" /\ ~Reads
  /\ got' = got \o SubSeq(ahead, 1, 2) /\ ahead' = SubSeq(ahead, 3, Len(ahead))
  /\ Returns("reader", "open", "ok")
  /\ UNCHANGED <<state, printed, buffer, fifo>>

\* Nothing comes any more, or not yet and the stream does not wait: fread returns the
\* number of whole elements, 0, and has taken the first byte of one.
ReadShort ==
  /\ Reads /\ fifo = << >>
  /\ \/ "writer" \notin held /\ Goes("reader", "open") /\ told' = [told EXCEPT !["reader"] = "eof"]
     \/ "writer" \in held /\ ~blocking["reader"]
        /\ Goes("reader", "open") /\ told' = [told EXCEPT !["reader"] = "none"]
  /\ ahead' = << >>
  /\ UNCHANGED <<state, spoilt, printed, buffer, fifo, got>>

-----------------------------------------------------------------------------
(* Close: fflush, fclose.                                                   *)

\* The kernel has what the stream had open closed, but for other descriptors of that end.
LetGo(e) == held' = held \ ({e} \ leaked) /\ UNCHANGED leaked

PipeClose(e) ==
  /\ pc[e] = "open"
  /\ Goes(e, "closing")
  /\ UNCHANGED <<state, told, spoilt, data>>

\* Mutant: flushed, but not closed.
ClosedMut_Flush(e) ==
  /\ pc[e] = "closing" /\ (e = "writer" => ~MustFlush)
  /\ Returns(e, "closed", "ok")
  /\ UNCHANGED <<state, data>>

\* A reader leaves what is in its stream and in the FIFO to nobody.
Closed(e) ==
  /\ pc[e] = "closing" /\ (e = "writer" => ~MustFlush)
  /\ LetGo(e)
  /\ Goes(e, "closed") /\ told' = [told EXCEPT ![e] = "ok"]
  /\ spoilt' = (spoilt \/ e = "reader")
  /\ ahead' = (IF e = "reader" THEN << >> ELSE ahead)
  /\ UNCHANGED <<node, blocking, met, printed, buffer, fifo, got>>

\* Mutant: the result of fclose is not looked at.
CloseFailsMut_Ok ==
  /\ pc["writer"] = "closing" /\ NoRoom
  /\ LetGo("writer")
  /\ Returns("writer", "closed", "ok")
  /\ buffer' = << >>
  /\ UNCHANGED <<node, blocking, met, printed, fifo, ahead, got>>

\* The rest cannot be written; the stream is gone all the same.
CloseFails ==
  /\ pc["writer"] = "closing" /\ NoRoom
  /\ LetGo("writer")
  /\ Returns("writer", "closed", "error")
  /\ buffer' = << >>
  /\ UNCHANGED <<node, blocking, met, printed, fifo, ahead, got>>

-----------------------------------------------------------------------------
Steps(e) ==
  \/ Opened(e) \/ Closed(e)
  \/ e = "writer" /\ (Flush \/ Killed \/ Printed \/ PrintFails \/ CloseFails)
  \/ e = "reader" /\ (Fill \/ ReadDone \/ ReadShort)

Next ==
  \/ \E e \in Ends :
       \/ PipeCreate(e) \/ PipeClose(e) \/ Steps(e)
       \/ \E b \in BOOLEAN : PipeOpen(e, b)
  \/ PipePrintf \/ PipeRead

\* What is inside a call goes on.
Spec == Init /\ [][Next]_vars /\ \A e \in Ends : WF_vars(Steps(e))

-----------------------------------------------------------------------------
\* An end that has no pointer, since its open was refused or its pipe is closed, has not left
\* it open in the kernel, where the other end would wait for it, unless an open of its got a
\* descriptor and no stream.
NullIsClosed ==
  \A e \in Ends : pc[e] \in {"closed", "killed"} => e \notin held \/ e \in leaked

\* What was printed is with the reader or on its way, byte for byte and in order: in the
\* reader's stream, the FIFO and the writer's stream, across full buffers and close, as long
\* as no call has returned an error and the reader waits for its elements.
NothingLost ==
  ~spoilt /\ blocking["reader"] => got \o ahead \o fifo \o buffer = Elements(printed)

\* The reader and the writer wait for each other in open, whichever came first.
Meeting == \A e \in Ends : pc[e] = "opening"

\* The reader waits for a writer that has closed the pipe, and has no other descriptor of it.
ReadsClosed ==
  pc["reader"] = "reading" /\ pc["writer"] = "closed" /\ "writer" \notin leaked

\* "in case of error the return value is NULL", and then the pipe is not open.
RefusedIsClosed == \A e \in Ends : pc[e] = "closed" => e \notin held
=============================================================================
