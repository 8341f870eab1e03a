------------------------------- MODULE VarFifo -------------------------------
(***************************************************************************)
(* The variable-sized FIFO of src/common/ifx_fifo.c.  Addresses are word   *)
(* indices relative to pStart: pStart is 0 and pEnd, the first address     *)
(* beyond the buffer, is Words.  An element lies in the buffer as a header *)
(* word (its size in bytes), its payload and a trailer word, and never     *)
(* across pEnd: a writer that does not fit before pEnd puts the word Ones  *)
(* where it stands and starts again at 0.                                  *)
(*                                                                         *)
(* Debug output and the statistics of the system object are left out.  The *)
(* range checks on leaving the two functions are those of their entries    *)
(* (pRead, pWrite in TypeOK) and have no branch of their own, except the   *)
(* one of writeElement, which decides whether the element is counted.      *)
(***************************************************************************)
EXTENDS Integers, Sequences

CONSTANTS
  Words,       (* pEnd - pStart, in IFX_ulong_t                            *)
  WordBytes,   (* sizeof(IFX_ulong_t)                                      *)
  Sizes,       (* the sizes in bytes the callers write                     *)
  MaxElSize,   (* the maxElSize of IFX_Var_Fifo_Init                       *)
  Data,        (* what a caller fills the payload words of an element with *)
  Trailer,     (* SIZE_TRAILER_VALUE                                       *)
  Ones,        (* (IFX_ulong_t)~0                                          *)
  Wrap32,      (* 2^32, or a smaller bound above every room: see U32       *)
  MaxCount,    (* bound of the model: elements counted                     *)
  Null

ASSUME LayoutAssumption ==
  /\ Words \in Nat /\ Words > 2
  /\ WordBytes \in {4, 8}
  /\ Sizes \subseteq Nat
  /\ MaxElSize \in Nat
  /\ Data \subseteq Nat

ASSUME WordAssumption ==
  /\ Trailer \in Nat /\ Ones \in Nat /\ Trailer # Ones
  /\ Wrap32 \in Nat /\ Wrap32 > Words + MaxElSize
  /\ \A b \in Sizes : b < Trailer /\ b < Ones

VARIABLES
  pRead, pWrite, count,
  mem,         (* the words of the buffer; grows if a write leaves it      *)
  unread,      (* history: the elements written and not read, oldest first,*)
               (* each with the index of its header                        *)
  answer       (* the last call, and the element it was about or Null      *)

vars == <<pRead, pWrite, count, mem, unread, answer>>

Overhead == 2                             \* SIZE_HEADER + SIZE_TRAILER

ToUlongSize(b) == (b + WordBytes - 1) \div WordBytes
Total(b) == ToUlongSize(b) + Overhead
size == ToUlongSize(MaxElSize)

\* an element as its writer and its reader see it
Element(b, data) == [size |-> b, data |-> [i \in 1..ToUlongSize(b) |-> data]]

Init ==
  /\ pRead = 0 /\ pWrite = 0 /\ count = 0
  /\ mem = [i \in 0..Words - 1 |-> 0]
  /\ unread = <<>>
  /\ answer = <<"init", Null>>

-----------------------------------------------------------------------------
\* A negative long returned as IFX_uint32_t.
U32(n) == n % Wrap32

Larger(a, b) == IF a > b THEN a ELSE b

Ahead == pRead - pWrite                  \* -diff: words from pWrite up to pRead

TailRoom == Words - pWrite - Overhead
HeadRoom == pRead - Overhead
GapRoom  == IF Ahead <= Overhead THEN 0 ELSE Ahead - Overhead

\* Mutant: equal pointers always mean that the FIFO is empty.
RoomMut_CountIgnored ==
  IF pWrite = pRead THEN Words - Overhead
  ELSE IF pWrite > pRead THEN U32(Larger(HeadRoom, TailRoom)) ELSE GapRoom

\* Mutant: equal pointers always mean that the FIFO is full.
RoomMut_EmptyIgnored ==
  IF pWrite = pRead THEN 0
  ELSE IF pWrite > pRead THEN U32(Larger(HeadRoom, TailRoom)) ELSE GapRoom

\* Mutant: the room at the head leaves no space for the trailer.
RoomMut_NoTrailer ==
  IF pWrite = pRead THEN IF count # 0 THEN 0 ELSE Words - Overhead
  ELSE IF pWrite > pRead THEN U32(Larger(pRead - 1, TailRoom)) ELSE GapRoom

GetRoom ==
  IF pWrite = pRead THEN IF count # 0 THEN 0 ELSE Words - Overhead
  ELSE IF pWrite > pRead THEN U32(Larger(HeadRoom, TailRoom)) ELSE GapRoom

IsFull == GetRoom < size

\* Mutant: the test for the end of the buffer leaves out the trailer.
DoesNotFitMut_NoTrailer(el) == pWrite >= pRead /\ el + 1 > Words - pWrite

\* Where the next element starts, given its size in words.
DoesNotFit(el) == pWrite >= pRead /\ el + Overhead > Words - pWrite
WritePos(el) == IF DoesNotFit(el) THEN 0 ELSE pWrite

\* Header, payload (filled by the caller through the returned pointer) and
\* trailer of an element at p.
Image(p, b, data) ==
  LET el == ToUlongSize(b) IN
  [i \in p..p + el + 1 |->
     IF i = p THEN b ELSE IF i = p + el + 1 THEN Trailer ELSE data]

\* The buffer after storing the words w, wherever they lie.
Store(w, m) ==
  [i \in DOMAIN w \cup DOMAIN m |-> IF i \in DOMAIN w THEN w[i] ELSE m[i]]

Marked(el) ==
  IF DoesNotFit(el) THEN Store([i \in {pWrite} |-> Ones], mem) ELSE mem

writeElement(b, data) ==
  LET el  == ToUlongSize(b)
      pos == WritePos(el)
      end == pos + el + Overhead
  IN  IF \/ pWrite < 0 \/ pWrite >= Words
         \/ el > GetRoom \/ el > size
      THEN /\ answer' = <<"refused", Element(b, data)>>
           /\ UNCHANGED <<pRead, pWrite, count, mem, unread>>
      ELSE /\ mem' = Store(Image(pos, b, data), Marked(el))
           /\ pWrite' = IF end = Words THEN 0 ELSE end
           /\ UNCHANGED pRead
           /\ IF pWrite' < Words
              THEN /\ count' = count + 1
                   /\ unread' = Append(unread,
                                  [at |-> pos, element |-> Element(b, data)])
                   /\ answer' = <<"written", Element(b, data)>>
              ELSE /\ answer' = <<"refused", Element(b, data)>>
                   /\ UNCHANGED <<count, unread>>

-----------------------------------------------------------------------------
\* Mutant: the reader does not look for the end marker.
ReadPosMut_NoMarker == IF Words - pRead <= Overhead THEN 0 ELSE pRead

\* Where reading starts.  At pRead = Words the code looks at the word beyond
\* the buffer as well; the first disjunct decides whatever it holds.
ReadPos ==
  IF Words - pRead <= Overhead \/ mem[pRead] = Ones THEN 0 ELSE pRead

Overflows(p) == p + Total(mem[p]) > Words

TrailerPos(p) == p + ToUlongSize(mem[p]) + 1

\* An overwritten trailer is reported and replaced, and the element returned.
Checked(p) ==
  IF mem[TrailerPos(p)] = Trailer
  THEN mem
  ELSE Store([i \in {TrailerPos(p)} |-> Ones], mem)

Stored(p) == [size |-> mem[p],
              data |-> [i \in 1..ToUlongSize(mem[p]) |-> mem[p + i]]]

ReadOutOfRange == pRead < 0 \/ pRead > Words

readElement ==
  IF ReadOutOfRange \/ count = 0
  THEN /\ answer' = <<"read", Null>>
       /\ UNCHANGED <<pRead, pWrite, count, mem, unread>>
  ELSE IF Overflows(ReadPos)
  THEN /\ answer' = <<"read", Null>>
       /\ pRead' = ReadPos
       /\ UNCHANGED <<pWrite, count, mem, unread>>
  ELSE /\ mem' = Checked(ReadPos)
       /\ answer' = <<"read", Stored(ReadPos)>>
       /\ pRead' = ReadPos + Total(mem[ReadPos])
       /\ count' = count - 1
       /\ unread' = Tail(unread)
       /\ UNCHANGED pWrite

peekElement ==
  /\ UNCHANGED <<pRead, pWrite, count, unread>>
  /\ IF ReadOutOfRange \/ count = 0 \/ Overflows(ReadPos)
     THEN answer' = <<"peeked", Null>> /\ UNCHANGED mem
     ELSE mem' = Checked(ReadPos) /\ answer' = <<"peeked", Stored(ReadPos)>>

Clear ==
  /\ pRead' = 0 /\ pWrite' = 0 /\ count' = 0
  /\ unread' = <<>>
  /\ answer' = <<"cleared", Null>>
  /\ UNCHANGED mem

Next ==
  \/ \E b \in Sizes, data \in Data :
       count < MaxCount /\ writeElement(b, data)
  \/ readElement
  \/ peekElement
  \/ Clear

Spec == Init /\ [][Next]_vars

\* A consumer that keeps reading.
FairSpec == Spec /\ WF_vars(readElement)

-----------------------------------------------------------------------------
\* The words an unread element occupies.
Extent(u) == u.at .. u.at + Total(u.element.size) - 1

\* Type invariant, and the memory safety of IFX_Var_Fifo_writeElement and
\* IFX_Var_Fifo_readElement: both pointers stay in the buffer, pWrite strictly
\* below pEnd, and no header, marker, payload or trailer is stored outside it.
TypeOK ==
  /\ pRead \in 0..Words
  /\ pWrite \in 0..Words - 1
  /\ count \in Nat
  /\ mem \in [0..Words - 1 -> Nat]
  /\ unread \in Seq([at : 0..Words - 1, element : [size : Nat, data : Seq(Nat)]])
  /\ count = Len(unread)

\* "would otherwise overwrite the next element": header, payload and trailer of
\* every element that is written and not yet read are still as they were
\* written, whatever writeElement accepted since.
Intact ==
  \A k \in DOMAIN unread :
    LET u == unread[k] IN
    /\ mem[u.at] = u.element.size
    /\ \A i \in DOMAIN u.element.data : mem[u.at + i] = u.element.data[i]
    /\ mem[u.at + Total(u.element.size) - 1] = Trailer

\* The reader stands where the oldest unread element starts, or at a marker or
\* in the last words from which the code goes to the start, when that element
\* is there: readElement and peekElement return the next element.
ReadsOldest == unread # <<>> => ReadPos = Head(unread).at

\* Every room that IFX_Var_Fifo_getRoom reports exists: there is a place in the
\* buffer for an element of that size which meets no unread element.
RoomIsFree ==
  GetRoom > 0 =>
    \E p \in 0..Words - 1 :
      /\ p + GetRoom + Overhead <= Words
      /\ \A k \in DOMAIN unread :
           Extent(unread[k]) \cap (p..p + GetRoom + 1) = {}

\* The buffer under any mix of calls: what was written stays, the reader finds it in
\* order, and the room that is reported is there.
ElementsKept == Intact /\ ReadsOldest /\ RoomIsFree

\* The FIFO implements a queue: contents and order of the elements are kept,
\* refused writes and empty reads change nothing, and an empty FIFO accepts
\* every element of at most MaxElSize bytes, rounded up to whole words, wherever
\* its pointers stand; no larger one is ever accepted.
Queue == INSTANCE ElementQueue WITH
  Requests <- {Element(b, data) : b \in Sizes, data \in Data},
  Elements <- {Element(b, data) : b \in {n \in Sizes : ToUlongSize(n) <= size},
                                  data \in Data},
  least    <- 1,
  most     <- Words,
  queue    <- [k \in DOMAIN unread |-> unread[k].element]

QueueSpec == Queue!Spec

\* Once the writers add nothing more, a consumer that keeps reading empties the
\* FIFO: no layout makes readElement answer IFX_NULL for ever while count is
\* above 0 (its overflow return leaves the element in place).
Drains ==
  <>[][Len(unread') <= Len(unread)]_vars => []<>(count = 0)
=============================================================================
