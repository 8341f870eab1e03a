------------------------------ MODULE FifoProofs ------------------------------
(***************************************************************************)
(* The two FIFOs of common/ifx_fifo.c, for every buffer length, word width *)
(* and set of element sizes.                                               *)
(*                                                                         *)
(* Memory safety of the variable-sized FIFO: TypeOK is inductive by        *)
(* itself.  That a write stays in the buffer follows from getRoom alone    *)
(* when pWrite is below pRead, and from the test for the end of the buffer *)
(* and the largest element size otherwise.                                 *)
(*                                                                         *)
(* The fixed-size FIFO is a queue: the elements lie one behind the other   *)
(* around a ring of max_size places (RingInv).                             *)
(*                                                                         *)
(* The variable-sized FIFO is a queue as long as no element ends in the    *)
(* last word or at the end of the buffer (Fitting): the elements lie in    *)
(* one stretch of the buffer, or in two with the marker between (LaidOut). *)
(***************************************************************************)
EXTENDS MCFifo, SequenceTheorems, TLAPS

\* What the proof asks of the user: no element of 0 bytes is written, and the
\* largest element fits the buffer with its header and trailer.
SafeUse ==
  /\ \A b \in Sizes : b > 0
  /\ size + Overhead <= Words

\* TO_ULONG_SIZE gives a number of words.
LEMMA ToUlongSizeNat ==
  ASSUME NEW b \in Nat
  PROVE  ToUlongSize(b) \in Nat
<1>1. WordBytes \in {4, 8}
  BY LayoutAssumption
<1>2. CASE WordBytes = 4
  BY <1>2 DEF ToUlongSize
<1>3. CASE WordBytes = 8
  BY <1>3 DEF ToUlongSize
<1>4. QED
  BY <1>1, <1>2, <1>3

\* An element of at least one byte has at least one payload word.
LEMMA ToUlongSizePositive ==
  ASSUME NEW b \in Nat, b > 0
  PROVE  ToUlongSize(b) > 0
<1>1. WordBytes \in {4, 8}
  BY LayoutAssumption
<1>2. CASE WordBytes = 4
  BY <1>2 DEF ToUlongSize
<1>3. CASE WordBytes = 8
  BY <1>3 DEF ToUlongSize
<1>4. QED
  BY <1>1, <1>2, <1>3

\* With pWrite below pRead, an element within the room that getRoom reports ends
\* at pRead at the latest, its header and trailer included.
LEMMA RoomBelow ==
  ASSUME TypeOK, pWrite < pRead, NEW el \in Nat, el > 0, el <= GetRoom
  PROVE  pWrite + el + Overhead <= pRead
BY LayoutAssumption DEF TypeOK, GetRoom, GapRoom, Ahead, Overhead

\* Storing words of the buffer leaves a buffer.
LEMMA StoreType ==
  ASSUME NEW S, NEW T, NEW m \in [S -> T],
         NEW w, DOMAIN w \subseteq S, \A i \in DOMAIN w : w[i] \in T
  PROVE  Store(w, m) \in [S -> T]
BY DEF Store

\* An element that writeElement accepts ends at pEnd at the latest.
LEMMA WriteFits ==
  ASSUME SafeUse, TypeOK, NEW el \in Nat, el > 0, el <= GetRoom, el <= size
  PROVE  /\ WritePos(el) \in 0..Words - 1
         /\ WritePos(el) + el + Overhead <= Words
<1> size \in Nat
  BY LayoutAssumption, ToUlongSizeNat DEF size
<1>1. CASE pWrite >= pRead
  BY <1>1, LayoutAssumption
     DEF SafeUse, TypeOK, WritePos, DoesNotFit, Overhead
<1>2. CASE pWrite < pRead
  BY <1>2, LayoutAssumption, RoomBelow
     DEF TypeOK, WritePos, DoesNotFit, Overhead
<1>3. QED
  BY <1>1, <1>2, LayoutAssumption DEF TypeOK

\* readElement never starts reading at pEnd, even when it left pRead there.
LEMMA ReadPosType == TypeOK => ReadPos \in 0..Words - 1
BY LayoutAssumption DEF TypeOK, ReadPos, Overhead

\* An element that readElement takes for one ends at pEnd at the latest, and
\* the repair of its trailer stays in the buffer.
LEMMA StoredType ==
  ASSUME TypeOK, NEW p \in 0..Words - 1, ~Overflows(p)
  PROVE  /\ Checked(p) \in [0..Words - 1 -> Nat]
         /\ p + Total(mem[p]) \in 0..Words
<1>1. mem[p] \in Nat /\ ToUlongSize(mem[p]) \in Nat
  BY ToUlongSizeNat DEF TypeOK
<1>2. p + Total(mem[p]) \in 0..Words
  BY <1>1, LayoutAssumption DEF Overflows, Total, Overhead
<1>3. TrailerPos(p) \in 0..Words - 1
  BY <1>1, <1>2, LayoutAssumption DEF TrailerPos, Total, Overhead
<1>4. CASE mem[TrailerPos(p)] = Trailer
  BY <1>2, <1>4 DEF Checked, TypeOK
<1>5. CASE mem[TrailerPos(p)] # Trailer
  <2> DEFINE w == [i \in {TrailerPos(p)} |-> Ones]
  <2>1. DOMAIN w \subseteq 0..Words - 1 /\ \A i \in DOMAIN w : w[i] \in Nat
    BY <1>3, WordAssumption
  <2>2. Store(w, mem) \in [0..Words - 1 -> Nat]
    BY <2>1, StoreType DEF TypeOK
  <2>3. QED
    BY <1>2, <1>5, <2>2 DEF Checked
<1>6. QED
  BY <1>4, <1>5

-----------------------------------------------------------------------------
\* IFX_Var_Fifo_writeElement keeps the pointers and the stored words in the buffer.
LEMMA WritePreservesType ==
  ASSUME SafeUse, TypeOK, NEW b \in Sizes, NEW data \in Data,
         writeElement(b, data)
  PROVE  TypeOK'
<1> DEFINE el  == ToUlongSize(b)
           pos == WritePos(el)
           end == pos + el + Overhead
<1>1. /\ b \in Nat /\ data \in Nat
      /\ el \in Nat /\ el > 0
      /\ Words \in Nat /\ Words > 2
  BY LayoutAssumption, ToUlongSizeNat, ToUlongSizePositive DEF SafeUse
<1>2. CASE UNCHANGED <<pRead, pWrite, count, mem, unread>>
  BY <1>2 DEF TypeOK
<1>3. CASE ~(pWrite < 0 \/ pWrite >= Words \/ el > GetRoom \/ el > size)
  <2>1. /\ mem' = Store(Image(pos, b, data), Marked(el))
        /\ pWrite' = (IF end = Words THEN 0 ELSE end)
        /\ pRead' = pRead
        /\ IF pWrite' < Words
           THEN /\ count' = count + 1
                /\ unread' = Append(unread,
                               [at |-> pos, element |-> Element(b, data)])
           ELSE UNCHANGED <<count, unread>>
    BY <1>3 DEF writeElement
  <2>2. GetRoom \in Nat /\ size \in Nat
    <3>1. size \in Nat
      BY LayoutAssumption, ToUlongSizeNat DEF size
    <3>2. GetRoom \in Int
      BY LayoutAssumption, WordAssumption
         DEF TypeOK, GetRoom, U32, Larger, HeadRoom, TailRoom, GapRoom, Ahead,
             Overhead
    <3>3. QED
      BY <1>1, <1>3, <3>1, <3>2
  <2>3. pos \in 0..Words - 1 /\ end <= Words
    BY <1>1, <1>3, <2>2, WriteFits
  <2>4. pWrite' \in 0..Words - 1
    BY <1>1, <2>1, <2>3 DEF Overhead
  <2>5. mem' \in [0..Words - 1 -> Nat]
    <3>1. Marked(el) \in [0..Words - 1 -> Nat]
      BY ZenonT(60), StoreType, WordAssumption DEF TypeOK, Marked
    <3>2. /\ DOMAIN Image(pos, b, data) \subseteq 0..Words - 1
          /\ \A i \in DOMAIN Image(pos, b, data) :
               Image(pos, b, data)[i] \in Nat
      BY <1>1, <2>3, WordAssumption DEF Image, Overhead
    <3>3. QED
      BY <2>1, <3>1, <3>2, StoreType
  <2>6. count' = count + 1 /\ unread' =
          Append(unread, [at |-> pos, element |-> Element(b, data)])
    BY <1>1, <2>1, <2>4
  <2>7. Element(b, data) \in [size : Nat, data : Seq(Nat)]
    BY <1>1 DEF Element
  <2>8. QED
    BY <2>1, <2>3, <2>4, <2>5, <2>6, <2>7 DEF TypeOK
<1>4. QED
  BY <1>2, <1>3 DEF writeElement

\* So does IFX_Var_Fifo_readElement, which repairs a broken trailer in place.
LEMMA ReadPreservesType ==
  ASSUME TypeOK, readElement
  PROVE  TypeOK'
<1>1. ReadPos \in 0..Words - 1
  BY ReadPosType
<1>2. CASE ReadOutOfRange \/ count = 0
  BY <1>2 DEF readElement, TypeOK
<1>3. CASE ~(ReadOutOfRange \/ count = 0) /\ Overflows(ReadPos)
  BY SMTT(30), <1>1, <1>3, LayoutAssumption DEF readElement, TypeOK
<1>4. CASE ~(ReadOutOfRange \/ count = 0) /\ ~Overflows(ReadPos)
  <2>1. /\ mem' = Checked(ReadPos)
        /\ pRead' = ReadPos + Total(mem[ReadPos])
        /\ count' = count - 1 /\ unread' = Tail(unread)
        /\ pWrite' = pWrite
    BY <1>4 DEF readElement
  <2>2. mem' \in [0..Words - 1 -> Nat] /\ pRead' \in 0..Words
    BY <1>1, <1>4, <2>1, StoredType
  <2>3. unread # <<>> /\ count \in Nat \ {0}
    BY <1>4 DEF TypeOK
  <2>4. QED
    BY SMTT(30), <2>1, <2>2, <2>3 DEF TypeOK
<1>5. QED
  BY <1>2, <1>3, <1>4

\* So does IFX_Var_Fifo_peekElement.
LEMMA PeekPreservesType ==
  ASSUME TypeOK, peekElement
  PROVE  TypeOK'
<1>1. UNCHANGED <<pRead, pWrite, count, unread>>
  BY DEF peekElement
<1>2. mem' \in [0..Words - 1 -> Nat]
  BY ReadPosType, StoredType DEF peekElement, TypeOK
<1>3. QED
  BY <1>1, <1>2 DEF TypeOK

\* Memory safety of the variable-sized FIFO: for every buffer, every mix of
\* element sizes above 0 of which the largest fits the buffer, and every
\* sequence of calls, both pointers stay in the buffer and nothing is stored
\* outside it, also in the layouts in which elements are lost.
THEOREM MemorySafety ==
  ASSUME SafeUse
  PROVE  Spec => []TypeOK
<1>1. Init => TypeOK
  BY LayoutAssumption DEF Init, TypeOK
<1>2. TypeOK /\ [Next]_vars => TypeOK'
  <2> SUFFICES ASSUME TypeOK, [Next]_vars
               PROVE  TypeOK'
    OBVIOUS
  <2>1. ASSUME NEW b \in Sizes, NEW data \in Data, writeElement(b, data)
        PROVE  TypeOK'
    BY <2>1, SafeUse, WritePreservesType
  <2>2. CASE readElement
    BY <2>2, ReadPreservesType
  <2>3. CASE peekElement
    BY <2>3, PeekPreservesType
  <2>4. CASE Clear
    BY <2>4, LayoutAssumption DEF Clear, TypeOK
  <2>5. CASE UNCHANGED vars
    BY <2>5 DEF vars, TypeOK
  <2>6. QED
    BY <2>1, <2>2, <2>3, <2>4, <2>5 DEF Next
<1>3. QED
  BY <1>1, <1>2, PTL DEF Spec

-----------------------------------------------------------------------------
(* The fixed-size FIFO, whose size is that of an element in words.           *)

\* The place k elements behind place r of the ring.
Slot(r, k) == IF r + k < maxSize THEN r + k ELSE r + k - maxSize

\* The elements lie one behind the other around the ring, from pRead to pWrite.
InRing ==
  valid =>
    \E r \in 0 .. maxSize - 1 :
      /\ pRead = r * elementSize /\ pWrite = Slot(r, count) * elementSize
      /\ \A k \in 1 .. count : unread[k].at = Slot(r, k - 1) * elementSize

\* What is written and not read is in its place.
Contents == \A k \in 1 .. count : mem[unread[k].at] = unread[k].data

RingInv == Fixed!TypeOK /\ count = Len(unread) /\ InRing /\ Contents

\* Multiples of the element size.
LEMMA Multiples ==
  ASSUME NEW s \in Nat \ {0}
  PROVE  /\ \A i \in Nat : i * s \in Nat /\ (i + 1) * s = i * s + s /\ i * s >= i
         /\ \A i \in Nat : (i - 1) * s = i * s - s
         /\ \A i, j \in Nat : i < j => i * s + s <= j * s
         /\ \A i, j \in Nat : i * s = j * s => i = j
         /\ \A i, j \in Nat : (i + j) * s = i * s + j * s /\ (i - j) * s = i * s - j * s
         /\ 0 * s = 0
<1>1. \A i \in Nat : i * s \in Nat /\ (i + 1) * s = i * s + s /\ i * s >= i
                     /\ (i - 1) * s = i * s - s
  OBVIOUS
<1>2. ASSUME NEW i \in Nat, NEW j \in Nat
      PROVE  (i + j) * s = i * s + j * s /\ (i - j) * s = i * s - j * s
  OBVIOUS
<1>3. ASSUME NEW i \in Nat, NEW j \in Nat, i < j
      PROVE  i * s + s <= j * s
  <2>1. (j - i - 1) * s >= 0
    BY <1>3
  <2>2. (j - i - 1) * s = j * s - i * s - s
    OBVIOUS
  <2> QED BY <1>1, <2>1, <2>2
<1>4. ASSUME NEW i \in Nat, NEW j \in Nat, i * s = j * s
      PROVE  i = j
  <2>1. i * s \in Nat /\ j * s \in Nat
    BY <1>1
  <2> QED BY <1>3, <1>4, <2>1
<1> QED
  BY <1>1, <1>2, <1>3, <1>4

\* The elements of a valid FIFO, and where its pointers go.
LEMMA Pointers ==
  ASSUME Fixed!TypeOK, valid
  PROVE  /\ elementSize \in Nat \ {0} /\ maxSize \in Nat \ {0}
         /\ Last = (maxSize - 1) * elementSize
         /\ \A i \in 0 .. maxSize - 1 :
              /\ i * elementSize \in 0 .. Last
              /\ Fixed!Increment(i * elementSize) = Slot(i, 1) * elementSize
              /\ Fixed!Decrement(i * elementSize) = Slot(i, maxSize - 1) * elementSize
         /\ \A i, k \in Nat : i < maxSize /\ k <= maxSize => Slot(i, k) \in 0 .. maxSize - 1
<1>1. elementSize \in Nat \ {0} /\ Last = (maxSize - 1) * elementSize /\ maxSize \in 0 .. Last + 1
  BY DEF Fixed!TypeOK
<1>2. Last \in Nat
  BY DEF Fixed!TypeOK
<1>3. maxSize \in Nat \ {0}
  <2>1. ASSUME maxSize = 0 PROVE FALSE
    BY <1>1, <1>2, <2>1, Multiples
  <2> QED BY <1>1, <1>2, <2>1
<1>4. ASSUME NEW i \in 0 .. maxSize - 1
      PROVE  /\ i * elementSize \in 0 .. Last
             /\ i * elementSize = Last <=> i = maxSize - 1
             /\ i * elementSize = 0 <=> i = 0
             /\ i # maxSize - 1 => i * elementSize + elementSize = (i + 1) * elementSize
             /\ i # 0 => i * elementSize - elementSize = (i - 1) * elementSize
  <2>1. i \in Nat /\ maxSize - 1 \in Nat /\ (i < maxSize - 1 \/ i = maxSize - 1)
    BY <1>3
  <2>2. i * elementSize \in Nat /\ (i * elementSize = (maxSize - 1) * elementSize => i = maxSize - 1)
    BY <1>1, <1>3, Multiples
  <2>3. i * elementSize <= Last
    BY <1>1, <1>2, <1>3, <2>1, <2>2, Multiples
  <2>4. i * elementSize = 0 <=> i = 0
    BY <1>1, Multiples
  <2>5. i * elementSize + elementSize = (i + 1) * elementSize
        /\ i * elementSize - elementSize = (i - 1) * elementSize
    BY <1>1, Multiples
  <2> QED BY <1>1, <1>2, <2>1, <2>2, <2>3, <2>4, <2>5
<1>5. ASSUME NEW i \in 0 .. maxSize - 1
      PROVE  Fixed!Increment(i * elementSize) = Slot(i, 1) * elementSize
  <2>1. CASE i = maxSize - 1
    <3>1. Slot(i, 1) = 0 /\ 0 * elementSize = 0
      BY <1>1, <1>3, <2>1, Multiples DEF Slot
    <3> QED BY <1>4, <2>1, <3>1 DEF Fixed!Increment
  <2>2. CASE i # maxSize - 1
    <3>1. Slot(i, 1) = i + 1
      BY <1>3, <2>2 DEF Slot
    <3> QED BY <1>4, <2>2, <3>1 DEF Fixed!Increment
  <2> QED BY <2>1, <2>2
<1>6. ASSUME NEW i \in 0 .. maxSize - 1
      PROVE  Fixed!Decrement(i * elementSize) = Slot(i, maxSize - 1) * elementSize
  <2>1. CASE i = 0
    <3>1. Slot(i, maxSize - 1) = maxSize - 1
      BY <1>3, <2>1 DEF Slot
    <3> QED BY <1>1, <1>4, <2>1, <3>1 DEF Fixed!Decrement
  <2>2. CASE i # 0
    <3>1. Slot(i, maxSize - 1) = i - 1
      BY <1>3, <2>2 DEF Slot
    <3> QED BY <1>4, <2>2, <3>1 DEF Fixed!Decrement
  <2> QED BY <2>1, <2>2
<1>7. ASSUME NEW i \in Nat, NEW k \in Nat, i < maxSize, k <= maxSize
      PROVE  Slot(i, k) \in 0 .. maxSize - 1
  BY <1>3, <1>7 DEF Slot
<1> QED
  BY <1>1, <1>3, <1>4, <1>5, <1>6, <1>7

\* The places are told apart by what they stand for.
LEMMA SlotFacts ==
  ASSUME maxSize \in Nat \ {0}, NEW r \in 0 .. maxSize - 1
  PROVE  /\ Slot(r, 0) = r /\ Slot(r, maxSize) = r
         /\ \A j, k \in 0 .. maxSize - 1 : Slot(r, j) = Slot(r, k) => j = k
         /\ \A k \in 0 .. maxSize - 1 : Slot(Slot(r, k), 1) = Slot(r, k + 1)
                                        /\ Slot(Slot(r, 1), k) = Slot(r, k + 1)
         /\ \A k \in 1 .. maxSize : Slot(Slot(r, k), maxSize - 1) = Slot(r, k - 1)
BY DEF Slot

\* What the invariant says of a valid FIFO.
LEMMA RingFacts ==
  ASSUME RingInv, valid
  PROVE  /\ elementSize \in Nat \ {0} /\ maxSize \in Nat \ {0} /\ count \in 0 .. maxSize
         /\ maxSize <= Last + 1 /\ Last \in Nat /\ Last = (maxSize - 1) * elementSize
         /\ mem \in [0 .. Last -> Data \cup {Null}] /\ pRead \in 0 .. Last /\ pWrite \in 0 .. Last
         /\ unread \in Seq([at : 0 .. Last, data : Data]) /\ Len(unread) = count
         /\ \A i \in 0 .. maxSize - 1 :
              /\ i * elementSize \in 0 .. Last /\ (i * elementSize) % elementSize = 0
              /\ Fixed!Increment(i * elementSize) = Slot(i, 1) * elementSize
              /\ Fixed!Decrement(i * elementSize) = Slot(i, maxSize - 1) * elementSize
         /\ \A i \in 0 .. maxSize - 1, k \in 0 .. maxSize : Slot(i, k) \in 0 .. maxSize - 1
         /\ \A i, j \in 0 .. maxSize - 1 : i * elementSize = j * elementSize => i = j
<1>1. Fixed!TypeOK /\ count = Len(unread)
  BY DEF RingInv
<1>2. /\ elementSize \in Nat \ {0} /\ maxSize \in Nat \ {0}
      /\ Last = (maxSize - 1) * elementSize
      /\ \A i \in 0 .. maxSize - 1 :
           /\ i * elementSize \in 0 .. Last
           /\ Fixed!Increment(i * elementSize) = Slot(i, 1) * elementSize
           /\ Fixed!Decrement(i * elementSize) = Slot(i, maxSize - 1) * elementSize
      /\ \A i, k \in Nat : i < maxSize /\ k <= maxSize => Slot(i, k) \in 0 .. maxSize - 1
  BY <1>1, Pointers
<1>3. \A i \in 0 .. maxSize - 1 : (i * elementSize) % elementSize = 0
  <2>1. ASSUME NEW i \in Nat, NEW x \in Nat \ {0} PROVE (i * x) % x = 0
    BY <2>1
  <2> QED BY <1>2, <2>1
<1>4. \A i, j \in 0 .. maxSize - 1 : i * elementSize = j * elementSize => i = j
  BY <1>2, Multiples
<1>5. Last \in Nat
  <2>1. maxSize - 1 \in Nat
    BY <1>2
  <2> QED BY <1>2, <2>1, Multiples
<1>6. \A i \in 0 .. maxSize - 1, k \in 0 .. maxSize : Slot(i, k) \in 0 .. maxSize - 1
  BY <1>2
<1>7. /\ count \in 0 .. maxSize /\ maxSize <= Last + 1
      /\ mem \in [0 .. Last -> Data \cup {Null}] /\ pRead \in 0 .. Last /\ pWrite \in 0 .. Last
      /\ unread \in Seq([at : 0 .. Last, data : Data])
  BY <1>1, <1>2, <1>5 DEF Fixed!TypeOK
<1> QED BY <1>1, <1>2, <1>3, <1>4, <1>5, <1>6, <1>7

\* A FIFO as the pointers r and count places around the ring make it.
LEMMA RingFrom ==
  ASSUME RingInv, valid, UNCHANGED <<elementSize, maxSize, valid>>,
         mem' \in [0 .. Last -> Data \cup {Null}], Contents',
         unread' \in Seq([at : 0 .. Last, data : Data]), Len(unread') = count',
         count' \in 0 .. maxSize, NEW r \in 0 .. maxSize - 1,
         pRead' = r * elementSize, pWrite' = Slot(r, count') * elementSize,
         \A k \in 1 .. count' : unread'[k].at = Slot(r, k - 1) * elementSize
  PROVE  RingInv'
<1>1. \A k : (Slot(r, k))' = Slot(r, k)
  BY DEF Slot
<1>2. InRing'
  BY <1>1 DEF InRing, Slot
<1>3. Fixed!TypeOK'
  <2>1. Slot(r, count') \in 0 .. maxSize - 1
    BY RingFacts
  <2>2. /\ pRead' \in 0 .. Last /\ pRead' % elementSize = 0
        /\ pWrite' \in 0 .. Last /\ pWrite' % elementSize = 0
    BY <2>1, RingFacts
  <2> QED BY <2>2 DEF RingInv, Fixed!TypeOK
<1> QED BY <1>2, <1>3 DEF RingInv

LEMMA FixedWrite ==
  ASSUME Fixed!FifoAssumption, RingInv, NEW d \in Data, Fixed!writeElement(d)
  PROVE  RingInv'
<1>v. valid
  BY DEF Fixed!writeElement
<1>1. CASE Fixed!IsFull
  <2>1. UNCHANGED <<pRead, pWrite, count, elementSize, maxSize, valid, mem, unread>>
    BY <1>1 DEF Fixed!writeElement
  <2> QED BY <2>1 DEF RingInv, Fixed!TypeOK, InRing, Slot, Contents
<1>2. CASE ~Fixed!IsFull
  <2> DEFINE e == [at |-> pWrite, data |-> d]
  <2>1. /\ UNCHANGED <<pRead, elementSize, maxSize, valid>>
        /\ mem' = [mem EXCEPT ![pWrite] = d]
        /\ pWrite' = Fixed!Increment(pWrite)
        /\ count' = (count + 1) % Wrap32
        /\ unread' = Append(unread, e)
    BY <1>2 DEF Fixed!writeElement
  <2>2. /\ elementSize \in Nat \ {0} /\ maxSize \in Nat \ {0} /\ count \in 0 .. maxSize
        /\ maxSize <= Last + 1 /\ Last \in Nat /\ pWrite \in 0 .. Last
        /\ mem \in [0 .. Last -> Data \cup {Null}]
        /\ unread \in Seq([at : 0 .. Last, data : Data]) /\ Len(unread) = count
    BY <1>v, RingFacts
  <2>3. count < maxSize /\ count' = count + 1
    <3>1. count < maxSize
      BY <1>2, <2>2 DEF Fixed!IsFull
    <3>2. ASSUME NEW x \in Nat, NEW y \in Nat, x < y PROVE x % y = x
      BY <3>2
    <3>3. Wrap32 \in Nat /\ Wrap32 > Last + 1
      BY DEF Fixed!FifoAssumption
    <3>4. count + 1 \in Nat /\ count + 1 < Wrap32
      BY <2>2, <3>1, <3>3
    <3> QED BY <2>1, <3>1, <3>2, <3>3, <3>4
  <2>4. PICK r \in 0 .. maxSize - 1 :
          /\ pRead = r * elementSize /\ pWrite = Slot(r, count) * elementSize
          /\ \A k \in 1 .. count : unread[k].at = Slot(r, k - 1) * elementSize
    BY <1>v DEF RingInv, InRing
  <2>5. Slot(r, count) \in 0 .. maxSize - 1
    BY <1>v, <2>2, RingFacts
  <2>6. pWrite' = Slot(r, count + 1) * elementSize
    <3>1. Slot(Slot(r, count), 1) = Slot(r, count + 1)
      BY <2>2, <2>3, SlotFacts
    <3>2. Fixed!Increment(Slot(r, count) * elementSize) = Slot(Slot(r, count), 1) * elementSize
      BY <1>v, <2>5, RingFacts
    <3> QED BY <2>1, <2>4, <3>1, <3>2
  <2>7. /\ unread' \in Seq([at : 0 .. Last, data : Data]) /\ Len(unread') = count + 1
        /\ \A k \in 1 .. count : unread'[k] = unread[k]
        /\ unread'[count + 1] = e
    BY <2>1, <2>2
  <2>8. ASSUME NEW k \in 1 .. count + 1
        PROVE  unread'[k].at = Slot(r, k - 1) * elementSize
    <3>1. CASE k = count + 1
      <4>1. unread'[k].at = pWrite /\ k - 1 = count
        BY <2>2, <2>7, <3>1
      <4> QED BY <2>4, <4>1
    <3>2. CASE k # count + 1
      <4>1. k \in 1 .. count
        BY <2>2, <3>2
      <4>2. unread'[k] = unread[k] /\ unread[k].at = Slot(r, k - 1) * elementSize
        BY <2>4, <2>7, <4>1
      <4> QED BY <4>2
    <3> QED BY <3>1, <3>2
  <2>9. mem' \in [0 .. Last -> Data \cup {Null}]
    BY <2>1, <2>2
  <2>10. Contents'
    <3>1. ASSUME NEW k \in 1 .. count PROVE mem'[unread[k].at] = unread[k].data
      <4>1. k - 1 \in 0 .. maxSize - 1 /\ count \in 0 .. maxSize - 1 /\ k - 1 # count
        BY <2>2, <2>3
      <4>2. Slot(r, k - 1) # Slot(r, count)
        BY <2>2, <4>1, SlotFacts
      <4>3. Slot(r, k - 1) \in 0 .. maxSize - 1
        <5>1. k - 1 \in 0 .. maxSize
          BY <2>2, <4>1
        <5> QED BY <1>v, <5>1, RingFacts
      <4>4. unread[k].at # pWrite
        <5>1. \A i, j \in 0 .. maxSize - 1 : i * elementSize = j * elementSize => i = j
          BY <1>v, RingFacts
        <5>2. Slot(r, k - 1) * elementSize # Slot(r, count) * elementSize
          BY <2>5, <4>2, <4>3, <5>1
        <5>3. unread[k].at = Slot(r, k - 1) * elementSize /\ pWrite = Slot(r, count) * elementSize
          BY <2>4
        <5> QED BY <5>2, <5>3
      <4>5. unread[k].at \in 0 .. Last
        <5> DEFINE S == [at : 0 .. Last, data : Data]
        <5>1. unread \in Seq(S) /\ k \in 1 .. Len(unread)
          BY <2>2
        <5>2. \A x \in S : x.at \in 0 .. Last
          OBVIOUS
        <5> HIDE DEF S
        <5>3. unread[k] \in S
          BY <5>1
        <5> QED BY <5>2, <5>3
      <4>6. mem[unread[k].at] = unread[k].data
        BY DEF RingInv, Contents
      <4> QED BY <2>1, <2>2, <4>4, <4>5, <4>6
    <3>2. mem'[pWrite] = d
      BY <2>1, <2>2
    <3> QED BY <2>2, <2>3, <2>7, <3>1, <3>2 DEF Contents
  <2>11. /\ count' \in 0 .. maxSize /\ Len(unread') = count'
         /\ pRead' = r * elementSize /\ pWrite' = Slot(r, count') * elementSize
         /\ \A k \in 1 .. count' : unread'[k].at = Slot(r, k - 1) * elementSize
    <3>1. count + 1 \in 0 .. maxSize
      BY <2>2, <2>3
    <3> QED BY <2>1, <2>3, <2>4, <2>6, <2>7, <2>8, <3>1
  <2> QED BY <1>v, <2>1, <2>7, <2>9, <2>10, <2>11, RingFrom
<1> QED BY <1>1, <1>2

\* A sequence with an element more.
LEMMA Longer ==
  ASSUME NEW S, NEW s \in Seq(S), NEW x \in S
  PROVE  /\ Len(s) \in Nat /\ Append(s, x) \in Seq(S) /\ Len(Append(s, x)) = Len(s) + 1
         /\ \A k \in 1 .. Len(s) : Append(s, x)[k] = s[k]
         /\ Append(s, x)[Len(s) + 1] = x
OBVIOUS

\* A sequence without its first, and without its last element.
LEMMA Shorter ==
  ASSUME NEW S, NEW s \in Seq(S), s # <<>>
  PROVE  /\ Len(s) \in Nat \ {0} /\ s[1] = Head(s) /\ s[1] \in S
         /\ Tail(s) \in Seq(S) /\ Len(Tail(s)) = Len(s) - 1
         /\ \A k \in 1 .. Len(s) - 1 : Tail(s)[k] = s[k + 1]
         /\ SubSeq(s, 1, Len(s) - 1) \in Seq(S) /\ Len(SubSeq(s, 1, Len(s) - 1)) = Len(s) - 1
         /\ \A k \in 1 .. Len(s) - 1 : SubSeq(s, 1, Len(s) - 1)[k] = s[k]
<1>1. /\ Len(s) \in Nat \ {0} /\ s[1] = Head(s) /\ s[1] \in S
      /\ Tail(s) \in Seq(S) /\ Len(Tail(s)) = Len(s) - 1
      /\ \A k \in 1 .. Len(s) - 1 : Tail(s)[k] = s[k + 1]
  OBVIOUS
<1>2. /\ Len(SubSeq(s, 1, Len(s) - 1)) = Len(s) - 1
      /\ \A k \in 1 .. Len(s) - 1 : SubSeq(s, 1, Len(s) - 1)[k] = s[k]
  BY <1>1, Len(s) - 1 \in Nat
<1>3. SubSeq(s, 1, Len(s) - 1) \in Seq(S)
  BY <1>1, \A i \in 1 .. Len(s) - 1 : s[i] \in S
<1> QED BY <1>1, <1>2, <1>3

\* Reading takes the oldest element, which is what was written there.
LEMMA FixedRead ==
  ASSUME RingInv, Fixed!readElement, count # 0
  PROVE  /\ RingInv'
         /\ unread # <<>> /\ answer' = <<"read", unread[1].data>> /\ unread' = Tail(unread)
<1>1. /\ valid /\ UNCHANGED <<pWrite, elementSize, maxSize, valid, mem>>
      /\ answer' = <<"read", mem[pRead]>>
      /\ pRead' = Fixed!Increment(pRead)
      /\ count' = count - 1
      /\ unread' = Tail(unread)
  BY DEF Fixed!readElement
<1>2. /\ maxSize \in Nat \ {0} /\ count \in 1 .. maxSize
      /\ mem \in [0 .. Last -> Data \cup {Null}]
      /\ unread \in Seq([at : 0 .. Last, data : Data]) /\ Len(unread) = count
  BY SMTT(30), <1>1, RingFacts
<1>3. PICK r \in 0 .. maxSize - 1 :
        /\ pRead = r * elementSize /\ pWrite = Slot(r, count) * elementSize
        /\ \A k \in 1 .. count : unread[k].at = Slot(r, k - 1) * elementSize
  BY <1>1 DEF RingInv, InRing
<1>4. /\ Slot(r, 0) = r /\ Slot(r, 1) \in 0 .. maxSize - 1
      /\ \A k \in 0 .. maxSize - 1 : Slot(Slot(r, 1), k) = Slot(r, k + 1)
  <2>1. 1 \in 0 .. maxSize
    BY <1>2
  <2>2. Slot(r, 1) \in 0 .. maxSize - 1
    BY <1>1, <2>1, RingFacts
  <2> QED BY <1>2, <2>2, SlotFacts
<1>5. /\ unread' \in Seq([at : 0 .. Last, data : Data]) /\ Len(unread') = count - 1
      /\ \A k \in 1 .. count - 1 : unread'[k] = unread[k + 1]
  BY <1>1, <1>2
<1>6. Contents'
  BY <1>1, <1>2, <1>5 DEF RingInv, Contents
<1>7. /\ pRead' = Slot(r, 1) * elementSize
      /\ pWrite' = Slot(Slot(r, 1), count - 1) * elementSize
      /\ \A k \in 1 .. count - 1 : unread'[k].at = Slot(Slot(r, 1), k - 1) * elementSize
  <2>1. pRead' = Slot(r, 1) * elementSize
    BY <1>1, <1>3, RingFacts
  <2>2. Slot(Slot(r, 1), count - 1) = Slot(r, count)
    <3>1. count - 1 \in 0 .. maxSize - 1 /\ (count - 1) + 1 = count
      BY <1>2
    <3> QED BY <1>4, <3>1
  <2>3. ASSUME NEW k \in 1 .. count - 1
        PROVE  unread'[k].at = Slot(Slot(r, 1), k - 1) * elementSize
    <3>1. k - 1 \in 0 .. maxSize - 1 /\ (k - 1) + 1 = k /\ k + 1 \in 1 .. count /\ (k + 1) - 1 = k
      BY <1>2
    <3>2. Slot(Slot(r, 1), k - 1) = Slot(r, k)
      BY <1>4, <3>1
    <3> QED BY <1>3, <1>5, <3>1, <3>2
  <2> QED BY <1>1, <1>3, <2>1, <2>2, <2>3
<1>8. RingInv'
  BY SMTT(30), <1>1, <1>2, <1>4, <1>5, <1>6, <1>7, RingFrom
<1>9. unread # <<>> /\ mem[pRead] = unread[1].data
  <2>1. 1 \in 1 .. count /\ 1 - 1 = 0
    BY <1>2
  <2>2. mem[unread[1].at] = unread[1].data /\ unread[1].at = pRead
    BY <1>3, <1>4, <2>1 DEF RingInv, Contents
  <2> QED BY <1>2, <2>2
<1> QED BY <1>1, <1>8, <1>9

\* Undoing a write takes the newest element back.
LEMMA FixedReturn ==
  ASSUME Fixed!FifoAssumption, RingInv, Fixed!returnElement
  PROVE  RingInv'
<1>1. /\ valid /\ UNCHANGED <<pRead, elementSize, maxSize, valid, mem>>
      /\ unread # <<>>
      /\ pWrite' = Fixed!Decrement(pWrite)
      /\ count' = (count - 1) % Wrap32
      /\ unread' = SubSeq(unread, 1, Len(unread) - 1)
  BY DEF Fixed!returnElement
<1>2. /\ maxSize \in Nat \ {0} /\ count \in 1 .. maxSize
      /\ maxSize <= Last + 1 /\ Last \in Nat
      /\ mem \in [0 .. Last -> Data \cup {Null}]
      /\ unread \in Seq([at : 0 .. Last, data : Data]) /\ Len(unread) = count
  <2>1. /\ maxSize \in Nat \ {0} /\ count \in 0 .. maxSize
        /\ maxSize <= Last + 1 /\ Last \in Nat
        /\ mem \in [0 .. Last -> Data \cup {Null}]
        /\ unread \in Seq([at : 0 .. Last, data : Data]) /\ Len(unread) = count
    BY <1>1, RingFacts
  <2> QED BY <1>1, <2>1
<1>3. PICK r \in 0 .. maxSize - 1 :
        /\ pRead = r * elementSize /\ pWrite = Slot(r, count) * elementSize
        /\ \A k \in 1 .. count : unread[k].at = Slot(r, k - 1) * elementSize
  BY <1>1 DEF RingInv, InRing
<1>4. count' = count - 1
  <2>1. ASSUME NEW x \in Nat, NEW y \in Nat, x < y PROVE x % y = x
    BY <2>1
  <2>2. Wrap32 \in Nat /\ Wrap32 > Last + 1
    BY DEF Fixed!FifoAssumption
  <2>3. count - 1 \in Nat /\ count - 1 < Wrap32
    BY <1>2, <2>2
  <2> QED BY <1>1, <2>1, <2>2, <2>3
<1>5. /\ unread' \in Seq([at : 0 .. Last, data : Data]) /\ Len(unread') = count - 1
      /\ \A k \in 1 .. count - 1 : unread'[k] = unread[k]
  <2> DEFINE S == [at : 0 .. Last, data : Data]
  <2>1. unread \in Seq(S) /\ unread # <<>> /\ Len(unread) = count
    BY <1>1, <1>2
  <2> HIDE DEF S
  <2>2. /\ SubSeq(unread, 1, Len(unread) - 1) \in Seq(S)
        /\ Len(SubSeq(unread, 1, Len(unread) - 1)) = count - 1
        /\ \A k \in 1 .. count - 1 : SubSeq(unread, 1, Len(unread) - 1)[k] = unread[k]
    BY <2>1, Shorter
  <2> QED BY <1>1, <2>2 DEF S
<1>6. Contents'
  <2>1. \A k \in 1 .. count - 1 : k \in 1 .. count
    BY <1>2
  <2> QED BY <1>1, <1>4, <1>5, <2>1 DEF RingInv, Contents
<1>7. pWrite' = Slot(r, count - 1) * elementSize
  <2>1. Slot(r, count) \in 0 .. maxSize - 1
    BY <1>1, <1>2, RingFacts
  <2>2. Slot(Slot(r, count), maxSize - 1) = Slot(r, count - 1)
    BY <1>2, SlotFacts
  <2>3. Fixed!Decrement(Slot(r, count) * elementSize)
          = Slot(Slot(r, count), maxSize - 1) * elementSize
    BY <1>1, <2>1, RingFacts
  <2> QED BY <1>1, <1>3, <2>2, <2>3
<1>8. ASSUME NEW k \in 1 .. count - 1
      PROVE  unread'[k].at = Slot(r, k - 1) * elementSize
  <2>1. k \in 1 .. count
    BY <1>2
  <2>2. unread'[k] = unread[k] /\ unread[k].at = Slot(r, k - 1) * elementSize
    BY <1>3, <1>5, <2>1
  <2> QED BY <2>2
<1>9. /\ count' \in 0 .. maxSize /\ Len(unread') = count'
      /\ pRead' = r * elementSize /\ pWrite' = Slot(r, count') * elementSize
      /\ \A k \in 1 .. count' : unread'[k].at = Slot(r, k - 1) * elementSize
  <2>1. count - 1 \in 0 .. maxSize
    BY <1>2
  <2> QED BY <1>1, <1>3, <1>4, <1>5, <1>7, <1>8, <2>1
<1>10. mem' \in [0 .. Last -> Data \cup {Null}]
  BY <1>1, <1>2
<1> QED BY <1>1, <1>5, <1>6, <1>9, <1>10, RingFrom

\* A FIFO emptied, by IFX_Fifo_Clear or set up anew.
LEMMA FixedEmpty ==
  ASSUME Fixed!FifoAssumption, RingInv,
         Fixed!Clear \/ \E b \in Sizes : Fixed!FifoInit(b)
  PROVE  RingInv'
<1>0. pRead' = 0 /\ pWrite' = 0 /\ count' = 0 /\ unread' = <<>> /\ UNCHANGED mem
  BY DEF Fixed!Clear, Fixed!FifoInit
<1>1. Last \in Nat /\ mem \in [0 .. Last -> Data \cup {Null}] /\ maxSize \in 0 .. Last + 1
  BY DEF RingInv, Fixed!TypeOK, Fixed!FifoAssumption
<1>2. /\ elementSize' \in Nat /\ maxSize' \in 0 .. Last + 1 /\ valid' \in BOOLEAN
      /\ valid' => elementSize' > 0 /\ maxSize' > 0 /\ Last = (maxSize' - 1) * elementSize'
  <2>1. CASE Fixed!Clear
    <3>1. UNCHANGED <<elementSize, maxSize, valid>> /\ valid
      BY <2>1 DEF Fixed!Clear
    <3>2. elementSize \in Nat /\ valid \in BOOLEAN
      BY DEF RingInv, Fixed!TypeOK
    <3> QED BY <1>1, <3>1, <3>2, RingFacts
  <2>2. ASSUME NEW b \in Sizes, Fixed!FifoInit(b)
        PROVE  /\ elementSize' \in Nat /\ maxSize' \in 0 .. Last + 1 /\ valid' \in BOOLEAN
               /\ valid' => elementSize' > 0 /\ maxSize' > 0
                            /\ Last = (maxSize' - 1) * elementSize'
    <3>1. /\ elementSize' = Fixed!ToUlongSize(b)
          /\ valid' = (Last % elementSize' = 0)
          /\ maxSize' = IF valid' THEN 1 + Last \div elementSize' ELSE maxSize
      BY <2>2 DEF Fixed!FifoInit
    <3>2. elementSize' \in Nat \ {0}
      <4>1. b \in Nat \ {0} /\ WordBytes \in {4, 8}
        BY DEF Fixed!FifoAssumption
      <4>2. CASE WordBytes = 4
        BY <3>1, <4>1, <4>2 DEF Fixed!ToUlongSize
      <4>3. CASE WordBytes = 8
        BY <3>1, <4>1, <4>3 DEF Fixed!ToUlongSize
      <4> QED BY <4>1, <4>2, <4>3
    <3>3. ASSUME NEW x \in Nat, NEW y \in Nat \ {0}
          PROVE  /\ x \div y \in 0 .. x
                 /\ x % y = 0 => x = ((1 + x \div y) - 1) * y
      <4>1. x = (x \div y) * y + (x % y) /\ x % y \in 0 .. y - 1 /\ x \div y \in Nat
        <5>1. x = y * (x \div y) + (x % y)
          BY <3>3
        <5>2. x % y \in 0 .. y - 1 /\ x \div y \in Nat
          BY <3>3
        <5>3. y * (x \div y) = (x \div y) * y
          BY <5>2
        <5> QED BY <5>1, <5>2, <5>3
      <4>2. (x \div y) * y >= x \div y
        BY <4>1, Multiples
      <4>3. (x \div y) * y \in Nat /\ (1 + x \div y) - 1 = x \div y
        BY <4>1, Multiples
      <4> QED BY <4>1, <4>2, <4>3
    <3>4. Last \div elementSize' \in 0 .. Last
      BY <1>1, <3>2, <3>3
    <3>5. CASE valid'
      <4>1. maxSize' = 1 + Last \div elementSize' /\ Last % elementSize' = 0
        BY <3>1, <3>5
      <4>2. maxSize' \in 0 .. Last + 1 /\ maxSize' > 0
        BY <1>1, <3>4, <4>1
      <4>3. Last = (maxSize' - 1) * elementSize'
        BY <1>1, <3>2, <3>3, <4>1
      <4> QED BY <3>1, <3>2, <4>2, <4>3
    <3>6. CASE ~valid'
      BY <1>1, <3>1, <3>2, <3>6
    <3> QED BY <3>5, <3>6
  <2> QED BY <2>1, <2>2
<1>3. valid' => 0 % elementSize' = 0
  <2>1. ASSUME NEW y \in Nat \ {0} PROVE 0 % y = 0
    BY <2>1
  <2>2. valid' => elementSize' \in Nat \ {0}
    BY <1>2
  <2> QED BY <2>1, <2>2
<1>4. Fixed!TypeOK'
  <2>1. pRead' \in 0 .. Last /\ pWrite' \in 0 .. Last /\ count' \in 0 .. maxSize'
    BY <1>0, <1>1, <1>2
  <2>2. mem' \in [0 .. Last -> Data \cup {Null}]
        /\ unread' \in Seq([at : 0 .. Last, data : Data])
    BY <1>0, <1>1
  <2>3. valid' => /\ elementSize' > 0
                  /\ pRead' % elementSize' = 0 /\ pWrite' % elementSize' = 0
                  /\ Last = (maxSize' - 1) * elementSize'
    BY <1>0, <1>2, <1>3
  <2> QED BY <1>2, <2>1, <2>2, <2>3 DEF Fixed!TypeOK
<1>5. InRing'
  <2>1. SUFFICES ASSUME valid'
                 PROVE  \E r \in 0 .. maxSize' - 1 :
                          /\ pRead' = r * elementSize'
                          /\ pWrite' = (Slot(r, count))' * elementSize'
                          /\ \A k \in 1 .. count' : unread'[k].at = (Slot(r, k - 1))' * elementSize'
    BY DEF InRing, Slot
  <2>2. 0 \in 0 .. maxSize' - 1 /\ 0 * elementSize' = 0 /\ (Slot(0, count))' = 0
    <3>1. ASSUME NEW y \in Nat PROVE 0 * y = 0
      BY <3>1
    <3>2. (Slot(0, count))' = 0
      BY <1>0, <1>2, <2>1 DEF Slot
    <3>3. 0 \in 0 .. maxSize' - 1 /\ elementSize' \in Nat
      <4>1. elementSize' \in Nat /\ maxSize' > 0 /\ maxSize' \in 0 .. Last + 1
        BY <1>2, <2>1
      <4>2. ASSUME NEW m \in 0 .. Last + 1, m > 0 PROVE 0 \in 0 .. m - 1
        BY <1>1, <4>2
      <4> QED BY <4>1, <4>2
    <3> QED BY <3>1, <3>2, <3>3
  <2> QED BY <1>0, <2>2
<1> QED BY <1>0, <1>4, <1>5 DEF RingInv, Contents

LEMMA RingStep ==
  ASSUME Fixed!FifoAssumption, RingInv, [Fixed!Next]_(Fixed!vars)
  PROVE  RingInv'
<1>1. CASE \E d \in Data : Fixed!writeElement(d)
  BY <1>1, FixedWrite
<1>2. CASE Fixed!readElement
  <2>1. CASE count = 0
    <3>1. UNCHANGED <<pRead, pWrite, count, elementSize, maxSize, valid, mem, unread>>
      BY <1>2, <2>1 DEF Fixed!readElement
    <3> QED BY <3>1 DEF RingInv, Fixed!TypeOK, InRing, Slot, Contents
  <2> QED BY <1>2, <2>1, FixedRead
<1>3. CASE Fixed!returnElement
  BY <1>3, FixedReturn
<1>4. CASE Fixed!Clear \/ \E b \in Sizes : Fixed!FifoInit(b)
  BY <1>4, FixedEmpty
<1>5. CASE UNCHANGED Fixed!vars
  BY <1>5 DEF Fixed!vars, RingInv, Fixed!TypeOK, InRing, Slot, Contents
<1> QED BY <1>1, <1>2, <1>3, <1>4, <1>5 DEF Fixed!Next

LEMMA RingInit ==
  ASSUME Fixed!FifoAssumption, Fixed!Init
  PROVE  RingInv
<1>1. /\ pRead = 0 /\ pWrite = 0 /\ count = 0 /\ elementSize = 0 /\ maxSize = 0
      /\ valid = FALSE /\ mem = [a \in 0 .. Last |-> Null] /\ unread = <<>>
  BY DEF Fixed!Init
<1>2. Fixed!TypeOK
  <2>1. mem \in [0 .. Last -> Data \cup {Null}] /\ unread \in Seq([at : 0 .. Last, data : Data])
    BY <1>1
  <2>2. Last \in Nat /\ 0 \in 0 .. Last /\ 0 \in 0 .. Last + 1 /\ 0 \in 0 .. 0
    BY DEF Fixed!FifoAssumption
  <2> QED BY <1>1, <2>1, <2>2 DEF Fixed!TypeOK
<1> QED BY <1>1, <1>2 DEF RingInv, InRing, Contents

\* The pointers and the count of the ring are about the same elements.
LEMMA RingAgrees ==
  ASSUME Fixed!FifoAssumption, RingInv
  PROVE  Fixed!PointersAgree
<1> SUFFICES ASSUME valid
             PROVE  (pRead + count * elementSize) % (Last + elementSize) = pWrite
  BY DEF Fixed!PointersAgree, Fixed!CountAgrees, RingInv
<1>1. /\ elementSize \in Nat \ {0} /\ maxSize \in Nat \ {0} /\ count \in 0 .. maxSize
      /\ Last = (maxSize - 1) * elementSize
  BY RingFacts
<1>2. PICK r \in 0 .. maxSize - 1 :
        pRead = r * elementSize /\ pWrite = Slot(r, count) * elementSize
  BY DEF RingInv, InRing
<1>3. Slot(r, count) \in 0 .. maxSize - 1
  BY <1>1, RingFacts
<1> DEFINE all == maxSize * elementSize
           at  == Slot(r, count) * elementSize
<1>4. Last + elementSize = all
  <2>1. maxSize \in Nat /\ elementSize \in Nat \ {0}
    BY <1>1
  <2>2. (maxSize - 1) * elementSize = maxSize * elementSize - elementSize
        /\ maxSize * elementSize \in Nat
    BY <2>1, Multiples
  <2> QED BY <1>1, <2>1, <2>2
<1>5. at \in Nat /\ all \in Nat /\ at < all
  <2>1. maxSize \in Nat /\ elementSize \in Nat \ {0} /\ Slot(r, count) \in Nat
        /\ Slot(r, count) < maxSize
    BY <1>1, <1>3
  <2>2. Slot(r, count) * elementSize + elementSize <= maxSize * elementSize
        /\ Slot(r, count) * elementSize \in Nat /\ maxSize * elementSize \in Nat
    BY <2>1, Multiples
  <2> QED BY <2>1, <2>2
<1>6. pRead + count * elementSize = at \/ pRead + count * elementSize = all + at
  <2>1. r \in Nat /\ count \in Nat /\ maxSize \in Nat /\ elementSize \in Nat \ {0}
    BY <1>1
  <2>2. (r + count) * elementSize = r * elementSize + count * elementSize
    BY <2>1, Multiples
  <2>3. CASE r + count < maxSize
    BY <1>2, <2>2, <2>3 DEF Slot
  <2>4. CASE ~(r + count < maxSize)
    <3>1. Slot(r, count) = (r + count) - maxSize /\ r + count \in Nat
      BY <2>1, <2>4 DEF Slot
    <3>2. ((r + count) - maxSize) * elementSize
            = (r + count) * elementSize - maxSize * elementSize
      BY <2>1, <3>1, Multiples
    <3>3. (r + count) * elementSize \in Nat /\ maxSize * elementSize \in Nat
      BY <2>1, <3>1, Multiples
    <3> QED BY <1>2, <2>2, <3>1, <3>2, <3>3
  <2> QED BY <2>3, <2>4
<1> HIDE DEF all, at
<1>7. ASSUME NEW x \in Nat, NEW y \in Nat, x < y
      PROVE  x % y = x /\ (y + x) % y = x
  BY <1>7
<1> QED BY <1>2, <1>4, <1>5, <1>6, <1>7 DEF at

\* The two pointers of the fixed-size FIFO and its count are always about the
\* same elements, after any mix of writes, reads, undone writes and element
\* sizes: the tests for empty and full, which look at the count alone, are right.
THEOREM FixedPointers == FixedSpec => []PointersAgree
<1>1. Fixed!Init => RingInv
  BY RingInit, FixedAssumption
<1>2. RingInv /\ [Fixed!Next]_(Fixed!vars) => RingInv'
  BY RingStep, FixedAssumption
<1>3. RingInv => PointersAgree
  BY RingAgrees, FixedAssumption DEF PointersAgree
<1> QED BY <1>1, <1>2, <1>3, PTL DEF FixedSpec, Fixed!Spec

-----------------------------------------------------------------------------
(* The fixed-size FIFO is the queue of ElementQueue.                         *)

\* The sequence that f makes of the members of s, and what the calls make of it.
Mapped(f, s) == [k \in DOMAIN s |-> f[s[k]]]
Maps(f, R, T) == f \in [R -> T]

LEMMA MappedFacts ==
  ASSUME NEW R, NEW T, NEW f, Maps(f, R, T), NEW s \in Seq(R)
  PROVE  /\ Mapped(f, s) \in Seq(T) /\ Len(Mapped(f, s)) = Len(s) /\ Len(s) \in Nat
         /\ \A k \in 1 .. Len(s) : Mapped(f, s)[k] = f[s[k]]
         /\ (Mapped(f, s) = <<>>) <=> (s = <<>>)
<1>1. /\ Len(s) \in Nat /\ DOMAIN s = 1 .. Len(s)
      /\ \A k \in 1 .. Len(s) : s[k] \in R
  OBVIOUS
<1>2. Mapped(f, s) \in [1 .. Len(s) -> T]
  BY <1>1 DEF Mapped, Maps
<1>3. Mapped(f, s) \in Seq(T) /\ Len(Mapped(f, s)) = Len(s)
  BY <1>1, <1>2
<1>4. (Mapped(f, s) = <<>>) <=> (s = <<>>)
  <2>1. (s = <<>>) <=> Len(s) = 0
    OBVIOUS
  <2>2. ASSUME NEW h \in Seq(T) PROVE (h = <<>>) <=> Len(h) = 0
    OBVIOUS
  <2> QED BY <1>3, <2>1, <2>2
<1> QED BY <1>1, <1>3, <1>4 DEF Mapped

LEMMA MappedAppend ==
  ASSUME NEW R, NEW T, NEW f, Maps(f, R, T), NEW s \in Seq(R), NEW x \in R
  PROVE  Mapped(f, Append(s, x)) = Append(Mapped(f, s), f[x])
<1> DEFINE a == Append(s, x)
           b == Append(Mapped(f, s), f[x])
<1>1. a \in Seq(R) /\ Len(a) = Len(s) + 1 /\ Len(s) \in Nat
      /\ (\A k \in 1 .. Len(s) : a[k] = s[k]) /\ a[Len(s) + 1] = x
  BY Longer
<1>2. b \in Seq(T) /\ Len(b) = Len(s) + 1
      /\ (\A k \in 1 .. Len(s) : b[k] = f[s[k]]) /\ b[Len(s) + 1] = f[x]
  <2>1. Mapped(f, s) \in Seq(T) /\ Len(Mapped(f, s)) = Len(s) /\ f[x] \in T
        /\ \A k \in 1 .. Len(s) : Mapped(f, s)[k] = f[s[k]]
    BY MappedFacts DEF Maps
  <2> HIDE DEF Mapped
  <2>2. ASSUME NEW h \in Seq(T), NEW y \in T
        PROVE  /\ Append(h, y) \in Seq(T) /\ Len(Append(h, y)) = Len(h) + 1
               /\ \A k \in 1 .. Len(h) : Append(h, y)[k] = h[k]
               /\ Append(h, y)[Len(h) + 1] = y
    BY Longer
  <2> QED BY <2>1, <2>2
<1> HIDE DEF a, b
<1>3. Mapped(f, a) \in Seq(T) /\ Len(Mapped(f, a)) = Len(a)
      /\ \A k \in 1 .. Len(a) : Mapped(f, a)[k] = f[a[k]]
  BY <1>1, MappedFacts
<1>4. \A k \in 1 .. Len(s) + 1 : k \in 1 .. Len(s) \/ k = Len(s) + 1
  BY <1>1
<1>5. \A k \in 1 .. Len(b) : Mapped(f, a)[k] = b[k]
  BY <1>1, <1>2, <1>3, <1>4
<1>6. Mapped(f, a) = b
  BY <1>1, <1>2, <1>3, <1>5, SeqEqual
<1> QED BY <1>6 DEF a, b

LEMMA MappedShorter ==
  ASSUME NEW R, NEW T, NEW f, Maps(f, R, T), NEW s \in Seq(R), s # <<>>
  PROVE  /\ Mapped(f, s) # <<>> /\ Head(Mapped(f, s)) = f[s[1]]
         /\ Mapped(f, Tail(s)) = Tail(Mapped(f, s))
         /\ Mapped(f, SubSeq(s, 1, Len(s) - 1))
              = SubSeq(Mapped(f, s), 1, Len(Mapped(f, s)) - 1)
<1> DEFINE h == Mapped(f, s)
<1>1. /\ h \in Seq(T) /\ Len(h) = Len(s) /\ h # <<>>
      /\ \A k \in 1 .. Len(s) : h[k] = f[s[k]]
  BY MappedFacts
<1>s. \A t \in Seq(R) : /\ Mapped(f, t) \in Seq(T) /\ Len(Mapped(f, t)) = Len(t)
                         /\ \A k \in 1 .. Len(t) : Mapped(f, t)[k] = f[t[k]]
  BY MappedFacts
<1> HIDE DEF h
<1>2. /\ Len(s) \in Nat \ {0}
      /\ Tail(s) \in Seq(R) /\ Len(Tail(s)) = Len(s) - 1
      /\ \A k \in 1 .. Len(s) - 1 : Tail(s)[k] = s[k + 1]
      /\ SubSeq(s, 1, Len(s) - 1) \in Seq(R) /\ Len(SubSeq(s, 1, Len(s) - 1)) = Len(s) - 1
      /\ \A k \in 1 .. Len(s) - 1 : SubSeq(s, 1, Len(s) - 1)[k] = s[k]
  BY <1>1, Shorter
<1>3. /\ h[1] = Head(h)
      /\ Tail(h) \in Seq(T) /\ Len(Tail(h)) = Len(h) - 1
      /\ \A k \in 1 .. Len(h) - 1 : Tail(h)[k] = h[k + 1]
      /\ SubSeq(h, 1, Len(h) - 1) \in Seq(T) /\ Len(SubSeq(h, 1, Len(h) - 1)) = Len(h) - 1
      /\ \A k \in 1 .. Len(h) - 1 : SubSeq(h, 1, Len(h) - 1)[k] = h[k]
  BY <1>1, Shorter
<1>4. \A k \in 1 .. Len(s) - 1 : k \in 1 .. Len(s) /\ k + 1 \in 1 .. Len(s)
  BY <1>2
<1>5. Mapped(f, Tail(s)) = Tail(h)
  <2> DEFINE u == Tail(s)
             v == Tail(h)
  <2>1. Mapped(f, u) \in Seq(T) /\ Len(Mapped(f, u)) = Len(s) - 1
        /\ \A k \in 1 .. Len(s) - 1 : Mapped(f, u)[k] = f[u[k]]
    BY Zenon, <1>2, <1>s
  <2>2. ASSUME NEW k \in 1 .. Len(s) - 1 PROVE Mapped(f, u)[k] = v[k]
    <3>1. v[k] = h[k + 1] /\ u[k] = s[k + 1]
      BY <1>1, <1>2, <1>3
    <3>2. h[k + 1] = f[s[k + 1]]
      BY <1>1, <1>4
    <3> QED BY <2>1, <3>1, <3>2
  <2>3. v \in Seq(T) /\ Len(v) = Len(s) - 1
    BY <1>1, <1>3
  <2> HIDE DEF u, v
  <2>4. Mapped(f, u) = v
    BY SMTT(30), <2>1, <2>2, <2>3, SeqEqual
  <2> QED BY SMTT(30), <2>4 DEF u, v
<1>6. Mapped(f, SubSeq(s, 1, Len(s) - 1)) = SubSeq(h, 1, Len(h) - 1)
  <2> DEFINE u == SubSeq(s, 1, Len(s) - 1)
             v == SubSeq(h, 1, Len(h) - 1)
  <2>1. Mapped(f, u) \in Seq(T) /\ Len(Mapped(f, u)) = Len(s) - 1
        /\ \A k \in 1 .. Len(s) - 1 : Mapped(f, u)[k] = f[u[k]]
    BY Zenon, <1>2, <1>s
  <2>2. \A k \in 1 .. Len(s) - 1 : Mapped(f, u)[k] = v[k]
    BY <1>1, <1>2, <1>3, <1>4, <2>1
  <2>3. v \in Seq(T) /\ Len(v) = Len(s) - 1
    BY <1>1, <1>3
  <2> HIDE DEF u, v
  <2>4. Mapped(f, u) = v
    BY <2>1, <2>2, <2>3, SeqEqual
  <2> QED BY <2>4 DEF u, v
<1> QED BY <1>1, <1>2, <1>3, <1>5, <1>6 DEF h

\* Every call on the fixed-size FIFO is a step of the queue.
LEMMA FixedStep ==
  ASSUME Fixed!FifoAssumption, RingInv, [Fixed!Next]_(Fixed!vars)
  PROVE  [Fixed!Queue!Next]_(Fixed!Queue!vars)
<1> DEFINE E == [at : 0 .. Last, data : Data]
           f == [e \in E |-> e.data]
           q == Mapped(f, unread)
<1>1. /\ unread \in Seq(E) /\ count = Len(unread) /\ maxSize \in Nat /\ count \in 0 .. maxSize
      /\ pWrite \in 0 .. Last
  <2>1. maxSize \in 0 .. Last + 1 /\ Last \in Nat
    BY DEF RingInv, Fixed!TypeOK, Fixed!FifoAssumption
  <2> QED BY <2>1 DEF RingInv, Fixed!TypeOK
<1>f. Maps(f, E, Data) /\ \A e \in E : f[e] = e.data
  BY DEF Maps
<1>e. unread' \in Seq(E) /\ <<>> \in Seq(E) /\ \A d \in Data : [at |-> pWrite, data |-> d] \in E
  BY <1>1, RingStep DEF RingInv, Fixed!TypeOK
<1> HIDE DEF E, f
<1>2. /\ q \in Seq(Data) /\ Len(q) = count /\ count \in Nat
      /\ (q = <<>>) <=> (unread = <<>>)
  BY <1>1, <1>f, MappedFacts
<1>3. /\ [k \in DOMAIN unread |-> unread[k].data] = q
      /\ [k \in DOMAIN unread |-> unread[k].data]' = Mapped(f, unread')
      /\ Mapped(f, <<>>) = <<>>
  <2>1. ASSUME NEW s \in Seq(E)
        PROVE  [k \in DOMAIN s |-> s[k].data] = Mapped(f, s)
    <3>1. \A k \in DOMAIN s : s[k] \in E
      OBVIOUS
    <3> QED BY <1>f, <3>1 DEF Mapped
  <2>2. Mapped(f, <<>>) = <<>>
    BY <1>f, <1>e, MappedFacts
  <2> QED BY <1>1, <1>e, <2>1, <2>2
<1>4. ASSUME NEW d \in Data, Fixed!writeElement(d)
      PROVE  Fixed!Queue!Next
  <2>1. CASE Fixed!IsFull
    <3>1. /\ UNCHANGED <<maxSize, unread>> /\ answer' = <<"refused", d>>
          /\ Len(q) >= maxSize
      BY <1>2, <1>4, <2>1 DEF Fixed!writeElement, Fixed!IsFull
    <3>2. Mapped(f, unread') = q
      BY <3>1
    <3>3. Fixed!Queue!Refuse(d)
      BY <1>3, <3>1, <3>2 DEF Fixed!Queue!Refuse
    <3> QED BY <3>3 DEF Fixed!Queue!Next
  <2>2. CASE ~Fixed!IsFull
    <3>1. /\ UNCHANGED maxSize /\ answer' = <<"written", d>>
          /\ unread' = Append(unread, [at |-> pWrite, data |-> d])
          /\ Len(q) < maxSize
      BY <1>1, <1>2, <1>4, <2>2 DEF Fixed!writeElement, Fixed!IsFull
    <3>2. Mapped(f, unread') = Append(q, d)
      <4> DEFINE x == [at |-> pWrite, data |-> d]
      <4>1. x \in E /\ x.data = d /\ unread' = Append(unread, x)
        BY <1>e, <3>1
      <4> HIDE DEF x, q
      <4>2. Mapped(f, Append(unread, x)) = Append(Mapped(f, unread), f[x])
        BY <1>1, <1>f, <4>1, MappedAppend
      <4> QED BY <1>f, <4>1, <4>2 DEF q
    <3>3. Fixed!Queue!Put(d)
      BY <1>3, <3>1, <3>2 DEF Fixed!Queue!Put
    <3> QED BY <3>3 DEF Fixed!Queue!Next
  <2> QED BY <2>1, <2>2
<1>5. CASE Fixed!readElement
  <2>1. CASE count = 0
    <3>1. /\ UNCHANGED <<maxSize, unread>> /\ answer' = <<"read", Null>>
          /\ q = <<>>
      BY <1>1, <1>2, <1>5, <2>1 DEF Fixed!readElement
    <3>2. Mapped(f, unread') = q
      BY <3>1
    <3>3. Fixed!Queue!Empty("read")
      BY <1>3, <3>1, <3>2 DEF Fixed!Queue!Empty
    <3> QED BY <3>3 DEF Fixed!Queue!Next
  <2>2. CASE count # 0
    <3>1. /\ unread # <<>> /\ answer' = <<"read", unread[1].data>>
          /\ unread' = Tail(unread) /\ UNCHANGED maxSize
      BY <1>5, <2>2, FixedRead DEF Fixed!readElement
    <3>2. q # <<>> /\ Head(q) = unread[1].data /\ Mapped(f, unread') = Tail(q)
      <4>1. /\ Mapped(f, unread) # <<>> /\ Head(Mapped(f, unread)) = f[unread[1]]
            /\ Mapped(f, Tail(unread)) = Tail(Mapped(f, unread)) /\ unread[1] \in E
        BY <1>1, <1>f, <3>1, MappedShorter, Shorter
      <4> QED BY <1>f, <3>1, <4>1
    <3>3. Fixed!Queue!Get
      BY <1>3, <3>1, <3>2 DEF Fixed!Queue!Get
    <3> QED BY <3>3 DEF Fixed!Queue!Next
  <2> QED BY <2>1, <2>2
<1>6. CASE Fixed!returnElement
  <2>1. /\ unread # <<>> /\ answer' = <<"returned", Null>> /\ UNCHANGED maxSize
        /\ unread' = SubSeq(unread, 1, Len(unread) - 1)
    BY <1>6 DEF Fixed!returnElement
  <2>2. q # <<>> /\ Mapped(f, unread') = SubSeq(q, 1, Len(q) - 1)
    BY <1>1, <1>f, <2>1, MappedShorter
  <2>3. Fixed!Queue!TakeBack
    BY <1>3, <2>1, <2>2 DEF Fixed!Queue!TakeBack
  <2> QED BY <2>3 DEF Fixed!Queue!Next
<1>7. CASE Fixed!Clear \/ \E b \in Sizes : Fixed!FifoInit(b)
  <2>1. unread' = <<>> /\ answer' = <<"cleared", Null>>
    BY <1>7 DEF Fixed!Clear, Fixed!FifoInit
  <2>2. maxSize' \in Nat
    <3>1. maxSize' \in 0 .. Last + 1 /\ Last \in Nat
      BY <1>7, FixedEmpty DEF RingInv, Fixed!TypeOK, Fixed!FifoAssumption
    <3> QED BY <3>1
  <2>3. Fixed!Queue!Clear
    BY <1>1, <1>3, <2>1, <2>2 DEF Fixed!Queue!Clear
  <2> QED BY <2>3 DEF Fixed!Queue!Next
<1>8. CASE UNCHANGED Fixed!vars
  <2>1. UNCHANGED <<maxSize, unread, answer>>
    BY <1>8 DEF Fixed!vars
  <2>2. UNCHANGED Fixed!Queue!vars
    BY <2>1 DEF Fixed!Queue!vars
  <2> QED BY <2>2
<1> QED BY <1>4, <1>5, <1>6, <1>7, <1>8 DEF Fixed!Next

\* The fixed-size FIFO is a queue of exactly max_size elements with an undo of
\* the last write: elements come out in the order and with the contents they
\* went in, full means max_size of them, and a read of an empty FIFO and a
\* refused write change nothing.
THEOREM FixedQueue == FixedSpec => FixedQueueSpec
<1>1. Fixed!Init => RingInv
  BY RingInit, FixedAssumption
<1>2. Fixed!Init => Fixed!Queue!Init
  <2> SUFFICES ASSUME Fixed!Init PROVE Fixed!Queue!Init
    OBVIOUS
  <2>1. maxSize = 0 /\ unread = <<>> /\ answer = <<"init", Null>>
    BY DEF Fixed!Init
  <2>2. [k \in DOMAIN unread |-> unread[k].data] = <<>>
    BY <2>1
  <2> QED BY <2>1, <2>2 DEF Fixed!Queue!Init
<1>3. RingInv /\ [Fixed!Next]_(Fixed!vars) => RingInv'
  BY RingStep, FixedAssumption
<1>4. RingInv /\ [Fixed!Next]_(Fixed!vars) => [Fixed!Queue!Next]_(Fixed!Queue!vars)
  BY FixedStep, FixedAssumption
<1> QED
  BY <1>1, <1>2, <1>3, <1>4, PTL DEF FixedSpec, Fixed!Spec, FixedQueueSpec, Fixed!QueueSpec, Fixed!Queue!Spec

-----------------------------------------------------------------------------
(* The variable-sized FIFO keeps its elements.                               *)

CONSTANT Positions

\* The first word behind an element.
End(u) == u.at + Total(u.element.size)

\* Where elements may start: from each position, an element that may be written
\* ends at another one, or it fits in front of the position and not behind it.
\* The last word, and the end of the buffer, are none of them.
Fitting ==
  /\ Positions \subseteq 0 .. Words - 2 /\ 0 \in Positions
  /\ \A p \in Positions, b \in Sizes :
       ToUlongSize(b) <= size =>
         \/ p + Total(b) \in Positions
         \/ p + Total(b) > Words /\ Total(b) <= p

\* An element as writeElement puts it into the buffer.
Proper(u) ==
  /\ u.at \in Positions /\ End(u) \in Positions
  /\ u.element.size \in Sizes
  /\ u.element.data \in [1 .. ToUlongSize(u.element.size) -> Data]

\* The elements i to j of s lie one behind the other in the words from .. to - 1.
Behind(s, i, j, from, to) ==
  /\ i > j => from = to
  /\ i <= j => s[i].at = from /\ End(s[j]) = to
  /\ \A k \in i .. j : from <= s[k].at /\ End(s[k]) + (j - k) <= to
  /\ \A k, l \in i .. j : k < l => End(s[k]) <= s[l].at
  /\ \A k \in i .. j - 1 : End(s[k]) = s[k + 1].at

Straight == Behind(unread, 1, count, pRead, pWrite)

\* The oldest w elements lie before the marker, the others from the start.
WrappedAt(w, m) ==
  /\ Behind(unread, 1, w, pRead, m) /\ mem[m] = Ones
  /\ Behind(unread, w + 1, count, 0, pWrite)

Wrapped ==
  pWrite <= pRead /\ \E w \in 0 .. count - 1, m \in Positions : WrappedAt(w, m)

LaidOut ==
  /\ TypeOK /\ pRead \in Positions /\ pWrite \in Positions
  /\ \A k \in DOMAIN unread : Proper(unread[k])
  /\ Intact
  /\ Straight \/ Wrapped

LEMMA SizeFacts ==
  ASSUME SafeUse
  PROVE  /\ \A b \in Sizes : /\ b \in Nat \ {0} /\ ToUlongSize(b) \in Nat \ {0}
                             /\ Total(b) = ToUlongSize(b) + 2 /\ b # Ones
         /\ Words \in Nat /\ Words > 2 /\ Words < Wrap32 /\ Wrap32 \in Nat
         /\ size \in Nat /\ size + 2 <= Words
<1>1. ASSUME NEW b \in Sizes
      PROVE  /\ b \in Nat \ {0} /\ ToUlongSize(b) \in Nat \ {0}
             /\ Total(b) = ToUlongSize(b) + 2 /\ b # Ones
  <2>1. b \in Nat /\ b > 0 /\ b < Ones
    BY LayoutAssumption, WordAssumption DEF SafeUse
  <2>2. ToUlongSize(b) \in Nat /\ ToUlongSize(b) > 0
    BY <2>1, ToUlongSizeNat, ToUlongSizePositive
  <2> QED BY <2>1, <2>2, WordAssumption DEF Total, Overhead
<1>2. size \in Nat
  BY LayoutAssumption, ToUlongSizeNat DEF size
<1> QED
  BY <1>1, <1>2, LayoutAssumption, WordAssumption DEF SafeUse, Overhead

\* What the invariant says of the pointers and of each element.
LEMMA PlaceFacts ==
  ASSUME SafeUse, Fitting, LaidOut
  PROVE  /\ \A p \in Positions : p \in Nat /\ p <= Words - 2
         /\ pRead \in Positions /\ pWrite \in Positions
         /\ count \in Nat /\ count = Len(unread) /\ DOMAIN unread = 1 .. count
         /\ mem \in [0 .. Words - 1 -> Nat]
         /\ unread \in Seq([at : 0..Words - 1, element : [size : Nat, data : Seq(Nat)]])
         /\ \A k \in 1 .. count :
              /\ unread[k].at \in Nat /\ End(unread[k]) \in Nat
              /\ unread[k].at < End(unread[k]) /\ Proper(unread[k])
              /\ unread[k].at \in Positions /\ End(unread[k]) \in Positions
              /\ unread[k].element.size \in Sizes
<1>1. \A p \in Positions : p \in Nat /\ p <= Words - 2
  BY SizeFacts DEF Fitting
<1>2. /\ count \in Nat /\ count = Len(unread)
      /\ mem \in [0 .. Words - 1 -> Nat]
      /\ unread \in Seq([at : 0..Words - 1, element : [size : Nat, data : Seq(Nat)]])
  BY DEF LaidOut, TypeOK
<1>3. DOMAIN unread = 1 .. count
  BY <1>2
<1>4. ASSUME NEW k \in 1 .. count
      PROVE  /\ unread[k].at \in Nat /\ End(unread[k]) \in Nat
             /\ unread[k].at < End(unread[k]) /\ Proper(unread[k])
             /\ unread[k].at \in Positions /\ End(unread[k]) \in Positions
             /\ unread[k].element.size \in Sizes
  <2>1. Proper(unread[k])
    BY <1>3 DEF LaidOut
  <2>2. /\ unread[k].at \in Positions /\ End(unread[k]) \in Positions
        /\ unread[k].element.size \in Sizes
    BY <2>1 DEF Proper
  <2>3. Total(unread[k].element.size) \in Nat \ {0}
    BY <2>2, SizeFacts
  <2>4. unread[k].at \in Nat /\ End(unread[k]) \in Nat
    BY <1>1, <2>2
  <2> QED BY <2>1, <2>2, <2>3, <2>4 DEF End
<1> QED BY <1>1, <1>2, <1>3, <1>4 DEF LaidOut

-----------------------------------------------------------------------------
(* Elements one behind the other, as an element is added or taken.           *)

Numbered(s) ==
  \A k \in 1 .. Len(s) : s[k].at \in Nat /\ End(s[k]) \in Nat /\ s[k].at < End(s[k])

LEMMA BehindMore ==
  ASSUME NEW R, NEW s \in Seq(R), NEW u \in R, Numbered(s),
         NEW i \in 1 .. Len(s) + 1, NEW from \in Nat, NEW to \in Nat,
         Behind(s, i, Len(s), from, to), u.at = to, End(u) \in Nat, to < End(u)
  PROVE  Behind(Append(s, u), i, Len(s) + 1, from, End(u))
<1> DEFINE n == Len(s)
           a == Append(s, u)
<1>1. n \in Nat /\ (\A k \in 1 .. n : a[k] = s[k]) /\ a[n + 1] = u
  BY Longer
<1>n. \A k \in 1 .. n : s[k].at \in Nat /\ End(s[k]) \in Nat /\ s[k].at < End(s[k])
  BY DEF Numbered
<1>b. /\ i > n => from = to
      /\ i <= n => s[i].at = from /\ End(s[n]) = to
      /\ \A k \in i .. n : from <= s[k].at /\ End(s[k]) + (n - k) <= to
      /\ \A k, l \in i .. n : k < l => End(s[k]) <= s[l].at
      /\ \A k \in i .. n - 1 : End(s[k]) = s[k + 1].at
  BY DEF Behind
<1> HIDE DEF n, a
<1>2. i \in 1 .. n + 1 /\ \A k \in i .. n + 1 : (k \in i .. n /\ k \in 1 .. n) \/ k = n + 1
  BY <1>1 DEF n
<1>3. from <= to
  <2>1. CASE i > n
    BY <1>b, <2>1
  <2>2. CASE i <= n
    <3>1. s[n].at \in Nat /\ s[n].at < End(s[n]) /\ n \in i .. n
      BY <1>1, <1>2, <1>n, <2>2
    <3> QED BY SMTT(30), <1>b, <2>2, <3>1
  <2> QED BY <1>1, <1>2, <2>1, <2>2
<1>4. a[i].at = from /\ End(a[n + 1]) = End(u)
  BY <1>1, <1>2, <1>b
<1>5. ASSUME NEW k \in i .. n + 1
      PROVE  from <= a[k].at /\ End(a[k]) + (n + 1 - k) <= End(u)
  <2>1. CASE k = n + 1
    BY <1>1, <1>3, <2>1
  <2>2. CASE k \in i .. n /\ k \in 1 .. n
    <3>1. a[k] = s[k] /\ from <= s[k].at /\ End(s[k]) + (n - k) <= to
      BY <1>1, <1>b, <2>2
    <3> QED BY <1>1, <1>n, <2>2, <3>1
  <2> QED BY <1>2, <2>1, <2>2
<1>6. ASSUME NEW k \in i .. n + 1, NEW l \in i .. n + 1, k < l
      PROVE  End(a[k]) <= a[l].at
  <2>1. k \in i .. n /\ k \in 1 .. n /\ a[k] = s[k]
    BY <1>1, <1>2, <1>6
  <2>2. CASE l = n + 1
    <3>1. End(s[k]) + (n - k) <= to /\ n - k >= 0 /\ End(s[k]) \in Nat
      BY <1>1, <1>b, <1>n, <2>1
    <3> QED BY <1>1, <2>1, <2>2, <3>1
  <2>3. CASE l \in i .. n /\ l \in 1 .. n
    BY <1>1, <1>6, <1>b, <2>1, <2>3
  <2> QED BY <1>2, <2>2, <2>3
<1>7. ASSUME NEW k \in i .. (n + 1) - 1
      PROVE  End(a[k]) = a[k + 1].at
  <2>1. k \in i .. n /\ k \in 1 .. n /\ a[k] = s[k]
    BY <1>1, <1>2
  <2>2. CASE k = n
    BY <1>1, <1>2, <1>b, <2>1, <2>2
  <2>3. CASE k # n
    <3>1. k \in i .. n - 1 /\ k + 1 \in 1 .. n
      BY <1>1, <2>1, <2>3
    <3> QED BY <1>1, <1>b, <2>1, <3>1
  <2> QED BY <2>2, <2>3
<1>8. ~(i > n + 1)
  BY <1>1, <1>2
<1>9. Behind(a, i, n + 1, from, End(u))
  <2>1. \A k \in i .. n + 1 : from <= a[k].at /\ End(a[k]) + (n + 1 - k) <= End(u)
    BY <1>5
  <2>2. \A k, l \in i .. n + 1 : k < l => End(a[k]) <= a[l].at
    BY <1>6
  <2>3. \A k \in i .. (n + 1) - 1 : End(a[k]) = a[k + 1].at
    BY <1>7
  <2>4. i > n + 1 => from = End(u)
    BY <1>8
  <2> QED BY <1>1, <1>2, <1>4, <2>1, <2>2, <2>3, <2>4 DEF Behind
<1> QED BY <1>9 DEF a, n

LEMMA BehindSame ==
  ASSUME NEW R, NEW s \in Seq(R), NEW u \in R, NEW i \in Nat \ {0}, NEW j \in 0 .. Len(s),
         NEW from, NEW to, Behind(s, i, j, from, to)
  PROVE  Behind(Append(s, u), i, j, from, to)
<1> DEFINE a == Append(s, u)
<1>1. Len(s) \in Nat /\ \A k \in 1 .. Len(s) : a[k] = s[k]
  BY Longer
<1> HIDE DEF a
<1>2. /\ \A k \in i .. j : a[k] = s[k]
      /\ \A k \in i .. j - 1 : a[k + 1] = s[k + 1]
      /\ i <= j => a[i] = s[i] /\ a[j] = s[j]
  BY <1>1
<1>3. /\ i > j => from = to
      /\ i <= j => s[i].at = from /\ End(s[j]) = to
      /\ \A k \in i .. j : from <= s[k].at /\ End(s[k]) + (j - k) <= to
      /\ \A k, l \in i .. j : k < l => End(s[k]) <= s[l].at
      /\ \A k \in i .. j - 1 : End(s[k]) = s[k + 1].at
  BY DEF Behind
<1>4. \A k \in i .. j - 1 : k \in i .. j
  OBVIOUS
<1>5. /\ i > j => from = to
      /\ i <= j => a[i].at = from /\ End(a[j]) = to
      /\ \A k \in i .. j : from <= a[k].at /\ End(a[k]) + (j - k) <= to
      /\ \A k, l \in i .. j : k < l => End(a[k]) <= a[l].at
      /\ \A k \in i .. j - 1 : End(a[k]) = a[k + 1].at
  BY <1>2, <1>3, <1>4
<1> QED BY <1>5 DEF Behind, a

LEMMA BehindFirst ==
  ASSUME NEW R, NEW s \in Seq(R), Numbered(s), s # <<>>, NEW j \in 1 .. Len(s),
         NEW from, NEW to, Behind(s, 1, j, from, to)
  PROVE  Behind(Tail(s), 1, j - 1, End(s[1]), to)
<1> DEFINE t == Tail(s)
<1>1. Len(s) \in Nat \ {0} /\ \A k \in 1 .. Len(s) - 1 : t[k] = s[k + 1]
  BY Shorter
<1> HIDE DEF t
<1>2. /\ 1 <= j => s[1].at = from /\ End(s[j]) = to
      /\ \A k \in 1 .. j : from <= s[k].at /\ End(s[k]) + (j - k) <= to
      /\ \A k, l \in 1 .. j : k < l => End(s[k]) <= s[l].at
      /\ \A k \in 1 .. j - 1 : End(s[k]) = s[k + 1].at
  BY DEF Behind
<1>3. \A k \in 1 .. j - 1 : /\ k + 1 \in 1 .. j /\ t[k] = s[k + 1] /\ 1 < k + 1
                              /\ j - (k + 1) = (j - 1) - k /\ (k + 1) - 1 = k
  BY <1>1
<1>4. 1 > j - 1 => End(s[1]) = to
  BY <1>2
<1>5. 1 <= j - 1 => t[1].at = End(s[1]) /\ End(t[j - 1]) = to
  BY <1>2, <1>3
<1>6. ASSUME NEW k \in 1 .. j - 1
      PROVE  End(s[1]) <= t[k].at /\ End(t[k]) + ((j - 1) - k) <= to
  <2>1. /\ k + 1 \in 1 .. j /\ 1 \in 1 .. j /\ t[k] = s[k + 1] /\ 1 < k + 1
        /\ j - (k + 1) = (j - 1) - k
    BY <1>3
  <2>2. End(s[k + 1]) + (j - (k + 1)) <= to /\ End(s[1]) <= s[k + 1].at
    BY <1>2, <2>1
  <2> QED BY <2>1, <2>2
<1>7. ASSUME NEW k \in 1 .. j - 1, NEW l \in 1 .. j - 1, k < l
      PROVE  End(t[k]) <= t[l].at
  <2>1. /\ k + 1 \in 1 .. j /\ l + 1 \in 1 .. j /\ k + 1 < l + 1
        /\ t[k] = s[k + 1] /\ t[l] = s[l + 1]
    BY <1>3, <1>7
  <2> QED BY <1>2, <2>1
<1>8. ASSUME NEW k \in 1 .. (j - 1) - 1 PROVE End(t[k]) = t[k + 1].at
  <2>1. k \in 1 .. j - 1 /\ k + 1 \in 1 .. j - 1
    OBVIOUS
  <2> QED BY <1>2, <1>3, <2>1
<1> QED BY <1>4, <1>5, <1>6, <1>7, <1>8 DEF Behind, t

LEMMA BehindNext ==
  ASSUME NEW R, NEW s \in Seq(R), s # <<>>, NEW i \in Nat \ {0}, NEW j \in 1 .. Len(s),
         NEW from, NEW to, Behind(s, i + 1, j, from, to)
  PROVE  Behind(Tail(s), i, j - 1, from, to)
<1> DEFINE t == Tail(s)
<1>1. Len(s) \in Nat \ {0} /\ \A k \in 1 .. Len(s) - 1 : t[k] = s[k + 1]
  BY Shorter
<1> HIDE DEF t
<1>2. /\ i + 1 > j => from = to
      /\ i + 1 <= j => s[i + 1].at = from /\ End(s[j]) = to
      /\ \A k \in i + 1 .. j : from <= s[k].at /\ End(s[k]) + (j - k) <= to
      /\ \A k, l \in i + 1 .. j : k < l => End(s[k]) <= s[l].at
      /\ \A k \in i + 1 .. j - 1 : End(s[k]) = s[k + 1].at
  BY DEF Behind
<1>3. \A k \in i .. j - 1 : /\ k + 1 \in i + 1 .. j /\ t[k] = s[k + 1]
                              /\ j - (k + 1) = (j - 1) - k
  BY <1>1
<1>4. i > j - 1 => from = to
  BY <1>2
<1>5. i <= j - 1 => t[i].at = from /\ End(t[j - 1]) = to
  <2> SUFFICES ASSUME i <= j - 1 PROVE t[i].at = from /\ End(t[j - 1]) = to
    OBVIOUS
  <2>1. t[i] = s[i + 1] /\ t[j - 1] = s[j] /\ i + 1 <= j
    <3>1. i \in i .. j - 1 /\ j - 1 \in i .. j - 1 /\ (j - 1) + 1 = j
      OBVIOUS
    <3> QED BY <1>3, <3>1
  <2> QED BY <1>2, <2>1
<1>6. \A k \in i .. j - 1 : from <= t[k].at /\ End(t[k]) + ((j - 1) - k) <= to
  BY <1>2, <1>3
<1>7. ASSUME NEW k \in i .. j - 1, NEW l \in i .. j - 1, k < l
      PROVE  End(t[k]) <= t[l].at
  <2>1. /\ k + 1 \in i + 1 .. j /\ l + 1 \in i + 1 .. j /\ k + 1 < l + 1
        /\ t[k] = s[k + 1] /\ t[l] = s[l + 1]
    BY <1>3, <1>7
  <2> QED BY <1>2, <2>1
<1>8. ASSUME NEW k \in i .. (j - 1) - 1 PROVE End(t[k]) = t[k + 1].at
  <2>1. k \in i .. j - 1 /\ k + 1 \in i .. j - 1 /\ k + 1 \in i + 1 .. j - 1
    OBVIOUS
  <2> QED BY <1>2, <1>3, <2>1
<1> QED BY <1>4, <1>5, <1>6, <1>7, <1>8 DEF Behind, t

-----------------------------------------------------------------------------
(* Where writeElement puts the next element.                                 *)

LEMMA SpanFacts ==
  ASSUME SafeUse, Fitting, LaidOut
  PROVE  /\ Straight => (pRead <= pWrite /\ (count = 0 <=> pRead = pWrite)
                         /\ pRead + count <= pWrite)
         /\ Wrapped => count > 0
<1>f. /\ count \in Nat /\ pRead \in Nat /\ pWrite \in Nat
      /\ \A k \in 1 .. count : unread[k].at \in Nat /\ End(unread[k]) \in Nat
                               /\ unread[k].at < End(unread[k])
  BY PlaceFacts
<1>1. ASSUME Straight, count = 0
      PROVE  pRead = pWrite
  BY <1>1, <1>f DEF Straight, Behind
<1>2. ASSUME Straight, count # 0
      PROVE  pRead + count <= pWrite
  <2>1. 1 \in 1 .. count
    BY <1>2, <1>f
  <2>2. unread[1].at = pRead
    BY <1>2, <1>f, <2>1 DEF Straight, Behind
  <2>3. End(unread[1]) + (count - 1) <= pWrite
    BY <1>2, <1>f, <2>1 DEF Straight, Behind
  <2> QED BY <1>f, <2>1, <2>2, <2>3
<1>3. ASSUME Wrapped PROVE count > 0
  <2>1. PICK w \in 0 .. count - 1 : TRUE
    BY <1>3 DEF Wrapped
  <2> QED BY <1>f, <2>1
<1> QED BY <1>1, <1>2, <1>3, <1>f

LEMMA RoomFacts ==
  ASSUME SafeUse, Fitting, LaidOut
  PROVE  /\ count = 0 => pRead = pWrite /\ GetRoom = Words - 2
         /\ Straight /\ count # 0 => pRead < pWrite /\ GetRoom = Larger(pRead - 2, Words - pWrite - 2)
         /\ Wrapped /\ pWrite = pRead => GetRoom = 0
         /\ Wrapped /\ pWrite # pRead =>
              pWrite < pRead /\ GetRoom = IF pRead - pWrite <= 2 THEN 0 ELSE pRead - pWrite - 2
         /\ Straight \/ Wrapped
         /\ GetRoom \in Nat
<1>f. /\ count \in Nat /\ pRead \in Nat /\ pWrite \in Nat /\ Words \in Nat
      /\ pRead <= Words - 2 /\ pWrite <= Words - 2 /\ Words < Wrap32 /\ Wrap32 \in Nat
  BY PlaceFacts, SizeFacts
<1>1. Straight \/ Wrapped
  BY DEF LaidOut
<1>2. ASSUME Straight, count # 0
      PROVE  /\ pRead < pWrite /\ GetRoom \in Nat
             /\ GetRoom = Larger(pRead - 2, Words - pWrite - 2)
  <2>1. pRead < pWrite
    BY <1>2, <1>f, SpanFacts
  <2> DEFINE x == Larger(pRead - 2, Words - pWrite - 2)
  <2>2. x \in Nat /\ x < Wrap32
    BY <1>f DEF Larger
  <2>3. ASSUME NEW i \in Nat, NEW j \in Nat, i < j PROVE i % j = i
    BY <2>3
  <2>4. GetRoom = x % Wrap32
    BY <1>f, <2>1 DEF GetRoom, U32, HeadRoom, TailRoom, Overhead
  <2> HIDE DEF x
  <2>5. GetRoom = x
    BY <1>f, <2>2, <2>3, <2>4
  <2> QED BY <2>1, <2>2, <2>5 DEF x
<1>3. ASSUME Straight, count = 0
      PROVE  pRead = pWrite /\ GetRoom = Words - 2 /\ GetRoom \in Nat
  BY <1>3, <1>f, SpanFacts DEF GetRoom, Overhead
<1>4. ASSUME Wrapped, pWrite = pRead
      PROVE  GetRoom = 0 /\ count # 0
  BY <1>4, <1>f, SpanFacts DEF GetRoom
<1>5. ASSUME Wrapped, pWrite # pRead
      PROVE  /\ pWrite < pRead /\ GetRoom \in Nat /\ count # 0
             /\ GetRoom = IF pRead - pWrite <= 2 THEN 0 ELSE pRead - pWrite - 2
  <2>1. pWrite < pRead /\ count # 0
    BY <1>5, <1>f, SpanFacts DEF Wrapped
  <2>2. GetRoom = IF pRead - pWrite <= 2 THEN 0 ELSE pRead - pWrite - 2
    BY <1>f, <2>1 DEF GetRoom, GapRoom, Ahead, Overhead
  <2> QED BY <1>f, <2>1, <2>2
<1> QED BY <1>1, <1>2, <1>3, <1>4, <1>5, <1>f

\* An accepted element goes to a free stretch of the buffer: behind the others,
\* or, when it does not fit there, in front of them.
LEMMA Placed ==
  ASSUME SafeUse, Fitting, LaidOut, NEW b \in Sizes,
         ToUlongSize(b) <= GetRoom, ToUlongSize(b) <= size
  PROVE  \/ /\ Straight /\ ~DoesNotFit(ToUlongSize(b)) /\ pWrite + Total(b) \in Positions
         \/ /\ Straight /\ DoesNotFit(ToUlongSize(b))
            /\ Total(b) \in Positions /\ Total(b) <= pRead
         \/ /\ Wrapped /\ ~DoesNotFit(ToUlongSize(b))
            /\ pWrite + Total(b) \in Positions /\ pWrite + Total(b) <= pRead
<1> DEFINE el == ToUlongSize(b)
           T  == Total(b)
<1>f. /\ count \in Nat /\ pRead \in Nat /\ pWrite \in Nat /\ Words \in Nat
      /\ pRead <= Words - 2 /\ pWrite <= Words - 2
      /\ pWrite \in Positions /\ 0 \in Positions /\ GetRoom \in Nat
      /\ el \in Nat \ {0} /\ T = el + 2
      /\ el <= GetRoom /\ el <= size
  BY PlaceFacts, SizeFacts, RoomFacts DEF Fitting
<1>p. \A p \in Positions : p + T \in Positions \/ (p + T > Words /\ T <= p)
  BY <1>f DEF Fitting
<1>d. DoesNotFit(el) <=> pWrite >= pRead /\ el + 2 > Words - pWrite
  BY DEF DoesNotFit, Overhead
<1> HIDE DEF el, T
<1>1. T \in Positions
  <2>1. 0 + T \in Positions \/ (0 + T > Words /\ T <= 0)
    BY <1>f, <1>p
  <2> QED BY <1>f, <2>1
<1>2. CASE Straight
  <2>1. pRead <= pWrite
    BY <1>2, SpanFacts
  <2>2. CASE ~DoesNotFit(el)
    BY <1>2, <1>f, <1>p, <1>d, <2>1, <2>2 DEF el, T
  <2>3. CASE DoesNotFit(el)
    <3>1. T > Words - pWrite /\ T <= pWrite
      <4>1. T > Words - pWrite
        BY <1>f, <1>d, <2>3
      <4>2. pWrite + T \notin Positions \/ pWrite + T <= Words - 2
        BY PlaceFacts
      <4> QED BY <1>f, <1>p, <4>1, <4>2
    <3>2. CASE count = 0
      BY <1>1, <1>2, <1>f, <2>3, <3>1, <3>2, RoomFacts DEF el, T
    <3>3. CASE count # 0
      <4>1. GetRoom = Larger(pRead - 2, Words - pWrite - 2)
        BY <1>2, <3>3, RoomFacts
      <4>2. el <= pRead - 2
        BY <1>f, <3>1, <4>1 DEF Larger
      <4> QED BY <1>1, <1>2, <1>f, <2>3, <4>2 DEF el, T
    <3> QED BY <3>2, <3>3
  <2> QED BY <2>2, <2>3
<1>3. CASE Wrapped
  <2>1. pWrite # pRead
    BY <1>3, <1>f, RoomFacts
  <2>2. pWrite < pRead /\ GetRoom = IF pRead - pWrite <= 2 THEN 0 ELSE pRead - pWrite - 2
    BY <1>3, <2>1, RoomFacts
  <2>3. pWrite + T <= pRead /\ ~DoesNotFit(el)
    BY <1>f, <1>d, <2>2
  <2>4. pWrite + T \in Positions
    BY <1>f, <1>p, <2>3
  <2> QED BY <1>3, <2>3, <2>4 DEF el, T
<1>4. Straight \/ Wrapped
  BY DEF LaidOut
<1> QED BY <1>2, <1>3, <1>4

\* The words of an element in a buffer.
IntactIn(u, m) ==
  /\ m[u.at] = u.element.size
  /\ \A i \in DOMAIN u.element.data : m[u.at + i] = u.element.data[i]
  /\ m[u.at + Total(u.element.size) - 1] = Trailer

LEMMA IntactSame ==
  ASSUME SafeUse, Fitting, NEW u, Proper(u), NEW m, NEW n, IntactIn(u, m),
         \A i \in u.at .. End(u) - 1 : n[i] = m[i]
  PROVE  IntactIn(u, n)
<1>1. /\ u.at \in Nat /\ u.element.size \in Sizes
      /\ DOMAIN u.element.data = 1 .. ToUlongSize(u.element.size)
  <2>1. u.at \in Positions /\ u.element.size \in Sizes
        /\ u.element.data \in [1 .. ToUlongSize(u.element.size) -> Data]
    BY DEF Proper
  <2>2. u.at \in 0 .. Words - 2
    BY <2>1 DEF Fitting
  <2> QED BY <2>1, <2>2
<1>2. /\ ToUlongSize(u.element.size) \in Nat \ {0}
      /\ Total(u.element.size) = ToUlongSize(u.element.size) + 2
  BY <1>1, SizeFacts
<1>3. /\ u.at \in u.at .. End(u) - 1
      /\ u.at + Total(u.element.size) - 1 \in u.at .. End(u) - 1
      /\ \A i \in 1 .. ToUlongSize(u.element.size) : u.at + i \in u.at .. End(u) - 1
  BY <1>1, <1>2 DEF End
<1> QED BY <1>1, <1>3 DEF IntactIn

\* Where the elements are.
LEMMA Inside ==
  ASSUME SafeUse, Fitting, LaidOut
  PROVE  /\ Straight => \A k \in 1 .. count : pRead <= unread[k].at /\ End(unread[k]) <= pWrite
         /\ \A w \in 0 .. count - 1, m \in Positions : WrappedAt(w, m) =>
              /\ pRead <= m
              /\ \A k \in 1 .. count :
                   \/ pRead <= unread[k].at /\ End(unread[k]) <= m
                   \/ End(unread[k]) <= pWrite
<1>f. /\ count \in Nat /\ pRead \in Nat /\ pWrite \in Nat
      /\ \A k \in 1 .. count : unread[k].at \in Nat /\ End(unread[k]) \in Nat
                               /\ unread[k].at < End(unread[k])
      /\ \A p \in Positions : p \in Nat
  BY PlaceFacts
<1>1. ASSUME Straight, NEW k \in 1 .. count
      PROVE  pRead <= unread[k].at /\ End(unread[k]) <= pWrite
  <2>1. pRead <= unread[k].at /\ End(unread[k]) + (count - k) <= pWrite
    BY <1>1 DEF Straight, Behind
  <2> QED BY <1>f, <2>1
<1>2. ASSUME NEW w \in 0 .. count - 1, NEW m \in Positions, WrappedAt(w, m)
      PROVE  /\ pRead <= m
             /\ \A k \in 1 .. count :
                   \/ pRead <= unread[k].at /\ End(unread[k]) <= m
                   \/ End(unread[k]) <= pWrite
  <2>1. Behind(unread, 1, w, pRead, m) /\ Behind(unread, w + 1, count, 0, pWrite)
    BY <1>2 DEF WrappedAt
  <2>2. ASSUME NEW k \in 1 .. w
        PROVE  pRead <= unread[k].at /\ End(unread[k]) <= m
    <3>1. pRead <= unread[k].at /\ End(unread[k]) + (w - k) <= m
      BY <2>1 DEF Behind
    <3>2. k \in 1 .. count /\ w - k >= 0 /\ w - k \in Nat /\ m \in Nat
      BY <1>f
    <3>3. End(unread[k]) \in Nat
      BY <1>f, <3>2
    <3> QED BY <3>1, <3>2, <3>3
  <2>3. ASSUME NEW k \in w + 1 .. count
        PROVE  End(unread[k]) <= pWrite
    <3>1. End(unread[k]) + (count - k) <= pWrite
      BY <2>1 DEF Behind
    <3>2. k \in 1 .. count /\ count - k \in Nat
      BY <1>f
    <3>3. End(unread[k]) \in Nat
      BY <1>f, <3>2
    <3> QED BY <1>f, <3>1, <3>2, <3>3
  <2>4. pRead <= m
    <3>1. CASE w = 0
      BY <2>1, <3>1, <1>f DEF Behind
    <3>2. CASE w # 0
      <4>1. 1 \in 1 .. w /\ 1 \in 1 .. count
        BY <3>2, <1>f
      <4> QED BY <1>f, <2>2, <4>1
    <3> QED BY <3>1, <3>2
  <2>5. \A k \in 1 .. count : k \in 1 .. w \/ k \in w + 1 .. count
    BY <1>f
  <2> QED BY <2>2, <2>3, <2>4, <2>5
<1> QED BY <1>1, <1>2

\* What an accepted write stores.
LEMMA Accepted ==
  ASSUME SafeUse, Fitting, LaidOut, NEW b \in Sizes, NEW data \in Data, writeElement(b, data),
         ToUlongSize(b) <= GetRoom, ToUlongSize(b) <= size,
         NEW pos \in Nat, pos = WritePos(ToUlongSize(b)), pos + Total(b) <= Words - 2
  PROVE  /\ pRead' = pRead /\ pWrite' = pos + Total(b) /\ count' = count + 1
         /\ unread' = Append(unread, [at |-> pos, element |-> Element(b, data)])
         /\ answer' = <<"written", Element(b, data)>>
         /\ mem'[pos] = b /\ mem'[pos + Total(b) - 1] = Trailer
         /\ \A i \in 1 .. ToUlongSize(b) : mem'[pos + i] = data
         /\ \A i \in 0 .. Words - 1 :
              i < pos \/ i >= pos + Total(b) =>
                mem'[i] = IF DoesNotFit(ToUlongSize(b)) /\ i = pWrite THEN Ones ELSE mem[i]
<1> DEFINE el == ToUlongSize(b)
           T  == Total(b)
<1>f. /\ pWrite \in Nat /\ pWrite <= Words - 2 /\ Words \in Nat /\ Words > 2
      /\ el \in Nat \ {0} /\ T = el + 2 /\ GetRoom \in Nat /\ size \in Nat
      /\ mem \in [0 .. Words - 1 -> Nat]
  BY PlaceFacts, SizeFacts, RoomFacts
<1>g. el <= GetRoom /\ el <= size /\ pos + T <= Words - 2
  OBVIOUS
<1> HIDE DEF el, T
<1>1. ~(pWrite < 0 \/ pWrite >= Words \/ el > GetRoom \/ el > size)
  BY <1>f, <1>g
<1>2. pos + el + Overhead = pos + T
  BY <1>f DEF Overhead
<1>3. pos + T # Words /\ pos + T < Words
  BY SMTT(30), <1>f, <1>g
<1>4. /\ mem' = Store(Image(pos, b, data), Marked(el))
      /\ pWrite' = pos + T /\ pRead' = pRead /\ count' = count + 1
      /\ unread' = Append(unread, [at |-> pos, element |-> Element(b, data)])
      /\ answer' = <<"written", Element(b, data)>>
  BY <1>1, <1>2, <1>3 DEF writeElement, el
<1> DEFINE img == Image(pos, b, data)
           mk  == Marked(el)
<1>5. /\ DOMAIN img = pos .. pos + T - 1
      /\ img[pos] = b /\ img[pos + T - 1] = Trailer
      /\ \A i \in 1 .. el : img[pos + i] = data
  <2>1. img = [i \in pos .. pos + el + 1 |->
                 IF i = pos THEN b ELSE IF i = pos + el + 1 THEN Trailer ELSE data]
    BY DEF Image, el
  <2>2. pos + el + 1 = pos + T - 1 /\ pos + T - 1 # pos /\ pos \in pos .. pos + T - 1
        /\ pos + T - 1 \in pos .. pos + T - 1
    BY <1>f
  <2>3. img = [i \in pos .. pos + T - 1 |->
                 IF i = pos THEN b ELSE IF i = pos + T - 1 THEN Trailer ELSE data]
    BY <2>1, <2>2
  <2> HIDE DEF img
  <2>4. \A i \in 1 .. el : pos + i \in pos .. pos + T - 1 /\ pos + i # pos /\ pos + i # pos + T - 1
    BY <1>f
  <2> QED BY <2>2, <2>3, <2>4
<1>6. /\ DOMAIN mk = 0 .. Words - 1
      /\ \A i \in 0 .. Words - 1 :
           mk[i] = IF DoesNotFit(el) /\ i = pWrite THEN Ones ELSE mem[i]
  <2>1. CASE DoesNotFit(el)
    <3>1. mk = [i \in {pWrite} \cup DOMAIN mem |-> IF i \in {pWrite} THEN Ones ELSE mem[i]]
      BY <2>1 DEF Marked, Store
    <3>2. {pWrite} \cup DOMAIN mem = 0 .. Words - 1
      BY <1>f
    <3> HIDE DEF mk
    <3> QED BY <2>1, <3>1, <3>2
  <2>2. CASE ~DoesNotFit(el)
    BY <1>f, <2>2 DEF Marked
  <2> QED BY <2>1, <2>2
<1>m. mem' = [i \in DOMAIN img \cup DOMAIN mk |-> IF i \in DOMAIN img THEN img[i] ELSE mk[i]]
  BY <1>4 DEF Store
<1> HIDE DEF img, mk
<1>7. \A i \in pos .. pos + T - 1 : mem'[i] = img[i]
  BY <1>5, <1>m
<1>8. \A i \in 0 .. Words - 1 : i < pos \/ i >= pos + T => mem'[i] = mk[i]
  <2>1. ASSUME NEW i \in 0 .. Words - 1, i < pos \/ i >= pos + T
        PROVE  mem'[i] = mk[i]
    <3>1. i \notin DOMAIN img /\ i \in DOMAIN mk
      BY <1>5, <1>6, <1>f, <2>1
    <3> QED BY <1>m, <3>1
  <2> QED BY <2>1
<1>9. /\ pos \in pos .. pos + T - 1 /\ pos + T - 1 \in pos .. pos + T - 1
      /\ \A i \in 1 .. el : pos + i \in pos .. pos + T - 1
  BY SMTT(30), <1>f
<1>10. /\ mem'[pos] = b /\ mem'[pos + T - 1] = Trailer
       /\ \A i \in 1 .. el : mem'[pos + i] = data
  BY <1>5, <1>7, <1>9
<1>11. \A i \in 0 .. Words - 1 : i < pos \/ i >= pos + T =>
         mem'[i] = IF DoesNotFit(el) /\ i = pWrite THEN Ones ELSE mem[i]
  BY <1>6, <1>8
<1> QED BY <1>4, <1>10, <1>11 DEF el, T

\* An accepted write leaves the elements where they are and adds one.
LEMMA WriteLaidOut ==
  ASSUME SafeUse, Fitting, LaidOut, NEW b \in Sizes, NEW data \in Data, writeElement(b, data),
         ToUlongSize(b) <= GetRoom, ToUlongSize(b) <= size
  PROVE  /\ LaidOut' /\ count' = count + 1 /\ answer' = <<"written", Element(b, data)>>
         /\ \E pos \in 0 .. Words - 1 :
              unread' = Append(unread, [at |-> pos, element |-> Element(b, data)])
<1> DEFINE el  == ToUlongSize(b)
           T   == Total(b)
           pos == WritePos(el)
           u   == [at |-> pos, element |-> Element(b, data)]
           R   == [at : 0..Words - 1, element : [size : Nat, data : Seq(Nat)]]
           F   == DoesNotFit(el)
<1>f. /\ count \in Nat /\ count = Len(unread) /\ pRead \in Nat /\ pWrite \in Nat
      /\ pRead \in Positions /\ pWrite \in Positions /\ 0 \in Positions
      /\ \A p \in Positions : p \in Nat /\ p <= Words - 2
      /\ Words \in Nat /\ Words > 2 /\ el \in Nat \ {0} /\ T = el + 2
      /\ b \in Nat /\ data \in Nat /\ DOMAIN unread = 1 .. count
  BY PlaceFacts, SizeFacts, LayoutAssumption DEF Fitting
<1>k. \A k \in 1 .. count : /\ unread[k].at \in Nat /\ End(unread[k]) \in Nat
                             /\ unread[k].at < End(unread[k]) /\ Proper(unread[k])
                             /\ End(unread[k]) \in Positions
  BY PlaceFacts
<1>p. \/ Straight /\ ~F /\ pWrite + T \in Positions
      \/ Straight /\ F /\ T \in Positions /\ T <= pRead
      \/ Wrapped /\ ~F /\ pWrite + T \in Positions /\ pWrite + T <= pRead
  BY Placed
<1>q. /\ F => pos = 0
      /\ ~F => pos = pWrite
  BY DEF WritePos
<1>s. /\ u.at = pos /\ u.element.size = b /\ u.element.data = [i \in 1 .. el |-> data]
      /\ End(u) = pos + T
  BY DEF Element, End
<1>1. /\ pos \in Nat /\ pos \in Positions /\ pos + T \in Positions /\ pos + T <= Words - 2
  BY <1>f, <1>p, <1>q
<1>2. /\ pRead' = pRead /\ pWrite' = pos + T /\ count' = count + 1
      /\ unread' = Append(unread, u)
      /\ answer' = <<"written", Element(b, data)>>
      /\ mem'[pos] = b /\ mem'[pos + T - 1] = Trailer
      /\ \A i \in 1 .. el : mem'[pos + i] = data
      /\ \A i \in 0 .. Words - 1 :
           i < pos \/ i >= pos + T => mem'[i] = IF F /\ i = pWrite THEN Ones ELSE mem[i]
  <2>1. pos \in Nat /\ pos = WritePos(ToUlongSize(b)) /\ pos + Total(b) <= Words - 2
    BY <1>1
  <2> HIDE DEF pos, el, T
  <2>2. /\ pRead' = pRead /\ pWrite' = pos + Total(b) /\ count' = count + 1
        /\ unread' = Append(unread, [at |-> pos, element |-> Element(b, data)])
        /\ answer' = <<"written", Element(b, data)>>
        /\ mem'[pos] = b /\ mem'[pos + Total(b) - 1] = Trailer
        /\ \A i \in 1 .. ToUlongSize(b) : mem'[pos + i] = data
        /\ \A i \in 0 .. Words - 1 :
             i < pos \/ i >= pos + Total(b) =>
               mem'[i] = IF DoesNotFit(ToUlongSize(b)) /\ i = pWrite THEN Ones ELSE mem[i]
    BY <2>1, Accepted
  <2> QED BY <2>2 DEF el, T
<1>t. TypeOK'
  BY WritePreservesType DEF LaidOut
<1>u. u \in R /\ unread \in Seq(R) /\ Proper(u)
  <2>1. Element(b, data) \in [size : Nat, data : Seq(Nat)]
    BY <1>f DEF Element
  <2>2. pos \in 0 .. Words - 1
    BY <1>1, <1>f
  <2>3. unread \in Seq(R)
    BY PlaceFacts
  <2>4. Proper(u)
    BY <1>1, <1>f, <1>s DEF Proper
  <2> QED BY <2>1, <2>2, <2>3, <2>4
<1> HIDE DEF el, T, pos, u, R, F
<1>3. /\ Len(unread') = count + 1 /\ DOMAIN unread' = 1 .. count + 1
      /\ \A k \in 1 .. count : unread'[k] = unread[k]
      /\ unread'[count + 1] = u
      /\ unread' \in Seq(R)
  <2>1. /\ Append(unread, u) \in Seq(R) /\ Len(Append(unread, u)) = count + 1
        /\ (\A k \in 1 .. count : Append(unread, u)[k] = unread[k])
        /\ Append(unread, u)[count + 1] = u
    <3>1. u \in R /\ unread \in Seq(R)
      BY <1>u
    <3>2. /\ Append(unread, u) \in Seq(R) /\ Len(Append(unread, u)) = Len(unread) + 1
          /\ \A k \in 1 .. Len(unread) : Append(unread, u)[k] = unread[k]
          /\ Append(unread, u)[Len(unread) + 1] = u
      BY <3>1, Longer
    <3> QED BY <1>f, <3>2
  <2>2. DOMAIN Append(unread, u) = 1 .. count + 1
    BY <2>1
  <2>3. unread' = Append(unread, u)
    BY <1>2
  <2> QED BY <2>1, <2>2, <2>3
<1>4. \A k \in 1 .. count + 1 : k \in 1 .. count \/ k = count + 1
  BY <1>f
<1>5. \A k \in DOMAIN unread' : Proper(unread'[k])
  BY <1>3, <1>4, <1>k, <1>u
<1>n. Numbered(unread)
  BY <1>f, <1>k DEF Numbered
<1>6. \A k \in 1 .. count : IntactIn(unread[k], mem)
  BY <1>f DEF LaidOut, Intact, IntactIn
<1>7. ASSUME NEW k \in 1 .. count,
             \A i \in unread[k].at .. End(unread[k]) - 1 :
               /\ i < pos \/ i >= pos + T
               /\ ~(F /\ i = pWrite)
      PROVE  IntactIn(unread'[k], mem')
  <2>1. ASSUME NEW i \in unread[k].at .. End(unread[k]) - 1 PROVE mem'[i] = mem[i]
    <3>1. i \in 0 .. Words - 1
      <4>1. unread[k].at \in Nat /\ End(unread[k]) \in Nat /\ End(unread[k]) <= Words - 2
        BY <1>f, <1>k
      <4> QED BY <1>f, <4>1
    <3> QED BY <1>2, <1>7, <3>1
  <2> QED BY <1>3, <1>6, <1>k, <2>1, IntactSame
<1>8. IntactIn(u, mem')
  <2>1. u.at + Total(u.element.size) - 1 = pos + T - 1
    BY <1>s DEF T
  <2>2. DOMAIN u.element.data = 1 .. el /\ \A i \in 1 .. el : u.element.data[i] = data
    BY <1>s
  <2> QED BY <1>2, <1>s, <2>1, <2>2 DEF IntactIn
<1>9. ASSUME \A k \in 1 .. count : IntactIn(unread'[k], mem')
      PROVE  Intact'
  <2>1. \A k \in DOMAIN unread' : IntactIn(unread'[k], mem')
    BY <1>3, <1>4, <1>8, <1>9
  <2> QED BY <2>1 DEF Intact, IntactIn
<1>10. SUFFICES Intact' /\ (Straight' \/ Wrapped')
  <2>1. pos \in 0 .. Words - 1
    BY <1>1, <1>f
  <2>2. pRead' \in Positions /\ pWrite' \in Positions
    BY <1>1, <1>2, <1>f
  <2> QED BY <1>2, <1>5, <1>t, <2>1, <2>2 DEF LaidOut, u
<1>11. CASE Straight /\ ~F
  <2>1. pos = pWrite
    BY <1>11, <1>q
  <2>2. ASSUME NEW k \in 1 .. count PROVE IntactIn(unread'[k], mem')
    <3>1. unread[k].at \in Nat /\ End(unread[k]) \in Nat /\ End(unread[k]) <= pWrite
      BY <1>11, <1>k, Inside
    <3> QED BY <1>7, <1>11, <1>f, <2>1, <3>1
  <2>3. Behind(Append(unread, u), 1, Len(unread) + 1, pRead, End(u))
    <3>1. Behind(unread, 1, Len(unread), pRead, pWrite)
      BY <1>11, <1>f DEF Straight
    <3>2. u.at = pWrite /\ End(u) \in Nat /\ pWrite < End(u) /\ 1 \in 1 .. Len(unread) + 1
      BY <1>1, <1>f, <1>s, <2>1
    <3> QED BY <1>f, <1>n, <1>u, <3>1, <3>2, BehindMore
  <2>4. Straight'
    BY <1>2, <1>f, <1>s, <2>3 DEF Straight
  <2> QED BY <1>9, <2>2, <2>4
<1>12. CASE Straight /\ F
  <2>1. pos = 0 /\ T <= pRead /\ pRead <= pWrite
    BY <1>12, <1>p, <1>q, SpanFacts
  <2>2. ASSUME NEW k \in 1 .. count PROVE IntactIn(unread'[k], mem')
    <3>1. /\ unread[k].at \in Nat /\ End(unread[k]) \in Nat /\ End(unread[k]) <= pWrite
          /\ pRead <= unread[k].at
      BY <1>12, <1>k, Inside
    <3> QED BY SMTT(30), <1>7, <1>f, <2>1, <3>1
  <2>3. Behind(Append(unread, u), 1, count, pRead, pWrite)
    <3>1. Behind(unread, 1, count, pRead, pWrite) /\ count \in 0 .. Len(unread) /\ 1 \in Nat \ {0}
      BY <1>12, <1>f DEF Straight
    <3> QED BY <1>u, <3>1, BehindSame
  <2>4. Behind(Append(unread, u), count + 1, Len(unread) + 1, 0, End(u))
    <3>1. Behind(unread, count + 1, Len(unread), 0, 0)
      BY <1>f DEF Behind
    <3>2. /\ u.at = 0 /\ End(u) \in Nat /\ 0 < End(u) /\ 0 \in Nat
          /\ count + 1 \in 1 .. Len(unread) + 1
      BY <1>1, <1>f, <1>s, <2>1
    <3> QED BY <1>n, <1>u, <3>1, <3>2, BehindMore
  <2>5. mem'[pWrite] = Ones
    BY <1>2, <1>12, <1>f, <2>1
  <2>6. Wrapped'
    <3>1. /\ Behind(unread', 1, count, pRead', pWrite) /\ mem'[pWrite] = Ones
          /\ Behind(unread', count + 1, count', 0, pWrite')
      BY <1>2, <1>f, <1>s, <2>1, <2>3, <2>4, <2>5
    <3>2. count \in 0 .. count' - 1 /\ pWrite' <= pRead' /\ pWrite \in Positions
      BY <1>2, <1>f, <2>1
    <3>3. \E w \in 0 .. count' - 1, m \in Positions :
            /\ Behind(unread', 1, w, pRead', m) /\ mem'[m] = Ones
            /\ Behind(unread', w + 1, count', 0, pWrite')
      BY <3>1, <3>2
    <3> QED BY <3>2, <3>3 DEF Wrapped, WrappedAt
  <2> QED BY <1>9, <2>2, <2>6
<1>13. CASE Wrapped /\ ~F /\ pWrite + T <= pRead
  <2>1. pos = pWrite /\ pWrite + T <= pRead
    BY <1>13, <1>p, <1>q
  <2>2. PICK w \in 0 .. count - 1, m \in Positions : WrappedAt(w, m)
    BY <1>13 DEF Wrapped
  <2>3. pRead <= m /\ m \in Nat /\ m <= Words - 2
    BY <1>f, <2>2, Inside
  <2>4. ASSUME NEW k \in 1 .. count PROVE IntactIn(unread'[k], mem')
    <3>0. /\ \/ pRead <= unread[k].at /\ End(unread[k]) <= m
             \/ End(unread[k]) <= pWrite
      BY <2>2, Inside
    <3>1. /\ unread[k].at \in Nat /\ End(unread[k]) \in Nat
          /\ (pRead <= unread[k].at \/ End(unread[k]) <= pWrite)
      BY <1>k, <3>0
    <3>2. ASSUME NEW i \in unread[k].at .. End(unread[k]) - 1
          PROVE  (i < pos \/ i >= pos + T) /\ ~(F /\ i = pWrite)
      <4>1. i \in Nat /\ unread[k].at <= i /\ i < End(unread[k]) /\ End(unread[k]) \in Nat
        BY <3>1
      <4>2. i < pWrite \/ i >= pRead
        BY <1>f, <3>1, <4>1
      <4>3. i < pWrite \/ i >= pWrite + T
        BY <1>f, <2>1, <4>1, <4>2
      <4> QED BY <1>13, <2>1, <4>3
    <3>3. \A i \in unread[k].at .. End(unread[k]) - 1 :
            /\ i < pos \/ i >= pos + T
            /\ ~(F /\ i = pWrite)
      BY <3>2
    <3> QED BY <1>7, <3>3
  <2>5. Behind(Append(unread, u), 1, w, pRead, m)
    <3>1. Behind(unread, 1, w, pRead, m) /\ w \in 0 .. Len(unread) /\ 1 \in Nat \ {0}
      BY <1>f, <2>2 DEF WrappedAt
    <3> QED BY <1>u, <3>1, BehindSame
  <2>6. Behind(Append(unread, u), w + 1, Len(unread) + 1, 0, End(u))
    <3>1. Behind(unread, w + 1, Len(unread), 0, pWrite)
      BY <1>f, <2>2 DEF WrappedAt
    <3>2. /\ u.at = pWrite /\ End(u) \in Nat /\ pWrite < End(u) /\ 0 \in Nat
          /\ w + 1 \in 1 .. Len(unread) + 1
      BY <1>1, <1>f, <1>s, <2>1
    <3> QED BY <1>f, <1>n, <1>u, <3>1, <3>2, BehindMore
  <2>7. mem'[m] = Ones
    <3>1. mem[m] = Ones
      BY <2>2 DEF WrappedAt
    <3>2. m \in 0 .. Words - 1 /\ m >= pos + T
      BY <1>f, <2>1, <2>3
    <3> QED BY <1>2, <1>13, <3>1, <3>2
  <2>8. Wrapped'
    <3>1. WrappedAt(w, m)'
      BY <1>2, <1>f, <1>s, <2>5, <2>6, <2>7 DEF WrappedAt
    <3>2. w \in 0 .. count' - 1 /\ pWrite' <= pRead'
      BY <1>2, <1>f, <2>1
    <3> QED BY <3>1, <3>2 DEF Wrapped
  <2> QED BY <1>9, <2>4, <2>8
<1> QED BY <1>p, <1>11, <1>12, <1>13

\* The reader finds the oldest element, as it was written.
LEMMA Oldest ==
  ASSUME SafeUse, Fitting, LaidOut, count # 0
  PROVE  /\ ReadPos = unread[1].at /\ ~ReadOutOfRange /\ ~Overflows(ReadPos)
         /\ Checked(ReadPos) = mem /\ Stored(ReadPos) = unread[1].element
         /\ ReadPos + Total(mem[ReadPos]) = End(unread[1])
<1> DEFINE u == unread[1]
<1>f. /\ count \in Nat /\ pRead \in Nat /\ pWrite \in Nat /\ pRead <= Words - 2
      /\ 1 \in 1 .. count /\ DOMAIN unread = 1 .. count
      /\ \A p \in Positions : p \in Nat /\ p <= Words - 2
      /\ Words \in Nat /\ Words > 2
  BY PlaceFacts, SizeFacts
<1>u. /\ Proper(u) /\ u.at \in Nat /\ u.at <= Words - 2 /\ End(u) \in Nat /\ End(u) <= Words - 2
      /\ u.element.size \in Sizes
  BY <1>f, PlaceFacts
<1>s. /\ u.element.size # Ones /\ Total(u.element.size) = ToUlongSize(u.element.size) + 2
      /\ ToUlongSize(u.element.size) \in Nat \ {0}
      /\ End(u) = u.at + Total(u.element.size)
  BY <1>u, SizeFacts DEF End
<1>i. IntactIn(u, mem)
  BY <1>f DEF LaidOut, Intact, IntactIn
<1>e. unread[1].element \in [size : Nat, data : Seq(Nat)]
  <2>1. unread \in Seq([at : 0..Words - 1, element : [size : Nat, data : Seq(Nat)]])
    BY PlaceFacts
  <2> DEFINE R == [at : 0..Words - 1, element : [size : Nat, data : Seq(Nat)]]
  <2>2. unread \in Seq(R) /\ unread # <<>>
    BY <1>f, <2>1
  <2> HIDE DEF R
  <2>3. unread[1] \in R
    BY <2>2, Shorter
  <2> QED BY <2>3 DEF R
<1> HIDE DEF u
<1>1. ReadPos = u.at
  <2>1. CASE pRead = u.at
    <3>1. mem[pRead] = u.element.size
      BY <1>i, <2>1 DEF IntactIn
    <3>2. ~(Words - pRead <= Overhead) /\ mem[pRead] # Ones
      BY <1>f, <1>u, <1>s, <2>1, <3>1 DEF Overhead
    <3> QED BY <2>1, <3>2 DEF ReadPos
  <2>2. CASE Straight
    <3>1. unread[1].at = pRead
      BY <1>f, <2>2 DEF Straight, Behind
    <3> QED BY <2>1, <3>1 DEF u
  <2>3. CASE Wrapped
    <3>1. PICK w \in 0 .. count - 1, m \in Positions : WrappedAt(w, m)
      BY <2>3 DEF Wrapped
    <3>2. CASE w = 0
      <4>1. pRead = m /\ mem[m] = Ones /\ unread[1].at = 0
        BY <1>f, <3>1, <3>2 DEF WrappedAt, Behind
      <4> QED BY <4>1 DEF ReadPos, u
    <3>3. CASE w # 0
      <4>1. unread[1].at = pRead
        BY <1>f, <3>1, <3>3 DEF WrappedAt, Behind
      <4> QED BY <2>1, <4>1 DEF u
    <3> QED BY <3>2, <3>3
  <2> QED BY <2>2, <2>3 DEF LaidOut
<1>2. mem[u.at] = u.element.size
  BY <1>i DEF IntactIn
<1>3. ~Overflows(u.at)
  BY <1>f, <1>u, <1>s, <1>2 DEF Overflows
<1>4. Checked(u.at) = mem
  <2>1. TrailerPos(u.at) = u.at + Total(u.element.size) - 1
    BY <1>u, <1>s, <1>2 DEF TrailerPos
  <2>2. mem[TrailerPos(u.at)] = Trailer
    BY <1>i, <2>1 DEF IntactIn
  <2> QED BY <2>2 DEF Checked
<1>5. Stored(u.at) = u.element
  <2> DEFINE n == ToUlongSize(u.element.size)
             d == u.element.data
  <2>1. d \in [1 .. n -> Data]
    BY <1>u DEF Proper
  <2>2. \A i \in 1 .. n : mem[u.at + i] = d[i]
    BY <1>i, <2>1 DEF IntactIn
  <2>3. [i \in 1 .. n |-> mem[u.at + i]] = d
    BY <2>1, <2>2
  <2>4. Stored(u.at) = [size |-> u.element.size, data |-> d]
    BY <1>2, <2>3 DEF Stored
  <2>5. u.element = [size |-> u.element.size, data |-> d]
    BY <1>e DEF u
  <2> QED BY <2>4, <2>5
<1>6. ~ReadOutOfRange
  BY <1>f DEF ReadOutOfRange
<1> QED BY <1>1, <1>2, <1>3, <1>4, <1>5, <1>6, <1>s DEF u

LEMMA ReadLaidOut ==
  ASSUME SafeUse, Fitting, LaidOut, readElement, count # 0
  PROVE  /\ LaidOut' /\ unread # <<>> /\ unread' = Tail(unread)
         /\ answer' = <<"read", unread[1].element>>
<1> DEFINE R == [at : 0..Words - 1, element : [size : Nat, data : Seq(Nat)]]
<1>f. /\ count \in Nat \ {0} /\ count = Len(unread) /\ pRead \in Nat /\ pWrite \in Nat
      /\ pRead \in Positions /\ pWrite \in Positions /\ 0 \in Positions
      /\ \A p \in Positions : p \in Nat /\ p <= Words - 2
      /\ unread \in Seq(R) /\ DOMAIN unread = 1 .. count /\ 1 \in 1 .. count
      /\ \A k \in 1 .. count : /\ unread[k].at \in Nat /\ End(unread[k]) \in Nat
                               /\ unread[k].at < End(unread[k]) /\ Proper(unread[k])
                               /\ End(unread[k]) \in Positions
  <2>1. /\ count \in Nat /\ count = Len(unread) /\ pRead \in Positions /\ pWrite \in Positions
        /\ \A p \in Positions : p \in Nat /\ p <= Words - 2
        /\ unread \in Seq(R) /\ DOMAIN unread = 1 .. count
    BY PlaceFacts
  <2>2. \A k \in 1 .. count : /\ unread[k].at \in Nat /\ End(unread[k]) \in Nat
                               /\ unread[k].at < End(unread[k]) /\ Proper(unread[k])
                               /\ End(unread[k]) \in Positions
    BY PlaceFacts
  <2>3. 0 \in Positions
    BY DEF Fitting
  <2> HIDE DEF R
  <2>4. count \in Nat \ {0} /\ 1 \in 1 .. count /\ pRead \in Nat /\ pWrite \in Nat
    BY <2>1
  <2> QED BY <2>1, <2>2, <2>3, <2>4
<1>1. /\ mem' = mem /\ answer' = <<"read", unread[1].element>>
      /\ pRead' = End(unread[1]) /\ pWrite' = pWrite
      /\ count' = count - 1 /\ unread' = Tail(unread)
  <2>1. /\ ~ReadOutOfRange /\ ~Overflows(ReadPos)
        /\ Checked(ReadPos) = mem /\ Stored(ReadPos) = unread[1].element
        /\ ReadPos + Total(mem[ReadPos]) = End(unread[1])
    BY Oldest
  <2> QED BY <2>1 DEF readElement
<1>t. TypeOK'
  BY ReadPreservesType DEF LaidOut
<1> HIDE DEF R
<1>2. unread # <<>>
  BY <1>f
<1>3. /\ Len(unread') = count - 1 /\ DOMAIN unread' = 1 .. count - 1
      /\ \A k \in 1 .. count - 1 : unread'[k] = unread[k + 1]
  <2>1. /\ Tail(unread) \in Seq(R) /\ Len(Tail(unread)) = Len(unread) - 1
        /\ \A k \in 1 .. Len(unread) - 1 : Tail(unread)[k] = unread[k + 1]
    BY <1>f, <1>2, Shorter
  <2>2. DOMAIN Tail(unread) = 1 .. count - 1
    BY <1>f, <2>1
  <2> QED BY <1>1, <1>f, <2>1, <2>2
<1>4. \A k \in 1 .. count - 1 : k + 1 \in 1 .. count
  BY <1>f
<1>5. \A k \in DOMAIN unread' : Proper(unread'[k])
  BY <1>3, <1>4, <1>f
<1>6. Intact'
  <2>1. \A k \in 1 .. count : IntactIn(unread[k], mem)
    BY <1>f DEF LaidOut, Intact, IntactIn
  <2>2. \A k \in DOMAIN unread' : IntactIn(unread'[k], mem')
    BY <1>1, <1>3, <1>4, <2>1
  <2> QED BY <2>2 DEF Intact, IntactIn
<1>n. Numbered(unread)
  BY <1>f DEF Numbered
<1>7. Straight' \/ Wrapped'
  <2>1. CASE Straight
    <3>1. Behind(unread, 1, count, pRead, pWrite) /\ count \in 1 .. Len(unread)
      BY <1>f, <2>1 DEF Straight
    <3>2. Behind(Tail(unread), 1, count - 1, End(unread[1]), pWrite)
      BY <1>f, <1>n, <1>2, <3>1, BehindFirst
    <3> QED BY <1>1, <3>2 DEF Straight
  <2>2. CASE Wrapped
    <3>1. PICK w \in 0 .. count - 1, m \in Positions : WrappedAt(w, m)
      BY <2>2 DEF Wrapped
    <3>2. CASE w = 0
      <4>1. Behind(unread, 1, count, 0, pWrite) /\ count \in 1 .. Len(unread)
        BY <1>f, <3>1, <3>2 DEF WrappedAt
      <4>2. Behind(Tail(unread), 1, count - 1, End(unread[1]), pWrite)
        BY <1>f, <1>n, <1>2, <4>1, BehindFirst
      <4> QED BY <1>1, <4>2 DEF Straight
    <3>3. CASE w # 0
      <4>1. /\ Behind(unread, 1, w, pRead, m) /\ mem[m] = Ones
            /\ Behind(unread, w + 1, count, 0, pWrite)
            /\ w \in 1 .. Len(unread) /\ count \in 1 .. Len(unread) /\ w \in Nat \ {0}
        BY <1>f, <3>1, <3>3 DEF WrappedAt
      <4>2. Behind(Tail(unread), 1, w - 1, End(unread[1]), m)
        BY <1>f, <1>n, <1>2, <4>1, BehindFirst
      <4>3. Behind(Tail(unread), w, count - 1, 0, pWrite)
        BY <1>f, <1>2, <4>1, BehindNext
      <4>4. pWrite' <= pRead' /\ w - 1 \in 0 .. count' - 1 /\ (w - 1) + 1 = w
        <5>1. pWrite <= pRead
          BY <2>2 DEF Wrapped
        <5>2. unread[1].at = pRead
          BY <4>1, <1>f DEF Behind
        <5> QED BY <1>1, <1>f, <4>1, <5>1, <5>2
      <4>5. \E x \in 0 .. count' - 1, y \in Positions :
              /\ Behind(unread', 1, x, pRead', y) /\ mem'[y] = Ones
              /\ Behind(unread', x + 1, count', 0, pWrite')
        BY <1>1, <4>1, <4>2, <4>3, <4>4
      <4> QED BY <4>4, <4>5 DEF Wrapped, WrappedAt
    <3> QED BY <3>2, <3>3
  <2> QED BY <2>1, <2>2 DEF LaidOut
<1> QED BY <1>1, <1>2, <1>5, <1>6, <1>7, <1>f, <1>t DEF LaidOut

LEMMA PeekLaidOut ==
  ASSUME SafeUse, Fitting, LaidOut, peekElement
  PROVE  /\ UNCHANGED <<pRead, pWrite, count, mem, unread>>
         /\ answer' = IF count = 0 THEN <<"peeked", Null>> ELSE <<"peeked", unread[1].element>>
<1>1. UNCHANGED <<pRead, pWrite, count, unread>>
  BY DEF peekElement
<1>2. CASE count = 0
  BY <1>1, <1>2 DEF peekElement
<1>3. CASE count # 0
  <2>1. /\ ~ReadOutOfRange /\ ~Overflows(ReadPos)
        /\ Checked(ReadPos) = mem /\ Stored(ReadPos) = unread[1].element
    BY <1>3, Oldest
  <2> QED BY <1>1, <1>3, <2>1 DEF peekElement
<1> QED BY <1>2, <1>3

LEMMA EmptyLaidOut ==
  ASSUME Fitting, TypeOK', pRead' = 0, pWrite' = 0, count' = 0, unread' = <<>>
  PROVE  LaidOut'
<1>1. 0 \in Positions
  BY DEF Fitting
<1>2. Straight'
  <2>1. Behind(unread', 1, 0, 0, 0)
    BY DEF Behind
  <2> QED BY <2>1 DEF Straight
<1>3. Intact' /\ \A k \in DOMAIN unread' : Proper(unread'[k])
  BY DEF Intact
<1> QED BY <1>1, <1>2, <1>3 DEF LaidOut

LEMMA SameLaidOut ==
  ASSUME LaidOut, UNCHANGED <<pRead, pWrite, count, mem, unread>>
  PROVE  LaidOut'
<1>1. TypeOK' /\ Intact'
  BY DEF LaidOut, TypeOK, Intact
<1>2. Straight' = Straight /\ Wrapped' = Wrapped
  BY DEF Straight, Wrapped, WrappedAt
<1> QED BY <1>1, <1>2 DEF LaidOut

\* A write is refused for its size, or takes place.
LEMMA WriteCases ==
  ASSUME SafeUse, Fitting, LaidOut, NEW b \in Sizes, NEW data \in Data, writeElement(b, data)
  PROVE  \/ /\ ToUlongSize(b) > GetRoom \/ ToUlongSize(b) > size
            /\ answer' = <<"refused", Element(b, data)>>
            /\ UNCHANGED <<pRead, pWrite, count, mem, unread>>
         \/ ToUlongSize(b) <= GetRoom /\ ToUlongSize(b) <= size
<1>1. /\ pWrite \in Nat /\ pWrite <= Words - 2 /\ Words \in Nat
      /\ ToUlongSize(b) \in Nat /\ GetRoom \in Nat /\ size \in Nat
  BY PlaceFacts, SizeFacts, RoomFacts
<1>2. CASE ToUlongSize(b) > GetRoom \/ ToUlongSize(b) > size
  BY <1>2 DEF writeElement
<1>3. CASE ~(ToUlongSize(b) > GetRoom \/ ToUlongSize(b) > size)
  BY <1>1, <1>3
<1> QED BY <1>2, <1>3

LEMMA LaidOutStep ==
  ASSUME SafeUse, Fitting, LaidOut, [Next]_vars
  PROVE  LaidOut'
<1>1. ASSUME NEW b \in Sizes, NEW data \in Data, writeElement(b, data)
      PROVE  LaidOut'
  BY <1>1, WriteCases, WriteLaidOut, SameLaidOut
<1>2. CASE readElement
  <2>1. CASE count = 0
    <3>1. UNCHANGED <<pRead, pWrite, count, mem, unread>>
      BY <1>2, <2>1 DEF readElement
    <3> QED BY <3>1, SameLaidOut
  <2> QED BY <1>2, <2>1, ReadLaidOut
<1>3. CASE peekElement
  BY <1>3, PeekLaidOut, SameLaidOut
<1>4. CASE Clear
  <2>1. pRead' = 0 /\ pWrite' = 0 /\ count' = 0 /\ unread' = <<>> /\ mem' = mem
    BY <1>4 DEF Clear
  <2>2. TypeOK'
    BY <2>1, LayoutAssumption DEF LaidOut, TypeOK
  <2> QED BY <2>1, <2>2, EmptyLaidOut
<1>5. CASE UNCHANGED vars
  BY <1>5, SameLaidOut DEF vars
<1> QED BY <1>1, <1>2, <1>3, <1>4, <1>5 DEF Next

LEMMA LaidOutInit ==
  ASSUME Fitting, Init
  PROVE  LaidOut
<1>1. 0 \in Positions /\ pRead = 0 /\ pWrite = 0 /\ count = 0 /\ unread = <<>>
  BY DEF Fitting, Init
<1>2. TypeOK
  BY LayoutAssumption DEF Init, TypeOK
<1>3. Straight
  <2>1. Behind(unread, 1, 0, 0, 0)
    BY DEF Behind
  <2> QED BY <1>1, <2>1 DEF Straight
<1>4. Intact /\ \A k \in DOMAIN unread : Proper(unread[k])
  BY <1>1 DEF Intact
<1> QED BY <1>1, <1>2, <1>3, <1>4 DEF LaidOut

\* The room that is reported is free, and the reader stands at the oldest element.
LEMMA LaidOutKeeps ==
  ASSUME SafeUse, Fitting, LaidOut
  PROVE  ElementsKept
<1>f. /\ count \in Nat /\ pRead \in Nat /\ pWrite \in Nat /\ DOMAIN unread = 1 .. count
      /\ pRead <= Words - 2 /\ pWrite <= Words - 2 /\ Words \in Nat /\ Words > 2
      /\ \A p \in Positions : p \in Nat /\ p <= Words - 2
      /\ GetRoom \in Nat
  BY PlaceFacts, SizeFacts, RoomFacts
<1>k. \A k \in 1 .. count : /\ unread[k].at \in Nat /\ End(unread[k]) \in Nat
                             /\ Extent(unread[k]) = unread[k].at .. End(unread[k]) - 1
  <2> SUFFICES ASSUME NEW k \in 1 .. count
               PROVE  /\ unread[k].at \in Nat /\ End(unread[k]) \in Nat
                      /\ Extent(unread[k]) = unread[k].at .. End(unread[k]) - 1
    OBVIOUS
  <2>1. unread[k].at \in Nat /\ End(unread[k]) \in Nat /\ unread[k].element.size \in Sizes
    BY PlaceFacts
  <2>2. Total(unread[k].element.size) \in Nat
    BY <2>1, SizeFacts
  <2> QED BY <2>1, <2>2 DEF Extent, End
<1>1. ReadsOldest
  <2> SUFFICES ASSUME unread # <<>> PROVE ReadPos = Head(unread).at
    BY DEF ReadsOldest
  <2>1. count # 0 /\ Head(unread) = unread[1]
    BY PlaceFacts
  <2> QED BY <2>1, Oldest
<1>2. RoomIsFree
  <2> SUFFICES ASSUME GetRoom > 0
               PROVE  \E p \in 0 .. Words - 1 :
                        /\ p + GetRoom + Overhead <= Words
                        /\ \A k \in 1 .. count : \A i \in unread[k].at .. End(unread[k]) - 1 :
                             ~(i \in p .. p + GetRoom + 1)
    BY <1>f, <1>k DEF RoomIsFree
  <2>1. CASE count = 0
    <3>1. 0 \in 0 .. Words - 1 /\ 0 + GetRoom + Overhead <= Words
      BY <1>f, <2>1, RoomFacts DEF Overhead
    <3> QED BY <2>1, <3>1
  <2>2. CASE Straight /\ count # 0
    <3>1. GetRoom = Larger(pRead - 2, Words - pWrite - 2)
      BY <2>2, RoomFacts
    <3>2. \A k \in 1 .. count : pRead <= unread[k].at /\ End(unread[k]) <= pWrite
      BY <2>2, Inside
    <3>3. CASE GetRoom = pRead - 2
      <4>1. 0 \in 0 .. Words - 1 /\ 0 + GetRoom + Overhead <= Words
        BY <1>f, <3>3 DEF Overhead
      <4>2. \A k \in 1 .. count : \A i \in unread[k].at .. End(unread[k]) - 1 :
              ~(i \in 0 .. 0 + GetRoom + 1)
        BY <1>f, <1>k, <3>2, <3>3
      <4> QED BY <4>1, <4>2
    <3>4. CASE GetRoom = Words - pWrite - 2
      <4>1. pWrite \in 0 .. Words - 1 /\ pWrite + GetRoom + Overhead <= Words
        BY <1>f, <3>4 DEF Overhead
      <4>2. \A k \in 1 .. count : \A i \in unread[k].at .. End(unread[k]) - 1 :
              ~(i \in pWrite .. pWrite + GetRoom + 1)
        BY <1>f, <1>k, <3>2, <3>4
      <4> QED BY <4>1, <4>2
    <3> QED BY <3>1, <3>3, <3>4 DEF Larger
  <2>3. CASE Wrapped
    <3>1. PICK w \in 0 .. count - 1, m \in Positions : WrappedAt(w, m)
      BY <2>3 DEF Wrapped
    <3>2. \A k \in 1 .. count : pRead <= unread[k].at \/ End(unread[k]) <= pWrite
      BY <3>1, Inside
    <3>3. pWrite < pRead /\ GetRoom = pRead - pWrite - 2
      <4>1. pWrite # pRead
        BY <1>f, <2>3, RoomFacts
      <4>2. pWrite < pRead /\ GetRoom = IF pRead - pWrite <= 2 THEN 0 ELSE pRead - pWrite - 2
        BY <2>3, <4>1, RoomFacts
      <4>3. CASE pRead - pWrite <= 2
        BY <4>2, <4>3
      <4>4. CASE ~(pRead - pWrite <= 2)
        BY <4>2, <4>4
      <4> QED BY <4>3, <4>4
    <3>4. pWrite \in 0 .. Words - 1 /\ pWrite + GetRoom + Overhead <= Words
      BY <1>f, <3>3 DEF Overhead
    <3>5. ASSUME NEW k \in 1 .. count, NEW i \in unread[k].at .. End(unread[k]) - 1
          PROVE  ~(i \in pWrite .. pWrite + GetRoom + 1)
      <4>1. unread[k].at \in Nat /\ End(unread[k]) \in Nat /\ i \in Nat
            /\ unread[k].at <= i /\ i <= End(unread[k]) - 1
        BY <1>k
      <4>2. pRead <= unread[k].at \/ End(unread[k]) <= pWrite
        BY <3>2
      <4> QED BY <1>f, <3>3, <4>1, <4>2
    <3> QED BY <3>4, <3>5
  <2> QED BY <2>1, <2>2, <2>3 DEF LaidOut
<1> QED BY <1>1, <1>2 DEF ElementsKept, LaidOut

\* No element of the variable-sized FIFO is lost or overwritten before it is
\* read, and every room that is reported is there, for every buffer and every
\* sequence of calls in which the elements end at positions that leave the last
\* word and the end of the buffer out: where they do not, elements are lost.
THEOREM VariableKept ==
  ASSUME SafeUse, Fitting
  PROVE  Spec => []ElementsKept
<1>1. Init => LaidOut
  BY LaidOutInit
<1>2. LaidOut /\ [Next]_vars => LaidOut'
  BY LaidOutStep
<1>3. LaidOut => ElementsKept
  BY LaidOutKeeps
<1> QED BY <1>1, <1>2, <1>3, PTL DEF Spec

-----------------------------------------------------------------------------
(* The variable-sized FIFO is a queue.                                       *)

\* There are fewer elements than words.
LEMMA FewerThanWords ==
  ASSUME SafeUse, Fitting, LaidOut
  PROVE  count < Words
<1>f. /\ count \in Nat /\ pRead \in Nat /\ pWrite \in Nat /\ Words \in Nat
      /\ pRead <= Words - 2 /\ pWrite <= Words - 2
      /\ \A p \in Positions : p \in Nat /\ p <= Words - 2
  BY PlaceFacts, SizeFacts
<1>k. \A k \in 1 .. count : unread[k].at \in Nat /\ End(unread[k]) \in Nat
                            /\ unread[k].at < End(unread[k])
  BY PlaceFacts
<1>1. CASE Straight
  BY <1>1, <1>f, SpanFacts
<1>2. CASE Wrapped
  <2>1. PICK w \in 0 .. count - 1, m \in Positions : WrappedAt(w, m)
    BY <1>2 DEF Wrapped
  <2>2. pRead <= m /\ pWrite <= pRead /\ m \in Nat /\ m <= Words - 2
    BY <1>2, <1>f, <2>1, Inside DEF Wrapped
  <2>3. w <= m - pRead
    <3>1. CASE w = 0
      BY <1>f, <2>2, <3>1
    <3>2. CASE w # 0
      <4>1. 1 \in 1 .. w /\ 1 \in 1 .. count
        BY <1>f, <3>2
      <4>2. unread[1].at = pRead /\ End(unread[1]) + (w - 1) <= m
        BY <2>1, <3>2, <4>1 DEF WrappedAt, Behind
      <4>3. unread[1].at < End(unread[1]) /\ End(unread[1]) \in Nat
        BY <1>k, <4>1
      <4> QED BY <1>f, <2>2, <4>2, <4>3
    <3> QED BY <3>1, <3>2
  <2>4. count - w <= pWrite
    <3>1. w + 1 \in w + 1 .. count /\ w + 1 \in 1 .. count /\ w + 1 <= count
      BY <1>f
    <3>2. unread[w + 1].at = 0 /\ End(unread[w + 1]) + (count - (w + 1)) <= pWrite
      BY <2>1, <3>1 DEF WrappedAt, Behind
    <3>3. unread[w + 1].at < End(unread[w + 1]) /\ End(unread[w + 1]) \in Nat
      BY <1>k, <3>1
    <3> QED BY <1>f, <3>2, <3>3
  <2> QED BY <1>f, <2>2, <2>3, <2>4
<1> QED BY <1>1, <1>2 DEF LaidOut

\* Every call on the variable-sized FIFO is a step of the queue.
LEMMA VariableStep ==
  ASSUME SafeUse, Fitting, LaidOut, [Next]_vars
  PROVE  [Queue!Next]_(Queue!vars)
<1> DEFINE T == [size : Nat, data : Seq(Nat)]
           R == [at : 0 .. Words - 1, element : T]
           f == [u \in R |-> u.element]
           q == Mapped(f, unread)
           elements == {Element(b, data) : b \in {n \in Sizes : ToUlongSize(n) <= size},
                                           data \in Data}
<1>1. unread \in Seq(R) /\ unread' \in Seq(R) /\ <<>> \in Seq(R)
      /\ count = Len(unread) /\ count \in Nat /\ Words \in Nat
  <2>1. TypeOK /\ TypeOK'
    BY LaidOutStep DEF LaidOut
  <2> QED BY <2>1, SizeFacts DEF TypeOK
<1>f. Maps(f, R, T) /\ \A u \in R : f[u] = u.element
  BY DEF Maps
<1>e. \A b \in Sizes, data \in Data : Element(b, data) \in T
  <2> SUFFICES ASSUME NEW b \in Sizes, NEW data \in Data PROVE Element(b, data) \in T
    OBVIOUS
  <2>1. ToUlongSize(b) \in Nat /\ b \in Nat /\ data \in Nat
    BY SizeFacts, LayoutAssumption
  <2>2. [i \in 1 .. ToUlongSize(b) |-> data] \in Seq(Nat)
    BY <2>1
  <2> QED BY <2>1, <2>2 DEF Element
<1>p. \A pos \in 0 .. Words - 1 : \A b \in Sizes, data \in Data :
        [at |-> pos, element |-> Element(b, data)] \in R
  BY <1>e
<1> HIDE DEF R, f, T
<1>2. q \in Seq(T) /\ Len(q) = count /\ ((q = <<>>) <=> (unread = <<>>))
  BY <1>1, <1>f, MappedFacts
<1>3. /\ [k \in DOMAIN unread |-> unread[k].element] = q
      /\ [k \in DOMAIN unread |-> unread[k].element]' = Mapped(f, unread')
      /\ Mapped(f, <<>>) = <<>>
  <2>1. ASSUME NEW s \in Seq(R)
        PROVE  [k \in DOMAIN s |-> s[k].element] = Mapped(f, s)
    <3>1. \A k \in DOMAIN s : s[k] \in R
      OBVIOUS
    <3> QED BY <1>f, <3>1 DEF Mapped
  <2>2. Mapped(f, <<>>) = <<>>
    BY <1>f, <1>1, MappedFacts
  <2> QED BY <1>1, <2>1, <2>2
<1>4. ASSUME NEW b \in Sizes, NEW data \in Data, writeElement(b, data)
      PROVE  Queue!Next
  <2>1. CASE /\ ToUlongSize(b) > GetRoom \/ ToUlongSize(b) > size
             /\ answer' = <<"refused", Element(b, data)>>
             /\ UNCHANGED <<pRead, pWrite, count, mem, unread>>
    <3>1. Mapped(f, unread') = q
      BY <2>1
    <3>2. Element(b, data) \in elements => Len(q) >= 1
      <4> SUFFICES ASSUME Element(b, data) \in elements, count = 0 PROVE FALSE
        BY <1>1, <1>2
      <4>1. ToUlongSize(b) <= size
        <5>1. PICK n \in Sizes, d \in Data :
                ToUlongSize(n) <= size /\ Element(b, data) = Element(n, d)
          OBVIOUS
        <5>2. b = n
          BY <5>1 DEF Element
        <5> QED BY <5>1, <5>2
      <4>2. GetRoom = Words - 2
        BY RoomFacts
      <4> QED BY <2>1, <4>1, <4>2, SizeFacts
    <3>3. Queue!Refuse(Element(b, data))
      BY <1>3, <2>1, <3>1, <3>2 DEF Queue!Refuse
    <3> QED BY <3>3 DEF Queue!Next
  <2>2. CASE ToUlongSize(b) <= GetRoom /\ ToUlongSize(b) <= size
    <3>1. /\ answer' = <<"written", Element(b, data)>>
          /\ \E pos \in 0 .. Words - 1 :
               unread' = Append(unread, [at |-> pos, element |-> Element(b, data)])
      BY <1>4, <2>2, WriteLaidOut
    <3>2. PICK pos \in 0 .. Words - 1 :
            unread' = Append(unread, [at |-> pos, element |-> Element(b, data)])
      BY <3>1
    <3>3. Mapped(f, unread') = Append(q, Element(b, data))
      <4> DEFINE x == [at |-> pos, element |-> Element(b, data)]
      <4>1. x \in R /\ x.element = Element(b, data) /\ unread' = Append(unread, x)
        BY <1>p, <3>2
      <4> HIDE DEF x, q
      <4>2. Mapped(f, Append(unread, x)) = Append(Mapped(f, unread), f[x])
        BY <1>1, <1>f, <4>1, MappedAppend
      <4> QED BY <1>f, <4>1, <4>2 DEF q
    <3>4. Len(q) < Words /\ Element(b, data) \in elements
      BY <1>2, <2>2, FewerThanWords
    <3>5. Queue!Put(Element(b, data))
      BY <1>3, <3>1, <3>3, <3>4 DEF Queue!Put
    <3> QED BY <3>4, <3>5 DEF Queue!Next
  <2> QED BY <1>4, <2>1, <2>2, WriteCases
<1>5. CASE readElement
  <2>1. CASE count = 0
    <3>1. UNCHANGED unread /\ answer' = <<"read", Null>>
      BY <1>5, <2>1 DEF readElement
    <3>2. Mapped(f, unread') = q /\ q = <<>>
      BY <1>1, <1>2, <2>1, <3>1
    <3>3. Queue!Empty("read")
      BY <1>3, <3>1, <3>2 DEF Queue!Empty
    <3> QED BY <3>3 DEF Queue!Next
  <2>2. CASE count # 0
    <3>1. /\ unread # <<>> /\ unread' = Tail(unread)
          /\ answer' = <<"read", unread[1].element>>
      BY <1>5, <2>2, ReadLaidOut
    <3>2. q # <<>> /\ Head(q) = unread[1].element /\ Mapped(f, unread') = Tail(q)
      <4>1. /\ Mapped(f, unread) # <<>> /\ Head(Mapped(f, unread)) = f[unread[1]]
            /\ Mapped(f, Tail(unread)) = Tail(Mapped(f, unread)) /\ unread[1] \in R
        BY <1>1, <1>f, <3>1, MappedShorter, Shorter
      <4> QED BY <1>f, <3>1, <4>1
    <3>3. Queue!Get
      BY <1>3, <3>1, <3>2 DEF Queue!Get
    <3> QED BY <3>3 DEF Queue!Next
  <2> QED BY <2>1, <2>2
<1>6. CASE peekElement
  <2>1. UNCHANGED unread
        /\ answer' = IF count = 0 THEN <<"peeked", Null>> ELSE <<"peeked", unread[1].element>>
    BY <1>6, PeekLaidOut
  <2>2. Mapped(f, unread') = q
    BY <2>1
  <2>3. CASE count = 0
    <3>1. q = <<>> /\ answer' = <<"peeked", Null>>
      BY <1>1, <1>2, <2>1, <2>3
    <3>2. Queue!Empty("peeked")
      BY <1>3, <2>2, <3>1 DEF Queue!Empty
    <3> QED BY <3>2 DEF Queue!Next
  <2>4. CASE count # 0
    <3>1. unread # <<>>
      BY <1>1, <2>4
    <3>2. q # <<>> /\ Head(q) = unread[1].element /\ answer' = <<"peeked", unread[1].element>>
      <4>1. /\ Mapped(f, unread) # <<>> /\ Head(Mapped(f, unread)) = f[unread[1]]
            /\ unread[1] \in R
        BY <1>1, <1>f, <3>1, MappedShorter, Shorter
      <4> QED BY <1>f, <2>1, <2>4, <4>1
    <3>3. Queue!Peek
      BY <1>3, <2>2, <3>2 DEF Queue!Peek
    <3> QED BY <3>3 DEF Queue!Next
  <2> QED BY <2>3, <2>4
<1>7. CASE Clear
  <2>1. unread' = <<>> /\ answer' = <<"cleared", Null>>
    BY <1>7 DEF Clear
  <2>2. Queue!Clear
    BY <1>1, <1>3, <2>1 DEF Queue!Clear
  <2> QED BY <2>2 DEF Queue!Next
<1>8. CASE UNCHANGED vars
  <2>1. UNCHANGED <<unread, answer>>
    BY <1>8 DEF vars
  <2>2. UNCHANGED Queue!vars
    BY <2>1 DEF Queue!vars
  <2> QED BY <2>2
<1> QED BY <1>4, <1>5, <1>6, <1>7, <1>8 DEF Next

\* The variable-sized FIFO is a queue: its elements come out in the order and
\* with the contents they went in, whatever their sizes and wherever in the buffer
\* they lie, and an empty FIFO takes every element it is for.
THEOREM VariableQueue ==
  ASSUME SafeUse, Fitting
  PROVE  Spec => QueueSpec
<1>1. Init => LaidOut
  BY LaidOutInit
<1>2. Init => Queue!Init
  <2> SUFFICES ASSUME Init PROVE Queue!Init
    OBVIOUS
  <2>1. unread = <<>> /\ answer = <<"init", Null>> /\ Words \in Nat
    BY LayoutAssumption DEF Init
  <2>2. [k \in DOMAIN unread |-> unread[k].element] = <<>>
    BY <2>1
  <2> QED BY <2>1, <2>2 DEF Queue!Init
<1>3. LaidOut /\ [Next]_vars => LaidOut'
  BY LaidOutStep
<1>4. LaidOut /\ [Next]_vars => [Queue!Next]_(Queue!vars)
  BY VariableStep
<1> QED BY <1>1, <1>2, <1>3, <1>4, PTL DEF Spec, QueueSpec, Queue!Spec
=============================================================================
