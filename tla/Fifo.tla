-------------------------------- MODULE Fifo --------------------------------
(***************************************************************************)
(* The fixed-size FIFO of src/common/ifx_fifo.c.  Addresses are word       *)
(* indices relative to pStart, which is 0; pEnd is the address of the LAST *)
(* element (not of the first word beyond, as in VarFifo) and is Last here. *)
(* The FIFO may be initialised again with another element size; when       *)
(* IFX_Fifo_Init fails it has already replaced all fields but max_size,    *)
(* and its caller, which is told so, does not use the FIFO (valid).        *)
(***************************************************************************)
EXTENDS Integers, Sequences

CONSTANTS
  Last,        (* pEnd - pStart, in IFX_ulong_t                            *)
  WordBytes,   (* sizeof(IFX_ulong_t)                                      *)
  Sizes,       (* the element sizes in bytes given to IFX_Fifo_Init        *)
  Data,        (* what a caller stores in an element                       *)
  Wrap32,      (* 2^32, or a smaller bound above every count               *)
  Null

\* What is assumed of the constants.
FifoAssumption ==
  /\ Last \in Nat
  /\ WordBytes \in {4, 8}
  /\ Sizes \subseteq Nat \ {0}
  /\ Wrap32 \in Nat /\ Wrap32 > Last + 1

VARIABLES
  pRead, pWrite, count, size, maxSize,
  valid,       (* IFX_Fifo_Init succeeded                                  *)
  mem,         (* what was last stored in the element at an address        *)
  unread,      (* history: written and not read, oldest first, with the    *)
               (* address writeElement returned                            *)
  answer       (* the last call, and what it gave to its caller            *)

vars == <<pRead, pWrite, count, size, maxSize, valid, mem, unread, answer>>

ToUlongSize(b) == (b + WordBytes - 1) \div WordBytes

Init ==
  /\ pRead = 0 /\ pWrite = 0 /\ count = 0 /\ size = 0 /\ maxSize = 0
  /\ valid = FALSE
  /\ mem = [a \in 0..Last |-> Null]
  /\ unread = <<>>
  /\ answer = <<"init", Null>>

FifoInit(b) ==
  /\ pRead' = 0 /\ pWrite' = 0 /\ count' = 0
  /\ size' = ToUlongSize(b)
  /\ valid' = (Last % size' = 0)
  /\ maxSize' = IF valid' THEN 1 + Last \div size' ELSE maxSize
  /\ unread' = <<>>
  /\ answer' = <<"cleared", Null>>
  /\ UNCHANGED mem

Increment(p) == IF p = Last THEN 0 ELSE p + size

\* Mutant: the step back from the start stays there.
DecrementMut_NoWrap(p) == IF p = 0 THEN 0 ELSE p - size

Decrement(p) == IF p = 0 THEN Last ELSE p - size

\* Mutant: full means one element more.
IsFullMut_OneMore == count > maxSize

IsFull == count >= maxSize

\* The caller fills the element through the returned pointer.
writeElement(d) ==
  /\ valid
  /\ UNCHANGED <<pRead, size, maxSize, valid>>
  /\ IF IsFull
     THEN answer' = <<"refused", d>> /\ UNCHANGED <<pWrite, count, mem, unread>>
     ELSE /\ mem' = [mem EXCEPT ![pWrite] = d]
          /\ pWrite' = Increment(pWrite)
          /\ count' = (count + 1) % Wrap32
          /\ unread' = Append(unread, [at |-> pWrite, data |-> d])
          /\ answer' = <<"written", d>>

readElement ==
  /\ valid
  /\ UNCHANGED <<pWrite, size, maxSize, valid, mem>>
  /\ IF count = 0
     THEN answer' = <<"read", Null>> /\ UNCHANGED <<pRead, count, unread>>
     ELSE /\ answer' = <<"read", mem[pRead]>>
          /\ pRead' = Increment(pRead)
          /\ count' = count - 1
          /\ unread' = Tail(unread)

\* The undo of a write whose element is still in the FIFO: the code does not
\* look whether there is one, its caller does.
returnElement ==
  /\ valid
  /\ unread # <<>>
  /\ pWrite' = Decrement(pWrite)
  /\ count' = (count - 1) % Wrap32
  /\ unread' = SubSeq(unread, 1, Len(unread) - 1)
  /\ answer' = <<"returned", Null>>
  /\ UNCHANGED <<pRead, size, maxSize, valid, mem>>

Clear ==
  /\ valid
  /\ pRead' = 0 /\ pWrite' = 0 /\ count' = 0
  /\ unread' = <<>>
  /\ answer' = <<"cleared", Null>>
  /\ UNCHANGED <<size, maxSize, valid, mem>>

Next ==
  \/ \E b \in Sizes : FifoInit(b)
  \/ \E d \in Data : writeElement(d)
  \/ readElement
  \/ returnElement
  \/ Clear

Spec == Init /\ [][Next]_vars

-----------------------------------------------------------------------------
\* Type invariant; both pointers stay on element addresses of the buffer.
TypeOK ==
  /\ size \in Nat /\ maxSize \in 0..Last + 1 /\ count \in 0..maxSize
  /\ valid \in BOOLEAN
  /\ pRead \in 0..Last /\ pWrite \in 0..Last
  /\ valid => /\ size > 0
              /\ pRead % size = 0 /\ pWrite % size = 0
              /\ Last = (maxSize - 1) * size
  /\ mem \in [0..Last -> Data \cup {Null}]
  /\ unread \in Seq([at : 0..Last, data : Data])

\* pWrite is count elements ahead of pRead around the ring, so that the two
\* pointers meet exactly when the FIFO is empty or full; count, which the
\* empty and full tests rest on, never tells another story than the pointers
\* do, after any mix of writes, reads, undone writes and a new element size.
CountAgrees ==
  valid => (pRead + count * size) % (Last + size) = pWrite

\* The pointers stay at elements of the buffer, and the count agrees with them.
PointersAgree == TypeOK /\ CountAgrees

\* The FIFO implements a queue of exactly max_size elements with an undo of
\* the last write: full means max_size elements, not one fewer or one more.
Queue == INSTANCE ElementQueue WITH
  Requests <- Data,
  Elements <- Data,
  least    <- maxSize,
  most     <- maxSize,
  queue    <- [k \in DOMAIN unread |-> unread[k].data]

QueueSpec == Queue!Spec
=============================================================================
