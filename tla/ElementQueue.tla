---------------------------- MODULE ElementQueue ----------------------------
(***************************************************************************)
(* What either FIFO of common/ifx_fifo.c promises to its caller: elements  *)
(* come out in the order and with the contents they went in, a refused     *)
(* write and an empty read change nothing.  No pointer, index or header    *)
(* appears here; VarFifo and Fifo are shown to implement this module.      *)
(***************************************************************************)
EXTENDS Naturals, Sequences

CONSTANTS
  Requests,    (* what callers try to write                                *)
  Elements,    (* those of them the queue is meant to hold                 *)
  Null         (* the IFX_NULL answer                                      *)

VARIABLES
  least,       (* elements held before one of Elements may be refused      *)
  most,        (* elements the queue never exceeds                         *)
  queue,       (* the elements written and not yet read, oldest first      *)
  answer       (* the last call, and the element it was about or Null      *)

vars == <<least, most, queue, answer>>

Init == least \in Nat /\ most \in Nat /\ queue = <<>> /\ answer = <<"init", Null>>

Put(e) ==
  /\ Len(queue) < most
  /\ queue' = Append(queue, e)
  /\ answer' = <<"written", e>>
  /\ UNCHANGED <<least, most>>

Refuse(e) ==
  /\ e \in Elements => Len(queue) >= least
  /\ answer' = <<"refused", e>>
  /\ UNCHANGED <<least, most, queue>>

Get ==
  /\ queue # <<>>
  /\ answer' = <<"read", Head(queue)>>
  /\ queue' = Tail(queue)
  /\ UNCHANGED <<least, most>>

Peek ==
  /\ queue # <<>>
  /\ answer' = <<"peeked", Head(queue)>>
  /\ UNCHANGED <<least, most, queue>>

Empty(call) ==
  /\ queue = <<>>
  /\ answer' = <<call, Null>>
  /\ UNCHANGED <<least, most, queue>>

\* the undo of the last write, which the fixed-size FIFO offers
TakeBack ==
  /\ queue # <<>>
  /\ queue' = SubSeq(queue, 1, Len(queue) - 1)
  /\ answer' = <<"returned", Null>>
  /\ UNCHANGED <<least, most>>

\* Emptying the queue, with other bounds when it is set up anew.
Clear ==
  /\ least' \in Nat /\ most' \in Nat
  /\ queue' = <<>>
  /\ answer' = <<"cleared", Null>>

Next ==
  \/ \E e \in Elements : Put(e)
  \/ \E e \in Requests : Refuse(e)
  \/ Get \/ Peek \/ Empty("read") \/ Empty("peeked") \/ TakeBack \/ Clear

Spec == Init /\ [][Next]_vars
=============================================================================
