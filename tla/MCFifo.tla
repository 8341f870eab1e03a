------------------------------- MODULE MCFifo -------------------------------
(***************************************************************************)
(* Both FIFOs of common/ifx_fifo.c: the fixed-size one uses what the        *)
(* variable-sized one uses, and some more.  A behaviour is that of one.     *)
(***************************************************************************)
EXTENDS VarFifo

CONSTANT Last                         (* see Fifo                           *)
VARIABLES elementSize, maxSize, valid

Fixed == INSTANCE Fifo WITH size <- elementSize

ASSUME FixedAssumption == Fixed!FifoAssumption

FixedSpec == Fixed!Spec

\* The pointers of the fixed-size FIFO, and the count of what lies between them.
PointersAgree == Fixed!PointersAgree

\* The fixed-size FIFO is a queue of exactly max_size elements, with an undo.
FixedQueueSpec == Fixed!QueueSpec
=============================================================================
