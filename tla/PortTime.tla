------------------------------ MODULE PortTime ------------------------------
(***************************************************************************)
(* How the ports turn milliseconds into the times of their operating systems. *)
(* Time passes in units, which stand for milliseconds, TickLen of them to a   *)
(* tick of the system clock; a wait for n ticks ends at the n-th tick to come.*)
(***************************************************************************)
EXTENDS Integers

CONSTANTS
  Forever,    \* 0xFFFFFFFF, IFXOS_WAIT_FOREVER
  Never,      \* the time at which a wait without limit runs out
  Word,       \* one more than the largest unsigned integer
  TickLen,    \* the units of a tick
  Hz          \* the ticks of a second

ASSUME PortTimeAssumption ==
  /\ Word \in Nat \ {0} /\ TickLen \in Nat \ {0} /\ Hz \in Nat \ {0}
  /\ Forever = Word - 1 /\ Never \notin Int

\* The units of a second.
Sec == Hz * TickLen

\* IFXOS_MSEC_TO_TICK.
MSecToTick(t) == t \div TickLen

\* (HZ * waitTime_ms) / 1000, in unsigned integers, and when the product is too large.
HzTicks(t) == ((Hz * t) % Word) \div Sec
HzOverflows(t) == Hz * t >= Word

\* The units until the n-th tick to come, phase units after the last one.
UntilTick(n, phase) == IF n = 0 THEN 0 ELSE n * TickLen - phase

Finite(t) == IF t = Forever THEN Never ELSE t
=============================================================================
