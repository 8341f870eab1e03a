-------------------------------- MODULE Event --------------------------------
(***************************************************************************)
(* What an event promises: a wake-up is kept until a wait takes it, and a     *)
(* wait that succeeds has taken one.  Counting events keep every wake-up, the *)
(* others keep one.  A Lossy event only promises that a wait returns success  *)
(* or an error.                                                             *)
(***************************************************************************)
EXTENDS Naturals

CONSTANT Waiters
VARIABLES kind, open, count, waiting, told

vars == <<kind, open, count, waiting, told>>

Kinds == {"counting", "binary", "lossy"}

Init ==
  /\ kind \in Kinds /\ ~open /\ count = 0 /\ waiting = {}
  /\ told = [w \in Waiters |-> "none"]

Create ==
  /\ ~open /\ open' = TRUE /\ count' = 0
  /\ UNCHANGED <<kind, waiting, told>>

\* Whoever still waits is sent back with an error.
Destroy ==
  /\ open /\ open' = FALSE /\ count' = 0 /\ waiting' = {}
  /\ told' = [w \in Waiters |-> IF w \in waiting THEN "error" ELSE told[w]]
  /\ UNCHANGED kind

WakeUp ==
  /\ open
  /\ count' = IF kind = "counting" THEN count + 1 ELSE 1
  /\ UNCHANGED <<kind, open, waiting, told>>

Wait(w) ==
  /\ open /\ w \notin waiting
  /\ waiting' = waiting \cup {w} /\ told' = [told EXCEPT ![w] = "none"]
  /\ UNCHANGED <<kind, open, count>>

Take(w) ==
  /\ w \in waiting /\ count > 0
  /\ count' = count - 1
  /\ waiting' = waiting \ {w} /\ told' = [told EXCEPT ![w] = "success"]
  /\ UNCHANGED <<kind, open>>

GiveUp(w) ==
  /\ w \in waiting
  /\ waiting' = waiting \ {w} /\ told' = [told EXCEPT ![w] = "error"]
  /\ UNCHANGED <<kind, open, count>>

Lose(w) ==
  /\ kind = "lossy" /\ w \in waiting
  /\ waiting' = waiting \ {w}
  /\ \E r \in {"success", "error"} : told' = [told EXCEPT ![w] = r]
  /\ count' \in {0, count}
  /\ UNCHANGED <<kind, open>>

Next ==
  \/ Create \/ Destroy \/ WakeUp
  \/ \E w \in Waiters : Wait(w) \/ Take(w) \/ GiveUp(w) \/ Lose(w)

Spec == Init /\ [][Next]_vars
=============================================================================
