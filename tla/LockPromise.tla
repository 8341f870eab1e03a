----------------------------- MODULE LockPromise -----------------------------
(***************************************************************************)
(* What a lock or mutex promises its users: who is told success has it, and   *)
(* nobody else does; who is told an error was not given it; a call is told    *)
(* one of the two, once; and a lock is only given while it exists.  A         *)
(* recursive lock may be given again to its holder.  A pretended lock only    *)
(* counts how often it said success.                                        *)
(***************************************************************************)
EXTENDS Naturals

CONSTANT Users
VARIABLES kind, open, holds, waiting, told

vars == <<kind, open, holds, waiting, told>>

Kinds == {"exclusive", "recursive", "pretended"}

Init ==
  /\ kind \in Kinds /\ ~open /\ waiting = {}
  /\ holds = [w \in Users |-> 0] /\ told = [w \in Users |-> "none"]

Create ==
  /\ ~open /\ open' = TRUE
  /\ UNCHANGED <<kind, holds, waiting, told>>

\* Nobody waits for a lock that is destroyed, and whoever holds it loses it.
Destroy ==
  /\ open /\ waiting = {}
  /\ open' = FALSE /\ holds' = [w \in Users |-> 0]
  /\ UNCHANGED <<kind, waiting, told>>

Ask(w) ==
  /\ w \notin waiting
  /\ waiting' = waiting \cup {w} /\ told' = [told EXCEPT ![w] = "none"]
  /\ UNCHANGED <<kind, open, holds>>

Free(w) ==
  /\ \A v \in Users \ {w} : holds[v] = 0
  /\ kind = "exclusive" => holds[w] = 0

Get(w) ==
  /\ kind # "pretended" => open /\ w \in waiting /\ Free(w)
  /\ holds' = [holds EXCEPT ![w] = @ + 1]
  /\ waiting' = waiting \ {w} /\ told' = [told EXCEPT ![w] = "success"]
  /\ UNCHANGED <<kind, open>>

\* A call that waits, or one that never began to, is told an error.
Refuse(w) ==
  /\ waiting' = waiting \ {w} /\ told' = [told EXCEPT ![w] = "error"]
  /\ UNCHANGED <<kind, open, holds>>

Release(w) ==
  /\ open /\ w \notin waiting /\ holds[w] > 0
  /\ holds' = [holds EXCEPT ![w] = @ - 1]
  /\ UNCHANGED <<kind, open, waiting, told>>

Next ==
  \/ Create \/ Destroy
  \/ \E w \in Users : Ask(w) \/ Get(w) \/ Refuse(w) \/ Release(w)

Spec == Init /\ [][Next]_vars
=============================================================================
