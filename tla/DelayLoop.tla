----------------------------- MODULE DelayLoop -----------------------------
(***************************************************************************)
(* IFXOS_USecSleep of eCos, VxWorks, Nucleus and XAPI, which are alike: it     *)
(* counts in a loop, and its first call finds out how far by sleeping for a   *)
(* tick, through a call of itself, and looking whether the clock has moved.    *)
(* The result is a static variable of all threads.                            *)
(***************************************************************************)
EXTENDS Integers, Sequences

CONSTANTS
  Ports,
  Threads,
  Speeds,     \* the loops that take a microsecond on a processor
  Limit,      \* 0x1000, where the search ends
  Wishes,     \* what is asked for: "some" microseconds or "all", 0xffffffff
  Preempts    \* whether a thread may lose the processor while it counts

\* What is assumed of the constants; the limit is a power of two, and large enough for the
\* first value of the single steps.
DelayLoopAssumption ==
  /\ Ports \subseteq {"ecos", "vxworks", "nucleus", "xapi"}
  /\ Speeds \subseteq Nat \ {0}
  /\ Limit \in Nat /\ Limit >= 4 /\ \A n \in 2 .. Limit : Limit % n = 0 => n % 2 = 0
  /\ Wishes \subseteq {"some", "all"} /\ Preempts \in BOOLEAN

VARIABLES
  port,
  speed,      \* that of this processor
  delayLoop,  \* the static variable
  stack,      \* the calls each thread is in, the innermost first
  clean       \* whether every search so far had the variable and the processor for itself

vars == <<port, speed, delayLoop, stack, clean>>

Steps == {"look", "one", "test", "shift", "halve", "four", "quarter",
          "test2", "step2", "count"}

\* wish: what for; max: maxLoop; moved: whether the clock has moved (stop differs from start);
\* searched: whether this call has looked for the value, which takes several ticks.
Call == [wish : Wishes \cup {"tick"}, at : Steps, max : Nat, moved : BOOLEAN,
         searched : BOOLEAN]

TypeOK ==
  /\ port \in Ports /\ speed \in Speeds
  /\ delayLoop \in Nat /\ (clean => delayLoop <= Limit)
  /\ \A t \in Threads : \A i \in DOMAIN stack[t] : stack[t][i] \in Call
  /\ clean \in BOOLEAN

Init ==
  /\ port \in Ports /\ speed \in Speeds /\ delayLoop = 0
  /\ stack = [t \in Threads |-> << >>] /\ clean = TRUE

-----------------------------------------------------------------------------
Inside(t) == stack[t] # << >>
Alone(t) == \A u \in Threads \ {t} : ~Inside(u)
Top(t) == Head(stack[t])
At(t, s) == Inside(t) /\ Top(t).at = s
Nested(w) == [wish |-> w, at |-> "look", max |-> 0, moved |-> FALSE, searched |-> FALSE]

\* A call that looks for the value, or will.
Searches(t) == \E i \in DOMAIN stack[t] : stack[t][i].at \notin {"look", "count"}

Goes(t, c) == stack' = [stack EXCEPT ![t] = <<c>> \o Tail(@)]
To(t, s) == Goes(t, [Top(t) EXCEPT !.at = s])
Keep == UNCHANGED <<port, speed, clean>>

USecSleep(p, t, w) ==
  /\ port = p /\ ~Inside(t)
  /\ stack' = [stack EXCEPT ![t] = <<Nested(w)>>]
  /\ clean' = (clean /\ \A u \in Threads : ~Searches(u))
  /\ UNCHANGED <<port, speed, delayLoop>>

EcosUSecSleep(t, w) == USecSleep("ecos", t, w)
VxworksUSecSleep(t, w) == USecSleep("vxworks", t, w)
NucleusUSecSleep(t, w) == USecSleep("nucleus", t, w)
XapiUSecSleep(t, w) == USecSleep("xapi", t, w)

\* The value is looked for when there is none, and when all is asked for.
Look(t) ==
  /\ At(t, "look")
  /\ LET searches == delayLoop = 0 \/ Top(t).wish = "all"
     IN /\ To(t, IF searches THEN "one" ELSE "count")
        /\ clean' = (clean /\ (searches => Alone(t)))
  /\ UNCHANGED <<port, speed, delayLoop>>

\* First 1, 2, 4 and so on, until a sleep of a tick takes one.
Begin(t) ==
  /\ At(t, "one")
  /\ delayLoop' = 1
  /\ Goes(t, [Top(t) EXCEPT !.at = "test", !.searched = TRUE])
  /\ Keep

\* A call of itself, for the microseconds of a tick.
Measures(t, next) ==
  /\ stack' = [stack EXCEPT ![t] =
                 <<Nested("tick"), [Top(t) EXCEPT !.at = next]>> \o Tail(@)]
  /\ UNCHANGED delayLoop

Test(t) ==
  /\ At(t, "test")
  /\ IF delayLoop < Limit /\ ~Top(t).moved
     THEN Measures(t, "shift")
     ELSE To(t, "halve") /\ UNCHANGED delayLoop
  /\ Keep

\* The loop counts on before it ends.
Shift(t) ==
  /\ At(t, "shift")
  /\ delayLoop' = 2 * delayLoop /\ To(t, "test")
  /\ Keep

Halve(t) ==
  /\ At(t, "halve")
  /\ Goes(t, [Top(t) EXCEPT !.at = "four", !.max = delayLoop \div 2, !.moved = FALSE])
  /\ UNCHANGED delayLoop /\ Keep

\* Then in single steps, from half of the last value that was too small.
AtLeastFour(t) ==
  /\ At(t, "four")
  /\ delayLoop' = (IF delayLoop < 4 THEN 4 ELSE delayLoop)
  /\ To(t, "quarter")
  /\ Keep

\* Mutant: the single steps start where the doubling has ended.
QuarterMut_Half(t) ==
  /\ At(t, "quarter")
  /\ delayLoop' = delayLoop \div 2 /\ To(t, "test2")
  /\ Keep

Quarter(t) ==
  /\ At(t, "quarter")
  /\ delayLoop' = delayLoop \div 4 /\ To(t, "test2")
  /\ Keep

TestAgain(t) ==
  /\ At(t, "test2")
  /\ IF delayLoop < Top(t).max /\ ~Top(t).moved
     THEN Measures(t, "step2")
     ELSE To(t, "count") /\ UNCHANGED delayLoop
  /\ Keep

\* Mutant: the value stays.
StepAgainMut_Stays(t) ==
  /\ At(t, "step2")
  /\ To(t, "test2") /\ UNCHANGED delayLoop
  /\ Keep

StepAgain(t) ==
  /\ At(t, "step2")
  /\ delayLoop' = delayLoop + 1 /\ To(t, "test2")
  /\ Keep

\* Whether the clock moves while the microseconds of a tick are counted, from its last
\* move on: it does when that takes long enough, and may do while others have the processor.
LongEnough(t) == delayLoop >= speed \/ Top(t).searched
TickGoesBy(t, moved) ==
  moved = LongEnough(t) \/ (moved /\ (Preempts \/ ~Alone(t)))

\* The loop itself, and the return to the caller.
Count(t) ==
  /\ At(t, "count")
  /\ IF Top(t).wish = "tick"
     THEN \E moved \in BOOLEAN :
            /\ TickGoesBy(t, moved)
            /\ stack' = [stack EXCEPT ![t] =
                           <<[@[2] EXCEPT !.moved = moved]>> \o Tail(Tail(@))]
            /\ clean' = (clean /\ moved = LongEnough(t))
     ELSE /\ stack' = [stack EXCEPT ![t] = << >>]
          /\ UNCHANGED clean
  /\ UNCHANGED <<port, speed, delayLoop>>

Step(t) ==
  \/ Look(t) \/ Begin(t) \/ Test(t) \/ Shift(t) \/ Halve(t) \/ AtLeastFour(t)
  \/ Quarter(t) \/ TestAgain(t) \/ StepAgain(t) \/ Count(t)

Next ==
  \E t \in Threads :
    \/ Step(t)
    \/ \E w \in Wishes :
         \/ EcosUSecSleep(t, w) \/ VxworksUSecSleep(t, w)
         \/ NucleusUSecSleep(t, w) \/ XapiUSecSleep(t, w)

\* A thread that counts has the processor now and then.
Spec == Init /\ [][Next]_vars /\ \A t \in Threads : WF_vars(Step(t))
-----------------------------------------------------------------------------
\* About to count for the caller.
Sleeping(t) == At(t, "count") /\ Top(t).wish # "tick"

\* "Sleep a given time in [us]": every sleep counts as far as the processor needs for it.
SleepsItsTime == \A t \in Threads : Sleeping(t) => delayLoop >= speed

\* What the search finds: the value of the processor or the next one, or half of the
\* limit when that is too small to try it.
Found ==
  IF 2 * speed <= Limit THEN {speed, speed + 1} ELSE {Limit \div 2}

\* As long as nobody has disturbed a search, all sleeps count as far as the processor
\* needs for it and one loop further at most, as far as the limit allows.
Calibrated ==
  clean => \A t \in Threads : Sleeping(t) => delayLoop \in Found
=============================================================================
