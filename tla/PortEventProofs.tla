--------------------------- MODULE PortEventProofs ---------------------------
(***************************************************************************)
(* The events of all ports are events: every step of PortEvent is a step of   *)
(* Event or none, for any waiters, any times and any number of wake-ups.       *)
(***************************************************************************)
EXTENDS PortEvent, TLAPS

\* What the mapping needs to know of the waiters, and that the generic port, which
\* has nothing to wake up, has nothing pending.
Mapped ==
  /\ st \in [Waiters -> Places] /\ out \in [Waiters -> Answers]
  /\ port = "generic" => pending = 0

told == [w \in Waiters |-> out[w].result]

LEMMA InitMapped == Init => Mapped
<1>1. Nothing \in Answers
  BY DEF Nothing, Answers, Causes
<1> QED
  BY <1>1 DEF Init, Mapped, Places

\* The shapes of the steps of a wait.
Enter(w) ==
  /\ bValid /\ st[w] = "idle" /\ UNCHANGED <<port, object>>
  /\ st' = [st EXCEPT ![w] = "asleep"] /\ out' = [out EXCEPT ![w] = Nothing]

Turn(w) ==
  /\ st[w] # "idle" /\ UNCHANGED <<port, object, out>>
  /\ \E place \in Places \ {"idle"} : st' = [st EXCEPT ![w] = place]

Answer(w, result) ==
  /\ st[w] # "idle" /\ UNCHANGED <<port, bValid, gSemId>>
  /\ st' = [st EXCEPT ![w] = "idle"]
  /\ \E a \in Answers : a.result = result /\ out' = [out EXCEPT ![w] = a]

Step(w) ==
  \/ Enter(w) \/ Turn(w)
  \/ Answer(w, "success") /\ pending > 0 /\ pending' = pending - 1
  \/ Answer(w, "error") /\ pending' = pending
  \/ /\ Answer(w, "success") \/ Answer(w, "error")
     /\ Kind = "lossy" /\ pending' \in {0, pending}

LEMMA EntersShape ==
  ASSUME NEW w \in Waiters, NEW p, NEW t, NEW units, Enters(p, w, t, units)
  PROVE  Step(w)
BY DEF Enters, Step, Enter

LEMMA LeavesShape ==
  ASSUME NEW w \in Waiters, NEW result \in {"success", "error"}, NEW code \in {0, 1},
         NEW cause \in Causes, Leaves(w, result, code, cause), st[w] # "idle"
  PROVE  Answer(w, result)
<1> DEFINE a == [result |-> result, code |-> code, cause |-> cause]
<1>1. a \in Answers /\ a.result = result /\ out' = [out EXCEPT ![w] = a]
  BY DEF Leaves, Answers
<1> QED
  BY <1>1 DEF Leaves, Answer

LEMMA FailsShape ==
  ASSUME NEW w \in Waiters, NEW p, NEW code \in {0, 1}, NEW cause \in Causes,
         Fails(p, w, code, cause)
  PROVE  Step(w)
BY LeavesShape DEF Fails, Step

LEMMA GetsShape ==
  ASSUME NEW w \in Waiters, NEW p, Gets(p, w)
  PROVE  Step(w)
BY LeavesShape DEF Gets, Succeeds, Step, Causes

LEMMA WaitShape ==
  ASSUME NEW w \in Waiters, NEW t \in Times, EventWait(w, t)
  PROVE  Step(w)
<1> USE EntersShape, GetsShape DEF Causes
<1>1. ASSUME NEW p, NEW code \in {0, 1}, Expires(p, w, code) \/ FindsNothing(p, w)
      PROVE  Step(w)
  BY <1>1, FailsShape DEF Expires, FindsNothing
<1>2. CASE LinuxApplWait(w, t)
  BY <1>1, <1>2, FailsShape DEF LinuxApplWait
<1>3. CASE LinuxDrvWait(w, t)
  <2>1. CASE /\ port = "linux_drv" /\ st[w] = "asleep"
             /\ \/ st' = [st EXCEPT ![w] = "seen"] /\ pending = 1
                \/ st' = [st EXCEPT ![w] = "signalled"]
                \/ st' = [st EXCEPT ![w] = "late"] /\ pending = 0 /\ left[w] = 0
             /\ UNCHANGED <<port, object, clocks, out>>
    BY <2>1 DEF Step, Turn, Places
  <2>2. CASE \/ port = "linux_drv" /\ st[w] \in {"seen", "signalled"} /\ pending' = 0 /\ Succeeds(w)
             \/ /\ port = "linux_drv" /\ st[w] = "late" /\ pending' = 0
                /\ Leaves(w, "error", 1, "timeout")
    BY <2>2, LeavesShape DEF Succeeds, Step, Kind
  <2> QED
    BY <1>3, <2>1, <2>2 DEF LinuxDrvWait
<1>4. CASE EcosWait(w, t) \/ VxworksWait(w, t) \/ Win32Wait(w, t)
  BY <1>1, <1>4 DEF EcosWait, VxworksWait, Win32Wait
<1>5. CASE NucleusWait(w, t)
  BY <1>1, <1>5, FailsShape DEF NucleusWait
<1>6. CASE RtemsWait(w, t) \/ XapiWait(w, t)
  BY <1>1, <1>6 DEF RtemsWait, XapiWait, XsmWait
<1>7. CASE GenericWait(w, t)
  BY <1>7, LeavesShape DEF GenericWait, Succeeds, Step, Kind
<1> QED
  BY <1>2, <1>3, <1>4, <1>5, <1>6, <1>7 DEF EventWait

\* A step of a wait is a step of the abstract wait.
LEMMA StepRefines ==
  ASSUME Mapped, NEW w \in Waiters, Step(w)
  PROVE  Mapped' /\ [E!Next]_E!vars
<1> USE DEF Mapped
<1>1. told \in [Waiters -> {"none", "success", "error"}]
  BY DEF told, Answers
<1>2. Kind' = Kind
  BY DEF Step, Enter, Turn, Answer, Kind
<1>3. CASE Enter(w)
  <2>1. Mapped'
    <3>1. Nothing \in Answers
      BY DEF Nothing, Answers, Causes
    <3> QED
      BY <1>3, <3>1 DEF Enter, Places, object
  <2>2. Asleep' = Asleep \cup {w} /\ w \notin Asleep
    BY <1>3, <2>1 DEF Enter, Asleep
  <2>3. told' = [told EXCEPT ![w] = "none"]
    BY <1>1, <1>3, <2>1 DEF Enter, told, Nothing
  <2>4. E!Wait(w)
    BY <1>2, <1>3, <2>2, <2>3 DEF Enter, E!Wait, told, object
  <2> QED
    BY <2>1, <2>4 DEF E!Next
<1>4. CASE Turn(w)
  <2>1. Mapped' /\ Asleep' = Asleep /\ UNCHANGED told
    BY <1>4 DEF Turn, Asleep, told, object
  <2> QED
    BY <1>2, <1>4, <2>1 DEF Turn, E!vars, told, object
<1>5. ASSUME NEW r \in {"success", "error"}, Answer(w, r),
             port = "generic" => pending' = 0
      PROVE  /\ Mapped' /\ w \in Asleep /\ Asleep' = Asleep \ {w}
             /\ told' = [told EXCEPT ![w] = r]
  <2>1. PICK a \in Answers : a.result = r /\ out' = [out EXCEPT ![w] = a]
    BY <1>5 DEF Answer
  <2>2. Mapped'
    BY <1>5, <2>1 DEF Answer, Places
  <2>3. w \in Asleep /\ Asleep' = Asleep \ {w}
    BY <1>5, <2>2 DEF Answer, Asleep
  <2>4. told' = [told EXCEPT ![w] = r]
    BY <1>1, <2>1, <2>2 DEF told
  <2> QED
    BY <2>2, <2>3, <2>4
<1>6. CASE Answer(w, "success") /\ pending > 0 /\ pending' = pending - 1
  <2>1. port # "generic"
    BY <1>6
  <2>2. E!Take(w)
    BY <1>2, <1>5, <1>6, <2>1 DEF E!Take, Answer, told
  <2> QED
    BY <1>5, <1>6, <2>1, <2>2 DEF E!Next
<1>7. CASE Answer(w, "error") /\ pending' = pending
  <2>1. E!GiveUp(w)
    BY <1>2, <1>5, <1>7 DEF E!GiveUp, Answer, told
  <2> QED
    BY <1>5, <1>7, <2>1 DEF E!Next
<1>8. CASE /\ Answer(w, "success") \/ Answer(w, "error")
           /\ Kind = "lossy" /\ pending' \in {0, pending}
  <2>1. E!Lose(w)
    BY <1>2, <1>5, <1>8 DEF E!Lose, Answer, told
  <2> QED
    BY <1>5, <1>8, <2>1 DEF E!Next
<1> HIDE DEF Mapped
<1> QED
  BY <1>3, <1>4, <1>6, <1>7, <1>8 DEF Step

\* The steps of the owner of the event, of those who wake it up, and of the clock.
LEMMA OpensRefines ==
  ASSUME Mapped, NEW p, Opens(p)
  PROVE  Mapped' /\ E!Create
BY DEF Opens, Mapped, E!Create, Kind, Asleep

LEMMA ClosesRefines ==
  ASSUME Mapped, NEW p, Closes(p), SentBack \/ Nobody
  PROVE  Mapped' /\ E!Destroy
<1>1. CASE SentBack
  <2>1. ASSUME NEW w \in Waiters
        PROVE  (IF w \in Asleep THEN [result |-> "error", code |-> 0, cause |-> "deleted"]
                                ELSE out[w]) \in Answers
    BY DEF Mapped, Answers, Causes
  <2>2. Mapped'
    BY <1>1, <2>1 DEF SentBack, Closes, Mapped, Places
  <2>3. Asleep' = {}
    BY <1>1 DEF SentBack, Asleep
  <2>4. told' = [w \in Waiters |-> IF w \in Asleep THEN "error" ELSE told[w]]
    BY <1>1 DEF SentBack, told
  <2> QED
    BY <2>2, <2>3, <2>4 DEF Closes, E!Destroy, Kind, told
<1>2. CASE Nobody
  <2>1. Mapped' /\ Asleep = {} /\ Asleep' = {} /\ told' = told
    BY <1>2 DEF Nobody, Closes, Mapped, Asleep, told
  <2>2. told = [w \in Waiters |-> IF w \in Asleep THEN "error" ELSE told[w]]
    BY <2>1 DEF told
  <2> QED
    BY <2>1, <2>2 DEF Closes, E!Destroy, Kind, told
<1> QED
  BY <1>1, <1>2

LEMMA WakesUpRefines ==
  ASSUME Mapped, EventWakeUp
  PROVE  Mapped' /\ [E!Next]_E!vars
<1>1. ASSUME NEW p, NEW value, WakesUp(p, value)
      PROVE  /\ UNCHANGED <<st, out, port, bValid, Asleep, told>> /\ pending' = value
             /\ port = p /\ bValid
  BY <1>1 DEF WakesUp, Asleep, told
<1>2. CASE LinuxApplWakeUp \/ RtemsWakeUp \/ XapiWakeUp
  <2>1. Mapped' /\ E!WakeUp
    BY <1>1, <1>2
    DEF LinuxApplWakeUp, RtemsWakeUp, XapiWakeUp, Mapped, E!WakeUp, Kind, told
  <2> QED
    BY <2>1 DEF E!Next
<1>3. CASE \/ LinuxDrvWakeUp \/ EcosWakeUp \/ VxworksWakeUp \/ Win32WakeUp
           \/ NucleusWakeUp
  <2>1. Mapped' /\ E!WakeUp
    BY <1>1, <1>3
    DEF LinuxDrvWakeUp, EcosWakeUp, VxworksWakeUp, Win32WakeUp, NucleusWakeUp, Mapped,
        E!WakeUp, Kind, told
  <2> QED
    BY <2>1 DEF E!Next
<1>4. CASE GenericWakeUp
  <2>1. Mapped' /\ UNCHANGED <<port, bValid, pending, Asleep, told>>
    BY <1>1, <1>4 DEF GenericWakeUp, Mapped
  <2> QED
    BY <2>1 DEF E!vars, Kind, told
<1> QED
  BY <1>2, <1>3, <1>4 DEF EventWakeUp

\* Every step of the ports is a step of the event, or none that it sees.
LEMMA NextRefines ==
  ASSUME Mapped, [Next]_vars
  PROVE  Mapped' /\ [E!Next]_E!vars
<1>1. ASSUME NEW p, RefusedInit(p) \/ Tick \/ UNCHANGED vars
      PROVE  Mapped' /\ [E!Next]_E!vars
  <2>1. UNCHANGED <<port, bValid, pending, st, out>>
    BY <1>1 DEF RefusedInit, Tick, vars, object
  <2> QED
    BY <2>1 DEF Mapped, E!vars, Kind, Asleep
<1>2. CASE EventInit
  <2>1. (\E p : Opens(p)) \/ (\E p : RefusedInit(p))
    BY <1>2
    DEF EventInit, LinuxApplInit, LinuxDrvInit, EcosInit, VxworksInit, Win32Init,
        NucleusInit, RtemsInit, XapiInit, GenericInit
  <2> QED
    BY <2>1, <1>1, OpensRefines DEF E!Next
<1>3. CASE EventDelete
  <2>1. \E p : Closes(p) /\ (SentBack \/ Nobody)
    BY <1>3
    DEF EventDelete, LinuxApplDelete, LinuxDrvDelete, EcosDelete, VxworksDelete,
        Win32Delete, NucleusDelete, GenericDelete
  <2> QED
    BY <2>1, ClosesRefines DEF E!Next
<1>4. ASSUME NEW w \in Waiters, NEW t \in Times, EventWait(w, t)
      PROVE  Mapped' /\ [E!Next]_E!vars
  BY <1>4, WaitShape, StepRefines
<1> QED
  BY <1>1, <1>2, <1>3, <1>4, WakesUpRefines DEF Next

\* The events of all ports implement the abstract event: wake-ups are kept and taken
\* once, and on the two ports that lose them nothing worse happens.
THEOREM PortsImplementEvent == Spec => EventSpec
<1>1. Init => E!Init
  <2> SUFFICES ASSUME Init PROVE E!Init
    OBVIOUS
  <2>1. Asleep = {} /\ told = [w \in Waiters |-> "none"]
    BY DEF Init, Asleep, told, Nothing
  <2> QED
    BY <2>1 DEF Init, E!Init, E!Kinds, Kind, told
<1> QED
  BY <1>1, InitMapped, NextRefines, PTL DEF Spec, EventSpec, E!Spec

-----------------------------------------------------------------------------
\* The arithmetic of the conversions.
LEMMA Arithmetic ==
  /\ Forever \in Nat /\ Sec \in Nat \ {0} /\ Sec = Hz * TickLen
  /\ \A t \in Nat : /\ MSecToTick(t) \in Nat
                    /\ MSecToTick(t) * TickLen <= t /\ t < MSecToTick(t) * TickLen + TickLen
  /\ \A t \in Nat : /\ t \div Sec \in Nat /\ t % Sec \in 0 .. Sec - 1
                    /\ t = (t \div Sec) * Sec + (t % Sec)
  /\ \A n \in Nat : n * TickLen \in Nat /\ (n + 1) * TickLen = n * TickLen + TickLen
                    /\ (n - 1) * TickLen = n * TickLen - TickLen
  /\ \A n \in Nat : n * Sec \in Nat /\ (n + 1) * Sec = n * Sec + Sec
  /\ \A n \in Nat \ {0} : n * TickLen >= n + TickLen - 1
<1>1. Forever \in Nat /\ TickLen \in Nat \ {0} /\ Hz \in Nat \ {0} /\ Word \in Nat \ {0}
  BY PortTimeAssumption
<1>2. Sec \in Nat \ {0} /\ Sec = Hz * TickLen
  <2>1. ASSUME NEW x \in Nat \ {0}, NEW y \in Nat \ {0} PROVE x * y \in Nat \ {0}
    OBVIOUS
  <2> QED
    BY <1>1, <2>1 DEF Sec
<1>3. ASSUME NEW x \in Nat, NEW y \in Nat \ {0}
      PROVE  /\ x \div y \in Nat /\ x % y \in 0 .. y - 1
             /\ x = (x \div y) * y + (x % y)
  <2>1. x = y * (x \div y) + (x % y) /\ x \div y \in Int /\ x % y \in 0 .. y - 1
    OBVIOUS
  <2>2. x \div y \in Nat
    OBVIOUS
  <2>3. y * (x \div y) = (x \div y) * y
    BY <2>2
  <2> QED
    BY <2>1, <2>2, <2>3
<1>4. ASSUME NEW n \in Nat, NEW y \in Nat \ {0}
      PROVE  /\ n * y \in Nat /\ (n + 1) * y = n * y + y /\ (n - 1) * y = n * y - y
             /\ n # 0 => n * y >= n + y - 1
  <2>1. n * y \in Nat /\ (n + 1) * y = n * y + y /\ (n - 1) * y = n * y - y
    OBVIOUS
  <2>2. ASSUME n # 0 PROVE n * y >= n + y - 1
    <3>1. (n - 1) * (y - 1) >= 0
      BY <2>2
    <3>2. (n - 1) * (y - 1) = n * y - n - y + 1
      OBVIOUS
    <3> QED
      BY <3>1, <3>2, <2>1
  <2> QED
    BY <2>1, <2>2
<1>5. \A t \in Nat : /\ MSecToTick(t) \in Nat
                     /\ MSecToTick(t) * TickLen <= t /\ t < MSecToTick(t) * TickLen + TickLen
  <2> SUFFICES ASSUME NEW t \in Nat
      PROVE /\ MSecToTick(t) \in Nat
            /\ MSecToTick(t) * TickLen <= t /\ t < MSecToTick(t) * TickLen + TickLen
    OBVIOUS
  <2>1. t \div TickLen \in Nat /\ t % TickLen \in 0 .. TickLen - 1
        /\ t = (t \div TickLen) * TickLen + (t % TickLen)
    BY <1>1, <1>3
  <2>2. (t \div TickLen) * TickLen \in Nat
    BY <1>1, <1>4, <2>1
  <2> QED
    BY <1>1, <2>1, <2>2 DEF MSecToTick
<1> QED
  BY <1>1, <1>2, <1>3, <1>4, <1>5

\* The product that fits its integer counts the whole ticks.
LEMMA HzTicksExact ==
  ASSUME NEW t \in Nat, ~HzOverflows(t)
  PROVE  HzTicks(t) = MSecToTick(t)
<1>1. TickLen \in Nat \ {0} /\ Hz \in Nat \ {0} /\ Word \in Nat \ {0}
  BY PortTimeAssumption
<1> DEFINE q == MSecToTick(t)
<1>2. q \in Nat /\ q * TickLen <= t /\ t < q * TickLen + TickLen
  BY Arithmetic
<1>3. Sec \in Nat \ {0} /\ Sec = Hz * TickLen
  BY Arithmetic
<1> HIDE DEF q
<1>4. Hz * (q * TickLen) <= Hz * t /\ Hz * t < Hz * (q * TickLen + TickLen)
  <2>1. ASSUME NEW a \in Nat \ {0}, NEW b \in Nat, NEW c \in Nat, b <= c PROVE a * b <= a * c
    BY <2>1
  <2>2. ASSUME NEW a \in Nat \ {0}, NEW b \in Nat, NEW c \in Nat, b < c PROVE a * b < a * c
    BY <2>2
  <2>3. q * TickLen \in Nat
    BY <1>1, <1>2
  <2> QED
    BY <1>1, <1>2, <2>1, <2>2, <2>3
<1>5. Hz * (q * TickLen) = q * Sec /\ Hz * (q * TickLen + TickLen) = q * Sec + Sec
  BY <1>1, <1>2, <1>3
<1>6. Hz * t \in Nat /\ q * Sec \in Nat
  BY <1>1, <1>2, <1>3
<1>7. ASSUME NEW x \in Nat, NEW y \in Nat \ {0}, NEW p \in Nat, p * y <= x, x < p * y + y
      PROVE  x \div y = p
  BY <1>7
<1>8. (Hz * t) \div Sec = q
  BY <1>2, <1>3, <1>4, <1>5, <1>6, <1>7
<1>9. (Hz * t) % Word = Hz * t
  BY <1>1, <1>6 DEF HzOverflows
<1> QED
  BY <1>8, <1>9 DEF HzTicks, q

\* What is promised of a wait is no more than what it asks for, and the time until which
\* it sleeps keeps the promise.
Kept(t, units) == units = Never \/ (units \in Nat /\ (units >= Promised(t) \/ Overflows(t)))

LEMMA PromisedFacts ==
  ASSUME NEW t \in Nat
  PROVE  Promised(t) \in Int /\ Promised(t) <= t
<1>1. MSecToTick(t) \in Nat /\ MSecToTick(t) * TickLen <= t
  BY Arithmetic
<1>2. MSecToTick(t) * TickLen \in Nat
      /\ (MSecToTick(t) - 1) * TickLen = MSecToTick(t) * TickLen - TickLen
  BY <1>1, Arithmetic
<1> QED
  BY <1>1, <1>2, PortTimeAssumption DEF Promised

LEMMA UnitsKept ==
  ASSUME NEW t \in Times, phase \in 0 .. Period - 1
  PROVE  /\ port = "linux_appl" => Kept(t, UntilDeadline(t))
         /\ port = "linux_drv" => Kept(t, UntilTick(HzTicks(t), phase))
         /\ port \in {"ecos", "nucleus"} => Kept(t, UntilTick(MSecToTick(t), phase))
         /\ port = "vxworks" => Kept(t, UntilTick(HzTicks(t) + 1, phase))
         /\ port = "win32" => Kept(t, Finite(t))
         /\ port \in {"rtems", "xapi"} =>
              Kept(t, IF t = Forever THEN Never ELSE UntilTick(t, phase))
<1>1. t \in Nat /\ TickLen \in Nat \ {0} /\ Sec \in Nat \ {0} /\ phase \in Nat
  BY PortEventAssumption, PortTimeAssumption, Arithmetic DEF Period
<1>2. ASSUME NEW n \in Nat, port # "linux_appl"
      PROVE  /\ UntilTick(n, phase) \in Nat
             /\ UntilTick(n, phase) >= (n - 1) * TickLen
             /\ n # 0 => UntilTick(n, phase) >= n
  <2>1. n * TickLen \in Nat /\ (n - 1) * TickLen = n * TickLen - TickLen
    BY Arithmetic
  <2>2. phase <= TickLen - 1
    BY <1>1, <1>2 DEF Period
  <2>3. CASE n = 0
    BY <2>1, <2>3, <1>1 DEF UntilTick
  <2>4. CASE n # 0
    <3>1. n * TickLen >= n + TickLen - 1
      BY <2>4, Arithmetic
    <3> QED
      BY <2>1, <2>2, <2>4, <3>1, <1>1 DEF UntilTick
  <2> QED
    BY <2>3, <2>4
<1>3. HzTicks(t) \in Nat
  <2>1. ASSUME NEW x \in Nat, NEW y \in Nat \ {0} PROVE x \div y \in Nat /\ x % y \in Nat
    OBVIOUS
  <2>2. Hz * t \in Nat
    BY <1>1, PortTimeAssumption
  <2> QED
    BY <2>1, <2>2, <1>1, PortTimeAssumption DEF HzTicks
<1>4. CASE port = "linux_appl"
  <2>1. phase \in 0 .. Sec - 1
    BY <1>4 DEF Period
  <2>2. t \div Sec \in Nat /\ t % Sec \in 0 .. Sec - 1 /\ t = (t \div Sec) * Sec + (t % Sec)
    BY <1>1, Arithmetic
  <2>3. (t \div Sec) * Sec \in Nat /\ (t \div Sec + 1) * Sec = (t \div Sec) * Sec + Sec
    BY <2>2, Arithmetic
  <2>4. Deadline(t) = phase + t
    BY <1>1, <2>1, <2>2, <2>3 DEF Deadline
  <2>5. t # Forever => UntilDeadline(t) = t
    BY <1>1, <2>4 DEF UntilDeadline
  <2> QED
    BY <1>1, <1>4, <2>5 DEF UntilDeadline, Kept, Promised
<1>5. CASE port = "linux_drv"
  <2>1. ~Overflows(t) => HzTicks(t) = MSecToTick(t)
    BY <1>1, <1>5, HzTicksExact DEF Overflows
  <2> QED
    BY <1>2, <1>3, <1>5, <2>1 DEF Kept, Promised
<1>6. CASE port \in {"ecos", "nucleus"}
  <2>1. MSecToTick(t) \in Nat
    BY <1>1, Arithmetic
  <2> QED
    BY <1>2, <1>6, <2>1 DEF Kept, Promised
<1>7. CASE port = "vxworks"
  <2>1. ~Overflows(t) => HzTicks(t) = MSecToTick(t)
    BY <1>1, <1>7, HzTicksExact DEF Overflows
  <2>2. HzTicks(t) + 1 \in Nat /\ (HzTicks(t) + 1) - 1 = HzTicks(t)
    BY <1>3
  <2>3. UntilTick(HzTicks(t) + 1, phase) \in Nat
        /\ UntilTick(HzTicks(t) + 1, phase) >= HzTicks(t) * TickLen
    BY <1>2, <1>7, <2>2
  <2> QED
    BY <1>7, <2>1, <2>3 DEF Kept, Promised
<1>8. CASE port = "win32"
  BY <1>1, <1>8 DEF Kept, Promised, Finite
<1>9. CASE port \in {"rtems", "xapi"}
  <2>1. UntilTick(t, phase) \in Nat /\ UntilTick(t, phase) >= t
    <3>1. CASE t = 0
      BY <3>1, <1>1 DEF UntilTick
    <3>2. CASE t # 0
      BY <3>2, <1>1, <1>2, <1>9
    <3> QED
      BY <3>1, <3>2
  <2> QED
    BY <1>1, <1>9, <2>1 DEF Kept, Promised
<1> QED
  BY <1>4, <1>5, <1>6, <1>7, <1>8, <1>9

\* A wait with a limit has lasted long enough, or will have when its time runs out; who
\* comes late has seen it run out.
Prompt ==
  \A w \in Waiters :
    /\ port # "generic" /\ st[w] # "idle" /\ left[w] # Never =>
         \/ age[w] >= Promised(ms[w]) \/ Overflows(ms[w])
         \/ age[w] + left[w] >= Promised(ms[w])
    /\ st[w] = "late" => left[w] = 0 /\ port # "generic"

ClocksOK ==
  /\ ms \in [Waiters -> Nat] /\ age \in [Waiters -> Nat]
  /\ left \in [Waiters -> Nat \cup {Never}]
  /\ phase \in 0 .. Period - 1

Timed == Mapped /\ ClocksOK /\ Prompt

\* A failed wait answers with the code of its cause.
Answering(w, code, cause) ==
  IF cause = "timeout"
  THEN (code = 1 <=> ~Untold(ms[w])) /\ left[w] = 0 /\ port # "generic"
  ELSE code = 0

\* What a step of a wait does to its clocks, and what it answers.
Tells(w) ==
  \E result \in {"success", "error"}, code \in {0, 1}, cause \in Causes :
    /\ Leaves(w, result, code, cause)
    /\ result = "error" => Answering(w, code, cause)

Sets(w) ==
  \E t \in Times, units \in Nat \cup {Never} :
    /\ Enters(port, w, t, units)
    /\ port # "generic" => Kept(t, units)

Turns(w) ==
  /\ UNCHANGED <<port, clocks, out>>
  /\ \E place \in Places \ {"idle"} :
       /\ st' = [st EXCEPT ![w] = place]
       /\ place = "late" => left[w] = 0 /\ port # "generic"
  /\ st[w] # "idle"

LEMMA FailsTells ==
  ASSUME NEW w \in Waiters, NEW p, NEW code \in {0, 1}, NEW cause \in Causes,
         Fails(p, w, code, cause), port = p => Answering(w, code, cause)
  PROVE  Tells(w)
BY DEF Fails, Tells

LEMMA SucceedsTells ==
  ASSUME NEW w \in Waiters, Succeeds(w)
  PROVE  Tells(w)
BY DEF Succeeds, Tells, Causes

LEMMA KeptSets ==
  ASSUME NEW w \in Waiters, NEW t \in Times, NEW p, NEW units, Enters(p, w, t, units),
         port = p => Kept(t, units)
  PROVE  Sets(w)
BY DEF Enters, Sets, Kept

LEMMA WaitClocks ==
  ASSUME NEW w \in Waiters, NEW t \in Times, EventWait(w, t), Timed
  PROVE  Tells(w) \/ Sets(w) \/ Turns(w)
<1> USE DEF Causes
<1>1. phase \in 0 .. Period - 1
  BY DEF Timed, ClocksOK
<1>2. ASSUME NEW p, Gets(p, w) PROVE Tells(w)
  BY <1>2, SucceedsTells DEF Gets
<1>e. ASSUME NEW p, NEW code \in {0, 1}, p # "generic", Expires(p, w, code),
             port = p => (code = 1 <=> ~Untold(ms[w]))
      PROVE  Tells(w)
  BY <1>e, FailsTells DEF Expires, Answering
<1>3. ASSUME NEW p \in {"ecos", "vxworks", "rtems", "xapi"}, Expires(p, w, 1) PROVE Tells(w)
  BY <1>3, <1>e DEF Untold
<1>4. ASSUME NEW p \in {"linux_appl", "win32"}, FindsNothing(p, w) PROVE Tells(w)
  BY <1>4, <1>e DEF FindsNothing, Untold
<1>w. ASSUME NEW p \in {"linux_appl", "win32"}, ms[w] # 0, Expires(p, w, 1) PROVE Tells(w)
  BY <1>w, <1>e DEF Untold
<1>5. CASE LinuxApplWait(w, t)
  <2>1. CASE Enters("linux_appl", w, t, UntilDeadline(t))
    BY <2>1, <1>1, UnitsKept, KeptSets
  <2>2. CASE Fails("linux_appl", w, 0, "signal")
    BY <2>2, FailsTells DEF Answering
  <2> QED
    BY <1>2, <1>w, <1>4, <1>5, <2>1, <2>2 DEF LinuxApplWait
<1>6. CASE LinuxDrvWait(w, t)
  <2>1. CASE Enters("linux_drv", w, t, UntilTick(HzTicks(t), phase))
    BY <2>1, <1>1, UnitsKept, KeptSets
  <2>2. CASE /\ port = "linux_drv" /\ st[w] = "asleep"
             /\ \/ st' = [st EXCEPT ![w] = "seen"] /\ pending = 1
                \/ st' = [st EXCEPT ![w] = "signalled"]
                \/ st' = [st EXCEPT ![w] = "late"] /\ pending = 0 /\ left[w] = 0
             /\ UNCHANGED <<port, object, clocks, out>>
    BY <2>2 DEF Turns, Places
  <2>3. CASE st[w] \in {"seen", "signalled"} /\ Succeeds(w)
    BY <2>3, SucceedsTells
  <2>4. CASE port = "linux_drv" /\ st[w] = "late" /\ Leaves(w, "error", 1, "timeout")
    <3>1. CASE left[w] = 0
      BY <2>4, <3>1 DEF Tells, Answering, Untold
    <3> QED
      BY <2>4, <3>1 DEF Timed, Prompt
  <2> QED
    BY <1>6, <2>1, <2>2, <2>3, <2>4 DEF LinuxDrvWait
<1>7. CASE EcosWait(w, t)
  BY <1>1, <1>2, <1>3, <1>7, UnitsKept, KeptSets DEF EcosWait
<1>8. CASE VxworksWait(w, t)
  BY <1>1, <1>2, <1>3, <1>8, UnitsKept, KeptSets DEF VxworksWait
<1>9. CASE Win32Wait(w, t)
  BY <1>1, <1>2, <1>w, <1>4, <1>9, UnitsKept, KeptSets DEF Win32Wait
<1>10. CASE NucleusWait(w, t)
  <2>1. CASE MSecToTick(ms[w]) = 0 /\ Expires("nucleus", w, 0)
    BY <2>1, <1>e DEF Untold
  <2>2. CASE MSecToTick(ms[w]) # 0 /\ Expires("nucleus", w, 1)
    BY <2>2, <1>e DEF Untold
  <2> QED
    BY <1>1, <1>2, <1>10, <2>1, <2>2, UnitsKept, KeptSets DEF NucleusWait
<1>11. ASSUME NEW p \in {"rtems", "xapi"}, XsmWait(p, w, t) PROVE Tells(w) \/ Sets(w)
  BY <1>1, <1>2, <1>3, <1>11, UnitsKept, KeptSets DEF XsmWait
<1>12. CASE GenericWait(w, t)
  BY <1>12, SucceedsTells DEF GenericWait, Sets, Enters
<1> QED
  BY <1>5, <1>6, <1>7, <1>8, <1>9, <1>10, <1>11, <1>12 DEF EventWait, RtemsWait, XapiWait

\* What TimeoutTrue says of one waiter.
Truthful(w) ==
  st[w] # "idle" /\ st'[w] = "idle" /\ out'[w].result = "error"
    => IF out'[w].cause = "timeout"
       THEN /\ out'[w].code = 1 <=> ~Untold(ms[w])
            /\ age[w] >= Promised(ms[w]) \/ Overflows(ms[w])
       ELSE out'[w].code = 0

\* A step of a wait keeps the clocks, and answers truly.
LEMMA ClocksKept ==
  ASSUME Timed, NEW w \in Waiters, Tells(w) \/ Sets(w) \/ Turns(w)
  PROVE  /\ ClocksOK' /\ Prompt'
         /\ \A u \in Waiters : Truthful(u)
<1> USE DEF Timed, ClocksOK, Mapped
<1>1. Times \subseteq Nat
  BY PortEventAssumption, PortTimeAssumption
<1>2. \A n \in Nat : Promised(n) \in Int /\ Promised(n) <= n
  BY PromisedFacts
<1>3. CASE Tells(w)
  <2>1. PICK result \in {"success", "error"}, code \in {0, 1}, cause \in Causes :
          /\ Leaves(w, result, code, cause)
          /\ result = "error" => Answering(w, code, cause)
    BY <1>3 DEF Tells
  <2>2. ClocksOK'
    BY <2>1 DEF Leaves, Period
  <2>3. /\ st'[w] = "idle"
        /\ \A u \in Waiters \ {w} : st'[u] = st[u] /\ left'[u] = left[u]
                                     /\ age'[u] = age[u] /\ ms'[u] = ms[u]
    BY <2>1 DEF Leaves
  <2>4. Prompt'
    BY <2>1, <2>3 DEF Prompt, Promised, Overflows, Leaves
  <2>5. Truthful(w)
    <3>1. out'[w] = [result |-> result, code |-> code, cause |-> cause]
      BY <2>1 DEF Leaves
    <3>2. SUFFICES ASSUME st[w] # "idle", result = "error"
          PROVE  IF cause = "timeout"
                 THEN /\ code = 1 <=> ~Untold(ms[w])
                      /\ age[w] >= Promised(ms[w]) \/ Overflows(ms[w])
                 ELSE code = 0
      BY <3>1 DEF Truthful
    <3>3. CASE cause = "timeout"
      <4>1. /\ left[w] = 0 /\ left[w] # Never /\ port # "generic"
            /\ code = 1 <=> ~Untold(ms[w])
        BY <2>1, <3>2, <3>3, PortTimeAssumption DEF Answering
      <4>2. age[w] >= Promised(ms[w]) \/ Overflows(ms[w]) \/ age[w] + 0 >= Promised(ms[w])
        BY <3>2, <4>1 DEF Prompt
      <4> QED
        BY <1>2, <3>2, <3>3, <4>1, <4>2
    <3> QED
      BY <2>1, <3>2, <3>3 DEF Answering
  <2>6. ASSUME NEW u \in Waiters, u # w PROVE Truthful(u)
    <3>1. st'[u] = st[u]
      BY <2>3, <2>6
    <3> QED
      BY <3>1 DEF Truthful
  <2> QED
    BY <2>2, <2>4, <2>5, <2>6
<1>4. CASE Sets(w)
  <2>1. PICK t \in Times, units \in Nat \cup {Never} :
          /\ Enters(port, w, t, units)
          /\ port # "generic" => Kept(t, units)
    BY <1>4 DEF Sets
  <2>2. ClocksOK'
    BY <1>1, <2>1 DEF Enters, Period
  <2>3. \A u \in Waiters : u # w => st'[u] = st[u] /\ left'[u] = left[u]
                                     /\ age'[u] = age[u] /\ ms'[u] = ms[u]
    BY <2>1 DEF Enters
  <2>4. st[w] = "idle" /\ st'[w] = "asleep" /\ ms'[w] = t /\ age'[w] = 0 /\ left'[w] = units
        /\ port' = port
    BY <2>1 DEF Enters
  <2>5. port # "generic" /\ units # Never => 0 + units >= Promised(t) \/ Overflows(t)
    BY <2>1 DEF Kept
  <2>6. Prompt'
    BY <2>3, <2>4, <2>5 DEF Prompt, Promised, Overflows
  <2> QED
    BY <2>2, <2>3, <2>4, <2>6 DEF Truthful
<1>5. CASE Turns(w)
  <2>1. ClocksOK' /\ UNCHANGED <<port, ms, age, left>>
    BY <1>5 DEF Turns, clocks, Period
  <2>2. \A u \in Waiters :
          /\ st'[u] = "idle" <=> st[u] = "idle"
          /\ st'[u] = "late" => st[u] = "late" \/ (left[u] = 0 /\ port # "generic")
    BY <1>5 DEF Turns
  <2>3. Prompt'
    BY <2>1, <2>2 DEF Prompt, Promised, Overflows
  <2> QED
    BY <2>1, <2>2, <2>3 DEF Truthful
<1> HIDE DEF Timed, ClocksOK, Mapped
<1> QED
  BY <1>3, <1>4, <1>5

\* The clock goes on for those who sleep.
LEMMA TickKept ==
  ASSUME Timed, Tick
  PROVE  ClocksOK' /\ Prompt' /\ \A u \in Waiters : Truthful(u)
<1> USE DEF Timed, ClocksOK
<1>1. Sec \in Nat \ {0} /\ TickLen \in Nat \ {0}
  BY Arithmetic, PortTimeAssumption
<1>2. phase' \in 0 .. Period' - 1
  <2>1. Period \in Nat \ {0} /\ Period' = Period
    BY <1>1 DEF Period, Tick
  <2>2. phase' = (phase + 1) % Period
    BY DEF Tick
  <2> HIDE DEF Period
  <2> QED
    BY <2>1, <2>2
<1>3. ms' \in [Waiters -> Nat] /\ age' \in [Waiters -> Nat]
  BY DEF Tick
<1>4. left' \in [Waiters -> Nat \cup {Never}]
  <2>1. ASSUME NEW w \in Waiters, left[w] \notin {0, Never} PROVE left[w] - 1 \in Nat
    BY <2>1
  <2> QED
    BY <2>1 DEF Tick
<1>5. Prompt'
  <2> SUFFICES ASSUME NEW w \in Waiters
      PROVE /\ port' # "generic" /\ st'[w] # "idle" /\ left'[w] # Never =>
                 \/ age'[w] >= Promised(ms[w]) \/ Overflows(ms[w])
                 \/ age'[w] + left'[w] >= Promised(ms[w])
            /\ st'[w] = "late" => left'[w] = 0 /\ port' # "generic"
    BY DEF Prompt, Promised, Overflows, Tick
  <2>1. UNCHANGED <<port, st>>
    BY DEF Tick
  <2>2. /\ left'[w] = (IF st[w] = "asleep" /\ left[w] \notin {0, Never}
                       THEN left[w] - 1 ELSE left[w])
        /\ age'[w] = (IF st[w] = "asleep" /\ left[w] # Never /\ age[w] < ms[w]
                      THEN age[w] + 1 ELSE age[w])
    BY DEF Tick
  <2>3. Promised(ms[w]) \in Int /\ Promised(ms[w]) <= ms[w]
    BY PromisedFacts
  <2>4. st'[w] = "late" => left'[w] = 0 /\ port' # "generic"
    BY <2>1, <2>2, PortTimeAssumption DEF Prompt
  <2>5. ASSUME port # "generic", st[w] # "idle", left'[w] # Never
        PROVE  \/ age'[w] >= Promised(ms[w]) \/ Overflows(ms[w])
               \/ age'[w] + left'[w] >= Promised(ms[w])
    <3>1. left[w] # Never /\ left[w] \in Nat
      BY <2>2, <2>5
    <3>2. \/ age[w] >= Promised(ms[w]) \/ Overflows(ms[w])
          \/ age[w] + left[w] >= Promised(ms[w])
      BY <2>5, <3>1 DEF Prompt
    <3>3. age[w] \in Nat /\ ms[w] \in Nat
      OBVIOUS
    <3>4. CASE st[w] = "asleep"
      BY <2>2, <2>3, <3>1, <3>2, <3>3, <3>4
    <3>5. CASE st[w] # "asleep"
      BY <2>2, <3>2, <3>5
    <3> QED
      BY <3>4, <3>5
  <2> QED
    BY <2>1, <2>4, <2>5
<1>6. \A u \in Waiters : Truthful(u)
  BY DEF Tick, Truthful
<1> QED
  BY <1>2, <1>3, <1>4, <1>5, <1>6

\* The event is opened, closed and woken up.
LEMMA OwnerKept ==
  ASSUME Timed, EventInit \/ EventDelete \/ EventWakeUp \/ UNCHANGED vars
  PROVE  ClocksOK' /\ Prompt' /\ \A u \in Waiters : Truthful(u)
<1>1. ASSUME UNCHANGED <<port, clocks, st, out>>
      PROVE  ClocksOK' /\ Prompt' /\ \A u \in Waiters : Truthful(u)
  BY <1>1
  DEF clocks, Timed, ClocksOK, Period, Prompt, Promised, Overflows, Untold, Truthful
<1>2. CASE EventInit \/ EventWakeUp \/ UNCHANGED vars
  <2>1. UNCHANGED <<port, clocks, st, out>>
    BY <1>2
    DEF vars, EventInit, LinuxApplInit, LinuxDrvInit, EcosInit, VxworksInit, Win32Init,
        NucleusInit, RtemsInit, XapiInit, GenericInit, Opens, RefusedInit, EventWakeUp,
        LinuxApplWakeUp, LinuxDrvWakeUp, EcosWakeUp, VxworksWakeUp, Win32WakeUp,
        NucleusWakeUp, RtemsWakeUp, XapiWakeUp, GenericWakeUp, WakesUp
  <2> QED
    BY <1>1, <2>1
<1>3. CASE EventDelete
  <2>1. \E p : Closes(p) /\ (SentBack \/ Nobody)
    BY <1>3
    DEF EventDelete, LinuxApplDelete, LinuxDrvDelete, EcosDelete, VxworksDelete,
        Win32Delete, NucleusDelete, GenericDelete
  <2>2. /\ UNCHANGED <<port, phase>>
        /\ ms' = [w \in Waiters |-> 0] /\ left' = [w \in Waiters |-> 0]
        /\ age' = [w \in Waiters |-> 0]
    BY <2>1 DEF Closes
  <2>3. \A w \in Waiters : st'[w] = "idle"
    BY <2>1 DEF SentBack, Nobody, Asleep
  <2>4. ClocksOK'
    BY <2>2 DEF Timed, ClocksOK, Period
  <2>5. \A u \in Waiters : st[u] # "idle" =>
          out'[u] = [result |-> "error", code |-> 0, cause |-> "deleted"]
    BY <2>1 DEF SentBack, Nobody, Asleep
  <2> QED
    BY <2>3, <2>4, <2>5 DEF Prompt, Truthful
<1> QED
  BY <1>2, <1>3

\* Every step keeps what is known of the clocks, and answers truly.
LEMMA TimedStep ==
  ASSUME Timed, [Next]_vars
  PROVE  Timed' /\ \A u \in Waiters : Truthful(u)
<1>1. Mapped'
  BY NextRefines DEF Timed
<1>2. ASSUME NEW w \in Waiters, NEW t \in Times, EventWait(w, t)
      PROVE  ClocksOK' /\ Prompt' /\ \A u \in Waiters : Truthful(u)
  BY <1>2, WaitClocks, ClocksKept
<1> QED
  BY <1>1, <1>2, TickKept, OwnerKept DEF Timed, Next

LEMMA InitTimed == Init => Timed
<1> SUFFICES ASSUME Init PROVE Timed
  OBVIOUS
<1>1. ClocksOK
  BY Arithmetic, PortTimeAssumption DEF Init, ClocksOK, Period
<1> QED
  BY <1>1, InitMapped DEF Init, Timed, Prompt

\* A wait says that its time has run out when it has, but for three ports' waits that had
\* none, and for no other cause: on every port, for any times, rates and lengths of a tick,
\* up to the tick that the ports miss and the products that overflow.
THEOREM EventTimeouts == Spec => TimeoutTrue
<1>1. Timed /\ [Next]_vars => [\A w \in Waiters :
         st[w] # "idle" /\ st'[w] = "idle" /\ out'[w].result = "error"
           => IF out'[w].cause = "timeout"
              THEN /\ out'[w].code = 1 <=> ~Untold(ms[w])
                   /\ age[w] >= Promised(ms[w]) \/ Overflows(ms[w])
              ELSE out'[w].code = 0]_vars
  BY TimedStep DEF Truthful
<1>2. Timed /\ [Next]_vars => Timed'
  BY TimedStep
<1> QED
  BY <1>1, <1>2, InitTimed, PTL DEF Spec, TimeoutTrue

-----------------------------------------------------------------------------
\* The object of an event has its type.
ObjectOK ==
  /\ port \in Ports /\ bValid \in BOOLEAN /\ pending \in Nat /\ gSemId \in 0 .. SemIds

LEMMA ObjectStep == ObjectOK /\ [Next]_vars => ObjectOK'
<1> SUFFICES ASSUME ObjectOK, [Next]_vars PROVE ObjectOK'
  OBVIOUS
<1> USE DEF ObjectOK
<1>1. CASE EventInit
  <2>1. (\E p : Opens(p)) \/ (\E p : RefusedInit(p))
    BY <1>1
    DEF EventInit, LinuxApplInit, LinuxDrvInit, EcosInit, VxworksInit, Win32Init,
        NucleusInit, RtemsInit, XapiInit, GenericInit
  <2>2. port' = port /\ pending' \in Nat
    BY <2>1 DEF Opens, RefusedInit
  <2>3. bValid' = TRUE \/ bValid' = bValid
    BY <2>1 DEF Opens, RefusedInit
  <2>4. gSemId' = gSemId \/ (gSemId < SemIds /\ gSemId' = gSemId + 1)
    BY <1>1
    DEF EventInit, LinuxApplInit, LinuxDrvInit, EcosInit, VxworksInit, Win32Init,
        NucleusInit, RtemsInit, XapiInit, GenericInit, RefusedInit, CountsCall
  <2>5. gSemId' \in 0 .. SemIds
    BY <2>4, PortEventAssumption
  <2> QED
    BY <2>2, <2>3, <2>5
<1>2. CASE EventDelete
  <2>1. \E p : Closes(p)
    BY <1>2
    DEF EventDelete, LinuxApplDelete, LinuxDrvDelete, EcosDelete, VxworksDelete,
        Win32Delete, NucleusDelete, GenericDelete
  <2>2. UNCHANGED <<port, gSemId>> /\ bValid' = FALSE /\ pending' = 0
    BY <2>1 DEF Closes
  <2> QED
    BY <2>2
<1>3. CASE EventWakeUp
  BY <1>3
  DEF EventWakeUp, LinuxApplWakeUp, LinuxDrvWakeUp, EcosWakeUp, VxworksWakeUp,
      Win32WakeUp, NucleusWakeUp, RtemsWakeUp, XapiWakeUp, GenericWakeUp, WakesUp
<1>4. ASSUME NEW w \in Waiters, NEW t \in Times, EventWait(w, t) PROVE ObjectOK'
  <2>1. Step(w)
    BY <1>4, WaitShape
  <2> QED
    BY <2>1 DEF Step, Enter, Turn, Answer, object
<1>5. CASE Tick \/ UNCHANGED vars
  BY <1>5 DEF Tick, vars, object
<1> QED
  BY <1>1, <1>2, <1>3, <1>4, <1>5 DEF Next

\* The types hold on every port for any times: no wait is left with a negative time.
THEOREM EventTypes == Spec => []TypeOK
<1>1. Init => ObjectOK
  <2> SUFFICES ASSUME Init PROVE ObjectOK
    OBVIOUS
  <2>1. 0 \in 0 .. SemIds
    BY PortEventAssumption
  <2>2. bValid \in BOOLEAN /\ port \in Ports /\ pending = 0 /\ gSemId = 0
    BY DEF Init
  <2> QED
    BY <2>1, <2>2 DEF ObjectOK
<1>2. ObjectOK /\ Timed => TypeOK
  BY DEF ObjectOK, Timed, ClocksOK, Mapped, TypeOK
<1>3. Timed /\ [Next]_vars => Timed'
  BY TimedStep
<1> QED
  BY <1>1, <1>2, <1>3, InitTimed, ObjectStep, PTL DEF Spec
=============================================================================
