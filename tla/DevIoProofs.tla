----------------------------- MODULE DevIoProofs -----------------------------
(***************************************************************************)
(* What DevIo guarantees for tables of any length and any number of threads,  *)
(* drivers and devices: of the life of a priv, no second close whatever the   *)
(* application does; of the slots of the drivers, what there is until         *)
(* installs meet; of what callbacks are given and of what may get lost, what  *)
(* a careful application is guaranteed until then.  Three invariants build on *)
(* each other: IInv says who may close a priv, Install that the tables are    *)
(* reset before anything is in them, and Route that what is in use leads to   *)
(* the driver that it came from.                                              *)
(***************************************************************************)
EXTENDS DevIo, FiniteSetTheorems, TLAPS

(* ClosedOnce counts the keepers of a priv; its inductive form says that they *)
(* exclude each other, that a closed priv has none, and that no priv is kept  *)
(* before an open returned it.                                                *)

InHand(p) == pc[p] \in {"binding", "closing"}

OneKeeper ==
  /\ \A f, g \in Open : fd[f].priv = fd[g].priv => f = g
  /\ \A p, q \in Procs :
       InHand(p) /\ InHand(q) /\ local[p].priv = local[q].priv => p = q
  /\ \A f \in Open, p \in Procs : InHand(p) => fd[f].priv # local[p].priv

Unkept(i) ==
  /\ \A f \in Open : fd[f].priv # i
  /\ \A p \in Procs : InHand(p) => local[p].priv # i

ClosedIsGone == \A i \in Privs : closes[i] = 0 \/ (closes[i] = 1 /\ Unkept(i))

KeptIsOpened ==
  /\ \A f \in Open : fd[f].priv <= Len(opened)
  /\ \A p \in Procs : InHand(p) => local[p].priv \in 1 .. Len(opened)
  /\ \A i \in Privs : i > Len(opened) => closes[i] = 0

\* A call to a driver's open has found an entry and a driver.
Finding ==
  \A p \in Procs : pc[p] = "opening" => local[p].foo \in Drivers /\ local[p].entry \in Entries

Closing == OneKeeper /\ ClosedIsGone /\ KeptIsOpened
IInv == TypeOK /\ Finding /\ Closing

\* The sets of the constants.
LEMMA Ranges ==
  /\ Slots \subseteq Nat /\ Entries \subseteq Nat /\ Privs \subseteq Nat \ {0}
  /\ 0 \in Slots /\ 0 \in Entries
  /\ Drivers \cup {None} # {}
  /\ MaxPrivs \in Nat
BY DevIoAssumption DEF Slots, Entries, Privs

\* The invariant holds before the first installation.
LEMMA InitInvariant == Init => IInv
<1> SUFFICES ASSUME Init PROVE IInv
  OBVIOUS
<1>1. TypeOK
  <2>1. device \in [Entries -> [in_use : BOOLEAN, device : Devices \cup {None},
                             name : Names \cup {<<>>}, driver_number : Slots]]
    BY Ranges DEF Init, Unused
  <2>2. fd \in [Fds -> [device_number : {-1} \cup Entries, priv : {0} \cup Privs]]
    BY Ranges DEF Init
  <2>3. driver \in [Slots -> Drivers \cup {None}] /\ number \in [Drivers -> {-1} \cup Slots]
    BY DEF Init
  <2>4. present \in [Devices -> 0 .. MaxTimes] /\ closes \in [Privs -> Nat]
    BY DevIoAssumption DEF Init
  <2>5. local \in [Procs -> [foo : Drivers \cup {None}, entry : {-1} \cup Entries,
                          priv : {0} \cup Privs]]
    BY DEF Init, NoLocal
  <2>6. pc \in [Procs -> {"idle", "marking", "resetting", "installing",
                       "opening", "binding", "closing", "calling"}]
    BY DEF Init
  <2>7. opened \in Seq([driver : Drivers, device : Devices \cup {None}]) /\ Len(opened) <= MaxPrivs
    BY Ranges DEF Init
  <2> QED
    BY <2>1, <2>2, <2>3, <2>4, <2>5, <2>6, <2>7, DevIoAssumption DEF Init, TypeOK
<1>2. \A p \in Procs : pc[p] = "idle"
  BY DEF Init
<1>3. Open = {}
  BY DEF Init, Open
<1>4. \A i \in Privs : closes[i] = 0
  BY DEF Init
<1> QED
  BY <1>1, <1>2, <1>3, <1>4 DEF IInv, Finding, Closing, OneKeeper, ClosedIsGone, KeptIsOpened, InHand

\* Steps that only move threads that have no priv in hand, and to places where
\* they have none, leave the keepers of every priv as they are.
LEMMA Bystander ==
  ASSUME IInv, UNCHANGED <<fd, opened, closes>>,
         \A p \in Procs : InHand(p)' => InHand(p) /\ local'[p].priv = local[p].priv
  PROVE  Closing'
<1>1. Open' = Open
  BY DEF Open
<1>2. OneKeeper'
  BY <1>1 DEF IInv, Closing, OneKeeper
<1>3. ClosedIsGone'
  BY <1>1 DEF IInv, Closing, ClosedIsGone, Unkept
<1>4. KeptIsOpened'
  BY <1>1 DEF IInv, Closing, KeptIsOpened
<1> QED
  BY <1>2, <1>3, <1>4 DEF Closing

Locals == [foo : Drivers \cup {None}, entry : {-1} \cup Entries, priv : {0} \cup Privs]
Places == {"idle", "marking", "resetting", "installing",
           "opening", "binding", "closing", "calling"}

\* A thread that moves keeps the types of its place and its variables.
LEMMA MoveType ==
  ASSUME IInv, NEW p \in Procs, NEW place \in Places, NEW values \in Locals,
         Goto(p, place), Remember(p, values)
  PROVE  /\ pc' \in [Procs -> Places] /\ local' \in [Procs -> Locals]
         /\ pc'[p] = place /\ local'[p] = values
         /\ \A q \in Procs \ {p} : pc'[q] = pc[q] /\ local'[q] = local[q]
BY DEF IInv, TypeOK, Goto, Remember, Places, Locals

LEMMA GotoType ==
  ASSUME IInv, NEW p \in Procs, NEW place \in Places, Goto(p, place)
  PROVE  /\ pc' \in [Procs -> Places] /\ pc'[p] = place
         /\ \A q \in Procs \ {p} : pc'[q] = pc[q]
BY DEF IInv, TypeOK, Goto, Places

LEMMA NoLocalType == NoLocal \in Locals
BY DEF NoLocal, Locals

\* The steps of an installation, of which InstallReset closes every descriptor.
LEMMA InstallInvariant ==
  ASSUME IInv, NEW p \in Procs, Installing(p) PROVE IInv'
<1>1. ASSUME NEW d \in Drivers, InstallFirst(p, d) PROVE IInv'
  <2> DEFINE values == [NoLocal EXCEPT !.foo = d]
             place == IF first THEN "installing" ELSE "marking"
  <2>1. values \in Locals /\ place \in Places
    BY DEF NoLocal, Locals, Places
  <2>2. Goto(p, place) /\ Remember(p, values) /\ pc[p] = "idle"
        /\ raced' \in BOOLEAN
        /\ UNCHANGED <<threadLock, first, driver, device, fd, number, present, opened, closes>>
    BY <1>1 DEF InstallFirst, IInv, TypeOK, tables, history, races
  <2> HIDE DEF values
  <2>3. TypeOK'
    BY <2>1, <2>2, MoveType DEF IInv, TypeOK, Places, Locals
  <2>4. Finding'
    BY <2>1, <2>2, MoveType DEF IInv, Finding
  <2>5. Closing'
    BY <2>1, <2>2, MoveType, Bystander DEF InHand
  <2> QED
    BY <2>3, <2>4, <2>5 DEF IInv
<1>2. CASE InstallMark(p)
  <2>1. Goto(p, "resetting") /\ pc[p] = "marking" /\ first' = TRUE
        /\ UNCHANGED <<threadLock, raced, driver, device, fd, number, present, opened, closes, local>>
    BY <1>2 DEF InstallMark, tables, history, races
  <2>2. "resetting" \in Places
    BY DEF Places
  <2>3. TypeOK'
    BY <2>1, <2>2, GotoType DEF IInv, TypeOK, Places
  <2>4. Finding'
    BY <2>1, <2>2, GotoType DEF IInv, Finding
  <2>5. Closing'
    BY <2>1, <2>2, GotoType, Bystander DEF InHand
  <2> QED
    BY <2>3, <2>4, <2>5 DEF IInv
<1>3. CASE InstallReset(p)
  <2>1. Goto(p, "installing") /\ pc[p] = "resetting" /\ Reset
        /\ UNCHANGED <<threadLock, raced, first, device, number, present, opened, closes, local>>
    BY <1>3 DEF InstallReset, history, races
  <2>2. "installing" \in Places
    BY DEF Places
  <2>3. driver' \in [Slots -> Drivers \cup {None}]
        /\ fd' \in [Fds -> [device_number : {-1} \cup Entries, priv : {0} \cup Privs]]
        /\ \A f \in Fds : fd'[f].device_number = -1
    BY <2>1 DEF Reset, IInv, TypeOK
  <2>4. TypeOK'
    BY <2>1, <2>2, <2>3, GotoType DEF IInv, TypeOK, Places
  <2>5. Finding'
    BY <2>1, <2>2, GotoType DEF IInv, Finding
  <2>6. Open' = {}
    BY <2>3 DEF Open
  <2>7. \A q \in Procs : InHand(q)' => InHand(q) /\ local'[q] = local[q]
    BY <2>1, <2>2, GotoType DEF InHand
  <2>8. Closing'
    BY <2>1, <2>6, <2>7 DEF IInv, Closing, OneKeeper, ClosedIsGone, Unkept, KeptIsOpened
  <2> QED
    BY <2>4, <2>5, <2>8 DEF IInv
<1>4. CASE InstallSlot(p)
  <2>1. Goto(p, "idle") /\ Remember(p, NoLocal) /\ pc[p] = "installing"
        /\ UNCHANGED <<threadLock, raced, first, device, fd, present, opened, closes>>
    BY <1>4 DEF InstallSlot, Return, races
  <2>2. "idle" \in Places /\ NoLocal \in Locals
    BY NoLocalType DEF Places
  <2>3. local[p].foo \in Drivers \cup {None}
    BY DEF IInv, TypeOK
  <2>4. driver' \in [Slots -> Drivers \cup {None}] /\ number' \in [Drivers -> {-1} \cup Slots]
    BY <1>4, <2>3 DEF InstallSlot, IInv, TypeOK
  <2>5. TypeOK'
    BY <2>1, <2>2, <2>4, MoveType DEF IInv, TypeOK, Places, Locals
  <2>6. Finding'
    BY <2>1, <2>2, MoveType DEF IInv, Finding
  <2>7. Closing'
    BY <2>1, <2>2, MoveType, Bystander DEF InHand
  <2> QED
    BY <2>5, <2>6, <2>7 DEF IInv
<1> QED
  BY <1>1, <1>2, <1>3, <1>4 DEF Installing

\* What the application adds and takes away leaves threads and descriptors alone.
LEMMA TablesInvariant ==
  ASSUME IInv,
         \/ \E d \in Drivers : DriverRemove(d)
         \/ \E v \in Devices : DeviceDelete(v) \/ \E name \in Names : DeviceAdd(v, name)
  PROVE  IInv'
<1>1. UNCHANGED <<threadLock, raced, first, fd, opened, closes, pc, local>>
  BY DEF DriverRemove, DeviceDelete, DeviceAdd, races
<1>2. Closing'
  BY <1>1, Bystander DEF InHand
<1>3. Finding'
  BY <1>1 DEF IInv, Finding
<1>4. ASSUME NEW d \in Drivers, DriverRemove(d) PROVE TypeOK'
  BY <1>1, <1>4 DEF DriverRemove, IInv, TypeOK
<1>5. ASSUME NEW v \in Devices, DeviceDelete(v) PROVE TypeOK'
  <2> DEFINE gone == [Unused EXCEPT !.device = v]
  <2>1. present' \in [Devices -> 0 .. MaxTimes]
    BY <1>5, DevIoAssumption DEF DeviceDelete, IInv, TypeOK
  <2>2. gone \in [in_use : BOOLEAN, device : Devices \cup {None},
                  name : Names \cup {<<>>}, driver_number : Slots]
    BY Ranges DEF Unused
  <2>3. PICK e \in Entries : device' = [device EXCEPT ![e] = gone]
    BY <1>5 DEF DeviceDelete
  <2> HIDE DEF gone
  <2>4. device' \in [Entries -> [in_use : BOOLEAN, device : Devices \cup {None},
                                 name : Names \cup {<<>>}, driver_number : Slots]]
    BY <2>2, <2>3 DEF IInv, TypeOK
  <2> QED
    BY <1>1, <1>5, <2>1, <2>4 DEF DeviceDelete, IInv, TypeOK
<1>6. ASSUME NEW v \in Devices, NEW name \in Names, DeviceAdd(v, name) PROVE TypeOK'
  <2>1. present' \in [Devices -> 0 .. MaxTimes]
    BY <1>6, DevIoAssumption DEF DeviceAdd, IInv, TypeOK
  <2>2. Driver[v] \in Drivers
    BY DevIoAssumption
  <2>3. number[Driver[v]] \in Slots
    BY <1>6, <2>2 DEF DeviceAdd, IInv, TypeOK
  <2>4. device' \in [Entries -> [in_use : BOOLEAN, device : Devices \cup {None},
                                 name : Names \cup {<<>>}, driver_number : Slots]]
    BY <1>6, <2>3 DEF DeviceAdd, IInv, TypeOK
  <2> QED
    BY <1>1, <1>6, <2>1, <2>4 DEF DeviceAdd, IInv, TypeOK
<1> QED
  BY <1>2, <1>3, <1>4, <1>5, <1>6 DEF IInv

\* The steps of a thread that has no priv in hand and gets none: the search of an
\* open, a failed open, and a call through a descriptor.
LEMMA LookInvariant ==
  ASSUME IInv, NEW p \in Procs,
         \/ \E name \in Requests : OpenFind(p, name)
         \/ OpenFails(p) \/ CallDone(p) \/ \E f \in Fds : CallLook(p, f)
  PROVE  IInv'
<1>1. UNCHANGED <<threadLock, raced, first, driver, device, fd, number, present, opened, closes>>
  BY DEF OpenFind, OpenFails, CallDone, CallLook, tables, history, races
<1> DEFINE Moved(place, values) ==
      /\ Goto(p, place) /\ Remember(p, values) /\ place \in Places /\ values \in Locals
      /\ ~InHand(p) /\ place \notin {"binding", "closing"}
      /\ place = "opening" => values.foo \in Drivers /\ values.entry \in Entries
<1>2. ASSUME NEW place, NEW values, Moved(place, values) PROVE IInv'
  <2>1. TypeOK'
    BY <1>1, <1>2, MoveType DEF IInv, TypeOK, Places, Locals
  <2>2. Finding'
    BY <1>2, MoveType DEF IInv, Finding
  <2>3. Closing'
    BY <1>1, <1>2, MoveType, Bystander DEF InHand
  <2> QED
    BY <2>1, <2>2, <2>3 DEF IInv
<1>3. ASSUME NEW name \in Requests, OpenFind(p, name) PROVE \E place, values : Moved(place, values)
  <2>1. PICK e \in Entries :
          /\ Found(name, e)
          /\ Remember(p, [foo |-> driver[device[e].driver_number], entry |-> e, priv |-> 0])
    BY <1>3 DEF OpenFind
  <2>2. driver[device[e].driver_number] \in Drivers
    BY <2>1 DEF Found, Matches, IInv, TypeOK
  <2>3. Moved("opening", [foo |-> driver[device[e].driver_number], entry |-> e, priv |-> 0])
    BY <1>3, <2>1, <2>2 DEF OpenFind, InHand, Places, Locals
  <2> QED
    BY <2>3
<1>4. ASSUME OpenFails(p) \/ CallDone(p) PROVE Moved("idle", NoLocal)
  BY <1>4, NoLocalType DEF OpenFails, CallDone, Return, InHand, Places
<1>5. ASSUME NEW f \in Fds, CallLook(p, f) PROVE Moved("calling", Through(f, FALSE))
  <2>1. Through(f, FALSE) \in Locals
    <3>1. fd[f].device_number \in Entries /\ fd[f].priv \in {0} \cup Privs
      BY <1>5 DEF CallLook, Open, IInv, TypeOK
    <3>2. Leads(f) \in Drivers \cup {None}
      BY <3>1 DEF Leads, IInv, TypeOK
    <3> QED
      BY <3>1, <3>2 DEF Through, Locals
  <2> QED
    BY <1>5, <2>1 DEF CallLook, InHand, Places
<1> QED
  BY <1>2, <1>3, <1>4, <1>5

\* An open that returned has a new priv in hand, which nobody else can have.
LEMMA OpenCallInvariant ==
  ASSUME IInv, NEW p \in Procs, OpenCall(p) PROVE IInv'
<1> DEFINE new == Len(opened) + 1
           values == [local[p] EXCEPT !.priv = new]
<1>1. /\ local[p].foo \in Drivers /\ local[p].entry \in Entries /\ local[p] \in Locals
      /\ Len(opened) \in Nat /\ new \in Privs
  BY Ranges DEF OpenCall, IInv, Finding, TypeOK, Locals, Privs
<1>2. values \in Locals /\ values.priv = new
  BY <1>1 DEF Locals
<1>3. /\ Goto(p, "binding") /\ Remember(p, values) /\ pc[p] = "opening" /\ "binding" \in Places
      /\ UNCHANGED <<threadLock, raced, first, driver, device, fd, number, present, closes>>
  BY DEF OpenCall, tables, Places, races
<1> HIDE DEF values
<1>4. Len(opened') = new /\ opened' \in Seq([driver : Drivers, device : Devices \cup {None}])
  <2>1. device[local[p].entry].device \in Devices \cup {None}
    BY <1>1 DEF IInv, TypeOK
  <2> QED
    BY <1>1, <2>1 DEF OpenCall, IInv, TypeOK
<1>5. TypeOK'
  BY <1>1, <1>2, <1>3, <1>4, MoveType DEF IInv, TypeOK, Places, Locals, Privs
<1>6. Finding'
  BY <1>2, <1>3, MoveType DEF IInv, Finding
<1>7. Open' = Open /\ \A f \in Open : fd[f].priv \in Nat /\ fd[f].priv < new
  <2>1. Open' = Open
    BY <1>3 DEF Open
  <2>2. \A f \in Open : f \in Fds /\ fd[f].priv \in {0} \cup Privs
    BY DEF Open, IInv, TypeOK
  <2>3. \A f \in Open : fd[f].priv <= Len(opened)
    BY DEF IInv, Closing, KeptIsOpened
  <2> QED
    BY <1>1, <2>1, <2>2, <2>3 DEF Privs
<1>8. \A q \in Procs : InHand(q)' =>
        IF q = p THEN local'[q].priv = new
        ELSE InHand(q) /\ local'[q] = local[q] /\ local[q].priv \in 1 .. Len(opened)
  BY <1>2, <1>3, MoveType DEF InHand, IInv, Closing, KeptIsOpened
<1>9. OneKeeper'
  BY <1>1, <1>3, <1>7, <1>8 DEF IInv, Closing, OneKeeper
<1>10. ClosedIsGone'
  <2>1. closes[new] = 0
    BY <1>1 DEF IInv, Closing, KeptIsOpened
  <2> QED
    BY <1>3, <1>7, <1>8, <2>1 DEF IInv, Closing, ClosedIsGone, Unkept
<1>11. KeptIsOpened'
  BY <1>1, <1>3, <1>4, <1>7, <1>8, Ranges DEF IInv, Closing, KeptIsOpened
<1> QED
  BY <1>5, <1>6, <1>9, <1>10, <1>11 DEF IInv, Closing

\* The priv in hand moves into a descriptor, or is lost.
LEMMA OpenBindInvariant ==
  ASSUME IInv, NEW p \in Procs, OpenBind(p) PROVE IInv'
<1>1. /\ Goto(p, "idle") /\ Remember(p, NoLocal) /\ "idle" \in Places /\ NoLocal \in Locals
      /\ InHand(p) /\ UNCHANGED <<threadLock, raced, first, driver, device, number, present, opened, closes>>
  BY NoLocalType DEF OpenBind, Return, history, Places, InHand, races
<1>2. \A q \in Procs : InHand(q)' => q # p /\ InHand(q) /\ local'[q] = local[q]
  BY <1>1, MoveType DEF InHand
<1>3. ASSUME fd' \in [Fds -> [device_number : {-1} \cup Entries, priv : {0} \cup Privs]]
      PROVE  TypeOK' /\ Finding'
  <2>1. TypeOK'
    BY <1>1, <1>3, MoveType DEF IInv, TypeOK, Places, Locals
  <2>2. Finding'
    BY <1>1, MoveType DEF IInv, Finding
  <2> QED
    BY <2>1, <2>2
<1>4. CASE UNCHANGED fd
  <2>1. TypeOK' /\ Finding'
    BY <1>3, <1>4 DEF IInv, TypeOK
  <2>2. Closing'
    BY <1>1, <1>2, <1>4, Bystander
  <2> QED
    BY <2>1, <2>2 DEF IInv
<1>5. ASSUME NEW f \in FreeFds,
             fd' = [fd EXCEPT ![f] = [device_number |-> local[p].entry, priv |-> local[p].priv]]
      PROVE  IInv'
  <2> DEFINE i == local[p].priv
             bound == [device_number |-> local[p].entry, priv |-> i]
  <2>1. bound \in [device_number : {-1} \cup Entries, priv : {0} \cup Privs]
    BY DEF IInv, TypeOK
  <2>2. f \in Fds /\ fd'[f].priv = i /\ \A g \in Fds \ {f} : fd'[g] = fd[g]
    BY <1>5 DEF FreeFds, IInv, TypeOK
  <2>3. fd' \in [Fds -> [device_number : {-1} \cup Entries, priv : {0} \cup Privs]]
    BY <1>5, <2>1, <2>2 DEF IInv, TypeOK
  <2>4. TypeOK' /\ Finding'
    BY <1>3, <2>3
  <2>5. \A g \in Open' : g = f \/ (g \in Open /\ fd'[g].priv = fd[g].priv)
    BY <2>2 DEF Open
  <2> HIDE DEF i, bound
  <2>6. /\ \A q \in Procs : InHand(q) /\ q # p => local[q].priv # i
        /\ \A g \in Open : fd[g].priv # i
        /\ i \in 1 .. Len(opened)
    BY <1>1 DEF IInv, Closing, OneKeeper, KeptIsOpened, i
  <2>7. OneKeeper'
    BY <1>2, <2>2, <2>5, <2>6 DEF IInv, Closing, OneKeeper
  <2>8. ClosedIsGone'
    <3>1. \A j \in Privs : Unkept(j) => j # i
      BY <1>1 DEF Unkept, i
    <3>2. \A j \in Privs : Unkept(j) => Unkept(j)'
      BY <1>2, <2>2, <2>5, <3>1 DEF Unkept
    <3> QED
      BY <1>1, <3>2 DEF IInv, Closing, ClosedIsGone
  <2>9. KeptIsOpened'
    <3>1. i <= Len(opened)
      BY <2>6 DEF IInv, TypeOK
    <3> QED
      BY <1>1, <1>2, <2>2, <2>5, <3>1 DEF IInv, Closing, KeptIsOpened
  <2> QED
    BY <2>4, <2>7, <2>8, <2>9 DEF IInv, Closing
<1>6. (UNCHANGED fd) \/ \E f \in FreeFds :
        fd' = [fd EXCEPT ![f] = [device_number |-> local[p].entry, priv |-> local[p].priv]]
  BY DEF OpenBind, Least
<1> QED
  BY <1>4, <1>5, <1>6

\* The priv of a descriptor that is cleared is dropped, or is in the hand of the
\* thread that cleared it and of nobody else.
LEMMA CloseClearInvariant ==
  ASSUME IInv, NEW p \in Procs, NEW f \in Fds, CloseClear(p, f) PROVE IInv'
<1> DEFINE i == fd[f].priv
           values == Through(f, TRUE)
<1>1. /\ f \in Open /\ pc[p] = "idle" /\ fd' = [fd EXCEPT ![f] = Closed]
      /\ UNCHANGED <<threadLock, raced, first, driver, device, number, present, opened, closes>>
  BY DEF CloseClear, history, races
<1>2. fd' \in [Fds -> [device_number : {-1} \cup Entries, priv : {0} \cup Privs]]
      /\ fd'[f] = Closed /\ \A g \in Fds \ {f} : fd'[g] = fd[g]
  BY <1>1 DEF Closed, IInv, TypeOK
<1>3. /\ \A g \in Open' : g \in Open /\ g # f /\ fd'[g].priv = fd[g].priv
      /\ \A g \in Open' : fd'[g].priv # i
  <2>1. \A g \in Open' : g \in Open /\ g # f /\ fd'[g].priv = fd[g].priv
    BY <1>2 DEF Open, Closed
  <2> QED
    BY <1>1, <2>1 DEF IInv, Closing, OneKeeper
<1>4. values \in Locals /\ values.priv = i
  <2>1. fd[f].device_number \in Entries /\ fd[f].priv \in {0} \cup Privs
    BY <1>1 DEF Open, IInv, TypeOK
  <2>2. Leads(f) \in Drivers \cup {None}
    BY <2>1 DEF Leads, IInv, TypeOK
  <2> QED
    BY <2>1, <2>2 DEF Through, Locals
<1>5. \A q \in Procs : InHand(q) => local[q].priv # i
  BY <1>1 DEF IInv, Closing, OneKeeper
<1> HIDE DEF values
<1>6. CASE UNCHANGED <<pc, local>>
  <2>1. TypeOK'
    BY <1>1, <1>2, <1>6 DEF IInv, TypeOK
  <2>2. Finding'
    BY <1>6 DEF IInv, Finding
  <2>3. \A q \in Procs : InHand(q)' = InHand(q) /\ local'[q] = local[q]
    BY <1>6 DEF InHand
  <2>4. OneKeeper'
    BY <1>3, <2>3 DEF IInv, Closing, OneKeeper
  <2>5. ClosedIsGone'
    BY <1>1, <1>3, <2>3 DEF IInv, Closing, ClosedIsGone, Unkept
  <2>6. KeptIsOpened'
    BY <1>1, <1>3, <2>3 DEF IInv, Closing, KeptIsOpened
  <2> QED
    BY <2>1, <2>2, <2>4, <2>5, <2>6 DEF IInv, Closing
<1>7. CASE Remember(p, values) /\ Goto(p, "closing")
  <2>1. "closing" \in Places
    BY DEF Places
  <2>2. TypeOK'
    BY <1>1, <1>2, <1>4, <1>7, <2>1, MoveType DEF IInv, TypeOK, Places, Locals
  <2>3. Finding'
    BY <1>4, <1>7, <2>1, MoveType DEF IInv, Finding
  <2>4. \A q \in Procs : InHand(q)' =>
          IF q = p THEN local'[q].priv = i ELSE InHand(q) /\ local'[q] = local[q]
    BY <1>4, <1>7, <2>1, MoveType DEF InHand
  <2>5. i <= Len(opened) /\ i \in Nat \ {0} /\ Len(opened) \in Nat
    <3>1. f \in Fds /\ i \in {0} \cup Privs /\ i # 0 /\ Len(opened) \in Nat
      BY <1>1 DEF Open, IInv, TypeOK
    <3>2. i <= Len(opened)
      BY <1>1 DEF IInv, Closing, KeptIsOpened
    <3> QED
      BY <3>1, <3>2, Ranges
  <2> HIDE DEF i
  <2>6. OneKeeper'
    BY <1>3, <1>5, <2>4 DEF IInv, Closing, OneKeeper
  <2>7. ClosedIsGone'
    <3>1. \A j \in Privs : Unkept(j) => j # i
      BY <1>1 DEF Unkept, i
    <3>2. \A j \in Privs : Unkept(j) => Unkept(j)'
      BY <1>3, <2>4, <3>1 DEF Unkept
    <3> QED
      BY <1>1, <3>2 DEF IInv, Closing, ClosedIsGone
  <2>8. KeptIsOpened'
    BY <1>1, <1>3, <2>4, <2>5 DEF IInv, Closing, KeptIsOpened
  <2> QED
    BY <2>2, <2>3, <2>6, <2>7, <2>8 DEF IInv, Closing
<1>8. (UNCHANGED <<pc, local>>) \/ (Remember(p, values) /\ Goto(p, "closing"))
  BY DEF CloseClear, values
<1> QED
  BY <1>6, <1>7, <1>8

\* The close callback is called for a priv that was not closed before, and that
\* nobody has any more.
LEMMA CloseCallInvariant ==
  ASSUME IInv, NEW p \in Procs, CloseCall(p) PROVE IInv'
<1> DEFINE i == local[p].priv
<1>1. /\ Goto(p, "idle") /\ Remember(p, NoLocal) /\ "idle" \in Places /\ NoLocal \in Locals
      /\ InHand(p) /\ closes' = [closes EXCEPT ![i] = closes[i] + 1]
      /\ UNCHANGED <<threadLock, raced, first, driver, device, fd, number, present, opened>>
  BY NoLocalType DEF CloseCall, Return, tables, Places, InHand, races
<1>2. \A q \in Procs : InHand(q)' => q # p /\ InHand(q) /\ local'[q] = local[q]
  BY <1>1, MoveType DEF InHand
<1>3. i \in 1 .. Len(opened) /\ i \in Privs /\ Len(opened) \in Nat
  <2>1. i \in 1 .. Len(opened)
    BY <1>1 DEF IInv, Closing, KeptIsOpened
  <2> QED
    BY <2>1, Ranges DEF IInv, TypeOK, Privs
<1>4. ~Unkept(i)
  BY <1>1 DEF Unkept
<1>5. closes[i] = 0
  BY <1>3, <1>4 DEF IInv, Closing, ClosedIsGone
<1>6. /\ \A q \in Procs : InHand(q) /\ q # p => local[q].priv # i
      /\ \A g \in Open : fd[g].priv # i
  BY <1>1 DEF IInv, Closing, OneKeeper
<1> HIDE DEF i
<1>7. closes' \in [Privs -> Nat] /\ closes'[i] = 1 /\ \A j \in Privs \ {i} : closes'[j] = closes[j]
  BY <1>1, <1>3, <1>5 DEF IInv, TypeOK
<1>8. Open' = Open
  BY <1>1 DEF Open
<1>9. TypeOK'
  BY <1>1, <1>7, MoveType DEF IInv, TypeOK, Places, Locals
<1>10. Finding'
  BY <1>1, MoveType DEF IInv, Finding
<1>11. OneKeeper'
  BY <1>1, <1>2, <1>8 DEF IInv, Closing, OneKeeper
<1>12. ClosedIsGone'
  <2>1. \A j \in Privs : Unkept(j) => Unkept(j)'
    BY <1>1, <1>2, <1>8 DEF Unkept
  <2>2. \A q \in Procs : InHand(q)' => local'[q].priv # i
    BY <1>2, <1>6
  <2>3. \A g \in Open' : fd'[g].priv # i
    BY <1>1, <1>6, <1>8
  <2>4. ASSUME NEW j \in Privs PROVE closes'[j] = 0 \/ (closes'[j] = 1 /\ Unkept(j)')
    <3>1. CASE j = i
      <4>1. Unkept(j)'
        BY <2>2, <2>3, <3>1 DEF Unkept
      <4> QED
        BY <1>7, <3>1, <4>1
    <3>2. CASE j # i
      BY <1>7, <2>1, <3>2 DEF IInv, Closing, ClosedIsGone
    <3> QED
      BY <3>1, <3>2
  <2> QED
    BY <2>4 DEF ClosedIsGone
<1>13. KeptIsOpened'
  <2>1. \A j \in Privs : j > Len(opened) => j # i
    BY <1>3
  <2> QED
    BY <1>1, <1>2, <1>7, <1>8, <2>1 DEF IInv, Closing, KeptIsOpened
<1> QED
  BY <1>9, <1>10, <1>11, <1>12, <1>13 DEF IInv, Closing

\* Every step keeps the invariant.
LEMMA NextInvariant == IInv /\ [Next]_vars => IInv'
<1> SUFFICES ASSUME IInv, [Next]_vars PROVE IInv'
  OBVIOUS
<1>1. CASE UNCHANGED vars
  <2>1. UNCHANGED <<threadLock, raced, first, driver, device, fd, number, present, opened, closes, pc, local>>
    BY <1>1 DEF vars, tables, history, races
  <2>2. TypeOK' /\ Finding'
    BY <2>1 DEF IInv, TypeOK, Finding
  <2>3. Closing'
    BY <2>1, Bystander DEF InHand
  <2> QED
    BY <2>2, <2>3 DEF IInv
<1>2. ASSUME NEW p \in Procs, Installing(p) PROVE IInv'
  BY <1>2, InstallInvariant
<1>3. ASSUME NEW p \in Procs, Opening(p) PROVE IInv'
  BY <1>3, LookInvariant, OpenCallInvariant, OpenBindInvariant DEF Opening
<1>4. ASSUME NEW p \in Procs, Using(p) PROVE IInv'
  BY <1>4, LookInvariant, CloseClearInvariant, CloseCallInvariant DEF Using
<1>5. CASE \/ \E d \in Drivers : DriverRemove(d)
           \/ \E v \in Devices : DeviceDelete(v) \/ \E name \in Names : DeviceAdd(v, name)
  BY <1>5, TablesInvariant
<1> QED
  BY <1>1, <1>2, <1>3, <1>4, <1>5 DEF Next

\* A set with at most one element.
LEMMA AtMostOne ==
  ASSUME NEW S, \A x, y \in S : x = y
  PROVE  Cardinality(S) \in {0, 1}
<1>1. CASE S = {}
  BY <1>1, FS_EmptySet
<1>2. CASE S # {}
  <2>1. PICK x : S = {x}
    BY <1>2
  <2> QED
    BY <2>1, FS_Singleton
<1> QED
  BY <1>1, <1>2

\* The counts of ClosedOnce follow.
LEMMA InvariantCounts == IInv => ClosedOnce
<1> SUFFICES ASSUME IInv, NEW i \in Privs PROVE closes[i] + Keepers(i) <= 1
  BY DEF ClosedOnce
<1> DEFINE F == {f \in Open : fd[f].priv = i}
           P == {p \in Callers("binding") \cup Callers("closing") : local[p].priv = i}
<1>1. Keepers(i) = Cardinality(F) + Cardinality(P)
  BY DEF Keepers
<1>2. \A p \in P : p \in Procs /\ InHand(p) /\ local[p].priv = i
  BY DEF Callers, InHand
<1>3. \A f \in F : f \in Open /\ fd[f].priv = i
  OBVIOUS
<1> HIDE DEF F, P
<1>4. Cardinality(F) \in {0, 1} /\ Cardinality(P) \in {0, 1}
  <2>1. \A f, g \in F : f = g
    BY <1>3 DEF IInv, Closing, OneKeeper
  <2>2. \A p, q \in P : p = q
    BY <1>2 DEF IInv, Closing, OneKeeper
  <2> QED
    BY <2>1, <2>2, AtMostOne
<1>5. F = {} \/ P = {}
  BY <1>2, <1>3 DEF IInv, Closing, OneKeeper
<1>6. Keepers(i) \in {0, 1}
  BY <1>1, <1>4, <1>5, FS_EmptySet
<1>7. CASE closes[i] = 0
  BY <1>6, <1>7
<1>8. CASE closes[i] = 1 /\ Unkept(i)
  <2>1. F = {} /\ P = {}
    BY <1>2, <1>3, <1>8 DEF Unkept
  <2>2. Keepers(i) = 0
    BY <1>1, <2>1, FS_EmptySet
  <2> QED
    BY <1>8, <2>2
<1> QED
  BY <1>7, <1>8 DEF IInv, Closing, ClosedIsGone

\* DEVIO_close clears a descriptor under the mutex before it calls the driver, and
\* DEVIO_open gives a priv to one descriptor: whatever threads do at once, and
\* whatever is taken away meanwhile, a driver's close is called once for what
\* its open returned, and no descriptor has it afterwards.
THEOREM ClosingOnce == Spec => []ClosedOnce
<1>1. Init => IInv
  BY InitInvariant
<1>2. IInv /\ [Next]_vars => IInv'
  BY NextInvariant
<1>3. IInv => ClosedOnce
  BY InvariantCounts
<1> QED
  BY <1>1, <1>2, <1>3, PTL DEF Spec
-----------------------------------------------------------------------------
(* Unless another install began meanwhile, the first resets the tables alone.  *)

\* Between the look at first and the reset of the tables.
Critical(p) == pc[p] \in {"marking", "resetting"}
Installs(p) == Critical(p) \/ pc[p] = "installing"

Once == \A p, q \in Procs : Critical(p) /\ Critical(q) => p = q

Started == \A p \in Procs : pc[p] = "resetting" => first

\* Until the tables were reset no driver has a slot, nor is about to take one.
Fresh ==
  ~first \/ (\E p \in Procs : Critical(p)) =>
    /\ \A d \in Drivers : number[d] = -1
    /\ \A p \in Procs : pc[p] # "installing"

\* A driver on its way into the table is not there yet, and only one thread brings it.
Awaited ==
  /\ \A p \in Procs : Installs(p) => local[p].foo \in Drivers /\ number[local[p].foo] = -1
  /\ \A p, q \in Procs : Installs(p) /\ Installs(q) /\ local[p].foo = local[q].foo => p = q

\* Every driver has its slot to itself.
Slotted == \A d \in Drivers : number[d] # -1 => driver[number[d]] = d

Install == Once /\ Started /\ Fresh /\ Awaited /\ Slotted

\* Steps that have nothing to do with an installation.
Elsewhere ==
  /\ UNCHANGED <<first, driver, number>>
  /\ \A q \in Procs : Installs(q) \/ Installs(q)' => pc'[q] = pc[q] /\ local'[q] = local[q]

LEMMA ElsewhereInstall ==
  ASSUME Install, Elsewhere PROVE Install'
<1>1. \A q \in Procs : Critical(q)' <=> Critical(q)
  BY DEF Elsewhere, Installs, Critical
<1>2. \A q \in Procs : Installs(q)' => Installs(q) /\ local'[q] = local[q]
  BY DEF Elsewhere, Installs, Critical
<1>3. \A q \in Procs : pc'[q] \in {"installing", "resetting"} => pc'[q] = pc[q]
  BY DEF Elsewhere, Installs, Critical
<1>4. UNCHANGED <<first, driver, number>>
  BY DEF Elsewhere
<1>5. Once'
  BY <1>1 DEF Install, Once
<1>6. Started'
  BY <1>3, <1>4 DEF Install, Started
<1>7. Fresh'
  BY <1>1, <1>3, <1>4 DEF Install, Fresh
<1>8. Awaited'
  BY <1>2, <1>4 DEF Install, Awaited
<1>9. Slotted'
  BY <1>4 DEF Install, Slotted
<1> QED
  BY <1>5, <1>6, <1>7, <1>8, <1>9 DEF Install

LEMMA MoveElsewhere ==
  ASSUME IInv, NEW p \in Procs, NEW place \in Places, NEW values \in Locals,
         Goto(p, place), Remember(p, values), ~Installs(p),
         place \notin {"marking", "resetting", "installing"},
         UNCHANGED <<first, driver, number>>
  PROVE  Elsewhere
BY MoveType DEF Elsewhere, Installs, Critical

\* Opening, closing and calling are elsewhere.
LEMMA UseElsewhere ==
  ASSUME IInv, NEW p \in Procs, Opening(p) \/ Using(p) PROVE Elsewhere
<1> DEFINE Moved == \E place \in Places, values \in Locals :
              /\ Goto(p, place) /\ Remember(p, values) /\ ~Installs(p)
              /\ place \notin {"marking", "resetting", "installing"}
              /\ UNCHANGED <<first, driver, number>>
<1>1. ASSUME NEW f \in Open, NEW clear \in BOOLEAN PROVE Through(f, clear) \in Locals
  <2>1. fd[f].device_number \in Entries /\ fd[f].priv \in {0} \cup Privs
    BY <1>1 DEF Open, IInv, TypeOK
  <2>2. Leads(f) \in Drivers \cup {None}
    BY <2>1 DEF Leads, IInv, TypeOK
  <2> QED
    BY <2>1, <2>2 DEF Through, Locals
<1>2. ASSUME OpenFails(p) \/ CallDone(p) \/ OpenBind(p) \/ CloseCall(p) PROVE Moved
  <2>1. Goto(p, "idle") /\ Remember(p, NoLocal) /\ ~Installs(p) /\ UNCHANGED <<first, driver, number>>
    BY <1>2 DEF OpenFails, CallDone, OpenBind, CloseCall, Return, Installs, Critical, tables, history
  <2> QED
    BY <2>1, NoLocalType DEF Places
<1>3. ASSUME OpenCall(p) PROVE Moved
  <2> DEFINE new == Len(opened) + 1
             values == [local[p] EXCEPT !.priv = new]
  <2>1. local[p] \in Locals /\ Len(opened) \in Nat /\ new \in Privs
    BY <1>3, Ranges DEF OpenCall, IInv, TypeOK, Locals, Privs
  <2>2. values \in Locals
    BY <2>1 DEF Locals
  <2>3. Goto(p, "binding") /\ Remember(p, values) /\ ~Installs(p) /\ UNCHANGED <<first, driver, number>>
    BY <1>3 DEF OpenCall, Installs, Critical, tables
  <2> QED
    BY <2>2, <2>3 DEF Places
<1>4. ASSUME NEW name \in Requests, OpenFind(p, name) PROVE Moved
  <2>1. PICK e \in Entries :
          /\ Found(name, e)
          /\ Remember(p, [foo |-> driver[device[e].driver_number], entry |-> e, priv |-> 0])
    BY <1>4 DEF OpenFind
  <2>2. driver[device[e].driver_number] \in Drivers \cup {None}
    BY DEF IInv, TypeOK
  <2>3. [foo |-> driver[device[e].driver_number], entry |-> e, priv |-> 0] \in Locals
    BY <2>2 DEF Locals
  <2> QED
    BY <1>4, <2>1, <2>3 DEF OpenFind, Installs, Critical, tables, history, Places
<1>5. ASSUME NEW f \in Fds, CloseClear(p, f) PROVE Elsewhere
  <2>1. CASE UNCHANGED <<pc, local>>
    BY <1>5, <2>1 DEF CloseClear, Elsewhere, history, Installs, Critical
  <2>2. CASE Remember(p, Through(f, TRUE)) /\ Goto(p, "closing")
    <3>1. f \in Open /\ ~Installs(p) /\ UNCHANGED <<first, driver, number>>
      BY <1>5 DEF CloseClear, Installs, Critical, history
    <3>2. Through(f, TRUE) \in Locals
      BY <3>1, <1>1
    <3> QED
      BY <3>1, <3>2, <2>2, MoveElsewhere DEF Places
  <2> QED
    BY <1>5, <2>1, <2>2 DEF CloseClear
<1>6. ASSUME NEW f \in Fds, CallLook(p, f) PROVE Moved
  <2>1. f \in Open /\ ~Installs(p) /\ UNCHANGED <<first, driver, number>>
    BY <1>6 DEF CallLook, Installs, Critical, tables, history
  <2>2. Through(f, FALSE) \in Locals
    BY <2>1, <1>1
  <2> QED
    BY <2>1, <2>2, <1>6 DEF CallLook, Places
<1> HIDE DEF Moved
<1>7. Moved => Elsewhere
  BY MoveElsewhere DEF Moved
<1> QED
  BY <1>2, <1>3, <1>4, <1>5, <1>6, <1>7 DEF Opening, Using, Moved

LEMMA InstallingInstall ==
  ASSUME IInv, Install, NEW p \in Procs, Installing(p), ~raced'
  PROVE  Install'
<1>0. pc \in [Procs -> Places] /\ local \in [Procs -> Locals] /\ first \in BOOLEAN
      /\ driver \in [Slots -> Drivers \cup {None}] /\ number \in [Drivers -> {-1} \cup Slots]
  BY DEF IInv, TypeOK, Places, Locals
<1>1. ASSUME NEW d \in Drivers, InstallFirst(p, d) PROVE Install'
  <2> DEFINE values == [NoLocal EXCEPT !.foo = d]
             place == IF first THEN "installing" ELSE "marking"
  <2>1. values \in Locals /\ place \in Places /\ values.foo = d
    BY DEF NoLocal, Locals, Places
  <2>2. Goto(p, place) /\ Remember(p, values) /\ pc[p] = "idle" /\ number[d] = -1
        /\ (\A q \in Procs : local[q].foo # d)
        /\ UNCHANGED <<first, driver, number>>
    BY <1>1 DEF InstallFirst, tables, history
  <2>3. \A q \in Procs : ~Critical(q)
    BY <1>1 DEF InstallFirst, Critical
  <2> HIDE DEF values
  <2>4. /\ pc'[p] = place /\ local'[p] = values
        /\ \A q \in Procs \ {p} : pc'[q] = pc[q] /\ local'[q] = local[q]
    BY <2>1, <2>2, MoveType
  <2>5. Once' /\ Started'
    BY <2>2, <2>3, <2>4 DEF Once, Started, Critical, Install
  <2>6. Fresh'
    BY <2>2, <2>3, <2>4 DEF Fresh, Critical, Install
  <2>7. Awaited'
    BY <2>1, <2>2, <2>4 DEF Awaited, Installs, Critical, Install
  <2> QED
    BY <2>2, <2>5, <2>6, <2>7 DEF Install, Slotted
<1>2. CASE InstallMark(p)
  <2>1. Goto(p, "resetting") /\ pc[p] = "marking" /\ first' = TRUE
        /\ UNCHANGED <<driver, number, local>>
    BY <1>2 DEF InstallMark, tables, history
  <2>2. pc'[p] = "resetting" /\ \A q \in Procs \ {p} : pc'[q] = pc[q]
    BY <2>1, GotoType DEF Places
  <2>3. \A q \in Procs : (Critical(q)' <=> Critical(q)) /\ (Installs(q)' <=> Installs(q))
    BY <2>1, <2>2 DEF Critical, Installs
  <2>4. Once' /\ Awaited'
    BY <2>1, <2>3 DEF Once, Awaited, Install
  <2>5. Started'
    BY <2>1 DEF Started
  <2>6. Fresh'
    BY <2>1, <2>2, <2>3 DEF Fresh, Install, Critical
  <2> QED
    BY <2>1, <2>4, <2>5, <2>6 DEF Install, Slotted
<1>3. CASE InstallReset(p)
  <2>1. Goto(p, "installing") /\ pc[p] = "resetting" /\ Reset
        /\ UNCHANGED <<first, number, local>>
    BY <1>3 DEF InstallReset, history
  <2>2. pc'[p] = "installing" /\ \A q \in Procs \ {p} : pc'[q] = pc[q]
    BY <2>1, GotoType DEF Places
  <2>3. first /\ Critical(p) /\ \A d \in Drivers : number[d] = -1
    BY <2>1 DEF Install, Started, Fresh, Critical
  <2>4. \A q \in Procs : ~Critical(q)'
    BY <2>2, <2>3 DEF Install, Once, Critical
  <2>5. \A q \in Procs : Installs(q)' <=> Installs(q)
    BY <2>1, <2>2 DEF Critical, Installs
  <2>6. Awaited'
    BY <2>1, <2>5 DEF Awaited, Install
  <2>7. Once' /\ Started' /\ Fresh' /\ Slotted'
    BY <2>1, <2>3, <2>4 DEF Once, Started, Fresh, Critical, Slotted
  <2> QED
    BY <2>6, <2>7 DEF Install
<1>4. CASE InstallSlot(p)
  <2> DEFINE d == local[p].foo
  <2>1. Goto(p, "idle") /\ Remember(p, NoLocal) /\ pc[p] = "installing" /\ first' = first
    BY <1>4 DEF InstallSlot, Return
  <2>2. pc'[p] = "idle" /\ \A q \in Procs \ {p} : pc'[q] = pc[q] /\ local'[q] = local[q]
    BY <2>1, MoveType, NoLocalType DEF Places
  <2>3. first /\ \A q \in Procs : ~Critical(q)
    BY <2>1 DEF Install, Fresh
  <2>4. \A q \in Procs : ~Critical(q)'
    BY <2>2, <2>3 DEF Critical
  <2>5. Once' /\ Started' /\ Fresh'
    BY <2>1, <2>3, <2>4 DEF Once, Started, Fresh, Critical
  <2>6. d \in Drivers /\ number[d] = -1 /\ Installs(p)
        /\ \A q \in Procs \ {p} : Installs(q) => local[q].foo # d
    BY <2>1 DEF Install, Awaited, Installs
  <2>7. \/ UNCHANGED <<driver, number>>
        \/ \E s \in Slots : /\ driver[s] = None /\ driver' = [driver EXCEPT ![s] = d]
                            /\ number' = [number EXCEPT ![d] = s]
    BY <1>4 DEF InstallSlot, Least
  <2> HIDE DEF d
  <2>8. \A e \in Drivers \ {d} : number'[e] = number[e]
    BY <2>6, <2>7, <1>0
  <2>9. Awaited'
    <3>1. \A q \in Procs : Installs(q)' => q # p /\ Installs(q) /\ local'[q] = local[q]
      BY <2>2 DEF Installs, Critical
    <3>2. ASSUME NEW q \in Procs, Installs(q)'
          PROVE  local'[q].foo \in Drivers /\ number'[local'[q].foo] = -1
      <4>1. local[q].foo \in Drivers \ {d} /\ number[local[q].foo] = -1
        BY <3>1, <3>2, <2>6 DEF Install, Awaited
      <4> QED
        BY <3>1, <3>2, <4>1, <2>8
    <3> QED
      BY <3>1, <3>2 DEF Install, Awaited
  <2>10. Slotted'
    <3>1. CASE UNCHANGED <<driver, number>>
      BY <3>1 DEF Install, Slotted
    <3>2. ASSUME NEW s \in Slots, driver[s] = None, driver' = [driver EXCEPT ![s] = d],
                 number' = [number EXCEPT ![d] = s]
          PROVE  Slotted'
      <4>1. driver'[s] = d /\ number'[d] = s /\ \A t \in Slots \ {s} : driver'[t] = driver[t]
        BY <3>2, <2>6, <1>0
      <4>2. ASSUME NEW e \in Drivers \ {d}, number[e] # -1 PROVE driver'[number[e]] = e
        <5>1. driver[number[e]] = e /\ number[e] \in Slots /\ e # None
          BY <4>2, <1>0, DevIoAssumption DEF Install, Slotted
        <5> QED
          BY <5>1, <3>2, <4>1
      <4> QED
        BY <4>1, <4>2, <2>8 DEF Slotted
    <3> QED
      BY <2>7, <3>1, <3>2
  <2> QED
    BY <2>5, <2>9, <2>10 DEF Install
<1> QED
  BY <1>1, <1>2, <1>3, <1>4 DEF Installing

LEMMA RemoveInstall ==
  ASSUME IInv, Install, NEW d \in Drivers, DriverRemove(d)
  PROVE  Install'
<1>1. /\ number[d] \in Slots /\ driver \in [Slots -> Drivers \cup {None}]
      /\ number \in [Drivers -> {-1} \cup Slots] /\ -1 \notin Slots
  BY Ranges DEF DriverRemove, IInv, TypeOK
<1>2. /\ driver' = [driver EXCEPT ![number[d]] = None] /\ number' = [number EXCEPT ![d] = -1]
      /\ UNCHANGED <<first, pc, local>>
  BY DEF DriverRemove
<1>3. \A q \in Procs : (Critical(q)' <=> Critical(q)) /\ (Installs(q)' <=> Installs(q))
  BY <1>2 DEF Critical, Installs
<1>4. number'[d] = -1 /\ \A e \in Drivers \ {d} : number'[e] = number[e]
  BY <1>1, <1>2
<1>5. Once' /\ Started' /\ Awaited'
  BY <1>2, <1>3, <1>4 DEF Install, Once, Started, Awaited
<1>6. Fresh'
  BY <1>2, <1>3, <1>4 DEF Install, Fresh
<1>7. Slotted'
  <2>1. ASSUME NEW e \in Drivers, number'[e] # -1 PROVE driver'[number'[e]] = e
    <3>1. e # d /\ number'[e] = number[e] /\ number[e] \in Slots /\ driver[number[e]] = e
      BY <2>1, <1>1, <1>4 DEF Install, Slotted
    <3>2. number[e] # number[d]
      BY <3>1, <1>1 DEF Install, Slotted
    <3> QED
      BY <3>1, <3>2, <1>1, <1>2
  <2> QED
    BY <2>1 DEF Slotted
<1> QED
  BY <1>5, <1>6, <1>7 DEF Install

LEMMA InstallStep ==
  ASSUME IInv, Install, [Next]_vars, ~raced' PROVE Install'
<1>1. CASE UNCHANGED vars
  BY <1>1, ElsewhereInstall DEF vars, tables, history, Elsewhere
<1>2. ASSUME NEW p \in Procs, Installing(p) PROVE Install'
  BY <1>2, InstallingInstall
<1>3. ASSUME NEW p \in Procs, Opening(p) \/ Using(p) PROVE Install'
  BY <1>3, UseElsewhere, ElsewhereInstall
<1>4. ASSUME NEW d \in Drivers, DriverRemove(d) PROVE Install'
  BY <1>4, RemoveInstall
<1>5. ASSUME NEW v \in Devices, DeviceDelete(v) \/ \E name \in Names : DeviceAdd(v, name)
      PROVE  Install'
  BY <1>5, ElsewhereInstall DEF DeviceDelete, DeviceAdd, Elsewhere
<1> QED
  BY <1>1, <1>2, <1>3, <1>4, <1>5 DEF Next

LEMMA InitInstall == Init => Install
BY DEF Init, Install, Once, Started, Fresh, Awaited, Slotted, Critical, Installs

\* Installs that met stay so, and where the scheduler is locked none do.
LEMMA RacedStep ==
  ASSUME IInv, [Next]_vars
  PROVE  /\ raced => raced'
         /\ (threadLock => ~raced) => (threadLock' => ~raced')
<1>1. ASSUME NEW p \in Procs, Runs(p), NEW d \in Drivers, InstallFirst(p, d)
      PROVE  /\ threadLock' = threadLock /\ (raced => raced')
             /\ threadLock => raced' = raced
  <2>1. threadLock => \A q \in Procs : pc[q] \notin {"marking", "resetting"}
    BY <1>1 DEF InstallFirst, Runs, Locked
  <2> QED
    BY <1>1, <2>1 DEF InstallFirst, IInv, TypeOK
<1>2. ASSUME UNCHANGED races
      PROVE  threadLock' = threadLock /\ raced' = raced
  BY <1>2 DEF races
<1>3. ASSUME NEW p \in Procs, InstallMark(p) \/ InstallReset(p) \/ InstallSlot(p)
      PROVE  UNCHANGED races
  BY <1>3 DEF InstallMark, InstallReset, InstallSlot
<1>4. ASSUME NEW p \in Procs, Opening(p) \/ Using(p) PROVE UNCHANGED races
  BY <1>4 DEF Opening, Using, OpenFind, OpenCall, OpenFails, OpenBind, CloseClear, CloseCall,
     CallLook, CallDone
<1>5. CASE \/ \E d \in Drivers : DriverRemove(d)
           \/ \E v \in Devices : DeviceDelete(v) \/ \E name \in Names : DeviceAdd(v, name)
  BY <1>2, <1>5 DEF DriverRemove, DeviceDelete, DeviceAdd
<1>6. CASE UNCHANGED vars
  BY <1>2, <1>6 DEF vars
<1> QED
  BY <1>1, <1>2, <1>3, <1>4, <1>5, <1>6 DEF Next, Installing

Unraced == IInv /\ (threadLock => ~raced) /\ (~raced => Install)

LEMMA UnracedStep == Unraced /\ [Next]_vars => Unraced'
BY InstallStep, NextInvariant, RacedStep DEF Unraced

LEMMA UnracedInit == Init => Unraced
BY InitInstall, InitInvariant DEF Unraced, Init

\* Unless installs have met, a driver keeps its slot to itself, whatever else is
\* installed, removed, opened and called; and none meet where the scheduler lock keeps
\* other threads from running.
THEOREM InstalledAlone == Spec => []InstalledStays
<1>1. Unraced => InstalledStays
  BY DEF Unraced, Install, Slotted, InstalledStays
<1> QED
  BY <1>1, UnracedInit, UnracedStep, PTL DEF Spec
-----------------------------------------------------------------------------
(* What a careful application is guaranteed: it removes no driver and deletes  *)
(* no device that is in use, and opens nothing by the empty name.              *)

Careful == Hot \cap {"driver", "device"} = {} /\ <<>> \notin Requests

\* The entry is in use for a device of the driver.
Serves(e, d) ==
  /\ e \in Entries /\ device[e].in_use
  /\ device[e].device \in Devices /\ Driver[device[e].device] = d

\* Only an entry in use has a name, and its driver is in the slot that it names.
Named == \A e \in Entries : ~device[e].in_use => device[e].name = <<>>
Serving ==
  \A e \in Entries : device[e].in_use =>
    /\ device[e].device \in Devices
    /\ number[Driver[device[e].device]] = device[e].driver_number

\* A descriptor leads to the driver whose open returned its priv, and so do the
\* variables of every call on its way to a driver.
Held == \A f \in Open : Serves(fd[f].device_number, opened[fd[f].priv].driver)
Sent ==
  \A p \in Procs :
    /\ pc[p] \in {"opening", "binding", "calling"} => Serves(local[p].entry, local[p].foo)
    /\ pc[p] \in {"binding", "closing", "calling"} =>
         local[p].priv \in 1 .. Len(opened) /\ opened[local[p].priv].driver = local[p].foo

Route == Named /\ Serving /\ Held /\ Sent /\ OwnDevice

\* Where an entry in use leads to.
LEMMA EntryLeads ==
  ASSUME IInv, Install, Route, NEW e \in Entries, device[e].in_use
  PROVE  /\ driver[device[e].driver_number] = Driver[device[e].device]
         /\ Driver[device[e].device] \in Drivers
         /\ device[e].device \in Devices /\ device[e].driver_number \in Slots
<1>1. device[e].device \in Devices /\ number[Driver[device[e].device]] = device[e].driver_number
  BY DEF Route, Serving
<1>2. Driver[device[e].device] \in Drivers
  BY <1>1, DevIoAssumption
<1>3. device[e].driver_number \in Slots /\ -1 \notin Slots
  BY Ranges DEF IInv, TypeOK
<1> QED
  BY <1>1, <1>2, <1>3 DEF Install, Slotted

\* Where a descriptor leads to.
LEMMA DescriptorLeads ==
  ASSUME IInv, Install, Route, NEW f \in Open
  PROVE  /\ Leads(f) = opened[fd[f].priv].driver /\ Leads(f) \in Drivers /\ Leads(f) # None
         /\ fd[f].priv \in 1 .. Len(opened) /\ fd[f].device_number \in Entries
<1>1. Serves(fd[f].device_number, opened[fd[f].priv].driver)
  BY DEF Route, Held
<1>2. Leads(f) = opened[fd[f].priv].driver /\ Leads(f) \in Drivers /\ fd[f].device_number \in Entries
  BY <1>1, EntryLeads DEF Serves, Leads
<1>3. fd[f].priv \in 1 .. Len(opened)
  <2>1. f \in Fds /\ fd[f].priv \in {0} \cup Privs /\ fd[f].priv # 0 /\ Len(opened) \in Nat
    BY DEF Open, IInv, TypeOK
  <2>2. fd[f].priv <= Len(opened)
    BY DEF IInv, Closing, KeptIsOpened
  <2>3. fd[f].priv \in 1 .. MaxPrivs /\ MaxPrivs \in Nat
    BY <2>1, DevIoAssumption DEF Privs
  <2> QED
    BY <2>1, <2>2, <2>3
<1> QED
  BY <1>2, <1>3, DevIoAssumption

\* Before the first driver is installed nothing is in use.
LEMMA NoneYet ==
  ASSUME IInv, Route, \A d \in Drivers : number[d] = -1
  PROVE  /\ \A e \in Entries : ~device[e].in_use
         /\ Open = {} /\ \A p \in Procs : pc[p] \notin {"opening", "binding", "calling"}
<1>1. \A e \in Entries : ~device[e].in_use
  <2>1. \A e \in Entries : device[e].driver_number # -1
    BY Ranges DEF IInv, TypeOK
  <2>2. \A v \in Devices : Driver[v] \in Drivers
    BY DevIoAssumption
  <2> QED
    BY <2>1, <2>2 DEF Route, Serving
<1> QED
  BY <1>1 DEF Route, Held, Sent, Serves

\* A thread that moves without the tables, to a place that suits its variables.
LEMMA MoveRoute ==
  ASSUME IInv, Route, UNCHANGED <<device, fd, number, opened>>,
         NEW p \in Procs, NEW place \in Places, NEW values \in Locals,
         Goto(p, place), Remember(p, values),
         place \in {"opening", "binding", "calling"} => Serves(values.entry, values.foo),
         place \in {"binding", "closing", "calling"} =>
           values.priv \in 1 .. Len(opened) /\ opened[values.priv].driver = values.foo
  PROVE  Route'
<1>1. /\ pc'[p] = place /\ local'[p] = values
      /\ \A q \in Procs \ {p} : pc'[q] = pc[q] /\ local'[q] = local[q]
  BY MoveType
<1>2. Open' = Open /\ \A e, d : Serves(e, d)' <=> Serves(e, d)
  BY DEF Open, Serves
<1>3. Named' /\ Serving' /\ OwnDevice'
  BY DEF Route, Named, Serving, OwnDevice
<1>4. Held'
  BY <1>2 DEF Route, Held
<1>5. Sent'
  <2>1. ASSUME NEW q \in Procs
        PROVE  /\ pc'[q] \in {"opening", "binding", "calling"} => Serves(local'[q].entry, local'[q].foo)
               /\ pc'[q] \in {"binding", "closing", "calling"} =>
                    local'[q].priv \in 1 .. Len(opened) /\ opened[local'[q].priv].driver = local'[q].foo
    <3>1. CASE q = p
      BY <1>1, <3>1
    <3>2. CASE q # p
      BY <1>1, <3>2 DEF Route, Sent
    <3> QED
      BY <3>1, <3>2
  <2> QED
    BY <1>2, <2>1 DEF Sent
<1> QED
  BY <1>3, <1>4, <1>5 DEF Route

LEMMA InstallingRoute ==
  ASSUME IInv, Install, Route, NEW p \in Procs, Installing(p) PROVE Route'
<1>1. ASSUME NEW d \in Drivers, InstallFirst(p, d) PROVE Route'
  <2> DEFINE values == [NoLocal EXCEPT !.foo = d]
             place == IF first THEN "installing" ELSE "marking"
  <2>1. values \in Locals /\ place \in Places
    BY DEF NoLocal, Locals, Places
  <2>2. Goto(p, place) /\ Remember(p, values) /\ UNCHANGED <<device, fd, number, opened>>
    BY <1>1 DEF InstallFirst, tables, history
  <2> HIDE DEF values
  <2> QED
    BY <2>1, <2>2, MoveRoute
<1>2. CASE InstallMark(p)
  <2>1. Goto(p, "resetting") /\ UNCHANGED <<device, fd, number, opened, local>>
    BY <1>2 DEF InstallMark, tables, history
  <2>2. Remember(p, local[p]) /\ local[p] \in Locals
    BY <2>1 DEF Remember, IInv, TypeOK, Locals
  <2> QED
    BY <2>1, <2>2, MoveRoute DEF Places
<1>3. CASE InstallReset(p)
  <2>1. Goto(p, "installing") /\ pc[p] = "resetting" /\ Reset
        /\ UNCHANGED <<device, number, opened, local>>
    BY <1>3 DEF InstallReset, history
  <2>2. pc'[p] = "installing" /\ \A q \in Procs \ {p} : pc'[q] = pc[q]
    BY <2>1, GotoType DEF Places
  <2>3. \A f \in Fds : fd'[f].device_number = -1
    BY <2>1 DEF Reset, IInv, TypeOK
  <2>4. Held'
    BY <2>3 DEF Open, Held
  <2>5. \A e, d : Serves(e, d)' <=> Serves(e, d)
    BY <2>1 DEF Serves
  <2>6. Sent'
    BY <2>1, <2>2, <2>5 DEF Route, Sent
  <2>7. Named' /\ Serving' /\ OwnDevice'
    BY <2>1 DEF Route, Named, Serving, OwnDevice
  <2> QED
    BY <2>4, <2>6, <2>7 DEF Route
<1>4. CASE InstallSlot(p)
  <2> DEFINE d == local[p].foo
  <2>1. Goto(p, "idle") /\ Remember(p, NoLocal) /\ pc[p] = "installing"
        /\ UNCHANGED <<device, fd, opened>>
    BY <1>4 DEF InstallSlot, Return
  <2>2. pc'[p] = "idle" /\ \A q \in Procs \ {p} : pc'[q] = pc[q] /\ local'[q] = local[q]
    BY <2>1, MoveType, NoLocalType DEF Places
  <2>3. d \in Drivers /\ number[d] = -1
    BY <2>1 DEF Install, Awaited, Installs
  <2>4. \A e \in Drivers \ {d} : number'[e] = number[e]
    BY <1>4, <2>3 DEF InstallSlot, IInv, TypeOK
  <2> HIDE DEF d
  <2>5. Open' = Open /\ \A e, b : Serves(e, b)' <=> Serves(e, b)
    BY <2>1 DEF Open, Serves
  <2>6. Held' /\ Named' /\ OwnDevice'
    BY <2>1, <2>5 DEF Route, Held, Named, OwnDevice
  <2>7. Sent'
    BY <2>1, <2>2, <2>5 DEF Route, Sent
  <2>8. Serving'
    <3>1. ASSUME NEW e \in Entries, device[e].in_use
          PROVE  /\ device[e].device \in Devices
                 /\ number'[Driver[device[e].device]] = device[e].driver_number
      <4>1. device[e].device \in Devices /\ Driver[device[e].device] \in Drivers
            /\ number[Driver[device[e].device]] = device[e].driver_number
        BY <3>1, EntryLeads DEF Route, Serving
      <4>2. Driver[device[e].device] # d
        BY <3>1, <4>1, <2>3, EntryLeads, Ranges
      <4> QED
        BY <4>1, <4>2, <2>4
    <3> QED
      BY <2>1, <3>1 DEF Serving
  <2> QED
    BY <2>6, <2>7, <2>8 DEF Route
<1> QED
  BY <1>1, <1>2, <1>3, <1>4 DEF Installing

LEMMA LookRoute ==
  ASSUME IInv, Install, Route, Careful, NEW p \in Procs,
         \/ \E name \in Requests : OpenFind(p, name)
         \/ OpenFails(p) \/ CallDone(p) \/ CloseCall(p) \/ \E f \in Fds : CallLook(p, f)
  PROVE  Route'
<1>1. UNCHANGED <<device, fd, number, opened>>
  BY DEF OpenFind, OpenFails, CallDone, CloseCall, CallLook, tables, history
<1>2. ASSUME NEW name \in Requests, OpenFind(p, name) PROVE Route'
  <2>1. PICK e \in Entries :
          /\ Found(name, e)
          /\ Remember(p, [foo |-> driver[device[e].driver_number], entry |-> e, priv |-> 0])
    BY <1>2 DEF OpenFind
  <2>2. device[e].in_use
    BY <2>1 DEF Found, Careful, Route, Named
  <2>3. Serves(e, driver[device[e].driver_number]) /\ driver[device[e].driver_number] \in Drivers
    BY <2>2, EntryLeads DEF Serves
  <2> DEFINE values == [foo |-> driver[device[e].driver_number], entry |-> e, priv |-> 0]
  <2>4. values \in Locals /\ Serves(values.entry, values.foo)
    BY <2>3 DEF Locals
  <2>5. Goto(p, "opening") /\ Remember(p, values)
    BY <1>2, <2>1 DEF OpenFind
  <2> HIDE DEF values
  <2> QED
    BY <1>1, <2>4, <2>5, MoveRoute DEF Places
<1>3. CASE OpenFails(p) \/ CallDone(p) \/ CloseCall(p)
  <2>1. Goto(p, "idle") /\ Remember(p, NoLocal)
    BY <1>3 DEF OpenFails, CallDone, CloseCall, Return
  <2> QED
    BY <1>1, <2>1, MoveRoute, NoLocalType DEF Places
<1>4. ASSUME NEW f \in Fds, CallLook(p, f) PROVE Route'
  <2> DEFINE values == Through(f, FALSE)
  <2>1. f \in Open /\ Goto(p, "calling") /\ Remember(p, values)
    BY <1>4 DEF CallLook
  <2>2. /\ Leads(f) = opened[fd[f].priv].driver /\ Leads(f) \in Drivers
        /\ fd[f].priv \in 1 .. Len(opened) /\ fd[f].device_number \in Entries
        /\ Serves(fd[f].device_number, Leads(f)) /\ fd[f].priv \in {0} \cup Privs
    BY <2>1, DescriptorLeads DEF Route, Held, IInv, TypeOK
  <2>3. values \in Locals /\ values.foo = Leads(f) /\ values.priv = fd[f].priv
        /\ values.entry = fd[f].device_number
    BY <2>2 DEF Through, Locals
  <2> HIDE DEF values
  <2> QED
    BY <1>1, <2>1, <2>2, <2>3, MoveRoute DEF Places
<1> QED
  BY <1>2, <1>3, <1>4

LEMMA OpenCallRoute ==
  ASSUME IInv, Route, NEW p \in Procs, OpenCall(p) PROVE Route'
<1> DEFINE new == Len(opened) + 1
           values == [local[p] EXCEPT !.priv = new]
           made == [driver |-> local[p].foo, device |-> device[local[p].entry].device]
<1>1. local[p] \in Locals /\ Len(opened) \in Nat /\ new \in Privs
  BY Ranges DEF OpenCall, IInv, TypeOK, Locals, Privs
<1>2. values \in Locals /\ values.priv = new /\ values.foo = local[p].foo
      /\ values.entry = local[p].entry
  BY <1>1 DEF Locals
<1>3. /\ Goto(p, "binding") /\ Remember(p, values) /\ pc[p] = "opening"
      /\ opened' = Append(opened, made) /\ UNCHANGED <<device, fd, number>>
  BY DEF OpenCall, tables
<1>4. Serves(local[p].entry, local[p].foo)
  BY <1>3 DEF Route, Sent
<1> HIDE DEF values
<1>5. /\ Len(opened') = new /\ opened'[new] = made
      /\ \A i \in 1 .. Len(opened) : opened'[i] = opened[i]
  BY <1>1, <1>3 DEF IInv, TypeOK
<1>6. /\ pc'[p] = "binding" /\ local'[p] = values
      /\ \A q \in Procs \ {p} : pc'[q] = pc[q] /\ local'[q] = local[q]
  BY <1>2, <1>3, MoveType DEF Places
<1>7. Open' = Open /\ \A e, d : Serves(e, d)' <=> Serves(e, d)
  BY <1>3 DEF Open, Serves
<1>8. Named' /\ Serving'
  BY <1>3 DEF Route, Named, Serving
<1>9. Held'
  <2>1. \A f \in Open : fd[f].priv \in 1 .. Len(opened)
    <3>1. \A f \in Open : fd[f].priv \in Nat \ {0}
      BY Ranges DEF Open, IInv, TypeOK
    <3>2. \A f \in Open : fd[f].priv <= Len(opened)
      BY DEF IInv, Closing, KeptIsOpened
    <3> QED
      BY <1>1, <3>1, <3>2
  <2> QED
    BY <1>3, <1>5, <1>7, <2>1 DEF Route, Held
<1>10. OwnDevice'
  <2>1. ASSUME NEW i \in 1 .. new
        PROVE  opened'[i].device \in {v \in Devices : Driver[v] = opened'[i].driver}
    <3>1. CASE i = new
      BY <3>1, <1>4, <1>5 DEF Serves
    <3>2. CASE i # new
      <4>1. i \in 1 .. Len(opened)
        BY <1>1, <3>2
      <4> QED
        BY <4>1, <1>5 DEF Route, OwnDevice
    <3> QED
      BY <3>1, <3>2
  <2> QED
    BY <1>5, <2>1 DEF OwnDevice
<1>11. Sent'
  <2>1. ASSUME NEW q \in Procs
        PROVE  /\ pc'[q] \in {"opening", "binding", "calling"} => Serves(local'[q].entry, local'[q].foo)
               /\ pc'[q] \in {"binding", "closing", "calling"} =>
                    local'[q].priv \in 1 .. new /\ opened'[local'[q].priv].driver = local'[q].foo
    <3>1. CASE q = p
      BY <3>1, <1>1, <1>2, <1>4, <1>5, <1>6
    <3>2. CASE q # p
      <4>1. pc[q] \in {"binding", "closing", "calling"} =>
              local[q].priv \in 1 .. Len(opened) /\ opened[local[q].priv].driver = local[q].foo
        BY DEF Route, Sent
      <4>2. 1 .. Len(opened) \subseteq 1 .. new
        BY <1>1
      <4>3. pc[q] \in {"opening", "binding", "calling"} => Serves(local[q].entry, local[q].foo)
        BY DEF Route, Sent
      <4> QED
        BY <3>2, <1>5, <1>6, <4>1, <4>2, <4>3
    <3> QED
      BY <3>1, <3>2
  <2> QED
    BY <1>5, <1>7, <2>1 DEF Sent
<1> QED
  BY <1>8, <1>9, <1>10, <1>11 DEF Route

LEMMA OpenBindRoute ==
  ASSUME IInv, Route, NEW p \in Procs, OpenBind(p) PROVE Route'
<1>1. /\ Goto(p, "idle") /\ Remember(p, NoLocal) /\ pc[p] = "binding"
      /\ UNCHANGED <<device, number, opened>>
  BY DEF OpenBind, Return, history
<1>2. pc'[p] = "idle" /\ \A q \in Procs \ {p} : pc'[q] = pc[q] /\ local'[q] = local[q]
  BY <1>1, MoveType, NoLocalType DEF Places
<1>3. \A e, d : Serves(e, d)' <=> Serves(e, d)
  BY <1>1 DEF Serves
<1>4. Named' /\ Serving' /\ OwnDevice'
  BY <1>1 DEF Route, Named, Serving, OwnDevice
<1>5. Sent'
  BY <1>1, <1>2, <1>3 DEF Route, Sent
<1>6. Held'
  <2>1. CASE UNCHANGED fd
    BY <1>1, <1>3, <2>1 DEF Route, Held, Open
  <2>2. ASSUME NEW f \in FreeFds,
               fd' = [fd EXCEPT ![f] = [device_number |-> local[p].entry, priv |-> local[p].priv]]
        PROVE  Held'
    <3>1. f \in Fds /\ fd \in [Fds -> [device_number : {-1} \cup Entries, priv : {0} \cup Privs]]
      BY DEF FreeFds, IInv, TypeOK
    <3>2. /\ fd'[f].device_number = local[p].entry /\ fd'[f].priv = local[p].priv
          /\ \A g \in Fds \ {f} : fd'[g] = fd[g]
      BY <2>2, <3>1
    <3>3. Serves(local[p].entry, opened[local[p].priv].driver)
      BY <1>1 DEF Route, Sent
    <3>4. \A g \in Open' : g = f \/ g \in Open \ {f}
      BY <3>2 DEF Open
    <3>5. Open \subseteq Fds
      BY DEF Open
    <3> QED
      BY <1>1, <1>3, <3>2, <3>3, <3>4, <3>5 DEF Route, Held
  <2>3. (UNCHANGED fd) \/ \E f \in FreeFds :
          fd' = [fd EXCEPT ![f] = [device_number |-> local[p].entry, priv |-> local[p].priv]]
    BY DEF OpenBind, Least
  <2> QED
    BY <2>1, <2>2, <2>3
<1> QED
  BY <1>4, <1>5, <1>6 DEF Route

LEMMA CloseClearRoute ==
  ASSUME IInv, Install, Route, NEW p \in Procs, NEW f \in Fds, CloseClear(p, f) PROVE Route'
<1> DEFINE values == Through(f, TRUE)
<1>1. f \in Open /\ fd' = [fd EXCEPT ![f] = Closed] /\ UNCHANGED <<device, number, opened>>
  BY DEF CloseClear, history
<1>2. /\ Leads(f) = opened[fd[f].priv].driver /\ Leads(f) \in Drivers /\ Leads(f) # None
      /\ fd[f].priv \in 1 .. Len(opened) /\ fd[f].priv \in {0} \cup Privs
  BY <1>1, DescriptorLeads DEF IInv, TypeOK
<1>3. Remember(p, values) /\ Goto(p, "closing")
  BY <1>2 DEF CloseClear
<1>4. values \in Locals /\ values.foo = Leads(f) /\ values.priv = fd[f].priv
  BY <1>2 DEF Through, Locals
<1> HIDE DEF values
<1>5. /\ pc'[p] = "closing" /\ local'[p] = values
      /\ \A q \in Procs \ {p} : pc'[q] = pc[q] /\ local'[q] = local[q]
  BY <1>3, <1>4, MoveType DEF Places
<1>6. \A e, d : Serves(e, d)' <=> Serves(e, d)
  BY <1>1 DEF Serves
<1>7. Named' /\ Serving' /\ OwnDevice'
  BY <1>1 DEF Route, Named, Serving, OwnDevice
<1>8. Held'
  <2>1. fd'[f] = Closed /\ \A g \in Fds \ {f} : fd'[g] = fd[g]
    BY <1>1 DEF IInv, TypeOK
  <2>2. \A g \in Open' : g \in Open /\ fd'[g] = fd[g]
    BY <2>1 DEF Open, Closed
  <2> QED
    BY <1>1, <1>6, <2>2 DEF Route, Held
<1>9. Sent'
  <2>1. ASSUME NEW q \in Procs
        PROVE  /\ pc'[q] \in {"opening", "binding", "calling"} => Serves(local'[q].entry, local'[q].foo)
               /\ pc'[q] \in {"binding", "closing", "calling"} =>
                    local'[q].priv \in 1 .. Len(opened) /\ opened[local'[q].priv].driver = local'[q].foo
    <3>1. CASE q = p
      BY <3>1, <1>2, <1>4, <1>5
    <3>2. CASE q # p
      BY <3>2, <1>5 DEF Route, Sent
    <3> QED
      BY <3>1, <3>2
  <2> QED
    BY <1>1, <1>6, <2>1 DEF Sent
<1> QED
  BY <1>7, <1>8, <1>9 DEF Route

\* An entry that nobody is on his way to may change.
LEMMA EntryRoute ==
  ASSUME IInv, Route, NEW e \in Entries, NEW x, device' = [device EXCEPT ![e] = x],
         UNCHANGED <<fd, opened, pc, local>>,
         \A f \in Open : fd[f].device_number # e,
         \A p \in Procs : pc[p] \in {"opening", "binding", "calling"} => local[p].entry # e
  PROVE  Held' /\ Sent' /\ OwnDevice'
<1>1. \A o \in Entries \ {e} : device'[o] = device[o]
  BY DEF IInv, TypeOK
<1>2. \A o, d : o # e => (Serves(o, d)' <=> Serves(o, d))
  BY <1>1 DEF Serves
<1>3. Held'
  BY <1>2 DEF Route, Held, Open
<1>4. Sent'
  BY <1>2 DEF Route, Sent
<1> QED
  BY <1>3, <1>4 DEF Route, OwnDevice

LEMMA TablesRoute ==
  ASSUME IInv, Install, Route, Careful,
         \/ \E d \in Drivers : DriverRemove(d)
         \/ \E v \in Devices : DeviceDelete(v) \/ \E name \in Names : DeviceAdd(v, name)
  PROVE  Route'
<1>0. device \in [Entries -> [in_use : BOOLEAN, device : Devices \cup {None},
                              name : Names \cup {<<>>}, driver_number : Slots]]
  BY DEF IInv, TypeOK
<1>1. ASSUME NEW d \in Drivers, DriverRemove(d) PROVE Route'
  <2>1. /\ number[d] # -1 /\ ~DriverUsed(d) /\ number' = [number EXCEPT ![d] = -1]
        /\ UNCHANGED <<device, fd, opened, pc, local>>
    BY <1>1 DEF DriverRemove, Careful
  <2>2. \A c \in Drivers \ {d} : number'[c] = number[c]
    BY <2>1 DEF IInv, TypeOK
  <2>3. Serving'
    <3>1. ASSUME NEW e \in Entries, device[e].in_use
          PROVE  /\ device[e].device \in Devices
                 /\ number'[Driver[device[e].device]] = device[e].driver_number
      <4>1. device[e].device \in Devices /\ Driver[device[e].device] \in Drivers
            /\ number[Driver[device[e].device]] = device[e].driver_number
        BY <3>1, EntryLeads DEF Route, Serving
      <4>2. Driver[device[e].device] # d
        BY <3>1, <4>1, <2>1 DEF DriverUsed
      <4> QED
        BY <4>1, <4>2, <2>2
    <3> QED
      BY <2>1, <3>1 DEF Serving
  <2>4. Named' /\ OwnDevice'
    BY <2>1 DEF Route, Named, OwnDevice
  <2>5. Held' /\ Sent'
    BY <2>1 DEF Route, Held, Sent, Serves, Open
  <2> QED
    BY <2>3, <2>4, <2>5 DEF Route
<1>2. ASSUME NEW v \in Devices, DeviceDelete(v) PROVE Route'
  <2> DEFINE gone == [Unused EXCEPT !.device = v]
  <2>1. PICK e \in Entries : e \in Deletable(v) /\ device' = [device EXCEPT ![e] = gone]
    BY <1>2 DEF DeviceDelete, Least
  <2>2. ~DeviceUsed(v) /\ UNCHANGED <<fd, number, opened, pc, local>>
    BY <1>2 DEF DeviceDelete, Careful
  <2>3. gone.in_use = FALSE /\ gone.name = <<>>
    BY DEF Unused
  <2> HIDE DEF gone
  <2>4. ~Busy(e)
    BY <2>1, <2>2 DEF DeviceUsed, Deletable
  <2>5. Held' /\ Sent' /\ OwnDevice'
    BY <2>1, <2>2, <2>4, EntryRoute DEF Busy
  <2>6. device'[e] = gone /\ \A o \in Entries \ {e} : device'[o] = device[o]
    BY <1>0, <2>1
  <2>7. Named' /\ Serving'
    BY <2>2, <2>3, <2>6 DEF Route, Named, Serving
  <2> QED
    BY <2>5, <2>7 DEF Route
<1>3. ASSUME NEW v \in Devices, NEW name \in Names, DeviceAdd(v, name) PROVE Route'
  <2> DEFINE new == [in_use |-> TRUE, device |-> v, name |-> name, driver_number |-> number[Driver[v]]]
  <2>1. PICK e \in Entries : e \in FreeEntries /\ device' = [device EXCEPT ![e] = new]
    BY <1>3 DEF DeviceAdd, Least
  <2>2. UNCHANGED <<fd, number, opened, pc, local>>
    BY <1>3 DEF DeviceAdd
  <2>3. new.in_use = TRUE /\ new.device = v /\ new.driver_number = number[Driver[v]]
    OBVIOUS
  <2> HIDE DEF new
  <2>4. \A d : ~Serves(e, d)
    BY <2>1 DEF FreeEntries, Serves
  <2>5. Held' /\ Sent' /\ OwnDevice'
    <3>1. \A f \in Open : fd[f].device_number # e
      BY <2>4 DEF Route, Held
    <3>2. \A p \in Procs : pc[p] \in {"opening", "binding", "calling"} => local[p].entry # e
      BY <2>4 DEF Route, Sent
    <3> QED
      BY <2>1, <2>2, <3>1, <3>2, EntryRoute
  <2>6. device'[e] = new /\ \A o \in Entries \ {e} : device'[o] = device[o]
    BY <1>0, <2>1
  <2>7. Named' /\ Serving'
    BY <2>2, <2>3, <2>6 DEF Route, Named, Serving
  <2> QED
    BY <2>5, <2>7 DEF Route
<1> QED
  BY <1>1, <1>2, <1>3

LEMMA RouteStep ==
  ASSUME IInv, Install, Route, Careful, [Next]_vars PROVE Route'
<1>1. CASE UNCHANGED vars
  <2>1. UNCHANGED <<device, fd, number, opened, pc, local>>
    BY <1>1 DEF vars, tables, history
  <2>2. Held' /\ Sent'
    BY <2>1 DEF Route, Held, Sent, Serves, Open
  <2> QED
    BY <2>1, <2>2 DEF Route, Named, Serving, OwnDevice
<1>2. ASSUME NEW p \in Procs, Installing(p) PROVE Route'
  BY <1>2, InstallingRoute
<1>3. ASSUME NEW p \in Procs, Opening(p) PROVE Route'
  BY <1>3, LookRoute, OpenCallRoute, OpenBindRoute DEF Opening
<1>4. ASSUME NEW p \in Procs, Using(p) PROVE Route'
  BY <1>4, LookRoute, CloseClearRoute DEF Using
<1>5. CASE \/ \E d \in Drivers : DriverRemove(d)
           \/ \E v \in Devices : DeviceDelete(v) \/ \E name \in Names : DeviceAdd(v, name)
  BY <1>5, TablesRoute
<1> QED
  BY <1>1, <1>2, <1>3, <1>4, <1>5 DEF Next

LEMMA InitRoute == Init => Route
<1> SUFFICES ASSUME Init PROVE Route
  OBVIOUS
<1>1. \A e \in Entries : device[e] = Unused
  BY DEF Init
<1>2. Open = {} /\ \A p \in Procs : pc[p] = "idle"
  BY DEF Init, Open
<1>3. Len(opened) = 0
  BY DEF Init
<1> QED
  BY <1>1, <1>2, <1>3 DEF Route, Named, Serving, Held, Sent, OwnDevice, Unused

LEMMA RouteAlways ==
  ASSUME Careful PROVE Spec => [](Unraced /\ (~raced => Route))
<1>1. Unraced /\ (~raced => Route) /\ [Next]_vars => (~raced' => Route')
  BY RacedStep, RouteStep DEF Unraced
<1>2. Init => Route
  BY InitRoute
<1> QED
  BY <1>1, <1>2, UnracedInit, UnracedStep, PTL DEF Spec

\* Unless installs have met, close and the other callbacks are given only what the open of
\* the same driver returned, and open only a device of the driver that the search found,
\* although they are called without the mutex and descriptors are closed in use.
THEOREM DriversApart ==
  ASSUME Careful
  PROVE  Spec => []OwnDriver
<1>1. Route => OwnCallback /\ OwnDevice
  BY DEF Route, Sent, OwnCallback, Callers
<1>2. (~raced => Route) => OwnDriver
  BY <1>1 DEF OwnDriver
<1> QED
  BY <1>2, RouteAlways, PTL
-----------------------------------------------------------------------------
(* Nothing is lost where there are as many descriptors as opens: a call that  *)
(* is about to bind a priv finds a free descriptor.                           *)

\* Somebody will close the priv, or has done so.
Minded(i) ==
  \/ closes[i] >= 1
  \/ \E f \in Open : fd[f].priv = i
  \/ \E p \in Procs : InHand(p) /\ local[p].priv = i

Kept == \A i \in 1 .. Len(opened) : Minded(i)

\* After the first installation a descriptor is free or open.
Cleared ==
  first /\ (\A p \in Procs : ~Critical(p)) =>
    \A f \in Fds : fd[f].device_number = -1 \/ fd[f].priv # 0

\* A thread moves that has no priv in hand and is not about to reset the tables.
LEMMA MoveKeeps ==
  ASSUME IInv, Kept, Cleared, UNCHANGED <<first, fd, opened, closes>>,
         NEW p \in Procs, NEW place \in Places, NEW values \in Locals,
         Goto(p, place), Remember(p, values), ~InHand(p), ~Critical(p)
  PROVE  Kept' /\ Cleared'
<1>1. \A q \in Procs \ {p} : pc'[q] = pc[q] /\ local'[q] = local[q]
  BY MoveType
<1>2. Kept'
  <2>1. \A i : Minded(i) => Minded(i)'
    BY <1>1 DEF Minded, InHand, Open
  <2> QED
    BY <2>1 DEF Kept
<1>3. Cleared'
  <2>1. \A q \in Procs : Critical(q) => Critical(q)'
    BY <1>1 DEF Critical
  <2> QED
    BY <2>1 DEF Cleared
<1> QED
  BY <1>2, <1>3

LEMMA InstallingKeeps ==
  ASSUME IInv, Install, Route, Kept, Cleared, NEW p \in Procs, Installing(p)
  PROVE  Kept' /\ Cleared'
<1>1. ASSUME NEW d \in Drivers, InstallFirst(p, d) PROVE Kept' /\ Cleared'
  <2>1. [NoLocal EXCEPT !.foo = d] \in Locals
    BY DEF NoLocal, Locals
  <2>2. UNCHANGED <<first, fd, opened, closes>> /\ ~InHand(p) /\ ~Critical(p)
    BY <1>1 DEF InstallFirst, tables, history, InHand, Critical
  <2>3. (IF first THEN "installing" ELSE "marking") \in Places
    BY DEF Places
  <2> QED
    BY <1>1, <2>1, <2>2, <2>3, MoveKeeps DEF InstallFirst
<1>2. CASE InstallMark(p)
  <2>1. UNCHANGED <<fd, opened, closes, local>> /\ Goto(p, "resetting") /\ pc[p] = "marking"
    BY <1>2 DEF InstallMark, tables, history
  <2>2. pc'[p] = "resetting" /\ \A q \in Procs \ {p} : pc'[q] = pc[q]
    BY <2>1, GotoType DEF Places
  <2>3. \A i : Minded(i) => Minded(i)'
    BY <2>1, <2>2 DEF Minded, InHand, Open
  <2> QED
    BY <2>1, <2>2, <2>3 DEF Kept, Cleared, Critical
<1>3. CASE InstallReset(p)
  <2>1. UNCHANGED <<first, opened, closes, local>> /\ Goto(p, "installing") /\ pc[p] = "resetting"
        /\ Reset
    BY <1>3 DEF InstallReset, history
  <2>2. Open = {}
    BY <2>1, NoneYet DEF Install, Fresh, Critical
  <2>3. pc'[p] = "installing" /\ \A q \in Procs \ {p} : pc'[q] = pc[q]
    BY <2>1, GotoType DEF Places
  <2>4. \A i : Minded(i) => Minded(i)'
    BY <2>1, <2>2, <2>3 DEF Minded, InHand
  <2>5. \A f \in Fds : fd'[f].device_number = -1
    BY <2>1 DEF Reset, IInv, TypeOK
  <2> QED
    BY <2>1, <2>4, <2>5 DEF Kept, Cleared
<1>4. CASE InstallSlot(p)
  BY <1>4, MoveKeeps, NoLocalType DEF InstallSlot, Return, Places, InHand, Critical
<1> QED
  BY <1>1, <1>2, <1>3, <1>4 DEF Installing

LEMMA LookKeeps ==
  ASSUME IInv, Install, Route, Kept, Cleared, NEW p \in Procs,
         \/ OpenFails(p) \/ CallDone(p)
         \/ \E name \in Requests : OpenFind(p, name)
         \/ \E f \in Fds : CallLook(p, f)
  PROVE  Kept' /\ Cleared'
<1>1. CASE OpenFails(p) \/ CallDone(p)
  BY <1>1, MoveKeeps, NoLocalType
     DEF OpenFails, CallDone, Return, Places, InHand, Critical, tables, history
<1>2. ASSUME NEW name \in Requests, OpenFind(p, name) PROVE Kept' /\ Cleared'
  <2>1. PICK e \in Entries :
          Remember(p, [foo |-> driver[device[e].driver_number], entry |-> e, priv |-> 0])
    BY <1>2 DEF OpenFind
  <2>2. driver[device[e].driver_number] \in Drivers \cup {None}
    BY DEF IInv, TypeOK
  <2> DEFINE values == [foo |-> driver[device[e].driver_number], entry |-> e, priv |-> 0]
  <2>3. values \in Locals
    BY <2>2 DEF Locals
  <2>4. Remember(p, values)
    BY <2>1
  <2> HIDE DEF values
  <2> QED
    BY <1>2, <2>3, <2>4, MoveKeeps DEF OpenFind, Places, InHand, Critical, tables, history
<1>3. ASSUME NEW f \in Fds, CallLook(p, f) PROVE Kept' /\ Cleared'
  <2> DEFINE values == Through(f, FALSE)
  <2>1. f \in Open /\ Remember(p, values)
    BY <1>3 DEF CallLook
  <2>2. values \in Locals
    BY <2>1, DescriptorLeads DEF Through, Locals, IInv, TypeOK
  <2> HIDE DEF values
  <2> QED
    BY <1>3, <2>1, <2>2, MoveKeeps DEF CallLook, Places, InHand, Critical, tables, history
<1> QED
  BY <1>1, <1>2, <1>3

LEMMA OpenCallKeeps ==
  ASSUME IInv, Kept, Cleared, NEW p \in Procs, OpenCall(p)
  PROVE  Kept' /\ Cleared'
<1> DEFINE x == [driver |-> local[p].foo, device |-> device[local[p].entry].device]
           values == [local[p] EXCEPT !.priv = Len(opened) + 1]
<1>1. /\ pc[p] = "opening" /\ opened' = Append(opened, x) /\ Remember(p, values)
      /\ Goto(p, "binding") /\ UNCHANGED <<first, fd, closes>> /\ Len(opened) < MaxPrivs
  BY DEF OpenCall, tables
<1>2. opened \in Seq([driver : Drivers, device : Devices \cup {None}]) /\ local[p] \in Locals
      /\ x \in [driver : Drivers, device : Devices \cup {None}]
  BY <1>1 DEF IInv, TypeOK, Finding, Locals
<1> HIDE DEF x
<1>3. Len(opened') = Len(opened) + 1 /\ Len(opened) \in Nat
  BY <1>1, <1>2
<1>4. values \in Locals /\ values.priv = Len(opened) + 1
  <2>1. Len(opened) + 1 \in Privs
    BY <1>1, <1>3, Ranges DEF Privs
  <2> QED
    BY <1>2, <2>1 DEF Locals
<1> HIDE DEF values
<1>5. pc'[p] = "binding" /\ local'[p] = values
      /\ \A q \in Procs \ {p} : pc'[q] = pc[q] /\ local'[q] = local[q]
  BY <1>1, <1>4, MoveType DEF Places
<1>6. ASSUME NEW i \in 1 .. Len(opened') PROVE Minded(i)'
  <2>1. CASE i = Len(opened) + 1
    BY <1>4, <1>5, <2>1 DEF Minded, InHand
  <2>2. CASE i \in 1 .. Len(opened)
    BY <1>1, <1>5, <2>2 DEF Kept, Minded, InHand, Open
  <2> QED
    BY <1>3, <2>1, <2>2
<1>7. Cleared'
  <2>1. \A q \in Procs : Critical(q) => Critical(q)'
    BY <1>1, <1>5 DEF Critical
  <2> QED
    BY <1>1, <2>1 DEF Cleared
<1> QED
  BY <1>6, <1>7 DEF Kept

\* Every descriptor would have a priv of its own, and the one in hand is one more.
LEMMA FreeFound ==
  ASSUME IInv, Install, Route, Cleared, MaxFds >= MaxPrivs,
         NEW p \in Procs, pc[p] = "binding"
  PROVE  FreeFds # {}
<1> SUFFICES ASSUME FreeFds = {} PROVE FALSE
  OBVIOUS
<1>1. first /\ \A q \in Procs : ~Critical(q)
  BY NoneYet DEF Install, Fresh
<1>2. Fds \subseteq Open
  BY <1>1 DEF Cleared, FreeFds, Open
<1> DEFINE T == Privs \ {local[p].priv}
           h == [f \in Fds |-> fd[f].priv]
<1>3. \A f \in Fds : fd[f].priv \in T
  <2>1. \A f \in Fds : fd[f].priv \in {0} \cup Privs /\ fd[f].priv # 0
    BY <1>2 DEF Open, IInv, TypeOK
  <2>2. \A f \in Fds : fd[f].priv # local[p].priv
    BY <1>2 DEF IInv, Closing, OneKeeper, InHand
  <2> QED
    BY <2>1, <2>2
<1>4. h \in Injection(Fds, T)
  <2>1. \A f, g \in Fds : fd[f].priv = fd[g].priv => f = g
    BY <1>2 DEF IInv, Closing, OneKeeper
  <2> QED
    BY <1>3, <2>1 DEF Injection, IsInjective
<1>5. IsFiniteSet(Fds) /\ Cardinality(Fds) = MaxFds /\ MaxFds \in Nat
  BY FS_Interval, DevIoAssumption DEF Fds
<1>6. IsFiniteSet(Privs) /\ Cardinality(Privs) = MaxPrivs /\ MaxPrivs \in Nat
  BY FS_Interval, DevIoAssumption DEF Privs
<1>7. local[p].priv \in Privs
  <2>1. local[p].priv \in 1 .. Len(opened) /\ Len(opened) <= MaxPrivs
    BY DEF IInv, Closing, KeptIsOpened, InHand, TypeOK
  <2>2. Len(opened) \in Nat
    BY DEF IInv, TypeOK
  <2> QED
    BY <2>1, <2>2, <1>6 DEF Privs
<1>8. IsFiniteSet(T) /\ Cardinality(T) = MaxPrivs - 1
  BY <1>6, <1>7, FS_RemoveElement
<1> HIDE DEF T, h
<1>9. Cardinality(Fds) <= Cardinality(T)
  BY <1>4, <1>8, FS_Injection
<1> QED
  BY <1>5, <1>6, <1>8, <1>9

LEMMA OpenBindKeeps ==
  ASSUME IInv, Install, Route, Kept, Cleared, MaxFds >= MaxPrivs,
         NEW p \in Procs, OpenBind(p)
  PROVE  Kept' /\ Cleared'
<1>1. /\ Goto(p, "idle") /\ Remember(p, NoLocal) /\ pc[p] = "binding"
      /\ UNCHANGED <<first, opened, closes>>
  BY DEF OpenBind, Return, history
<1>2. pc'[p] = "idle" /\ \A q \in Procs \ {p} : pc'[q] = pc[q] /\ local'[q] = local[q]
  BY <1>1, MoveType, NoLocalType DEF Places
<1>3. PICK f \in FreeFds :
        fd' = [fd EXCEPT ![f] = [device_number |-> local[p].entry, priv |-> local[p].priv]]
  BY <1>1, FreeFound DEF OpenBind, Least
<1>4. /\ f \in Fds /\ f \notin Open
      /\ fd'[f].device_number = local[p].entry /\ fd'[f].priv = local[p].priv
      /\ \A g \in Fds \ {f} : fd'[g] = fd[g]
  BY <1>3 DEF FreeFds, Open, IInv, TypeOK
<1>5. local[p].entry # -1 /\ local[p].priv # 0
  <2>1. local[p].entry \in Entries /\ local[p].priv \in 1 .. Len(opened)
    BY <1>1 DEF Route, Sent, Serves
  <2> QED
    BY <2>1, Ranges
<1>6. f \in Open' /\ Open \subseteq Open' /\ \A g \in Open : fd'[g] = fd[g]
  BY <1>4, <1>5 DEF Open
<1>7. \A i : Minded(i) => Minded(i)'
  BY <1>1, <1>2, <1>4, <1>6 DEF Minded, InHand
<1>8. Cleared'
  <2>1. \A q \in Procs : Critical(q) => Critical(q)'
    BY <1>1, <1>2 DEF Critical
  <2> QED
    BY <1>1, <1>4, <1>5, <2>1 DEF Cleared
<1> QED
  BY <1>1, <1>7, <1>8 DEF Kept

LEMMA CloseClearKeeps ==
  ASSUME IInv, Install, Route, Kept, Cleared, NEW p \in Procs, NEW f \in Fds, CloseClear(p, f)
  PROVE  Kept' /\ Cleared'
<1> DEFINE values == Through(f, TRUE)
<1>1. /\ pc[p] = "idle" /\ f \in Open /\ fd' = [fd EXCEPT ![f] = Closed]
      /\ UNCHANGED <<first, opened, closes>>
  BY DEF CloseClear, history
<1>2. Leads(f) \in Drivers /\ Leads(f) # None /\ fd[f].priv \in {0} \cup Privs
  BY <1>1, DescriptorLeads DEF IInv, TypeOK
<1>3. Remember(p, values) /\ Goto(p, "closing")
  BY <1>2 DEF CloseClear
<1>4. values \in Locals /\ values.priv = fd[f].priv
  BY <1>2 DEF Through, Locals
<1> HIDE DEF values
<1>5. /\ pc'[p] = "closing" /\ local'[p] = values
      /\ \A q \in Procs \ {p} : pc'[q] = pc[q] /\ local'[q] = local[q]
  BY <1>3, <1>4, MoveType DEF Places
<1>6. fd'[f].device_number = -1 /\ \A g \in Fds \ {f} : fd'[g] = fd[g]
  BY <1>1 DEF IInv, TypeOK, Closed
<1>7. \A g \in Open : g = f \/ (g \in Open' /\ fd'[g] = fd[g])
  BY <1>6 DEF Open
<1>8. \A i : Minded(i) => Minded(i)'
  BY <1>1, <1>4, <1>5, <1>7 DEF Minded, InHand
<1>9. Cleared'
  <2>1. \A q \in Procs : Critical(q) => Critical(q)'
    BY <1>1, <1>5 DEF Critical
  <2> QED
    BY <1>1, <1>6, <2>1 DEF Cleared
<1> QED
  BY <1>1, <1>8, <1>9 DEF Kept

LEMMA CloseCallKeeps ==
  ASSUME IInv, Kept, Cleared, NEW p \in Procs, CloseCall(p)
  PROVE  Kept' /\ Cleared'
<1>1. /\ Goto(p, "idle") /\ Remember(p, NoLocal) /\ pc[p] = "closing"
      /\ closes' = [closes EXCEPT ![local[p].priv] = @ + 1]
      /\ UNCHANGED <<first, fd, opened>>
  BY DEF CloseCall, Return, tables
<1>2. pc'[p] = "idle" /\ \A q \in Procs \ {p} : pc'[q] = pc[q] /\ local'[q] = local[q]
  BY <1>1, MoveType, NoLocalType DEF Places
<1>3. closes \in [Privs -> Nat] /\ local[p].priv \in 1 .. Len(opened)
  BY <1>1 DEF IInv, TypeOK, Closing, KeptIsOpened, InHand
<1>4. 1 .. Len(opened) \subseteq Privs
  BY Ranges DEF IInv, TypeOK, Privs
<1>5. ASSUME NEW i \in 1 .. Len(opened) PROVE Minded(i)'
  <2>1. CASE i = local[p].priv
    BY <1>1, <1>3, <1>4, <2>1 DEF Minded
  <2>2. CASE i # local[p].priv
    <3>1. Minded(i) /\ closes'[i] = closes[i]
      BY <1>1, <1>3, <1>4, <2>2 DEF Kept
    <3> QED
      BY <1>1, <1>2, <2>2, <3>1 DEF Minded, InHand, Open
  <2> QED
    BY <2>1, <2>2
<1>6. Cleared'
  <2>1. \A q \in Procs : Critical(q) => Critical(q)'
    BY <1>1, <1>2 DEF Critical
  <2> QED
    BY <1>1, <2>1 DEF Cleared
<1> QED
  BY <1>1, <1>5, <1>6 DEF Kept

LEMMA KeepsStep ==
  ASSUME IInv, Install, Route, Kept, Cleared, MaxFds >= MaxPrivs, [Next]_vars
  PROVE  Kept' /\ Cleared'
<1>1. ASSUME UNCHANGED <<first, fd, opened, closes, pc, local>> PROVE Kept' /\ Cleared'
  BY <1>1 DEF Kept, Minded, Cleared, InHand, Open, Critical
<1>2. CASE UNCHANGED vars
  BY <1>1, <1>2 DEF vars, tables, history
<1>3. ASSUME NEW p \in Procs, Installing(p) PROVE Kept' /\ Cleared'
  BY <1>3, InstallingKeeps
<1>4. ASSUME NEW p \in Procs, Opening(p) PROVE Kept' /\ Cleared'
  BY <1>4, LookKeeps, OpenCallKeeps, OpenBindKeeps DEF Opening
<1>5. ASSUME NEW p \in Procs, Using(p) PROVE Kept' /\ Cleared'
  BY <1>5, LookKeeps, CloseClearKeeps, CloseCallKeeps DEF Using
<1>6. CASE \/ \E d \in Drivers : DriverRemove(d)
           \/ \E v \in Devices : DeviceDelete(v) \/ \E name \in Names : DeviceAdd(v, name)
  BY <1>1, <1>6 DEF DriverRemove, DeviceDelete, DeviceAdd
<1> QED
  BY <1>2, <1>3, <1>4, <1>5, <1>6 DEF Next

\* The counts of NothingLost follow: of each priv there is at most one keeper of a kind.
LEMMA KeptCounts == IInv /\ Kept => NothingLost
<1> SUFFICES ASSUME IInv, Kept, NEW i \in 1 .. Len(opened) PROVE closes[i] + Keepers(i) >= 1
  BY DEF NothingLost
<1> DEFINE F == {f \in Open : fd[f].priv = i}
           P == {p \in Callers("binding") \cup Callers("closing") : local[p].priv = i}
<1>1. Keepers(i) = Cardinality(F) + Cardinality(P)
  BY DEF Keepers
<1>2. \A p : p \in P <=> p \in Procs /\ InHand(p) /\ local[p].priv = i
  BY DEF Callers, InHand
<1>3. \A f : f \in F <=> f \in Open /\ fd[f].priv = i
  OBVIOUS
<1> HIDE DEF F, P
<1>4. \A f, g \in F : f = g
  BY <1>3 DEF IInv, Closing, OneKeeper
<1>5. \A p, q \in P : p = q
  BY <1>2 DEF IInv, Closing, OneKeeper
<1>6. Cardinality(F) \in {0, 1} /\ Cardinality(P) \in {0, 1}
  BY <1>4, <1>5, AtMostOne
<1>7. F # {} => Cardinality(F) = 1
  <2>1. F # {} => \E x : F = {x}
    BY <1>4
  <2> QED
    BY <2>1, FS_Singleton
<1>8. P # {} => Cardinality(P) = 1
  <2>1. P # {} => \E x : P = {x}
    BY <1>5
  <2> QED
    BY <2>1, FS_Singleton
<1>9. closes[i] >= 1 \/ F # {} \/ P # {}
  BY <1>2, <1>3 DEF Kept, Minded
<1>10. closes[i] \in Nat
  <2>1. i \in Privs
    BY Ranges DEF IInv, TypeOK, Privs
  <2> QED
    BY <2>1 DEF IInv, TypeOK
<1> QED
  BY <1>1, <1>6, <1>7, <1>8, <1>9, <1>10

\* Unless installs have met, what a driver's open returned is closed, or there is a
\* descriptor or a call on its way to the close, if there is a descriptor for each and
\* the application is careful.
THEOREM OpenedIsKept ==
  ASSUME Careful, MaxFds >= MaxPrivs
  PROVE  Spec => []NothingLost
<1>1. Init => Kept /\ Cleared
  BY DEF Init, Kept, Cleared
<1>2. /\ Unraced /\ (~raced => Route) /\ (~raced => Kept /\ Cleared) /\ [Next]_vars
      => (~raced' => Kept' /\ Cleared')
  BY KeepsStep, RacedStep DEF Unraced
<1>3. Unraced /\ (~raced => Kept /\ Cleared) => NothingLost
  BY KeptCounts DEF Unraced, NothingLost
<1> QED
  BY <1>1, <1>2, <1>3, RouteAlways, PTL DEF Spec
-----------------------------------------------------------------------------
(* DEVIO_device_delete clears the first entry with the pointer, used or not:  *)
(* the entry in use has no other before it, if a device has one name at most.   *)

InUse(e, v) == e \in Entries /\ device[e].in_use /\ device[e].device = v

Counted ==
  \A v \in Devices :
    /\ present[v] = 0 => \A e \in Entries : ~InUse(e, v)
    /\ present[v] = 1 => \E e \in Entries : InUse(e, v)

FirstInUse ==
  \A v \in Devices, e, o \in Entries : InUse(e, v) /\ device[o].device = v => e <= o

DeviceTable == Counted /\ FirstInUse

LEMMA AddTable ==
  ASSUME IInv, DeviceTable, MaxTimes <= 1, NEW v \in Devices, NEW name \in Names,
         DeviceAdd(v, name)
  PROVE  DeviceTable'
<1> DEFINE new == [in_use |-> TRUE, device |-> v, name |-> name, driver_number |-> number[Driver[v]]]
<1>1. PICK e \in Entries : Least(e, FreeEntries) /\ device' = [device EXCEPT ![e] = new]
  BY DEF DeviceAdd
<1>2. present \in [Devices -> 0 .. MaxTimes] /\ MaxTimes \in Nat
  BY DevIoAssumption DEF IInv, TypeOK
<1>3. present[v] = 0 /\ present' = [present EXCEPT ![v] = 1]
  <2>1. present[v] \in Nat /\ present[v] < 1 /\ present' = [present EXCEPT ![v] = present[v] + 1]
    BY <1>2 DEF DeviceAdd
  <2>2. present[v] = 0
    BY <2>1
  <2> QED
    BY <2>1, <2>2
<1>4. new.in_use = TRUE /\ new.device = v
  OBVIOUS
<1> HIDE DEF new
<1>5. device'[e] = new /\ \A o \in Entries \ {e} : device'[o] = device[o]
  BY <1>1 DEF IInv, TypeOK
<1>6. \A o \in Entries : ~InUse(o, v)
  BY <1>3 DEF DeviceTable, Counted
<1>7. \A o \in Entries : InUse(o, v)' <=> o = e
  BY <1>4, <1>5, <1>6 DEF InUse
<1>8. \A w \in Devices \ {v}, o \in Entries : InUse(o, w)' <=> InUse(o, w)
  <2>1. \A w : ~InUse(e, w)
    BY <1>1 DEF InUse, Least, FreeEntries
  <2> QED
    BY <1>4, <1>5, <2>1 DEF InUse
<1>9. Counted'
  <2>1. present'[v] = 1 /\ \A w \in Devices \ {v} : present'[w] = present[w]
    BY <1>2, <1>3
  <2> QED
    BY <1>7, <1>8, <2>1 DEF DeviceTable, Counted
<1>10. FirstInUse'
  <2>1. ASSUME NEW o \in Entries, device'[o].device = v PROVE e <= o
    <3>1. CASE o = e
      BY <3>1, Ranges
    <3>2. CASE o # e
      <4>1. ~device[o].in_use
        BY <1>5, <1>6, <2>1, <3>2 DEF InUse
      <4> QED
        BY <1>1, <4>1 DEF Least, FreeEntries
    <3> QED
      BY <3>1, <3>2
  <2>2. \A w \in Devices \ {v}, x, o \in Entries :
          InUse(x, w)' /\ device'[o].device = w => x <= o
    BY <1>4, <1>5, <1>8 DEF DeviceTable, FirstInUse
  <2> QED
    BY <1>7, <2>1, <2>2 DEF FirstInUse
<1> QED
  BY <1>9, <1>10 DEF DeviceTable

LEMMA DeleteTable ==
  ASSUME IInv, DeviceTable, MaxTimes <= 1, NEW v \in Devices, DeviceDelete(v)
  PROVE  DeviceTable'
<1> DEFINE gone == [Unused EXCEPT !.device = v]
<1>1. PICK e \in Entries : Least(e, Deletable(v)) /\ device' = [device EXCEPT ![e] = gone]
  BY DEF DeviceDelete
<1>2. present \in [Devices -> 0 .. MaxTimes] /\ MaxTimes \in Nat
  BY DevIoAssumption DEF IInv, TypeOK
<1>3. present[v] = 1 /\ present' = [present EXCEPT ![v] = 0]
  <2>1. present[v] \in 0 .. MaxTimes
    BY <1>2
  <2>2. present[v] > 0 /\ present' = [present EXCEPT ![v] = present[v] - 1]
    BY DEF DeviceDelete
  <2>3. present[v] = 1
    BY <1>2, <2>1, <2>2
  <2> QED
    BY <2>2, <2>3
<1>4. gone.in_use = FALSE /\ gone.device = v
  BY DEF Unused
<1> HIDE DEF gone
<1>5. device'[e] = gone /\ \A o \in Entries \ {e} : device'[o] = device[o]
  BY <1>1 DEF IInv, TypeOK
<1>6. device[e].device = v /\ InUse(e, v)
  <2>1. PICK x \in Entries : InUse(x, v)
    BY <1>3 DEF DeviceTable, Counted
  <2>2. device[e].device = v /\ e <= x
    BY <1>1, <2>1 DEF Least, Deletable, InUse
  <2>3. x <= e
    BY <2>1, <2>2 DEF DeviceTable, FirstInUse
  <2>4. x = e
    BY <2>2, <2>3, Ranges
  <2> QED
    BY <2>1, <2>2, <2>4
<1>7. \A o \in Entries : InUse(o, v) => o = e
  <2>1. ASSUME NEW o \in Entries, InUse(o, v) PROVE o = e
    <3>1. o <= e /\ e <= o
      BY <1>6, <2>1 DEF DeviceTable, FirstInUse, InUse
    <3> QED
      BY <3>1, Ranges
  <2> QED
    BY <2>1
<1>8. \A o \in Entries : ~InUse(o, v)'
  BY <1>4, <1>5, <1>7 DEF InUse
<1>9. \A w \in Devices \ {v}, o \in Entries : InUse(o, w)' <=> InUse(o, w)
  BY <1>4, <1>5, <1>6 DEF InUse
<1>10. Counted'
  <2>1. present'[v] = 0 /\ \A w \in Devices \ {v} : present'[w] = present[w]
    BY <1>2, <1>3
  <2> QED
    BY <1>8, <1>9, <2>1 DEF DeviceTable, Counted
<1>11. FirstInUse'
  <2>1. \A w \in Devices \ {v}, x, o \in Entries :
          InUse(x, w)' /\ device'[o].device = w => x <= o
    BY <1>4, <1>5, <1>9 DEF DeviceTable, FirstInUse
  <2> QED
    BY <1>8, <2>1 DEF FirstInUse
<1> QED
  BY <1>10, <1>11 DEF DeviceTable

LEMMA TableStep ==
  ASSUME IInv, DeviceTable, MaxTimes <= 1, [Next]_vars PROVE DeviceTable'
<1>1. ASSUME UNCHANGED <<device, present>> PROVE DeviceTable'
  BY <1>1 DEF DeviceTable, Counted, FirstInUse, InUse
<1>2. CASE UNCHANGED vars
  BY <1>1, <1>2 DEF vars, tables, history
<1>3. ASSUME NEW p \in Procs, Installing(p) PROVE DeviceTable'
  BY <1>1, <1>3 DEF Installing, InstallFirst, InstallMark, InstallReset, InstallSlot, tables, history
<1>4. ASSUME NEW p \in Procs, Opening(p) PROVE DeviceTable'
  BY <1>1, <1>4 DEF Opening, OpenCall, OpenFails, OpenBind, OpenFind, tables, history
<1>5. ASSUME NEW p \in Procs, Using(p) PROVE DeviceTable'
  BY <1>1, <1>5 DEF Using, CloseCall, CallDone, CloseClear, CallLook, tables, history
<1>6. ASSUME NEW d \in Drivers, DriverRemove(d) PROVE DeviceTable'
  BY <1>1, <1>6 DEF DriverRemove
<1> QED
  BY <1>2, <1>3, <1>4, <1>5, <1>6, AddTable, DeleteTable DEF Next

LEMMA TableCounts ==
  ASSUME IInv, DeviceTable, MaxTimes <= 1 PROVE DevicesPresent
<1> SUFFICES ASSUME NEW v \in Devices
             PROVE  Cardinality({e \in Entries : device[e].in_use /\ device[e].device = v}) = present[v]
  BY DEF DevicesPresent
<1> DEFINE S == {e \in Entries : device[e].in_use /\ device[e].device = v}
<1>1. present[v] \in {0, 1}
  <2>1. present[v] \in 0 .. MaxTimes /\ MaxTimes \in Nat
    BY DevIoAssumption DEF IInv, TypeOK
  <2> QED
    BY <2>1
<1>2. \A e : e \in S <=> InUse(e, v)
  BY DEF InUse
<1> HIDE DEF S
<1>3. CASE present[v] = 0
  <2>1. S = {}
    BY <1>2, <1>3 DEF DeviceTable, Counted, InUse
  <2> QED
    BY <1>3, <2>1, FS_EmptySet DEF S
<1>4. CASE present[v] = 1
  <2>1. PICK e \in Entries : InUse(e, v)
    BY <1>4 DEF DeviceTable, Counted
  <2>2. ASSUME NEW o \in S PROVE o = e
    <3>1. o \in Entries /\ o <= e /\ e <= o
      BY <1>2, <2>1, <2>2 DEF DeviceTable, FirstInUse, InUse
    <3> QED
      BY <3>1, Ranges
  <2>3. S = {e}
    BY <1>2, <2>1, <2>2
  <2> QED
    BY <1>4, <2>3, FS_Singleton DEF S
<1> QED
  BY <1>1, <1>3, <1>4

\* The table has every device that was added and not deleted once, and no other,
\* whatever is removed and deleted in use, if none is added under a second name.
THEOREM DevicesCounted ==
  ASSUME MaxTimes <= 1
  PROVE  Spec => []DevicesPresent
<1>1. Init => IInv /\ DeviceTable
  BY InitInvariant DEF Init, DeviceTable, Counted, FirstInUse, InUse, Unused
<1>2. IInv /\ DeviceTable /\ [Next]_vars => (IInv /\ DeviceTable)'
  BY NextInvariant, TableStep
<1>3. IInv /\ DeviceTable => DevicesPresent
  BY TableCounts
<1> QED
  BY <1>1, <1>2, <1>3, PTL DEF Spec

\* Every variable of the three tables and their users keeps its type, whatever is
\* taken away in use.
THEOREM DevIoTypes == Spec => []TypeOK
<1>1. IInv => TypeOK
  BY DEF IInv
<1> QED
  BY <1>1, InitInvariant, NextInvariant, PTL DEF Spec
=============================================================================
