----------------------------- MODULE MemoryMap -----------------------------
(***************************************************************************)
(* Phy2VirtMap and Phy2VirtUnmap of all ports: several drivers map and unmap  *)
(* regions of the physical memory.  The Linux kernel keeps a list of reserved *)
(* regions, and mapping is three calls of it with nothing to hold them       *)
(* together: look whether the region is free, reserve it, map it.  A driver   *)
(* keeps the address it asked for when its call fails, and may pass it to     *)
(* Phy2VirtUnmap to clean up.  The other ports hand the address back as it    *)
(* is.  A driver's pointer is not set at first; on RTEMS it may also hold     *)
(* whatever it held before.                                                  *)
(***************************************************************************)
EXTENDS Integers, FiniteSets

CONSTANTS
  Ports,
  Drivers,
  Regions,   \* sets of addresses; a region starts at the least of its addresses
  InterfaceCheck   \* IFXOS_INTERFACE_CHECK: whether arguments are checked

AllPorts ==
  {"linux_drv", "linux_appl", "ecos", "vxworks", "win32", "nucleus", "rtems", "generic"}

\* What is assumed of the constants.
MemoryMapAssumption ==
  /\ Ports \subseteq AllPorts
  /\ Regions \subseteq (SUBSET Nat) \ {{}}
  /\ InterfaceCheck \in BOOLEAN

VARIABLES
  port,
  busy,    \* the regions on the kernel's list
  pc,      \* what each driver does
  region,  \* the region it has asked for last, and has not given back
  virt,    \* whether its pointer to the virtual address is set
  told,    \* what its last call of Phy2VirtMap returned, and why
  disputed \* the addresses that were refused unseen, or given back by who had them not

vars == <<port, busy, pc, region, virt, told, disputed>>

NoRegion == {}

Start(r) == CHOOSE a \in r : \A b \in r : a <= b

Overlaps(r) == \E s \in busy : s \cap r # {}

Init ==
  /\ port \in Ports
  /\ busy = {}
  /\ pc = [d \in Drivers |-> "idle"]
  /\ region = [d \in Drivers |-> NoRegion]
  /\ virt \in {v \in [Drivers -> BOOLEAN] : \A d \in Drivers : v[d] => port = "rtems"}
  /\ told = [d \in Drivers |-> "none"]
  /\ disputed = {}

Tells(d, answer) == told' = [told EXCEPT ![d] = answer]

\* A pointer that is set is not set anew.
Accepts(d) == InterfaceCheck => ~virt[d]

Refuses(p, d) ==
  /\ port = p /\ pc[d] = "idle" /\ ~Accepts(d)
  /\ Tells(d, "refused")
  /\ UNCHANGED <<port, busy, pc, region, virt, disputed>>

-----------------------------------------------------------------------------
(* The Linux kernel.                                                        *)

\* check_mem_region: a region that is taken is an error.
CheckRegion(d, r) ==
  \/ Refuses("linux_drv", d)
  \/ /\ port = "linux_drv" /\ pc[d] = "idle" /\ Accepts(d)
     /\ ~Overlaps(r)
     /\ pc' = [pc EXCEPT ![d] = "checked"]
     /\ region' = [region EXCEPT ![d] = r]
     /\ UNCHANGED <<port, busy, virt, told, disputed>>
  \/ /\ port = "linux_drv" /\ pc[d] = "idle" /\ Accepts(d)
     /\ Overlaps(r)
     /\ region' = [region EXCEPT ![d] = r]
     /\ Tells(d, "error")
     /\ UNCHANGED <<port, busy, pc, virt, disputed>>

\* request_mem_region, whose result is not looked at: "can't fail".
RequestRegion(d) ==
  /\ pc[d] = "checked"
  /\ busy' = IF Overlaps(region[d]) THEN busy ELSE busy \cup {region[d]}
  /\ disputed' = IF Overlaps(region[d]) THEN disputed \cup region[d] ELSE disputed
  /\ pc' = [pc EXCEPT ![d] = "requested"]
  /\ UNCHANGED <<port, region, virt, told>>

\* Mutant: the mapping failed, and the region stays reserved.
RemapMut_Kept(d) ==
  /\ pc[d] = "requested"
  /\ \/ /\ virt' = [virt EXCEPT ![d] = TRUE]
        /\ Tells(d, "success")
        /\ UNCHANGED <<busy, region>>
     \/ /\ Tells(d, "error")
        /\ UNCHANGED <<busy, region, virt>>
  /\ pc' = [pc EXCEPT ![d] = "idle"]
  /\ UNCHANGED <<port, disputed>>

\* ioremap_nocache, which may fail.
Remap(d) ==
  /\ pc[d] = "requested"
  /\ \/ /\ virt' = [virt EXCEPT ![d] = TRUE]
        /\ Tells(d, "success")
        /\ UNCHANGED busy
     \/ /\ busy' = busy \ {region[d]}
        /\ Tells(d, "error")
        /\ UNCHANGED virt
  /\ pc' = [pc EXCEPT ![d] = "idle"]
  /\ UNCHANGED <<port, region, disputed>>

\* Mutant: the region is given back before the virtual address.
UnmapVirtMut_Swapped(d) ==
  /\ port = "linux_drv" /\ pc[d] = "idle" /\ virt[d]
  /\ busy' = busy \ {region[d]}
  /\ pc' = [pc EXCEPT ![d] = "unmapped"]
  /\ UNCHANGED <<port, region, virt, told, disputed>>

\* iounmap of a pointer that is set; without one the call goes on all the same.
UnmapVirt(d) ==
  /\ port = "linux_drv" /\ pc[d] = "idle"
  /\ virt[d] \/ region[d] # NoRegion
  /\ virt' = [virt EXCEPT ![d] = FALSE]
  /\ pc' = [pc EXCEPT ![d] = IF virt[d] THEN "unmapped" ELSE "cleaning"]
  /\ Tells(d, "none")
  /\ UNCHANGED <<port, busy, region, disputed>>

\* release_mem_region, but not of a region that starts at address 0; whoever is cleaning
\* up gives back what another driver has.
ReleaseRegion(d) ==
  /\ pc[d] \in {"unmapped", "cleaning"}
  /\ busy' = IF Start(region[d]) # 0 THEN busy \ {region[d]} ELSE busy
  /\ disputed' = IF pc[d] = "cleaning" /\ region[d] \in busy
                   THEN disputed \cup region[d] ELSE disputed
  /\ region' = [region EXCEPT ![d] = NoRegion]
  /\ pc' = [pc EXCEPT ![d] = "idle"]
  /\ UNCHANGED <<port, virt, told>>

LinuxDrvMap(d, r) == CheckRegion(d, r) \/ RequestRegion(d) \/ Remap(d)
LinuxDrvUnmap(d) == UnmapVirt(d) \/ ReleaseRegion(d)

-----------------------------------------------------------------------------
(* The other ports.                                                         *)

Assigns(p, d, r) ==
  /\ port = p
  /\ region' = [region EXCEPT ![d] = r]
  /\ virt' = [virt EXCEPT ![d] = TRUE]
  /\ Tells(d, "success")
  /\ UNCHANGED <<port, busy, pc, disputed>>

Clears(p, d) ==
  /\ port = p /\ virt[d]
  /\ region' = [region EXCEPT ![d] = NoRegion]
  /\ virt' = [virt EXCEPT ![d] = FALSE]
  /\ Tells(d, "none")
  /\ UNCHANGED <<port, busy, pc, disputed>>

LinuxApplMap(d, r) == (Accepts(d) /\ Assigns("linux_appl", d, r)) \/ Refuses("linux_appl", d)
EcosMap(d, r) == (Accepts(d) /\ Assigns("ecos", d, r)) \/ Refuses("ecos", d)
VxworksMap(d, r) == (Accepts(d) /\ Assigns("vxworks", d, r)) \/ Refuses("vxworks", d)
Win32Map(d, r) == (Accepts(d) /\ Assigns("win32", d, r)) \/ Refuses("win32", d)
NucleusMap(d, r) == (Accepts(d) /\ Assigns("nucleus", d, r)) \/ Refuses("nucleus", d)
GenericMap(d, r) == (Accepts(d) /\ Assigns("generic", d, r)) \/ Refuses("generic", d)

\* The test is the other way round.
RtemsMap(d, r) ==
  \/ (InterfaceCheck => virt[d]) /\ Assigns("rtems", d, r)
  \/ /\ port = "rtems" /\ InterfaceCheck /\ ~virt[d]
     /\ Tells(d, "refused")
     /\ UNCHANGED <<port, busy, pc, region, virt, disputed>>

LinuxApplUnmap(d) == Clears("linux_appl", d)
EcosUnmap(d) == Clears("ecos", d)
VxworksUnmap(d) == Clears("vxworks", d)
Win32Unmap(d) == Clears("win32", d)
NucleusUnmap(d) == Clears("nucleus", d)
RtemsUnmap(d) == Clears("rtems", d)
GenericUnmap(d) == Clears("generic", d)

-----------------------------------------------------------------------------
Phy2VirtMap(d, r) ==
  \/ LinuxDrvMap(d, r) \/ LinuxApplMap(d, r) \/ EcosMap(d, r) \/ VxworksMap(d, r)
  \/ Win32Map(d, r) \/ NucleusMap(d, r) \/ RtemsMap(d, r) \/ GenericMap(d, r)

Phy2VirtUnmap(d) ==
  \/ LinuxDrvUnmap(d) \/ LinuxApplUnmap(d) \/ EcosUnmap(d) \/ VxworksUnmap(d)
  \/ Win32Unmap(d) \/ NucleusUnmap(d) \/ RtemsUnmap(d) \/ GenericUnmap(d)

Next == \E d \in Drivers : Phy2VirtUnmap(d) \/ \E r \in Regions : Phy2VirtMap(d, r)

Spec == Init /\ [][Next]_vars

-----------------------------------------------------------------------------
Mapped == {d \in Drivers : virt[d]}

\* The drivers that have asked the kernel's list for their region and not given it back.
Holders == {d \in Drivers : virt[d] \/ pc[d] \in {"requested", "unmapped"}}

\* "This sequence will reserve the requested memory region, so no following user can
\* remap the same area after this": an address that two drivers have mapped is one that
\* another took between a driver's look and its request, or that was given back by a
\* driver which did not have it.
OneUser ==
  port = "linux_drv" =>
    \A d, e \in Mapped : d # e => region[d] \cap region[e] \subseteq disputed

\* The kernel's list has the regions that drivers have, each until its driver has
\* unmapped it, but for disputed ones, and no others: what fails half-way leaves nothing
\* reserved.  A region at address 0 is never given back.
ListTrue ==
  port = "linux_drv" =>
    /\ \A d \in Mapped : region[d] \in busy \/ region[d] \subseteq disputed
    /\ \A r \in busy : Start(r) = 0 \/ \E d \in Holders : region[d] = r

\* "ppVirtAddr  Returns the pointer to the virtual mapped address [O]": a pointer that is
\* not set is no reason to refuse.
FreshIsMapped == \A d \in Drivers : told[d] = "refused" => virt[d]

\* OneUser without its exception.
MappedAlone ==
  port = "linux_drv" => \A d, e \in Mapped : d # e => region[d] \cap region[e] = {}
=============================================================================
